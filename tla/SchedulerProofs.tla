----------------------------- MODULE SchedulerProofs -----------------------------
(***************************************************************************)
(* Proofs about Scheduler, with its history, for any set of jobs and any   *)
(* number of requests and triggers.                                        *)
(***************************************************************************)
EXTENDS SchedulerHistory, FiniteSetTheorems, TLAPS

USE SchedulerAssumption, SentinelAssumption

\* Writing a row, and handing it out without its passphrase, yield rows.
LEMMA WrittenIsRow ==
    ASSUME NEW c \in Content, NEW n \in 0 .. MaxRev
    PROVE  Written(c, n) \in Row /\ Returned(Written(c, n)) \in Row
<1> DEFINE r == Written(c, n)
<1>1. r \in Row
  BY DEF Written, Content, Row
<1>2. Returned(r) \in Row
  <2>1. \A s \in {"none", "given", "missing"} : [r EXCEPT !.secret = s] \in Row
    <3> HIDE DEF r
    <3> QED  BY <1>1 DEF Row
  <2>2. CASE r.secret = "given"
    <3>1. Returned(r) = [r EXCEPT !.secret = "missing"]
      BY <2>2 DEF Returned
    <3> QED  BY <2>1, <3>1
  <2>3. CASE r.secret # "given"
    <3>1. Returned(r) = [r EXCEPT !.secret = r.secret]
      BY <2>3 DEF Returned
    <3> QED  BY <1>1, <2>1, <3>1 DEF Row
  <2> QED  BY <2>2, <2>3
<1> QED  BY <1>1, <1>2

\* So does the UPDATE of handleToggleJob.
LEMMA ToggledIsRow ==
    ASSUME NEW r \in Row, NEW on \in BOOLEAN, r.rev < MaxRev
    PROVE  [r EXCEPT !.enabled = on, !.rev = @ + 1] \in Row
<1>1. r.rev + 1 \in 0 .. MaxRev
  BY DEF Row
<1> QED  BY <1>1 DEF Row

\* AddJob keeps the types of what they write.
LEMMA AddJobType ==
    ASSUME TypeOK, NEW j \in Jobs, NEW r \in Row, AddJob(j, r)
    PROVE  /\ entryIDs' \in [Jobs -> Nat]
           /\ entries' \subseteq [id : Nat \ {0}, job : Jobs, row : Row]
           /\ lastID' \in Nat
<1>1. Without(j) \subseteq [id : Nat \ {0}, job : Jobs, row : Row]
  BY DEF TypeOK, Without
<1>2. lastID + 1 \in Nat \ {0} /\ lastID \in Nat
  BY DEF TypeOK
<1>3. [id |-> lastID + 1, job |-> j, row |-> r] \in [id : Nat \ {0}, job : Jobs, row : Row]
  BY <1>2
<1>4. CASE r.enabled /\ r.cronOk
  <2>1. /\ entries' = Without(j) \cup {[id |-> lastID + 1, job |-> j, row |-> r]}
        /\ entryIDs' = [entryIDs EXCEPT ![j] = lastID + 1]
        /\ lastID' = lastID + 1
    BY <1>4 DEF AddJob
  <2> QED  BY <1>1, <1>2, <1>3, <2>1 DEF TypeOK
<1>5. CASE ~(r.enabled /\ r.cronOk)
  <2>1. /\ entries' = Without(j)
        /\ entryIDs' = [entryIDs EXCEPT ![j] = 0]
        /\ lastID' = lastID
    BY <1>5 DEF AddJob
  <2> QED  BY <1>1, <1>2, <2>1 DEF TypeOK
<1> QED  BY <1>4, <1>5

\* ... and so does RemoveJob.
LEMMA RemoveJobType ==
    ASSUME TypeOK, NEW j \in Jobs, RemoveJob(j)
    PROVE  /\ entryIDs' \in [Jobs -> Nat]
           /\ entries' \subseteq [id : Nat \ {0}, job : Jobs, row : Row]
           /\ lastID' \in Nat
BY DEF RemoveJob, TypeOK, Without

\* loadJobs gives finitely many ids.
LEMMA LoadableFinite == Cardinality(Loadable) \in Nat
BY FS_Subset, FS_CardinalityType DEF Loadable

-----------------------------------------------------------------------------
(* Type correctness, one lemma per kind of step *)

\* The first step of a request: its statement on the jobs table.
LEMMA TypeRequest ==
    ASSUME TypeOK, NEW p \in Admins, NEW j \in Jobs,
           \/ DeleteJob(p, j)
           \/ \E c \in Content : CreateJob(p, j, c) \/ UpdateJob(p, j, c)
           \/ \E on \in BOOLEAN : ToggleJob(p, j, on)
    PROVE  TypeOK'
<1> DEFINE Effect ==
      /\ rows' \in [Jobs -> Row \cup {NoRow, Deleted}]
      /\ snap' \in [Admins -> Row \cup {NoRow}]
      /\ arg' = [arg EXCEPT ![p] = j]
      /\ \/ pc' = [pc EXCEPT ![p] = "removing"]
         \/ pc' = [pc EXCEPT ![p] = "written"]
         \/ pc' = [pc EXCEPT ![p] = "loaded"] /\ snap'[p] \in Row
      /\ \A q \in Admins : q # p => snap'[q] = snap[q]
      /\ UNCHANGED <<entryIDs, entries, lastID, tpc, tjob, trow>>
<1>1. Effect
  <2>1. CASE DeleteJob(p, j)
    BY <2>1 DEF DeleteJob, Step, TypeOK, cronVars, triggerVars
  <2>2. ASSUME NEW c \in Content, CreateJob(p, j, c) PROVE Effect
    <3> DEFINE r == Written(c, 0)
    <3>1. r \in Row /\ Returned(r) \in Row
      BY WrittenIsRow
    <3>2. /\ rows' = [rows EXCEPT ![j] = r]
          /\ snap' = [snap EXCEPT ![p] = Returned(r)]
          /\ arg' = [arg EXCEPT ![p] = j]
          /\ pc' = [pc EXCEPT ![p] = "loaded"]
          /\ UNCHANGED <<entryIDs, entries, lastID, tpc, tjob, trow>>
      BY <2>2 DEF CreateJob, Step, cronVars, triggerVars
    <3> HIDE DEF r
    <3> QED  BY <3>1, <3>2 DEF TypeOK
  <2>3. ASSUME NEW c \in Content, UpdateJob(p, j, c) PROVE Effect
    <3> DEFINE r == Written(c, rows[j].rev + 1)
    <3>1. rows[j].rev + 1 \in 0 .. MaxRev
      BY <2>3 DEF UpdateJob, Exists, Row
    <3>2. r \in Row
      BY <3>1, WrittenIsRow
    <3>3. /\ rows' = [rows EXCEPT ![j] = r]
          /\ arg' = [arg EXCEPT ![p] = j]
          /\ pc' = [pc EXCEPT ![p] = "written"]
          /\ UNCHANGED <<snap, entryIDs, entries, lastID, tpc, tjob, trow>>
      BY <2>3 DEF UpdateJob, Step, cronVars, triggerVars
    <3> HIDE DEF r
    <3> QED  BY <3>2, <3>3 DEF TypeOK
  <2>4. ASSUME NEW on \in BOOLEAN, ToggleJob(p, j, on) PROVE Effect
    <3> DEFINE r == [rows[j] EXCEPT !.enabled = on, !.rev = @ + 1]
    <3>1. rows[j] \in Row /\ rows[j].rev < MaxRev
      BY <2>4 DEF ToggleJob, Exists
    <3>2. r \in Row
      BY <3>1, ToggledIsRow
    <3>3. rows' = [rows EXCEPT ![j] = r]
      BY <2>4, <3>1, ZenonT(40) DEF ToggleJob, Row, TypeOK
    <3>4. /\ arg' = [arg EXCEPT ![p] = j]
          /\ pc' = [pc EXCEPT ![p] = "written"]
          /\ UNCHANGED <<snap, entryIDs, entries, lastID, tpc, tjob, trow>>
      BY <2>4 DEF ToggleJob, Step, cronVars, triggerVars
    <3> HIDE DEF r
    <3> QED  BY <3>2, <3>3, <3>4 DEF TypeOK
  <2> QED  BY <2>1, <2>2, <2>3, <2>4
<1>2. pc' \in [Admins -> {"idle", "written", "loaded", "removing"}]
  BY <1>1 DEF TypeOK
<1>3. \A q \in Admins : /\ pc'[q] # "idle" => arg'[q] \in Jobs
                        /\ pc'[q] = "loaded" => snap'[q] \in Row
  BY <1>1 DEF TypeOK
<1>4. arg' \in [Admins -> Jobs \cup {NoRow}]
  BY <1>1 DEF TypeOK
<1> QED  BY <1>1, <1>2, <1>3, <1>4 DEF TypeOK

\* Its later steps: reading the row back and telling the scheduler.
LEMMA TypeSchedule ==
    ASSUME TypeOK, NEW p \in Admins,
           ReadBack(p) \/ ReadBackFails(p) \/ Schedule(p) \/ Unschedule(p)
    PROVE  TypeOK'
<1>1. CASE ReadBack(p)
  <2>1. /\ pc' = [pc EXCEPT ![p] = "loaded"]
        /\ snap' = [snap EXCEPT ![p] = rows[arg[p]]] /\ rows[arg[p]] \in Row
        /\ pc[p] # "idle"
        /\ UNCHANGED <<rows, arg, entryIDs, entries, lastID, tpc, tjob, trow>>
    BY <1>1 DEF ReadBack, Step, Exists, cronVars, triggerVars
  <2> QED  BY <2>1 DEF TypeOK
<1>3. CASE ReadBackFails(p)
  <2>1. /\ pc' = [pc EXCEPT ![p] = "idle"]
        /\ arg' = [arg EXCEPT ![p] = NoRow] /\ snap' = [snap EXCEPT ![p] = NoRow]
        /\ UNCHANGED <<rows, entryIDs, entries, lastID, tpc, tjob, trow>>
    BY <1>3 DEF ReadBackFails, Finish, Step, cronVars, triggerVars
  <2> QED  BY <2>1 DEF TypeOK
<1>2. CASE Schedule(p) \/ Unschedule(p)
  <2>1. /\ pc[p] \in {"loaded", "removing"} /\ pc' = [pc EXCEPT ![p] = "idle"]
        /\ arg' = [arg EXCEPT ![p] = NoRow] /\ snap' = [snap EXCEPT ![p] = NoRow]
        /\ UNCHANGED <<rows, tpc, tjob, trow>>
    BY <1>2 DEF Schedule, Unschedule, Finish, Step, triggerVars
  <2>2. arg[p] \in Jobs /\ (Schedule(p) => snap[p] \in Row)
    BY <2>1 DEF TypeOK, Schedule, Finish, Step
  <2>3. /\ entryIDs' \in [Jobs -> Nat]
        /\ entries' \subseteq [id : Nat \ {0}, job : Jobs, row : Row]
        /\ lastID' \in Nat
    BY <1>2, <2>2, AddJobType, RemoveJobType DEF Schedule, Unschedule
  <2> QED  BY <2>1, <2>3 DEF TypeOK
<1> QED  BY <1>1, <1>2, <1>3

\* The goroutines that run a job copy rows of the table or of an entry.
LEMMA TypeTrigger ==
    ASSUME TypeOK, NEW t \in Triggers,
           \/ InsertRun(t) \/ InsertRunFails(t) \/ DispatchJob(t)
           \/ \E e \in entries : Fire(t, e)
           \/ \E j \in Jobs : RunNow(t, j)
    PROVE  TypeOK'
<1>1. UNCHANGED <<rows, pc, arg, snap, entryIDs, entries, lastID>>
  BY DEF InsertRun, InsertRunFails, DispatchJob, Fire, RunNow, requestVars, cronVars
<1> DEFINE Effect ==
      /\ tpc' \in [Triggers -> {"idle", "fired", "inserted"}]
      /\ tjob' \in [Triggers -> Jobs \cup {NoRow}]
      /\ trow' \in [Triggers -> Row \cup {NoRow}]
<1>2. Effect
  <2>1. CASE InsertRun(t)
    <3>1. tpc' = [tpc EXCEPT ![t] = "inserted"] /\ UNCHANGED <<tjob, trow>>
      BY <2>1 DEF InsertRun
    <3> QED  BY <3>1 DEF TypeOK
  <2>2. CASE InsertRunFails(t) \/ DispatchJob(t)
    <3>1. Return(t)
      BY <2>2 DEF InsertRunFails, DispatchJob
    <3> QED  BY <3>1 DEF Return, TypeOK
  <2>3. ASSUME NEW e \in entries, Fire(t, e) PROVE Effect
    <3>1. e.job \in Jobs /\ e.row \in Row
      BY DEF TypeOK
    <3>2. /\ tpc' = [tpc EXCEPT ![t] = "fired"]
          /\ tjob' = [tjob EXCEPT ![t] = e.job]
          /\ trow' = [trow EXCEPT ![t] = e.row]
      BY <2>3 DEF Fire
    <3> QED  BY <3>1, <3>2 DEF TypeOK
  <2>4. ASSUME NEW j \in Jobs, RunNow(t, j) PROVE Effect
    <3>1. /\ tpc' = [tpc EXCEPT ![t] = "fired"]
          /\ tjob' = [tjob EXCEPT ![t] = j]
          /\ trow' = [trow EXCEPT ![t] = rows[j]] /\ rows[j] \in Row
      BY <2>4 DEF RunNow, Exists
    <3> QED  BY <3>1 DEF TypeOK
  <2> QED  BY <2>1, <2>2, <2>3, <2>4
<1> QED  BY <1>1, <1>2 DEF TypeOK

\* loadJobs, when it cannot read the jobs table
LEMMA TypeRestartUnloaded ==
    ASSUME TypeOK, RestartUnloaded
    PROVE  TypeOK'
BY DEF RestartUnloaded, Boot, TypeOK

\* ... and when it can read the table.
LEMMA TypeRestart ==
    ASSUME TypeOK, NEW f \in [Loadable -> 1 .. Cardinality(Loadable)], Restart(f)
    PROVE  TypeOK'
<1>1. /\ Boot /\ UNCHANGED rows
      /\ entries' = {[id |-> f[j], job |-> j, row |-> rows[j]] : j \in Loadable}
      /\ entryIDs' = [j \in Jobs |-> IF j \in Loadable THEN f[j] ELSE 0]
      /\ lastID' = Cardinality(Loadable)
  BY DEF Restart
<1>2. \A j \in Loadable : f[j] \in Nat \ {0} /\ j \in Jobs /\ rows[j] \in Row
  BY LoadableFinite DEF Loadable, Exists
<1>3. entryIDs' \in [Jobs -> Nat]
  BY <1>1, <1>2
<1>4. entries' \subseteq [id : Nat \ {0}, job : Jobs, row : Row]
  BY <1>1, <1>2
<1> QED  BY <1>1, <1>3, <1>4, LoadableFinite DEF TypeOK, Boot

\* Every variable keeps its type: a request schedules only a row it has read.
THEOREM TypeCorrect == Spec => []TypeOK
<1>1. Init => TypeOK
  BY DEF Init, TypeOK
<1>2. TypeOK /\ [Next]_vars => TypeOK'
  <2> SUFFICES ASSUME TypeOK, [Next]_vars PROVE TypeOK'
    OBVIOUS
  <2>1. CASE \E j \in Jobs : CascadeDelete(j)
    BY <2>1 DEF CascadeDelete, TypeOK, requestVars, cronVars, triggerVars
  <2>2. CASE UNCHANGED vars
    BY <2>2 DEF vars, TypeOK
  <2> QED
    BY <2>1, <2>2, TypeRequest, TypeSchedule, TypeTrigger, TypeRestart,
       TypeRestartUnloaded DEF Next, RequestStep, TriggerStep
<1> QED  BY <1>1, <1>2, PTL DEF Spec

-----------------------------------------------------------------------------
(* One entry per job.  OneEntryPerJob is not inductive: removing a job's     *)
(* entry could take another job's, and a new entry could get an id in use.   *)
(* Ids are therefore shown to be distinct, and all given by lastID.          *)

EntryInv ==
    /\ OneEntryPerJob
    /\ \A i, j \in Jobs : entryIDs[i] = entryIDs[j] /\ entryIDs[i] # 0 => i = j
    /\ \A j \in Jobs : entryIDs[j] <= lastID

\* cron.Remove takes exactly the entries of the job.
LEMMA WithoutIsOthers ==
    ASSUME TypeOK, EntryInv, NEW j \in Jobs
    PROVE  Without(j) = {e \in entries : e.job # j}
<1>1. \A e \in entries : e.id # entryIDs[j] <=> e.job # j
  <2> TAKE e \in entries
  <2>1. e.job \in Jobs /\ e.id # 0 /\ entryIDs[e.job] = e.id
    BY DEF TypeOK, EntryInv, OneEntryPerJob
  <2> QED  BY <2>1 DEF EntryInv
<1> QED  BY <1>1 DEF Without

\* A step that leaves a job without an entry.
LEMMA InvEntryRemoved ==
    ASSUME TypeOK, EntryInv, NEW j \in Jobs,
           entries' = Without(j), entryIDs' = [entryIDs EXCEPT ![j] = 0], lastID' = lastID
    PROVE  EntryInv'
<1>1. entries' = {e \in entries : e.job # j}
  BY WithoutIsOthers
<1>2. \A i \in Jobs : entryIDs'[i] = IF i = j THEN 0 ELSE entryIDs[i]
  BY DEF TypeOK
<1>3. OneEntryPerJob'
  <2>1. \A e \in entries' : entryIDs'[e.job] = e.id
    BY <1>1, <1>2 DEF EntryInv, OneEntryPerJob, TypeOK
  <2>2. \A i \in Jobs : entryIDs'[i] # 0 => \E e \in entries' : e.id = entryIDs'[i] /\ e.job = i
    BY <1>1, <1>2 DEF EntryInv, OneEntryPerJob
  <2>3. \A e1, e2 \in entries' : e1.job = e2.job => e1 = e2
    BY <1>1 DEF EntryInv, OneEntryPerJob
  <2> QED  BY <2>1, <2>2, <2>3 DEF OneEntryPerJob
<1>4. \A i \in Jobs : entryIDs'[i] <= lastID'
  BY <1>2 DEF EntryInv, TypeOK
<1> QED  BY <1>2, <1>3, <1>4 DEF EntryInv

\* A step that replaces a job's entry by a new one.
LEMMA InvEntryAdded ==
    ASSUME TypeOK, EntryInv, NEW j \in Jobs, NEW r,
           entries' = Without(j) \cup {[id |-> lastID + 1, job |-> j, row |-> r]},
           entryIDs' = [entryIDs EXCEPT ![j] = lastID + 1], lastID' = lastID + 1
    PROVE  EntryInv'
<1> DEFINE new == [id |-> lastID + 1, job |-> j, row |-> r]
<1>1. entries' = {e \in entries : e.job # j} \cup {new}
  BY WithoutIsOthers
<1>2. new.id = lastID + 1 /\ new.job = j
  OBVIOUS
<1> HIDE DEF new
<1>3. \A i \in Jobs : entryIDs'[i] = IF i = j THEN lastID + 1 ELSE entryIDs[i]
  BY DEF TypeOK
<1>4. OneEntryPerJob'
  <2>1. \A e \in entries' : entryIDs'[e.job] = e.id
    BY <1>1, <1>2, <1>3 DEF EntryInv, OneEntryPerJob, TypeOK
  <2>2. \A i \in Jobs : entryIDs'[i] # 0 => \E e \in entries' : e.id = entryIDs'[i] /\ e.job = i
    BY <1>1, <1>2, <1>3 DEF EntryInv, OneEntryPerJob
  <2>3. \A e1, e2 \in entries' : e1.job = e2.job => e1 = e2
    BY <1>1, <1>2 DEF EntryInv, OneEntryPerJob
  <2> QED  BY <2>1, <2>2, <2>3 DEF OneEntryPerJob
<1>5. \A i \in Jobs : entryIDs'[i] <= lastID'
  BY <1>3 DEF EntryInv, TypeOK
<1>6. \A i, k \in Jobs : entryIDs'[i] = entryIDs'[k] /\ entryIDs'[i] # 0 => i = k
  BY <1>3 DEF EntryInv, TypeOK
<1> QED  BY <1>4, <1>5, <1>6 DEF EntryInv

\* loadJobs builds the entries from nothing.
LEMMA InvRestart ==
    ASSUME TypeOK, NEW f \in [Loadable -> 1 .. Cardinality(Loadable)], Restart(f)
    PROVE  EntryInv'
<1>1. /\ entries' = {[id |-> f[j], job |-> j, row |-> rows[j]] : j \in Loadable}
      /\ entryIDs' = [j \in Jobs |-> IF j \in Loadable THEN f[j] ELSE 0]
      /\ lastID' = Cardinality(Loadable)
      /\ \A i, j \in Loadable : i # j => f[i] # f[j]
  BY DEF Restart
<1>2. \A j \in Jobs : entryIDs'[j] = IF j \in Loadable THEN f[j] ELSE 0
  BY <1>1
<1>3. \A j \in Loadable : j \in Jobs /\ f[j] \in 1 .. lastID'
  BY <1>1 DEF Loadable
<1>4. OneEntryPerJob'
  <2>1. \A e \in entries' : entryIDs'[e.job] = e.id
    BY <1>1, <1>2, <1>3
  <2>2. ASSUME NEW j \in Jobs, entryIDs'[j] # 0
        PROVE  \E e \in entries' : e.id = entryIDs'[j] /\ e.job = j
    <3>1. j \in Loadable /\ entryIDs'[j] = f[j]
      BY <1>2, <2>2
    <3>2. [id |-> f[j], job |-> j, row |-> rows[j]] \in entries'
      BY <1>1, <3>1
    <3> QED  BY <3>1, <3>2
  <2>3. \A e1, e2 \in entries' : e1.job = e2.job => e1 = e2
    BY <1>1
  <2> QED  BY <2>1, <2>2, <2>3 DEF OneEntryPerJob
<1>5. \A i \in Jobs : entryIDs'[i] <= lastID'
  BY <1>1, <1>2, <1>3, LoadableFinite
<1>6. \A i, k \in Jobs : entryIDs'[i] = entryIDs'[k] /\ entryIDs'[i] # 0 => i = k
  BY <1>1, <1>2, <1>3
<1> QED  BY <1>4, <1>5, <1>6 DEF EntryInv

\* Schedule and Unschedule are the only other steps on the cron object.
LEMMA InvSchedule ==
    ASSUME TypeOK, EntryInv, NEW p \in Admins, Schedule(p) \/ Unschedule(p)
    PROVE  EntryInv'
<1>1. arg[p] \in Jobs
  BY DEF Schedule, Unschedule, Finish, Step, TypeOK
<1>2. CASE Schedule(p) /\ snap[p].enabled /\ snap[p].cronOk
  BY <1>1, <1>2, InvEntryAdded DEF Schedule, AddJob
<1>3. CASE Schedule(p) /\ ~(snap[p].enabled /\ snap[p].cronOk)
  BY <1>1, <1>3, InvEntryRemoved DEF Schedule, AddJob
<1>4. CASE Unschedule(p)
  BY <1>1, <1>4, InvEntryRemoved DEF Unschedule, RemoveJob
<1> QED  BY <1>2, <1>3, <1>4

\* Requests, triggers and restarts keep the ids and the entries together.
LEMMA EntryInvHolds == Spec => []EntryInv
<1>1. Init => EntryInv
  BY DEF Init, EntryInv, OneEntryPerJob
<1>2. TypeOK /\ EntryInv /\ [Next]_vars => EntryInv'
  <2> SUFFICES ASSUME TypeOK, EntryInv, [Next]_vars PROVE EntryInv'
    OBVIOUS
  <2>1. CASE UNCHANGED <<entryIDs, entries, lastID>>
    BY <2>1 DEF EntryInv, OneEntryPerJob
  <2>2. ASSUME NEW p \in Admins, NEW j \in Jobs,
               \/ DeleteJob(p, j)
               \/ \E c \in Content : CreateJob(p, j, c) \/ UpdateJob(p, j, c)
               \/ \E on \in BOOLEAN : ToggleJob(p, j, on)
        PROVE  EntryInv'
    BY <2>1, <2>2 DEF DeleteJob, ReadBack, CreateJob, UpdateJob, ToggleJob, cronVars
  <2>3. ASSUME NEW p \in Admins, ReadBack(p) \/ ReadBackFails(p) PROVE EntryInv'
    BY <2>1, <2>3 DEF ReadBack, ReadBackFails, cronVars
  <2>4. ASSUME NEW j \in Jobs, CascadeDelete(j) PROVE EntryInv'
    BY <2>1, <2>4 DEF CascadeDelete, cronVars
  <2>5. ASSUME NEW t \in Triggers,
               \/ InsertRun(t) \/ InsertRunFails(t) \/ DispatchJob(t)
               \/ \E e \in entries : Fire(t, e)
               \/ \E j \in Jobs : RunNow(t, j)
        PROVE  EntryInv'
    BY <2>1, <2>5 DEF InsertRun, InsertRunFails, DispatchJob, Fire, RunNow, cronVars
  <2>6. CASE UNCHANGED vars
    BY <2>1, <2>6 DEF vars
  <2>7. CASE RestartUnloaded
    BY <2>7 DEF RestartUnloaded, EntryInv, OneEntryPerJob
  <2> QED
    BY <2>2, <2>3, <2>4, <2>5, <2>6, <2>7, InvSchedule, InvRestart DEF Next, RequestStep, TriggerStep
<1> QED  BY <1>1, <1>2, TypeCorrect, PTL DEF Spec

\* Whatever requests overlap, the entries and the map of their ids agree and a
\* job has at most one entry (AddJob, RemoveJob, loadJobs).
THEOREM OneEntryPerJobHolds == Spec => []OneEntryPerJob
<1>1. EntryInv => OneEntryPerJob
  BY DEF EntryInv
<1> QED  BY <1>1, EntryInvHolds, PTL

-----------------------------------------------------------------------------
(* The cron entry matches the row.  While a request is between its statement *)
(* and its call of the scheduler they may differ, so the invariant says what *)
(* the request still owes: what it read is the row, or the row is gone.      *)

\* The schedule of job j: its row, if it is to run, and nothing else.
Settled(j) ==
    /\ \A e \in entries : e.job = j => j \in Loadable /\ e.row.rev = rows[j].rev
    /\ j \in Loadable => \E e \in entries : e.job = j

\* The same write of the row, and the same schedule.
Agrees(a, b) == a.enabled = b.enabled /\ a.cronOk = b.cronOk /\ a.rev = b.rev

\* What request p relies on about the row of its job j.
Pending(p, j) ==
    /\ pc[p] = "written" => Exists(j)
    /\ pc[p] = "loaded" => Exists(j) /\ Agrees(snap[p], rows[j])
    /\ pc[p] = "removing" => ~Exists(j)

JobInv(j) ==
    /\ \A p, q \in Busy(j) : p = q
    /\ \A p \in Busy(j) : Pending(p, j)
    /\ Busy(j) = {} => Settled(j)

HistInv == \A j \in Jobs \ raced : JobInv(j)

\* The history adds nothing to what the scheduler does.
LEMMA HistoryOnlyWatches == HSpec => Spec
<1>1. HInit => Init
  BY DEF HInit
<1>2. [HNext]_hvars => [Next]_vars
  BY DEF HNext, Next, hvars, vars
<1> QED  BY <1>1, <1>2, PTL DEF HSpec, Spec

\* A step that is not about job j: neither its row, nor its entries, nor the
\* requests on it change.
LEMMA JobUntouched ==
    ASSUME NEW j \in Jobs, JobInv(j), rows'[j] = rows[j],
           \A e : e.job = j => (e \in entries' <=> e \in entries),
           \A q \in Admins : q \in Busy(j)' <=> q \in Busy(j),
           \A q \in Busy(j) : pc'[q] = pc[q] /\ snap'[q] = snap[q]
    PROVE  JobInv(j)'
<1>1. Busy(j)' = Busy(j)
  BY DEF Busy
<1>2. (j \in Loadable)' <=> j \in Loadable
  BY DEF Loadable, Exists
<1>3. Settled(j) => Settled(j)'
  BY <1>2 DEF Settled
<1>4. \A p \in Busy(j) : Pending(p, j)'
  BY DEF JobInv, Pending, Exists
<1> QED  BY <1>1, <1>3, <1>4 DEF JobInv

\* A request that starts works on its job only.
LEMMA StartsOn ==
    ASSUME TypeOK, NEW p \in Admins, NEW j \in Jobs, NEW k \in Jobs, k # j,
           pc[p] = "idle", arg' = [arg EXCEPT ![p] = j],
           \A q \in Admins \ {p} : pc'[q] = pc[q] /\ snap'[q] = snap[q],
           rows'[k] = rows[k], entries' = entries, JobInv(k)
    PROVE  JobInv(k)'
<1>1. \A q \in Admins : q \in Busy(k)' <=> q \in Busy(k)
  BY DEF Busy, TypeOK
<1>2. \A q \in Busy(k) : q # p /\ q \in Admins
  BY DEF Busy
<1> QED  BY <1>1, <1>2, JobUntouched

\* ... and so does one that ends.
LEMMA EndsOn ==
    ASSUME TypeOK, NEW p \in Admins, NEW k \in Jobs, k # arg[p],
           pc[p] # "idle", pc' = [pc EXCEPT ![p] = "idle"],
           arg' = [arg EXCEPT ![p] = NoRow], snap' = [snap EXCEPT ![p] = NoRow],
           rows'[k] = rows[k],
           \A e : e.job = k => (e \in entries' <=> e \in entries), JobInv(k)
    PROVE  JobInv(k)'
<1>1. \A q \in Admins : q \in Busy(k)' <=> q \in Busy(k)
  BY DEF Busy, TypeOK
<1>2. \A q \in Busy(k) : q # p /\ q \in Admins
  BY DEF Busy
<1>3. \A q \in Busy(k) : pc'[q] = pc[q] /\ snap'[q] = snap[q]
  BY <1>2 DEF TypeOK
<1> QED  BY <1>1, <1>3, JobUntouched

\* A job whose only request is p: what remains to be shown of it.
LEMMA OneRequest ==
    ASSUME NEW p \in Admins, NEW j \in Jobs, j \notin Contended',
           pc'[p] # "idle", arg'[p] = j, Pending(p, j)'
    PROVE  JobInv(j)'
<1>1. p \in Busy(j)'
  BY DEF Busy
<1>2. \A q \in Busy(j)' : q = p
  BY <1>1 DEF Contended
<1> QED  BY <1>1, <1>2 DEF JobInv

\* The statements on the table: the row is as the request expects, and every
\* other job is left alone.
LEMMA HistWrite ==
    ASSUME TypeOK, TypeOK', HistInv, NEW p \in Admins, NEW j \in Jobs,
           \/ DeleteJob(p, j)
           \/ \E c \in Content : CreateJob(p, j, c) \/ UpdateJob(p, j, c)
           \/ \E on \in BOOLEAN : ToggleJob(p, j, on),
           NEW k \in Jobs \ (raced \cup Contended')
    PROVE  JobInv(k)'
<1> DEFINE Started ==
      /\ pc[p] = "idle" /\ pc' = [pc EXCEPT ![p] = pc'[p]] /\ pc'[p] # "idle"
      /\ arg' = [arg EXCEPT ![p] = j] /\ entries' = entries
      /\ rows' = [rows EXCEPT ![j] = rows'[j]]
      /\ \A q \in Admins \ {p} : snap'[q] = snap[q]
      /\ Pending(p, j)'
<1>1. Started
  <2>1. CASE DeleteJob(p, j)
    <3>1. /\ pc[p] = "idle" /\ pc' = [pc EXCEPT ![p] = "removing"] /\ arg' = [arg EXCEPT ![p] = j]
          /\ rows' = [rows EXCEPT ![j] = Deleted] /\ UNCHANGED <<snap, entries>>
      BY <2>1 DEF DeleteJob, Step, cronVars
    <3>2. pc'[p] = "removing" /\ rows'[j] = Deleted
      BY <3>1 DEF TypeOK
    <3> QED  BY <3>1, <3>2 DEF Pending, Exists
  <2>2. ASSUME NEW c \in Content, CreateJob(p, j, c) PROVE Started
    <3> DEFINE r == Written(c, 0)
    <3>1. r \in Row /\ Agrees(Returned(r), r)
      <4>1. r \in Row
        BY WrittenIsRow
      <4> HIDE DEF r
      <4> QED  BY <4>1 DEF Agrees, Returned, Row
    <3>2. /\ pc[p] = "idle" /\ pc' = [pc EXCEPT ![p] = "loaded"] /\ arg' = [arg EXCEPT ![p] = j]
          /\ rows' = [rows EXCEPT ![j] = r] /\ snap' = [snap EXCEPT ![p] = Returned(r)]
          /\ entries' = entries
      BY <2>2 DEF CreateJob, Step, cronVars
    <3> HIDE DEF r
    <3>3. pc'[p] = "loaded" /\ rows'[j] = r /\ snap'[p] = Returned(r)
      BY <3>2 DEF TypeOK
    <3> QED  BY <3>1, <3>2, <3>3 DEF Pending, Exists, TypeOK
  <2>3. ASSUME (\E c \in Content : UpdateJob(p, j, c)) \/ \E on \in BOOLEAN : ToggleJob(p, j, on)
        PROVE  Started
    <3>1. /\ pc[p] = "idle" /\ pc' = [pc EXCEPT ![p] = "written"] /\ arg' = [arg EXCEPT ![p] = j]
          /\ snap' = snap /\ entries' = entries
          /\ rows[j] \in Row /\ rows[j].rev < MaxRev
      BY <2>3 DEF UpdateJob, ToggleJob, Step, Exists, cronVars
    <3>2. rows'[j] \in Row /\ rows' = [rows EXCEPT ![j] = rows'[j]]
      <4>1. ASSUME NEW c \in Content, UpdateJob(p, j, c) PROVE <3>2
        <5>1. rows[j].rev + 1 \in 0 .. MaxRev
          BY <3>1 DEF Row
        <5>2. rows' = [rows EXCEPT ![j] = Written(c, rows[j].rev + 1)]
          BY <4>1 DEF UpdateJob
        <5> QED  BY <5>1, <5>2, WrittenIsRow DEF TypeOK
      <4>2. ASSUME NEW on \in BOOLEAN, ToggleJob(p, j, on) PROVE <3>2
        <5> DEFINE r == [rows[j] EXCEPT !.enabled = on, !.rev = @ + 1]
        <5>1. r \in Row
          BY <3>1, ToggledIsRow
        <5>2. rows' = [rows EXCEPT ![j] = r]
          <6>1. rows[j] \in Row /\ rows \in [Jobs -> Row \cup {NoRow, Deleted}]
            BY <3>1 DEF TypeOK
          <6>2. rows' = [rows EXCEPT ![j].enabled = on, ![j].rev = @ + 1]
            BY <4>2 DEF ToggleJob
          <6> QED  BY <6>1, <6>2 DEF Row
        <5> HIDE DEF r
        <5> QED  BY <5>1, <5>2 DEF TypeOK
      <4> QED  BY <2>3, <4>1, <4>2
    <3>3. pc'[p] = "written"
      BY <3>1 DEF TypeOK
    <3> QED  BY <3>1, <3>2, <3>3 DEF Pending, Exists
  <2> QED  BY <2>1, <2>2, <2>3
<1>2. CASE k = j
  <2>1. arg'[p] = j
    BY <1>1 DEF TypeOK
  <2> QED  BY <1>1, <1>2, <2>1, OneRequest
<1>3. CASE k # j
  <2>1. rows'[k] = rows[k] /\ \A q \in Admins \ {p} : pc'[q] = pc[q]
    BY <1>1, <1>3 DEF TypeOK
  <2> QED  BY <1>1, <1>3, <2>1, StartsOn DEF HistInv
<1> QED  BY <1>2, <1>3

\* The SELECT after it: what the request read is the row.
LEMMA HistRead ==
    ASSUME TypeOK, HistInv, NEW p \in Admins, ReadBack(p),
           NEW k \in Jobs \ (raced \cup Contended')
    PROVE  JobInv(k)'
<1>1. /\ pc[p] = "written" /\ pc' = [pc EXCEPT ![p] = "loaded"] /\ Exists(arg[p])
      /\ snap' = [snap EXCEPT ![p] = rows[arg[p]]] /\ UNCHANGED <<rows, arg, entries>>
  BY DEF ReadBack, Step, cronVars
<1>2. pc'[p] = "loaded" /\ snap'[p] = rows[arg[p]]
  BY <1>1 DEF TypeOK
<1>3. CASE k = arg[p]
  <2>1. Pending(p, k)'
    BY <1>1, <1>2, <1>3 DEF Pending, Exists, Agrees
  <2> QED  BY <1>1, <1>2, <1>3, <2>1, OneRequest
<1>4. CASE k # arg[p]
  <2>1. \A q \in Admins : q # p => pc'[q] = pc[q] /\ snap'[q] = snap[q]
    BY <1>1 DEF TypeOK
  <2>2. \A q \in Admins : q \in Busy(k)' <=> q \in Busy(k)
    BY <1>1, <1>2, <1>4, <2>1 DEF Busy
  <2>3. \A q \in Busy(k) : pc'[q] = pc[q] /\ snap'[q] = snap[q]
    BY <1>4, <2>1 DEF Busy
  <2> QED  BY <1>1, <2>2, <2>3, JobUntouched DEF HistInv
<1> QED  BY <1>3, <1>4

\* A request that gives up: its job is missed, and no other job is concerned.
LEMMA HistGivesUp ==
    ASSUME TypeOK, HistInv, NEW p \in Admins, ReadBackFails(p),
           NEW k \in Jobs \ (raced \cup Missed)
    PROVE  JobInv(k)'
<1>1. /\ pc[p] = "written" /\ pc' = [pc EXCEPT ![p] = "idle"]
      /\ arg' = [arg EXCEPT ![p] = NoRow] /\ snap' = [snap EXCEPT ![p] = NoRow]
      /\ UNCHANGED <<rows, entries>>
  BY DEF ReadBackFails, Finish, Step, cronVars
<1>2. k # arg[p]
  BY <1>1 DEF Missed, TypeOK
<1> QED  BY <1>1, <1>2, EndsOn DEF HistInv

\* A request that tells the scheduler settles its job.
LEMMA HistSchedule ==
    ASSUME TypeOK, EntryInv, HistInv, NEW p \in Admins, Schedule(p) \/ Unschedule(p),
           NEW k \in Jobs \ (raced \cup Contended')
    PROVE  JobInv(k)'
<1>0. PICK j, s : j = arg[p] /\ s = snap[p]
  OBVIOUS
<1>1. /\ pc[p] # "idle" /\ pc' = [pc EXCEPT ![p] = "idle"]
      /\ arg' = [arg EXCEPT ![p] = NoRow] /\ snap' = [snap EXCEPT ![p] = NoRow]
      /\ rows' = rows
  BY DEF Schedule, Unschedule, Finish, Step
<1>2. j \in Jobs /\ p \in Busy(j)
  BY <1>0, <1>1 DEF TypeOK, Busy
<1>3. Without(j) = {e \in entries : e.job # j}
  BY <1>2, WithoutIsOthers
<1> DEFINE new == [id |-> lastID + 1, job |-> j, row |-> s]
<1>4. IF Schedule(p) /\ s.enabled /\ s.cronOk
      THEN entries' = {e \in entries : e.job # j} \cup {new}
      ELSE entries' = {e \in entries : e.job # j}
  <2>1. CASE Schedule(p)
    <3>1. AddJob(j, s) /\ pc[p] = "loaded"
      BY <1>0, <2>1 DEF Schedule, Finish, Step
    <3> QED  BY <1>3, <2>1, <3>1 DEF AddJob
  <2>2. CASE Unschedule(p) /\ ~Schedule(p)
    BY <1>0, <1>3, <2>2 DEF Unschedule, RemoveJob
  <2> QED  BY <2>1, <2>2
<1>5. new.job = j /\ new.row = s
  OBVIOUS
<1> HIDE DEF new
<1>6. CASE k # j
  <2>1. \A e : e.job = k => (e \in entries' <=> e \in entries)
    BY <1>4, <1>5, <1>6
  <2> QED  BY <1>0, <1>1, <1>6, <2>1, EndsOn DEF HistInv
<1>7. CASE k = j
  <2>1. JobInv(j) /\ Pending(p, j)
    BY <1>2, <1>7 DEF HistInv, JobInv
  <2>2. \A q \in Admins : q \notin Busy(j)'
    BY <1>0, <1>1, <1>2, <2>1 DEF JobInv, Busy, TypeOK
  <2>3. (j \in Loadable)' <=> j \in Loadable
    BY <1>1 DEF Loadable, Exists
  <2>4. CASE Schedule(p)
    <3>1. Exists(j) /\ Agrees(s, rows[j])
      BY <1>0, <2>1, <2>4 DEF Pending, Schedule, Finish, Step
    <3>2. j \in Loadable <=> s.enabled /\ s.cronOk
      BY <1>2, <3>1 DEF Loadable, Agrees
    <3>3. s.rev = rows[j].rev
      BY <3>1 DEF Agrees
    <3>4. Settled(j)'
      BY <1>1, <1>4, <1>5, <2>3, <2>4, <3>2, <3>3 DEF Settled
    <3> QED  BY <1>7, <2>2, <3>4 DEF JobInv, Busy
  <2>5. CASE Unschedule(p) /\ ~Schedule(p)
    <3>1. ~Exists(j)
      BY <2>1, <2>5 DEF Pending, Unschedule, Finish, Step
    <3>2. Settled(j)'
      BY <1>4, <2>3, <2>5, <3>1 DEF Settled, Loadable
    <3> QED  BY <1>7, <2>2, <3>2 DEF JobInv, Busy
  <2> QED  BY <2>4, <2>5
<1> QED  BY <1>6, <1>7

\* loadJobs settles every job: the requests are gone with the old process.
LEMMA HistRestart ==
    ASSUME TypeOK, NEW f \in [Loadable -> 1 .. Cardinality(Loadable)], Restart(f), NEW k \in Jobs
    PROVE  JobInv(k)'
<1>1. /\ pc' = [p \in Admins |-> "idle"] /\ rows' = rows
      /\ entries' = {[id |-> f[j], job |-> j, row |-> rows[j]] : j \in Loadable}
  BY DEF Restart, Boot
<1>2. Busy(k)' = {}
  BY <1>1 DEF Busy
<1>3. (k \in Loadable)' <=> k \in Loadable
  BY <1>1 DEF Loadable, Exists
<1>4. Settled(k)'
  <2>1. \A e \in entries' : e.job \in Loadable /\ e.row = rows[e.job]
    BY <1>1
  <2>2. k \in Loadable => [id |-> f[k], job |-> k, row |-> rows[k]] \in entries'
    BY <1>1
  <2> QED  BY <1>1, <1>3, <2>1, <2>2 DEF Settled
<1> QED  BY <1>2, <1>4 DEF JobInv

\* What touches neither the table, the entries nor the requests.
LEMMA HistSame ==
    ASSUME HistInv, UNCHANGED <<rows, entries, pc, arg, snap, raced>>
    PROVE  HistInv'
<1>1. \A j \in Jobs \ raced : JobInv(j)'
  BY JobUntouched DEF HistInv, Busy
<1> QED  BY <1>1 DEF HistInv

\* Requests, one kind of step after the other.
LEMMA HistRequest ==
    ASSUME TypeOK, TypeOK', EntryInv, HistInv, RequestStep,
           raced' = raced \cup Contended' \cup Missed
    PROVE  HistInv'
<1> SUFFICES ASSUME NEW k \in Jobs \ raced' PROVE JobInv(k)'
  BY DEF HistInv
<1>1. k \in Jobs \ (raced \cup Contended') /\ k \in Jobs \ (raced \cup Missed)
  OBVIOUS
<1>2. PICK p \in Admins :
        \/ ReadBack(p) \/ ReadBackFails(p) \/ Schedule(p) \/ Unschedule(p)
        \/ \E j \in Jobs :
              \/ DeleteJob(p, j)
              \/ \E c \in Content : CreateJob(p, j, c) \/ UpdateJob(p, j, c)
              \/ \E on \in BOOLEAN : ToggleJob(p, j, on)
  BY DEF RequestStep
<1> QED  BY <1>1, <1>2, HistWrite, HistRead, HistGivesUp, HistSchedule

LEMMA HistInvHolds == HSpec => []HistInv
<1>1. HInit => HistInv
  <2> SUFFICES ASSUME HInit, NEW j \in Jobs PROVE JobInv(j)
    BY DEF HistInv
  <2>1. Busy(j) = {} /\ j \notin Loadable /\ entries = {}
    BY DEF HInit, Init, Busy, Loadable, Exists
  <2> QED  BY <2>1 DEF JobInv, Settled
<1>2. TypeOK /\ TypeOK' /\ EntryInv /\ HistInv /\ [HNext]_hvars => HistInv'
  <2> SUFFICES ASSUME TypeOK, TypeOK', EntryInv, HistInv, [HNext]_hvars PROVE HistInv'
    OBVIOUS
  <2>1. CASE RequestStep /\ raced' = raced \cup Contended' \cup Missed
    BY <2>1, HistRequest
  <2>2. CASE TriggerStep /\ UNCHANGED raced
    <3>1. UNCHANGED <<rows, entries, pc, arg, snap, raced>>
      BY <2>2 DEF TriggerStep, InsertRun, InsertRunFails, DispatchJob, Fire, RunNow,
                  requestVars, cronVars
    <3> QED  BY <3>1, HistSame
  <2>3. ASSUME NEW j \in Jobs, CascadeDelete(j), raced' = raced \cup {j} PROVE HistInv'
    <3>1. rows' = [rows EXCEPT ![j] = Deleted] /\ UNCHANGED <<entries, pc, arg, snap>>
      BY <2>3 DEF CascadeDelete, requestVars, cronVars
    <3>2. ASSUME NEW k \in Jobs \ raced' PROVE JobInv(k)'
      <4>1. rows'[k] = rows[k] /\ k \in Jobs \ raced
        BY <2>3, <3>1, <3>2 DEF TypeOK
      <4> QED  BY <3>1, <4>1, JobUntouched DEF HistInv, Busy
    <3> QED  BY <3>2 DEF HistInv
  <2>4. ASSUME NEW f \in [Loadable -> 1 .. Cardinality(Loadable)], Restart(f) PROVE HistInv'
    BY <2>4, HistRestart DEF HistInv
  <2>5. CASE RestartUnloaded /\ raced' = Jobs
    BY <2>5 DEF HistInv
  <2>6. CASE UNCHANGED hvars
    BY <2>6, HistSame DEF hvars
  <2> QED  BY <2>1, <2>2, <2>3, <2>4, <2>5, <2>6 DEF HNext
<1> QED  BY <1>1, <1>2, HistoryOnlyWatches, TypeCorrect, EntryInvHolds, PTL DEF HSpec

\* A job that nobody is working on is scheduled as its row says, unless two
\* requests on it overlapped, its agent was deleted or a read failed
\* (handleCreateJob, handleUpdateJob, handleToggleJob, handleDeleteJob, loadJobs).
THEOREM ScheduleMatchesHolds == HSpec => []ScheduleMatches
<1>1. HistInv => ScheduleMatches
  <2> SUFFICES ASSUME HistInv, NEW j \in Jobs \ raced, Busy(j) = {}
               PROVE  {e.row.rev : e \in {x \in entries : x.job = j}}
                        = IF j \in Loadable THEN {rows[j].rev} ELSE {}
    BY DEF ScheduleMatches
  <2>1. Settled(j)
    BY DEF HistInv, JobInv
  <2> QED  BY <2>1 DEF Settled
<1> QED  BY <1>1, HistInvHolds, PTL
=============================================================================
