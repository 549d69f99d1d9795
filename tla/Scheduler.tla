-------------------------------- MODULE Scheduler --------------------------------
(***************************************************************************)
(* The cron scheduler (internal/scheduler/scheduler.go) against the jobs   *)
(* table and the HTTP handlers that write both (internal/api/jobs.go,      *)
(* internal/api/agents.go).                                                *)
(*                                                                         *)
(* A handler writes the row, reads it back and only then calls AddJob; the *)
(* scheduler keeps its own copy of the job in the cron entry.  Requests,   *)
(* cron goroutines and the daily life of the server interleave between     *)
(* these steps; AddJob and RemoveJob are atomic (Scheduler.mu).            *)
(***************************************************************************)
EXTENDS Integers, FiniteSets

CONSTANTS
    Jobs,       \* job ids (UUIDs: never used twice)
    Admins,     \* concurrent requests to the jobs API
    Triggers,   \* goroutines that run a job: cron entries and POST /run
    NoRow,      \* the job was not created yet
    Deleted,    \* the row is gone
    Cascades,   \* TRUE: agents are deleted, and their jobs with them
    DbFaults,   \* TRUE: statements may fail
    Secrets,    \* what requests say of the passphrase: none, given or missing
    MaxRev      \* bound on the writes of a row

ASSUME SchedulerAssumption ==
    /\ IsFiniteSet(Jobs)
    /\ MaxRev \in Nat
    /\ Secrets \subseteq {"none", "given", "missing"}
    /\ Cascades \in BOOLEAN /\ DbFaults \in BOOLEAN

\* A job, reduced to what scheduling depends on: secret is "none" without
\* encryption, "given" or "missing" with or without a passphrase; rev counts
\* the writes of the row.
Content == [enabled : BOOLEAN, cronOk : BOOLEAN, secret : Secrets]
Row     == [enabled : BOOLEAN, cronOk : BOOLEAN, secret : {"none", "given", "missing"},
            rev : 0 .. MaxRev]
Written(c, n) == [enabled |-> c.enabled, cronOk |-> c.cronOk, secret |-> c.secret, rev |-> n]

ASSUME SentinelAssumption ==
    /\ NoRow \notin Row /\ Deleted \notin Row
    /\ NoRow # Deleted

VARIABLES
    rows,       \* backup_jobs
    entryIDs,   \* Scheduler.entryIDs, 0 for none
    entries,    \* the entries of the cron object
    lastID,     \* last cron.EntryID given
    pc,         \* where each request is
    arg,        \* the job it is about
    snap,       \* the job it read or got back from INSERT
    tpc,        \* where each triggering goroutine is
    tjob,       \* its job
    trow        \* its copy of the job

requestVars == <<pc, arg, snap>>
cronVars    == <<entryIDs, entries, lastID>>
triggerVars == <<tpc, tjob, trow>>
vars == <<rows, entryIDs, entries, lastID, pc, arg, snap, tpc, tjob, trow>>

Exists(j) == rows[j] \in Row

TypeOK ==
    /\ rows \in [Jobs -> Row \cup {NoRow, Deleted}]
    /\ entryIDs \in [Jobs -> Nat]
    /\ entries \subseteq [id : Nat \ {0}, job : Jobs, row : Row]
    /\ lastID \in Nat
    /\ pc \in [Admins -> {"idle", "written", "loaded", "removing"}]
    /\ arg \in [Admins -> Jobs \cup {NoRow}]
    /\ snap \in [Admins -> Row \cup {NoRow}]
    /\ tpc \in [Triggers -> {"idle", "fired", "inserted"}]
    /\ tjob \in [Triggers -> Jobs \cup {NoRow}]
    /\ trow \in [Triggers -> Row \cup {NoRow}]
    /\ \A p \in Admins : pc[p] # "idle" => arg[p] \in Jobs
    /\ \A p \in Admins : pc[p] = "loaded" => snap[p] \in Row

Init ==
    /\ rows = [j \in Jobs |-> NoRow]
    /\ entryIDs = [j \in Jobs |-> 0]
    /\ entries = {} /\ lastID = 0
    /\ pc = [p \in Admins |-> "idle"]
    /\ arg = [p \in Admins |-> NoRow]
    /\ snap = [p \in Admins |-> NoRow]
    /\ tpc = [t \in Triggers |-> "idle"]
    /\ tjob = [t \in Triggers |-> NoRow]
    /\ trow = [t \in Triggers |-> NoRow]

Step(p, from, to) == pc[p] = from /\ pc' = [pc EXCEPT ![p] = to]

\* A request ends, and with it its local variables.
Finish(p, from) ==
    /\ Step(p, from, "idle")
    /\ arg' = [arg EXCEPT ![p] = NoRow]
    /\ snap' = [snap EXCEPT ![p] = NoRow]

-----------------------------------------------------------------------------
(* Scheduler.AddJob and Scheduler.RemoveJob, under Scheduler.mu *)

\* Faulty variant: AddJob does not remove the entry the job already had.
WithoutKept(j) == entries

\* cron.Remove of the entry the job already has.
Without(j) == {e \in entries : e.id # entryIDs[j]}

\* A disabled job, or an expression cron cannot parse, ends without an entry.
AddJob(j, row) ==
    IF row.enabled /\ row.cronOk
    THEN /\ entries' = Without(j) \cup {[id |-> lastID + 1, job |-> j, row |-> row]}
         /\ entryIDs' = [entryIDs EXCEPT ![j] = lastID + 1]
         /\ lastID' = lastID + 1
    ELSE /\ entries' = Without(j)
         /\ entryIDs' = [entryIDs EXCEPT ![j] = 0]
         /\ UNCHANGED lastID

RemoveJob(j) ==
    /\ entries' = Without(j)
    /\ entryIDs' = [entryIDs EXCEPT ![j] = 0]
    /\ UNCHANGED lastID

-----------------------------------------------------------------------------
(* The jobs API *)

\* handleCreateJob: INSERT ... RETURNING every column but the passphrase; the
\* expression is not validated.
Returned(row) == [row EXCEPT !.secret = IF @ = "given" THEN "missing" ELSE @]

CreateJob(p, j, c) ==
    /\ Step(p, "idle", "loaded")
    /\ rows[j] = NoRow
    /\ rows' = [rows EXCEPT ![j] = Written(c, 0)]
    /\ arg' = [arg EXCEPT ![p] = j]
    /\ snap' = [snap EXCEPT ![p] = Returned(Written(c, 0))]
    /\ UNCHANGED <<cronVars, triggerVars>>

\* handleUpdateJob: every column is written.
UpdateJob(p, j, c) ==
    /\ Step(p, "idle", "written")
    /\ Exists(j) /\ rows[j].rev < MaxRev
    /\ rows' = [rows EXCEPT ![j] = Written(c, rows[j].rev + 1)]
    /\ arg' = [arg EXCEPT ![p] = j]
    /\ UNCHANGED <<snap, cronVars, triggerVars>>

\* handleToggleJob: only enabled is written.
ToggleJob(p, j, on) ==
    /\ Step(p, "idle", "written")
    /\ Exists(j) /\ rows[j].rev < MaxRev
    /\ rows' = [rows EXCEPT ![j].enabled = on, ![j].rev = @ + 1]
    /\ arg' = [arg EXCEPT ![p] = j]
    /\ UNCHANGED <<snap, cronVars, triggerVars>>

\* SELECT after UPDATE: the row may have been written again.
ReadBack(p) ==
    /\ Step(p, "written", "loaded")
    /\ Exists(arg[p])
    /\ snap' = [snap EXCEPT ![p] = rows[arg[p]]]
    /\ UNCHANGED <<rows, arg, cronVars, triggerVars>>

\* The row is gone or the SELECT fails: the request succeeds all the same, and
\* the scheduler is not told of the UPDATE.
ReadBackFails(p) ==
    /\ Finish(p, "written")
    /\ ~Exists(arg[p]) \/ DbFaults
    /\ UNCHANGED <<rows, cronVars, triggerVars>>

\* Faulty variant: handleToggleJob forgets the scheduler when it disables a job.
ScheduleEnabled(p) ==
    /\ Finish(p, "loaded")
    /\ IF snap[p].enabled THEN AddJob(arg[p], snap[p]) ELSE UNCHANGED cronVars
    /\ UNCHANGED <<rows, triggerVars>>

Schedule(p) ==
    /\ Finish(p, "loaded")
    /\ AddJob(arg[p], snap[p])
    /\ UNCHANGED <<rows, triggerVars>>

\* handleDeleteJob: DELETE, then RemoveJob.
DeleteJob(p, j) ==
    /\ Step(p, "idle", "removing")
    /\ Exists(j)
    /\ rows' = [rows EXCEPT ![j] = Deleted]
    /\ arg' = [arg EXCEPT ![p] = j]
    /\ UNCHANGED <<snap, cronVars, triggerVars>>

Unschedule(p) ==
    /\ Finish(p, "removing")
    /\ RemoveJob(arg[p])
    /\ UNCHANGED <<rows, triggerVars>>

\* handleDeleteAgent: ON DELETE CASCADE takes the jobs; the scheduler is not told.
CascadeDelete(j) ==
    /\ Cascades /\ Exists(j)
    /\ rows' = [rows EXCEPT ![j] = Deleted]
    /\ UNCHANGED <<requestVars, cronVars, triggerVars>>

-----------------------------------------------------------------------------
(* Triggers *)

\* The cron loop starts a goroutine with the entry's copy of the job.
Fire(t, e) ==
    /\ tpc[t] = "idle"
    /\ e \in entries
    /\ tpc' = [tpc EXCEPT ![t] = "fired"]
    /\ tjob' = [tjob EXCEPT ![t] = e.job]
    /\ trow' = [trow EXCEPT ![t] = e.row]
    /\ UNCHANGED <<rows, requestVars, cronVars>>

\* handleTriggerJob: the job is read from the table.
RunNow(t, j) ==
    /\ tpc[t] = "idle"
    /\ Exists(j)
    /\ tpc' = [tpc EXCEPT ![t] = "fired"]
    /\ tjob' = [tjob EXCEPT ![t] = j]
    /\ trow' = [trow EXCEPT ![t] = rows[j]]
    /\ UNCHANGED <<rows, requestVars, cronVars>>

\* The triggering goroutine ends.
Return(t) ==
    /\ tpc' = [tpc EXCEPT ![t] = "idle"]
    /\ tjob' = [tjob EXCEPT ![t] = NoRow]
    /\ trow' = [trow EXCEPT ![t] = NoRow]

InsertRun(t) ==
    /\ tpc[t] = "fired"
    /\ Exists(tjob[t])
    /\ tpc' = [tpc EXCEPT ![t] = "inserted"]
    /\ UNCHANGED <<rows, requestVars, cronVars, tjob, trow>>

\* INSERT INTO backup_runs fails: the foreign key refuses it when the job is gone.
InsertRunFails(t) ==
    /\ tpc[t] = "fired"
    /\ ~Exists(tjob[t]) \/ DbFaults
    /\ Return(t)
    /\ UNCHANGED <<rows, requestVars, cronVars>>

\* The copy of the job goes to the agent (or nowhere: see RunLifecycle).
DispatchJob(t) ==
    /\ tpc[t] = "inserted"
    /\ Return(t)
    /\ UNCHANGED <<rows, requestVars, cronVars>>

-----------------------------------------------------------------------------
\* The server starts again: loadJobs adds every enabled job, in any order,
\* before the API is served.
Loadable == {j \in Jobs : Exists(j) /\ rows[j].enabled /\ rows[j].cronOk}

\* Requests and triggers died with the old process.
Boot ==
    /\ pc' = [p \in Admins |-> "idle"]
    /\ arg' = [p \in Admins |-> NoRow]
    /\ snap' = [p \in Admins |-> NoRow]
    /\ tpc' = [t \in Triggers |-> "idle"]
    /\ tjob' = [t \in Triggers |-> NoRow]
    /\ trow' = [t \in Triggers |-> NoRow]

Restart(f) ==
    /\ Boot
    /\ f \in [Loadable -> 1 .. Cardinality(Loadable)]
    /\ \A i, j \in Loadable : i # j => f[i] # f[j]
    /\ entries' = {[id |-> f[j], job |-> j, row |-> rows[j]] : j \in Loadable}
    /\ entryIDs' = [j \in Jobs |-> IF j \in Loadable THEN f[j] ELSE 0]
    /\ lastID' = Cardinality(Loadable)
    /\ UNCHANGED rows

\* The query of loadJobs fails: it is logged, and the server runs without jobs.
RestartUnloaded ==
    /\ DbFaults
    /\ Boot
    /\ entries' = {} /\ lastID' = 0
    /\ entryIDs' = [j \in Jobs |-> 0]
    /\ UNCHANGED rows

RequestStep ==
    \E p \in Admins :
        \/ ReadBack(p) \/ ReadBackFails(p) \/ Schedule(p) \/ Unschedule(p)
        \/ \E j \in Jobs :
              \/ DeleteJob(p, j)
              \/ \E c \in Content : CreateJob(p, j, c) \/ UpdateJob(p, j, c)
              \/ \E on \in BOOLEAN : ToggleJob(p, j, on)

TriggerStep ==
    \E t \in Triggers :
        \/ InsertRun(t) \/ InsertRunFails(t) \/ DispatchJob(t)
        \/ \E e \in entries : Fire(t, e)
        \/ \E j \in Jobs : RunNow(t, j)

Next ==
    \/ RequestStep \/ TriggerStep
    \/ \E j \in Jobs : CascadeDelete(j)
    \/ \E f \in [Loadable -> 1 .. Cardinality(Loadable)] : Restart(f)
    \/ RestartUnloaded

Spec == Init /\ [][Next]_vars

-----------------------------------------------------------------------------
(* Properties *)

\* The map of entry ids and the cron object agree: no entry is out of the
\* scheduler's reach and a job never has two, so one tick starts it once,
\* whatever requests overlap.
OneEntryPerJob ==
    /\ \A e \in entries : entryIDs[e.job] = e.id
    /\ \A e1, e2 \in entries : e1.job = e2.job => e1 = e2
    /\ \A j \in Jobs : entryIDs[j] # 0 => \E e \in entries : e.id = entryIDs[j] /\ e.job = j

-----------------------------------------------------------------------------
(* What comments and documents say, and the code does not do *)

\* "AES-256-GCM encryption with per-job passphrase" (design document): a run of
\* the current revision of a job is dispatched with the passphrase of the row.
DispatchCarriesPassphrase ==
    \A t \in Triggers :
        tpc[t] = "inserted" /\ Exists(tjob[t]) /\ trow[t].rev = rows[tjob[t]].rev
            => trow[t].secret = rows[tjob[t]].secret
=============================================================================
