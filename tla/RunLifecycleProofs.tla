---------------------------- MODULE RunLifecycleProofs ----------------------------
(***************************************************************************)
(* Theorems about RunLifecycle, for every set of runs and cancel requests, *)
(* every capacity of the channel and with or without each kind of fault.   *)
(***************************************************************************)
EXTENDS RunLifecycle, SequenceTheorems, TLAPS

USE RunAssumption DEF RunAssumption

-----------------------------------------------------------------------------
(* Messages of a queue *)

\* At most one message of these types about each run.
Once(q, types) ==
    \A i, j \in DOMAIN q : q[i].type \in types /\ q[j].type \in types /\ q[i].run = q[j].run => i = j

LEMMA HasEmpty == ASSUME NEW t, NEW r PROVE ~Has(<<>>, t, r)
BY DEF Has

LEMMA HasAppend ==
    ASSUME NEW S, NEW q \in Seq(S), NEW m \in S, NEW t, NEW r
    PROVE  Has(Append(q, m), t, r) <=> Has(q, t, r) \/ m = Msg(t, r)
<1>1. /\ Len(Append(q, m)) = Len(q) + 1 /\ Append(q, m)[Len(q) + 1] = m
      /\ \A i \in 1 .. Len(q) : Append(q, m)[i] = q[i]
      /\ DOMAIN q = 1 .. Len(q) /\ DOMAIN Append(q, m) = 1 .. Len(q) + 1 /\ Len(q) \in Nat
    OBVIOUS
<1>2. QED BY <1>1 DEF Has

LEMMA HasTail ==
    ASSUME NEW S, NEW q \in Seq(S), q # <<>>, NEW t, NEW r
    PROVE  Has(q, t, r) <=> Head(q) = Msg(t, r) \/ Has(Tail(q), t, r)
<1>1. /\ Len(Tail(q)) = Len(q) - 1 /\ Head(q) = q[1] /\ Len(q) \in Nat \ {0}
      /\ \A i \in 1 .. Len(q) - 1 : Tail(q)[i] = q[i + 1]
      /\ DOMAIN q = 1 .. Len(q) /\ DOMAIN Tail(q) = 1 .. Len(q) - 1
    OBVIOUS
<1>2. ASSUME Has(q, t, r) PROVE Head(q) = Msg(t, r) \/ Has(Tail(q), t, r)
    <2>1. PICK i \in 1 .. Len(q) : q[i] = Msg(t, r)
        BY <1>1, <1>2 DEF Has
    <2>2. CASE i = 1
        BY <1>1, <2>1, <2>2
    <2>3. CASE i # 1
        <3>1. i - 1 \in 1 .. Len(q) - 1 /\ Tail(q)[i - 1] = Msg(t, r)
            BY <1>1, <2>1, <2>3
        <3>2. QED BY <1>1, <3>1 DEF Has
    <2>4. QED BY <2>2, <2>3
<1>3. ASSUME Has(Tail(q), t, r) PROVE Has(q, t, r)
    <2>1. PICK i \in 1 .. Len(q) - 1 : Tail(q)[i] = Msg(t, r)
        BY <1>1, <1>3 DEF Has
    <2>2. i + 1 \in 1 .. Len(q) /\ q[i + 1] = Msg(t, r)
        BY <1>1, <2>1
    <2>3. QED BY <1>1, <2>2 DEF Has
<1>4. ASSUME Head(q) = Msg(t, r) PROVE Has(q, t, r)
    <2>1. 1 \in DOMAIN q /\ q[1] = Msg(t, r)
        BY <1>1, <1>4
    <2>2. QED BY <2>1 DEF Has
<1>5. QED BY <1>2, <1>3, <1>4

\* The head of a queue was the only message of its type about its run.
LEMMA OnceTail ==
    ASSUME NEW S, NEW q \in Seq(S), q # <<>>, NEW types, Once(q, types)
    PROVE  /\ Once(Tail(q), types)
           /\ Head(q).type \in types => \A t \in types : ~Has(Tail(q), t, Head(q).run)
<1>1. /\ Head(q) = q[1] /\ Len(q) \in Nat \ {0}
      /\ \A i \in 1 .. Len(q) - 1 : Tail(q)[i] = q[i + 1]
      /\ DOMAIN q = 1 .. Len(q) /\ DOMAIN Tail(q) = 1 .. Len(q) - 1
    OBVIOUS
<1>2. Once(Tail(q), types)
    <2>1. SUFFICES ASSUME NEW i \in 1 .. Len(q) - 1, NEW j \in 1 .. Len(q) - 1,
                          Tail(q)[i].type \in types, Tail(q)[j].type \in types, Tail(q)[i].run = Tail(q)[j].run
                   PROVE  i = j
        BY <1>1 DEF Once
    <2>2. /\ q[i + 1].type \in types /\ q[j + 1].type \in types /\ q[i + 1].run = q[j + 1].run
          /\ i + 1 \in DOMAIN q /\ j + 1 \in DOMAIN q
        BY <1>1, <2>1
    <2>3. i + 1 = j + 1
        BY <2>2 DEF Once
    <2>4. QED BY <1>1, <2>3
<1>3. ASSUME Head(q).type \in types, NEW t \in types, Has(Tail(q), t, Head(q).run) PROVE FALSE
    <2>1. PICK i \in 1 .. Len(q) - 1 : Tail(q)[i] = Msg(t, Head(q).run)
        BY <1>1, <1>3 DEF Has
    <2>2. q[i + 1].type = t /\ q[i + 1].run = q[1].run /\ i + 1 \in DOMAIN q /\ 1 \in DOMAIN q
        BY <1>1, <2>1 DEF Msg
    <2>3. i + 1 = 1
        BY <1>1, <1>3, <2>2 DEF Once
    <2>4. QED BY <1>1, <2>3
<1>4. QED BY <1>2, <1>3

LEMMA OnceAppend ==
    ASSUME NEW S, NEW q \in Seq(S), NEW m \in S, NEW types, Once(q, types),
           m.type \in types => \A i \in DOMAIN q : q[i].type \in types => q[i].run # m.run
    PROVE  Once(Append(q, m), types)
<1>1. /\ Append(q, m)[Len(q) + 1] = m /\ \A i \in 1 .. Len(q) : Append(q, m)[i] = q[i]
      /\ DOMAIN q = 1 .. Len(q) /\ DOMAIN Append(q, m) = 1 .. Len(q) + 1 /\ Len(q) \in Nat
    OBVIOUS
<1>2. SUFFICES ASSUME NEW i \in 1 .. Len(q) + 1, NEW j \in 1 .. Len(q) + 1,
                      Append(q, m)[i].type \in types, Append(q, m)[j].type \in types,
                      Append(q, m)[i].run = Append(q, m)[j].run
               PROVE  i = j
    BY <1>1 DEF Once
<1>3. CASE i \in 1 .. Len(q) /\ j \in 1 .. Len(q)
    BY <1>1, <1>2, <1>3 DEF Once
<1>4. CASE i = Len(q) + 1 /\ j \in 1 .. Len(q)
    BY <1>1, <1>2, <1>4
<1>5. CASE j = Len(q) + 1 /\ i \in 1 .. Len(q)
    BY <1>1, <1>2, <1>5
<1>6. QED BY <1>1, <1>3, <1>4, <1>5

LEMMA OnceEmpty == ASSUME NEW types PROVE Once(<<>>, types)
BY DEF Once

-----------------------------------------------------------------------------
(* The invariant *)

Told(r) == Has(toServer, "job_done", r) \/ Has(toServer, "job_failed", r)
Sent(r) == Has(toAgent, "run_job", r)

\* Each run goes through its stages in order, with one verdict: it is inserted,
\* its command is on its way, its task is active, its report is on its way, its
\* report is recorded.
Stage(r) ==
    /\ status[r] = "none" => dispatch[r] = "none"
    /\ dispatch[r] \in {"none", "inserted"} => task[r] = "none" /\ ~Sent(r)
    /\ Sent(r) => task[r] = "none"
    /\ task[r] # "ended" \/ Told(r) => r \notin judging \cup alerts /\ status[r] # "success"
    /\ Told(r) => task[r] = "ended"
    /\ r \in judging \cup alerts => status[r] # "success"
    /\ task[r] = "uploaded" \/ Has(toServer, "job_done", r) \/ status[r] = "success" => r \in stored
    /\ status[r] = "running" => \/ dispatch[r] = "inserted" \/ Sent(r) \/ task[r] \in Active
                                \/ Told(r) \/ r \in judging \/ r \in lost

Types ==
    /\ status \in [Runs -> Terminal \cup {"none", "running", "deleted"}]
    /\ dispatch \in [Runs -> {"none", "inserted", "sent", "dropped"}]
    /\ task \in [Runs -> Active \cup {"none", "ended"}]
    /\ toAgent \in Seq(Commands) /\ Once(toAgent, {"run_job"})
    /\ toServer \in Seq(Reports) /\ Once(toServer, {"job_done", "job_failed"})
    /\ cpc \in [Cancels -> {"idle", "checked", "written"}]
    /\ crun \in [Cancels -> Runs \cup {NoRun}]
    /\ \A k \in Cancels : cpc[k] # "idle" => crun[k] \in Runs
    /\ alerts \subseteq Runs

RunInv == Types /\ \A r \in Runs : Stage(r)

LEMMA InitInv == Init => RunInv
<1>1. SUFFICES ASSUME Init PROVE RunInv
    OBVIOUS
<1>2. Types
    BY <1>1, OnceEmpty DEF Init, Types
<1>3. ASSUME NEW r \in Runs PROVE Stage(r)
    <2>1. ~Sent(r) /\ ~Told(r) /\ ~Has(toServer, "job_done", r)
        BY <1>1, HasEmpty DEF Init, Sent, Told
    <2>2. QED BY <1>1, <2>1 DEF Init, Stage
<1>4. QED BY <1>2, <1>3 DEF RunInv

\* What a step does not touch of a run keeps its stage.
Untouched(r) ==
    /\ status'[r] = status[r] \/ status'[r] \notin {"none", "running", "success"}
    /\ dispatch'[r] = dispatch[r] /\ task'[r] = task[r]
    /\ Sent(r)' <=> Sent(r)
    /\ Has(toServer, "job_done", r)' <=> Has(toServer, "job_done", r)
    /\ Has(toServer, "job_failed", r)' <=> Has(toServer, "job_failed", r)
    /\ r \in judging' <=> r \in judging
    /\ r \in alerts' <=> r \in alerts
    /\ r \in stored => r \in stored'
    /\ r \in lost => r \in lost'

LEMMA KeepsStage == ASSUME NEW r \in Runs, Stage(r), Untouched(r) PROVE Stage(r)'
BY DEF Stage, Untouched, Told

\* The parts of a step that leave all the messages alone.
LEMMA SameMessages ==
    ASSUME UNCHANGED <<toAgent, toServer>>
    PROVE  \A r \in Runs : /\ Sent(r)' <=> Sent(r)
                          /\ \A t : Has(toServer, t, r)' <=> Has(toServer, t, r)
BY DEF Sent, Has

-----------------------------------------------------------------------------
(* Triggers *)

LEMMA InsertStep == ASSUME RunInv, NEW r \in Runs, InsertRun(r) PROVE RunInv'
<1>1. /\ status[r] = "none" /\ status' = [status EXCEPT ![r] = "running"]
      /\ dispatch' = [dispatch EXCEPT ![r] = "inserted"]
      /\ UNCHANGED <<toAgent, toServer, task, stored, judging, alerts, lost, cpc, crun>>
    BY DEF InsertRun, linkVars, taskVars, cancelVars
<1>2. /\ status'[r] = "running" /\ dispatch'[r] = "inserted"
      /\ \A s \in Runs \ {r} : status'[s] = status[s] /\ dispatch'[s] = dispatch[s]
    BY <1>1 DEF RunInv, Types
<1>3. Types'
    BY <1>1 DEF RunInv, Types, Terminal
<1>4. Stage(r)'
    BY <1>1, <1>2, SameMessages DEF RunInv, Stage, Told
<1>5. ASSUME NEW s \in Runs \ {r} PROVE Stage(s)'
    BY <1>1, <1>2, SameMessages, KeepsStage DEF RunInv, Untouched
<1>6. QED BY <1>3, <1>4, <1>5 DEF RunInv

\* The trigger ends: its command is on its way, or lost.
LEMMA DispatchStep ==
    ASSUME RunInv, NEW r \in Runs, Dispatch(r) \/ AbandonDispatch(r) PROVE RunInv'
<1> DEFINE m == Msg("run_job", r)
<1>1. /\ dispatch[r] = "inserted" /\ task[r] = "none" /\ ~Sent(r)
      /\ UNCHANGED <<status, toServer, task, stored, judging, alerts, cpc, crun>>
    BY DEF Dispatch, AbandonDispatch, RunInv, Stage, linkVars, taskVars, cancelVars
<1>2. m \in Commands /\ m.type = "run_job" /\ m.run = r
    BY DEF Commands, Msg
<1>3. \A s \in Runs : \A t : Has(toServer, t, s)' <=> Has(toServer, t, s)
    BY <1>1 DEF Has
<1>4. CASE toAgent' = Append(toAgent, m) /\ dispatch' = [dispatch EXCEPT ![r] = "sent"] /\ UNCHANGED lost
    <2>1. \A s \in Runs : Sent(s)' <=> Sent(s) \/ s = r
        <3>1. ASSUME NEW s \in Runs PROVE Has(Append(toAgent, m), "run_job", s) <=> Has(toAgent, "run_job", s) \/ m = Msg("run_job", s)
            BY <1>2, HasAppend DEF RunInv, Types
        <3>2. \A s \in Runs : m = Msg("run_job", s) <=> s = r
            BY DEF Msg
        <3>3. QED BY <1>4, <3>1, <3>2 DEF Sent
    <2>2. toAgent' \in Seq(Commands)
        BY <1>2, <1>4 DEF RunInv, Types
    <2>3. \A i \in DOMAIN toAgent : toAgent[i].type \in {"run_job"} => toAgent[i].run # m.run
        <3>1. SUFFICES ASSUME NEW i \in DOMAIN toAgent, toAgent[i].type = "run_job", toAgent[i].run = r
                       PROVE  FALSE
            BY <1>2
        <3>2. toAgent[i] \in Commands
            BY DEF RunInv, Types
        <3>3. toAgent[i] = Msg("run_job", r)
            BY <3>1, <3>2 DEF Commands, Msg
        <3>4. QED BY <1>1, <3>3 DEF Sent, Has
    <2>4. Once(toAgent', {"run_job"})
        BY <1>2, <1>4, <2>3, OnceAppend DEF RunInv, Types
    <2>5. /\ dispatch'[r] = "sent" /\ \A s \in Runs \ {r} : dispatch'[s] = dispatch[s]
        BY <1>4 DEF RunInv, Types
    <2>6. Types'
        BY <1>1, <1>4, <2>2, <2>4 DEF RunInv, Types
    <2>7. Stage(r)'
        BY <1>1, <1>3, <1>4, <2>1, <2>5 DEF RunInv, Stage, Told
    <2>8. ASSUME NEW s \in Runs \ {r} PROVE Stage(s)'
        BY <1>1, <1>3, <1>4, <2>1, <2>5, KeepsStage DEF RunInv, Untouched
    <2>9. QED BY <2>6, <2>7, <2>8 DEF RunInv
<1>5. CASE UNCHANGED toAgent /\ dispatch' = [dispatch EXCEPT ![r] = "dropped"] /\ lost' = lost \cup {r}
    <2>1. dispatch'[r] = "dropped" /\ \A s \in Runs \ {r} : dispatch'[s] = dispatch[s]
        BY <1>5 DEF RunInv, Types
    <2>2. Types'
        BY <1>1, <1>5 DEF RunInv, Types
    <2>3. Stage(r)'
        BY <1>1, <1>5, <2>1, SameMessages DEF RunInv, Stage, Told
    <2>4. ASSUME NEW s \in Runs \ {r} PROVE Stage(s)'
        BY <1>1, <1>5, <2>1, SameMessages, KeepsStage DEF RunInv, Untouched
    <2>5. QED BY <2>2, <2>3, <2>4 DEF RunInv
<1>6. QED BY <1>4, <1>5 DEF Dispatch, AbandonDispatch, linkVars

-----------------------------------------------------------------------------
(* The agent *)

\* A command that is received was the only one for its run.
LEMMA ReceiveRunStep == ASSUME RunInv, ReceiveRun PROVE RunInv'
<1>1. PICK r : r = Head(toAgent).run
    OBVIOUS
<1>2. /\ toAgent # <<>> /\ toAgent \in Seq(Commands) /\ Once(toAgent, {"run_job"})
      /\ Head(toAgent).type = "run_job" /\ toAgent' = Tail(toAgent)
      /\ task' = [task EXCEPT ![r] = "executing"]
      /\ UNCHANGED <<status, dispatch, toServer, stored, judging, alerts, lost, cpc, crun>>
    BY <1>1 DEF ReceiveRun, RunInv, Types, cancelVars
<1>3. Head(toAgent) \in Commands
    BY <1>2
<1>4. r \in Runs /\ Head(toAgent) = Msg("run_job", r)
    BY <1>1, <1>2, <1>3 DEF Commands, Msg
<1>5. \A s \in Runs : Sent(s) <=> s = r \/ Sent(s)'
    <2>1. \A s \in Runs : Has(toAgent, "run_job", s) <=> Head(toAgent) = Msg("run_job", s) \/ Has(Tail(toAgent), "run_job", s)
        BY <1>2, HasTail
    <2>2. \A s \in Runs : Msg("run_job", r) = Msg("run_job", s) <=> s = r
        BY DEF Msg
    <2>3. QED BY <1>2, <1>4, <2>1, <2>2 DEF Sent
<1>6. ~Sent(r)' /\ Once(toAgent', {"run_job"})
    BY <1>1, <1>2, OnceTail DEF Sent
<1>7. task'[r] = "executing" /\ \A s \in Runs \ {r} : task'[s] = task[s]
    BY <1>2, <1>4 DEF RunInv, Types
<1>8. \A s \in Runs : \A t : Has(toServer, t, s)' <=> Has(toServer, t, s)
    BY <1>2 DEF Has
<1>9. Types'
    <2>1. toAgent' \in Seq(Commands)
        BY <1>2
    <2>2. task' \in [Runs -> Active \cup {"none", "ended"}]
        BY <1>2 DEF RunInv, Types, Active
    <2>3. QED BY <1>2, <1>6, <2>1, <2>2 DEF RunInv, Types
<1>10. Stage(r)'
    BY <1>2, <1>4, <1>5, <1>6, <1>7, <1>8 DEF RunInv, Stage, Told, Active
<1>11. ASSUME NEW s \in Runs \ {r} PROVE Stage(s)'
    BY <1>2, <1>5, <1>7, <1>8, KeepsStage DEF RunInv, Untouched
<1>12. QED BY <1>9, <1>10, <1>11 DEF RunInv

LEMMA ReceiveCancelStep == ASSUME RunInv, ReceiveCancel PROVE RunInv'
<1>1. /\ toAgent # <<>> /\ toAgent \in Seq(Commands) /\ Once(toAgent, {"run_job"})
      /\ Head(toAgent).type = "cancel_job" /\ toAgent' = Tail(toAgent)
      /\ UNCHANGED <<status, dispatch, toServer, task, stored, judging, alerts, lost, cpc, crun>>
    BY DEF ReceiveCancel, RunInv, Types, cancelVars
<1>2. \A s \in Runs : Sent(s)' <=> Sent(s)
    <2>1. \A s \in Runs : Has(toAgent, "run_job", s) <=> Head(toAgent) = Msg("run_job", s) \/ Has(Tail(toAgent), "run_job", s)
        BY <1>1, HasTail
    <2>2. \A s \in Runs : Head(toAgent) # Msg("run_job", s)
        BY <1>1 DEF Msg
    <2>3. QED BY <1>1, <2>1, <2>2 DEF Sent
<1>3. \A s \in Runs : \A t : Has(toServer, t, s)' <=> Has(toServer, t, s)
    BY <1>1 DEF Has
<1>4. Types'
    <2>1. toAgent' \in Seq(Commands) /\ Once(toAgent', {"run_job"})
        BY <1>1, OnceTail
    <2>2. QED BY <1>1, <2>1 DEF RunInv, Types
<1>5. ASSUME NEW s \in Runs PROVE Stage(s)'
    BY <1>1, <1>2, <1>3, KeepsStage DEF RunInv, Untouched
<1>6. QED BY <1>4, <1>5 DEF RunInv

\* A task ends with its only report, of a success only if its archive is stored.
LEMMA ReportStep ==
    ASSUME RunInv, NEW r \in Runs, NEW t \in {"job_done", "job_failed"}, Report(r, t),
           task[r] \in Active, t = "job_done" => r \in stored, stored \subseteq stored',
           \A s \in Runs \ {r} : s \in stored' => s \in stored
    PROVE  RunInv'
<1> DEFINE m == Msg(t, r)
<1>1. /\ task' = [task EXCEPT ![r] = "ended"]
      /\ toServer' = IF link = "up" THEN Append(toServer, m) ELSE toServer
      /\ lost' = IF link = "up" THEN lost ELSE lost \cup {r}
      /\ UNCHANGED <<status, dispatch, toAgent, judging, alerts, cpc, crun>>
    BY DEF Report, cancelVars
<1>2. task'[r] = "ended" /\ \A s \in Runs \ {r} : task'[s] = task[s]
    BY <1>1 DEF RunInv, Types
<1>3. m \in Reports /\ m.run = r /\ toServer \in Seq(Reports)
    BY DEF Reports, Msg, RunInv, Types
<1>4. ~Told(r) /\ ~Sent(r) /\ dispatch[r] \notin {"none", "inserted"} /\ r \notin judging \cup alerts
      /\ status[r] # "success"
    BY DEF RunInv, Stage, Active
<1>5. \A s \in Runs : Sent(s)' <=> Sent(s)
    BY <1>1 DEF Sent, Has
<1>6. CASE link = "up"
    <2>1. \A s \in Runs : \A u : Has(toServer, u, s)' <=> Has(toServer, u, s) \/ (s = r /\ u = t)
        <3>1. \A s \in Runs : \A u : Has(Append(toServer, m), u, s) <=> Has(toServer, u, s) \/ m = Msg(u, s)
            BY <1>3, HasAppend
        <3>2. \A s \in Runs : \A u : m = Msg(u, s) <=> s = r /\ u = t
            BY DEF Msg
        <3>3. \A s \in Runs : \A u : Has(toServer, u, s)' <=> Has(Append(toServer, m), u, s)
            BY <1>1, <1>6 DEF Has
        <3>4. QED BY <3>1, <3>2, <3>3
    <2>2. \A i \in DOMAIN toServer : toServer[i].run # m.run
        <3>1. SUFFICES ASSUME NEW i \in DOMAIN toServer, toServer[i].run = r PROVE FALSE
            BY <1>3
        <3>2. toServer[i] \in Reports
            BY <1>3
        <3>3. toServer[i] = Msg("job_done", r) \/ toServer[i] = Msg("job_failed", r)
            BY <3>1, <3>2 DEF Reports, Msg
        <3>4. QED BY <1>4, <3>3 DEF Told, Has
    <2>3. toServer' \in Seq(Reports) /\ Once(toServer', {"job_done", "job_failed"})
        BY <1>1, <1>3, <1>6, <2>2, OnceAppend DEF RunInv, Types
    <2>4. Types'
        BY <1>1, <2>3 DEF RunInv, Types
    <2>5. Stage(r)'
        BY <1>1, <1>2, <1>4, <1>5, <1>6, <2>1 DEF RunInv, Stage, Told
    <2>6. ASSUME NEW s \in Runs \ {r} PROVE Stage(s)'
        BY <1>1, <1>2, <1>5, <1>6, <2>1, KeepsStage DEF RunInv, Untouched
    <2>7. QED BY <2>4, <2>5, <2>6 DEF RunInv
<1>7. CASE link # "up"
    <2>1. \A s \in Runs : \A u : Has(toServer, u, s)' <=> Has(toServer, u, s)
        BY <1>1, <1>7 DEF Has
    <2>2. Types'
        BY <1>1, <1>7 DEF RunInv, Types
    <2>3. Stage(r)'
        BY <1>1, <1>2, <1>4, <1>5, <1>7, <2>1 DEF RunInv, Stage, Told
    <2>4. ASSUME NEW s \in Runs \ {r} PROVE Stage(s)'
        BY <1>1, <1>2, <1>5, <1>7, <2>1, KeepsStage DEF RunInv, Untouched
    <2>5. QED BY <2>2, <2>3, <2>4 DEF RunInv
<1>8. QED BY <1>6, <1>7

\* A task works and uploads.
LEMMA WorkStep == ASSUME RunInv, NEW r \in Runs, FinishWork(r) \/ Upload(r) PROVE RunInv'
<1>1. PICK p \in {"uploading", "uploaded"} :
        /\ task' = [task EXCEPT ![r] = p] /\ task[r] \in Active
        /\ p = "uploaded" => r \in stored'
    BY DEF FinishWork, Upload, Active
<1>2. /\ UNCHANGED <<status, dispatch, toAgent, toServer, judging, alerts, lost, cpc, crun>>
      /\ stored \subseteq stored'
    BY DEF FinishWork, Upload, linkVars, cancelVars
<1>3. task'[r] = p /\ \A s \in Runs \ {r} : task'[s] = task[s]
    BY <1>1 DEF RunInv, Types
<1>4. Types'
    BY <1>1, <1>2 DEF RunInv, Types, Active
<1>5. Stage(r)'
    BY <1>1, <1>2, <1>3, SameMessages DEF RunInv, Stage, Told, Active
<1>6. ASSUME NEW s \in Runs \ {r} PROVE Stage(s)'
    BY <1>2, <1>3, SameMessages, KeepsStage DEF RunInv, Untouched
<1>7. QED BY <1>4, <1>5, <1>6 DEF RunInv

LEMMA TaskSteps == ASSUME RunInv, NEW r \in Runs, TaskStep(r) PROVE RunInv'
<1>1. ASSUME Abort(r) \/ FailWork(r) PROVE RunInv'
    BY <1>1, ReportStep DEF Abort, FailWork, Active
<1>2. ASSUME FailUpload(r) PROVE RunInv'
    BY <1>2, ReportStep DEF FailUpload, Active
<1>3. ASSUME ReportDone(r) PROVE RunInv'
    <2>1. r \in stored
        BY <1>3 DEF ReportDone, RunInv, Stage
    <2>2. QED BY <1>3, <2>1, ReportStep DEF ReportDone, Active
<1>4. QED BY <1>1, <1>2, <1>3, WorkStep DEF TaskStep

-----------------------------------------------------------------------------
(* The server applies reports *)

\* What taking the head off the reports does: it was the only one about its run.
LEMMA TakeReport ==
    ASSUME RunInv, toServer # <<>>, toServer' = Tail(toServer), NEW r, r = Head(toServer).run
    PROVE  /\ r \in Runs /\ Told(r) /\ ~Told(r)'
           /\ Head(toServer).type = "job_done" => r \in stored
           /\ toServer' \in Seq(Reports) /\ Once(toServer', {"job_done", "job_failed"})
           /\ \A s \in Runs \ {r} : \A t : Has(toServer, t, s)' <=> Has(toServer, t, s)
<1>1. toServer \in Seq(Reports) /\ Once(toServer, {"job_done", "job_failed"})
    BY DEF RunInv, Types
<1>2. PICK t \in {"job_done", "job_failed"} : Head(toServer) = Msg(t, r) /\ r \in Runs
    <2>1. Head(toServer) \in Reports
        BY <1>1
    <2>2. PICK t \in {"job_done", "job_failed"}, s \in Runs : Head(toServer) = Msg(t, s)
        BY <2>1 DEF Reports
    <2>3. s = r
        BY <2>2 DEF Msg
    <2>4. QED BY <2>2, <2>3
<1>3. Head(toServer).type = t
    BY <1>2 DEF Msg
<1>4. \A s \in Runs : \A u : Has(toServer, u, s) <=> Head(toServer) = Msg(u, s) \/ Has(Tail(toServer), u, s)
    BY <1>1, HasTail
<1>5. \A s \in Runs : \A u : Has(toServer, u, s)' <=> Has(Tail(toServer), u, s)
    BY DEF Has
<1>6. \A s \in Runs : \A u : Msg(t, r) = Msg(u, s) <=> s = r /\ u = t
    BY DEF Msg
<1>7. Told(r) /\ (t = "job_done" => r \in stored)
    <2>1. Has(toServer, t, r)
        BY <1>2, <1>4
    <2>2. QED BY <1>2, <2>1 DEF Told, RunInv, Stage
<1>8. ~Told(r)' /\ Once(toServer', {"job_done", "job_failed"})
    <2>1. \A u \in {"job_done", "job_failed"} : ~Has(Tail(toServer), u, r)
        BY <1>1, <1>3, OnceTail
    <2>2. QED BY <1>1, <1>2, <1>5, <2>1, OnceTail DEF Told
<1>9. \A s \in Runs \ {r} : \A u : Has(toServer, u, s)' <=> Has(toServer, u, s)
    BY <1>2, <1>4, <1>5, <1>6
<1>10. toServer' \in Seq(Reports)
    BY <1>1
<1>11. QED BY <1>2, <1>3, <1>7, <1>8, <1>9, <1>10

LEMMA DoneStep == ASSUME RunInv, HandleDone PROVE RunInv'
<1>1. PICK r : r = Head(toServer).run
    OBVIOUS
<1>2. /\ toServer # <<>> /\ Head(toServer).type = "job_done" /\ toServer' = Tail(toServer)
      /\ UNCHANGED <<dispatch, toAgent, task, stored, judging, alerts, cpc, crun>>
      /\ \/ SetStatus(r, "success") /\ UNCHANGED lost
         \/ lost' = lost \cup {r} /\ UNCHANGED status
    BY <1>1 DEF HandleDone, taskVars, cancelVars
<1>3. /\ r \in Runs /\ Told(r) /\ ~Told(r)' /\ r \in stored
      /\ toServer' \in Seq(Reports) /\ Once(toServer', {"job_done", "job_failed"})
      /\ \A s \in Runs \ {r} : \A t : Has(toServer, t, s)' <=> Has(toServer, t, s)
    BY <1>1, <1>2, TakeReport
<1>4. /\ \A s \in Runs \ {r} : status'[s] = status[s]
      /\ \/ status'[r] = status[r] /\ (status[r] = "running" => r \in lost')
         \/ status'[r] = "success" /\ status[r] # "none"
      /\ status' \in [Runs -> Terminal \cup {"none", "running", "deleted"}] /\ lost \subseteq lost'
    BY <1>2, <1>3 DEF SetStatus, HasRow, Terminal, RunInv, Types
<1>5. \A s \in Runs : Sent(s)' <=> Sent(s)
    BY <1>2 DEF Sent, Has
<1>6. Types'
    BY <1>2, <1>3, <1>4 DEF RunInv, Types
<1>7. Stage(r)'
    BY <1>2, <1>3, <1>4, <1>5 DEF RunInv, Stage, Told
<1>8. ASSUME NEW s \in Runs \ {r} PROVE Stage(s)'
    BY <1>2, <1>3, <1>4, <1>5, KeepsStage DEF RunInv, Untouched
<1>9. QED BY <1>6, <1>7, <1>8 DEF RunInv

LEMMA FailedStep == ASSUME RunInv, HandleFailed PROVE RunInv'
<1>1. PICK r : r = Head(toServer).run
    OBVIOUS
<1>2. /\ toServer # <<>> /\ Head(toServer).type = "job_failed" /\ toServer' = Tail(toServer)
      /\ UNCHANGED <<status, dispatch, toAgent, task, stored, alerts, lost, cpc, crun>>
      /\ \/ status[r] = "cancelled" /\ UNCHANGED judging
         \/ judging' = judging \cup {r}
    BY <1>1 DEF HandleFailed, taskVars, cancelVars
<1>3. /\ r \in Runs /\ Told(r) /\ ~Told(r)'
      /\ toServer' \in Seq(Reports) /\ Once(toServer', {"job_done", "job_failed"})
      /\ \A s \in Runs \ {r} : \A t : Has(toServer, t, s)' <=> Has(toServer, t, s)
    BY <1>1, <1>2, TakeReport
<1>4. \A s \in Runs : Sent(s)' <=> Sent(s)
    BY <1>2 DEF Sent, Has
<1>5. Types'
    BY <1>2, <1>3 DEF RunInv, Types
<1>6. Stage(r)'
    BY <1>2, <1>3, <1>4 DEF RunInv, Stage, Told
<1>7. ASSUME NEW s \in Runs \ {r} PROVE Stage(s)'
    BY <1>2, <1>3, <1>4, KeepsStage DEF RunInv, Untouched
<1>8. QED BY <1>5, <1>6, <1>7 DEF RunInv

LEMMA RecordStep == ASSUME RunInv, NEW r \in Runs, RecordFailure(r) PROVE RunInv'
<1>1. /\ r \in judging /\ alerts' = alerts \cup {r} /\ judging' = judging \ {r}
      /\ UNCHANGED <<dispatch, toAgent, toServer, task, stored, cpc, crun>>
      /\ \/ SetStatus(r, "failed") /\ UNCHANGED lost
         \/ lost' = lost \cup {r} /\ UNCHANGED status
    BY DEF RecordFailure, linkVars, taskVars, cancelVars
<1>2. /\ \A s \in Runs \ {r} : status'[s] = status[s]
      /\ \/ status'[r] = status[r] /\ (status[r] = "running" => r \in lost')
         \/ status'[r] = "failed" /\ status[r] # "none"
      /\ status' \in [Runs -> Terminal \cup {"none", "running", "deleted"}] /\ lost \subseteq lost'
    BY <1>1 DEF SetStatus, HasRow, Terminal, RunInv, Types
<1>3. Types'
    BY <1>1, <1>2 DEF RunInv, Types
<1>4. Stage(r)'
    BY <1>1, <1>2, SameMessages DEF RunInv, Stage, Told
<1>5. ASSUME NEW s \in Runs \ {r} PROVE Stage(s)'
    BY <1>1, <1>2, SameMessages, KeepsStage DEF RunInv, Untouched
<1>6. QED BY <1>3, <1>4, <1>5 DEF RunInv

-----------------------------------------------------------------------------
(* Cancellations, rows that disappear *)

\* A row ends otherwise, or not at all.
LEMMA RowStep ==
    ASSUME RunInv, UNCHANGED <<dispatch, toServer, task, stored, judging, alerts, lost>>,
           status' \in [Runs -> Terminal \cup {"none", "running", "deleted"}],
           \A r \in Runs : status'[r] = status[r] \/ status'[r] \in {"cancelled", "deleted"},
           \A r \in Runs : Sent(r)' <=> Sent(r),
           Types'
    PROVE  RunInv'
<1>1. \A s \in Runs : \A t : Has(toServer, t, s)' <=> Has(toServer, t, s)
    BY DEF Has
<1>2. ASSUME NEW s \in Runs PROVE Stage(s)'
    BY <1>1, KeepsStage DEF RunInv, Untouched
<1>3. QED BY <1>2 DEF RunInv

LEMMA CancelSteps ==
    ASSUME RunInv, NEW k \in Cancels,
           CancelWrite(k) \/ CancelRefused(k) \/ CancelSend(k) \/ \E r \in Runs : CancelCheck(k, r)
    PROVE  RunInv'
<1>1. /\ UNCHANGED <<dispatch, toServer, task, stored, judging, alerts, lost>>
      /\ cpc \in [Cancels -> {"idle", "checked", "written"}] /\ crun \in [Cancels -> Runs \cup {NoRun}]
    BY DEF CancelWrite, CancelRefused, CancelSend, CancelCheck, linkVars, taskVars, RunInv, Types
<1>2. ASSUME NEW r \in Runs, CancelCheck(k, r) PROVE RunInv'
    <2>1. UNCHANGED <<status, toAgent>> /\ cpc' = [cpc EXCEPT ![k] = "checked"] /\ crun' = [crun EXCEPT ![k] = r]
        BY <1>2 DEF CancelCheck, linkVars
    <2>2. Types'
        BY <1>1, <2>1 DEF RunInv, Types
    <2>3. QED BY <1>1, <2>1, <2>2, SameMessages, RowStep DEF RunInv, Types
<1>3. CASE CancelWrite(k)
    <2>1. /\ SetStatus(crun[k], "cancelled") /\ crun[k] \in Runs
          /\ cpc' = [cpc EXCEPT ![k] = "written"] /\ UNCHANGED <<toAgent, crun>>
        BY <1>3 DEF CancelWrite, linkVars, RunInv, Types
    <2>2. /\ status' \in [Runs -> Terminal \cup {"none", "running", "deleted"}]
          /\ \A r \in Runs : status'[r] = status[r] \/ status'[r] = "cancelled"
        BY <2>1 DEF SetStatus, HasRow, Terminal, RunInv, Types
    <2>3. Types'
        BY <1>1, <2>1, <2>2 DEF RunInv, Types
    <2>4. QED BY <1>1, <2>1, <2>2, <2>3, SameMessages, RowStep
<1>4. CASE CancelRefused(k)
    <2>1. /\ UNCHANGED <<status, toAgent>> /\ cpc' = [cpc EXCEPT ![k] = "idle"]
          /\ crun' = [crun EXCEPT ![k] = NoRun]
        BY <1>4 DEF CancelRefused, linkVars
    <2>2. Types'
        BY <1>1, <2>1 DEF RunInv, Types
    <2>3. QED BY <1>1, <2>1, <2>2, SameMessages, RowStep DEF RunInv, Types
<1>5. CASE CancelSend(k)
    <2>1. /\ UNCHANGED status /\ cpc' = [cpc EXCEPT ![k] = "idle"] /\ crun' = [crun EXCEPT ![k] = NoRun]
          /\ crun[k] \in Runs
          /\ \/ toAgent' = Append(toAgent, Msg("cancel_job", crun[k]))
             \/ UNCHANGED toAgent
        BY <1>5 DEF CancelSend, RunInv, Types
    <2>2. PICK m : m = Msg("cancel_job", crun[k])
        OBVIOUS
    <2>3. m \in Commands /\ m.type = "cancel_job" /\ \A r : m # Msg("run_job", r)
        BY <2>1, <2>2 DEF Commands, Msg
    <2>4. CASE toAgent' = Append(toAgent, m)
        <3>1. toAgent' \in Seq(Commands) /\ Once(toAgent', {"run_job"})
            BY <2>3, <2>4, OnceAppend DEF RunInv, Types
        <3>2. \A r \in Runs : Has(Append(toAgent, m), "run_job", r) <=> Has(toAgent, "run_job", r)
            BY <2>3, HasAppend DEF RunInv, Types
        <3>3. \A r \in Runs : Sent(r)' <=> Sent(r)
            BY <2>4, <3>2 DEF Sent
        <3>4. Types'
            BY <1>1, <2>1, <3>1 DEF RunInv, Types
        <3>5. QED BY <1>1, <2>1, <3>3, <3>4, RowStep DEF RunInv, Types
    <2>5. CASE UNCHANGED toAgent
        <3>1. Types'
            BY <1>1, <2>1, <2>5 DEF RunInv, Types
        <3>2. QED BY <1>1, <2>1, <2>5, <3>1, SameMessages, RowStep DEF RunInv, Types
    <2>6. QED BY <2>1, <2>2, <2>4, <2>5
<1>6. QED BY <1>2, <1>3, <1>4, <1>5

LEMMA DeleteSteps ==
    ASSUME RunInv, NEW r \in Runs, CascadeDelete(r) \/ RetentionDelete(r) PROVE RunInv'
<1>1. /\ UNCHANGED <<dispatch, toAgent, toServer, task, stored, judging, alerts, lost, cpc, crun>>
      /\ status' = [status EXCEPT ![r] = "deleted"] \/ UNCHANGED status
    BY DEF CascadeDelete, RetentionDelete, linkVars, taskVars, cancelVars
<1>2. /\ status' \in [Runs -> Terminal \cup {"none", "running", "deleted"}]
      /\ \A s \in Runs : status'[s] = status[s] \/ status'[s] = "deleted"
    BY <1>1 DEF RunInv, Types
<1>3. Types'
    BY <1>1, <1>2 DEF RunInv, Types
<1>4. QED BY <1>1, <1>2, <1>3, SameMessages, RowStep

-----------------------------------------------------------------------------
(* Connections and processes *)

\* What a connection carried is lost with it; a process that crashes loses more.
LEMMA CutStep ==
    ASSUME RunInv, toAgent' = <<>>, toServer' = <<>>, UNCHANGED <<status, stored, alerts>>,
           judging' \subseteq judging, lost \subseteq lost', InFlight \subseteq lost',
           \A r \in Runs : r \in judging /\ r \notin judging' => r \in lost',
           \A r \in Runs : dispatch'[r] = dispatch[r] \/
                          (dispatch[r] = "inserted" /\ dispatch'[r] = "dropped" /\ r \in lost'),
           \A r \in Runs : task'[r] = task[r] \/ (task[r] \in Active /\ task'[r] = "ended" /\ r \in lost'),
           Types'
    PROVE  RunInv'
<1>1. \A r \in Runs : ~Sent(r)' /\ ~Told(r)' /\ ~Has(toServer, "job_done", r)'
    BY HasEmpty DEF Sent, Told
<1>2. \A r \in Runs : Sent(r) \/ Told(r) => r \in lost'
    BY DEF InFlight, Sent, Told
<1>3. ASSUME NEW r \in Runs PROVE Stage(r)'
    <2>1. Stage(r) /\ (status[r] = "none" => dispatch'[r] = "none")
        BY DEF RunInv, Stage
    <2>2. QED BY <1>1, <1>2, <2>1 DEF Stage, Active
<1>4. QED BY <1>3 DEF RunInv

LEMMA LinkStep ==
    ASSUME RunInv, Dial \/ Hello \/ Drop \/ ServerCrash \/ AgentCrash PROVE RunInv'
<1>1. CASE Dial \/ Hello
    <2>1. UNCHANGED <<status, dispatch, toAgent, toServer, task, stored, judging, alerts, lost, cpc, crun>>
        BY <1>1 DEF Dial, Hello, taskVars, cancelVars
    <2>2. Types'
        BY <2>1 DEF RunInv, Types
    <2>3. ASSUME NEW r \in Runs PROVE Stage(r)'
        BY <2>1, SameMessages, KeepsStage DEF RunInv, Untouched
    <2>4. QED BY <2>2, <2>3 DEF RunInv
<1>2. CASE Drop
    <2>1. /\ UNCHANGED <<status, dispatch, task, stored, judging, alerts, cpc, crun>>
          /\ toAgent' = <<>> /\ toServer' = <<>> /\ lost' = lost \cup InFlight
        BY <1>2 DEF Drop, Cut, taskVars, cancelVars
    <2>2. Types'
        BY <2>1, OnceEmpty DEF RunInv, Types
    <2>3. QED BY <2>1, <2>2, CutStep
<1>3. CASE ServerCrash
    <2>1. /\ UNCHANGED <<status, task, stored, alerts>> /\ judging' = {}
          /\ toAgent' = <<>> /\ toServer' = <<>>
          /\ lost' = lost \cup InFlight \cup judging \cup {r \in Runs : dispatch[r] = "inserted"}
          /\ dispatch' = [r \in Runs |-> IF dispatch[r] = "inserted" THEN "dropped" ELSE dispatch[r]]
          /\ cpc' = [k \in Cancels |-> "idle"] /\ crun' = [k \in Cancels |-> NoRun]
        BY <1>3 DEF ServerCrash, Cut, taskVars
    <2>2. Types'
        BY <2>1, OnceEmpty DEF RunInv, Types
    <2>3. QED BY <2>1, <2>2, CutStep
<1>4. CASE AgentCrash
    <2>1. /\ UNCHANGED <<status, dispatch, stored, judging, alerts, cpc, crun>>
          /\ toAgent' = <<>> /\ toServer' = <<>>
          /\ lost' = lost \cup InFlight \cup {r \in Runs : task[r] \in Active}
          /\ task' = [r \in Runs |-> IF task[r] \in Active THEN "ended" ELSE task[r]]
        BY <1>4 DEF AgentCrash, Cut, cancelVars
    <2>2. Types'
        BY <2>1, OnceEmpty DEF RunInv, Types
    <2>3. QED BY <2>1, <2>2, CutStep
<1>5. QED BY <1>1, <1>2, <1>3, <1>4

\* Steps that change nothing the invariant is about.
LEMMA OtherStep ==
    ASSUME RunInv, UNCHANGED vars \/ \E old \in SUBSET Runs : RetentionQuery(old) PROVE RunInv'
<1>1. UNCHANGED <<status, dispatch, toAgent, toServer, task, stored, judging, alerts, lost, cpc, crun>>
    BY DEF vars, RetentionQuery, linkVars, taskVars, cancelVars
<1>2. Types'
    BY <1>1 DEF RunInv, Types
<1>3. ASSUME NEW r \in Runs PROVE Stage(r)'
    BY <1>1, SameMessages, KeepsStage DEF RunInv, Untouched
<1>4. QED BY <1>2, <1>3 DEF RunInv

-----------------------------------------------------------------------------
(* Theorems *)

\* Every run of backup_runs goes through its stages, with one verdict.
THEOREM Inductive == Spec => []RunInv
<1>1. RunInv /\ [Next]_vars => RunInv'
    <2>1. SUFFICES ASSUME RunInv, [Next]_vars PROVE RunInv'
        OBVIOUS
    <2>2. CASE UNCHANGED vars
        BY <2>1, <2>2, OtherStep
    <2>3. CASE Next
        <3>1. ASSUME NEW r \in Runs,
                     \/ InsertRun(r) \/ Dispatch(r) \/ AbandonDispatch(r)
                     \/ TaskStep(r) \/ RecordFailure(r)
                     \/ CascadeDelete(r) \/ RetentionDelete(r)
              PROVE  RunInv'
            BY <2>1, <3>1, InsertStep, DispatchStep, TaskSteps, RecordStep, DeleteSteps
        <3>2. ASSUME NEW k \in Cancels,
                     CancelWrite(k) \/ CancelRefused(k) \/ CancelSend(k) \/ \E r \in Runs : CancelCheck(k, r)
              PROVE  RunInv'
            BY <2>1, <3>2, CancelSteps
        <3>3. (\E old \in SUBSET Runs : RetentionQuery(old)) => RunInv'
            BY <2>1, OtherStep
        <3>4. QED BY <2>1, <2>3, <3>1, <3>2, <3>3, ReceiveRunStep, ReceiveCancelStep, DoneStep, FailedStep,
                     LinkStep DEF Next
    <2>4. QED BY <2>1, <2>2, <2>3
<1>2. QED BY InitInv, <1>1, PTL DEF Spec

\* Success is recorded only for an archive that is at its destination.
THEOREM VerdictMatchesArchiveHolds == Spec => []VerdictMatchesArchive
<1>1. RunInv => VerdictMatchesArchive
    BY DEF RunInv, Stage, VerdictMatchesArchive
<1>2. QED BY <1>1, Inductive, PTL

\* A running row is owned, or something of its run was lost.
THEOREM RunningIsOwnedHolds == Spec => []RunningIsOwned
<1>1. RunInv => RunningIsOwned
    BY DEF RunInv, Stage, RunningIsOwned, Owned, Sent, Told
<1>2. QED BY <1>1, Inductive, PTL

\* A run an alert was issued for never shows success.
THEOREM AlertIsDeservedHolds == Spec => []AlertIsDeserved
<1>1. RunInv => AlertIsDeserved
    BY DEF RunInv, Types, Stage, AlertIsDeserved
<1>2. QED BY <1>1, Inductive, PTL
=============================================================================
