------------------------------ MODULE RunLifecycle ------------------------------
(***************************************************************************)
(* The life of backup runs: the row the server keeps (backup_runs), the    *)
(* task the agent executes, and the messages between them.                 *)
(*                                                                         *)
(* Concurrent parties: triggers (internal/scheduler, handleTriggerJob),    *)
(* which insert a row and dispatch it; the agent's read loop and one task  *)
(* per run (cmd/agent/main.go); the server's read loop, which applies      *)
(* reports to the row (internal/ws/handler.go); users who cancel a run     *)
(* (internal/api/runs.go) or delete its job; and the retention cleaner     *)
(* (internal/notify/retention.go).  Each SQL statement is a step.          *)
(***************************************************************************)
EXTENDS Naturals, Sequences, FiniteSets

CONSTANTS
    Runs,       \* run ids
    Cancels,    \* concurrent cancel requests
    NoRun,      \* no run
    SendCap,    \* capacity of the connection's send channel (64 in the code)
    LinkFaults, \* TRUE: connections break
    Crashes,    \* TRUE: the server and the agent process crash
    DbFaults    \* TRUE: a statement on backup_runs may fail (most are only logged)

ASSUME RunAssumption ==
    /\ NoRun \notin Runs
    /\ SendCap \in Nat \ {0}
    /\ LinkFaults \in BOOLEAN /\ Crashes \in BOOLEAN /\ DbFaults \in BOOLEAN

VARIABLES
    status,     \* backup_runs.status; "none" before INSERT, "deleted" after DELETE
    message,    \* backup_runs.error_message
    dispatch,   \* the trigger of each run
    link,       \* the agent's connection: down, dialed (no hello sent), up
    toAgent,    \* server messages on the way
    toServer,   \* agent reports on the way
    task,       \* the agent's goroutine for each run
    ctx,        \* its context, reachable through runCtxs until the task ends
    stored,     \* runs whose archive is at its destination
    judging,    \* runs whose job_failed passed the test of the row's status
    current,    \* the run the connection's read loop is busy with
    cpc, crun,  \* each cancel request: position and run
    doomed,     \* rows the retention cleaner selected
    alerts,     \* runs a failure alert was issued for
    lost        \* history: runs whose command, task or report was lost

linkVars   == <<link, toAgent, toServer>>
taskVars   == <<task, ctx, stored>>
cancelVars == <<cpc, crun>>
vars == <<status, message, dispatch, link, toAgent, toServer, task, ctx, stored,
          judging, current, cpc, crun, doomed, alerts, lost>>

Msg(type, r) == [type |-> type, run |-> r]
Commands == {Msg(t, r) : t \in {"run_job", "cancel_job"}, r \in Runs}
Reports  == {Msg(t, r) : t \in {"job_done", "job_failed"}, r \in Runs}
Terminal == {"success", "failed", "cancelled"}
HasRow(r) == status[r] \in Terminal \cup {"running"}
Active == {"executing", "uploading", "uploaded"}
Has(q, type, r) == \E i \in DOMAIN q : q[i] = Msg(type, r)

TypeOK ==
    /\ status \in [Runs -> Terminal \cup {"none", "running", "deleted"}]
    /\ message \in [Runs -> {"none", "byUser", "agentError"}]
    /\ dispatch \in [Runs -> {"none", "inserted", "sent", "dropped"}]
    /\ link \in {"down", "dialed", "up"}
    /\ toAgent \in Seq(Commands) /\ Len(toAgent) <= SendCap
    /\ toServer \in Seq(Reports) /\ Len(toServer) <= Cardinality(Runs)
    /\ task \in [Runs -> Active \cup {"none", "ended"}]
    /\ ctx \in [Runs -> {"none", "live", "cancelled"}]
    /\ stored \subseteq Runs
    /\ judging \subseteq Runs
    /\ current \in Runs \cup {NoRun}
    /\ cpc \in [Cancels -> {"idle", "checked", "written"}]
    /\ crun \in [Cancels -> Runs \cup {NoRun}]
    /\ doomed \subseteq Runs
    /\ alerts \subseteq Runs
    /\ lost \subseteq Runs

Init ==
    /\ status = [r \in Runs |-> "none"]
    /\ message = [r \in Runs |-> "none"]
    /\ dispatch = [r \in Runs |-> "none"]
    /\ link \in {"down", "up"}
    /\ toAgent = <<>> /\ toServer = <<>>
    /\ task = [r \in Runs |-> "none"]
    /\ ctx = [r \in Runs |-> "none"]
    /\ stored = {} /\ judging = {} /\ current = NoRun
    /\ cpc = [k \in Cancels |-> "idle"]
    /\ crun = [k \in Cancels |-> NoRun]
    /\ doomed = {} /\ alerts = {} /\ lost = {}

\* UPDATE backup_runs SET status=s WHERE id=r, whatever the status was.
SetStatus(r, s) ==
    status' = IF HasRow(r) THEN [status EXCEPT ![r] = s] ELSE status

\* ... and error_message=m, in the same statement.
SetMessage(r, m) ==
    message' = IF HasRow(r) THEN [message EXCEPT ![r] = m] ELSE message

-----------------------------------------------------------------------------
(* Triggers *)

\* INSERT INTO backup_runs (job_id, status) VALUES (..., 'running')
InsertRun(r) ==
    /\ status[r] = "none"
    /\ status' = [status EXCEPT ![r] = "running"]
    /\ dispatch' = [dispatch EXCEPT ![r] = "inserted"]
    /\ UNCHANGED <<message, linkVars, taskVars, judging, current, cancelVars,
                   doomed, alerts, lost>>

CanSend == link = "up" /\ Len(toAgent) < SendCap

\* Hub.DispatchJob: an absent agent or a full buffer is only logged.
Dispatch(r) ==
    /\ dispatch[r] = "inserted"
    /\ IF CanSend
       THEN /\ toAgent' = Append(toAgent, Msg("run_job", r))
            /\ dispatch' = [dispatch EXCEPT ![r] = "sent"]
            /\ UNCHANGED lost
       ELSE /\ dispatch' = [dispatch EXCEPT ![r] = "dropped"]
            /\ lost' = lost \cup {r}
            /\ UNCHANGED toAgent
    /\ UNCHANGED <<status, message, link, toServer, taskVars, judging, current,
                   cancelVars, doomed, alerts>>

\* handleTriggerJob: the storage destination cannot be read or decrypted; the
\* request fails, the row stays.
AbandonDispatch(r) ==
    /\ dispatch[r] = "inserted"
    /\ dispatch' = [dispatch EXCEPT ![r] = "dropped"]
    /\ lost' = lost \cup {r}
    /\ UNCHANGED <<status, message, linkVars, taskVars, judging, current,
                   cancelVars, doomed, alerts>>

-----------------------------------------------------------------------------
(* The agent *)

\* The read loop starts a task; its cancel function is registered first.
ReceiveRun ==
    /\ toAgent # <<>> /\ Head(toAgent).type = "run_job"
    /\ LET r == Head(toAgent).run
       IN  /\ task' = [task EXCEPT ![r] = "executing"]
           /\ ctx' = [ctx EXCEPT ![r] = "live"]
    /\ toAgent' = Tail(toAgent)
    /\ UNCHANGED <<status, message, dispatch, link, toServer, stored, judging,
                   current, cancelVars, doomed, alerts, lost>>

\* A cancel for a run that is not registered (yet) is ignored.
ReceiveCancel ==
    /\ toAgent # <<>> /\ Head(toAgent).type = "cancel_job"
    /\ LET r == Head(toAgent).run
       IN  ctx' = IF ctx[r] = "live" THEN [ctx EXCEPT ![r] = "cancelled"] ELSE ctx
    /\ toAgent' = Tail(toAgent)
    /\ UNCHANGED <<status, message, dispatch, link, toServer, task, stored, judging,
                   current, cancelVars, doomed, alerts, lost>>

\* Agent.writeJSON of a report, and the end of the task.  Without a connection
\* the report is lost; on a connection whose hello was not sent yet the server
\* takes it for the hello and closes the connection.
Report(r, type) ==
    /\ task' = [task EXCEPT ![r] = "ended"]
    /\ ctx' = [ctx EXCEPT ![r] = "none"]
    /\ toServer' = IF link = "up" THEN Append(toServer, Msg(type, r)) ELSE toServer
    /\ lost' = IF link = "up" THEN lost ELSE lost \cup {r}
    /\ link' = IF link = "dialed" THEN "down" ELSE link
    /\ UNCHANGED <<status, message, dispatch, toAgent, judging, current, cancelVars,
                   doomed, alerts>>

\* Faulty variant: no return after sendFailure(runID, "cancelled").
AbortContinues(r) ==
    /\ task[r] = "executing" /\ ctx[r] = "cancelled"
    /\ toServer' = IF link = "up" THEN Append(toServer, Msg("job_failed", r)) ELSE toServer
    /\ task' = [task EXCEPT ![r] = "uploading"]
    /\ UNCHANGED <<status, message, dispatch, link, toAgent, ctx, stored, judging,
                   current, cancelVars, doomed, alerts, lost>>

\* A check of the context finds it cancelled.
Abort(r) ==
    task[r] = "executing" /\ ctx[r] = "cancelled" /\ Report(r, "job_failed") /\ UNCHANGED stored

\* Parsing, dumping, archiving or encrypting fails.
FailWork(r) == task[r] = "executing" /\ Report(r, "job_failed") /\ UNCHANGED stored

\* The last check of the context, just before the upload.
FinishWork(r) ==
    /\ task[r] = "executing"
    /\ ctx[r] = "live"
    /\ task' = [task EXCEPT ![r] = "uploading"]
    /\ UNCHANGED <<status, message, dispatch, linkVars, ctx, stored, judging,
                   current, cancelVars, doomed, alerts, lost>>

Upload(r) ==
    /\ task[r] = "uploading"
    /\ task' = [task EXCEPT ![r] = "uploaded"]
    /\ stored' = stored \cup {r}
    /\ UNCHANGED <<status, message, dispatch, linkVars, ctx, judging, current,
                   cancelVars, doomed, alerts, lost>>

\* Faulty variant: a failed upload is only logged.
FailUploadSilently(r) ==
    /\ task[r] = "uploading"
    /\ task' = [task EXCEPT ![r] = "ended"]
    /\ ctx' = [ctx EXCEPT ![r] = "none"]
    /\ UNCHANGED <<status, message, dispatch, linkVars, stored, judging, current,
                   cancelVars, doomed, alerts, lost>>

\* The destination refused the archive, or kept it and its answer was lost.
FailUpload(r) ==
    task[r] = "uploading" /\ Report(r, "job_failed") /\ stored' \in {stored, stored \cup {r}}

\* Faulty variant: success is reported while the upload is still running.
ReportDoneEarly(r) ==
    task[r] \in {"uploading", "uploaded"} /\ Report(r, "job_done") /\ UNCHANGED stored

ReportDone(r) == task[r] = "uploaded" /\ Report(r, "job_done") /\ UNCHANGED stored

-----------------------------------------------------------------------------
(* The server's read loop, handleAgentMessage *)

\* job_done: one UPDATE, unconditional; when it fails the report is gone.
HandleDone ==
    /\ current = NoRun
    /\ toServer # <<>> /\ Head(toServer).type = "job_done"
    /\ \/ SetStatus(Head(toServer).run, "success") /\ UNCHANGED lost
       \/ DbFaults /\ lost' = lost \cup {Head(toServer).run} /\ UNCHANGED status
    /\ toServer' = Tail(toServer)
    /\ UNCHANGED <<message, dispatch, link, toAgent, taskVars, judging, current,
                   cancelVars, doomed, alerts>>

\* job_failed: "Skip update if already cancelled by user"; a SELECT that fails
\* counts as not cancelled.
HandleFailed ==
    /\ current = NoRun
    /\ toServer # <<>> /\ Head(toServer).type = "job_failed"
    /\ LET r == Head(toServer).run
       IN  \/ status[r] = "cancelled" /\ UNCHANGED <<judging, current>>
           \/ /\ status[r] # "cancelled" \/ DbFaults
              /\ judging' = judging \cup {r} /\ current' = r
    /\ toServer' = Tail(toServer)
    /\ UNCHANGED <<status, message, dispatch, link, toAgent, taskVars, cancelVars,
                   doomed, alerts, lost>>

\* ... then the UPDATE and the alert, whatever happened to the row meanwhile.
RecordFailure(r) ==
    /\ r \in judging
    /\ \/ SetStatus(r, "failed") /\ SetMessage(r, "agentError") /\ UNCHANGED lost
       \/ DbFaults /\ lost' = lost \cup {r} /\ UNCHANGED <<status, message>>
    /\ alerts' = alerts \cup {r}
    /\ judging' = judging \ {r}
    /\ current' = IF current = r THEN NoRun ELSE current
    /\ UNCHANGED <<dispatch, linkVars, taskVars, cancelVars, doomed>>

-----------------------------------------------------------------------------
(* handleCancelRun *)

\* SELECT: only a running run is cancelled.
CancelCheck(k, r) ==
    /\ cpc[k] = "idle"
    /\ status[r] = "running"
    /\ cpc' = [cpc EXCEPT ![k] = "checked"]
    /\ crun' = [crun EXCEPT ![k] = r]
    /\ UNCHANGED <<status, message, dispatch, linkVars, taskVars, judging, current,
                   doomed, alerts, lost>>

\* UPDATE: by now the run may have ended.
CancelWrite(k) ==
    /\ cpc[k] = "checked"
    /\ SetStatus(crun[k], "cancelled")
    /\ SetMessage(crun[k], "byUser")
    /\ cpc' = [cpc EXCEPT ![k] = "written"]
    /\ UNCHANGED <<dispatch, linkVars, taskVars, judging, current, crun, doomed,
                   alerts, lost>>

\* The UPDATE fails: the request ends with an error and the agent is not told.
CancelRefused(k) ==
    /\ DbFaults
    /\ cpc[k] = "checked"
    /\ cpc' = [cpc EXCEPT ![k] = "idle"]
    /\ crun' = [crun EXCEPT ![k] = NoRun]
    /\ UNCHANGED <<status, message, dispatch, linkVars, taskVars, judging, current,
                   doomed, alerts, lost>>

\* Hub.CancelJob, best effort; nothing is sent when the job's row is gone.
CancelSend(k) ==
    /\ cpc[k] = "written"
    /\ \/ CanSend /\ toAgent' = Append(toAgent, Msg("cancel_job", crun[k]))
       \/ (~CanSend \/ status[crun[k]] = "deleted") /\ UNCHANGED toAgent
    /\ cpc' = [cpc EXCEPT ![k] = "idle"]
    /\ crun' = [crun EXCEPT ![k] = NoRun]
    /\ UNCHANGED <<status, message, dispatch, link, toServer, taskVars, judging,
                   current, doomed, alerts, lost>>

-----------------------------------------------------------------------------
(* Rows that disappear *)

\* The job or its agent is deleted: the run goes with it (ON DELETE CASCADE).
CascadeDelete(r) ==
    /\ HasRow(r)
    /\ status' = [status EXCEPT ![r] = "deleted"]
    /\ UNCHANGED <<message, dispatch, linkVars, taskVars, judging, current,
                   cancelVars, doomed, alerts, lost>>

\* RetentionCleaner.Run: first the rows are selected, then deleted one by one.
Expired == {r \in Runs : status[r] \in {"success", "failed"}}

RetentionQuery(old) ==
    /\ doomed = {} /\ old # {}
    /\ old \subseteq Expired
    /\ doomed' = old
    /\ UNCHANGED <<status, message, dispatch, linkVars, taskVars, judging, current,
                   cancelVars, alerts, lost>>

RetentionDelete(r) ==
    /\ r \in doomed
    /\ doomed' = doomed \ {r}
    /\ \/ status' = [status EXCEPT ![r] = "deleted"]
       \/ DbFaults /\ UNCHANGED status
    /\ UNCHANGED <<message, dispatch, linkVars, taskVars, judging, current,
                   cancelVars, alerts, lost>>

-----------------------------------------------------------------------------
(* Connections and processes *)

\* Agent.connect: a.conn is set as soon as the connection is dialed ...
Dial ==
    /\ link = "down"
    /\ link' = "dialed"
    /\ UNCHANGED <<status, message, dispatch, toAgent, toServer, taskVars, judging,
                   current, cancelVars, doomed, alerts, lost>>

\* ... then hello is sent, and the server registers the agent.
Hello ==
    /\ link = "dialed"
    /\ link' = "up"
    /\ UNCHANGED <<status, message, dispatch, toAgent, toServer, taskVars, judging,
                   current, cancelVars, doomed, alerts, lost>>

InFlight == {r \in Runs : Has(toAgent, "run_job", r)
                          \/ \E t \in {"job_done", "job_failed"} : Has(toServer, t, r)}

\* The connection ends with what it carried; a report being recorded still is.
Cut ==
    /\ link' = "down"
    /\ toAgent' = <<>> /\ toServer' = <<>>
    /\ current' = NoRun

Drop ==
    /\ LinkFaults /\ link # "down"
    /\ Cut
    /\ lost' = lost \cup InFlight
    /\ UNCHANGED <<status, message, dispatch, taskVars, judging, cancelVars, doomed,
                   alerts>>

ServerCrash ==
    /\ Crashes
    /\ Cut
    /\ lost' = lost \cup InFlight \cup judging \cup {r \in Runs : dispatch[r] = "inserted"}
    /\ dispatch' = [r \in Runs |-> IF dispatch[r] = "inserted" THEN "dropped" ELSE dispatch[r]]
    /\ judging' = {} /\ doomed' = {}
    /\ cpc' = [k \in Cancels |-> "idle"]
    /\ crun' = [k \in Cancels |-> NoRun]
    /\ UNCHANGED <<status, message, taskVars, alerts>>

AgentCrash ==
    /\ Crashes
    /\ Cut
    /\ lost' = lost \cup InFlight \cup {r \in Runs : task[r] \in Active}
    /\ task' = [r \in Runs |-> IF task[r] \in Active THEN "ended" ELSE task[r]]
    /\ ctx' = [r \in Runs |-> "none"]
    /\ UNCHANGED <<status, message, dispatch, stored, judging, cancelVars, doomed, alerts>>

TaskStep(r) ==
    \/ Abort(r) \/ FailWork(r) \/ FinishWork(r)
    \/ Upload(r) \/ FailUpload(r) \/ ReportDone(r)

Next ==
    \/ \E r \in Runs : \/ InsertRun(r) \/ Dispatch(r) \/ AbandonDispatch(r)
                       \/ TaskStep(r) \/ RecordFailure(r)
                       \/ CascadeDelete(r) \/ RetentionDelete(r)
    \/ \E k \in Cancels : \/ CancelWrite(k) \/ CancelRefused(k) \/ CancelSend(k)
                          \/ \E r \in Runs : CancelCheck(k, r)
    \/ \E old \in SUBSET Runs : RetentionQuery(old)
    \/ ReceiveRun \/ ReceiveCancel \/ HandleDone \/ HandleFailed
    \/ Dial \/ Hello \/ Drop \/ ServerCrash \/ AgentCrash

Spec == Init /\ [][Next]_vars

\* Goroutines that can run do run, the agent redials for ever, a backup ends
\* and messages on an unbroken connection arrive.  Users, triggers, the daily
\* cleaner and faults owe nothing.
Fairness ==
    /\ \A r \in Runs : /\ WF_vars(Dispatch(r) \/ AbandonDispatch(r))
                       /\ WF_vars(TaskStep(r)) /\ WF_vars(RecordFailure(r))
    /\ \A k \in Cancels : /\ WF_vars(CancelWrite(k) \/ CancelRefused(k))
                           /\ WF_vars(CancelSend(k))
    /\ WF_vars(ReceiveRun) /\ WF_vars(ReceiveCancel)
    /\ WF_vars(HandleDone) /\ WF_vars(HandleFailed)
    /\ WF_vars(Dial) /\ WF_vars(Hello)

FairSpec == Spec /\ Fairness

-----------------------------------------------------------------------------
(* Properties *)

\* Success is recorded only for an archive that is at its destination, whatever
\* cancels, failures, crashes and reconnections happen around the reports.
VerdictMatchesArchive ==
    \A r \in Runs : status[r] = "success" => r \in stored

\* Who will end a run: its trigger, its command, its task or its report.
Owned(r) ==
    \/ dispatch[r] = "inserted"
    \/ Has(toAgent, "run_job", r)
    \/ task[r] \in Active
    \/ Has(toServer, "job_done", r) \/ Has(toServer, "job_failed", r)
    \/ r \in judging

\* A row says running only while somebody owns the run, or something of it was
\* lost: no path of the code forgets to report.
RunningIsOwned ==
    \A r \in Runs : status[r] = "running" => Owned(r) \/ r \in lost

\* A run an alert was issued for never shows success, before or after: the two
\* verdicts exclude each other although cancels and failures interleave.
AlertIsDeserved ==
    \A r \in alerts : status[r] # "success"

\* A run whose command was accepted ends, whatever else happens: its row leaves
\* running, unless the command, the task or the report was lost.
RunsEnd == \A r \in Runs : dispatch[r] = "sent" ~> status[r] # "running" \/ r \in lost

\* A run its user cancelled stays cancelled: the failure that the cancellation
\* causes is not recorded over it ("Skip update if already cancelled by user",
\* handler.go).  The code breaks it: the test and the update are two statements.
CancelledIsNotFailed ==
    [][\A r \in Runs : status[r] = "cancelled" => status'[r] # "failed"]_vars

=============================================================================
