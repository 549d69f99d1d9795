----------------------------- MODULE SchedulerHistory -----------------------------
(***************************************************************************)
(* Scheduler with a history variable: the jobs whose cron entry can no     *)
(* longer be expected to match their row since the server started, because *)
(* two requests on the job overlapped, the job was deleted with its agent, *)
(* or a read failed.                                                       *)
(***************************************************************************)
EXTENDS Scheduler

VARIABLE raced

hvars == <<rows, entryIDs, entries, lastID, pc, arg, snap, tpc, tjob, trow, raced>>

Busy(j) == {p \in Admins : pc[p] # "idle" /\ arg[p] = j}
Contended == {j \in Jobs : \E p, q \in Busy(j) : p # q}

\* The jobs of requests that give up between the UPDATE and AddJob.
Missed == {arg[p] : p \in {q \in Admins : pc[q] = "written" /\ pc'[q] = "idle"}}

HInit == Init /\ raced = {}

HNext ==
    \/ RequestStep /\ raced' = raced \cup Contended' \cup Missed
    \/ TriggerStep /\ UNCHANGED raced
    \/ \E j \in Jobs : CascadeDelete(j) /\ raced' = raced \cup {j}
    \/ \E f \in [Loadable -> 1 .. Cardinality(Loadable)] : Restart(f) /\ raced' = {}
    \/ RestartUnloaded /\ raced' = Jobs

HSpec == HInit /\ [][HNext]_hvars

\* A job that no request is working on is scheduled exactly when it is enabled
\* with a valid expression, with its current row, whatever happens to other
\* jobs: only a race, a cascade or a failed read on that very job breaks it.
ScheduleMatches ==
    \A j \in Jobs \ raced : Busy(j) = {} =>
        {e.row.rev : e \in {x \in entries : x.job = j}}
            = IF j \in Loadable THEN {rows[j].rev} ELSE {}
=============================================================================
