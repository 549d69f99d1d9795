------------------------------- MODULE MCScheduler -------------------------------
(* Small instances of Scheduler, with its history, for TLC. *)
EXTENDS SchedulerHistory, TLC

\* Jobs, requests and triggers are each interchangeable.
Interchangeable ==
    Permutations(Jobs) \cup Permutations(Admins) \cup Permutations(Triggers)
=============================================================================
