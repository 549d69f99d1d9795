----------------------------- MODULE MCRunLifecycle -----------------------------
(* Small instances of RunLifecycle for TLC. *)
EXTENDS RunLifecycle, TLC

\* Runs are interchangeable, and so are cancel requests; safety runs only.
Interchangeable == Permutations(Runs) \cup Permutations(Cancels)
=============================================================================
