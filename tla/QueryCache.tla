------------------------------- MODULE QueryCache -------------------------------
(***************************************************************************)
(* One query of the web interface's cache, as the pages use it (useQuery,  *)
(* invalidateQueries; TanStack Query v5, with the defaults of              *)
(* web/src/main.tsx and query functions that pass the abort signal on).    *)
(*                                                                         *)
(* A query is a record.  Its fetch is "idle", "sent" (the server has not   *)
(* read its tables yet) or "answered" (it has, with the result snap, which *)
(* the page has not received).                                             *)
(***************************************************************************)
EXTENDS FiniteSets

CONSTANT NoData

Query(D) == [data : D \cup {NoData}, fetch : {"idle", "sent", "answered"},
             snap : D \cup {NoData}, invalid : BOOLEAN, broken : BOOLEAN]

Empty == [data |-> NoData, fetch |-> "idle", snap |-> NoData,
          invalid |-> FALSE, broken |-> FALSE]

\* A fetch begins.  The last error is forgotten unless old data is shown with it.
Fetching(q) == [q EXCEPT !.fetch = "sent", !.snap = NoData,
                         !.broken = q.broken /\ q.data # NoData]

\* A component that observes the query appears: missing or invalidated data is
\* fetched at once, other data if it is older than staleTime.
Observed(q) ==
    IF q.fetch # "idle" THEN {q}
    ELSE IF q.data = NoData \/ q.invalid THEN {Fetching(q)}
    ELSE {q, Fetching(q)}

\* The last observer is gone: the request is aborted and the state is the one
\* from before it.
Aborted(q) == [q EXCEPT !.fetch = "idle", !.snap = NoData]

\* Faulty variant: a fetch that is under way is good enough.
InvalidatedLazily(q, active) ==
    IF active /\ q.fetch = "idle" THEN [Fetching(q) EXCEPT !.invalid = TRUE]
                                  ELSE [q EXCEPT !.invalid = TRUE]

\* invalidateQueries.  A query on a page is fetched anew and what its fetch
\* under way brings is dropped, except for the first fetch, which is kept.
Invalidated(q, active) ==
    IF active /\ (q.fetch = "idle" \/ q.data # NoData)
    THEN [Fetching(q) EXCEPT !.invalid = TRUE]
    ELSE [q EXCEPT !.invalid = TRUE]

Answered(q, d) == [q EXCEPT !.fetch = "answered", !.snap = d]

Received(q) == [Empty EXCEPT !.data = q.snap]

\* The request and its one retry failed.
Failed(q) == [q EXCEPT !.fetch = "idle", !.snap = NoData, !.broken = TRUE, !.invalid = TRUE]

\* The first fetch is under way, which an invalidation does not restart.
Loading(q) == q.fetch # "idle" /\ q.data = NoData
=============================================================================
