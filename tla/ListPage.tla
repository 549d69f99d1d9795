-------------------------------- MODULE ListPage --------------------------------
(***************************************************************************)
(* What the pages Jobs, Storage, Agents and Settings of the web interface  *)
(* have in common: a cached list of the server's rows and the requests     *)
(* that change them.                                                       *)
(*                                                                         *)
(* The handlers of one page run one at a time; the server and the network  *)
(* act between them, and so do other browsers and the agents.  A row is    *)
(* its revision: 0 before it is inserted, Gone after it is deleted.        *)
(***************************************************************************)
EXTENDS Integers, QueryCache

CONSTANTS
    Pages,      \* the pages explored (form: the form of a job); a behaviour is of one
    RowIds,     \* for each page the identifiers of its rows
    Nobody,     \* no row (null in the code)
    Requests,   \* for each page the requests under way at once
    MaxRevs     \* for each page the bound on the revisions of a row

ASSUME ListPageAssumption ==
    /\ Pages \subseteq {"jobs", "form", "storage", "agents", "settings"}
    /\ \A p \in Pages : Nobody \notin RowIds[p] /\ MaxRevs[p] \in Nat \ {0}

VARIABLES
    page,       \* the page this behaviour is about
    place,      \* "page": it is shown; "observer": another page that shows the
                \* same list is; "away": none is
    srv,        \* the rows of the server
    query,      \* the cached list
    acked,      \* the revisions that successful requests have told the page
    muts,       \* the requests that change rows
    ui          \* the React state of the page while it is shown

listVars == <<page, place, srv, query, acked, muts>>

Ids == RowIds[page]
MaxRev == MaxRevs[page]
Slots == Requests[page]
Gone == MaxRev + 1
Rows == [Ids -> 0 .. Gone]
Active == place # "away"
Exists(id) == srv[id] \in 1 .. MaxRev

\* The rows the page displays.
Shown == IF query.data = NoData THEN {} ELSE {id \in Ids : query.data[id] \in 1 .. MaxRev}

\* A request: what it does, to which row, how far it got, the revision the
\* server answered, whether the component that sent it is still shown (mine),
\* and whether it is the last of its kind that component sent (last).
Free == [kind |-> "none", id |-> Nobody, phase |-> "free", rev |-> 0,
         mine |-> FALSE, last |-> FALSE]

Kinds == {"none", "create", "update", "delete", "toggle", "trigger", "save"}

ListTypeOK ==
    /\ page \in Pages
    /\ place \in {"page", "observer", "away"}
    /\ srv \in Rows /\ query \in Query(Rows) /\ acked \in Rows
    /\ muts \in [Slots -> [kind : Kinds, id : Ids \cup {Nobody},
                           phase : {"free", "sent", "ok", "refused"},
                           rev : 0 .. Gone, mine : BOOLEAN, last : BOOLEAN]]

ListInit(blank) ==
    /\ page \in Pages
    /\ place = "away"
    /\ srv \in [Ids -> {0, 1}]
    /\ query = Empty
    /\ acked = [id \in Ids |-> 0]
    /\ muts = [s \in Slots |-> Free]
    /\ ui = blank

-----------------------------------------------------------------------------
(* Pages shown and left *)

Enter(blank) ==
    /\ place # "page"
    /\ place' = "page"
    /\ query' \in Observed(IF place = "observer" THEN Aborted(query) ELSE query)
    /\ ui' = blank
    /\ UNCHANGED <<page, srv, acked, muts>>

\* Leave for another page.  Requests go on without it; its state is gone.
Leave(blank) ==
    /\ place = "page"
    /\ \/ place' = "away" /\ query' = Aborted(query)
       \/ place' = "observer" /\ query' \in Observed(Aborted(query))
    /\ muts' = [s \in Slots |-> [muts[s] EXCEPT !.mine = FALSE, !.last = FALSE]]
    /\ ui' = blank
    /\ UNCHANGED <<page, srv, acked>>

\* The cache drops a query nobody observes.
Collect ==
    /\ ~Active /\ query # Empty
    /\ query' = Empty
    /\ UNCHANGED <<page, place, srv, acked, muts, ui>>

-----------------------------------------------------------------------------
(* The list *)

\* The interval, the focus of the window, a reconnection.
Refetch ==
    /\ Active /\ query.fetch = "idle"
    /\ query' = Fetching(query)
    /\ UNCHANGED <<page, place, srv, acked, muts, ui>>

\* The server reads its rows.
ReadRows ==
    /\ query.fetch = "sent"
    /\ query' = Answered(query, srv)
    /\ UNCHANGED <<page, place, srv, acked, muts, ui>>

FetchFails ==
    /\ query.fetch # "idle"
    /\ query' = Failed(query)
    /\ UNCHANGED <<page, place, srv, acked, muts, ui>>

\* The list arrives.
Receive ==
    /\ query.fetch = "answered"
    /\ query' = Received(query)
    /\ UNCHANGED <<page, place, srv, acked, muts, ui>>

-----------------------------------------------------------------------------
(* Requests *)

\* isPending of the mutation of a kind: the last request this component sent.
Pending(k) == \E s \in Slots : muts[s].kind = k /\ muts[s].last

\* mutate: the component now watches this request of the kind.
Send(k, id) ==
    /\ place = "page"
    /\ \E s \in Slots :
        /\ muts[s] = Free
        /\ muts' = [t \in Slots |->
                        IF t = s THEN [kind |-> k, id |-> id, phase |-> "sent", rev |-> 0,
                                       mine |-> TRUE, last |-> TRUE]
                        ELSE IF muts[t].kind = k THEN [muts[t] EXCEPT !.last = FALSE]
                        ELSE muts[t]]
    /\ UNCHANGED <<page, place, srv, query, acked>>

\* What a request makes of the row it names, and the row it answers for.
Applied(m, id) ==
    CASE m.kind = "create" -> srv[id] = 0 /\ srv' = [srv EXCEPT ![id] = 1]
      [] m.kind = "delete" -> id = m.id /\ Exists(id) /\ srv' = [srv EXCEPT ![id] = Gone]
      [] m.kind \in {"update", "toggle"} ->
            id = m.id /\ Exists(id) /\ srv[id] < MaxRev /\ srv' = [srv EXCEPT ![id] = @ + 1]
      [] m.kind = "trigger" -> id = m.id /\ Exists(id) /\ UNCHANGED srv
      [] OTHER -> FALSE

\* The server handles a request: the answer arrives or is lost on its way.
Serve(s) ==
    /\ muts[s].phase = "sent"
    /\ \E id \in Ids :
        /\ Applied(muts[s], id)
        /\ \/ muts' = [muts EXCEPT ![s].phase = "ok", ![s].id = id, ![s].rev = srv'[id]]
           \/ muts' = [muts EXCEPT ![s].phase = "refused"]
    /\ UNCHANGED <<page, place, query, acked, ui>>

\* A row that is gone, a failing statement, a request that never arrived.
Refuse(s) ==
    /\ muts[s].phase = "sent"
    /\ muts' = [muts EXCEPT ![s].phase = "refused"]
    /\ UNCHANGED <<page, place, srv, query, acked, ui>>

\* onSuccess: the list is invalidated, also when the page was left.
Succeeded(s) ==
    /\ muts[s].phase = "ok"
    /\ muts' = [muts EXCEPT ![s] = Free]
    /\ query' = IF muts[s].kind = "trigger" THEN query ELSE Invalidated(query, Active)
    /\ acked' = IF muts[s].kind = "trigger" \/ Loading(query) \/ muts[s].rev < acked[muts[s].id]
                THEN acked ELSE [acked EXCEPT ![muts[s].id] = muts[s].rev]
    /\ UNCHANGED <<page, place, srv>>

\* onError: nothing is invalidated.
Rejected(s) ==
    /\ muts[s].phase = "refused"
    /\ muts' = [muts EXCEPT ![s] = Free]
    /\ UNCHANGED <<page, place, srv, query, acked>>

\* Another browser, the scheduler or an agent changes a row.
Elsewhere(id) ==
    /\ srv[id] < Gone
    /\ srv' = [srv EXCEPT ![id] = @ + 1]
    /\ UNCHANGED <<page, place, query, acked, muts, ui>>

Network ==
    \/ Refetch \/ ReadRows \/ FetchFails \/ Receive \/ Collect
    \/ \E s \in Slots : Serve(s) \/ Refuse(s)
    \/ \E id \in Ids : Elsewhere(id)

-----------------------------------------------------------------------------
(* Properties *)

\* A page that shows its list, with no fetch under way and no error beside it,
\* shows every change its own requests were told of, or something newer: no
\* answer that was read before a change survives the news of the change,
\* whatever was left, entered, refetched and answered in between.  (News that
\* arrive during the first load are not promised: that load is not restarted.)
ReadYourWrites ==
    place = "page" /\ query.fetch = "idle" /\ ~query.broken
        => \A id \in Ids : query.data[id] >= acked[id]
=============================================================================
