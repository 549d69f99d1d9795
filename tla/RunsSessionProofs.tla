----------------------------- MODULE RunsSessionProofs -----------------------------
(***************************************************************************)
(* Theorems about the list of RunsPage, for every set of runs, sockets and *)
(* requests, and about Session, for every set of tabs and tokens.  The two *)
(* specifications share no name.                                           *)
(***************************************************************************)
EXTENDS RunsPage, Session, TLAPS

USE RunsPageAssumption DEF RunsPageAssumption

-----------------------------------------------------------------------------
(* Queries keep their type: for any set D of data *)

LEMMA QueryOps ==
    ASSUME NEW D, NEW q \in Query(D), NEW active \in BOOLEAN, NEW d \in D
    PROVE  /\ Fetching(q) \in Query(D) /\ Observed(q) \subseteq Query(D)
           /\ Aborted(q) \in Query(D) /\ Invalidated(q, active) \in Query(D)
           /\ Answered(q, d) \in Query(D) /\ Received(q) \in Query(D) /\ Failed(q) \in Query(D)
<1>1. Fetching(q) \in Query(D)
    BY DEF Query, Fetching
<1>2. Observed(q) \subseteq Query(D)
    BY <1>1 DEF Observed
<1>3. Aborted(q) \in Query(D)
    BY DEF Query, Aborted
<1>4. Invalidated(q, active) \in Query(D)
    BY <1>1 DEF Query, Invalidated
<1>5. Answered(q, d) \in Query(D)
    BY DEF Query, Answered
<1>6. Received(q) \in Query(D)
    BY DEF Query, Received, Empty
<1>7. Failed(q) \in Query(D)
    BY DEF Query, Failed
<1>8. QED BY <1>1, <1>2, <1>3, <1>4, <1>5, <1>6, <1>7

LEMMA InitType == Init => TypeOK
<1>1. SUFFICES ASSUME Init PROVE TypeOK
    OBVIOUS
<1>2. query \in Query(Lists)
    BY <1>1 DEF Init, Query, Empty
<1>3. QED BY <1>1, <1>2 DEF Init, TypeOK, Lists, Statuses, Free, Unused

-----------------------------------------------------------------------------
(* Steps of the drawer *)

\* The part of the type that is not about the drawer, and what is left of it.
PageType ==
    /\ place \in {"page", "observer", "away"}
    /\ status \in Lists /\ query \in Query(Lists)
    /\ acked \subseteq Runs
    /\ cancels \in [Requests -> {Free} \cup [run : Runs, phase : {"sent", "checked", "ok", "refused"},
                                            mine : BOOLEAN]]

SocketStates == {Unused} \cup [run : Runs, state : {"connecting", "open", "closing"}]

\* Closing the drawer, wherever the page is then.
LEMMA CloseStep == ASSUME TypeOK, PageType', CloseDrawer PROVE TypeOK'
<1>1. /\ selected' = Nothing /\ cur' = Nothing /\ connected' = FALSE /\ socks' = Cleaned
    BY DEF CloseDrawer
<1>2. ASSUME NEW w \in Sockets PROVE Cleaned[w] \in SocketStates
    <2>1. CASE w = cur /\ Live(w)
        <3>1. socks[w] \in [run : Runs, state : {"connecting", "open", "closing"}]
            BY <2>1 DEF TypeOK, Live, Unused
        <3>2. QED BY <2>1, <3>1 DEF Cleaned, SocketStates
    <2>2. CASE ~(w = cur /\ Live(w))
        BY <2>2 DEF Cleaned, TypeOK, SocketStates
    <2>3. QED BY <2>1, <2>2
<1>3. socks' \in [Sockets -> SocketStates]
    BY <1>1, <1>2 DEF Cleaned
<1>4. QED BY <1>1, <1>3 DEF PageType, TypeOK, SocketStates

\* A step of the page that keeps the drawer.
LEMMA KeepStep == ASSUME TypeOK, PageType', UNCHANGED drawer PROVE TypeOK'
BY DEF drawer, PageType, TypeOK

LEMMA ViewStep == ASSUME TypeOK, NEW r \in Runs, View(r) PROVE TypeOK'
<1>1. query.data \in Lists /\ UNCHANGED <<place, status, query, acked, cancels, connected>>
    BY DEF View, Shown, TypeOK, Query
<1>2. selected' \in Snapshots
    BY <1>1 DEF View, Snapshots, Lists
<1>3. CASE UNCHANGED <<socks, cur>>
    BY <1>1, <1>2, <1>3 DEF TypeOK
<1>4. ASSUME NEW w \in Sockets,
             socks' = [socks EXCEPT ![w] = [run |-> r, state |-> "connecting"]], cur' = w
      PROVE  TypeOK'
    BY <1>1, <1>2, <1>4 DEF TypeOK
<1>5. QED BY <1>3, <1>4 DEF View

\* The event handlers of a socket.
LEMMA SocketStep ==
    ASSUME TypeOK, NEW w \in Sockets, Handshake(w) \/ OnClose(w)
    PROVE  TypeOK'
<1>1. CASE Handshake(w)
    <2>1. socks' = [socks EXCEPT ![w] = Unused] /\ connected' = FALSE
        BY <1>1 DEF Handshake, Admits, Credentials
    <2>2. UNCHANGED <<place, status, query, acked, cancels, selected, cur>>
        BY <1>1 DEF Handshake
    <2>3. QED BY <2>1, <2>2 DEF TypeOK
<1>2. CASE OnClose(w)
    BY <1>2 DEF OnClose, TypeOK
<1>3. QED BY <1>1, <1>2

-----------------------------------------------------------------------------
(* Steps of the page *)

\* The list is entered, left, fetched and received.
LEMMA ListStep ==
    ASSUME TypeOK, Enter \/ Leave \/ Refetch \/ ListRuns \/ FetchFails \/ Receive \/ Close
    PROVE  TypeOK'
<1>1. TypeOK /\ query \in Query(Lists) /\ status \in Lists
    BY DEF TypeOK
<1>2. /\ Fetching(query) \in Query(Lists) /\ Observed(Aborted(query)) \subseteq Query(Lists)
      /\ Aborted(query) \in Query(Lists) /\ Answered(query, status) \in Query(Lists)
      /\ Received(query) \in Query(Lists) /\ Failed(query) \in Query(Lists)
    BY <1>1, QueryOps
<1>3. CASE Enter
    BY <1>1, <1>2, <1>3, KeepStep DEF Enter, PageType, TypeOK
<1>4. CASE Leave
    <2>1. /\ place' \in {"away", "observer"} /\ query' \in Query(Lists)
          /\ CloseDrawer /\ UNCHANGED <<status, acked>>
          /\ cancels' = [c \in Requests |-> [cancels[c] EXCEPT !.mine = FALSE]]
        BY <1>2, <1>4 DEF Leave
    <2>2. cancels' \in [Requests -> {Free} \cup [run : Runs, phase : {"sent", "checked", "ok", "refused"},
                                               mine : BOOLEAN]]
        <3> DEFINE Asked == [run : Runs, phase : {"sent", "checked", "ok", "refused"}, mine : BOOLEAN]
        <3>1. ASSUME NEW a \in Asked PROVE [a EXCEPT !.mine = FALSE] \in Asked
            OBVIOUS
        <3>2. [Free EXCEPT !.mine = FALSE] = Free
            <4> DEFINE Frees == [run : {Nothing}, phase : {"free"}, mine : {FALSE}]
            <4>1. \A f \in Frees : [f EXCEPT !.mine = FALSE] = f
                OBVIOUS
            <4>2. Free \in Frees
                BY DEF Free
            <4>3. QED BY <4>1, <4>2
        <3>3. \A c \in Requests : cancels[c] = Free \/ cancels[c] \in Asked
            BY <1>1 DEF TypeOK
        <3>4. \A c \in Requests : [cancels[c] EXCEPT !.mine = FALSE] \in {Free} \cup Asked
            <4>1. SUFFICES ASSUME NEW c \in Requests
                           PROVE  [cancels[c] EXCEPT !.mine = FALSE] \in {Free} \cup Asked
                OBVIOUS
            <4>2. CASE cancels[c] = Free
                BY <3>2, <4>2
            <4>3. CASE cancels[c] \in Asked
                BY <3>1, <4>3
            <4>4. QED BY <3>3, <4>2, <4>3
        <3>5. QED BY <2>1, <3>4
    <2>3. PageType'
        BY <1>1, <2>1, <2>2 DEF PageType, TypeOK
    <2>4. QED BY <2>1, <2>3, CloseStep
<1>5. CASE Refetch \/ ListRuns \/ FetchFails \/ Receive
    <2>1. query' \in Query(Lists) /\ UNCHANGED <<place, status, acked, cancels, drawer>>
        BY <1>2, <1>5 DEF Refetch, ListRuns, FetchFails, Receive
    <2>2. PageType'
        BY <1>1, <2>1 DEF PageType, TypeOK
    <2>3. QED BY <2>1, <2>2, KeepStep
<1>6. CASE Close
    <2>1. CloseDrawer /\ UNCHANGED <<place, status, query, acked, cancels>>
        BY <1>6 DEF Close
    <2>2. PageType'
        BY <1>1, <2>1 DEF PageType, TypeOK
    <2>3. QED BY <2>1, <2>2, CloseStep
<1>7. QED BY <1>3, <1>4, <1>5, <1>6

\* A request to cancel is sent, served and answered.
LEMMA CancelStep ==
    ASSUME TypeOK, NEW c \in Requests,
           CheckCancel(c) \/ MarkCancelled(c) \/ RefuseCancel(c) \/ Cancelled(c) \/ NotCancelled(c)
    PROVE  TypeOK'
<1> DEFINE Asked == {Free} \cup [run : Runs, phase : {"sent", "checked", "ok", "refused"}, mine : BOOLEAN]
<1>1. /\ TypeOK /\ query \in Query(Lists) /\ status \in Lists
      /\ cancels \in [Requests -> Asked] /\ cancels[c] \in Asked
    BY DEF TypeOK
<1>2. CASE MarkCancelled(c)
    <2>1. PICK p \in {"ok", "refused"} : cancels' = [cancels EXCEPT ![c].phase = p]
        BY <1>2 DEF MarkCancelled
    <2>2. [cancels[c] EXCEPT !.phase = p] \in Asked
        BY <1>1, <1>2 DEF MarkCancelled, Free
    <2>3. cancels' \in [Requests -> Asked]
        BY <1>1, <2>1, <2>2
    <2>4. status' \in Lists /\ UNCHANGED <<place, query, acked, drawer>>
        BY <1>1, <1>2 DEF MarkCancelled, Lists, Statuses, Ended, TypeOK
    <2>5. PageType'
        BY <1>1, <2>3, <2>4 DEF PageType, TypeOK
    <2>6. QED BY <2>4, <2>5, KeepStep
<1>3. CASE CheckCancel(c) \/ RefuseCancel(c)
    <2>1. PICK p \in {"checked", "refused"} : cancels' = [cancels EXCEPT ![c].phase = p]
        BY <1>3 DEF CheckCancel, RefuseCancel
    <2>2. cancels[c] # Free /\ UNCHANGED <<place, status, query, acked, drawer>>
        BY <1>3 DEF CheckCancel, RefuseCancel, Free
    <2>3. [cancels[c] EXCEPT !.phase = p] \in Asked
        BY <1>1, <2>2
    <2>4. cancels' \in [Requests -> Asked]
        BY <1>1, <2>1, <2>3
    <2>5. PageType'
        BY <1>1, <2>2, <2>4 DEF PageType, TypeOK
    <2>6. QED BY <2>2, <2>5, KeepStep
<1>4. CASE NotCancelled(c)
    <2>1. cancels' = [cancels EXCEPT ![c] = Free] /\ UNCHANGED <<place, status, query, acked, drawer>>
        BY <1>4 DEF NotCancelled
    <2>2. cancels' \in [Requests -> Asked]
        BY <1>1, <2>1
    <2>3. PageType'
        BY <1>1, <2>1, <2>2 DEF PageType, TypeOK
    <2>4. QED BY <2>1, <2>3, KeepStep
<1>5. CASE Cancelled(c)
    <2>1. Invalidated(query, Active) \in Query(Lists)
        <3>1. Active \in BOOLEAN
            BY DEF Active
        <3>2. QED BY <1>1, <3>1, QueryOps
    <2>2. cancels[c].run \in Runs /\ cancels' = [cancels EXCEPT ![c] = Free]
        BY <1>1, <1>5 DEF Cancelled, Free
    <2>c. cancels' \in [Requests -> Asked]
        BY <1>1, <2>2
    <2>3. PageType'
        BY <1>1, <1>5, <2>1, <2>2, <2>c DEF Cancelled, PageType, TypeOK
    <2>4. CASE cancels[c].mine
        BY <1>5, <2>3, <2>4, CloseStep DEF Cancelled
    <2>5. CASE ~cancels[c].mine
        BY <1>5, <2>3, <2>5, KeepStep DEF Cancelled
    <2>6. QED BY <2>4, <2>5
<1>6. QED BY <1>2, <1>3, <1>4, <1>5

\* The button of a run, and the report about one.
LEMMA RunStep == ASSUME TypeOK, NEW r \in Runs, Cancel(r) \/ Report(r) PROVE TypeOK'
<1>1. CASE Cancel(r)
    <2>1. PICK c \in Requests : cancels' = [cancels EXCEPT ![c] = [run |-> r, phase |-> "sent", mine |-> TRUE]]
        BY <1>1 DEF Cancel
    <2>2. UNCHANGED <<place, status, query, acked, drawer>>
        BY <1>1 DEF Cancel
    <2>3. PageType'
        BY <2>1, <2>2 DEF PageType, TypeOK
    <2>4. QED BY <2>2, <2>3, KeepStep
<1>2. CASE Report(r)
    <2>1. status' \in Lists /\ UNCHANGED <<place, query, acked, cancels, drawer>>
        BY <1>2 DEF Report, TypeOK, Lists, Statuses, Ended
    <2>2. PageType'
        BY <2>1 DEF PageType, TypeOK
    <2>3. QED BY <2>1, <2>2, KeepStep
<1>3. QED BY <1>1, <1>2

-----------------------------------------------------------------------------
(* The list after a cancellation.  CancelIsShown is about a list at rest; the *)
(* invariant follows the rows on their way to it: the server's own, those of *)
(* an answer under way, and cached rows that were not invalidated.           *)

AllEnded(list) == \A r \in acked : list[r] \in Ended

\* The server's rows.
RowsInv ==
    /\ AllEnded(status)
    /\ \A c \in Requests : cancels[c].phase = "ok" => status[cancels[c].run] \in Ended

\* The rows the query holds.
ListInv ==
    /\ query.fetch = "answered" => AllEnded(query.snap)
    /\ query.data # NoData /\ ~query.invalid => AllEnded(query.data)
    /\ Active /\ query.fetch = "idle" /\ ~query.broken => AllEnded(query.data)
    /\ ~Active => query.fetch = "idle"

\* What the operations on a query do to its parts.
LEMMA QueryParts ==
    ASSUME NEW D, NEW q \in Query(D), NEW d
    PROVE  /\ Fetching(q).fetch = "sent" /\ Fetching(q).data = q.data
           /\ Fetching(q).invalid = q.invalid
           /\ Aborted(q).fetch = "idle" /\ Aborted(q).data = q.data
           /\ Aborted(q).invalid = q.invalid /\ Aborted(q).broken = q.broken
           /\ Answered(q, d).fetch = "answered" /\ Answered(q, d).snap = d
           /\ Answered(q, d).data = q.data /\ Answered(q, d).invalid = q.invalid
           /\ Received(q).fetch = "idle" /\ Received(q).data = q.snap
           /\ Failed(q).fetch = "idle" /\ Failed(q).broken /\ Failed(q).invalid
<1>1. Fetching(q).fetch = "sent" /\ Fetching(q).data = q.data /\ Fetching(q).invalid = q.invalid
    BY DEF Query, Fetching
<1>2. /\ Aborted(q).fetch = "idle" /\ Aborted(q).data = q.data
      /\ Aborted(q).invalid = q.invalid /\ Aborted(q).broken = q.broken
    BY DEF Query, Aborted
<1>3. /\ Answered(q, d).fetch = "answered" /\ Answered(q, d).snap = d
      /\ Answered(q, d).data = q.data /\ Answered(q, d).invalid = q.invalid
    BY DEF Query, Answered
<1>4. Received(q).fetch = "idle" /\ Received(q).data = q.snap
    BY DEF Received, Empty
<1>5. Failed(q).fetch = "idle" /\ Failed(q).broken /\ Failed(q).invalid
    BY DEF Query, Failed
<1>6. QED BY <1>1, <1>2, <1>3, <1>4, <1>5

\* An invalidation of a query at rest, or with data, starts a fetch.
LEMMA InvalidatedParts ==
    ASSUME NEW D, NEW q \in Query(D), NEW active \in BOOLEAN
    PROVE  /\ Invalidated(q, active).invalid
           /\ active /\ ~Loading(q) => Invalidated(q, active).fetch = "sent"
           /\ ~active \/ Loading(q) => Invalidated(q, active).fetch = q.fetch
                                       /\ Invalidated(q, active).snap = q.snap
<1>1. CASE active /\ (q.fetch = "idle" \/ q.data # NoData)
    <2>1. Invalidated(q, active) = [Fetching(q) EXCEPT !.invalid = TRUE] /\ Fetching(q) \in Query(D)
        <3>1. Fetching(q) \in Query(D)
            BY DEF Query, Fetching
        <3>2. QED BY <1>1, <3>1 DEF Invalidated
    <2>2. Fetching(q).fetch = "sent"
        BY QueryParts
    <2>3. QED BY <1>1, <2>1, <2>2 DEF Query, Loading
<1>2. CASE ~(active /\ (q.fetch = "idle" \/ q.data # NoData))
    <2>1. Invalidated(q, active) = [q EXCEPT !.invalid = TRUE]
        BY <1>2 DEF Invalidated
    <2>2. QED BY <1>2, <2>1 DEF Query, Loading
<1>3. QED BY <1>1, <1>2

\* No request was told of a cancellation that has not been made.
LEMMA RowsKept ==
    ASSUME TypeOK, RowsInv, acked' = acked,
           \A r \in Runs : status[r] \in Ended => status'[r] \in Ended,
           \A c \in Requests : cancels'[c].phase = "ok" =>
                /\ cancels'[c].run \in Runs
                /\ \/ cancels[c].phase = "ok" /\ cancels'[c].run = cancels[c].run
                   \/ status'[cancels'[c].run] \in Ended
    PROVE  RowsInv'
BY DEF RowsInv, AllEnded, TypeOK, TypeOK

\* The run of a request is one of the list.
LEMMA AskedRun ==
    ASSUME TypeOK, NEW c \in Requests, cancels[c].phase # "free"
    PROVE  cancels[c] \in [run : Runs, phase : {"sent", "checked", "ok", "refused"}, mine : BOOLEAN]
BY DEF TypeOK, Free

LEMMA RowsStep == TypeOK /\ RowsInv /\ [Next]_vars => RowsInv'
<1>1. SUFFICES ASSUME TypeOK, RowsInv, [Next]_vars PROVE RowsInv'
    OBVIOUS
<1>2. TypeOK /\ status \in Lists /\ acked \subseteq Runs
    BY <1>1 DEF TypeOK
<1>3. \A c \in Requests : cancels[c].phase = "ok" => cancels[c].run \in Runs
    BY <1>2, AskedRun
<1>4. CASE UNCHANGED <<status, acked, cancels>>
    BY <1>1, <1>4 DEF RowsInv, AllEnded
<1>5. CASE Leave
    <2>1. cancels' = [c \in Requests |-> [cancels[c] EXCEPT !.mine = FALSE]] /\ UNCHANGED <<status, acked>>
        BY <1>5 DEF Leave
    <2>2. ASSUME NEW c \in Requests
          PROVE  cancels'[c].phase = cancels[c].phase /\ cancels'[c].run = cancels[c].run
        <3>1. cancels[c] = Free \/ cancels[c] \in [run : Runs, phase : {"sent", "checked", "ok", "refused"}, mine : BOOLEAN]
            BY <1>2 DEF TypeOK
        <3>2. cancels'[c] = [cancels[c] EXCEPT !.mine = FALSE]
            BY <2>1
        <3>3. QED BY <3>1, <3>2 DEF Free
    <2>3. QED BY <1>1, <1>3, <2>1, <2>2, RowsKept
<1>6. ASSUME NEW r \in Runs, Cancel(r) PROVE RowsInv'
    <2>1. PICK c \in Requests : cancels' = [cancels EXCEPT ![c] = [run |-> r, phase |-> "sent", mine |-> TRUE]]
        BY <1>6 DEF Cancel
    <2>2. UNCHANGED <<status, acked>>
        BY <1>6 DEF Cancel
    <2>3. \A d \in Requests : cancels'[d].phase = "ok" => cancels'[d] = cancels[d]
        BY <1>2, <2>1 DEF TypeOK
    <2>4. QED BY <1>1, <1>3, <2>2, <2>3, RowsKept
<1>7. ASSUME NEW c \in Requests, MarkCancelled(c) PROVE RowsInv'
    <2>1. PICK p \in {"ok", "refused"} : cancels' = [cancels EXCEPT ![c].phase = p]
        BY <1>7 DEF MarkCancelled
    <2>2. cancels[c].run \in Runs /\ cancels[c] \in [run : Runs, phase : {"sent", "checked", "ok", "refused"}, mine : BOOLEAN]
        BY <1>2, <1>7, AskedRun DEF MarkCancelled
    <2>3. /\ status' = [status EXCEPT ![cancels[c].run] = "cancelled"] /\ acked' = acked
          /\ \A d \in Requests : d # c => cancels'[d] = cancels[d]
          /\ cancels'[c].run = cancels[c].run
        BY <1>2, <1>7, <2>1, <2>2 DEF MarkCancelled, TypeOK
    <2>4. /\ status'[cancels[c].run] \in Ended
          /\ \A r \in Runs : status[r] \in Ended => status'[r] \in Ended
        BY <1>2, <2>2, <2>3 DEF Lists, Ended
    <2>5. \A d \in Requests : cancels'[d].phase = "ok" =>
                /\ cancels'[d].run \in Runs
                /\ \/ cancels[d].phase = "ok" /\ cancels'[d].run = cancels[d].run
                   \/ status'[cancels'[d].run] \in Ended
        <3>1. SUFFICES ASSUME NEW d \in Requests, cancels'[d].phase = "ok"
                       PROVE  /\ cancels'[d].run \in Runs
                              /\ \/ cancels[d].phase = "ok" /\ cancels'[d].run = cancels[d].run
                                 \/ status'[cancels'[d].run] \in Ended
            OBVIOUS
        <3>2. CASE d = c
            BY <2>2, <2>3, <2>4, <3>2
        <3>3. CASE d # c
            BY <1>3, <2>3, <3>1, <3>3
        <3>4. QED BY <3>2, <3>3
    <2>6. QED BY <1>1, <2>3, <2>4, <2>5, RowsKept
<1>8. ASSUME NEW c \in Requests, CheckCancel(c) \/ RefuseCancel(c) \/ NotCancelled(c) PROVE RowsInv'
    <2>1. /\ cancels' = [cancels EXCEPT ![c] = cancels'[c]] /\ UNCHANGED <<status, acked>>
          /\ cancels'[c].phase # "ok"
        <3>1. ASSUME NEW p \in {"checked", "refused"}, cancels[c].phase # "free",
                     cancels' = [cancels EXCEPT ![c].phase = p]
              PROVE  cancels' = [cancels EXCEPT ![c] = cancels'[c]] /\ cancels'[c].phase # "ok"
            <4>1. cancels[c] \in [run : Runs, phase : {"sent", "checked", "ok", "refused"}, mine : BOOLEAN]
                BY <1>2, <3>1, AskedRun
            <4>2. QED BY <1>2, <3>1, <4>1 DEF TypeOK
        <3>2. CASE CheckCancel(c)
            BY <3>1, <3>2 DEF CheckCancel
        <3>3. CASE RefuseCancel(c)
            BY <3>1, <3>3 DEF RefuseCancel
        <3>4. CASE NotCancelled(c)
            BY <1>2, <3>4 DEF NotCancelled, Free, TypeOK
        <3>5. QED BY <1>8, <3>2, <3>3, <3>4
    <2>2. \A d \in Requests : cancels'[d].phase = "ok" => cancels'[d] = cancels[d]
        BY <1>2, <2>1 DEF TypeOK
    <2>3. QED BY <1>1, <1>3, <2>1, <2>2, RowsKept
<1>9. ASSUME NEW c \in Requests, Cancelled(c) PROVE RowsInv'
    <2>1. /\ cancels[c].phase = "ok" /\ cancels' = [cancels EXCEPT ![c] = Free] /\ status' = status
          /\ acked' \subseteq acked \cup {cancels[c].run}
        BY <1>9 DEF Cancelled
    <2>2. \A d \in Requests : cancels'[d].phase = "ok" => cancels'[d] = cancels[d]
        BY <1>2, <2>1 DEF TypeOK, Free
    <2>3. QED BY <1>1, <2>1, <2>2 DEF RowsInv, AllEnded
<1>10. ASSUME NEW r \in Runs, Report(r) PROVE RowsInv'
    <2>1. status' = [status EXCEPT ![r] = "done"] /\ UNCHANGED <<acked, cancels>>
        BY <1>10 DEF Report
    <2>2. \A u \in Runs : status[u] \in Ended => status'[u] \in Ended
        BY <1>2, <2>1 DEF Lists, Ended
    <2>3. QED BY <1>1, <1>3, <2>1, <2>2, RowsKept
<1>11. ASSUME NEW r \in Runs, View(r) PROVE RowsInv'
    BY <1>4, <1>11 DEF View
<1>12. ASSUME NEW w \in Sockets, Handshake(w) \/ OnClose(w) PROVE RowsInv'
    BY <1>4, <1>12 DEF Handshake, OnClose
<1>13. Enter \/ Refetch \/ ListRuns \/ FetchFails \/ Receive \/ Close \/ UNCHANGED vars => RowsInv'
    BY <1>4 DEF Enter, Refetch, ListRuns, FetchFails, Receive, Close, vars
<1>14. QED BY <1>1, <1>5, <1>6, <1>7, <1>8, <1>9, <1>10, <1>11, <1>12, <1>13 DEF Next

\* The page or the dashboard appears: an invalidated list is fetched.
LEMMA ListObserved ==
    ASSUME TypeOK, ListInv, acked' = acked, query' \in Observed(Aborted(query)), Active'
    PROVE  ListInv'
<1> DEFINE q == Aborted(query)
<1>1. query \in Query(Lists) /\ q \in Query(Lists)
    <2>1. query \in Query(Lists) /\ status \in Lists
        BY DEF TypeOK
    <2>2. QED BY <2>1, QueryOps
<1>2. q.fetch = "idle" /\ q.data = query.data /\ q.invalid = query.invalid
    BY <1>1, QueryParts
<1>3. query' = Fetching(q) \/ (query' = q /\ q.data # NoData /\ ~q.invalid)
    BY <1>2 DEF Observed
<1>4. CASE query' = Fetching(q)
    <2>1. query'.fetch = "sent" /\ query'.data = query.data /\ query'.invalid = query.invalid
        BY <1>1, <1>2, <1>4, QueryParts
    <2>2. QED BY <2>1 DEF ListInv, AllEnded
<1>5. CASE query' = q /\ q.data # NoData /\ ~q.invalid
    BY <1>2, <1>5 DEF ListInv, AllEnded
<1>6. QED BY <1>3, <1>4, <1>5

LEMMA ListInvStep == TypeOK /\ RowsInv /\ ListInv /\ [Next]_vars => ListInv'
<1>1. SUFFICES ASSUME TypeOK, RowsInv, ListInv, [Next]_vars PROVE ListInv'
    OBVIOUS
<1>2. query \in Query(Lists)
    BY <1>1 DEF TypeOK
<1>3. CASE UNCHANGED <<place, query, acked>>
    BY <1>1, <1>3 DEF ListInv, AllEnded, Active
<1>4. CASE Enter
    <2>1. Active'
        BY <1>4 DEF Enter, Active
    <2>2. QED BY <1>1, <1>4, <2>1, ListObserved DEF Enter
<1>5. CASE Leave
    <2>1. CASE place' = "observer" /\ query' \in Observed(Aborted(query))
        BY <1>1, <1>5, <2>1, ListObserved DEF Leave, Active
    <2>2. CASE place' = "away" /\ query' = Aborted(query)
        <3>1. query'.fetch = "idle" /\ query'.data = query.data /\ query'.invalid = query.invalid
            BY <1>2, <2>2, QueryParts
        <3>2. acked' = acked /\ ~Active'
            BY <1>5, <2>2 DEF Leave, Active
        <3>3. QED BY <1>1, <3>1, <3>2 DEF ListInv, AllEnded
    <2>3. QED BY <1>5, <2>1, <2>2 DEF Leave
<1>6. CASE Refetch
    <2>1. Active /\ query' = Fetching(query) /\ UNCHANGED <<place, acked>>
        BY <1>6 DEF Refetch
    <2>2. query'.fetch = "sent" /\ query'.data = query.data /\ query'.invalid = query.invalid
        BY <1>2, <2>1, QueryParts
    <2>3. QED BY <1>1, <2>1, <2>2 DEF ListInv, AllEnded, Active
<1>7. CASE ListRuns
    <2>1. query.fetch = "sent" /\ query' = Answered(query, status) /\ UNCHANGED <<place, status, acked>>
        BY <1>7 DEF ListRuns
    <2>2. /\ query'.fetch = "answered" /\ query'.snap = status
          /\ query'.data = query.data /\ query'.invalid = query.invalid
        BY <1>2, <2>1, QueryParts
    <2>3. QED BY <1>1, <2>1, <2>2 DEF ListInv, RowsInv, AllEnded, Active
<1>8. CASE FetchFails
    <2>1. query' = Failed(query) /\ UNCHANGED <<place, acked>>
        BY <1>8 DEF FetchFails
    <2>2. query'.fetch = "idle" /\ query'.broken /\ query'.invalid
        BY <1>2, <2>1, QueryParts
    <2>3. QED BY <2>2 DEF ListInv
<1>9. CASE Receive
    <2>1. query.fetch = "answered" /\ query' = Received(query) /\ acked' = acked
        BY <1>9 DEF Receive
    <2>2. query'.fetch = "idle" /\ query'.data = query.snap
        BY <1>2, <2>1, QueryParts
    <2>3. QED BY <1>1, <2>1, <2>2 DEF ListInv, AllEnded
<1>10. ASSUME NEW c \in Requests, Cancelled(c) PROVE ListInv'
    <2>1. /\ query' = Invalidated(query, Active) /\ UNCHANGED <<place, status>>
          /\ acked' = IF Loading(query) THEN acked ELSE acked \cup {cancels[c].run}
        BY <1>10 DEF Cancelled
    <2>2. Active \in BOOLEAN /\ Active' = Active
        BY <2>1 DEF Active
    <2>3. query'.invalid
        BY <1>2, <2>1, <2>2, InvalidatedParts
    <2>4. CASE Active /\ ~Loading(query)
        <3>1. query'.fetch = "sent"
            BY <1>2, <2>1, <2>2, <2>4, InvalidatedParts
        <3>2. QED BY <2>2, <2>3, <2>4, <3>1 DEF ListInv
    <2>5. CASE ~Active \/ Loading(query)
        <3>1. query'.fetch = query.fetch /\ query'.snap = query.snap
            BY <1>2, <2>1, <2>2, <2>5, InvalidatedParts
        <3>2. CASE Loading(query)
            BY <1>1, <2>1, <2>2, <2>3, <3>1, <3>2 DEF ListInv, AllEnded, Loading
        <3>3. CASE ~Active
            BY <1>1, <2>2, <2>3, <3>1, <3>3 DEF ListInv
        <3>4. QED BY <2>5, <3>2, <3>3
    <2>6. QED BY <2>4, <2>5
<1>11. ASSUME NEW c \in Requests, CheckCancel(c) \/ MarkCancelled(c) \/ RefuseCancel(c) \/ NotCancelled(c) PROVE ListInv'
    BY <1>3, <1>11 DEF CheckCancel, MarkCancelled, RefuseCancel, NotCancelled
<1>12. ASSUME NEW r \in Runs, View(r) \/ Cancel(r) \/ Report(r) PROVE ListInv'
    BY <1>3, <1>12 DEF View, Cancel, Report
<1>13. ASSUME NEW w \in Sockets, Handshake(w) \/ OnClose(w) PROVE ListInv'
    BY <1>3, <1>13 DEF Handshake, OnClose
<1>14. Close \/ UNCHANGED vars => ListInv'
    BY <1>3 DEF Close, vars
<1>15. QED BY <1>1, <1>4, <1>5, <1>6, <1>7, <1>8, <1>9, <1>10, <1>11, <1>12, <1>13, <1>14 DEF Next

-----------------------------------------------------------------------------
(* Theorems *)

\* Every variable of RunsPage keeps its type.
THEOREM TypeCorrect == Spec => []TypeOK
<1>1. TypeOK /\ [Next]_vars => TypeOK'
    <2>1. SUFFICES ASSUME TypeOK, [Next]_vars PROVE TypeOK'
        OBVIOUS
    <2>2. CASE UNCHANGED vars
        <3>1. UNCHANGED <<place, status, query, acked, cancels, drawer>>
            BY <2>2 DEF vars
        <3>2. PageType'
            BY <2>1, <3>1 DEF PageType, TypeOK
        <3>3. QED BY <2>1, <3>1, <3>2, KeepStep
    <2>3. CASE Next
        BY <2>1, <2>3, ListStep, ViewStep, RunStep, SocketStep, CancelStep DEF Next
    <2>4. QED BY <2>1, <2>2, <2>3
<1>2. QED BY InitType, <1>1, PTL DEF Spec

\* Once the page was told that a run is cancelled, neither the refetches of its
\* list nor an answer from before shows the run as running.
THEOREM CancelIsShownHolds == Spec => []CancelIsShown
<1>1. Init => RowsInv /\ ListInv
    BY DEF Init, RowsInv, ListInv, AllEnded, Free, Empty, Active
<1>2. TypeOK /\ (RowsInv /\ ListInv) /\ [Next]_vars => (RowsInv /\ ListInv)'
    BY RowsStep, ListInvStep
<1>3. ListInv => CancelIsShown
    BY DEF ListInv, AllEnded, Active, CancelIsShown
<1>4. QED BY <1>1, <1>2, <1>3, TypeCorrect, PTL DEF Spec

-----------------------------------------------------------------------------
(* Session: a token that is stored, shown or carried was issued *)

USE SessionAssumption DEF SessionAssumption

LEMMA SessionStart == SessionInit => SessionTypeOK /\ SignOutHolds
BY DEF SessionInit, SessionTypeOK, SignOutHolds, Idle, NoReq

\* A page is loaded: it takes the stored token.
LEMMA LoadKeeps ==
    ASSUME SessionTypeOK, SignOutHolds, NEW t \in Tabs,
           NEW p \in {"login", "polling", "quiet"}, Load(t, p)
    PROVE  SessionTypeOK' /\ SignOutHolds'
BY DEF Load, SessionTypeOK, SignOutHolds, Idle, NoReq

\* Tabs, links and the end of a session.
LEMMA PagesKeep ==
    ASSUME SessionTypeOK, SignOutHolds, NEW t \in Tabs,
           \/ Turn(t) \/ Open(t) \/ Unload(t) \/ Logout(t)
           \/ \E p \in {"polling", "quiet"} : Visit(t, p)
    PROVE  SessionTypeOK' /\ SignOutHolds'
<1>1. CASE Open(t)
    BY <1>1, LoadKeeps DEF Open
<1>2. CASE Unload(t)
    BY <1>2, LoadKeeps DEF Unload
<1>3. CASE Logout(t)
    BY <1>3 DEF Logout, SessionTypeOK, SignOutHolds, NoReq
<1>4. ASSUME NEW p \in {"polling", "quiet"}, Visit(t, p) PROVE SessionTypeOK' /\ SignOutHolds'
    BY <1>4 DEF Visit, SessionTypeOK, SignOutHolds, NoReq
<1>5. CASE Turn(t)
    BY <1>5 DEF Turn, tab, SessionTypeOK, SignOutHolds
<1>6. QED BY <1>1, <1>2, <1>3, <1>4, <1>5

\* The requests of a page.
LEMMA RequestsKeep ==
    ASSUME SessionTypeOK, SignOutHolds, NEW t \in Tabs,
           \/ Request(t) \/ Refuse(t) \/ Serve(t) \/ Done(t) \/ Refused(t)
    PROVE  SessionTypeOK' /\ SignOutHolds'
<1>1. CASE Request(t)
    BY <1>1 DEF Request, SessionTypeOK, SignOutHolds
<1>2. ASSUME NEW phase \in {"done", "refused"}, Respond(t, phase) PROVE SessionTypeOK' /\ SignOutHolds'
    BY <1>2 DEF Respond, NoReq, SessionTypeOK, SignOutHolds
<1>3. CASE Done(t)
    BY <1>3 DEF Done, SessionTypeOK, SignOutHolds, NoReq
<1>4. CASE Refused(t)
    BY <1>4 DEF Refused, EndSession, SessionTypeOK, SignOutHolds, NoReq
<1>5. QED BY <1>1, <1>2, <1>3, <1>4 DEF Refuse, Serve

\* The login page: only a login that was granted stores a token, and it ends
\* the time signed out in the same step.
LEMMA LoginsKeep ==
    ASSUME SessionTypeOK, SignOutHolds, NEW t \in Tabs,
           \/ Submit(t) \/ LoggedIn(t) \/ LoginDenied(t) \/ LoginLost(t)
           \/ \E p \in {"denied", "lost"} : Deny(t, p)
           \/ \E k \in Tokens : Grant(t, k)
    PROVE  SessionTypeOK' /\ SignOutHolds'
<1>1. CASE Submit(t)
    BY <1>1 DEF Submit, Idle, SessionTypeOK, SignOutHolds
<1>2. CASE LoggedIn(t)
    BY <1>2 DEF LoggedIn, Idle, SessionTypeOK, SignOutHolds
<1>3. CASE LoginDenied(t)
    BY <1>3 DEF LoginDenied, EndSession, SessionTypeOK, SignOutHolds
<1>4. CASE LoginLost(t)
    BY <1>4 DEF LoginLost, SessionTypeOK, SignOutHolds
<1>5. ASSUME NEW p \in {"denied", "lost"}, Deny(t, p) PROVE SessionTypeOK' /\ SignOutHolds'
    <2>1. [login[t] EXCEPT !.phase = p] \in [phase : {"idle", "error", "sent", "granted", "denied", "lost"},
                                            token : issued \cup {NoToken}]
        <3>1. login[t] \in [phase : {"idle", "error", "sent", "granted", "denied", "lost"},
                            token : issued \cup {NoToken}]
            BY DEF SessionTypeOK
        <3>2. QED BY <3>1, <1>5
    <2>2. login' = [login EXCEPT ![t] = [login[t] EXCEPT !.phase = p]]
        BY <1>5 DEF Deny
    <2>3. QED BY <1>5, <2>1, <2>2 DEF Deny, SessionTypeOK, SignOutHolds
<1>6. ASSUME NEW k \in Tokens, Grant(t, k) PROVE SessionTypeOK' /\ SignOutHolds'
    BY <1>6 DEF Grant, SessionTypeOK, SignOutHolds
<1>7. QED BY <1>1, <1>2, <1>3, <1>4, <1>5, <1>6

LEMMA SessionStep ==
    SessionTypeOK /\ SignOutHolds /\ [SessionNext]_sessionVars => SessionTypeOK' /\ SignOutHolds'
<1> SUFFICES ASSUME SessionTypeOK, SignOutHolds, [SessionNext]_sessionVars
             PROVE  SessionTypeOK' /\ SignOutHolds'
    OBVIOUS
<1>1. CASE UNCHANGED sessionVars
    BY <1>1 DEF sessionVars, tab, SessionTypeOK, SignOutHolds
<1>2. ASSUME NEW k \in Tokens, Expire(k) PROVE SessionTypeOK' /\ SignOutHolds'
    BY <1>2 DEF Expire, tab, SessionTypeOK, SignOutHolds
<1>3. QED BY <1>1, <1>2, PagesKeep, RequestsKeep, LoginsKeep DEF SessionNext

\* Whatever tabs do, load or still have under way, every variable of a session
\* keeps its type: no tab shows, sends or stores a token that was not issued.
THEOREM SessionTypeCorrect == SessionSpec => []SessionTypeOK
<1>1. SessionInit => SessionTypeOK /\ SignOutHolds
    BY SessionStart
<1>2. SessionTypeOK /\ SignOutHolds /\ [SessionNext]_sessionVars => SessionTypeOK' /\ SignOutHolds'
    BY SessionStep
<1>3. QED BY <1>1, <1>2, PTL DEF SessionSpec

\* For any number of tabs: from a logout or a refusal in one of them to the next
\* login that succeeds, no token is stored (lib/api.ts, lib/auth-context.tsx).
THEOREM SignOutHoldsForAll == SessionSpec => []SignOutHolds
<1>1. SessionInit => SessionTypeOK /\ SignOutHolds
    BY SessionStart
<1>2. SessionTypeOK /\ SignOutHolds /\ [SessionNext]_sessionVars => SessionTypeOK' /\ SignOutHolds'
    BY SessionStep
<1>3. QED BY <1>1, <1>2, PTL DEF SessionSpec
=============================================================================
