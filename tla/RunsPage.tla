-------------------------------- MODULE RunsPage --------------------------------
(***************************************************************************)
(* The Run History page (web/src/pages/Runs.tsx): the list that is fetched *)
(* every five seconds, the buttons that cancel, and the drawer that        *)
(* follows the log of one run through a websocket (useLiveLogs).           *)
(*                                                                         *)
(* The drawer keeps the run as it was in the list when it was opened.      *)
(* Handlers run one at a time, each with the rendering and the effects it  *)
(* causes.  The stream is refused to the drawer (Handshake), so no line of *)
(* a log arrives, and there is no action for one.                          *)
(***************************************************************************)
EXTENDS Integers, QueryCache

CONSTANTS
    Runs,       \* the runs of the list
    Nothing,    \* no run, no socket (null in the code)
    Sockets,    \* WebSocket objects; a closed one is reused
    Requests,   \* requests to cancel under way at once
    Faults      \* whether connections fail

\* done: success or failed.
Ended == {"done", "cancelled"}
Statuses == {"running"} \cup Ended
\* A run as the drawer keeps it.
Snapshots == [run : Runs, status : Statuses]

ASSUME RunsPageAssumption ==
    /\ Nothing \notin Runs \cup Sockets \cup Snapshots
    /\ Faults \in BOOLEAN

VARIABLES
    place,      \* "page", "observer" (the dashboard, which shows the same list), "away"
    status,     \* the rows of the server
    query,      \* the cached list
    acked,      \* the runs whose cancellation the page was told of
    cancels,    \* the requests to cancel
    selected,   \* selectedRun
    socks,      \* the sockets: whose log, and readyState
    cur,        \* wsRef.current
    connected   \* what the drawer says

drawer == <<selected, socks, cur, connected>>
vars == <<place, status, query, acked, cancels, drawer>>

Lists == [Runs -> Statuses]
Active == place # "away"

Free == [run |-> Nothing, phase |-> "free", mine |-> FALSE]
Unused == [run |-> Nothing, state |-> "closed"]

\* The rows the page displays.
Shown == IF query.data = NoData THEN {} ELSE Runs

TypeOK ==
    /\ place \in {"page", "observer", "away"}
    /\ status \in Lists /\ query \in Query(Lists)
    /\ acked \subseteq Runs
    /\ cancels \in [Requests -> {Free} \cup [run : Runs, phase : {"sent", "checked", "ok", "refused"},
                                            mine : BOOLEAN]]
    /\ selected \in Snapshots \cup {Nothing}
    /\ socks \in [Sockets -> {Unused} \cup [run : Runs, state : {"connecting", "open", "closing"}]]
    /\ cur \in Sockets \cup {Nothing}
    /\ connected \in BOOLEAN

Init ==
    /\ place = "away"
    /\ status = [r \in Runs |-> "running"]
    /\ query = Empty
    /\ acked = {} /\ cancels = [c \in Requests |-> Free]
    /\ selected = Nothing
    /\ socks = [w \in Sockets |-> Unused]
    /\ cur = Nothing /\ connected = FALSE

-----------------------------------------------------------------------------
(* useLiveLogs *)

Live(w) == socks[w].state \in {"connecting", "open"}

\* The cleanup of the effect: close() does nothing to a socket that is closed.
Cleaned == [w \in Sockets |-> IF w = cur /\ Live(w) THEN [socks[w] EXCEPT !.state = "closing"]
                                                   ELSE socks[w]]

\* No run is selected any more (the drawer or the page is closed).
CloseDrawer ==
    /\ selected' = Nothing /\ cur' = Nothing
    /\ socks' = Cleaned
    /\ connected' = FALSE

\* View logs: a run that ended gets a summary, a running one its stream.
View(r) ==
    /\ place = "page" /\ selected = Nothing /\ r \in Shown
    /\ selected' = [run |-> r, status |-> query.data[r]]
    /\ IF query.data[r] # "running"
       THEN UNCHANGED <<socks, cur>>
       ELSE \E w \in Sockets :
            /\ socks[w].state = "closed"
            /\ socks' = [socks EXCEPT ![w] = [run |-> r, state |-> "connecting"]]
            /\ cur' = w
    /\ UNCHANGED <<place, status, query, acked, cancels, connected>>

Close ==
    /\ selected # Nothing
    /\ CloseDrawer
    /\ UNCHANGED <<place, status, query, acked, cancels>>

\* What the request of new WebSocket(url) carries: the url has no token, and a
\* browser sets no Authorization header on it.
Credentials == "none"

\* jwtAuthMiddleware, through which the route of the stream is reached.
Admits(credentials) == credentials = "bearer"

\* onopen; a handshake that is answered with 401 ends in onerror and onclose.
Handshake(w) ==
    /\ socks[w].state = "connecting"
    /\ socks' = [socks EXCEPT ![w] = IF Admits(Credentials) THEN [@ EXCEPT !.state = "open"]
                                                           ELSE Unused]
    /\ connected' = Admits(Credentials)
    /\ UNCHANGED <<place, status, query, acked, cancels, selected, cur>>

\* onclose and onerror, also of a socket given up while its page is shown: the
\* drawer of another run then says it is connecting.
OnClose(w) ==
    /\ socks[w].state = "closing" \/ (Faults /\ Live(w))
    /\ socks' = [socks EXCEPT ![w] = Unused]
    /\ connected' = FALSE
    /\ UNCHANGED <<place, status, query, acked, cancels, selected, cur>>

-----------------------------------------------------------------------------
(* The page and its list *)

Enter ==
    /\ place # "page" /\ place' = "page"
    /\ query' \in Observed(Aborted(query))
    /\ UNCHANGED <<status, acked, cancels, drawer>>

\* Leave, with the drawer open or not.
Leave ==
    /\ place = "page"
    /\ \/ place' = "away" /\ query' = Aborted(query)
       \/ place' = "observer" /\ query' \in Observed(Aborted(query))
    /\ cancels' = [c \in Requests |-> [cancels[c] EXCEPT !.mine = FALSE]]
    /\ CloseDrawer
    /\ UNCHANGED <<status, acked>>

\* refetchInterval, the focus of the window.
Refetch ==
    /\ Active /\ query.fetch = "idle"
    /\ query' = Fetching(query)
    /\ UNCHANGED <<place, status, acked, cancels, drawer>>

\* handleListRuns
ListRuns ==
    /\ query.fetch = "sent"
    /\ query' = Answered(query, status)
    /\ UNCHANGED <<place, status, acked, cancels, drawer>>

FetchFails ==
    /\ query.fetch # "idle"
    /\ query' = Failed(query)
    /\ UNCHANGED <<place, status, acked, cancels, drawer>>

Receive ==
    /\ query.fetch = "answered"
    /\ query' = Received(query)
    /\ UNCHANGED <<place, status, acked, cancels, drawer>>

-----------------------------------------------------------------------------
(* Cancellation *)

\* isPending
Pending == \E c \in Requests : cancels[c].mine

\* The button of a row, or of the drawer, of a run shown as running.
Cancel(r) ==
    /\ place = "page" /\ ~Pending
    /\ IF selected = Nothing THEN r \in Shown /\ query.data[r] = "running"
                             ELSE selected = [run |-> r, status |-> "running"]
    /\ \E c \in Requests :
        /\ cancels[c] = Free
        /\ cancels' = [cancels EXCEPT ![c] = [run |-> r, phase |-> "sent", mine |-> TRUE]]
    /\ UNCHANGED <<place, status, query, acked, drawer>>

\* handleCancelRun reads the row,
CheckCancel(c) ==
    /\ cancels[c].phase = "sent" /\ status[cancels[c].run] = "running"
    /\ cancels' = [cancels EXCEPT ![c].phase = "checked"]
    /\ UNCHANGED <<place, status, query, acked, drawer>>

\* and updates it, whatever it is by then; the answer arrives or is lost.
MarkCancelled(c) ==
    /\ cancels[c].phase = "checked"
    /\ status' = [status EXCEPT ![cancels[c].run] = "cancelled"]
    /\ \E p \in {"ok", "refused"} : cancels' = [cancels EXCEPT ![c].phase = p]
    /\ UNCHANGED <<place, query, acked, drawer>>

\* 409 for a run that has ended; a failing statement, a request that is lost.
RefuseCancel(c) ==
    /\ cancels[c].phase \in {"sent", "checked"}
    /\ cancels' = [cancels EXCEPT ![c].phase = "refused"]
    /\ UNCHANGED <<place, status, query, acked, drawer>>

\* onSuccess: the list is fetched anew, and whatever drawer is open is closed.
Cancelled(c) ==
    /\ cancels[c].phase = "ok"
    /\ cancels' = [cancels EXCEPT ![c] = Free]
    /\ query' = Invalidated(query, Active)
    /\ acked' = IF Loading(query) THEN acked ELSE acked \cup {cancels[c].run}
    /\ IF cancels[c].mine THEN CloseDrawer ELSE UNCHANGED drawer
    /\ UNCHANGED <<place, status>>

\* onError
NotCancelled(c) ==
    /\ cancels[c].phase = "refused"
    /\ cancels' = [cancels EXCEPT ![c] = Free]
    /\ UNCHANGED <<place, status, query, acked, drawer>>

-----------------------------------------------------------------------------
(* The server *)

\* The agent's report, which can also overwrite a cancellation.
Report(r) ==
    /\ status[r] \in {"running", "cancelled"}
    /\ status' = [status EXCEPT ![r] = "done"]
    /\ UNCHANGED <<place, query, acked, cancels, drawer>>

-----------------------------------------------------------------------------
Next ==
    \/ Enter \/ Leave \/ Refetch \/ ListRuns \/ FetchFails \/ Receive \/ Close
    \/ \E r \in Runs : View(r) \/ Cancel(r) \/ Report(r)
    \/ \E w \in Sockets : Handshake(w) \/ OnClose(w)
    \/ \E c \in Requests : \/ CheckCancel(c) \/ MarkCancelled(c) \/ RefuseCancel(c)
                           \/ Cancelled(c) \/ NotCancelled(c)

Spec == Init /\ [][Next]_vars

\* A server that is up answers a handshake.
FairSpec == Spec /\ \A w \in Sockets : WF_vars(Handshake(w))

-----------------------------------------------------------------------------
(* Properties *)

\* After the page was told that a run is cancelled, a list that is up to date
\* does not show it as running.
CancelIsShown ==
    place = "page" /\ query.fetch = "idle" /\ ~query.broken
        => \A r \in acked : query.data[r] \in Ended

\* The drawer of a run that goes on comes to be connected to its stream, when no
\* connection fails: what README.md says of the run history.
LogsAreLive ==
    \A r \in Runs :
        selected = [run |-> r, status |-> "running"] /\ status[r] = "running"
            ~> \/ cur # Nothing /\ socks[cur] = [run |-> r, state |-> "open"]
               \/ selected # [run |-> r, status |-> "running"]
               \/ status[r] # "running"
=============================================================================
