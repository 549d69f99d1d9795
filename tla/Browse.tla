---------------------------------- MODULE Browse ----------------------------------
(***************************************************************************)
(* Browsing the directories of an agent: the FileBrowser of the job form   *)
(* (web/src/components/FileBrowser.tsx), handleBrowseAgent and the hub's   *)
(* table of waiting callers (BrowsePath, DeliverBrowseResult), and the     *)
(* agent's handleBrowse.                                                   *)
(*                                                                         *)
(* A listing is known by its agent and directory, which are also the key   *)
(* of the browser's query.  A browser that turns away aborts its request,  *)
(* but the handler on the server does not notice and goes on.  The paths   *)
(* that are picked belong to the form: JobForm has them.                   *)
(***************************************************************************)
EXTENDS Integers, Sequences

CONSTANTS
    Agents, Dirs,
    Path,       \* the segments of each directory, the directories from the root to it
    None,       \* no agent, no call, no listing (an error)
    Calls,      \* requests the server handles at once; a finished one is reused
    MaxTrail    \* bound on the browser's history

ASSUME BrowseAssumption ==
    /\ None \notin Agents \cup Calls
    /\ Path \in [Dirs -> Seq(Dirs)] /\ \E d \in Dirs : Path[d] = <<>>

VARIABLES
    agent,      \* the agent that the browser shows; None: no browser is displayed
    cwd, trail, \* the state of FileBrowser (its history is trail)
    listing,    \* the data of the cached queries
    awaited,    \* the call whose answer the browser waits for (isFetching)
    calls,      \* the handlers of the server: what is asked, how far they got, ch
    tasks,      \* browse_path messages on their way and handleBrowse goroutines
    results,    \* browse_result messages on their way
    reader      \* for each agent the call its connection's reader has looked up

browser == <<agent, cwd, trail>>
server == <<calls, tasks, results, reader>>
browseVars == <<browser, listing, awaited, server>>

Root == CHOOSE d \in Dirs : Path[d] = <<>>
Keys == Agents \X Dirs
\* What a caller is sent: the listing of a key, or an error (BrowseResponse).
Answers == Keys \cup {None}

Results == [call : Calls, key : Keys, answer : Answers]

NoCall == [key |-> None, phase |-> "free", ch |-> <<>>]

\* The callers that the hub's table browseReqs has.
browseReqs == {c \in Calls : calls[c].phase \in {"registered", "waiting"}}

BrowseTypeOK ==
    /\ agent \in Agents \cup {None} /\ cwd \in Dirs
    /\ trail \in Seq(Dirs)
    /\ listing \in [Keys -> Answers]
    /\ awaited \in Calls \cup {None}
    /\ calls \in [Calls -> [key : Keys \cup {None}, ch : Seq(Answers),
                            phase : {"free", "sent", "registered", "waiting", "ok", "failed"}]]
    /\ tasks \subseteq [call : Calls, key : Keys]
    /\ results \subseteq Results
    /\ reader \in [Agents -> Results \cup {None}]

BrowseInit ==
    /\ agent = None /\ cwd = Root /\ trail = <<>>
    /\ listing = [k \in Keys |-> None]
    /\ awaited = None
    /\ calls = [c \in Calls |-> NoCall]
    /\ tasks = {} /\ results = {}
    /\ reader = [a \in Agents |-> None]

-----------------------------------------------------------------------------
(* The browser *)

\* Request identifiers are unique: one that a message still carries is not reused.
Fresh(c) ==
    /\ calls[c].phase = "free"
    /\ \A m \in tasks \cup results : m.call # c
    /\ \A a \in Agents : reader[a] # None => reader[a].call # c

\* useQuery: a request for the query that is observed now.
Fetch(k) ==
    \E c \in Calls :
        /\ Fresh(c) /\ awaited' = c
        /\ calls' = [calls EXCEPT ![c] = [NoCall EXCEPT !.key = k, !.phase = "sent"]]

\* The browser now observes the query of agent a and directory d: the request of
\* the one it leaves is aborted, the other one is fetched if missing or stale.
Look(a, d) ==
    /\ agent' = a /\ cwd' = d
    /\ IF <<a, d>> = <<agent, cwd>> THEN UNCHANGED <<awaited, calls>>
       ELSE \/ (a # None => listing[<<a, d>>] # None) /\ awaited' = None /\ UNCHANGED calls
            \/ a # None /\ Fetch(<<a, d>>)
    /\ UNCHANGED <<listing, tasks, results, reader>>

\* The form shows the browser of an agent.  For another agent the component is
\* kept, with its directory and its history.
OpenBrowser(a) ==
    /\ a # agent
    /\ IF agent = None THEN Look(a, Root) /\ trail' = <<>> ELSE Look(a, cwd) /\ UNCHANGED trail

\* The form is closed, its agent is shown offline, its type is another one.
CloseBrowser ==
    /\ agent # None
    /\ Look(None, Root) /\ trail' = <<>>

\* navigate: the entries of the directory shown are displayed.
Navigate(d) ==
    /\ agent # None /\ listing[<<agent, cwd>>] # None
    /\ Path[d] = Append(Path[cwd], d)
    /\ Look(agent, d) /\ trail' = Append(trail, cwd)

GoBack ==
    /\ agent # None /\ trail # <<>>
    /\ Look(agent, trail[Len(trail)])
    /\ trail' = SubSeq(trail, 1, Len(trail) - 1)

\* The breadcrumb: its root forgets the history, a segment adds to it, also that
\* of the directory shown.
GoRoot ==
    /\ agent # None
    /\ Look(agent, Root) /\ trail' = <<>>

GoUp(i) ==
    /\ agent # None /\ i \in 1 .. Len(Path[cwd]) /\ Len(trail) < MaxTrail
    /\ Look(agent, Path[cwd][i]) /\ trail' = Append(trail, cwd)

\* The focus of the window: data that is stale, or an error, is fetched again.
RefetchListing ==
    /\ agent # None /\ awaited = None
    /\ Fetch(<<agent, cwd>>)
    /\ UNCHANGED <<browser, listing, tasks, results, reader>>

\* The cache drops what nobody observes.
Collect(k) ==
    /\ k # <<agent, cwd>> /\ listing[k] # None
    /\ listing' = [listing EXCEPT ![k] = None]
    /\ UNCHANGED <<browser, awaited, server>>

\* The answer reaches the browser, if that still waits for it.
ReceiveAnswer(c) ==
    /\ calls[c].phase \in {"ok", "failed"}
    /\ calls' = [calls EXCEPT ![c] = NoCall]
    /\ awaited' = IF c = awaited THEN None ELSE awaited
    /\ listing' = IF c = awaited /\ calls[c].phase = "ok"
                  THEN [listing EXCEPT ![<<agent, cwd>>] = Head(calls[c].ch)] ELSE listing
    /\ UNCHANGED <<browser, tasks, results, reader>>

-----------------------------------------------------------------------------
(* handleBrowseAgent and BrowsePath *)

Phase(c, from, to) ==
    /\ calls[c].phase = from
    /\ calls' = [calls EXCEPT ![c].phase = to]
    /\ UNCHANGED <<browser, listing, awaited, results, reader>>

\* The agent is connected and the caller enters the table.
Register(c) == Phase(c, "sent", "registered") /\ UNCHANGED tasks

\* No connection, or the request never arrives.
RefuseBrowse(c) == Phase(c, "sent", "failed") /\ UNCHANGED tasks

\* The message is queued for the agent, or the buffer is full.
Post(c) ==
    \/ Phase(c, "registered", "waiting") /\ tasks' = tasks \cup {[call |-> c, key |-> calls[c].key]}
    \/ Phase(c, "registered", "failed") /\ UNCHANGED tasks

\* One of the two ready cases of the select; the deferred delete follows.
Return(c) ==
    /\ calls[c].ch # <<>>
    /\ Phase(c, "waiting", IF Head(calls[c].ch) = None THEN "failed" ELSE "ok")
    /\ UNCHANGED tasks

\* Eight seconds have passed.
Timeout(c) == Phase(c, "waiting", "failed") /\ UNCHANGED tasks

-----------------------------------------------------------------------------
(* The agent, and the reader of its connection *)

\* handleBrowse: the goroutines of several requests end in any order.
HandleBrowse(m) ==
    /\ tasks' = tasks \ {m}
    /\ \E answer \in {m.key, None} :
        results' = results \cup {[call |-> m.call, key |-> m.key, answer |-> answer]}
    /\ UNCHANGED <<browser, listing, awaited, calls, reader>>

\* Faulty variant: the answer goes to whoever asks this agent.
DeliverToAnyone(r) ==
    /\ reader[r.key[1]] = None
    /\ results' = results \ {r}
    /\ \E c \in browseReqs :
        /\ calls[c].key[1] = r.key[1]
        /\ reader' = [reader EXCEPT ![r.key[1]] = [r EXCEPT !.call = c]]
    /\ UNCHANGED <<browser, listing, awaited, calls, tasks>>

\* The lookup of DeliverBrowseResult, under the lock.
Deliver(r) ==
    /\ reader[r.key[1]] = None
    /\ results' = results \ {r}
    /\ reader' = IF r.call \in browseReqs THEN [reader EXCEPT ![r.key[1]] = r] ELSE reader
    /\ UNCHANGED <<browser, listing, awaited, calls, tasks>>

\* Faulty variant: the channel has no buffer.
RoomInHand(call) == call.phase = "waiting" /\ call.ch = <<>>

\* The channel holds one answer.
Room(call) == call.ch = <<>>

\* The send of DeliverBrowseResult, after the lock; a caller that has left
\* leaves its channel to it.
Put(a) ==
    /\ reader[a] # None /\ Room(calls[reader[a].call])
    /\ reader' = [reader EXCEPT ![a] = None]
    /\ calls' = [calls EXCEPT ![reader[a].call].ch =
                    IF calls[reader[a].call].phase = "free" THEN @ ELSE Append(@, reader[a].answer)]
    /\ UNCHANGED <<browser, listing, awaited, tasks, results>>

\* The agent's connection is lost, and with it what is on its way.
Disconnect(a) ==
    /\ tasks' = {m \in tasks : m.key[1] # a}
    /\ results' = {r \in results : r.key[1] # a}
    /\ <<tasks, results>>' # <<tasks, results>>
    /\ UNCHANGED <<browser, listing, awaited, calls, reader>>

-----------------------------------------------------------------------------
User ==
    \/ \E a \in Agents : OpenBrowser(a)
    \/ \E d \in Dirs : Navigate(d)
    \/ \E i \in 1 .. Len(Path[cwd]) : GoUp(i)
    \/ CloseBrowser \/ GoBack \/ GoRoot \/ RefetchListing
    \/ \E k \in Keys : Collect(k)

Handler(c) == Register(c) \/ RefuseBrowse(c) \/ Post(c) \/ Return(c) \/ Timeout(c) \/ ReceiveAnswer(c)

BrowseNext ==
    \/ User
    \/ \E c \in Calls : Handler(c)
    \/ \E m \in tasks : HandleBrowse(m)
    \/ \E r \in results : Deliver(r)
    \/ \E a \in Agents : Put(a) \/ Disconnect(a)

BrowseSpec == BrowseInit /\ [][BrowseNext]_browseVars

-----------------------------------------------------------------------------
(* Properties *)

\* What a directory is shown to hold is what that agent found in that directory,
\* whatever was asked before, answered late, aborted or asked again: no answer
\* reaches another call, another agent or another directory.
ShownIsOf ==
    /\ \A k \in Keys : listing[k] \in {k, None}
    /\ \A c \in Calls : \A i \in 1 .. Len(calls[c].ch) : calls[c].ch[i] \in {calls[c].key, None}

\* The reader of a connection, which serves every other message of its agent, is
\* never held by a caller that has given up: there is room for what it sends,
\* whoever timed out, answered or was lost between its lookup and its send.
ReaderNeverWaits == \A a \in Agents : reader[a] # None => Room(calls[reader[a].call])
=============================================================================
