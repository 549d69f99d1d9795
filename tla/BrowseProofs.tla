------------------------------- MODULE BrowseProofs -------------------------------
(***************************************************************************)
(* Theorems about Browse, for every set of agents, directories and calls.  *)
(***************************************************************************)
EXTENDS Browse, TLAPS, SequenceTheorems

USE BrowseAssumption DEF BrowseAssumption

Phases == {"free", "sent", "registered", "waiting", "ok", "failed"}

-----------------------------------------------------------------------------
(* The invariant *)

\* The browser waits for a call of what it shows.
AwaitedInv ==
    awaited # None => /\ agent # None /\ calls[awaited].phase # "free"
                      /\ calls[awaited].key = <<agent, cwd>>

\* A call that is not free asks for a key, and holds an answer to it only.
CallInv ==
    \A c \in Calls :
        /\ calls[c].phase # "free" => calls[c].key \in Keys
        /\ calls[c].phase \in {"free", "sent", "registered"} => calls[c].ch = <<>>
        /\ calls[c].phase = "ok" => calls[c].ch # <<>> /\ calls[c].ch[1] = calls[c].key

\* A message is about the key of its call, as long as that call lasts.
About(m) == calls[m.call].phase # "free" => m.key = calls[m.call].key

MessageInv ==
    /\ \A m \in tasks : About(m)
    /\ \A r \in results : About(r) /\ r.answer \in {r.key, None}
    /\ \A a \in Agents : reader[a] # None => About(reader[a]) /\ reader[a].answer \in {reader[a].key, None}

\* A message about call c is somewhere.
Spoken(c) ==
    \/ \E m \in tasks \cup results : m.call = c
    \/ \E a \in Agents : reader[a] # None /\ reader[a].call = c

\* A call is answered once: it is in one message, or its answer is in its channel.
OneAnswer ==
    /\ \A m, n \in tasks \cup results : m.call = n.call => m = n
    /\ tasks \cap results = {}
    /\ \A a \in Agents : reader[a] # None =>
            /\ \A m \in tasks \cup results : m.call # reader[a].call
            /\ \A b \in Agents \ {a} : reader[b] # None => reader[b].call # reader[a].call
    /\ \A c \in Calls :
            calls[c].ch # <<>> \/ calls[c].phase \in {"sent", "registered"} => ~Spoken(c)

BrowseInv == BrowseTypeOK /\ AwaitedInv /\ CallInv /\ MessageInv /\ OneAnswer /\ ShownIsOf

-----------------------------------------------------------------------------
(* Steps of the browser *)

LEMMA RootIsDir == Root \in Dirs
BY DEF Root

LEMMA InitInv == BrowseInit => BrowseInv
<1>1. SUFFICES ASSUME BrowseInit PROVE BrowseInv
    OBVIOUS
<1>2. /\ \A c \in Calls : calls[c] = NoCall
      /\ tasks = {} /\ results = {} /\ \A a \in Agents : reader[a] = None
    BY <1>1 DEF BrowseInit
<1>3. BrowseTypeOK
    BY <1>1, RootIsDir DEF BrowseInit, BrowseTypeOK, NoCall, Answers, Results
<1>4. AwaitedInv /\ MessageInv
    BY <1>1, <1>2 DEF BrowseInit, AwaitedInv, MessageInv
<1>5. CallInv
    BY <1>2 DEF CallInv, NoCall
<1>6. OneAnswer
    BY <1>2 DEF OneAnswer, Spoken, NoCall
<1>7. ShownIsOf
    <2>1. \A k \in Keys : listing[k] \in {k, None}
        BY <1>1 DEF BrowseInit
    <2>2. \A c \in Calls : calls[c].ch = <<>>
        BY <1>2 DEF NoCall
    <2>3. \A c \in Calls : \A i \in 1 .. Len(calls[c].ch) : FALSE
        BY <2>2
    <2>4. QED BY <2>1, <2>3 DEF ShownIsOf
<1>8. QED BY <1>3, <1>4, <1>5, <1>6, <1>7 DEF BrowseInv

\* What asking for key k does to the calls.
Asks(k) ==
    \E c \in Calls :
        /\ Fresh(c) /\ awaited' = c
        /\ calls' = [calls EXCEPT ![c] = [key |-> k, phase |-> "sent", ch |-> <<>>]]

LEMMA FetchAsks == ASSUME NEW k, Fetch(k) PROVE Asks(k)
BY ZenonT(40) DEF Fetch, Asks, NoCall

\* A browser that asks, or stops waiting, changes nothing about older calls.
LEMMA TurnStep ==
    ASSUME BrowseInv, UNCHANGED <<listing, tasks, results, reader>>,
           agent' \in Agents \cup {None}, cwd' \in Dirs, trail' \in Seq(Dirs),
           \/ UNCHANGED <<agent, cwd, awaited, calls>>
           \/ awaited' = None /\ UNCHANGED calls
           \/ agent' # None /\ Asks(<<agent', cwd'>>)
    PROVE  BrowseInv'
<1> USE DEF BrowseInv
<1>1. CASE UNCHANGED <<awaited, calls>> /\ UNCHANGED <<agent, cwd>>
    BY <1>1 DEF BrowseTypeOK, AwaitedInv, CallInv, MessageInv, About, OneAnswer, Spoken, ShownIsOf
<1>2. CASE awaited' = None /\ UNCHANGED calls
    BY <1>2 DEF BrowseTypeOK, AwaitedInv, CallInv, MessageInv, About, OneAnswer, Spoken, ShownIsOf
<1>3. CASE agent' # None /\ Asks(<<agent', cwd'>>)
    <2> DEFINE k == <<agent', cwd'>>
    <2>1. PICK c \in Calls : /\ Fresh(c) /\ awaited' = c
                             /\ calls' = [calls EXCEPT ![c] = [key |-> k, phase |-> "sent", ch |-> <<>>]]
        BY <1>3 DEF Asks
    <2>2. k \in Keys
        BY <1>3 DEF Keys
    <2> HIDE DEF k
    <2>3. calls'[c] = [key |-> k, phase |-> "sent", ch |-> <<>>]
        BY <2>1 DEF BrowseTypeOK
    <2>call. calls'[c].key = k /\ calls'[c].phase = "sent" /\ calls'[c].ch = <<>>
        BY <2>3
    <2>4. \A d \in Calls \ {c} : calls'[d] = calls[d]
        BY <2>1 DEF BrowseTypeOK
    <2>5. ~Spoken(c) /\ ~Spoken(c)'
        BY <2>1 DEF Fresh, Spoken
    <2>6. BrowseTypeOK'
        <3>1. calls' \in [Calls -> [key : Keys \cup {None}, ch : Seq(Answers), phase : Phases]]
            BY <2>1, <2>2 DEF BrowseTypeOK, Phases
        <3>2. awaited' \in Calls \cup {None}
            BY <2>1
        <3>3. QED BY <3>1, <3>2 DEF BrowseTypeOK, Phases
    <2>7. AwaitedInv'
        BY <1>3, <2>1, <2>3 DEF AwaitedInv, k
    <2>8. CallInv'
        BY <2>2, <2>call, <2>4 DEF CallInv
    <2>9. MessageInv'
        <3>1. \A m : m.call \in Calls \ {c} /\ About(m) => About(m)'
            BY <2>4 DEF About
        <3>2. \A m \in tasks \cup results : m.call \in Calls \ {c}
            BY <2>5 DEF Spoken, BrowseTypeOK, Results
        <3>3. \A a \in Agents : reader[a] # None => reader[a].call \in Calls \ {c}
            BY <2>5 DEF Spoken, BrowseTypeOK, Results
        <3>4. QED BY <3>1, <3>2, <3>3 DEF MessageInv
    <2>10. OneAnswer'
        <3>1. \A d \in Calls : Spoken(d)' <=> Spoken(d)
            BY DEF Spoken
        <3>2. QED BY <2>3, <2>4, <2>5, <3>1 DEF OneAnswer
    <2>11. ShownIsOf'
        <3>1. \A i \in 1 .. Len(calls'[c].ch) : FALSE
            BY <2>call
        <3>2. QED BY <2>4, <3>1 DEF ShownIsOf
    <2>12. QED BY <2>6, <2>7, <2>8, <2>9, <2>10, <2>11
<1>4. QED BY <1>1, <1>2, <1>3

\* Look is such a step.
LEMMA LookTurns ==
    ASSUME NEW a \in Agents \cup {None}, NEW d \in Dirs, Look(a, d)
    PROVE  /\ agent' = a /\ cwd' = d /\ UNCHANGED <<listing, tasks, results, reader>>
           /\ \/ UNCHANGED <<agent, cwd, awaited, calls>>
              \/ awaited' = None /\ UNCHANGED calls
              \/ agent' # None /\ Asks(<<agent', cwd'>>)
<1>1. agent' = a /\ cwd' = d /\ UNCHANGED <<listing, tasks, results, reader>>
    BY DEF Look
<1>2. CASE <<a, d>> = <<agent, cwd>>
    BY <1>1, <1>2 DEF Look
<1>3. CASE <<a, d>> # <<agent, cwd>>
    BY <1>1, <1>3, FetchAsks DEF Look
<1>4. QED BY <1>1, <1>2, <1>3

\* Every step of the user is one.
LEMMA UserStep == BrowseInv /\ User => BrowseInv'
<1>1. SUFFICES ASSUME BrowseInv, User PROVE BrowseInv'
    OBVIOUS
<1>2. agent \in Agents \cup {None} /\ cwd \in Dirs /\ trail \in Seq(Dirs)
    BY <1>1 DEF BrowseInv, BrowseTypeOK
<1>3. ASSUME NEW a \in Agents \cup {None}, NEW d \in Dirs, Look(a, d), trail' \in Seq(Dirs)
      PROVE  BrowseInv'
    BY <1>1, <1>3, LookTurns, TurnStep
<1>4. ASSUME NEW a \in Agents, OpenBrowser(a) PROVE BrowseInv'
    BY <1>2, <1>3, <1>4, RootIsDir DEF OpenBrowser
<1>5. CloseBrowser \/ GoRoot => BrowseInv'
    BY <1>2, <1>3, RootIsDir DEF CloseBrowser, GoRoot
<1>6. ASSUME NEW d \in Dirs, Navigate(d) PROVE BrowseInv'
    BY <1>2, <1>3, <1>6 DEF Navigate
<1>7. ASSUME GoBack PROVE BrowseInv'
    <2>1. trail[Len(trail)] \in Dirs /\ SubSeq(trail, 1, Len(trail) - 1) \in Seq(Dirs)
        BY <1>2, <1>7 DEF GoBack
    <2>2. QED BY <1>2, <1>3, <1>7, <2>1 DEF GoBack
<1>8. ASSUME NEW i \in 1 .. Len(Path[cwd]), GoUp(i) PROVE BrowseInv'
    <2>1. Path[cwd][i] \in Dirs
        BY <1>2
    <2>2. QED BY <1>2, <1>3, <1>8, <2>1 DEF GoUp
<1>9. ASSUME RefetchListing PROVE BrowseInv'
    <2>1. agent' # None /\ Asks(<<agent', cwd'>>)
        BY <1>9, FetchAsks DEF RefetchListing, browser
    <2>2. UNCHANGED <<browser, listing, tasks, results, reader>>
        BY <1>9 DEF RefetchListing
    <2>3. QED BY <1>1, <1>2, <2>1, <2>2, TurnStep DEF browser
<1>10. ASSUME NEW k \in Keys, Collect(k) PROVE BrowseInv'
    <2>1. UNCHANGED <<agent, cwd, trail, awaited, calls, tasks, results, reader>>
        BY <1>10 DEF Collect, browser, server
    <2>2. listing' = [listing EXCEPT ![k] = None]
        BY <1>10 DEF Collect
    <2>3. QED BY <1>1, <2>1, <2>2 DEF BrowseInv, BrowseTypeOK, Answers, AwaitedInv, CallInv, MessageInv,
                    About, OneAnswer, Spoken, ShownIsOf
<1>11. QED BY <1>1, <1>4, <1>5, <1>6, <1>7, <1>8, <1>9, <1>10 DEF User

-----------------------------------------------------------------------------
(* Steps of the handlers *)

\* The phase of a call changes; no message is lost or sent.
LEMMA PhaseStep ==
    ASSUME BrowseInv, NEW c \in Calls, NEW to \in {"registered", "ok", "failed"},
           calls[c].phase \in {"sent", "registered", "waiting"},
           to = "registered" => calls[c].phase = "sent",
           to = "ok" => calls[c].ch # <<>> /\ calls[c].ch[1] # None,
           calls' = [calls EXCEPT ![c].phase = to],
           UNCHANGED <<browser, listing, awaited, tasks, results, reader>>
    PROVE  BrowseInv'
<1> USE DEF BrowseInv
<1>1. calls'[c] = [calls[c] EXCEPT !.phase = to] /\ \A d \in Calls \ {c} : calls'[d] = calls[d]
    BY DEF BrowseTypeOK
<1>2. calls'[c].phase = to /\ calls'[c].ch = calls[c].ch /\ calls'[c].key = calls[c].key
    BY <1>1 DEF BrowseTypeOK
<1>3. BrowseTypeOK'
    <2>1. calls' \in [Calls -> [key : Keys \cup {None}, ch : Seq(Answers), phase : Phases]]
        BY ZenonT(40) DEF BrowseTypeOK, Phases
    <2>2. QED BY <2>1 DEF BrowseTypeOK, Phases, browser
<1>4. AwaitedInv'
    BY <1>1, <1>2 DEF AwaitedInv, BrowseTypeOK, browser
<1>5. CallInv'
    <2>1. to = "ok" => calls[c].ch[1] = calls[c].key
        <3>1. SUFFICES ASSUME to = "ok" PROVE calls[c].ch[1] = calls[c].key
            OBVIOUS
        <3>2. 1 \in 1 .. Len(calls[c].ch)
            BY <3>1 DEF BrowseTypeOK
        <3>3. QED BY <3>1, <3>2 DEF ShownIsOf
    <2>2. QED BY <1>1, <1>2, <2>1 DEF CallInv
<1>6. MessageInv'
    <2>1. \A m : m.call \in Calls /\ About(m) => About(m)'
        BY <1>1, <1>2 DEF About
    <2>2. \A m \in tasks \cup results : m.call \in Calls
        BY DEF BrowseTypeOK, Results
    <2>3. \A a \in Agents : reader[a] # None => reader[a].call \in Calls
        BY DEF BrowseTypeOK, Results
    <2>4. QED BY <2>1, <2>2, <2>3 DEF MessageInv
<1>7. OneAnswer'
    BY <1>1, <1>2 DEF OneAnswer, Spoken
<1>8. ShownIsOf'
    BY <1>1, <1>2 DEF ShownIsOf
<1>9. QED BY <1>3, <1>4, <1>5, <1>6, <1>7, <1>8

\* A handler never mixes up what it was asked and what it answers.
LEMMA HandlerStep == ASSUME BrowseInv, NEW c \in Calls, Handler(c) PROVE BrowseInv'
<1> USE DEF BrowseInv
<1>1. Register(c) \/ RefuseBrowse(c) \/ Timeout(c) => BrowseInv'
    BY PhaseStep DEF Register, RefuseBrowse, Timeout, Phase
<1>2. ASSUME Return(c) PROVE BrowseInv'
    <2>1. calls[c].ch # <<>> /\ Head(calls[c].ch) = calls[c].ch[1]
        BY <1>2 DEF Return, BrowseTypeOK
    <2>2. QED BY <1>2, <2>1, PhaseStep DEF Return, Phase
<1>3. ASSUME Post(c) PROVE BrowseInv'
    <2>1. CASE Phase(c, "registered", "failed") /\ UNCHANGED tasks
        BY <2>1, PhaseStep DEF Phase
    <2>m. PICK m : m = [call |-> c, key |-> calls[c].key]
        OBVIOUS
    <2>2. CASE Phase(c, "registered", "waiting") /\ tasks' = tasks \cup {m}
        <3>1. /\ calls[c].phase = "registered" /\ calls[c].ch = <<>> /\ calls[c].key \in Keys
              /\ calls' = [calls EXCEPT ![c].phase = "waiting"]
              /\ UNCHANGED <<browser, listing, awaited, results, reader>>
            BY <2>2 DEF Phase, CallInv
        <3>2. calls'[c] = [calls[c] EXCEPT !.phase = "waiting"] /\ \A d \in Calls \ {c} : calls'[d] = calls[d]
            BY <3>1 DEF BrowseTypeOK
        <3>3. calls'[c].phase = "waiting" /\ calls'[c].ch = <<>> /\ calls'[c].key = calls[c].key
            BY <3>1, <3>2 DEF BrowseTypeOK
        <3>4. ~Spoken(c)
            BY <3>1 DEF OneAnswer
        <3>5. m \in [call : Calls, key : Keys] /\ m.call = c /\ m.key = calls[c].key
            BY <2>m, <3>1
        <3>6. BrowseTypeOK'
            <4>1. calls' \in [Calls -> [key : Keys \cup {None}, ch : Seq(Answers), phase : Phases]]
                BY <3>1 DEF BrowseTypeOK, Phases
            <4>2. tasks' \subseteq [call : Calls, key : Keys]
                BY <2>2, <3>5 DEF BrowseTypeOK
            <4>3. QED BY <3>1, <4>1, <4>2 DEF BrowseTypeOK, Phases, browser
        <3>7. AwaitedInv'
            BY <3>1, <3>2, <3>3 DEF AwaitedInv, BrowseTypeOK, browser
        <3>8. CallInv'
            BY <3>1, <3>2, <3>3 DEF CallInv
        <3>9. MessageInv'
            <4>1. \A n : n.call \in Calls /\ About(n) => About(n)'
                BY <3>1, <3>2, <3>3 DEF About
            <4>2. About(m)'
                BY <3>3, <3>5 DEF About
            <4>3. \A n \in tasks \cup results : n.call \in Calls
                BY DEF BrowseTypeOK, Results
            <4>4. \A a \in Agents : reader[a] # None => reader[a].call \in Calls
                BY DEF BrowseTypeOK, Results
            <4>5. QED BY <2>2, <3>1, <4>1, <4>2, <4>3, <4>4 DEF MessageInv
        <3>10. OneAnswer'
            <4>1. \A d \in Calls \ {c} : Spoken(d)' <=> Spoken(d)
                BY <2>2, <3>1, <3>5 DEF Spoken
            <4>2. m \notin results /\ m \notin tasks
                BY <3>4, <3>5 DEF Spoken
            <4>3. QED BY <2>2, <3>1, <3>2, <3>3, <3>4, <3>5, <4>1, <4>2 DEF OneAnswer, Spoken
        <3>11. ShownIsOf'
            BY <3>1, <3>2, <3>3 DEF ShownIsOf
        <3>12. QED BY <3>6, <3>7, <3>8, <3>9, <3>10, <3>11
    <2>3. QED BY <1>3, <2>1, <2>2, <2>m DEF Post
<1>4. ASSUME ReceiveAnswer(c) PROVE BrowseInv'
    <2>1. /\ calls[c].phase \in {"ok", "failed"} /\ calls' = [calls EXCEPT ![c] = NoCall]
          /\ awaited' = IF c = awaited THEN None ELSE awaited
          /\ UNCHANGED <<agent, cwd, trail, tasks, results, reader>>
        BY <1>4 DEF ReceiveAnswer, browser
    <2>2. calls'[c] = NoCall /\ \A d \in Calls \ {c} : calls'[d] = calls[d]
        BY <2>1 DEF BrowseTypeOK
    <2>3. calls'[c].phase = "free" /\ calls'[c].ch = <<>>
        BY <2>2 DEF NoCall
    <2>4. \A k \in Keys : listing'[k] \in {k, None}
        <3>1. CASE c = awaited /\ calls[c].phase = "ok"
            <4>1. Head(calls[c].ch) = <<agent, cwd>>
                BY <3>1 DEF AwaitedInv, CallInv, BrowseTypeOK
            <4>2. listing' = [listing EXCEPT ![<<agent, cwd>>] = Head(calls[c].ch)]
                BY <1>4, <3>1 DEF ReceiveAnswer
            <4>3. QED BY <4>1, <4>2 DEF ShownIsOf, BrowseTypeOK
        <3>2. CASE ~(c = awaited /\ calls[c].phase = "ok")
            BY <1>4, <3>2 DEF ReceiveAnswer, ShownIsOf
        <3>3. QED BY <3>1, <3>2
    <2>5. listing' \in [Keys -> Answers]
        <3>1. DOMAIN listing' = Keys /\ listing' = [k \in Keys |-> listing'[k]]
            BY <1>4 DEF ReceiveAnswer, BrowseTypeOK
        <3>2. QED BY <2>4, <3>1 DEF Answers
    <2>6. BrowseTypeOK'
        <3>1. calls' \in [Calls -> [key : Keys \cup {None}, ch : Seq(Answers), phase : Phases]]
            BY <2>1 DEF BrowseTypeOK, Phases, NoCall
        <3>2. QED BY <2>1, <2>5, <3>1 DEF BrowseTypeOK, Phases
    <2>7. AwaitedInv'
        BY <2>1, <2>2 DEF AwaitedInv, BrowseTypeOK
    <2>8. CallInv'
        BY <2>2, <2>3 DEF CallInv
    <2>9. MessageInv'
        <3>1. \A m : m.call \in Calls /\ About(m) => About(m)'
            BY <2>2, <2>3 DEF About
        <3>2. \A m \in tasks \cup results : m.call \in Calls
            BY DEF BrowseTypeOK, Results
        <3>3. \A a \in Agents : reader[a] # None => reader[a].call \in Calls
            BY DEF BrowseTypeOK, Results
        <3>4. QED BY <2>1, <3>1, <3>2, <3>3 DEF MessageInv
    <2>10. OneAnswer'
        BY <2>1, <2>2, <2>3 DEF OneAnswer, Spoken
    <2>11. ShownIsOf'
        <3>1. \A d \in Calls : \A i \in 1 .. Len(calls'[d].ch) : calls'[d].ch[i] \in {calls'[d].key, None}
            BY <2>2, <2>3 DEF ShownIsOf
        <3>2. QED BY <2>4, <3>1 DEF ShownIsOf
    <2>12. QED BY <2>6, <2>7, <2>8, <2>9, <2>10, <2>11
<1>5. QED BY <1>1, <1>2, <1>3, <1>4 DEF Handler

-----------------------------------------------------------------------------
(* Steps of the agent and of the reader *)

\* The agent's answer replaces its task.
LEMMA AgentStep == ASSUME BrowseInv, NEW m \in tasks, HandleBrowse(m) PROVE BrowseInv'
<1> USE DEF BrowseInv
<1>1. PICK answer \in {m.key, None} :
        results' = results \cup {[call |-> m.call, key |-> m.key, answer |-> answer]}
    BY DEF HandleBrowse
<1> DEFINE r == [call |-> m.call, key |-> m.key, answer |-> answer]
<1>2. tasks' = tasks \ {m} /\ results' = results \cup {r}
      /\ UNCHANGED <<agent, cwd, trail, listing, awaited, calls, reader>>
    BY <1>1 DEF HandleBrowse, browser
<1>3. m.call \in Calls /\ m.key \in Keys
    BY DEF BrowseTypeOK
<1>4. r \in Results /\ r.call = m.call /\ r.key = m.key /\ r.answer \in {m.key, None}
    BY <1>3 DEF Results, Answers
<1> HIDE DEF r
<1>5. BrowseTypeOK'
    BY <1>2, <1>4 DEF BrowseTypeOK
<1>6. AwaitedInv' /\ CallInv' /\ ShownIsOf'
    BY <1>2 DEF AwaitedInv, CallInv, ShownIsOf
<1>7. MessageInv'
    BY <1>2, <1>4 DEF MessageInv, About
<1>8. OneAnswer'
    <2>1. \A c \in Calls : Spoken(c)' => Spoken(c)
        BY <1>2, <1>4 DEF Spoken
    <2>2. \A n \in tasks' : n.call # r.call
        BY <1>2, <1>4 DEF OneAnswer
    <2>3. \A n \in results : n.call # r.call
        BY <1>2, <1>4 DEF OneAnswer
    <2>4. \A a \in Agents : reader[a] # None => reader[a].call # r.call
        BY <1>4 DEF OneAnswer
    <2>5. \A n, o \in tasks' \cup results' : n.call = o.call => n = o
        BY <1>2, <2>2, <2>3 DEF OneAnswer
    <2>6. tasks' \cap results' = {}
        BY <1>2, <2>2 DEF OneAnswer
    <2>7. \A a \in Agents : reader[a] # None => \A n \in tasks' \cup results' : n.call # reader[a].call
        BY <1>2, <2>4 DEF OneAnswer
    <2>8. QED BY <1>2, <2>1, <2>5, <2>6, <2>7 DEF OneAnswer
<1>9. QED BY <1>5, <1>6, <1>7, <1>8

\* The reader takes a message, or drops it.
LEMMA DeliverStep == ASSUME BrowseInv, NEW r \in results, Deliver(r) PROVE BrowseInv'
<1> USE DEF BrowseInv
<1>1. /\ results' = results \ {r} /\ reader[r.key[1]] = None
      /\ UNCHANGED <<agent, cwd, trail, listing, awaited, calls, tasks>>
    BY DEF Deliver, browser
<1>2. r \in Results /\ r.key[1] \in Agents
    BY DEF BrowseTypeOK, Results, Keys
<1>3. \/ reader' = reader
      \/ reader' = [reader EXCEPT ![r.key[1]] = r]
    BY DEF Deliver
<1>4. \A a \in Agents : reader'[a] = reader[a] \/ (reader'[a] = r /\ a = r.key[1])
    BY <1>2, <1>3 DEF BrowseTypeOK
<1>5. BrowseTypeOK'
    <2>1. reader' \in [Agents -> Results \cup {None}]
        BY <1>2, <1>3 DEF BrowseTypeOK
    <2>2. QED BY <1>1, <2>1 DEF BrowseTypeOK
<1>6. AwaitedInv' /\ CallInv' /\ ShownIsOf'
    BY <1>1 DEF AwaitedInv, CallInv, ShownIsOf
<1>7. MessageInv'
    BY <1>1, <1>4 DEF MessageInv, About
<1>8. OneAnswer'
    <2>1. \A c \in Calls : Spoken(c)' => Spoken(c)
        BY <1>1, <1>4 DEF Spoken
    <2>2. \A n \in tasks' \cup results' : n.call # r.call
        BY <1>1 DEF OneAnswer
    <2>3. \A a \in Agents : reader[a] # None => reader[a].call # r.call
        BY DEF OneAnswer
    <2>4. \A a \in Agents : reader'[a] # None => \A n \in tasks' \cup results' : n.call # reader'[a].call
        BY <1>1, <1>4, <2>2 DEF OneAnswer
    <2>5. \A a, b \in Agents : a # b /\ reader'[a] # None /\ reader'[b] # None
                => reader'[a].call # reader'[b].call
        BY <1>4, <2>3 DEF OneAnswer
    <2>6. (\A n, o \in tasks' \cup results' : n.call = o.call => n = o) /\ tasks' \cap results' = {}
        BY <1>1 DEF OneAnswer
    <2>7. QED BY <1>1, <2>1, <2>4, <2>5, <2>6 DEF OneAnswer
<1>9. QED BY <1>5, <1>6, <1>7, <1>8

\* The reader's send finds its channel empty.
LEMMA RoomForAnswer == BrowseInv => ReaderNeverWaits
BY DEF BrowseInv, OneAnswer, Spoken, ReaderNeverWaits, Room, BrowseTypeOK, Results

\* The answer enters the channel of the call it is about.
LEMMA PutStep == ASSUME BrowseInv, NEW a \in Agents, Put(a) PROVE BrowseInv'
<1> USE DEF BrowseInv
<1>c. PICK c : c = reader[a].call
    OBVIOUS
<1>s. PICK s : s = IF calls[c].phase = "free" THEN calls[c].ch ELSE Append(calls[c].ch, reader[a].answer)
    OBVIOUS
<1>1. /\ reader[a] # None /\ reader[a] \in Results /\ c \in Calls
      /\ reader[a].answer \in {reader[a].key, None} /\ About(reader[a])
    BY <1>c DEF Put, BrowseTypeOK, Results, MessageInv
<1>2. /\ calls[c].ch = <<>>
      /\ reader' = [reader EXCEPT ![a] = None] /\ calls' = [calls EXCEPT ![c].ch = s]
      /\ UNCHANGED <<agent, cwd, trail, listing, awaited, tasks, results>>
    BY <1>c, <1>s DEF Put, Room, browser
<1>3. Spoken(c)
    BY <1>1, <1>c DEF Spoken
<1>4. calls[c].phase \notin {"sent", "registered", "ok"}
    BY <1>1, <1>2, <1>3 DEF OneAnswer, CallInv
<1>5. reader[a].answer \in Answers
    BY <1>1 DEF Results
<1>6. s \in Seq(Answers) /\ (calls[c].phase # "free" => s = <<reader[a].answer>>)
      /\ (calls[c].phase = "free" => s = <<>>)
    BY <1>1, <1>2, <1>5, <1>s DEF BrowseTypeOK
<1>7. calls'[c] = [calls[c] EXCEPT !.ch = s] /\ \A d \in Calls \ {c} : calls'[d] = calls[d]
    BY <1>1, <1>2 DEF BrowseTypeOK
<1>8. calls'[c].phase = calls[c].phase /\ calls'[c].key = calls[c].key /\ calls'[c].ch = s
    BY <1>1, <1>7 DEF BrowseTypeOK
<1>9. \A b \in Agents : IF b = a THEN reader'[b] = None ELSE reader'[b] = reader[b]
    BY <1>2 DEF BrowseTypeOK
<1>10. BrowseTypeOK'
    <2>1. calls' \in [Calls -> [key : Keys \cup {None}, ch : Seq(Answers), phase : Phases]]
        BY <1>2, <1>6 DEF BrowseTypeOK, Phases
    <2>2. reader' \in [Agents -> Results \cup {None}]
        BY <1>2 DEF BrowseTypeOK
    <2>3. QED BY <1>2, <2>1, <2>2 DEF BrowseTypeOK, Phases
<1>11. AwaitedInv'
    BY <1>2, <1>7, <1>8 DEF AwaitedInv, BrowseTypeOK
<1>12. CallInv'
    BY <1>4, <1>6, <1>7, <1>8, ZenonT(40) DEF CallInv
<1>13. MessageInv'
    <2>1. \A m : m.call \in Calls /\ About(m) => About(m)'
        BY <1>7, <1>8 DEF About
    <2>2. \A m \in tasks \cup results : m.call \in Calls
        BY DEF BrowseTypeOK, Results
    <2>3. \A b \in Agents : reader[b] # None => reader[b].call \in Calls
        BY DEF BrowseTypeOK, Results
    <2>4. QED BY <1>2, <1>9, <2>1, <2>2, <2>3 DEF MessageInv
<1>14. OneAnswer'
    <2>1. \A d \in Calls : Spoken(d)' => Spoken(d)
        BY <1>2, <1>9 DEF Spoken
    <2>2. ~Spoken(c)'
        BY <1>1, <1>2, <1>9, <1>c DEF Spoken, OneAnswer, BrowseTypeOK
    <2>3. QED BY <1>2, <1>4, <1>7, <1>8, <1>9, <2>1, <2>2 DEF OneAnswer
<1>15. ShownIsOf'
    <2>1. \A i \in 1 .. Len(s) : s[i] \in {calls[c].key, None}
        BY <1>1, <1>6, <1>c DEF About
    <2>2. QED BY <1>2, <1>7, <1>8, <2>1 DEF ShownIsOf
<1>16. QED BY <1>10, <1>11, <1>12, <1>13, <1>14, <1>15

\* A connection that ends takes messages away.
LEMMA DisconnectStep == ASSUME BrowseInv, NEW a \in Agents, Disconnect(a) PROVE BrowseInv'
<1> USE DEF BrowseInv
<1>1. /\ tasks' \subseteq tasks /\ results' \subseteq results
      /\ UNCHANGED <<agent, cwd, trail, listing, awaited, calls, reader>>
    BY DEF Disconnect, browser
<1>2. BrowseTypeOK' /\ AwaitedInv' /\ CallInv' /\ ShownIsOf'
    BY <1>1 DEF BrowseTypeOK, AwaitedInv, CallInv, ShownIsOf
<1>3. MessageInv'
    BY <1>1 DEF MessageInv, About
<1>4. OneAnswer'
    <2>1. \A c \in Calls : Spoken(c)' => Spoken(c)
        BY <1>1 DEF Spoken
    <2>2. QED BY <1>1, <2>1 DEF OneAnswer
<1>5. QED BY <1>2, <1>3, <1>4

-----------------------------------------------------------------------------
(* Theorems *)

THEOREM Inductive == BrowseSpec => []BrowseInv
<1>1. BrowseInv /\ [BrowseNext]_browseVars => BrowseInv'
    <2>1. SUFFICES ASSUME BrowseInv, [BrowseNext]_browseVars PROVE BrowseInv'
        OBVIOUS
    <2>2. CASE UNCHANGED browseVars
        BY <2>1, <2>2 DEF browseVars, browser, server, BrowseInv, BrowseTypeOK, AwaitedInv, CallInv, MessageInv,
                        About, OneAnswer, Spoken, ShownIsOf
    <2>3. CASE BrowseNext
        BY <2>1, <2>3, UserStep, HandlerStep, AgentStep, DeliverStep, PutStep, DisconnectStep DEF BrowseNext
    <2>4. QED BY <2>1, <2>2, <2>3
<1>2. QED BY InitInv, <1>1, PTL DEF BrowseSpec

\* Every variable of Browse keeps its type.
THEOREM TypeCorrect == BrowseSpec => []BrowseTypeOK
<1>1. BrowseInv => BrowseTypeOK
    BY DEF BrowseInv
<1>2. QED BY <1>1, Inductive, PTL

\* No answer reaches another call, agent or directory.
THEOREM ShownIsOfHolds == BrowseSpec => []ShownIsOf
<1>1. BrowseInv => ShownIsOf
    BY DEF BrowseInv
<1>2. QED BY <1>1, Inductive, PTL

\* The reader of a connection always finds room.
THEOREM ReaderNeverWaitsHolds == BrowseSpec => []ReaderNeverWaits
<1>1. QED BY RoomForAnswer, Inductive, PTL
=============================================================================
