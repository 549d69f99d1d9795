----------------------------- MODULE AgentUpdateProofs -----------------------------
(***************************************************************************)
(* Theorems about AgentUpdate, for every number of agents, requests,       *)
(* updates, files and parts of a download.                                 *)
(***************************************************************************)
EXTENDS AgentUpdate, TLAPS

USE AgentUpdateAssumption DEF AgentUpdateAssumption

\* The executable never has the temporary name.
NamesDiffer == tmp # exe

\* Only a download has a descriptor and an offset.
Descriptors ==
    \A u \in Updates : /\ ups[u].phase # "open" => ups[u].file = Nobody
                       /\ ups[u].phase = "open" => ups[u].file \in Files

\* As long as no two downloads overlapped there is one at most, and its file has
\* the temporary name and just the parts it has written.
OneDownload ==
    /\ \A u, v \in Updates : ups[u].phase = "open" /\ ups[v].phase = "open" => u = v
    /\ \A u \in Updates : ups[u].phase = "open" =>
            ups[u].file = tmp /\ content[tmp] = 1 .. ups[u].done

HostInv ==
    /\ NamesDiffer /\ Descriptors
    /\ ~overlapped => OneDownload
    /\ ExecutableWhole

UpdateInv == UpdateTypeOK /\ HostInv /\ ButtonRecovers

LEMMA InitInv == UpdateInit => UpdateInv
<1>1. SUFFICES ASSUME UpdateInit PROVE UpdateInv
    OBVIOUS
<1>2. UpdateTypeOK
    <2>1. content \in [Files -> SUBSET Whole]
        BY <1>1 DEF UpdateInit
    <2>2. NoUpdate \in [phase : {"none", "asked", "open", "renamed"}, file : Files \cup {Nobody}, done : 0 .. Parts]
        BY DEF NoUpdate
    <2>3. /\ reqs \in [Posts -> {NoRequest}] /\ timers \in [Rows -> 0 .. MaxTimers]
          /\ signals \in 0 .. MaxSignals
        BY <1>1 DEF UpdateInit
    <2>4. QED BY <1>1, <2>1, <2>2, <2>3 DEF UpdateInit, UpdateTypeOK
<1>3. \A u \in Updates : ups[u].phase = "none" /\ ups[u].file = Nobody
    BY <1>1 DEF UpdateInit, NoUpdate
<1>4. HostInv
    BY <1>1, <1>3 DEF UpdateInit, HostInv, NamesDiffer, Descriptors, OneDownload, ExecutableWhole, Whole
<1>5. ButtonRecovers
    BY <1>1 DEF UpdateInit, ButtonRecovers
<1>6. QED BY <1>2, <1>4, <1>5 DEF UpdateInv

-----------------------------------------------------------------------------
(* The page *)

\* The requests are records of this type.
Sent == [id : Rows, phase : {"sent", "ok", "failed"}, mine : BOOLEAN]
Reqs == {NoRequest} \cup Sent

\* A step of the page changes nothing of the host.
LEMMA PageKeepsHost == ASSUME HostInv, UNCHANGED hostVars PROVE HostInv'
BY DEF hostVars, HostInv, NamesDiffer, Descriptors, OneDownload, ExecutableWhole

LEMMA UpdateStep == ASSUME UpdateInv, NEW a \in Rows, Update(a) PROVE UpdateInv'
<1>1. PICK q \in Posts : /\ reqs[q] = NoRequest
                            /\ reqs' = [reqs EXCEPT ![q] = [id |-> a, phase |-> "sent", mine |-> TRUE]]
    BY DEF Update
<1>2. updatingId' = a /\ UNCHANGED <<updatedIds, timers, hostVars>>
    BY DEF Update
<1>3. reqs'[q].mine /\ reqs'[q].id = a
    BY <1>1 DEF UpdateInv, UpdateTypeOK
<1>4. UpdateTypeOK'
    BY <1>1, <1>2 DEF UpdateInv, UpdateTypeOK, hostVars
<1>5. ButtonRecovers'
    BY <1>2, <1>3 DEF UpdateInv, ButtonRecovers
<1>6. HostInv'
    BY <1>2, PageKeepsHost DEF UpdateInv
<1>7. QED BY <1>4, <1>5, <1>6 DEF UpdateInv

\* Requests change, none that the updating row waits for.
LEMMA RequestStep ==
    ASSUME UpdateInv, NEW q \in Posts, reqs[q].phase # "free",
           NEW p \in {"ok", "failed"}, reqs' = [reqs EXCEPT ![q].phase = p],
           UNCHANGED <<updatingId, updatedIds, timers, alive, ups, exe, tmp, content, unsynced, torn, overlapped>>,
           signals' \in 0 .. MaxSignals
    PROVE  UpdateInv'
<1>1. reqs \in [Posts -> Reqs] /\ reqs[q] \in Sent
    BY DEF UpdateInv, UpdateTypeOK, Reqs, Sent, NoRequest
<1>q. [reqs[q] EXCEPT !.phase = p] \in Sent /\ reqs'[q] = [reqs[q] EXCEPT !.phase = p]
      /\ \A r \in Posts \ {q} : reqs'[r] = reqs[r]
    BY <1>1 DEF Sent
<1>2. reqs' \in [Posts -> Reqs]
    BY <1>1, <1>q DEF Reqs
<1>3. \A r \in Posts : reqs'[r].mine = reqs[r].mine /\ reqs'[r].id = reqs[r].id
    BY <1>1, <1>q DEF Sent
<1>4. UpdateTypeOK'
    BY <1>2 DEF UpdateInv, UpdateTypeOK, Reqs, Sent
<1>5. ButtonRecovers'
    BY <1>3 DEF UpdateInv, ButtonRecovers
<1>6. HostInv'
    BY DEF UpdateInv, HostInv, NamesDiffer, Descriptors, OneDownload, ExecutableWhole
<1>7. QED BY <1>4, <1>5, <1>6 DEF UpdateInv

\* An answer frees its request, and the row that waits for it.
LEMMA AnswerStep ==
    ASSUME UpdateInv, NEW q \in Posts, UpdateSucceeded(q) \/ UpdateFailed(q) PROVE UpdateInv'
<1>1. /\ reqs' = [reqs EXCEPT ![q] = NoRequest] /\ UNCHANGED hostVars
      /\ reqs \in [Posts -> Reqs] /\ updatedIds \subseteq Rows /\ reqs[q] \in Sent
    BY DEF UpdateSucceeded, UpdateFailed, UpdateInv, UpdateTypeOK, Reqs, Sent, NoRequest
<1>2. reqs' \in [Posts -> Reqs] /\ \A r \in Posts \ {q} : reqs'[r] = reqs[r]
    BY <1>1 DEF Reqs
<1>3. HostInv'
    BY <1>1, PageKeepsHost DEF UpdateInv
<1>4. CASE ~reqs[q].mine
    <2>1. UNCHANGED <<updatingId, updatedIds, timers>>
        BY <1>4 DEF UpdateSucceeded, UpdateFailed
    <2>2. UpdateTypeOK'
        BY <1>1, <1>2, <2>1 DEF UpdateInv, UpdateTypeOK, hostVars, Reqs, Sent
    <2>3. ButtonRecovers'
        BY <1>2, <1>4, <2>1 DEF UpdateInv, ButtonRecovers
    <2>4. QED BY <1>3, <2>2, <2>3 DEF UpdateInv
<1>5. CASE reqs[q].mine /\ UpdateFailed(q)
    <2>1. updatingId' = Nobody /\ updatedIds' \subseteq updatedIds /\ UNCHANGED timers
        BY <1>5 DEF UpdateFailed
    <2>2. UpdateTypeOK'
        BY <1>1, <1>2, <2>1 DEF UpdateInv, UpdateTypeOK, hostVars, Reqs, Sent
    <2>3. ButtonRecovers'
        BY <2>1 DEF UpdateInv, ButtonRecovers
    <2>4. QED BY <1>3, <2>2, <2>3 DEF UpdateInv
<1>6. CASE reqs[q].mine /\ UpdateSucceeded(q)
    <2>1. PICK a : a = reqs[q].id
        OBVIOUS
    <2>2. /\ timers[a] < MaxTimers /\ updatingId' = Nobody /\ updatedIds' = updatedIds \cup {a}
          /\ timers' = [timers EXCEPT ![a] = @ + 1]
        BY <1>6, <2>1 DEF UpdateSucceeded
    <2>3. timers \in [Rows -> 0 .. MaxTimers]
        BY DEF UpdateInv, UpdateTypeOK
    <2>4. a \in Rows
        BY <1>1, <2>1 DEF Sent
    <2>5. timers' \in [Rows -> 0 .. MaxTimers] /\ timers'[a] > 0
          /\ \A b \in Rows \ {a} : timers'[b] = timers[b]
        BY <2>2, <2>3, <2>4
    <2>6. UpdateTypeOK'
        BY <1>1, <1>2, <2>2, <2>4, <2>5 DEF UpdateInv, UpdateTypeOK, hostVars, Reqs, Sent
    <2>7. ButtonRecovers'
        BY <1>1, <2>2, <2>5 DEF UpdateInv, ButtonRecovers
    <2>8. QED BY <1>3, <2>6, <2>7 DEF UpdateInv
<1>7. QED BY <1>4, <1>5, <1>6

LEMMA TimerStep == ASSUME UpdateInv, NEW a \in Rows, Timer(a) PROVE UpdateInv'
<1>1. /\ timers \in [Rows -> 0 .. MaxTimers] /\ timers[a] > 0
      /\ timers' = [timers EXCEPT ![a] = @ - 1] /\ updatedIds' = updatedIds \ {a}
      /\ UNCHANGED <<updatingId, reqs, hostVars>>
    BY DEF Timer, UpdateInv, UpdateTypeOK
<1>2. timers' \in [Rows -> 0 .. MaxTimers] /\ \A b \in Rows \ {a} : timers'[b] = timers[b]
    BY <1>1
<1>3. UpdateTypeOK'
    BY <1>1, <1>2 DEF UpdateInv, UpdateTypeOK, hostVars
<1>4. ButtonRecovers'
    <2>1. updatedIds \subseteq Rows
        BY DEF UpdateInv, UpdateTypeOK
    <2>2. QED BY <1>1, <1>2, <2>1 DEF UpdateInv, ButtonRecovers
<1>5. HostInv'
    BY <1>1, PageKeepsHost DEF UpdateInv
<1>6. QED BY <1>3, <1>4, <1>5 DEF UpdateInv

LEMMA RevisitStep == ASSUME UpdateInv, Revisit PROVE UpdateInv'
<1>1. /\ updatingId' = Nobody /\ updatedIds' = {} /\ timers' = [a \in Rows |-> 0]
      /\ reqs' = [q \in Posts |-> [reqs[q] EXCEPT !.mine = FALSE]] /\ UNCHANGED hostVars
    BY DEF Revisit
<1>2. reqs' \in [Posts -> Reqs]
    <2>1. ASSUME NEW r \in Sent PROVE [r EXCEPT !.mine = FALSE] \in Sent
        BY DEF Sent
    <2>2. [NoRequest EXCEPT !.mine = FALSE] = NoRequest
        <3> DEFINE Frees == [id : {Nobody}, phase : {"free"}, mine : {FALSE}]
        <3>1. \A f \in Frees : [f EXCEPT !.mine = FALSE] = f
            OBVIOUS
        <3>2. NoRequest \in Frees
            BY DEF NoRequest
        <3>3. QED BY <3>1, <3>2
    <2>3. ASSUME NEW q \in Posts PROVE [reqs[q] EXCEPT !.mine = FALSE] \in Reqs
        <3>1. reqs[q] = NoRequest \/ reqs[q] \in Sent
            BY DEF UpdateInv, UpdateTypeOK, Sent
        <3>2. CASE reqs[q] = NoRequest
            BY <2>2, <3>2 DEF Reqs
        <3>3. CASE reqs[q] \in Sent
            BY <2>1, <3>3 DEF Reqs
        <3>4. QED BY <3>1, <3>2, <3>3
    <2>4. QED BY <1>1, <2>3
<1>3. UpdateTypeOK'
    BY <1>1, <1>2 DEF UpdateInv, UpdateTypeOK, hostVars, Reqs, Sent
<1>4. ButtonRecovers'
    BY <1>1 DEF ButtonRecovers
<1>5. HostInv'
    BY <1>1, PageKeepsHost DEF UpdateInv
<1>6. QED BY <1>3, <1>4, <1>5 DEF UpdateInv

-----------------------------------------------------------------------------
(* The server *)

LEMMA ServerStep == ASSUME UpdateInv, NEW q \in Posts, Serve(q) \/ RefuseUpdate(q) PROVE UpdateInv'
<1>1. reqs[q].phase # "free" /\ signals \in 0 .. MaxSignals
    BY DEF Serve, RefuseUpdate, UpdateInv, UpdateTypeOK
<1>2. CASE Serve(q)
    <2>1. PICK p \in {"ok", "failed"} : reqs' = [reqs EXCEPT ![q].phase = p]
        BY <1>2 DEF Serve
    <2>2. signals' \in 0 .. MaxSignals
        BY <1>1, <1>2 DEF Serve
    <2>3. UNCHANGED <<updatingId, updatedIds, timers, alive, ups, exe, tmp, content, unsynced, torn, overlapped>>
        BY <1>2 DEF Serve
    <2>4. QED BY <1>1, <2>1, <2>2, <2>3, RequestStep
<1>3. CASE RefuseUpdate(q)
    <2>1. reqs' = [reqs EXCEPT ![q].phase = "failed"]
        BY <1>3 DEF RefuseUpdate
    <2>2. UNCHANGED <<updatingId, updatedIds, timers, signals, alive, ups, exe, tmp, content, unsynced, torn, overlapped>>
        BY <1>3 DEF RefuseUpdate, hostVars
    <2>3. QED BY <1>1, <2>1, <2>2, RequestStep
<1>4. QED BY <1>2, <1>3

-----------------------------------------------------------------------------
(* The host *)

HostType ==
    /\ signals \in 0 .. MaxSignals /\ alive \in BOOLEAN /\ overlapped \in BOOLEAN
    /\ ups \in [Updates -> [phase : {"none", "asked", "open", "renamed"},
                            file : Files \cup {Nobody}, done : 0 .. Parts]]
    /\ exe \in Files /\ tmp \in Files \cup {Nobody}
    /\ content \in [Files -> SUBSET Whole]
    /\ unsynced \subseteq Files /\ torn \in BOOLEAN

\* A step of the host changes nothing of the page.
LEMMA HostKeepsPage ==
    ASSUME UpdateInv, UNCHANGED pageVars, HostType', HostInv' PROVE UpdateInv'
<1>1. UNCHANGED <<updatingId, updatedIds, timers, reqs>>
    BY DEF pageVars
<1>2. UpdateTypeOK'
    BY <1>1 DEF UpdateInv, UpdateTypeOK, HostType
<1>3. ButtonRecovers'
    BY <1>1 DEF UpdateInv, ButtonRecovers
<1>4. QED BY <1>2, <1>3 DEF UpdateInv

\* Goroutines begin, fail or end; no file is open that was not.
LEMMA EndStep ==
    ASSUME HostType, HostInv, UNCHANGED <<exe, tmp, overlapped>>,
           UNCHANGED content \/ \A u \in Updates : ups'[u].phase # "open",
           ~torn' => ~torn /\ content'[exe] = content[exe],
           ups' \in [Updates -> [phase : {"none", "asked", "open", "renamed"},
                                 file : Files \cup {Nobody}, done : 0 .. Parts]],
           \A u \in Updates : ups'[u] = ups[u] \/ (ups'[u].phase # "open" /\ ups'[u].file = Nobody)
    PROVE  HostInv'
<1>1. NamesDiffer'
    BY DEF HostInv, NamesDiffer
<1>2. Descriptors'
    BY DEF HostInv, Descriptors
<1>3. ~overlapped' => OneDownload'
    BY DEF HostInv, OneDownload
<1>4. ExecutableWhole'
    BY DEF HostInv, ExecutableWhole
<1>5. QED BY <1>1, <1>2, <1>3, <1>4 DEF HostInv

LEMMA TypeIsHostType == UpdateTypeOK => HostType
BY DEF UpdateTypeOK, HostType

\* Goroutines that begin or end, and the process they live in.
LEMMA LifeStep ==
    ASSUME UpdateInv,
           \/ \E u \in Updates : Begin(u) \/ GiveUp(u) \/ Exec(u)
           \/ \E f \in Files : Sync(f)
           \/ Crash \/ HostCrash \/ Restart
    PROVE  UpdateInv'
<1> DEFINE Phases == [phase : {"none", "asked", "open", "renamed"}, file : Files \cup {Nobody}, done : 0 .. Parts]
           Goal == /\ ups' \in [Updates -> Phases]
                   /\ \A v \in Updates : ups'[v] = ups[v] \/ (ups'[v].phase # "open" /\ ups'[v].file = Nobody)
                   /\ signals' \in 0 .. MaxSignals /\ alive' \in BOOLEAN
                   /\ UNCHANGED content \/ \A v \in Updates : ups'[v].phase # "open"
                   /\ ~torn' => ~torn /\ content'[exe] = content[exe]
                   /\ content' \in [Files -> SUBSET Whole] /\ unsynced' \subseteq Files /\ torn' \in BOOLEAN
<1>1. HostType /\ HostInv /\ UNCHANGED <<pageVars, exe, tmp, overlapped>>
    BY TypeIsHostType DEF UpdateInv, Begin, GiveUp, Sync, Crash, HostCrash, Restart, Exec
<1>2. NoUpdate \in Phases /\ NoUpdate.phase # "open" /\ NoUpdate.file = Nobody
    BY DEF NoUpdate
<1>3. ProcessEnds => ups' \in [Updates -> Phases] /\ signals' \in 0 .. MaxSignals
               /\ \A v \in Updates : ups'[v].phase # "open" /\ ups'[v].file = Nobody
    BY <1>2 DEF ProcessEnds
<1>4. ASSUME NEW u \in Updates, Begin(u) PROVE Goal
    <2>1. ups' = [ups EXCEPT ![u].phase = "asked"] /\ ups[u] = NoUpdate /\ signals' = signals - 1 /\ signals > 0
          /\ alive' = alive /\ UNCHANGED <<content, unsynced, torn>>
        BY <1>4 DEF Begin
    <2>2. ups'[u].phase = "asked" /\ ups'[u].file = Nobody /\ \A v \in Updates \ {u} : ups'[v] = ups[v]
        BY <1>1, <1>2, <2>1 DEF HostType
    <2>3. ups' \in [Updates -> Phases]
        BY <1>1, <2>1 DEF HostType
    <2>4. signals' \in 0 .. MaxSignals
        BY <1>1, <2>1 DEF HostType
    <2>5. QED BY <1>1, <2>1, <2>2, <2>3, <2>4 DEF HostType
<1>5. ASSUME NEW u \in Updates, GiveUp(u) PROVE Goal
    BY <1>1, <1>2, <1>5 DEF GiveUp, HostType
<1>6. ASSUME NEW u \in Updates, Exec(u) PROVE Goal
    <2>0. UNCHANGED <<content, unsynced, torn>>
        BY <1>6 DEF Exec
    <2>1. CASE ProcessEnds /\ alive' = (content[exe] = Whole)
        BY <1>1, <1>3, <2>0, <2>1 DEF HostType
    <2>2. CASE ups' = [ups EXCEPT ![u] = NoUpdate] /\ UNCHANGED <<signals, alive>>
        BY <1>1, <1>2, <2>0, <2>2 DEF HostType
    <2>3. QED BY <1>6, <2>1, <2>2 DEF Exec
<1>7. ASSUME Crash PROVE Goal
    <2>1. alive' = FALSE /\ ProcessEnds /\ UNCHANGED <<content, unsynced, torn>>
        BY <1>7 DEF Crash
    <2>2. /\ ups' \in [Updates -> Phases] /\ signals' \in 0 .. MaxSignals
          /\ \A v \in Updates : ups'[v].phase # "open" /\ ups'[v].file = Nobody
        BY <1>3, <2>1
    <2>3. /\ content' \in [Files -> SUBSET Whole] /\ unsynced' \subseteq Files /\ torn' \in BOOLEAN
        BY <1>1, <2>1 DEF HostType
    <2>4. ~torn' => ~torn /\ content'[exe] = content[exe]
        BY <2>1
    <2>5. QED BY <2>1, <2>2, <2>3, <2>4
<1>8. ASSUME Restart PROVE Goal
    <2>1. alive' = TRUE /\ UNCHANGED <<signals, ups, content, unsynced, torn>>
        BY <1>8 DEF Restart
    <2>2. /\ content' \in [Files -> SUBSET Whole] /\ unsynced' \subseteq Files /\ torn' \in BOOLEAN
          /\ signals' \in 0 .. MaxSignals /\ ups' \in [Updates -> Phases]
        BY <1>1, <2>1 DEF HostType
    <2>3. ~torn' => ~torn /\ content'[exe] = content[exe]
        BY <2>1
    <2>4. QED BY <2>1, <2>2, <2>3
<1>s. ASSUME NEW f \in Files, Sync(f) PROVE Goal
    <2>1. unsynced' \subseteq unsynced /\ UNCHANGED <<signals, alive, ups, content, torn>>
        BY <1>s DEF Sync
    <2>2. /\ content' \in [Files -> SUBSET Whole] /\ unsynced' \subseteq Files /\ torn' \in BOOLEAN
          /\ signals' \in 0 .. MaxSignals /\ ups' \in [Updates -> Phases] /\ alive' \in BOOLEAN
        BY <1>1, <2>1 DEF HostType
    <2>3. ~torn' => ~torn /\ content'[exe] = content[exe]
        BY <2>1
    <2>4. QED BY <2>1, <2>2, <2>3
<1>h. HostCrash => Goal
    BY <1>1, <1>3 DEF HostCrash, Remains, HostType
<1>9. Goal
    BY <1>4, <1>5, <1>6, <1>7, <1>8, <1>h, <1>s
<1>10. HostType'
    BY <1>1, <1>9 DEF HostType
<1>11. HostInv'
    BY <1>1, <1>9, EndStep
<1>12. QED BY <1>1, <1>10, <1>11, HostKeepsPage

\* A download that begins alone has a file of its own.
LEMMA OpenStep == ASSUME UpdateInv, NEW u \in Updates, OpenTemporary(u) PROVE UpdateInv'
<1>1. HostType /\ HostInv
    BY TypeIsHostType DEF UpdateInv
<1>2. PICK f \in Files : /\ IF tmp = Nobody THEN Nameless(f) ELSE f = tmp
                         /\ tmp' = f
                         /\ content' = [content EXCEPT ![f] = {}] /\ unsynced' = unsynced \cup {f}
                         /\ ups' = [ups EXCEPT ![u] = [phase |-> "open", file |-> f, done |-> 0]]
    BY DEF OpenTemporary
<1>3. /\ overlapped' = (overlapped \/ \E v \in Updates : ups[v].phase = "open")
      /\ UNCHANGED <<pageVars, signals, alive, exe, torn>>
    BY DEF OpenTemporary
<1>4. f # exe
    BY <1>1, <1>2 DEF HostInv, NamesDiffer, Nameless
<1>5. /\ ups'[u].phase = "open" /\ ups'[u].file = f /\ ups'[u].done = 0
      /\ \A v \in Updates \ {u} : ups'[v] = ups[v]
    BY <1>1, <1>2 DEF HostType
<1>6. HostType'
    <2>1. ups' \in [Updates -> [phase : {"none", "asked", "open", "renamed"},
                                file : Files \cup {Nobody}, done : 0 .. Parts]]
        BY <1>1, <1>2 DEF HostType
    <2>2. content' \in [Files -> SUBSET Whole]
        BY <1>1, <1>2 DEF HostType
    <2>3. overlapped' \in BOOLEAN
        BY <1>3
    <2>4. QED BY <1>1, <1>2, <1>3, <2>1, <2>2, <2>3 DEF HostType
<1>7. HostInv'
    <2>1. NamesDiffer'
        BY <1>2, <1>3, <1>4 DEF NamesDiffer
    <2>2. Descriptors'
        BY <1>1, <1>2, <1>5 DEF HostInv, Descriptors
    <2>3. ASSUME ~overlapped' PROVE OneDownload' /\ ExecutableWhole'
        <3>1. ~overlapped /\ \A v \in Updates : ups[v].phase # "open"
            BY <1>3, <2>3
        <3>2. \A v \in Updates : ups'[v].phase = "open" => v = u
            BY <1>5, <3>1
        <3>3. content'[f] = {} /\ content'[exe] = content[exe]
            BY <1>1, <1>2, <1>4 DEF HostType
        <3>4. 1 .. 0 = {}
            OBVIOUS
        <3>5. OneDownload'
            BY <1>2, <1>5, <3>2, <3>3, <3>4 DEF OneDownload
        <3>6. QED BY <1>1, <1>3, <3>1, <3>3, <3>5 DEF HostInv, ExecutableWhole
    <2>4. QED BY <2>1, <2>2, <2>3 DEF HostInv, ExecutableWhole
<1>8. QED BY <1>3, <1>6, <1>7, HostKeepsPage

LEMMA WriteStep == ASSUME UpdateInv, NEW u \in Updates, Write(u) PROVE UpdateInv'
<1>1. HostType /\ HostInv
    BY TypeIsHostType DEF UpdateInv
<1>2. /\ ups[u].phase = "open" /\ ups[u].done < Parts
      /\ ups' = [ups EXCEPT ![u].done = @ + 1]
      /\ content' = [content EXCEPT ![ups[u].file] = @ \cup {ups[u].done + 1}]
      /\ unsynced' = unsynced \cup {ups[u].file}
      /\ UNCHANGED <<pageVars, signals, alive, exe, tmp, torn, overlapped>>
    BY DEF Write
<1>3. PICK f \in Files : f = ups[u].file
    BY <1>1, <1>2 DEF HostInv, Descriptors
<1>4. PICK n \in 0 .. Parts : n = ups[u].done
    BY <1>1 DEF HostType
<1>5. n + 1 \in Whole /\ n + 1 \in 0 .. Parts
    BY <1>2, <1>4 DEF Whole
<1>6. /\ ups'[u].phase = "open" /\ ups'[u].file = f /\ ups'[u].done = n + 1
      /\ \A v \in Updates \ {u} : ups'[v] = ups[v]
    BY <1>1, <1>2, <1>3, <1>4 DEF HostType
<1>7. HostType'
    <2>1. ups' \in [Updates -> [phase : {"none", "asked", "open", "renamed"},
                                file : Files \cup {Nobody}, done : 0 .. Parts]]
        BY <1>1, <1>2, <1>4, <1>5 DEF HostType
    <2>2. content' \in [Files -> SUBSET Whole]
        BY <1>1, <1>2, <1>3, <1>4, <1>5 DEF HostType
    <2>3. QED BY <1>1, <1>2, <1>3, <2>1, <2>2 DEF HostType
<1>8. HostInv'
    <2>1. NamesDiffer' /\ Descriptors'
        BY <1>1, <1>2, <1>3, <1>6 DEF HostInv, NamesDiffer, Descriptors
    <2>2. ASSUME ~overlapped' PROVE OneDownload' /\ ExecutableWhole'
        <3>1. f = tmp /\ f # exe /\ content[f] = 1 .. n
            BY <1>1, <1>2, <1>3, <1>4, <2>2 DEF HostInv, NamesDiffer, OneDownload
        <3>2. \A v \in Updates : ups'[v].phase = "open" => v = u
            BY <1>1, <1>2, <1>6, <2>2 DEF HostInv, OneDownload
        <3>3. content'[f] = content[f] \cup {n + 1} /\ content'[exe] = content[exe]
            BY <1>1, <1>2, <1>3, <1>4, <3>1 DEF HostType
        <3>4. (1 .. n) \cup {n + 1} = 1 .. (n + 1)
            BY <1>4
        <3>5. OneDownload'
            BY <1>2, <1>6, <3>1, <3>2, <3>3, <3>4 DEF OneDownload
        <3>6. QED BY <1>1, <1>2, <3>3, <3>5 DEF HostInv, ExecutableWhole
    <2>3. QED BY <2>1, <2>2 DEF HostInv, ExecutableWhole
<1>9. QED BY <1>2, <1>7, <1>8, HostKeepsPage

\* The download ends: its file loses the temporary name, or gets the other.
LEMMA LeaveStep == ASSUME UpdateInv, NEW u \in Updates, WriteFails(u) \/ Rename(u) PROVE UpdateInv'
<1>1. HostType /\ HostInv
    BY TypeIsHostType DEF UpdateInv
<1>2. PICK p \in {"none", "renamed"} : ups' = [ups EXCEPT ![u] = [NoUpdate EXCEPT !.phase = p]]
    <2>1. NoUpdate = [NoUpdate EXCEPT !.phase = "none"]
        <3> DEFINE None == [phase : {"none"}, file : {Nobody}, done : {0}]
        <3>1. \A r \in None : [r EXCEPT !.phase = "none"] = r
            OBVIOUS
        <3>2. NoUpdate \in None
            BY DEF NoUpdate
        <3>3. QED BY <3>1, <3>2
    <2>2. QED BY <2>1 DEF WriteFails, Rename
<1>3. /\ ups[u].phase = "open" /\ UNCHANGED <<pageVars, signals, alive, unsynced, overlapped>>
      /\ content' \in [Files -> SUBSET Whole]
    BY <1>1 DEF WriteFails, Rename, Remains, HostType
<1>4. \/ tmp' = Nobody /\ exe' = exe
      \/ tmp # Nobody /\ tmp' = Nobody /\ exe' = tmp /\ ups[u].done = Parts
    BY DEF WriteFails, Rename
<1>t. /\ torn' \in BOOLEAN
      /\ ~torn' => content'[exe'] = content[exe'] /\ (exe' = exe => ~torn)
    BY <1>1 DEF WriteFails, Rename, HostType
<1>5. [NoUpdate EXCEPT !.phase = p] \in [phase : {"none", "renamed"}, file : {Nobody}, done : {0}]
    BY DEF NoUpdate
<1>6. /\ ups'[u].phase # "open" /\ ups'[u].file = Nobody
      /\ \A v \in Updates \ {u} : ups'[v] = ups[v]
    BY <1>1, <1>2, <1>5 DEF HostType
<1>7. HostType'
    <2>1. ups' \in [Updates -> [phase : {"none", "asked", "open", "renamed"},
                                file : Files \cup {Nobody}, done : 0 .. Parts]]
        BY <1>1, <1>2, <1>5 DEF HostType
    <2>2. QED BY <1>1, <1>3, <1>4, <1>t, <2>1 DEF HostType
<1>8. HostInv'
    <2>1. NamesDiffer'
        BY <1>4, <1>7 DEF NamesDiffer, HostType
    <2>2. Descriptors'
        BY <1>1, <1>6 DEF HostInv, Descriptors
    <2>3. ASSUME ~overlapped' PROVE OneDownload' /\ ExecutableWhole'
        <3>1. \A v \in Updates : ups'[v].phase # "open"
            BY <1>1, <1>3, <1>6, <2>3 DEF HostInv, OneDownload
        <3>2. content[tmp] = 1 .. ups[u].done /\ (~torn => content[exe] = Whole)
            BY <1>1, <1>3, <2>3 DEF HostInv, OneDownload, ExecutableWhole
        <3>3. ExecutableWhole'
            BY <1>3, <1>4, <1>t, <3>2 DEF ExecutableWhole, Whole
        <3>4. QED BY <3>1, <3>3 DEF OneDownload
    <2>4. QED BY <2>1, <2>2, <2>3 DEF HostInv, ExecutableWhole
<1>9. QED BY <1>3, <1>7, <1>8, HostKeepsPage

-----------------------------------------------------------------------------
(* Theorems *)

THEOREM Inductive == UpdateSpec => []UpdateInv
<1>1. UpdateInv /\ [UpdateNext]_updateVars => UpdateInv'
    <2>1. SUFFICES ASSUME UpdateInv, [UpdateNext]_updateVars PROVE UpdateInv'
        OBVIOUS
    <2>2. CASE UNCHANGED updateVars
        <3>1. UNCHANGED <<updatingId, updatedIds, timers, reqs, hostVars>>
            BY <2>2 DEF updateVars, pageVars
        <3>2. HostInv'
            BY <2>1, <3>1, PageKeepsHost DEF UpdateInv
        <3>3. UpdateTypeOK'
            BY <2>1, <3>1 DEF UpdateInv, UpdateTypeOK, hostVars
        <3>4. ButtonRecovers'
            BY <2>1, <3>1 DEF UpdateInv, ButtonRecovers
        <3>5. QED BY <3>2, <3>3, <3>4 DEF UpdateInv
    <2>3. ASSUME NEW u \in Updates,
                 Begin(u) \/ GiveUp(u) \/ OpenTemporary(u) \/ Write(u) \/ WriteFails(u) \/ Rename(u) \/ Exec(u)
          PROVE  UpdateInv'
        BY <2>1, <2>3, LifeStep, OpenStep, WriteStep, LeaveStep
    <2>4. ASSUME NEW q \in Posts, UpdateSucceeded(q) \/ UpdateFailed(q) \/ Serve(q) \/ RefuseUpdate(q)
          PROVE  UpdateInv'
        BY <2>1, <2>4, AnswerStep, ServerStep
    <2>5. Crash \/ HostCrash \/ Restart \/ (\E f \in Files : Sync(f)) => UpdateInv'
        BY <2>1, LifeStep
    <2>6. QED BY <2>1, <2>2, <2>3, <2>4, <2>5, UpdateStep, TimerStep, RevisitStep DEF UpdateNext
<1>2. QED BY InitInv, <1>1, PTL DEF UpdateSpec

\* Every variable of AgentUpdate keeps its type.
THEOREM TypeCorrect == UpdateSpec => []UpdateTypeOK
<1>1. UpdateInv => UpdateTypeOK
    BY DEF UpdateInv
<1>2. QED BY <1>1, Inductive, PTL

\* No Update button of the Agents page stays disabled for good.
THEOREM ButtonRecoversHolds == UpdateSpec => []ButtonRecovers
<1>1. UpdateInv => ButtonRecovers
    BY DEF UpdateInv
<1>2. QED BY <1>1, Inductive, PTL

\* The executable of selfUpdate is whole while downloads do not overlap and the
\* host loses none of its data.
THEOREM ExecutableWholeHolds == UpdateSpec => []ExecutableWhole
<1>1. UpdateInv => ExecutableWhole
    BY DEF UpdateInv, HostInv
<1>2. QED BY <1>1, Inductive, PTL
=============================================================================
