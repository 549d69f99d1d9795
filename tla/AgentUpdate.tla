------------------------------- MODULE AgentUpdate -------------------------------
(***************************************************************************)
(* Updating agents: the Update button of a row of web/src/pages/           *)
(* Agents.tsx, handleUpdateAgent and the hub's UpdateAgent, and the        *)
(* goroutines that replace the executable of an agent                      *)
(* (cmd/agent/update.go).                                                  *)
(*                                                                         *)
(* The host of one agent is modelled.  A file is what has been written of  *)
(* its Parts; the descriptor of a download keeps its file whatever name    *)
(* the file has.  Nothing is synced before the rename: until the system    *)
(* has written a file out, its data can be lost with the host.             *)
(***************************************************************************)
EXTENDS Integers

CONSTANTS
    Rows,       \* the rows of the page, an agent each
    Host,       \* the agent whose host is modelled
    Nobody,     \* no agent, no file
    Posts,      \* requests under way at once
    Updates,    \* update goroutines of the host's agent at once
    Files,      \* files; one without a name that nobody has open is reused
    Parts,      \* a download arrives in the parts 1 .. Parts
    MaxSignals, \* bound on the signals on their way to the host
    MaxTimers,  \* bound on the timers of a row
    HostFaults  \* whether the host goes down and writes to its disk fail

ASSUME AgentUpdateAssumption ==
    /\ Host \in Rows /\ Nobody \notin Rows \cup Files
    /\ Parts \in Nat \ {0} /\ MaxSignals \in Nat \ {0} /\ MaxTimers \in Nat \ {0}
    /\ HostFaults \in BOOLEAN

VARIABLES
    updatingId, updatedIds,
    timers,     \* timers this visit to the page has started, for each row
    reqs,       \* requests: of which row, how far, whether this visit sent it
    signals,    \* update_agent messages on their way to the host
    alive,      \* the agent runs
    ups,        \* its update goroutines: how far, the file open, the parts written
    exe, tmp,   \* what exePath and exePath.update name
    content,    \* the parts each file has
    unsynced,   \* files with data that is not on the disk yet
    torn,       \* the host lost data of the executable
    overlapped  \* two downloads have had the temporary file open at once

pageVars == <<updatingId, updatedIds, timers, reqs>>
hostVars == <<signals, alive, ups, exe, tmp, content, unsynced, torn, overlapped>>
updateVars == <<pageVars, hostVars>>

NoRequest == [id |-> Nobody, phase |-> "free", mine |-> FALSE]
NoUpdate == [phase |-> "none", file |-> Nobody, done |-> 0]
Whole == 1 .. Parts

UpdateTypeOK ==
    /\ updatingId \in Rows \cup {Nobody} /\ updatedIds \subseteq Rows
    /\ timers \in [Rows -> 0 .. MaxTimers]
    /\ reqs \in [Posts -> {NoRequest} \cup [id : Rows, phase : {"sent", "ok", "failed"},
                                         mine : BOOLEAN]]
    /\ signals \in 0 .. MaxSignals /\ alive \in BOOLEAN /\ overlapped \in BOOLEAN
    /\ ups \in [Updates -> [phase : {"none", "asked", "open", "renamed"},
                            file : Files \cup {Nobody}, done : 0 .. Parts]]
    /\ exe \in Files /\ tmp \in Files \cup {Nobody}
    /\ content \in [Files -> SUBSET Whole]
    /\ unsynced \subseteq Files /\ torn \in BOOLEAN

UpdateInit ==
    /\ updatingId = Nobody /\ updatedIds = {}
    /\ timers = [a \in Rows |-> 0]
    /\ reqs = [q \in Posts |-> NoRequest]
    /\ signals = 0 /\ alive = TRUE
    /\ ups = [u \in Updates |-> NoUpdate]
    /\ exe \in Files /\ tmp = Nobody
    /\ content = [f \in Files |-> IF f = exe THEN Whole ELSE {}]
    /\ unsynced = {} /\ torn = FALSE /\ overlapped = FALSE

-----------------------------------------------------------------------------
(* The page *)

\* The button of a row that is not updating and not just updated; onMutate.
Update(a) ==
    /\ updatingId # a /\ a \notin updatedIds
    /\ updatingId' = a
    /\ \E q \in Posts :
        /\ reqs[q] = NoRequest
        /\ reqs' = [reqs EXCEPT ![q] = [id |-> a, phase |-> "sent", mine |-> TRUE]]
    /\ UNCHANGED <<updatedIds, timers, hostVars>>

\* Faulty variant: the button of the row is left to the next list.
SucceededForGood(q) ==
    /\ reqs[q].phase = "ok"
    /\ reqs' = [reqs EXCEPT ![q] = NoRequest]
    /\ IF reqs[q].mine
       THEN updatingId' = Nobody /\ updatedIds' = updatedIds \cup {reqs[q].id}
       ELSE UNCHANGED <<updatingId, updatedIds>>
    /\ UNCHANGED <<timers, hostVars>>

\* onSuccess: whichever row is updating is not any more; a timer of five seconds.
UpdateSucceeded(q) ==
    /\ reqs[q].phase = "ok"
    /\ reqs' = [reqs EXCEPT ![q] = NoRequest]
    /\ IF reqs[q].mine
       THEN /\ timers[reqs[q].id] < MaxTimers
            /\ updatingId' = Nobody /\ updatedIds' = updatedIds \cup {reqs[q].id}
            /\ timers' = [timers EXCEPT ![reqs[q].id] = @ + 1]
       ELSE UNCHANGED <<updatingId, updatedIds, timers>>
    /\ UNCHANGED hostVars

\* onError
UpdateFailed(q) ==
    /\ reqs[q].phase = "failed"
    /\ reqs' = [reqs EXCEPT ![q] = NoRequest]
    /\ IF reqs[q].mine
       THEN updatingId' = Nobody /\ updatedIds' = updatedIds \ {reqs[q].id}
       ELSE UNCHANGED <<updatingId, updatedIds>>
    /\ UNCHANGED <<timers, hostVars>>

Timer(a) ==
    /\ timers[a] > 0
    /\ timers' = [timers EXCEPT ![a] = @ - 1]
    /\ updatedIds' = updatedIds \ {a}
    /\ UNCHANGED <<updatingId, reqs, hostVars>>

\* The page is left and shown again: its state is gone, its requests are not.
Revisit ==
    /\ updatingId' = Nobody /\ updatedIds' = {}
    /\ timers' = [a \in Rows |-> 0]
    /\ reqs' = [q \in Posts |-> [reqs[q] EXCEPT !.mine = FALSE]]
    /\ UNCHANGED hostVars

-----------------------------------------------------------------------------
(* The server *)

\* handleUpdateAgent: the signal is queued; the answer arrives or is lost.
Serve(q) ==
    /\ reqs[q].phase = "sent"
    /\ IF reqs[q].id = Host THEN signals < MaxSignals /\ signals' = signals + 1
                            ELSE UNCHANGED signals
    /\ \E p \in {"ok", "failed"} : reqs' = [reqs EXCEPT ![q].phase = p]
    /\ UNCHANGED <<updatingId, updatedIds, timers, alive, ups, exe, tmp, content, unsynced, torn, overlapped>>

\* No such agent, not connected, its buffer is full.
RefuseUpdate(q) ==
    /\ reqs[q].phase = "sent"
    /\ reqs' = [reqs EXCEPT ![q].phase = "failed"]
    /\ UNCHANGED <<updatingId, updatedIds, timers, hostVars>>

-----------------------------------------------------------------------------
(* The host: selfUpdate *)

\* The message starts a goroutine, which asks for the release.
Begin(u) ==
    /\ alive /\ signals > 0 /\ ups[u] = NoUpdate
    /\ signals' = signals - 1
    /\ ups' = [ups EXCEPT ![u].phase = "asked"]
    /\ UNCHANGED <<pageVars, alive, exe, tmp, content, unsynced, torn, overlapped>>

\* The download, or finding the path, fails.
GiveUp(u) ==
    /\ ups[u].phase = "asked"
    /\ ups' = [ups EXCEPT ![u] = NoUpdate]
    /\ UNCHANGED <<pageVars, signals, alive, exe, tmp, content, unsynced, torn, overlapped>>

Nameless(f) == f # exe /\ f # tmp /\ \A u \in Updates : ups[u].file # f

\* Faulty variant: the executable itself is opened.
OpenInPlace(u) ==
    /\ ups[u].phase = "asked"
    /\ content' = [content EXCEPT ![exe] = {}]
    /\ ups' = [ups EXCEPT ![u] = [phase |-> "open", file |-> exe, done |-> 0]]
    /\ UNCHANGED <<pageVars, signals, alive, exe, tmp, unsynced, torn, overlapped>>

\* O_CREATE and O_TRUNC: a file of this name, left behind by a crash or being
\* written by another update, is emptied.
OpenTemporary(u) ==
    /\ ups[u].phase = "asked"
    /\ \E f \in Files :
        /\ IF tmp = Nobody THEN Nameless(f) ELSE f = tmp
        /\ tmp' = f
        /\ content' = [content EXCEPT ![f] = {}] /\ unsynced' = unsynced \cup {f}
        /\ ups' = [ups EXCEPT ![u] = [phase |-> "open", file |-> f, done |-> 0]]
    /\ overlapped' = (overlapped \/ \E v \in Updates : ups[v].phase = "open")
    /\ UNCHANGED <<pageVars, signals, alive, exe, torn>>

\* io.Copy, at the offset of this descriptor.
Write(u) ==
    /\ ups[u].phase = "open" /\ ups[u].done < Parts
    /\ ups' = [ups EXCEPT ![u].done = @ + 1]
    /\ content' = [content EXCEPT ![ups[u].file] = @ \cup {ups[u].done + 1}]
    /\ unsynced' = unsynced \cup {ups[u].file}
    /\ UNCHANGED <<pageVars, signals, alive, exe, tmp, torn, overlapped>>

\* The copy fails: whatever has the temporary name is removed.
WriteFails(u) ==
    /\ ups[u].phase = "open"
    /\ tmp' = Nobody
    /\ ups' = [ups EXCEPT ![u] = NoUpdate]
    /\ UNCHANGED <<pageVars, signals, alive, exe, content, unsynced, torn, overlapped>>

\* What may be left of the files when data of those of F does not reach the disk.
Remains(F) ==
    {c \in [Files -> SUBSET Whole] :
        \A f \in Files : IF f \in F THEN c[f] \subseteq content[f] ELSE c[f] = content[f]}

\* The file is closed, whose error is not looked at, and renamed; without the
\* name, which another update may have taken away, the update fails.
Rename(u) ==
    /\ ups[u].phase = "open" /\ ups[u].done = Parts
    /\ content' \in Remains(IF HostFaults THEN unsynced \cap {ups[u].file} ELSE {})
    /\ IF tmp = Nobody
       THEN ups' = [ups EXCEPT ![u] = NoUpdate] /\ UNCHANGED <<exe, tmp>>
       ELSE /\ ups' = [ups EXCEPT ![u] = [NoUpdate EXCEPT !.phase = "renamed"]]
            /\ exe' = tmp /\ tmp' = Nobody
    /\ torn' = ((torn /\ exe' = exe) \/ content'[exe'] # content[exe'])
    /\ UNCHANGED <<pageVars, signals, alive, unsynced, overlapped>>

\* The process and its connection end, with every goroutine and message.
ProcessEnds == ups' = [u \in Updates |-> NoUpdate] /\ signals' = 0

\* syscall.Exec: the new image runs, and crashes if it is not whole; or the call
\* returns an error, and the old image goes on.
Exec(u) ==
    /\ ups[u].phase = "renamed"
    /\ \/ ProcessEnds /\ alive' = (content[exe] = Whole)
       \/ ups' = [ups EXCEPT ![u] = NoUpdate] /\ UNCHANGED <<signals, alive>>
    /\ UNCHANGED <<pageVars, exe, tmp, content, unsynced, torn, overlapped>>

\* The agent goes down at any point; what it wrote stays.
Crash ==
    /\ alive /\ alive' = FALSE
    /\ ProcessEnds
    /\ UNCHANGED <<pageVars, exe, tmp, content, unsynced, torn, overlapped>>

\* The system writes a file out.
Sync(f) ==
    /\ f \in unsynced
    /\ unsynced' = unsynced \ {f}
    /\ UNCHANGED <<pageVars, signals, alive, ups, exe, tmp, content, torn, overlapped>>

\* The host goes down, with what is not on its disk.
HostCrash ==
    /\ HostFaults /\ alive' = FALSE
    /\ ProcessEnds
    /\ content' \in Remains(unsynced) /\ unsynced' = {}
    /\ torn' = (torn \/ content'[exe] # content[exe])
    /\ UNCHANGED <<pageVars, exe, tmp, overlapped>>

\* The service manager starts it again, if it can.
Restart ==
    /\ ~alive /\ content[exe] = Whole
    /\ alive' = TRUE
    /\ UNCHANGED <<pageVars, signals, ups, exe, tmp, content, unsynced, torn, overlapped>>

-----------------------------------------------------------------------------
UpdateNext ==
    \/ \E a \in Rows : Update(a) \/ Timer(a)
    \/ \E q \in Posts : UpdateSucceeded(q) \/ UpdateFailed(q) \/ Serve(q) \/ RefuseUpdate(q)
    \/ \E u \in Updates : \/ Begin(u) \/ GiveUp(u) \/ OpenTemporary(u) \/ Write(u)
                          \/ WriteFails(u) \/ Rename(u) \/ Exec(u)
    \/ \E f \in Files : Sync(f)
    \/ Revisit \/ Crash \/ HostCrash \/ Restart

UpdateSpec == UpdateInit /\ [][UpdateNext]_updateVars

-----------------------------------------------------------------------------
(* Properties *)

\* A button that is disabled will be enabled again: what it waits for, an answer
\* or a timer of this visit, is under way, in whatever order the buttons of the
\* rows were used and their requests answered.
ButtonRecovers ==
    /\ updatingId # Nobody => \E q \in Posts : reqs[q].mine /\ reqs[q].id = updatingId
    /\ \A a \in updatedIds : timers[a] > 0

\* Whatever fails, crashes and is left behind, the executable is a whole release,
\* as long as the host loses no data of it and no two updates downloaded at once:
\* those share a file, and the first to finish makes it the executable.
ExecutableWhole == ~overlapped /\ ~torn => content[exe] = Whole
=============================================================================
