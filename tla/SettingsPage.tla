------------------------------ MODULE SettingsPage ------------------------------
(***************************************************************************)
(* The Settings page (web/src/pages/Settings.tsx), its query, which a save *)
(* does not invalidate, and the transaction that saves (api/settings.go):  *)
(* DELETE of all rows, INSERT of one, COMMIT, at PostgreSQL's isolation    *)
(* level READ COMMITTED.                                                   *)
(***************************************************************************)
EXTENDS Integers, QueryCache

CONSTANTS
    Vals,       \* configurations of the mail
    Default,    \* the one of a form that was not filled (defaultConfig)
    Unset,      \* no configuration: the answer configured: false
    Savers,     \* saves under way at once
    MaxSaves    \* bound on the saves committed

ASSUME SettingsAssumption == Default \in Vals /\ Unset \notin Vals /\ MaxSaves \in Nat

VARIABLES
    shown,      \* the page is shown
    cfg,        \* the cached answer
    config,     \* the form
    initialized,\* the form was filled from the answer
    typed,      \* what the user typed since then (Unset: nothing)
    stored,     \* the committed rows
    commits,    \* how many saves were committed
    saves,      \* the saves under way
    raced       \* two saves have overlapped

settingsVars == <<shown, cfg, config, initialized, typed, stored, commits, saves, raced>>

Row == [id : 1 .. MaxSaves, val : Vals]

\* A save: how far it got, what it writes, the rows its DELETE has found and
\* whether the component that sent it is still shown.
Idle == [phase |-> "free", val |-> Unset, found |-> {}, mine |-> FALSE]

SettingsTypeOK ==
    /\ shown \in BOOLEAN /\ initialized \in BOOLEAN /\ raced \in BOOLEAN
    /\ cfg \in Query(Vals \cup {Unset})
    /\ config \in Vals /\ typed \in Vals \cup {Unset}
    /\ stored \subseteq Row /\ commits \in 0 .. MaxSaves
    /\ saves \in [Savers -> [phase : {"free", "sent", "waiting", "deleted", "ok", "refused"},
                             val : Vals \cup {Unset}, found : SUBSET Row, mine : BOOLEAN]]

SettingsInit ==
    /\ shown = FALSE /\ cfg = Empty
    /\ config = Default /\ initialized = FALSE /\ typed = Unset
    /\ stored = {} /\ commits = 0
    /\ saves = [s \in Savers |-> Idle] /\ raced = FALSE

-----------------------------------------------------------------------------
(* The page *)

\* Faulty variant: every answer fills the form.
LoadAlways(q, ini) ==
    /\ cfg' = q
    /\ IF q.data \in Vals
       THEN config' = q.data /\ initialized' = TRUE /\ typed' = IF ini THEN typed ELSE Unset
       ELSE initialized' = ini /\ UNCHANGED <<config, typed>>

\* The effect that fills the form, once, as soon as an answer has a
\* configuration; what was typed before is lost.
Load(q, ini) ==
    /\ cfg' = q
    /\ IF ~ini /\ q.data \in Vals
       THEN config' = q.data /\ initialized' = TRUE /\ typed' = IF ini THEN typed ELSE Unset
       ELSE initialized' = ini /\ UNCHANGED <<config, typed>>

EnterSettings ==
    /\ ~shown /\ shown' = TRUE
    /\ \E q \in Observed(cfg) : Load(q, FALSE)
    /\ UNCHANGED <<stored, commits, saves, raced>>

LeaveSettings ==
    /\ shown /\ shown' = FALSE
    /\ cfg' = Aborted(cfg)
    /\ config' = Default /\ initialized' = FALSE /\ typed' = Unset
    /\ saves' = [s \in Savers |-> [saves[s] EXCEPT !.mine = FALSE]]
    /\ UNCHANGED <<stored, commits, raced>>

RefetchSettings ==
    /\ shown /\ cfg.fetch = "idle"
    /\ cfg' = Fetching(cfg)
    /\ UNCHANGED <<shown, config, initialized, typed, stored, commits, saves, raced>>

\* handleGetNotificationSettings: some row; none, or a failing SELECT, is
\* answered with configured: false.
ReadSettings ==
    /\ cfg.fetch = "sent"
    /\ \E v \in {r.val : r \in stored} \cup {Unset} : cfg' = Answered(cfg, v)
    /\ UNCHANGED <<shown, config, initialized, typed, stored, commits, saves, raced>>

FetchSettingsFails ==
    /\ cfg.fetch # "idle"
    /\ cfg' = Failed(cfg)
    /\ UNCHANGED <<shown, config, initialized, typed, stored, commits, saves, raced>>

ReceiveSettings ==
    /\ cfg.fetch = "answered"
    /\ Load(Received(cfg), initialized)
    /\ UNCHANGED <<shown, stored, commits, saves, raced>>

\* A field is edited.
Edit(v) ==
    /\ shown /\ v # config
    /\ config' = v /\ typed' = v
    /\ UNCHANGED <<shown, cfg, initialized, stored, commits, saves, raced>>

\* handleSubmit: the button waits for the save before.
SubmitSettings(s) ==
    /\ shown /\ ~\E t \in Savers : saves[t].mine
    /\ saves[s] = Idle
    /\ saves' = [saves EXCEPT ![s] = [Idle EXCEPT !.phase = "sent", !.val = config, !.mine = TRUE]]
    /\ UNCHANGED <<shown, cfg, config, initialized, typed, stored, commits, raced>>

\* Another browser saves.
SubmitElsewhere(s) ==
    /\ saves[s] = Idle
    /\ \E v \in Vals : saves' = [saves EXCEPT ![s] = [Idle EXCEPT !.phase = "sent", !.val = v]]
    /\ UNCHANGED <<shown, cfg, config, initialized, typed, stored, commits, raced>>

\* The answer arrives: the form and the cache stay as they are.
SaveAnswered(s) ==
    /\ saves[s].phase \in {"ok", "refused"}
    /\ saves' = [saves EXCEPT ![s] = Idle]
    /\ UNCHANGED <<shown, cfg, config, initialized, typed, stored, commits, raced>>

-----------------------------------------------------------------------------
(* handleUpdateNotificationSettings *)

InTransaction(s) == saves[s].phase \in {"waiting", "deleted"}

\* DELETE begins: it has seen the rows committed so far.
BeginDelete(s) ==
    /\ saves[s].phase = "sent"
    /\ saves' = [saves EXCEPT ![s].phase = "waiting", ![s].found = stored]
    /\ raced' = (raced \/ \E t \in Savers : InTransaction(t))
    /\ UNCHANGED <<shown, cfg, config, initialized, typed, stored, commits>>

\* Faulty variant: no transaction, the deletion is visible at once.
DeleteAtOnce(s) ==
    /\ saves[s].phase = "waiting"
    /\ saves' = [saves EXCEPT ![s].phase = "deleted"]
    /\ stored' = stored \ saves[s].found
    /\ UNCHANGED <<shown, cfg, config, initialized, typed, commits, raced>>

\* It waits for the rows that another transaction is deleting; those that are
\* gone by then it leaves out, and it does not look for new ones.
Delete(s) ==
    /\ saves[s].phase = "waiting"
    /\ \A t \in Savers \ {s} : saves[t].phase = "deleted" => saves[t].found \cap saves[s].found = {}
    /\ saves' = [saves EXCEPT ![s].phase = "deleted", ![s].found = @ \cap stored]
    /\ UNCHANGED <<shown, cfg, config, initialized, typed, stored, commits, raced>>

\* Faulty variant: nothing was deleted.
InsertOnly(s) ==
    /\ saves[s].phase = "deleted" /\ commits < MaxSaves
    /\ stored' = stored \cup {[id |-> commits + 1, val |-> saves[s].val]}
    /\ commits' = commits + 1
    /\ saves' = [saves EXCEPT ![s].phase = "ok", ![s].found = {}]
    /\ UNCHANGED <<shown, cfg, config, initialized, typed, raced>>

\* INSERT and COMMIT.
Commit(s) ==
    /\ saves[s].phase = "deleted" /\ commits < MaxSaves
    /\ stored' = (stored \ saves[s].found) \cup {[id |-> commits + 1, val |-> saves[s].val]}
    /\ commits' = commits + 1
    /\ saves' = [saves EXCEPT ![s].phase = "ok", ![s].found = {}]
    /\ UNCHANGED <<shown, cfg, config, initialized, typed, raced>>

\* A statement fails and everything is rolled back, or the answer is lost.
Rollback(s) ==
    /\ saves[s].phase \in {"sent", "waiting", "deleted", "ok"}
    /\ saves' = [saves EXCEPT ![s].phase = "refused", ![s].found = {}]
    /\ UNCHANGED <<shown, cfg, config, initialized, typed, stored, commits, raced>>

-----------------------------------------------------------------------------
SettingsNext ==
    \/ EnterSettings \/ LeaveSettings \/ RefetchSettings \/ ReadSettings
    \/ FetchSettingsFails \/ ReceiveSettings
    \/ \E v \in Vals : Edit(v)
    \/ \E s \in Savers : \/ SubmitSettings(s) \/ SubmitElsewhere(s) \/ SaveAnswered(s)
                         \/ BeginDelete(s) \/ Delete(s) \/ Commit(s) \/ Rollback(s)

SettingsSpec == SettingsInit /\ [][SettingsNext]_settingsVars

-----------------------------------------------------------------------------
(* Properties *)

\* What the user types after the form was filled stays: no answer that arrives
\* later overwrites it.
TypingIsKept == typed # Unset => config = typed

\* Once saved, a configuration is never absent, not even while it is replaced
\* or when a statement fails half way.
ConfigurationStays == [][stored # {} => stored' # {}]_settingsVars

\* Without overlapping saves there is one row, the last one saved.
LastSaveWins == raced \/ stored \subseteq {r \in Row : r.id = commits}
=============================================================================
