-------------------------------- MODULE JobsPage --------------------------------
(***************************************************************************)
(* The Jobs page (web/src/pages/Jobs.tsx) on top of ListPage: its dialog,  *)
(* its confirmation, the switch and the buttons of a row.  What is typed   *)
(* into the dialog is the subject of JobForm; here a form is known by the  *)
(* row it was filled from.                                                 *)
(***************************************************************************)
EXTENDS ListPage

\* open: the dialog is shown; editing: the job it edits; of: the job its form
\* was filled from; confirm: the job to be deleted.  The texts of errors are
\* left out.
Blank == [open |-> FALSE, editing |-> Nobody, of |-> Nobody, confirm |-> Nobody]

JobsUI == [open : BOOLEAN, editing : Ids \cup {Nobody}, of : Ids \cup {Nobody},
           confirm : Ids \cup {Nobody}]

JobsTypeOK == ListTypeOK /\ ui \in JobsUI

Init == ListInit(Blank)

\* No modal dialog covers the page.
Uncovered == place = "page" /\ ~ui.open /\ ui.confirm = Nobody

Saving == Pending("create") \/ Pending("update")

-----------------------------------------------------------------------------
(* The dialog *)

\* Faulty variant: the form keeps what was loaded before.
OpenCreateKeepsForm ==
    /\ Uncovered
    /\ ui' = [ui EXCEPT !.open = TRUE, !.editing = Nobody]
    /\ UNCHANGED listVars

OpenCreate ==
    /\ Uncovered
    /\ ui' = [Blank EXCEPT !.open = TRUE]
    /\ UNCHANGED listVars

OpenEdit(id) ==
    /\ Uncovered /\ id \in Shown
    /\ ui' = [Blank EXCEPT !.open = TRUE, !.editing = id, !.of = id]
    /\ UNCHANGED listVars

\* closeDialog
Closed == [ui EXCEPT !.open = FALSE, !.editing = Nobody]

\* Escape, or Cancel while no save is pending.
Dismiss ==
    /\ ui.open
    /\ ui' = Closed
    /\ UNCHANGED listVars

\* handleSubmit, with every required field (JobForm).
Submit ==
    /\ ui.open /\ ~Saving
    /\ IF ui.editing = Nobody THEN Send("create", Nobody) ELSE Send("update", ui.editing)
    /\ UNCHANGED ui

-----------------------------------------------------------------------------
(* The rows *)

Toggle(id) ==
    /\ Uncovered /\ id \in Shown
    /\ ~\E s \in Slots : muts[s].kind = "toggle" /\ muts[s].last /\ muts[s].id = id
    /\ Send("toggle", id) /\ UNCHANGED ui

Trigger(id) ==
    /\ Uncovered /\ id \in Shown /\ ~Pending("trigger")
    /\ Send("trigger", id) /\ UNCHANGED ui

AskDelete(id) ==
    /\ Uncovered /\ id \in Shown
    /\ ui' = [ui EXCEPT !.confirm = id]
    /\ UNCHANGED listVars

\* The confirmation is closed by Escape at any time.
CancelDelete ==
    /\ ui.confirm # Nobody
    /\ ui' = [ui EXCEPT !.confirm = Nobody]
    /\ UNCHANGED listVars

ConfirmDelete ==
    /\ ui.confirm # Nobody /\ ~Pending("delete")
    /\ Send("delete", ui.confirm) /\ UNCHANGED ui

-----------------------------------------------------------------------------
(* The callbacks of the requests; a page that was left has no dialog *)

CreateDone(s) ==
    /\ muts[s].kind = "create" /\ Succeeded(s)
    /\ ui' = IF muts[s].mine THEN Closed ELSE ui

UpdateDone(s) ==
    /\ muts[s].kind = "update" /\ Succeeded(s)
    /\ ui' = IF muts[s].mine THEN Closed ELSE ui

DeleteDone(s) ==
    /\ muts[s].kind = "delete" /\ Succeeded(s)
    /\ ui' = IF muts[s].mine THEN [ui EXCEPT !.confirm = Nobody] ELSE ui

ToggleDone(s) == muts[s].kind = "toggle" /\ Succeeded(s) /\ UNCHANGED ui

TriggerDone(s) == muts[s].kind = "trigger" /\ Succeeded(s) /\ UNCHANGED ui

Failing(s) == Rejected(s) /\ UNCHANGED ui

-----------------------------------------------------------------------------
Next ==
    \/ Enter(Blank) \/ Leave(Blank) \/ Network
    \/ OpenCreate \/ Dismiss \/ Submit \/ CancelDelete \/ ConfirmDelete
    \/ \E id \in Ids : OpenEdit(id) \/ Toggle(id) \/ Trigger(id) \/ AskDelete(id)
    \/ \E s \in Slots : \/ CreateDone(s) \/ UpdateDone(s) \/ DeleteDone(s)
                        \/ ToggleDone(s) \/ TriggerDone(s) \/ Failing(s)

Spec == Init /\ [][Next]_<<listVars, ui>>

-----------------------------------------------------------------------------
(* Properties *)

\* The dialog shows the job it will write: what late answers, other dialogs and
\* departures leave behind never reaches a new dialog, and a new job does not
\* start from the one edited before.
DialogIsWhole == ui.open => ui.of = ui.editing
=============================================================================
