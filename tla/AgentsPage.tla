------------------------------- MODULE AgentsPage -------------------------------
(***************************************************************************)
(* The Agents page (web/src/pages/Agents.tsx) on top of ListPage: the      *)
(* modal that creates an agent and then shows its key, which the server    *)
(* tells only once, and the deletion.  The update button is in             *)
(* AgentUpdate.                                                            *)
(***************************************************************************)
EXTENDS ListPage

\* modal: the step of the modal; key: the agent whose key it shows.
Blank == [modal |-> "none", key |-> Nobody, confirm |-> Nobody]

AgentsUI == [modal : {"none", "form", "instructions"}, key : Ids \cup {Nobody},
             confirm : Ids \cup {Nobody}]

AgentsTypeOK == ListTypeOK /\ ui \in AgentsUI

Init == ListInit(Blank)

Uncovered == place = "page" /\ ui.modal = "none" /\ ui.confirm = Nobody

-----------------------------------------------------------------------------
OpenNewAgent ==
    /\ Uncovered
    /\ ui' = [Blank EXCEPT !.modal = "form"]
    /\ UNCHANGED listVars

\* closeModal: Cancel, Done, Escape; a creation under way goes on.
CloseModal ==
    /\ ui.modal # "none"
    /\ ui' = [ui EXCEPT !.modal = "none", !.key = Nobody]
    /\ UNCHANGED listVars

\* Faulty variant: the button is never disabled.
HandleCreateAgain ==
    /\ ui.modal = "form"
    /\ Send("create", Nobody) /\ UNCHANGED ui

\* handleCreate, with a name.
HandleCreate ==
    /\ ui.modal = "form" /\ ~Pending("create")
    /\ Send("create", Nobody) /\ UNCHANGED ui

\* The key is shown, whatever the modal showed, on the page that asked for it.
CreateDone(s) ==
    /\ muts[s].kind = "create" /\ Succeeded(s)
    /\ ui' = IF muts[s].mine THEN [ui EXCEPT !.modal = "instructions", !.key = muts[s].id]
                             ELSE ui

AskDelete(id) ==
    /\ Uncovered /\ id \in Shown
    /\ ui' = [ui EXCEPT !.confirm = id]
    /\ UNCHANGED listVars

CancelDelete ==
    /\ ui.confirm # Nobody
    /\ ui' = [ui EXCEPT !.confirm = Nobody]
    /\ UNCHANGED listVars

ConfirmDelete ==
    /\ ui.confirm # Nobody /\ ~Pending("delete")
    /\ Send("delete", ui.confirm) /\ UNCHANGED ui

DeleteDone(s) ==
    /\ muts[s].kind = "delete" /\ Succeeded(s)
    /\ ui' = IF muts[s].mine THEN [ui EXCEPT !.confirm = Nobody] ELSE ui

Failing(s) == Rejected(s) /\ UNCHANGED ui

-----------------------------------------------------------------------------
Next ==
    \/ Enter(Blank) \/ Leave(Blank) \/ Network
    \/ OpenNewAgent \/ CloseModal \/ HandleCreate \/ CancelDelete \/ ConfirmDelete
    \/ \E id \in Ids : AskDelete(id)
    \/ \E s \in Slots : CreateDone(s) \/ DeleteDone(s) \/ Failing(s)

Spec == Init /\ [][Next]_<<listVars, ui>>

-----------------------------------------------------------------------------
(* Properties *)

\* The key of a new agent stays on the screen until the user closes it: no late
\* answer to another creation and no opening of the form puts something in its
\* place.
KeyStep ==
    ui.modal = "instructions" /\ ui'.modal # "none" => ui'.modal = ui.modal /\ ui'.key = ui.key

KeyIsNotReplaced == [][KeyStep]_ui
=============================================================================
