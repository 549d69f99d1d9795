------------------------------- MODULE StoragePage -------------------------------
(***************************************************************************)
(* The Storage page (web/src/pages/Storage.tsx) on top of ListPage.  Here  *)
(* a form is known by the row it was filled from and by what its config    *)
(* describes; the configuration itself never comes back from the server,   *)
(* so every dialog starts with none.                                       *)
(***************************************************************************)
EXTENDS ListPage

CONSTANTS Types     \* kinds of destination

Blank == [open |-> FALSE, editing |-> Nobody, of |-> Nobody, confirm |-> Nobody,
          type |-> "local", config |-> "none"]

StorageUI == [open : BOOLEAN, editing : Ids \cup {Nobody}, of : Ids \cup {Nobody},
              confirm : Ids \cup {Nobody}, type : Types, config : Types \cup {"none"}]

StorageTypeOK == ListTypeOK /\ ui \in StorageUI

Init == ListInit(Blank)

Uncovered == place = "page" /\ ~ui.open /\ ui.confirm = Nobody

Saving == Pending("create") \/ Pending("update")

-----------------------------------------------------------------------------
(* The dialog *)

OpenCreate ==
    /\ Uncovered
    /\ ui' = [Blank EXCEPT !.open = TRUE]
    /\ UNCHANGED listVars

\* Faulty variant: the config typed before is kept.
OpenEditKeepsConfig(id) ==
    /\ Uncovered /\ id \in Shown
    /\ \E t \in Types :
        ui' = [ui EXCEPT !.open = TRUE, !.editing = id, !.of = id, !.type = t]
    /\ UNCHANGED listVars

\* The list has the name and the type of a row.
OpenEdit(id) ==
    /\ Uncovered /\ id \in Shown
    /\ \E t \in Types :
        ui' = [Blank EXCEPT !.open = TRUE, !.editing = id, !.of = id, !.type = t]
    /\ UNCHANGED listVars

\* Another type has other fields.
SetType(t) ==
    /\ ui.open /\ t # ui.type
    /\ ui' = [ui EXCEPT !.type = t, !.config = "none"]
    /\ UNCHANGED listVars

\* ConfigFields: a field of the type shown.
SetConfig ==
    /\ ui.open /\ ui.config # ui.type
    /\ ui' = [ui EXCEPT !.config = ui.type]
    /\ UNCHANGED listVars

Closed == [ui EXCEPT !.open = FALSE, !.editing = Nobody]

Dismiss ==
    /\ ui.open
    /\ ui' = Closed
    /\ UNCHANGED listVars

\* handleSubmit, with a name.
Submit ==
    /\ ui.open /\ ~Saving
    /\ IF ui.editing = Nobody THEN Send("create", Nobody) ELSE Send("update", ui.editing)
    /\ UNCHANGED ui

-----------------------------------------------------------------------------
(* The rows and the callbacks *)

AskDelete(id) ==
    /\ Uncovered /\ id \in Shown
    /\ ui' = [ui EXCEPT !.confirm = id]
    /\ UNCHANGED listVars

CancelDelete ==
    /\ ui.confirm # Nobody
    /\ ui' = [ui EXCEPT !.confirm = Nobody]
    /\ UNCHANGED listVars

ConfirmDelete ==
    /\ ui.confirm # Nobody /\ ~Pending("delete")
    /\ Send("delete", ui.confirm) /\ UNCHANGED ui

CreateDone(s) ==
    /\ muts[s].kind = "create" /\ Succeeded(s)
    /\ ui' = IF muts[s].mine THEN Closed ELSE ui

UpdateDone(s) ==
    /\ muts[s].kind = "update" /\ Succeeded(s)
    /\ ui' = IF muts[s].mine THEN Closed ELSE ui

\* A destination that jobs still use is refused by the database (Refuse).
DeleteDone(s) ==
    /\ muts[s].kind = "delete" /\ Succeeded(s)
    /\ ui' = IF muts[s].mine THEN [ui EXCEPT !.confirm = Nobody] ELSE ui

Failing(s) == Rejected(s) /\ UNCHANGED ui

-----------------------------------------------------------------------------
Next ==
    \/ Enter(Blank) \/ Leave(Blank) \/ Network
    \/ OpenCreate \/ SetConfig \/ Dismiss \/ Submit \/ CancelDelete \/ ConfirmDelete
    \/ \E t \in Types : SetType(t)
    \/ \E id \in Ids : OpenEdit(id) \/ AskDelete(id)
    \/ \E s \in Slots : CreateDone(s) \/ UpdateDone(s) \/ DeleteDone(s) \/ Failing(s)

Spec == Init /\ [][Next]_<<listVars, ui>>

-----------------------------------------------------------------------------
(* Properties *)

\* What is saved for a destination belongs to it: the form is of the row that
\* is edited, and its config of the type that is chosen, whichever dialogs were
\* open before.
ConfigIsOfDestination ==
    ui.open => ui.of = ui.editing /\ ui.config \in {"none", ui.type}
=============================================================================
