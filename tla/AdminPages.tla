------------------------------- MODULE AdminPages -------------------------------
(***************************************************************************)
(* The pages that administer jobs, destinations, agents and settings: a    *)
(* behaviour is of one of them, or of the form in the dialog of a job.     *)
(***************************************************************************)
EXTENDS ListPage, JobForm, SettingsPage

CONSTANT Types      \* kinds of destination

ASSUME AdminPagesAssumption == "local" \in Types

Jobs == INSTANCE JobsPage
Storage == INSTANCE StoragePage
Agents == INSTANCE AgentsPage

lists == <<listVars, ui>>
adminVars == <<lists, formVars, settingsVars>>

AdminInit ==
    /\ CASE page = "jobs" -> Jobs!Init
         [] page = "storage" -> Storage!Init
         [] OTHER -> Agents!Init
    /\ FormInit /\ SettingsInit

InitAll == page \in Pages /\ AdminInit

AdminNext ==
    \/ page = "jobs" /\ Jobs!Next /\ UNCHANGED <<formVars, settingsVars>>
    \/ page = "form" /\ FormNext /\ UNCHANGED <<lists, settingsVars>>
    \/ page = "storage" /\ Storage!Next /\ UNCHANGED <<formVars, settingsVars>>
    \/ page = "agents" /\ Agents!Next /\ UNCHANGED <<formVars, settingsVars>>
    \/ page = "settings" /\ SettingsNext /\ UNCHANGED <<lists, formVars>>

AdminSpec == InitAll /\ [][AdminNext]_adminVars

-----------------------------------------------------------------------------
(* Properties: those of the pages *)

AdminTypeOK ==
    /\ FormTypeOK /\ SettingsTypeOK
    /\ CASE page = "jobs" -> Jobs!JobsTypeOK
         [] page = "storage" -> Storage!StorageTypeOK
         [] OTHER -> Agents!AgentsTypeOK

\* A job's dialog shows the job it will write (JobsPage).
DialogIsWhole == page = "jobs" => Jobs!DialogIsWhole

\* What is saved for a destination belongs to it (StoragePage).
ConfigIsOfDestination == page = "storage" => Storage!ConfigIsOfDestination

\* The key of a new agent stays until the user closes it (AgentsPage).
KeyIsNotReplaced == [][page = "agents" => Agents!KeyStep]_adminVars
=============================================================================
