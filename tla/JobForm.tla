--------------------------------- MODULE JobForm ---------------------------------
(***************************************************************************)
(* What is typed into the dialog of the Jobs page (web/src/pages/Jobs.tsx) *)
(* and what the job becomes when it is saved.  One job, dialog after       *)
(* dialog; requests that overtake each other are in JobsPage.              *)
(***************************************************************************)
EXTENDS Naturals

CONSTANTS
    JobTypes,   \* JOB_TYPES
    Required    \* the fields handleSubmit insists on

ASSUME JobFormAssumption == "files" \in JobTypes /\ Required # {}

VARIABLES
    dialog,     \* "closed", or what the dialog does: "create", "edit"
    form,       \* the form
    custom,     \* customCron: the schedule is typed, not chosen
    job         \* the row of the server ("edit" needs one)

formVars == <<dialog, form, custom, job>>

\* How a source of a type is given: paths, or a connection string.
Fits(t) == IF t = "files" THEN "paths" ELSE "conn_string"

\* given: the required fields that are filled in; source: what it describes;
\* cron: one of the presets, or another schedule.
Form == [given : SUBSET Required, type : JobTypes,
         source : {"none", "paths", "conn_string"}, cron : {"preset", "other"}]

EmptyForm == [given |-> {}, type |-> "files", source |-> "none", cron |-> "preset"]

FormTypeOK ==
    /\ dialog \in {"closed", "create", "edit"}
    /\ form \in Form /\ custom \in BOOLEAN
    /\ job \in Form \cup {EmptyForm}

FormInit == dialog = "closed" /\ form = EmptyForm /\ custom = FALSE /\ job = EmptyForm

\* The row exists: it has what a job must have.
Saved == job.given = Required

OpenCreate ==
    /\ dialog = "closed"
    /\ dialog' = "create" /\ form' = EmptyForm /\ custom' = FALSE
    /\ UNCHANGED job

OpenEdit ==
    /\ dialog = "closed" /\ Saved
    /\ dialog' = "edit" /\ form' = job /\ custom' = (job.cron = "other")
    /\ UNCHANGED job

CloseDialog ==
    /\ dialog # "closed" /\ dialog' = "closed"
    /\ UNCHANGED <<form, custom, job>>

\* The name, the agent and the destination: chosen, or emptied.
Fill ==
    /\ dialog # "closed"
    /\ \E g \in SUBSET Required : g # form.given /\ form' = [form EXCEPT !.given = g]
    /\ UNCHANGED <<dialog, custom, job>>

\* Faulty variant: the source of the former type stays.
SetTypeOnly(t) ==
    /\ dialog # "closed" /\ t # form.type
    /\ form' = [form EXCEPT !.type = t]
    /\ UNCHANGED <<dialog, custom, job>>

SetType(t) ==
    /\ dialog # "closed" /\ t # form.type
    /\ form' = [form EXCEPT !.type = t, !.source = "none"]
    /\ UNCHANGED <<dialog, custom, job>>

\* SourceFields: the file browser or the text field for files, one field for
\* the other types.
SetSource ==
    /\ dialog # "closed"
    /\ form' = [form EXCEPT !.source = Fits(form.type)]
    /\ form' # form
    /\ UNCHANGED <<dialog, custom, job>>

\* The list of schedules: Custom keeps the schedule and shows it as text.
ChooseSchedule ==
    /\ dialog # "closed"
    /\ \/ custom' = TRUE /\ form' = form
       \/ custom' = FALSE /\ form' = [form EXCEPT !.cron = "preset"]
    /\ UNCHANGED <<dialog, job>>

TypeSchedule(c) ==
    /\ dialog # "closed" /\ custom
    /\ form' = [form EXCEPT !.cron = c]
    /\ UNCHANGED <<dialog, custom, job>>

\* handleSubmit with every required field: the server writes the row and the
\* dialog closes, or an error is shown in it (and nothing changes here).
Save ==
    /\ dialog # "closed" /\ form.given = Required
    /\ job' = form /\ dialog' = "closed"
    /\ UNCHANGED <<form, custom>>

FormNext ==
    \/ OpenCreate \/ OpenEdit \/ CloseDialog \/ Fill \/ SetSource \/ ChooseSchedule \/ Save
    \/ \E t \in JobTypes : SetType(t)
    \/ \E c \in {"preset", "other"} : TypeSchedule(c)

FormSpec == FormInit /\ [][FormNext]_formVars

-----------------------------------------------------------------------------
(* Properties *)

\* However types are changed, dialogs dismissed and jobs edited again, the job
\* that is saved describes a source of its own type, which is what the agent
\* looks for.
SourceFitsType == job.source \in {"none", Fits(job.type)}
=============================================================================
