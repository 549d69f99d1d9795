--------------------------------- MODULE MCPages ---------------------------------
(***************************************************************************)
(* Small instances for TLC of what browser, server and agent do together:  *)
(* the run history, browsing directories and updating agents.  They share  *)
(* no state, and a behaviour is of one of them.                            *)
(***************************************************************************)
EXTENDS RunsPage, Browse, AgentUpdate, TLC

CONSTANTS root, home

VARIABLE about      \* what this behaviour is about

MCPath == (root :> <<>>) @@ (home :> <<home>>)

MCInit ==
    /\ about \in {"runs", "browse", "update"}
    /\ Init /\ BrowseInit /\ UpdateInit

MCNext ==
    /\ \/ about = "runs" /\ Next /\ UNCHANGED <<browseVars, updateVars>>
       \/ about = "browse" /\ BrowseNext /\ UNCHANGED <<vars, updateVars>>
       \/ about = "update" /\ UpdateNext /\ UNCHANGED <<vars, browseVars>>
    /\ UNCHANGED about

MCSpec == MCInit /\ [][MCNext]_<<about, vars, browseVars, updateVars>>

\* The pages share model values: fewer permutations, and all of those of each.
Symmetry == Permutations(Agents) \cup Permutations(Requests) \cup Permutations(Files)
=============================================================================
