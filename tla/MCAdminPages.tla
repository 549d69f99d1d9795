------------------------------ MODULE MCAdminPages ------------------------------
(* AdminPages for TLC: what is interchangeable and how much of
   it a page has.  Agents are inserted and deleted only. *)
EXTENDS AdminPages, TLC

CONSTANTS Slots12, AgentIds

MCRowIds == [p \in Pages |-> IF p = "agents" THEN AgentIds ELSE {1}]
MCMaxRevs == [p \in Pages |-> IF p = "agents" THEN 1 ELSE 2]
MCRequests == [p \in Pages |-> IF p = "storage" THEN {CHOOSE s \in Slots12 : TRUE} ELSE Slots12]

Symmetry == Permutations(Slots12) \cup Permutations(Savers) \cup Permutations(AgentIds)
=============================================================================
