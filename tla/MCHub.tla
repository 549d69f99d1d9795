---------------------------------- MODULE MCHub ----------------------------------
(* Small instances of Hub for TLC. *)
EXTENDS Hub, TLC

\* Agents, connections and callers are interchangeable; safety runs only.
Interchangeable == Permutations(Agents) \cup Permutations(Conns) \cup Permutations(Callers)
=============================================================================
