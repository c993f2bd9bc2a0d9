------------------------------ MODULE MCRouting ------------------------------
(***************************************************************************)
(* Model values for the runs of Routing.                                   *)
(***************************************************************************)
EXTENDS Routing, TLC

\* Streams and calls are interchangeable when ShedSafe is empty or all of
\* Streams; nodes always are.
Symmetry == Permutations(Streams) \cup Permutations(Calls) \cup Permutations(Nodes)
=============================================================================
