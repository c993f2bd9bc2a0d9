---------------------------- MODULE MCAdmission ----------------------------
(***************************************************************************)
(* Versions and calls for the run of Admission: clients at the floor, below*)
(* it, and with a header that does not parse; two nodes, a registration    *)
(* and a call without credentials.                                         *)
(***************************************************************************)
EXTENDS Admission

CONSTANTS k1, k2

Floor == <<0, 2, 0>>
ShedFloor == <<0, 14, 0>>

Calls ==
  {[header |-> h, key |-> k1] : h \in {<<>>, <<0, 14, 0>>, <<0, -1, 0>>}}
  \cup {[header |-> h, key |-> k2] : h \in {<<0, 2, 0>>, <<1, 0, 0>>}}
  \cup {[header |-> <<1, 0, 0>>, key |-> k] : k \in {Registration, None}}
=============================================================================
