----------------------------- MODULE MCSession -----------------------------
(***************************************************************************)
(* Session for TLC: the configurations give the constants their values.    *)
(***************************************************************************)
EXTENDS Session
=============================================================================
