------------------------------- MODULE MCLogin -------------------------------
(***************************************************************************)
(* Finite instances of Login.                                              *)
(***************************************************************************)
EXTENDS Login

=============================================================================
