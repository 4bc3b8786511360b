------------------------------- MODULE MCRoom -------------------------------
(***************************************************************************)
(* A small room for TLC.                                                   *)
(***************************************************************************)
EXTENDS Room

=============================================================================
