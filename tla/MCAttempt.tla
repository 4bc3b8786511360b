------------------------------- MODULE MCAttempt -------------------------------
(***************************************************************************)
(* Few attempts with one or two agents for TLC.                            *)
(***************************************************************************)
EXTENDS Attempt

=============================================================================
