------------------------------ MODULE MCTurns ------------------------------
(***************************************************************************)
(* Small tables with players and agents for TLC.                           *)
(***************************************************************************)
EXTENDS Turns

=============================================================================
