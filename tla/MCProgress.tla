------------------------------ MODULE MCProgress ------------------------------
(***************************************************************************)
(* Two levels, two settings and a few saves for TLC.                       *)
(***************************************************************************)
EXTENDS Progress

=============================================================================
