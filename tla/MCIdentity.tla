------------------------------ MODULE MCIdentity ------------------------------
(* Identity on a small instance; tabs and passwords are alike. *)
EXTENDS Identity, TLC

Symmetry == Permutations(Clients) \cup Permutations(Passwords) \cup Permutations(Players)

=============================================================================
