------------------------------ MODULE MCAccounts ------------------------------
(* AccountStore on a small instance; the values of each kind are alike. *)
EXTENDS AccountStore, TLC

Symmetry ==
  Permutations(Players) \cup Permutations(Emails) \cup Permutations(Nicknames)
    \cup Permutations(Passwords) \cup Permutations(Keys) \cup Permutations(Callers)

=============================================================================
