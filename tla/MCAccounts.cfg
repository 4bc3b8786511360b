\* Two accounts, two calls under way, a right and a wrong key.
CONSTANTS
  Players = {p1, p2}
  Emails = {e1, e2}
  Nicknames = {n1, n2}
  Passwords = {w1, w2}
  Keys = {k1, k2}
  None = None
  Callers = {c1, c2}
  MaxCalls = 5
SPECIFICATION StoreSpec
SYMMETRY Symmetry
INVARIANTS
  StoreInv
  DeletedIsErased
PROPERTIES
  ImplementsAccounts
