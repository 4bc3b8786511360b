\* One account and its seat, two tabs, two passwords, an admin.
CONSTANTS
  Players = {p1}
  Passwords = {w1, w2}
  None = None
  Clients = {c1, c2}
  Admin = Admin
  Held = Held
  Gone = Gone
  MaxCalls = 2
  MaxVersion = 3
SPECIFICATION Spec
SYMMETRY Symmetry
INVARIANTS
  OldPasswordOpensNothing
  SeatNeedsItsSession
PROPERTIES
  NothingRevives
  AuditedFirst
