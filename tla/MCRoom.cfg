\* Two seats, two accounts on two sockets, an admin and an agent, and fair
\* timeouts of lost seats.
CONSTANTS
  NSeats = 2
  MaxAgents = 1
  Accounts = {p1, p2}
  Sockets = {k1, k2, a}
  AdminSockets = {a}
  Admin = Admin
  None = None
  Gone = Gone
SPECIFICATION FairSpec
INVARIANTS
  SeatsAgree
  LostSeatIsHeld
  HostTimerIsCurrent
PROPERTIES
  NoNewSeatInGame
  HostKeepsSeatWhileHeld
  LostSeatSettles
