\* A player and two agents, who race for the first card, with two cards each
\* and one marker, over two attempts.  Three seats: the circle of turns has a
\* direction.
CONSTANTS
  NSeats = 3
  HandSize = 2
  Segments = {0}
  HintTotal = 1
  MaxAttempts = 2
  Agents = {2, 3}
  Race = Race
  Nobody = Nobody
  NoHint = NoHint
  NoReason = NoReason
SPECIFICATION FairTurnSpec
INVARIANTS
  TableInv
  NobodyIsForgotten
PROPERTIES
  TimeoutHitsItsTurn
  AgentPlaysFreshDecision
  PlaysAsRelay
  AttemptEnds
\* After the last attempt the lobby waits for players.
CHECK_DEADLOCK FALSE
