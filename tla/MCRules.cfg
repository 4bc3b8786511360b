\* Two seats with two cards each (blind until both have played one), three
\* segments, values 1 to 3 in two colours, one marker.
SPECIFICATION Spec
CONSTANTS
  LastSegment = 2
  NSeats = 2
  HandSize = 2
  MaxValue = 3
  CenterCap = 4
  Levels <- MCLevels
  Decks <- TwoPacks
  MaxShuffles = 2
  RevealAfter = 1
  Markers = 1
INVARIANTS
  DealtIsWinnable
  LosingIsLost
  SearchIsExact
CHECK_DEADLOCK FALSE
