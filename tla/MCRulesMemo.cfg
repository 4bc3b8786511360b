\* Two seats with three cards each, five segments, values 1 to 4 in two colours;
\* one condition, as in levels 4 and 5 of the game, and one shuffle.
SPECIFICATION Spec
CONSTANTS
  LastSegment = 4
  NSeats = 2
  HandSize = 3
  MaxValue = 4
  CenterCap = 4
  Levels <- ClosestLevels
  Decks <- CloseDecks
  MaxShuffles = 1
  RevealAfter = 2
  Markers = 0
PROPERTY
  NoDealIsRefused
CHECK_DEADLOCK FALSE
