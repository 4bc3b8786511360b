\* Two agents, two levels, two attempts; the last brief of a run is kept.
CONSTANTS
  Agents = {a1, a2}
  LastLevel = 2
  KeptBriefs = 1
  MaxAttempts = 2
SPECIFICATION FairSpec
PROPERTIES OnlyRetriesInherit
CHECK_DEADLOCK FALSE
