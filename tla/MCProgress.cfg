\* Two levels, two settings, three saves of which two may overlap.
CONSTANTS
  LastLevel = 2
  Fields = {minutes, seconds}
  Options = {low, high}
  Default = low
  Torn = Torn
  Empty = Empty
  MaxSaves = 3
  MaxInFlight = 2
SPECIFICATION ProgressSpec
INVARIANT CrashLosesNothing
 
CHECK_DEADLOCK FALSE
