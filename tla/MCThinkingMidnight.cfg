\* Calls of one attempt before and after midnight.
CONSTANTS
  Attempts <- MCAttempts
  AttemptMaxCalls = 6
  AttemptMaxTokens = 12
  DailyMaxCalls = 9
  DailyMaxTokens = 4
  TurnCalls = 1
  TurnTokens = 1
  Cost <- MCCost
  a1 = a1
  a2 = a2
  p = p
  Agents = {a1, a2}
  Players = {p}
  Deals <- MCDeals
  Race = Race
  Nobody = Nobody
  NoCard = NoCard
  CandidateEngine = FALSE
  MaxFallbacks = 1
  MaxDay = 2
  MidnightPhases = {"discussion"}
SPECIFICATION Spec
INVARIANT DailyLimitIsHard
CHECK_DEADLOCK FALSE
