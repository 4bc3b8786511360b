\* An agent and a player with two cards each, or two agents and a player with
\* one; three calls and four tokens for an attempt, of which two and two are
\* for the turns.  Midnight falls where nothing is in flight.
CONSTANTS
  Attempts <- MCAttempts
  AttemptMaxCalls = 3
  AttemptMaxTokens = 4
  DailyMaxCalls = 4
  DailyMaxTokens = 5
  TurnCalls = 2
  TurnTokens = 2
  Cost <- MCCost
  a1 = a1
  a2 = a2
  p = p
  Agents = {a1, a2}
  Players = {p}
  Deals <- MCDeals
  Race = Race
  Nobody = Nobody
  NoCard = NoCard
  CandidateEngine = TRUE
  MaxFallbacks = 1
  MaxDay = 2
  MidnightPhases = {"lobby"}
SPECIFICATION Spec
INVARIANTS
  DailyLimitIsHard
  AttemptLimitIsHard
  TurnsKeepTheirShare
PROPERTIES
  HintIsWanted
CHECK_DEADLOCK FALSE
