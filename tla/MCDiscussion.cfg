\* One person, two agents, two attempts of two messages each.
SPECIFICATION FairSpec
CONSTANTS
  Humans = {"h"}
  Speakers <- MCSpeakers
  MaxFailures = 2
  MaxReplies = 1
  BackoffStart = 1
  HardCap = 2
  Sorts = {"talk", "injection", "meta"}
  Extracts <- MCExtracts
  Proposals <- MCProposals
  MaxFacts = 2
  MaxAttempts = 2
  MaxChat = 2
INVARIANT ModelsSeeTheTalkOnly
INVARIANT ContractIsAgreed
PROPERTY AnswersTheLatest
PROPERTY NothingGoesUnheard
PROPERTY SpeaksInItsOwnDiscussion
CHECK_DEADLOCK FALSE
