CONSTANTS
  Names = {a, b}
  Self = a
  NoName = NoName
  Callers = {p, q}
  TTL = 3
  HB = 2
  Lag = 1
  MaxClock = 3
  MaxTerm = 2
  MaxCalls = 3
SPECIFICATION FairSpec
INVARIANTS TypeOK LeaseOwned CandidateIsTransient
PROPERTIES StepsDownOnStaleCheck OneLeaderPerTerm LostLeaderStepsDown
CHECK_DEADLOCK FALSE
