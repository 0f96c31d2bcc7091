SPECIFICATION FairSpec
CONSTANTS
  Callers = {c1, c2}
  NumVms = 2
  Vcpus = 2
  Verbs <- MCVerbs
  ChannelSize = 1
  MaxCalls = 3
  MaxExits = 1
INVARIANT
  TypeOK
PROPERTIES
  RetryWins
  ToldIsTrue
  EveryCallEnds
