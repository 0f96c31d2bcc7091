SPECIFICATION MCSpec
CONSTANTS
  NumVms = 2
  MaxPool = 2
  Selected = {1, 2}
  MissingStreakDrop = 1
  DaemonLostStreak = 2
  MaxHistory = 2
  MaxEvents = 4
CHECK_DEADLOCK FALSE
INVARIANTS
  TypeOK
  RosterIsRecent
  TransitionsChain
  NeverRetargets
PROPERTIES
  ScreenCatchesUp
  OutageIsShown
