SPECIFICATION NudgeSpec
CONSTANTS
  NumVms = 1
  MaxPool = 4
  Selected = {1}
  MissingStreakDrop = 3
  DaemonLostStreak = 3
  MaxHistory = 4
  MaxEvents = 4
CHECK_DEADLOCK FALSE
INVARIANT
  PressesAddUp
