SPECIFICATION Spec
CONSTANTS
  Programs = {"condvar", "spin"}
  MAX_LOOPS = 10
INVARIANTS
  TypeOK
  FlagSetPastWait
  NoLostWakeUp
  FlagFollowsCount
PROPERTIES
  EndsOrOversleeps
