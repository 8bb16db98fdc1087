SPECIFICATION Spec
CONSTANTS
  Times = {0, 2}
  Kills = 12
  Interrupts = 2
  Success = Success
  Failures = {Failed}
  Killed = Killed
  Unwritten = Unwritten
  Stops = 2
  Workers = {t1, t2, t3, t4}
  Nobody = Nobody
  Meddles = 2
  which_prime = 5
  Unused = Unused
INVARIANTS
  TypeOK
  OnlyTheTargetDies
  StatusOfChild
  FreedOnce
  ReturnsNthPrime
PROPERTIES
  EndsWhenRaised
  ProgramsEnd
