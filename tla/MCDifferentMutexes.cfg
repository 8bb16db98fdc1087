SPECIFICATION Spec
CONSTANTS
  lock_types <- MCTypes
  num_locks = 5
INVARIANTS
  TypeOK
  LockStaysTaken
  KindDecides
  MadeAgainUnused
PROPERTIES
  Termination
