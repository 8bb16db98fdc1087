SPECIFICATION Spec
CONSTANTS
  Programs = {"condvar"}
  MAX_LOOPS = 10
PROPERTIES
  Termination
