SPECIFICATION Spec
CONSTANTS
  num_accts = 3
  Openings = {2}
  Draws <- MCDraws
  Builds = {TRUE, FALSE}
  Unset = Unset
INVARIANTS
  LocksReleased
