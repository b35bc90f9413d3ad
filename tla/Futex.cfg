SPECIFICATION LiveSpec
CONSTANTS
  p1 = p1
  p2 = p2
  p3 = p3
  Procs <- MCProcs
  SpinLimit <- MCSpinLimit
INVARIANTS
  WordTracksOwner
  MutualExclusion
  NoSleeperForgotten
PROPERTIES
  ImplementsMutex
  SomebodyLocks
