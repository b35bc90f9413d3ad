SPECIFICATION LiveSpec
CONSTANTS
  w1 = w1
  w2 = w2
  w3 = w3
  w4 = w4
  Workers <- FourWorkers
  InitLimit = 2
  Limits = {0, 1, 2, 3}
INVARIANTS
  InFlightExact
  WaitsOnlyWhenFull
PROPERTIES
  NoneStartsAboveLimit
  ExcessDrains
  EveryWorkerServed
