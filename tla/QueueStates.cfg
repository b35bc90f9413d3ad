SPECIFICATION Spec
CONSTANTS
  f1 = f1
  f2 = f2
  f3 = f3
  t1 = t1
  t2 = t2
  w1 = w1
  w2 = w2
  Acquires <- ThreeFutures
  Threads <- TwoThreads
  Wakers <- TwoWakers
  Need <- NeedMixed
  InitPermits = 2
  MaxPermits = 2
  BatchCap = 1
  Closeable = FALSE
  OrderPolicy = "Custom"
  LifoAbove = 0
  TryModes = {FALSE}
  StateWrites = {0, 2}
  ThinAir = TRUE
  Panics = {"state"}
SYMMETRY SmallAlike
INVARIANTS
  LeaderBlocked
  PermitsConserved
  NoStrandedWaker
