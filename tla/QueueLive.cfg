SPECIFICATION LiveSpec
CONSTANTS
  f1 = f1
  f2 = f2
  f3 = f3
  t1 = t1
  t2 = t2
  w1 = w1
  w2 = w2
  Acquires <- ThreeFutures
  Threads <- TwoThreads
  Wakers = {w1}
  Need <- NeedMixed
  InitPermits = 2
  MaxPermits = 2
  BatchCap = 1
  Closeable = TRUE
  OrderPolicy = "Custom"
  LifoAbove = 0
  TryModes = {TRUE}
  StateWrites = {}
  ThinAir = FALSE
  Panics = {}
INVARIANTS
  TypeOK
PROPERTIES
  ServedInTurn
  CloseDrains
  ServesItsLeaders
