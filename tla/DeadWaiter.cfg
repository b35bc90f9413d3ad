SPECIFICATION Spec
CONSTANTS
  f1 = f1
  f2 = f2
  f3 = f3
  w1 = w1
  w2 = w2
  t1 = t1
  t2 = t2
  Acquires <- ThreeFutures
  Threads <- TwoThreads
  Wakers = {w1}
  Need <- NeedOne
  InitPermits = 1
  MaxPermits = 2
  BatchCap = 1
  Closeable = TRUE
  OrderPolicy = "Fifo"
  LifoAbove = 0
  TryModes = {}
  StateWrites = {1}
  ThinAir = FALSE
  Panics = {"acquire"}
INVARIANT LeaderBlocked
