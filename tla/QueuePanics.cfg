SPECIFICATION Spec
CONSTANTS
  f1 = f1
  f2 = f2
  f3 = f3
  t1 = t1
  t2 = t2
  w1 = w1
  w2 = w2
  Acquires <- ThreeFutures
  Threads <- TwoThreads
  Wakers = {w1}
  Need <- NeedOne
  InitPermits = 2
  MaxPermits = 2
  BatchCap = 2
  Closeable = TRUE
  OrderPolicy = "Hybrid"
  LifoAbove = 1
  TryModes = {TRUE}
  StateWrites = {2}
  ThinAir = FALSE
  Panics = {"acquire", "waker", "order"}
SYMMETRY AllAlike
INVARIANTS
  ListConsistent
  DiscardedListEmpty
  HeadBlocked
  NoStrandedWaker
PROPERTIES
  NothingAdmitted
  ImplementsSemaphore
  BalancedStep
  CountsItsWaiters
