SPECIFICATION LiveSpec
CONSTANTS
  t1 = t1
  t2 = t2
  Threads <- TwoThreads
  MaxDepth <- Uneven
  MaxWaiting = 2
  BatchCap = 1
  Ops = {"drop", "first_poll", "close", "debug"}
  Reenters = {"wake", "abandoned"}
INVARIANTS
  LockScoped
  NobodyWaitsForItself
PROPERTIES
  EveryCallReturns
  CountsLikeTheQueue
