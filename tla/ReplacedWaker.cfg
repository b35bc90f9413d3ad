SPECIFICATION Spec
CONSTANTS
  t1 = t1
  t2 = t2
  Threads <- TwoThreads
  MaxDepth <- Uneven
  MaxWaiting = 2
  BatchCap = 1
  Ops = {"update", "drop", "first_poll", "poll", "try_acquire", "close", "debug", "flags"}
  Reenters = {"wake", "abandoned", "replaced"}
INVARIANT NobodyWaitsForItself
