SPECIFICATION LiveSpec
CONSTANTS
  c1 = c1
  c2 = c2
  c3 = c3
  k1 = k1
  k2 = k2
  k3 = k3
  k4 = k4
  k5 = k5
  k6 = k6
  Nobody = Nobody
  Clients <- ThreeClients
  Connections <- SixNames
  Seed <- OneSeed
INVARIANTS
  EachInOnePlace
  NoneIdleWhileWaiting
  PoolBounded
PROPERTIES
  LostOnPurpose
  EveryCheckoutEnds
