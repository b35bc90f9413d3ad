SPECIFICATION LiveSpec
CONSTANTS
  large = large
  half1 = half1
  half2 = half2
  quarter = quarter
  small = small
  Clients <- FiveClients
  Size <- SizeOf
  Requests = 2
  Bytes = 8
INVARIANTS
  BothBudgetsExact
  HeadLacksRoom
PROPERTIES
  EveryRequestServed
