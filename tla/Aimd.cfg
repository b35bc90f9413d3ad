SPECIFICATION LiveSpec
CONSTANTS
  t1 = t1
  t2 = t2
  t3 = t3
  t4 = t4
  t5 = t5
  Tasks <- FiveTasks
  Low = 1
  High = 3
  Start = 2
  Capacity = 2
PROPERTIES
  IsALimit
  OverloadEnds
  EveryTaskAdmitted
