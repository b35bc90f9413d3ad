----------------------------- MODULE Occupancy ------------------------------
(***************************************************************************)
(* How many futures wait and whether newcomers are still let in: the part  *)
(* of the queue's data that SemaphoreQueue, where a critical section is    *)
(* one step, and Callbacks, where it is unfolded into the user code that   *)
(* runs in it, have in common.  Both are shown to implement this.          *)
(***************************************************************************)
EXTENDS Integers, FiniteSetsExt

CONSTANT BatchCap   \* how many a round of close sends away at most

VARIABLES len, closed

Init == len = 0 /\ closed = FALSE

\* A newcomer is linked, which closing rules out at once.
Join == ~closed /\ len' = len + 1 /\ UNCHANGED closed

\* One that is linked is served, cancelled, or finds the queue closing.
Leave == len > 0 /\ len' = len - 1 /\ UNCHANGED closed

\* A round of close.
Round == closed' = TRUE /\ len' = len - Min({len, BatchCap})

Next == Join \/ Leave \/ Round

Spec == Init /\ [][Next]_<<len, closed>>
=============================================================================
