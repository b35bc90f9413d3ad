-------------------------- MODULE MCSemaphoreQueue --------------------------
(* SemaphoreQueue for TLC: three futures and two threads.                   *)
EXTENDS SemaphoreQueue

CONSTANTS f1, f2, f3, t1, t2, w1, w2

ThreeFutures == {f1, f2, f3}
TwoThreads == {t1, t2}
TwoWakers == {w1, w2}

\* f2 asks for more than the others.
NeedMixed == [f \in Acquires |-> IF f = f2 THEN 2 ELSE 1]
NeedOne == [f \in Acquires |-> 1]

\* Threads are alike, and so are wakers, and futures that ask for the same.
Alike(fs) == {p @@ q @@ r : p \in Permutations(Threads), q \in Permutations(fs),
                           r \in Permutations(Wakers)}
AllAlike == Alike(Acquires)
SmallAlike == Alike({f1, f3})
=============================================================================
