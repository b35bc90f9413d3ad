---------------------------- MODULE MCFutexMutex ----------------------------
(* FutexMutex for TLC: three threads, so that one can unlock and wake while  *)
(* another barges in and a third sleeps; the code's spin limit.              *)
EXTENDS FutexMutex

CONSTANTS p1, p2, p3

MCProcs == {p1, p2, p3}
MCSpinLimit == 4
=============================================================================
