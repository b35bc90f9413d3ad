---------------------------- MODULE MCCallbacks -----------------------------
(* Callbacks for TLC: two threads.                                           *)
EXTENDS Callbacks, TLC

CONSTANTS t1, t2

TwoThreads == {t1, t2}

\* Every call of the one may be called again into; the other calls from outside only.
Uneven == (t1 :> 2) @@ (t2 :> 1)
=============================================================================
