------------------------- MODULE MCConcurrencyLimit -------------------------
(* ConcurrencyLimit for TLC: more workers than any limit lets in.           *)
EXTENDS ConcurrencyLimit

CONSTANTS w1, w2, w3, w4

FourWorkers == {w1, w2, w3, w4}
=============================================================================
