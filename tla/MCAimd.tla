------------------------------- MODULE MCAimd -------------------------------
(* Aimd for TLC: more tasks than any limit lets in.                         *)
EXTENDS Aimd

CONSTANTS t1, t2, t3, t4, t5

FiveTasks == {t1, t2, t3, t4, t5}
=============================================================================
