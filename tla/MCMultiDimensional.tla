------------------------- MODULE MCMultiDimensional -------------------------
(* MultiDimensional for TLC.  The sizes keep the example's proportions: two *)
(* of 512 KiB fill the budget of 1 MiB, and 800 KiB needs both gone.        *)
EXTENDS MultiDimensional

CONSTANTS large, half1, half2, quarter, small

FiveClients == {large, half1, half2, quarter, small}

SizeOf == [c \in Clients |-> CASE c = large -> 6
                               [] c \in {half1, half2} -> 4
                               [] c = quarter -> 2
                               [] c = small -> 1]
=============================================================================
