------------------------------- MODULE Totals -------------------------------
(***************************************************************************)
(* The total of what the members of a set ask for or hold, as a count of   *)
(* units: a member x that has n[x] of them contributes <<x, 1>> to         *)
(* <<x, n[x]>>.  There is no recursion in it, and so it can be proved      *)
(* about.                                                                  *)
(***************************************************************************)
EXTENDS Integers, FiniteSets

Units(n, S) == UNION {{x} \X (1..n[x]) : x \in S}

Total(n, S) == Cardinality(Units(n, S))
=============================================================================
