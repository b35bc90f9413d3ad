----------------------------- MODULE CommonFacts -----------------------------
(***************************************************************************)
(* What several proofs need: lists of waiters, which hold nobody twice,    *)
(* and what happens to them when one leaves, one joins at either end, and  *)
(* the first of them are taken off; minima and maxima; and totals, which   *)
(* add up.                                                                 *)
(***************************************************************************)
EXTENDS Integers, SequencesExt, Totals, SequenceTheorems, FiniteSetTheorems,
        WellFoundedInduction, TLAPS

----------------------------------------------------------------------------
\* Taking one node off a list: what check, close, poll and drop do to it.
LEMMA RemoveAtProperties ==
  ASSUME NEW S, NEW s \in Seq(S), NEW i \in DOMAIN s
  PROVE  /\ RemoveAt(s, i) \in Seq(S)
         /\ Len(RemoveAt(s, i)) = Len(s) - 1
         /\ \A j \in 1..(Len(s) - 1) : RemoveAt(s, i)[j] = IF j < i THEN s[j] ELSE s[j + 1]
<1>1. i \in 1..Len(s) /\ Len(s) \in Nat
  BY LenProperties
<1> DEFINE a == SubSeq(s, 1, i - 1)
           b == SubSeq(s, i + 1, Len(s))
<1>2. /\ a \in Seq(S) /\ Len(a) = i - 1
      /\ \A j \in 1..(i - 1) : a[j] = s[j]
  BY <1>1
<1>3. /\ b \in Seq(S) /\ Len(b) = Len(s) - i
      /\ \A j \in 1..(Len(s) - i) : b[j] = s[i + j]
  BY <1>1
<1>4. RemoveAt(s, i) = a \o b
  BY DEF RemoveAt
<1> HIDE DEF a, b
<1>5. /\ a \o b \in Seq(S)
      /\ Len(a \o b) = Len(s) - 1
      /\ \A j \in 1..(Len(s) - 1) : (a \o b)[j] = IF j < i THEN a[j] ELSE b[j - (i - 1)]
  <2>1. /\ a \o b \in Seq(S)
        /\ Len(a \o b) = Len(a) + Len(b)
        /\ \A j \in 1..(Len(a) + Len(b)) :
              (a \o b)[j] = IF j <= Len(a) THEN a[j] ELSE b[j - Len(a)]
    BY <1>2, <1>3, ConcatProperties
  <2>2. Len(a) = i - 1 /\ Len(b) = Len(s) - i /\ Len(a) + Len(b) = Len(s) - 1
    BY <1>1, <1>2, <1>3
  <2>3. ASSUME NEW j \in 1..(Len(s) - 1)
        PROVE  (a \o b)[j] = IF j < i THEN a[j] ELSE b[j - (i - 1)]
    <3>1. j \in 1..(Len(a) + Len(b)) /\ (j <= Len(a) <=> j < i)
      BY <2>2, <1>1
    <3>2. (a \o b)[j] = IF j <= Len(a) THEN a[j] ELSE b[j - Len(a)]
      BY <3>1, <2>1
    <3> QED
      BY <3>1, <3>2, <2>2
  <2> QED
    BY <2>1, <2>2, <2>3
<1>6. ASSUME NEW j \in 1..(Len(s) - 1) PROVE (a \o b)[j] = IF j < i THEN s[j] ELSE s[j + 1]
  <2>1. CASE j < i
    BY <2>1, <1>1, <1>2, <1>5
  <2>2. CASE ~(j < i)
    <3>1. j - (i - 1) \in 1..(Len(s) - i) /\ i + (j - (i - 1)) = j + 1
      BY <2>2, <1>1
    <3> QED
      BY <3>1, <2>2, <1>1, <1>3, <1>5
  <2> QED
    BY <2>1, <2>2
<1> QED
  BY <1>4, <1>5, <1>6

\* A list without repetition loses exactly the node that is taken off.
LEMMA RemoveAtKeepsInjective ==
  ASSUME NEW S, NEW s \in Seq(S), IsInjective(s), NEW i \in DOMAIN s
  PROVE  /\ IsInjective(RemoveAt(s, i))
         /\ ToSet(RemoveAt(s, i)) = ToSet(s) \ {s[i]}
<1> DEFINE r == RemoveAt(s, i)
<1>1. /\ r \in Seq(S) /\ Len(r) = Len(s) - 1
      /\ \A j \in 1..(Len(s) - 1) : r[j] = IF j < i THEN s[j] ELSE s[j + 1]
  BY RemoveAtProperties
<1>2. i \in 1..Len(s) /\ Len(s) \in Nat /\ DOMAIN s = 1..Len(s) /\ DOMAIN r = 1..(Len(s) - 1)
  BY <1>1, LenProperties
<1>3. \A j, k \in 1..Len(s) : s[j] = s[k] => j = k
  BY <1>2 DEF IsInjective
<1> HIDE DEF r
<1>4. ASSUME NEW j \in 1..(Len(s) - 1), NEW k \in 1..(Len(s) - 1), r[j] = r[k]
      PROVE  j = k
  BY <1>1, <1>2, <1>3, <1>4
<1>5. ASSUME NEW j \in 1..(Len(s) - 1) PROVE r[j] \in ToSet(s) \ {s[i]}
  BY <1>1, <1>2, <1>3 DEF ToSet
<1>6. ASSUME NEW x \in ToSet(s) \ {s[i]} PROVE x \in ToSet(r)
  <2>1. PICK j \in 1..Len(s) : s[j] = x /\ j # i
    BY <1>2 DEF ToSet
  <2>2. CASE j < i
    BY <2>1, <2>2, <1>1, <1>2 DEF ToSet
  <2>3. CASE j > i
    <3>1. j - 1 \in 1..(Len(s) - 1) /\ r[j - 1] = s[j]
      BY <2>1, <2>3, <1>1, <1>2
    <3> QED
      BY <3>1, <2>1, <1>2 DEF ToSet
  <2> QED
    BY <2>1, <2>2, <2>3, <1>2
<1>7. IsInjective(r)
  BY <1>2, <1>4 DEF IsInjective
<1>8. ToSet(r) = ToSet(s) \ {s[i]}
  BY <1>2, <1>5, <1>6 DEF ToSet
<1> QED
  BY <1>7, <1>8 DEF r

\* A node joins at the back.
LEMMA AppendKeepsInjective ==
  ASSUME NEW S, NEW s \in Seq(S), IsInjective(s), NEW x \in S, x \notin ToSet(s)
  PROVE  /\ Append(s, x) \in Seq(S)
         /\ Len(Append(s, x)) = Len(s) + 1
         /\ IsInjective(Append(s, x))
         /\ ToSet(Append(s, x)) = ToSet(s) \cup {x}
<1> DEFINE r == Append(s, x)
<1>1. /\ r \in Seq(S) /\ Len(r) = Len(s) + 1
      /\ \A j \in 1..Len(s) : r[j] = s[j]
      /\ r[Len(s) + 1] = x
  BY AppendProperties
<1>2. Len(s) \in Nat /\ DOMAIN s = 1..Len(s) /\ DOMAIN r = 1..(Len(s) + 1)
  BY <1>1, LenProperties
<1> HIDE DEF r
<1>3. \A j, k \in 1..Len(s) : s[j] = s[k] => j = k
  BY <1>2 DEF IsInjective
<1>4. \A j \in 1..Len(s) : s[j] # x
  BY <1>2 DEF ToSet
<1>5. \A j \in 1..(Len(s) + 1) : j \in 1..Len(s) \/ j = Len(s) + 1
  BY <1>2
<1>6. IsInjective(r)
  BY <1>1, <1>2, <1>3, <1>4, <1>5 DEF IsInjective
<1>7. ToSet(r) = ToSet(s) \cup {x}
  BY <1>1, <1>2, <1>5 DEF ToSet
<1> QED
  BY <1>1, <1>6, <1>7 DEF r

\* A node joins at the front.
LEMMA PrependKeepsInjective ==
  ASSUME NEW S, NEW s \in Seq(S), IsInjective(s), NEW x \in S, x \notin ToSet(s)
  PROVE  /\ <<x>> \o s \in Seq(S)
         /\ Len(<<x>> \o s) = Len(s) + 1
         /\ IsInjective(<<x>> \o s)
         /\ ToSet(<<x>> \o s) = ToSet(s) \cup {x}
<1> DEFINE r == <<x>> \o s
<1>1. /\ r \in Seq(S) /\ Len(r) = 1 + Len(s)
      /\ \A j \in 1..(1 + Len(s)) : r[j] = IF j <= 1 THEN x ELSE s[j - 1]
  <2>1. <<x>> \in Seq(S) /\ Len(<<x>>) = 1 /\ <<x>>[1] = x
    OBVIOUS
  <2>2. /\ r \in Seq(S) /\ Len(r) = Len(<<x>>) + Len(s)
        /\ \A j \in 1..(Len(<<x>>) + Len(s)) :
              r[j] = IF j <= Len(<<x>>) THEN <<x>>[j] ELSE s[j - Len(<<x>>)]
    BY <2>1, ConcatProperties
  <2>3. Len(s) \in Nat
    BY LenProperties
  <2> HIDE DEF r
  <2> QED
    BY <2>1, <2>2, <2>3
<1>2. Len(s) \in Nat /\ DOMAIN s = 1..Len(s) /\ DOMAIN r = 1..(1 + Len(s))
  BY <1>1, LenProperties
<1> HIDE DEF r
<1>3. \A j, k \in 1..Len(s) : s[j] = s[k] => j = k
  BY <1>2 DEF IsInjective
<1>4. \A j \in 1..Len(s) : s[j] # x
  BY <1>2 DEF ToSet
<1>5. \A j \in 1..(1 + Len(s)) : \/ j = 1 /\ r[j] = x
                                 \/ j - 1 \in 1..Len(s) /\ r[j] = s[j - 1]
  BY <1>1, <1>2
<1>6. IsInjective(r)
  BY <1>2, <1>3, <1>4, <1>5 DEF IsInjective
<1>7. \A j \in 1..Len(s) : j + 1 \in 1..(1 + Len(s)) /\ r[j + 1] = s[j]
  BY <1>1, <1>2
<1>8. 1 \in 1..(1 + Len(s)) /\ r[1] = x
  BY <1>1, <1>2
<1>9. ToSet(r) = ToSet(s) \cup {x}
  <2>1. ASSUME NEW j \in 1..(1 + Len(s)) PROVE r[j] \in ToSet(s) \cup {x}
    BY <1>2, <1>5 DEF ToSet
  <2>2. ASSUME NEW j \in 1..Len(s) PROVE s[j] \in ToSet(r)
    BY <1>2, <1>7 DEF ToSet
  <2>3. x \in ToSet(r)
    BY <1>2, <1>8 DEF ToSet
  <2>4. ToSet(r) \subseteq ToSet(s) \cup {x}
    BY <1>2, <2>1 DEF ToSet
  <2>5. ToSet(s) \subseteq ToSet(r)
    BY <1>2, <2>2 DEF ToSet
  <2> QED
    BY <2>3, <2>4, <2>5
<1> QED
  BY <1>1, <1>2, <1>6, <1>9 DEF r

\* What is left of k nodes behind the first n.
LEMMA CountBehind ==
  ASSUME NEW k \in Nat, NEW n \in Nat, n <= k
  PROVE  (IF n + 1 <= k THEN k - (n + 1) + 1 ELSE 0) = k - n
OBVIOUS

\* close takes the first n nodes off.
LEMMA DropKeepsInjective ==
  ASSUME NEW S, NEW s \in Seq(S), IsInjective(s), NEW n \in 0..Len(s)
  PROVE  /\ SubSeq(s, n + 1, Len(s)) \in Seq(S)
         /\ Len(SubSeq(s, n + 1, Len(s))) = Len(s) - n
         /\ IsInjective(SubSeq(s, n + 1, Len(s)))
         /\ ToSet(SubSeq(s, n + 1, Len(s))) = ToSet(s) \ {s[i] : i \in 1..n}
<1> DEFINE r == SubSeq(s, n + 1, Len(s))
<1>1. Len(s) \in Nat /\ n \in Nat /\ n <= Len(s) /\ DOMAIN s = 1..Len(s)
  BY LenProperties
<1>2. /\ r \in Seq(S) /\ Len(r) = Len(s) - n
      /\ \A j \in 1..(Len(s) - n) : r[j] = s[n + j]
  <2>1. \A j \in (n + 1)..Len(s) : s[j] \in S
    BY <1>1, LenProperties
  <2>2. /\ r \in Seq(S)
        /\ Len(r) = IF n + 1 <= Len(s) THEN Len(s) - (n + 1) + 1 ELSE 0
        /\ \A j \in 1..(Len(s) - (n + 1) + 1) : r[j] = s[(n + 1) + j - 1]
    BY <2>1, <1>1, SubSeqProperties
  <2> HIDE DEF r
  <2>3. Len(r) = Len(s) - n
    <3>1. Len(r) = IF n + 1 <= Len(s) THEN Len(s) - (n + 1) + 1 ELSE 0
      BY <2>2
    <3>2. Len(s) \in Nat /\ n \in Nat /\ n <= Len(s)
      BY <1>1
    <3> QED
      BY <3>1, <3>2, CountBehind
  <2>4. ASSUME NEW j \in 1..(Len(s) - n) PROVE r[j] = s[n + j]
    <3>1. j \in 1..(Len(s) - (n + 1) + 1) /\ (n + 1) + j - 1 = n + j
      BY <1>1
    <3> QED
      BY <3>1, <2>2
  <2> QED
    BY <2>2, <2>3, <2>4
<1>3. DOMAIN r = 1..(Len(s) - n)
  BY <1>2, LenProperties
<1> HIDE DEF r
<1>4. \A j, k \in 1..Len(s) : s[j] = s[k] => j = k
  BY <1>1 DEF IsInjective
<1>5. \A j \in 1..(Len(s) - n) : n + j \in 1..Len(s)
  BY <1>1
<1>6. IsInjective(r)
  BY <1>1, <1>2, <1>3, <1>4, <1>5 DEF IsInjective
<1>7. ASSUME NEW j \in 1..(Len(s) - n) PROVE r[j] \in ToSet(s) \ {s[i] : i \in 1..n}
  <2>1. n + j \in 1..Len(s) /\ r[j] = s[n + j]
    BY <1>2, <1>5
  <2>2. \A i \in 1..n : i \in 1..Len(s) /\ i # n + j
    BY <1>1
  <2>3. r[j] \notin {s[i] : i \in 1..n}
    BY <2>1, <2>2, <1>4
  <2> QED
    BY <2>1, <2>3, <1>1 DEF ToSet
<1>8. ASSUME NEW x \in ToSet(s) \ {s[i] : i \in 1..n} PROVE x \in ToSet(r)
  <2>1. PICK j \in 1..Len(s) : s[j] = x
    BY <1>1 DEF ToSet
  <2>2. j \notin 1..n
    BY <2>1
  <2>3. j - n \in 1..(Len(s) - n) /\ n + (j - n) = j
    BY <2>2, <1>1
  <2>4. r[j - n] = x /\ j - n \in DOMAIN r
    BY <2>1, <2>3, <1>2, <1>3
  <2> QED
    BY <2>4 DEF ToSet
<1>9. ToSet(r) = ToSet(s) \ {s[i] : i \in 1..n}
  BY <1>3, <1>7, <1>8 DEF ToSet
<1> QED
  BY <1>2, <1>6, <1>9 DEF r

\* The first k of a list without repetition are k.
LEMMA FirstAreMany ==
  ASSUME NEW S, NEW q \in Seq(S), IsInjective(q), NEW k \in 0..Len(q)
  PROVE  /\ IsFiniteSet({q[i] : i \in 1..k}) /\ Cardinality({q[i] : i \in 1..k}) = k
         /\ {q[i] : i \in 1..k} \subseteq ToSet(q)
<1> DEFINE F == {q[i] : i \in 1..k}
           f == [i \in 1..k |-> q[i]]
<1>1. /\ Len(q) \in Nat /\ k \in Nat /\ DOMAIN q = 1..Len(q)
      /\ \A i \in 1..k : i \in DOMAIN q
  BY LenProperties
<1>2. \A i, j \in 1..k : q[i] = q[j] => i = j
  BY <1>1 DEF IsInjective
<1>3. f \in Bijection(1..k, F)
  BY <1>2 DEF Bijection, Injection, Surjection, IsInjective
<1>4. ExistsBijection(1..k, F)
  BY <1>3 DEF ExistsBijection
<1>5. IsFiniteSet(F) /\ Cardinality(F) = k
  BY <1>1, <1>4, FS_CountingElements, FS_NatBijection
<1> QED
  BY <1>1, <1>5 DEF ToSet

----------------------------------------------------------------------------
(* Minima and maxima *)

\* Min of two.
LEMMA MinOfTwo ==
  ASSUME NEW a \in Int, NEW b \in Int
  PROVE  Min({a, b}) = IF a <= b THEN a ELSE b
BY DEF Min

\* Max of two.
LEMMA MaxOfTwo ==
  ASSUME NEW a \in Int, NEW b \in Int
  PROVE  Max({a, b}) = IF a <= b THEN b ELSE a
BY DEF Max

\* The largest n for which the front n can be served.
LEMMA MaxOfMany ==
  ASSUME NEW n \in Nat, NEW S \in SUBSET (0..n), S # {}
  PROVE  Max(S) \in S /\ \A x \in S : x <= Max(S)
<1> DEFINE R == OpToRel(<, Nat)
           T == {n - x : x \in S}
<1>1. \A x \in S : x \in Nat /\ n - x \in Nat
  OBVIOUS
<1>2. T \subseteq Nat /\ T # {}
  BY <1>1
<1>3. PICK y \in T : \A z \in T : <<z, y>> \notin R
  BY <1>2, WFMin, NatLessThanWellFounded
<1>4. \A z \in T : ~(z < y)
  BY <1>2, <1>3 DEF OpToRel
<1>5. PICK m \in S : y = n - m
  BY <1>3
<1>6. \A x \in S : m >= x
  BY <1>1, <1>4, <1>5
<1>7. \E x \in S : \A z \in S : x >= z
  BY <1>6
<1>8. Max(S) \in S /\ \A x \in S : Max(S) >= x
  BY <1>7 DEF Max
<1> QED
  BY <1>1, <1>8

----------------------------------------------------------------------------
(* Totals *)

\* What one member contributes.
LEMMA UnitsOfOne ==
  ASSUME NEW x, NEW k \in Nat
  PROVE  IsFiniteSet({x} \X (1..k)) /\ Cardinality({x} \X (1..k)) = k
<1>1. IsFiniteSet({x}) /\ Cardinality({x}) = 1
  BY FS_Singleton
<1>2. IsFiniteSet(1..k) /\ Cardinality(1..k) = k
  BY FS_Interval
<1>3. /\ IsFiniteSet({x} \X (1..k))
      /\ Cardinality({x} \X (1..k)) = Cardinality({x}) * Cardinality(1..k)
  BY <1>1, <1>2, FS_Product
<1> QED
  BY <1>1, <1>2, <1>3

\* Nobody contributes nothing.
LEMMA TotalOfNone ==
  ASSUME NEW n PROVE IsFiniteSet(Units(n, {})) /\ Total(n, {}) = 0
<1>1. Units(n, {}) = {}
  BY DEF Units
<1> QED
  BY <1>1, FS_EmptySet DEF Total

\* One that was not there adds what it has.
LEMMA TotalWithOneMore ==
  ASSUME NEW n, NEW S, IsFiniteSet(Units(n, S)), NEW x, x \notin S, n[x] \in Nat
  PROVE  IsFiniteSet(Units(n, S \cup {x})) /\ Total(n, S \cup {x}) = Total(n, S) + n[x]
<1> DEFINE U == Units(n, S)
           V == {x} \X (1..n[x])
<1>1. Units(n, S \cup {x}) = U \cup V /\ U \cap V = {}
  BY DEF Units
<1>2. IsFiniteSet(V) /\ Cardinality(V) = n[x]
  BY UnitsOfOne
<1>3. /\ IsFiniteSet(U) /\ Total(n, S) = Cardinality(U)
      /\ Units(n, S \cup {x}) = U \cup V /\ Total(n, S \cup {x}) = Cardinality(U \cup V)
  BY <1>1 DEF Total
<1> HIDE DEF U, V
<1>4. Cardinality(U) \in Nat
  BY <1>3, FS_CardinalityType
<1>5. IsFiniteSet(U \cup V) /\ Cardinality(U \cup V) = Cardinality(U) + Cardinality(V) - Cardinality(U \cap V)
  BY <1>2, <1>3, FS_Union
<1>6. Cardinality(U \cap V) = 0
  BY <1>1, FS_EmptySet
<1>7. Cardinality(V) \in Nat /\ Cardinality(U \cup V) = Cardinality(U) + Cardinality(V)
  BY <1>2, <1>4, <1>5, <1>6
<1> QED
  BY <1>2, <1>3, <1>5, <1>7

\* Two sets with no member in common add up.
LEMMA TotalOfBoth ==
  ASSUME NEW n, NEW S, NEW T, IsFiniteSet(Units(n, S)), IsFiniteSet(Units(n, T)), S \cap T = {}
  PROVE  /\ IsFiniteSet(Units(n, S \cup T))
         /\ Total(n, S \cup T) = Total(n, S) + Total(n, T)
<1> DEFINE U == Units(n, S)
           V == Units(n, T)
<1>1. Units(n, S \cup T) = U \cup V /\ U \cap V = {}
  BY DEF Units
<1>2. /\ IsFiniteSet(U) /\ IsFiniteSet(V)
      /\ Total(n, S) = Cardinality(U) /\ Total(n, T) = Cardinality(V)
      /\ Total(n, S \cup T) = Cardinality(U \cup V)
  BY <1>1 DEF Total
<1> HIDE DEF U, V
<1>3. IsFiniteSet(U \cup V) /\ Cardinality(U \cup V) = Cardinality(U) + Cardinality(V) - Cardinality(U \cap V)
  BY <1>2, FS_Union
<1>4. Cardinality(U \cap V) = 0 /\ Cardinality(U) \in Nat /\ Cardinality(V) \in Nat
  BY <1>1, <1>2, FS_EmptySet, FS_CardinalityType
<1>5. Cardinality(U \cup V) = Cardinality(U) + Cardinality(V)
  BY <1>3, <1>4
<1> QED
  BY <1>1, <1>2, <1>3, <1>5

\* What a finite set has is finite.
LEMMA TotalType ==
  ASSUME NEW n, NEW S, IsFiniteSet(S), \A x \in S : n[x] \in Nat
  PROVE  IsFiniteSet(Units(n, S)) /\ Total(n, S) \in Nat
<1> DEFINE Of(x) == {x} \X (1..n[x])
           Parts == {Of(x) : x \in S}
           f == [x \in S |-> Of(x)]
<1>1. f \in Surjection(S, Parts)
  BY DEF Surjection
<1>2. IsFiniteSet(Parts)
  BY <1>1, FS_Surjection
<1>3. \A P \in Parts : IsFiniteSet(P)
  <2>1. \A x \in S : IsFiniteSet(Of(x))
    BY UnitsOfOne
  <2> HIDE DEF Of
  <2> QED
    BY <2>1
<1>4. IsFiniteSet(UNION Parts)
  BY <1>2, <1>3, FS_UNION
<1> QED
  BY <1>4, FS_CardinalityType DEF Units, Total
=============================================================================
