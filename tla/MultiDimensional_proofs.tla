---------------------- MODULE MultiDimensional_proofs ----------------------
(***************************************************************************)
(* The two budgets for any set of clients, sizes and budgets: what is gone *)
(* from each is what the admitted hold, and the head of the line waits     *)
(* only for want of room.                                                  *)
(***************************************************************************)
EXTENDS MultiDimensional, CommonFacts

Doing == {"idle", "waiting", "granted", "running"}

\* The line holds those who wait, each once.
LineInv(q, t) == /\ q \in Seq(Clients) /\ IsInjective(q)
                 /\ t \in [Clients -> Doing]
                 /\ \A c \in Clients : t[c] = "waiting" <=> c \in ToSet(q)

In(t) == {c \in Clients : t[c] \in {"granted", "running"}}

\* What is left of the budgets when those in t have their reservations.
Left(r, b, t) == /\ r \in Nat /\ b \in Nat
                 /\ r = Requests - Cardinality(In(t))
                 /\ b = Bytes - Total(Size, In(t))

MInv == LineInv(line, task) /\ Left(requests, bytes, task) /\ HeadLacksRoom

----------------------------------------------------------------------------
\* A set of clients and their sizes are finite.
LEMMA Finite ==
  ASSUME NEW S \in SUBSET Clients
  PROVE  /\ IsFiniteSet(S) /\ IsFiniteSet(Units(Size, S))
         /\ Cardinality(S) \in Nat /\ Total(Size, S) \in Nat
<1>1. IsFiniteSet(S)
  BY BudgetAssumptions, FS_Subset
<1>2. \A c \in S : Size[c] \in Nat
  BY BudgetAssumptions
<1> QED
  BY <1>1, <1>2, FS_CardinalityType, TotalType

\* What is left of a budget when k more are taken from it.
LEMMA TakenFrom ==
  ASSUME NEW budget \in Nat, NEW left \in Nat, NEW out \in Nat, NEW k \in Nat,
         left = budget - out, k <= left
  PROVE  left - k \in Nat /\ left - k = budget - (out + k)
OBVIOUS

\* One client alone fits when there is a request left, and its bytes.
LEMMA FitIs ==
  ASSUME NEW c \in Clients, NEW r \in Int, NEW b \in Int
  PROVE  Fit({c}, r, b) <=> 1 <= r /\ Size[c] <= b
<1>1. Cardinality({c}) = 1
  BY FS_Singleton
<1>2. Total(Size, {} \cup {c}) = Total(Size, {}) + Size[c] /\ Total(Size, {}) = 0 /\ Size[c] \in Nat
  BY BudgetAssumptions, TotalOfNone, TotalWithOneMore
<1>3. Total(Size, {c}) = Size[c]
  BY <1>2
<1> QED
  BY <1>1, <1>3 DEF Fit

\* One more client in the front, and its size.
LEMMA FirstGrows ==
  ASSUME NEW q \in Seq(Clients), IsInjective(q), NEW k \in Nat, k < Len(q)
  PROVE  /\ First(q, k + 1) = First(q, k) \cup {q[k + 1]}
         /\ Cardinality(First(q, k + 1)) = k + 1
         /\ Total(Size, First(q, k + 1)) = Total(Size, First(q, k)) + Size[q[k + 1]]
<1>1. Len(q) \in Nat /\ k + 1 \in 0..Len(q) /\ k \in 0..Len(q) /\ k + 1 \in 1..Len(q)
      /\ 1..(k + 1) = 1..k \cup {k + 1}
  BY LenProperties
<1>2. First(q, k + 1) = First(q, k) \cup {q[k + 1]}
  BY <1>1 DEF First
<1>3. Cardinality(First(q, k + 1)) = k + 1
  <2>1. \A n \in 0..Len(q) : Cardinality(First(q, n)) = n
    BY FirstAreMany DEF First
  <2> QED
    BY <1>1, <2>1
<1>4. q[k + 1] \notin First(q, k)
  <2>1. DOMAIN q = 1..Len(q) /\ \A i \in 1..k : i \in 1..Len(q) /\ i # k + 1
    BY <1>1, LenProperties
  <2> QED
    BY <1>1, <2>1 DEF IsInjective, First
<1>5. First(q, k) \subseteq Clients /\ q[k + 1] \in Clients
  <2>1. \A i \in 1..k : i \in 1..Len(q)
    BY <1>1
  <2>2. \A i \in 1..Len(q) : q[i] \in Clients
    BY LenProperties
  <2> QED
    BY <1>1, <2>1, <2>2 DEF First
<1>6. IsFiniteSet(Units(Size, First(q, k))) /\ Size[q[k + 1]] \in Nat
  BY <1>5, Finite, BudgetAssumptions
<1>7. Total(Size, First(q, k) \cup {q[k + 1]}) = Total(Size, First(q, k)) + Size[q[k + 1]]
  BY <1>4, <1>6, TotalWithOneMore
<1> QED
  BY <1>2, <1>3, <1>7

\* How many the service serves: as many as fit, and one more would not.
LEMMA ServesThoseThatFit ==
  ASSUME NEW r \in Nat, NEW b \in Nat, NEW q \in Seq(Clients), IsInjective(q)
  PROVE  LET k == Max({n \in 0..Len(q) : Fit(First(q, n), r, b)})
         IN /\ k \in 0..Len(q) /\ Fit(First(q, k), r, b)
            /\ k < Len(q) => ~Fit(First(q, k + 1), r, b)
<1> DEFINE N == {n \in 0..Len(q) : Fit(First(q, n), r, b)}
           k == Max(N)
<1>1. Len(q) \in Nat
  BY LenProperties
<1>2. First(q, 0) = {}
  BY DEF First
<1>3. Fit(First(q, 0), r, b)
  <2>1. Cardinality({}) = 0 /\ Total(Size, {}) = 0
    BY FS_EmptySet, TotalOfNone
  <2>2. Cardinality(First(q, 0)) = 0 /\ Total(Size, First(q, 0)) = 0
    BY <1>2, <2>1, Zenon
  <2> QED
    BY <2>2 DEF Fit
<1>4. N \in SUBSET (0..Len(q)) /\ N # {}
  BY <1>1, <1>3
<1>5. k \in N /\ \A n \in N : n <= k
  BY <1>1, <1>4, MaxOfMany
<1>6. k \in 0..Len(q) /\ Fit(First(q, k), r, b)
  BY <1>5
<1> HIDE DEF k
<1>7. k + 1 \notin N
  BY <1>1, <1>5, <1>6
<1>8. k < Len(q) => k + 1 \in 0..Len(q)
  BY <1>1, <1>6
<1>9. k < Len(q) => ~Fit(First(q, k + 1), r, b)
  BY <1>7, <1>8
<1> QED
  BY <1>6, <1>9 DEF k

\* Serving takes from both budgets what those it serves reserve, and ends when the next
\* one does not fit.
LEMMA ServeKeeps ==
  ASSUME NEW r, NEW b, NEW q, NEW t, LineInv(q, t), Left(r, b, t), Serve(r, b, q, t)
  PROVE  MInv'
<1> DEFINE k == Max({n \in 0..Len(q) : Fit(First(q, n), r, b)})
           F == First(q, k)
<1>1. /\ q \in Seq(Clients) /\ IsInjective(q) /\ r \in Nat /\ b \in Nat
      /\ Len(q) \in Nat /\ t \in [Clients -> Doing]
  BY LenProperties DEF LineInv, Left
<1>2. /\ k \in 0..Len(q) /\ Fit(F, r, b)
      /\ k < Len(q) => ~Fit(First(q, k + 1), r, b)
  BY <1>1, ServesThoseThatFit
<1>3. /\ requests' = r - k
      /\ bytes' = b - Total(Size, F)
      /\ line' = SubSeq(q, k + 1, Len(q))
      /\ task' = [c \in Clients |-> IF c \in F THEN "granted" ELSE t[c]]
  BY DEF Serve
<1> HIDE DEF k
<1>4. /\ line' \in Seq(Clients) /\ Len(line') = Len(q) - k /\ IsInjective(line')
      /\ ToSet(line') = ToSet(q) \ F
  BY <1>1, <1>2, <1>3, DropKeepsInjective DEF First
<1>5. IsFiniteSet(F) /\ Cardinality(F) = k /\ F \subseteq ToSet(q)
  BY <1>1, <1>2, FirstAreMany DEF First
<1>6. ToSet(q) \subseteq Clients
  BY <1>1 DEF ToSet
<1> HIDE DEF F
<1>7. \A c \in Clients : c \in F => t[c] = "waiting"
  BY <1>5 DEF LineInv
<1>8. LineInv(line, task)'
  BY <1>1, <1>3, <1>4, <1>5, <1>6, <1>7 DEF LineInv, Doing
<1>9. In(task') = In(t) \cup F /\ In(t) \cap F = {}
  BY <1>3, <1>5, <1>6, <1>7 DEF In
<1>10. /\ In(t) \subseteq Clients /\ F \subseteq Clients
       /\ IsFiniteSet(In(t)) /\ Cardinality(In(t)) \in Nat /\ Total(Size, In(t)) \in Nat
       /\ IsFiniteSet(Units(Size, In(t)))
       /\ Total(Size, F) \in Nat /\ IsFiniteSet(Units(Size, F))
  <2>1. In(t) \in SUBSET Clients /\ F \in SUBSET Clients
    BY <1>5, <1>6 DEF In
  <2> QED
    BY <2>1, Finite
<1>11. Cardinality(In(task')) = Cardinality(In(t)) + k
  <2>1. Cardinality(In(t) \cap F) = 0
    BY <1>9, FS_EmptySet
  <2>2. Cardinality(In(t) \cup F) = Cardinality(In(t)) + Cardinality(F) - Cardinality(In(t) \cap F)
    BY <1>5, <1>10, FS_Union
  <2> QED
    BY <1>2, <1>5, <1>9, <1>10, <2>1, <2>2
<1>12. Total(Size, In(task')) = Total(Size, In(t)) + Total(Size, F)
  <2>1. Total(Size, In(t) \cup F) = Total(Size, In(t)) + Total(Size, F)
    BY <1>9, <1>10, TotalOfBoth
  <2> QED
    BY <1>9, <2>1, Zenon
<1>13. k <= r /\ Total(Size, F) <= b
  BY <1>2, <1>5 DEF Fit
<1>14. Left(requests, bytes, task)'
  <2>1. requests' \in Nat /\ requests' = Requests - Cardinality(In(task'))
    <3>1. r = Requests - Cardinality(In(t)) /\ Requests \in Nat /\ k \in Nat
      BY <1>1, <1>2, BudgetAssumptions DEF Left
    <3>2. r - k \in Nat /\ r - k = Requests - (Cardinality(In(t)) + k)
      BY <3>1, <1>1, <1>10, <1>13, TakenFrom
    <3> QED
      BY <3>2, <1>3, <1>11, Zenon
  <2>2. bytes' \in Nat /\ bytes' = Bytes - Total(Size, In(task'))
    <3>1. b = Bytes - Total(Size, In(t)) /\ Bytes \in Nat
      BY BudgetAssumptions DEF Left
    <3>2. b - Total(Size, F) \in Nat /\ b - Total(Size, F) = Bytes - (Total(Size, In(t)) + Total(Size, F))
      BY <3>1, <1>1, <1>10, <1>13, TakenFrom
    <3> QED
      BY <3>2, <1>3, <1>12, Zenon
  <2> QED
    BY <2>1, <2>2 DEF Left
<1>15. HeadLacksRoom'
  <2> SUFFICES ASSUME line' # <<>> PROVE ~Fit({Head(line')}, requests', bytes')
    BY DEF HeadLacksRoom, Fit
  <2>1. Len(line') # 0
    BY <1>4, EmptySeq
  <2>2. k < Len(q) /\ k \in Nat
    BY <1>1, <1>2, <1>4, <2>1
  <2>3. Head(line') = q[k + 1] /\ q[k + 1] \in Clients
    <3>1. k + 1 \in 1..Len(q)
      BY <1>1, <2>2
    <3>2. SubSeq(q, k + 1, Len(q))[1] = q[k + 1]
      BY <1>1, <2>2, <3>1
    <3>3. q[k + 1] \in Clients
      BY <1>1, <3>1, LenProperties
    <3> QED
      BY <1>3, <1>4, <3>2, <3>3, HeadTailProperties, <2>1, EmptySeq
  <2>4. ~(k + 1 <= r /\ Total(Size, F) + Size[q[k + 1]] <= b)
    BY <1>1, <1>2, <2>2, FirstGrows DEF Fit, F
  <2>5. Size[q[k + 1]] \in Nat
    BY <2>3, BudgetAssumptions
  <2>6. ~(1 <= r - k /\ Size[q[k + 1]] <= b - Total(Size, F))
    BY <1>1, <1>10, <2>2, <2>4, <2>5
  <2>7. requests' \in Int /\ bytes' \in Int
    BY <1>14 DEF Left
  <2> QED
    BY <1>3, <2>3, <2>6, <2>7, FitIs
<1> QED
  BY <1>8, <1>14, <1>15 DEF MInv

----------------------------------------------------------------------------
(* One lemma for each action *)

\* A newcomer with nobody ahead takes from both budgets.
LEMMA NewcomerKeeps ==
  ASSUME MInv, NEW c \in Clients, MustAcquire(c) PROVE MInv'
<1>1. /\ task[c] = "idle" /\ line = <<>> /\ line' = line /\ Fit({c}, requests, bytes)
      /\ requests' = requests - 1 /\ bytes' = bytes - Size[c]
      /\ task' = [task EXCEPT ![c] = "running"]
  BY DEF MustAcquire, Leads
<1>2. /\ requests \in Nat /\ bytes \in Nat /\ Requests \in Nat /\ Bytes \in Nat /\ Size[c] \in Nat
      /\ requests = Requests - Cardinality(In(task)) /\ bytes = Bytes - Total(Size, In(task))
  BY BudgetAssumptions DEF MInv, Left
<1>3. 1 <= requests /\ Size[c] <= bytes
  <2>1. requests \in Int /\ bytes \in Int
    BY <1>2
  <2> QED
    BY <1>1, <2>1, FitIs
<1>4. LineInv(line, task)'
  BY <1>1 DEF MInv, LineInv, Doing
<1>5. In(task') = In(task) \cup {c} /\ c \notin In(task) /\ In(task) \in SUBSET Clients
  BY <1>1 DEF MInv, LineInv, In
<1>6. /\ IsFiniteSet(In(task)) /\ IsFiniteSet(Units(Size, In(task)))
      /\ Cardinality(In(task)) \in Nat /\ Total(Size, In(task)) \in Nat
  BY <1>5, Finite
<1>7. Cardinality(In(task')) = Cardinality(In(task)) + 1
  BY <1>5, <1>6, FS_AddElement
<1>8. Total(Size, In(task')) = Total(Size, In(task)) + Size[c]
  BY <1>2, <1>5, <1>6, TotalWithOneMore
<1>9. requests' \in Nat /\ requests' = Requests - Cardinality(In(task'))
  <2>1. requests - 1 \in Nat /\ requests - 1 = Requests - (Cardinality(In(task)) + 1)
    BY <1>2, <1>3, <1>6, TakenFrom
  <2> QED
    BY <1>1, <1>7, <2>1, Zenon
<1>10. bytes' \in Nat /\ bytes' = Bytes - Total(Size, In(task'))
  <2>1. bytes - Size[c] \in Nat /\ bytes - Size[c] = Bytes - (Total(Size, In(task)) + Size[c])
    BY <1>2, <1>3, <1>6, TakenFrom
  <2> QED
    BY <1>1, <1>8, <2>1, Zenon
<1> QED
  BY <1>1, <1>4, <1>9, <1>10 DEF MInv, Left, HeadLacksRoom

\* Who joins the line holds nothing, and heads it only if it does not fit.
LEMMA EnqueueKeeps ==
  ASSUME MInv, NEW c \in Clients, Enqueue(c) PROVE MInv'
<1>1. /\ task[c] = "idle" /\ ~(line = <<>> /\ Fit({c}, requests, bytes))
      /\ line' = Append(line, c) /\ task' = [task EXCEPT ![c] = "waiting"]
      /\ UNCHANGED <<requests, bytes>>
  BY DEF Enqueue, Leads
<1>2. line \in Seq(Clients) /\ IsInjective(line) /\ c \notin ToSet(line)
  BY <1>1 DEF MInv, LineInv
<1>3. /\ line' \in Seq(Clients) /\ IsInjective(line') /\ ToSet(line') = ToSet(line) \cup {c}
  BY <1>1, <1>2, AppendKeepsInjective
<1>4. LineInv(line, task)'
  BY <1>1, <1>3 DEF MInv, LineInv, Doing
<1>5. In(task') = In(task)
  BY <1>1 DEF MInv, LineInv, In
<1>6. Left(requests, bytes, task)'
  BY <1>1, <1>5 DEF MInv, Left
<1>7. Head(line') = IF line = <<>> THEN c ELSE Head(line)
  <2>1. CASE line = <<>>
    BY <1>1, <2>1
  <2>2. CASE line # <<>>
    <3>1. Len(line) \in Nat /\ Len(line) # 0
      BY <1>2, <2>2, LenProperties, EmptySeq
    <3>2. 1 \in 1..Len(line)
      BY <3>1
    <3>3. line'[1] = line[1]
      BY <1>1, <1>2, <3>2, AppendProperties
    <3>4. line' # <<>>
      BY <1>1, <1>2, AppendProperties
    <3> QED
      BY <1>2, <1>3, <2>2, <3>3, <3>4, HeadTailProperties
  <2> QED
    BY <2>1, <2>2
<1>8. HeadLacksRoom'
  BY <1>1, <1>7 DEF MInv, HeadLacksRoom, Fit
<1> QED
  BY <1>4, <1>6, <1>8 DEF MInv

\* A client finds the permit it was given.
LEMMA ClaimKeeps ==
  ASSUME MInv, NEW c \in Clients, Claim(c) PROVE MInv'
<1>1. /\ UNCHANGED <<requests, bytes, line>>
      /\ task' = [task EXCEPT ![c] = "running"] /\ task[c] = "granted"
  BY DEF Claim
<1>2. LineInv(line, task)' /\ In(task') = In(task)
  BY <1>1 DEF MInv, LineInv, In, Doing
<1> QED
  BY <1>1, <1>2 DEF MInv, Left, HeadLacksRoom, Fit

\* A reservation that returns leaves both budgets exact, and the line is served.
LEMMA ReleaseKeeps ==
  ASSUME MInv, NEW c \in In(task), Release(c) PROVE MInv'
<1> DEFINE t == [task EXCEPT ![c] = "idle"]
<1>1. c \in Clients /\ Serve(requests + 1, bytes + Size[c], line, t)
  BY DEF Release, In
<1>2. LineInv(line, t)
  BY DEF MInv, LineInv, Doing, In
<1>3. In(task) = In(t) \cup {c} /\ c \notin In(t) /\ In(t) \in SUBSET Clients
  BY <1>1 DEF MInv, LineInv, In
<1> HIDE DEF t
<1>4. /\ requests \in Nat /\ bytes \in Nat /\ Requests \in Nat /\ Bytes \in Nat /\ Size[c] \in Nat
      /\ requests = Requests - Cardinality(In(task)) /\ bytes = Bytes - Total(Size, In(task))
  BY <1>1, BudgetAssumptions DEF MInv, Left
<1>5. /\ IsFiniteSet(In(t)) /\ IsFiniteSet(Units(Size, In(t)))
      /\ Cardinality(In(t)) \in Nat /\ Total(Size, In(t)) \in Nat
  BY <1>3, Finite
<1>6. Cardinality(In(task)) = Cardinality(In(t)) + 1
  BY <1>3, <1>5, FS_AddElement
<1>7. Total(Size, In(task)) = Total(Size, In(t)) + Size[c]
  BY <1>3, <1>4, <1>5, TotalWithOneMore
<1>8. requests + 1 \in Nat /\ requests + 1 = Requests - Cardinality(In(t))
  BY <1>4, <1>5, <1>6
<1>9. bytes + Size[c] \in Nat /\ bytes + Size[c] = Bytes - Total(Size, In(t))
  BY <1>4, <1>5, <1>7
<1>10. Left(requests + 1, bytes + Size[c], t)
  BY <1>8, <1>9 DEF Left
<1> QED
  BY <1>1, <1>2, <1>10, ServeKeeps

\* The line moves up behind a client that leaves it.
LEMMA LeaveKeeps ==
  ASSUME MInv, NEW c \in Clients, task[c] = "waiting", Leave(c) PROVE MInv'
<1> DEFINE t == [task EXCEPT ![c] = "idle"]
           p == CHOOSE i \in DOMAIN line : line[i] = c
<1>1. Serve(requests, bytes, Without(c), t)
  BY DEF Leave
<1>2. p \in DOMAIN line /\ line[p] = c /\ Without(c) = RemoveAt(line, p)
  BY DEF MInv, LineInv, ToSet, Without
<1> HIDE DEF p
<1>3. /\ Without(c) \in Seq(Clients) /\ IsInjective(Without(c))
      /\ ToSet(Without(c)) = ToSet(line) \ {c}
  BY <1>2, RemoveAtProperties, RemoveAtKeepsInjective DEF MInv, LineInv
<1>4. LineInv(Without(c), t)
  BY <1>3 DEF MInv, LineInv, Doing
<1>5. In(t) = In(task)
  BY DEF MInv, LineInv, In
<1>6. Left(requests, bytes, t)
  BY <1>5 DEF MInv, Left
<1> QED
  BY <1>1, <1>4, <1>6, ServeKeeps

\* At first nobody holds anything.
LEMMA MInvInit == Init => MInv
<1> SUFFICES ASSUME Init PROVE MInv
  OBVIOUS
<1>1. <<>> \in Seq(Clients) /\ IsInjective(<<>>) /\ ToSet(<<>>) = {}
  BY DEF IsInjective, ToSet
<1>2. In(task) = {}
  BY DEF Init, In
<1>3. Cardinality(In(task)) = 0 /\ Total(Size, In(task)) = 0
  BY <1>2, FS_EmptySet, TotalOfNone
<1>4. LineInv(line, task)
  BY <1>1 DEF Init, LineInv, Doing
<1>5. Left(requests, bytes, task)
  BY <1>3, BudgetAssumptions DEF Init, Left
<1> QED
  BY <1>4, <1>5 DEF Init, MInv, HeadLacksRoom

\* Every step keeps both budgets exact and the line moving.
LEMMA MInvStep == MInv /\ [Next]_vars => MInv'
<1> SUFFICES ASSUME MInv, [Next]_vars PROVE MInv'
  OBVIOUS
<1>1. CASE UNCHANGED vars
  BY <1>1 DEF vars, MInv, LineInv, Left, In, HeadLacksRoom, Fit
<1>2. ASSUME NEW c \in Clients, MustAcquire(c) \/ Enqueue(c) \/ Claim(c) PROVE MInv'
  BY <1>2, NewcomerKeeps, EnqueueKeeps, ClaimKeeps
<1>3. ASSUME NEW c \in Clients, Finish(c) PROVE MInv'
  BY <1>3, ReleaseKeeps DEF Finish, In
<1>4. ASSUME NEW c \in Clients, Cancel(c) PROVE MInv'
  BY <1>4, ReleaseKeeps, LeaveKeeps DEF Cancel, In
<1> QED
  BY <1>1, <1>2, <1>3, <1>4 DEF Next

----------------------------------------------------------------------------
\* All or nothing: what is gone from both budgets is what the admitted hold, whoever is
\* cancelled while it waits or just after it was served (multi_dimensional.rs acquire and
\* release, acquire.rs Acquire::drop).
THEOREM BudgetsAreExact == Spec => []BothBudgetsExact
<1>1. MInv => BothBudgetsExact
  BY DEF MInv, Left, In, BothBudgetsExact, Admitted
<1> QED
  BY <1>1, MInvInit, MInvStep, PTL DEF Spec

\* The head of the line waits for want of room only (with_queue's service after every
\* release and every departure).
THEOREM HeadWaitsForRoom == Spec => []HeadLacksRoom
<1>1. MInv => HeadLacksRoom
  BY DEF MInv
<1> QED
  BY <1>1, MInvInit, MInvStep, PTL DEF Spec
=============================================================================
