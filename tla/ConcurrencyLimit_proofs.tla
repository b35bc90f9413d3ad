---------------------- MODULE ConcurrencyLimit_proofs ----------------------
(***************************************************************************)
(* The concurrency limit for any set of workers and any limits: the count  *)
(* is exact, nobody waits without need, and nobody starts above the limit. *)
(***************************************************************************)
EXTENDS ConcurrencyLimit, CommonFacts

\* The line holds those who wait, each once.
LineInv(q, t) == /\ q \in Seq(Workers) /\ IsInjective(q)
                 /\ t \in [Workers -> Doing]
                 /\ \A w \in Workers : t[w] = "waiting" <=> w \in ToSet(q)

In(t) == {w \in Workers : t[w] \in {"granted", "running"}}

LInv == /\ in_flight \in Nat /\ limit \in Nat
        /\ LineInv(line, task)
        /\ in_flight = Cardinality(In(task))
        /\ WaitsOnlyWhenFull

----------------------------------------------------------------------------
\* Room counts what is missing to the limit.
LEMMA RoomIs ==
  ASSUME NEW n \in Nat, NEW l \in Nat
  PROVE  Room(n, l) = IF l <= n THEN 0 ELSE l - n
BY MaxOfTwo DEF Room

\* Those who are in are finitely many.
LEMMA InIsFinite == ASSUME NEW t PROVE IsFiniteSet(In(t))
BY LimitAssumptions, FS_Subset DEF In

\* Serving keeps the invariant, and admits nobody above the limit.
LEMMA ServeKeeps ==
  ASSUME NEW n \in Nat, NEW q, NEW t, LineInv(q, t), n = Cardinality(In(t)),
         limit' \in Nat, Serve(n, q, t)
  PROVE  /\ LInv'
         /\ In(t) \subseteq In(task')
         /\ In(task') \ In(t) # {} => in_flight' <= limit'
<1> DEFINE r == IF limit' <= n THEN 0 ELSE limit' - n
           k == IF Len(q) <= r THEN Len(q) ELSE r
           F == {q[i] : i \in 1..k}
<1>1. Len(q) \in Nat /\ r \in Nat /\ k \in 0..Len(q) /\ q \in Seq(Workers) /\ IsInjective(q)
  BY LenProperties DEF LineInv
<1>2. Min({Len(q), Room(n, limit')}) = k
  <2>1. Room(n, limit') = r
    BY RoomIs
  <2> HIDE DEF r
  <2> QED
    BY <1>1, <2>1, MinOfTwo
<1>3. /\ in_flight' = n + k
      /\ line' = SubSeq(q, k + 1, Len(q))
      /\ task' = [w \in Workers |-> IF w \in F THEN "granted" ELSE t[w]]
  BY <1>2 DEF Serve
<1> HIDE DEF k
<1>4. /\ line' \in Seq(Workers) /\ Len(line') = Len(q) - k /\ IsInjective(line')
      /\ ToSet(line') = ToSet(q) \ F
  BY <1>1, <1>3, DropKeepsInjective
<1>5. IsFiniteSet(F) /\ Cardinality(F) = k /\ F \subseteq ToSet(q)
  BY <1>1, FirstAreMany
<1>6. ToSet(q) \subseteq Workers
  BY <1>1 DEF ToSet
<1>7. \A w \in Workers : w \in F => t[w] = "waiting"
  BY <1>5 DEF LineInv
<1>8. LineInv(line, task)'
  BY <1>3, <1>4, <1>5, <1>6, <1>7 DEF LineInv, Doing
<1>9. In(task') = In(t) \cup F /\ In(t) \cap F = {}
  BY <1>3, <1>5, <1>6, <1>7 DEF In
<1>10. Cardinality(In(task')) = n + k
  <2>1. IsFiniteSet(In(t)) /\ Cardinality(In(t) \cap F) = 0
    BY <1>9, InIsFinite, FS_EmptySet
  <2>2. Cardinality(In(t) \cup F) = Cardinality(In(t)) + Cardinality(F) - Cardinality(In(t) \cap F)
    BY <1>5, <2>1, FS_Union
  <2> QED
    BY <1>1, <1>5, <1>9, <2>1, <2>2
<1>11. WaitsOnlyWhenFull' /\ (in_flight' > n => in_flight' <= limit')
  <2>1. line' # <<>> => Len(line') # 0
    BY <1>4, EmptySeq
  <2>2. line' # <<>> => k = r
    BY <1>1, <1>4, <2>1 DEF k
  <2>3. k <= r
    BY <1>1 DEF k
  <2> QED
    BY <1>1, <1>3, <2>2, <2>3 DEF WaitsOnlyWhenFull
<1>12. /\ In(t) \subseteq In(task')
       /\ In(task') \ In(t) # {} => in_flight' <= limit'
  <2>1. In(task') \ In(t) # {} => k > 0
    BY <1>1, <1>9, <1>5, FS_EmptySet
  <2>2. k > 0 => in_flight' <= limit'
    BY <1>1, <1>3, <1>11
  <2> QED
    BY <1>9, <2>1, <2>2
<1>13. in_flight' \in Nat /\ in_flight' = Cardinality(In(task'))
  BY <1>1, <1>3, <1>10
<1> QED
  BY <1>8, <1>11, <1>12, <1>13 DEF LInv

\* A worker that becomes idle: what is left of those who are in.
LEMMA LeavesIdle ==
  ASSUME LInv, NEW w \in Workers
  PROVE  LET t == [task EXCEPT ![w] = "idle"]
         IN /\ t \in [Workers -> Doing]
            /\ In(t) = In(task) \ {w}
            /\ Cardinality(In(t)) = IF w \in In(task) THEN in_flight - 1 ELSE in_flight
            /\ Cardinality(In(t)) \in Nat
<1> DEFINE t == [task EXCEPT ![w] = "idle"]
<1>1. t \in [Workers -> Doing] /\ In(t) = In(task) \ {w}
  BY DEF LInv, LineInv, In, Doing
<1>2. Cardinality(In(t)) = IF w \in In(task) THEN in_flight - 1 ELSE in_flight
  BY <1>1, InIsFinite, FS_RemoveElement DEF LInv
<1> QED
  BY <1>1, <1>2, InIsFinite, FS_CardinalityType

\* A waiting worker is at one place of the line.
LEMMA WithoutIs ==
  ASSUME LInv, NEW w \in Workers
  PROVE  /\ Without(w) \in Seq(Workers) /\ IsInjective(Without(w))
         /\ ToSet(Without(w)) = ToSet(line) \ {w}
<1>1. CASE task[w] = "waiting"
  <2> DEFINE p == CHOOSE i \in DOMAIN line : line[i] = w
  <2>1. p \in DOMAIN line /\ line[p] = w
    BY <1>1 DEF LInv, LineInv, ToSet
  <2> HIDE DEF p
  <2>2. RemoveAt(line, p) \in Seq(Workers) /\ IsInjective(RemoveAt(line, p))
        /\ ToSet(RemoveAt(line, p)) = ToSet(line) \ {line[p]}
    BY <2>1, RemoveAtProperties, RemoveAtKeepsInjective DEF LInv, LineInv
  <2> QED
    BY <1>1, <2>1, <2>2 DEF Without, p
<1>2. CASE task[w] # "waiting"
  BY <1>2 DEF Without, LInv, LineInv
<1> QED
  BY <1>1, <1>2

----------------------------------------------------------------------------
(* One lemma for each action: it keeps the invariant, and is a step of     *)
(* NoneStartsAboveLimit                                                    *)

\* The step formula of NoneStartsAboveLimit.
Starts == /\ Admitted' \ Admitted # {} => in_flight' <= limit'
          /\ limit' # limit => Admitted \subseteq Admitted'

\* A newcomer with nobody ahead is admitted as there is room.
LEMMA MustAcquireKeeps ==
  ASSUME LInv, NEW w \in Workers, MustAcquire(w) PROVE LInv' /\ Starts
<1>1. /\ in_flight < limit /\ in_flight \in Nat /\ limit' = limit /\ limit \in Nat
      /\ in_flight' = in_flight + 1 /\ line' = line /\ line = <<>>
      /\ task' = [task EXCEPT ![w] = "running"] /\ task[w] = "idle"
  <2>1. Room(in_flight, limit) = IF limit <= in_flight THEN 0 ELSE limit - in_flight
    BY RoomIs DEF LInv
  <2> QED
    BY <2>1 DEF MustAcquire, LInv
<1>2. LineInv(line, task)'
  BY <1>1 DEF LInv, LineInv, Doing
<1>3. In(task') = In(task) \cup {w} /\ w \notin In(task)
  BY <1>1 DEF LInv, LineInv, In
<1>4. Cardinality(In(task')) = in_flight + 1
  BY <1>3, InIsFinite, FS_AddElement DEF LInv
<1> QED
  BY <1>1, <1>2, <1>4 DEF LInv, WaitsOnlyWhenFull, Starts

\* A worker joins the line: the state has refused it, or others wait before it.
LEMMA EnqueueKeeps ==
  ASSUME LInv, NEW w \in Workers, Enqueue(w) PROVE LInv' /\ Starts
<1>1. /\ UNCHANGED <<in_flight, limit>>
      /\ line' = Append(line, w)
      /\ task' = [task EXCEPT ![w] = "waiting"] /\ task[w] = "idle"
  BY DEF Enqueue, Joined
<1>2. w \notin ToSet(line)
  BY <1>1 DEF LInv, LineInv
<1>3. /\ line' \in Seq(Workers) /\ IsInjective(line') /\ ToSet(line') = ToSet(line) \cup {w}
  BY <1>1, <1>2, AppendKeepsInjective DEF LInv, LineInv
<1>4. LineInv(line, task)'
  BY <1>1, <1>3 DEF LInv, LineInv, Doing
<1>5. In(task') = In(task)
  BY <1>1 DEF LInv, LineInv, In
<1>6. in_flight >= limit
  <2>1. Room(in_flight, limit) = IF limit <= in_flight THEN 0 ELSE limit - in_flight
    BY RoomIs DEF LInv
  <2> QED
    BY <2>1 DEF Enqueue, LInv, WaitsOnlyWhenFull
<1> QED
  BY <1>1, <1>4, <1>5, <1>6 DEF LInv, WaitsOnlyWhenFull, Starts, Admitted, In

\* A worker finds the permit it was given.
LEMMA ClaimKeeps ==
  ASSUME LInv, NEW w \in Workers, Claim(w) PROVE LInv' /\ Starts
<1>1. /\ UNCHANGED <<in_flight, limit, line>>
      /\ task' = [task EXCEPT ![w] = "running"] /\ task[w] = "granted"
  BY DEF Claim
<1>2. LineInv(line, task)' /\ In(task') = In(task)
  BY <1>1 DEF LInv, LineInv, In, Doing
<1> QED
  BY <1>1, <1>2 DEF LInv, WaitsOnlyWhenFull, Starts, Admitted, In

\* A permit that returns makes room for one more.
LEMMA FinishKeeps ==
  ASSUME LInv, NEW w \in Workers, Finish(w) PROVE LInv' /\ Starts
<1> DEFINE t == [task EXCEPT ![w] = "idle"]
<1>1. task[w] = "running" /\ limit' = limit /\ limit \in Nat /\ Serve(in_flight - 1, line, t)
  BY DEF Finish, LInv
<1>2. w \in In(task)
  BY <1>1 DEF In
<1>3. in_flight - 1 \in Nat /\ in_flight - 1 = Cardinality(In(t)) /\ t \in [Workers -> Doing]
  BY <1>2, LeavesIdle
<1>4. LineInv(line, t)
  BY <1>1, <1>3 DEF LInv, LineInv
<1> HIDE DEF t
<1>5. LInv' /\ (In(task') \ In(t) # {} => in_flight' <= limit')
  BY <1>1, <1>3, <1>4, ServeKeeps
<1>6. In(t) \subseteq In(task)
  BY LeavesIdle DEF t
<1> QED
  BY <1>1, <1>5, <1>6 DEF Starts, Admitted, In

\* A worker gives up: its place in the line is gone, or its permit goes to the next.
LEMMA CancelKeeps ==
  ASSUME LInv, NEW w \in Workers, Cancel(w) PROVE LInv' /\ Starts
<1> DEFINE t == [task EXCEPT ![w] = "idle"]
<1>1. /\ task[w] \in {"waiting", "granted"} /\ limit' = limit /\ limit \in Nat
      /\ Serve(Returned(w), Without(w), t)
  BY DEF Cancel, LInv
<1>2. w \in In(task) <=> task[w] = "granted"
  BY <1>1 DEF In
<1>3. /\ Returned(w) \in Nat /\ Returned(w) = Cardinality(In(t)) /\ t \in [Workers -> Doing]
      /\ Returned(w) <= in_flight
  BY <1>2, LeavesIdle DEF Returned, LInv
<1>4. LineInv(Without(w), t)
  BY <1>3, WithoutIs DEF LInv, LineInv
<1> HIDE DEF t
<1>5. LInv' /\ (In(task') \ In(t) # {} => in_flight' <= limit')
  BY <1>1, <1>3, <1>4, ServeKeeps
<1>6. In(t) \subseteq In(task)
  BY LeavesIdle DEF t
<1> QED
  BY <1>1, <1>5, <1>6 DEF Starts, Admitted, In

\* The limit moves: the line is served up to the new one, and nobody loses a permit.
LEMMA SetLimitKeeps ==
  ASSUME LInv, NEW l \in Limits, SetLimit(l) PROVE LInv' /\ Starts
<1>1. limit' \in Nat /\ Serve(in_flight, line, task)
  BY LimitAssumptions DEF SetLimit
<1>2. /\ LInv' /\ In(task) \subseteq In(task')
      /\ In(task') \ In(task) # {} => in_flight' <= limit'
  BY <1>1, ServeKeeps DEF LInv
<1> QED
  BY <1>2 DEF Starts, Admitted, In

\* At first nobody works and nobody waits.
LEMMA LInvInit == Init => LInv
<1> SUFFICES ASSUME Init PROVE LInv
  OBVIOUS
<1>1. <<>> \in Seq(Workers) /\ IsInjective(<<>>) /\ ToSet(<<>>) = {}
  BY DEF IsInjective, ToSet
<1>2. In(task) = {}
  BY DEF Init, In
<1> QED
  BY <1>1, <1>2, LimitAssumptions, FS_EmptySet DEF Init, LInv, LineInv, WaitsOnlyWhenFull, Doing

\* Every step keeps the invariant, and admits nobody above the limit.
LEMMA LInvStep == LInv /\ [Next]_vars => LInv' /\ [Starts]_vars
<1> SUFFICES ASSUME LInv, [Next]_vars PROVE LInv' /\ [Starts]_vars
  OBVIOUS
<1>1. CASE UNCHANGED vars
  BY <1>1 DEF vars, LInv, LineInv, In, WaitsOnlyWhenFull
<1>2. ASSUME NEW w \in Workers,
             MustAcquire(w) \/ Enqueue(w) \/ Claim(w) \/ Finish(w) \/ Cancel(w)
      PROVE  LInv' /\ Starts
  BY <1>2, MustAcquireKeeps, EnqueueKeeps, ClaimKeeps, FinishKeeps, CancelKeeps
<1>3. ASSUME NEW l \in Limits, SetLimit(l) PROVE LInv' /\ Starts
  BY <1>3, SetLimitKeeps
<1> QED
  BY <1>1, <1>2, <1>3 DEF Next

----------------------------------------------------------------------------
\* The count is the number of permits out, however acquires are cancelled.
THEOREM CountIsExact == Spec => []InFlightExact
<1>1. LInv => InFlightExact
  BY DEF LInv, InFlightExact, Admitted, In
<1> QED
  BY <1>1, LInvInit, LInvStep, PTL DEF Spec

\* Nobody waits while there is room.
THEOREM NoIdleWaiting == Spec => []WaitsOnlyWhenFull
<1>1. LInv => WaitsOnlyWhenFull
  BY DEF LInv
<1> QED
  BY <1>1, LInvInit, LInvStep, PTL DEF Spec

\* Nobody starts above the limit of the moment, not in the place of one that ends either
\* (release and with_state, dynamic_limit.rs:59-61).
THEOREM LimitIsKept == Spec => NoneStartsAboveLimit
<1>1. LInv /\ [Next]_vars => [Starts]_vars
  BY LInvStep
<1> QED
  BY <1>1, LInvInit, LInvStep, PTL DEF Spec, NoneStartsAboveLimit, Starts
=============================================================================
