----------------------- MODULE SemaphoreQueue_proofs ------------------------
(***************************************************************************)
(* The wait queue for every set of futures and threads, every order,       *)
(* batch capacity and application state: its list is consistent, the head  *)
(* and the leader are never left unserved, a closed or poisoned queue      *)
(* admits nobody, closing is told, its waiters are counted, nobody's waker *)
(* is stranded, and it implements the abstract semaphore and keeps every   *)
(* permit.                                                                 *)
(***************************************************************************)
EXTENDS SemaphoreQueue, CommonFacts

----------------------------------------------------------------------------
(* The inductive invariant, in the parts the actions disturb *)

ListInv == /\ queue \in Seq(Acquires) /\ open \in BOOLEAN /\ closed \in BOOLEAN
           /\ fut \in [Acquires -> Phases] /\ dead \subseteq Acquires
           /\ ListConsistent
           /\ DiscardedListEmpty

\* A thread that checks the queue has room for one more waker in its batch, and an
\* idle one has none to call.
BatchInv(t) == /\ Len(batch[t]) <= BatchCap
               /\ pc[t] = "check" => Len(batch[t]) < BatchCap
               /\ pc[t] = "idle" => batch[t] = <<>>

ThreadInv == /\ pc \in [Threads -> Places]
             /\ batch \in [Threads -> Seq(Acquires \X Wakers)]
             /\ more \in [Threads -> BOOLEAN]
             /\ \A t \in Threads : BatchInv(t)

StateInv == /\ poisoned \in BOOLEAN /\ owed \in BOOLEAN
            /\ avail \in Nat /\ total \in Int

WakerInv == /\ registered \in [Acquires -> Wakers] /\ current \in [Acquires -> Wakers]
            /\ called \subseteq Acquires

QInv == ListInv /\ ThreadInv /\ StateInv /\ WakerInv

\* The parts make up the type invariant and the invariants of the list.
LEMMA QInvImplies == QInv => TypeOK /\ ListConsistent /\ DiscardedListEmpty
<1> SUFFICES ASSUME QInv PROVE TypeOK /\ ListConsistent /\ DiscardedListEmpty
  OBVIOUS
<1>1. len \in Nat
  BY LenProperties DEF QInv, ListInv, ListConsistent
<1> QED
  BY <1>1 DEF QInv, ListInv, ThreadInv, BatchInv, StateInv, WakerInv, TypeOK

\* Init establishes it.
LEMMA InitEstablishes == Init => QInv
<1> SUFFICES ASSUME Init PROVE QInv
  OBVIOUS
<1>1. ListInv
  <2>1. /\ <<>> \in Seq(Acquires) /\ Len(<<>>) = 0 /\ DOMAIN <<>> = {}
    BY EmptySeq
  <2>2. IsInjective(<<>>) /\ ToSet(<<>>) = {}
    BY <2>1 DEF IsInjective, ToSet
  <2> QED
    BY <2>1, <2>2 DEF Init, ListInv, ListConsistent, DiscardedListEmpty, Phases, Gone
<1>2. ThreadInv
  <2>1. <<>> \in Seq(Acquires \X Wakers) /\ Len(<<>>) = 0
    BY EmptySeq
  <2> QED
    BY <2>1, QueueAssumptions DEF Init, ThreadInv, BatchInv, Places
<1>3. StateInv
  <2>1. avail \in Nat /\ total \in Int
    BY QueueAssumptions, SMT DEF Init
  <2> QED
    BY <2>1, Zenon DEF Init, StateInv
<1>4. WakerInv
  BY DEF Init, WakerInv
<1> QED
  BY <1>1, <1>2, <1>3, <1>4 DEF QInv

----------------------------------------------------------------------------
(* What may happen to the list *)

\* Nothing, and nobody joins or leaves it.
LEMMA ListKept ==
  ASSUME ListInv, NEW f \in Acquires, NEW x \in Phases,
         fut[f] # "linked", x # "linked",
         fut' = [fut EXCEPT ![f] = x], dead' \subseteq Acquires, UNCHANGED <<listVars, closed>>
  PROVE  ListInv'
BY DEF ListInv, listVars, ListConsistent, DiscardedListEmpty

\* Nothing at all.
LEMMA ListUntouched ==
  ASSUME ListInv, UNCHANGED <<listVars, closed, fut>>, dead' \subseteq Acquires
  PROVE  ListInv'
BY DEF ListInv, listVars, ListConsistent, DiscardedListEmpty

\* The node of f leaves it.
LEMMA NodeLeaves ==
  ASSUME ListInv, NEW i \in DOMAIN queue, NEW f \in Acquires, queue[i] = f,
         NEW x \in Phases, x # "linked",
         queue' = RemoveAt(queue, i), len' = LenWithout(len),
         fut' = [fut EXCEPT ![f] = x], dead' \subseteq Acquires,
         UNCHANGED <<open, closed>>
  PROVE  ListInv'
<1>1. queue \in Seq(Acquires) /\ IsInjective(queue) /\ len = Len(queue)
  BY DEF ListInv, ListConsistent
<1>2. queue' \in Seq(Acquires) /\ Len(queue') = Len(queue) - 1
  BY <1>1, RemoveAtProperties
<1>3. IsInjective(queue') /\ ToSet(queue') = ToSet(queue) \ {f}
  BY <1>1, RemoveAtKeepsInjective
<1>4. len' = Len(queue')
  BY <1>1, <1>2 DEF LenWithout
<1>5. \A g \in Acquires : fut'[g] = "linked" <=> g \in ToSet(queue')
  BY <1>3 DEF ListInv, ListConsistent
<1>6. queue # <<>>
  BY EmptySeq
<1> QED
  BY <1>2, <1>3, <1>4, <1>5, <1>6 DEF ListInv, ListConsistent, DiscardedListEmpty

\* A node joins it at either end while it is open.
LEMMA NodeJoins ==
  ASSUME ListInv, NEW f \in Acquires, fut[f] # "linked", open,
         NEW front \in BOOLEAN,
         queue' = IF front THEN <<f>> \o queue ELSE Append(queue, f),
         len' = len + 1,
         fut' = [fut EXCEPT ![f] = "linked"], UNCHANGED <<open, closed, dead>>
  PROVE  ListInv'
<1>1. /\ queue \in Seq(Acquires) /\ IsInjective(queue) /\ len = Len(queue)
      /\ f \notin ToSet(queue)
  BY DEF ListInv, ListConsistent
<1>2. /\ queue' \in Seq(Acquires) /\ Len(queue') = Len(queue) + 1
      /\ IsInjective(queue') /\ ToSet(queue') = ToSet(queue) \cup {f}
  <2>1. CASE front
    BY <2>1, <1>1, PrependKeepsInjective
  <2>2. CASE ~front
    BY <2>2, <1>1, AppendKeepsInjective
  <2> QED
    BY <2>1, <2>2
<1>3. \A g \in Acquires : fut'[g] = "linked" <=> g \in ToSet(queue')
  BY <1>2 DEF ListInv, ListConsistent
<1>4. fut' \in [Acquires -> Phases]
  BY DEF ListInv, Phases
<1> QED
  BY <1>1, <1>2, <1>3, <1>4 DEF ListInv, ListConsistent, DiscardedListEmpty

----------------------------------------------------------------------------
(* What may happen to a thread *)

\* It leaves the lock, or goes on waking, with the batch b.
LEMMA ThreadLeaves ==
  ASSUME ThreadInv, NEW t \in Threads, NEW place \in Places \ {"check", "idle"},
         NEW b \in Seq(Acquires \X Wakers), Len(b) <= BatchCap, NEW m \in BOOLEAN,
         LeaveWith(t, place, b, m)
  PROVE  ThreadInv'
<1>1. pc' \in [Threads -> Places] /\ more' \in [Threads -> BOOLEAN]
  BY DEF ThreadInv, LeaveWith, Places
<1>2. batch' \in [Threads -> Seq(Acquires \X Wakers)]
  BY DEF ThreadInv, LeaveWith
<1>3. ASSUME NEW u \in Threads PROVE BatchInv(u)'
  <2>1. CASE u = t
    BY <2>1 DEF ThreadInv, LeaveWith, BatchInv
  <2>2. CASE u # t
    BY <2>2 DEF ThreadInv, LeaveWith, BatchInv
  <2> QED
    BY <2>1, <2>2
<1> QED
  BY <1>1, <1>2, <1>3 DEF ThreadInv

\* An idle thread ends its closure of with_queue.
LEMMA ThreadServes ==
  ASSUME ThreadInv, NEW t \in Threads, pc[t] = "idle", ServeAfterwards(t)
  PROVE  ThreadInv'
<1>1. pc' \in [Threads -> Places] /\ UNCHANGED <<batch, more>>
  BY DEF ThreadInv, ServeAfterwards, Places
<1>2. ASSUME NEW u \in Threads PROVE BatchInv(u)'
  <2>1. CASE u = t
    <3>1. batch'[u] = <<>> /\ Len(<<>>) = 0
      BY <2>1, <1>1, EmptySeq DEF ThreadInv, BatchInv
    <3> QED
      BY <3>1, QueueAssumptions DEF BatchInv
  <2>2. CASE u # t
    BY <2>2, <1>1 DEF ThreadInv, ServeAfterwards, BatchInv
  <2> QED
    BY <2>1, <2>2
<1> QED
  BY <1>1, <1>2 DEF ThreadInv

\* Threads do not move.
LEMMA ThreadsStay == ThreadInv /\ UNCHANGED threadVars => ThreadInv'
BY DEF ThreadInv, threadVars, BatchInv

----------------------------------------------------------------------------
(* Permits and poison *)

\* Whatever acquire, release and with_state do to the counter, it stays one.
LEMMA CounterKept ==
  ASSUME StateInv, NEW f \in Acquires, owed' \in BOOLEAN,
         \/ Take(f) \/ TakePanics(f) \/ Release(f) \/ ReleasePanics(f)
         \/ UNCHANGED <<poisoned, stateVars>>
  PROVE  StateInv'
<1>1. Need[f] \in Nat
  BY QueueAssumptions
<1>2. avail \in Nat /\ total \in Int
  BY DEF StateInv
<1>3. avail' \in Nat /\ total' \in Int
  <2>1. CASE Take(f)
    BY <2>1, <1>1, <1>2 DEF Take, Fits
  <2>2. CASE TakePanics(f)
    BY <2>2, <1>1, <1>2 DEF TakePanics, Fits, stateVars
  <2>3. CASE Release(f)
    BY <2>3, <1>1, <1>2 DEF Release
  <2>4. CASE ReleasePanics(f)
    BY <2>4, <1>1, <1>2 DEF ReleasePanics
  <2>5. CASE UNCHANGED <<poisoned, stateVars>>
    BY <2>5, <1>2 DEF stateVars
  <2> QED
    BY <2>1, <2>2, <2>3, <2>4, <2>5
<1>4. poisoned' \in BOOLEAN
  BY DEF Take, TakePanics, Release, ReleasePanics, StateInv
<1> QED
  BY <1>3, <1>4 DEF StateInv

\* A with_state closure leaves a counter behind.
LEMMA WriteKept ==
  ASSUME StateInv, NEW n \in StateWrites, Write(n), poisoned' \in BOOLEAN, owed' \in BOOLEAN
  PROVE  StateInv'
<1>1. n \in Nat
  BY QueueAssumptions
<1>2. avail' \in Nat /\ total' \in Int
  BY <1>1 DEF StateInv, Write
<1> QED
  BY <1>2 DEF StateInv

\* The state is not touched.
LEMMA StateStays == StateInv /\ UNCHANGED <<poisoned, stateVars>> /\ owed' \in BOOLEAN => StateInv'
BY DEF StateInv, stateVars

\* No waker is replaced and nobody is woken.
LEMMA WakersStay == WakerInv /\ UNCHANGED <<registered, current>> /\ called' \subseteq called => WakerInv'
BY DEF WakerInv

----------------------------------------------------------------------------
(* One lemma per action *)

\* check serves a waiter: one node less, one waker more, permits taken.
LEMMA GrantKeeps == ASSUME QInv, NEW t \in Threads, Grant(t) PROVE QInv'
<1> USE DEF QInv
<1>1. PICK i \in DOMAIN queue :
        LET f == queue[i]
            b == Append(batch[t], <<f, registered[f]>>)
        IN /\ IsLeader(i)
           /\ Take(f)
           /\ queue' = RemoveAt(queue, i)
           /\ len' = LenWithout(len)
           /\ fut' = [fut EXCEPT ![f] = "granted"]
           /\ IF BatchFull(b)
              THEN LeaveWith(t, "wake_served", b, MoreToServe(b, len'))
              ELSE batch' = [batch EXCEPT ![t] = b] /\ UNCHANGED <<pc, more>>
  BY DEF Grant
<1> DEFINE f == queue[i]
           b == Append(batch[t], <<f, registered[f]>>)
<1>2. /\ pc[t] = "check" /\ owed' = (owed /\ len' # 0)
      /\ UNCHANGED <<open, closed, dead, wakerVars>>
  BY DEF Grant
<1>3. f \in Acquires
  BY DEF ListInv
<1>4. /\ b \in Seq(Acquires \X Wakers) /\ Len(b) = Len(batch[t]) + 1
      /\ Len(batch[t]) \in Nat /\ Len(batch[t]) < BatchCap
  <2>1. batch[t] \in Seq(Acquires \X Wakers) /\ <<f, registered[f]>> \in Acquires \X Wakers
    BY <1>3 DEF ThreadInv, WakerInv
  <2>2. Len(batch[t]) < BatchCap
    BY <1>2 DEF ThreadInv, BatchInv
  <2> QED
    BY <2>1, <2>2, AppendProperties, LenProperties
<1> HIDE DEF f, b
<1>5. ListInv'
  <2>1. "granted" \in Phases
    BY DEF Phases
  <2> QED
    BY <1>1, <1>2, <1>3, <2>1, NodeLeaves DEF f, ListInv
<1>6. ThreadInv'
  <2>1. CASE BatchFull(b)
    <3>1. MoreToServe(b, len') \in BOOLEAN /\ "wake_served" \in Places \ {"check", "idle"}
      BY DEF MoreToServe, Places
    <3>2. LeaveWith(t, "wake_served", b, MoreToServe(b, len'))
      BY <1>1, <2>1 DEF f, b
    <3>3. Len(b) <= BatchCap
      BY <1>4, QueueAssumptions
    <3> QED
      BY <3>1, <3>2, <3>3, <1>4, ThreadLeaves
  <2>2. CASE ~BatchFull(b)
    <3>1. batch' = [batch EXCEPT ![t] = b] /\ UNCHANGED <<pc, more>>
      BY <1>1, <2>2 DEF f, b
    <3>2. Len(b) < BatchCap
      BY <2>2, <1>4, QueueAssumptions DEF BatchFull
    <3>3. ASSUME NEW u \in Threads PROVE BatchInv(u)'
      <4>1. CASE u = t
        <5>1. batch'[u] = b /\ pc'[u] = "check"
          BY <4>1, <3>1, <1>2 DEF ThreadInv
        <5>2. Len(b) <= BatchCap
          BY <3>2, <1>4, QueueAssumptions
        <5> QED
          BY <5>1, <5>2, <3>2 DEF BatchInv
      <4>2. CASE u # t
        BY <4>2, <3>1 DEF ThreadInv, BatchInv
      <4> QED
        BY <4>1, <4>2
    <3> QED
      BY <3>1, <3>3, <1>4 DEF ThreadInv
  <2> QED
    BY <2>1, <2>2
<1>7. StateInv'
  <2>1. owed' \in BOOLEAN
    BY <1>2
  <2> QED
    BY <1>1, <1>3, <2>1, CounterKept DEF f
<1>8. WakerInv'
  BY <1>2 DEF wakerVars, WakerInv
<1> QED
  BY <1>5, <1>6, <1>7, <1>8

\* check ends and the lock is released.
LEMMA CheckEndsKeeps == ASSUME QInv, NEW t \in Threads, CheckEnds(t) PROVE QInv'
<1> USE DEF QInv
<1>1. /\ pc[t] = "check" /\ LeaveWith(t, "wake_served", batch[t], FALSE)
      /\ owed' = (owed /\ ~Serving)
      /\ UNCHANGED <<listVars, flagVars, stateVars, futVars, wakerVars>>
  BY DEF CheckEnds
<1>2. ListInv'
  BY <1>1, ListUntouched DEF futVars, flagVars, ListInv
<1>3. ThreadInv'
  <2>1. batch[t] \in Seq(Acquires \X Wakers) /\ Len(batch[t]) <= BatchCap
    BY DEF ThreadInv, BatchInv
  <2>2. "wake_served" \in Places \ {"check", "idle"}
    BY DEF Places
  <2> QED
    BY <1>1, <2>1, <2>2, ThreadLeaves
<1>4. StateInv' /\ WakerInv'
  BY <1>1, StateStays, WakersStay DEF flagVars, wakerVars
<1> QED
  BY <1>2, <1>3, <1>4

\* acquire panics inside check: a node loses its params.
LEMMA CheckPanicsKeeps == ASSUME QInv, NEW t \in Threads, CheckPanics(t) PROVE QInv'
<1> USE DEF QInv
<1>1. PICK i \in DOMAIN queue : TakePanics(queue[i]) /\ dead' = dead \cup {queue[i]}
  BY DEF CheckPanics
<1>2. /\ LeaveWith(t, "unwind", batch[t], FALSE)
      /\ UNCHANGED <<listVars, closed, fut, wakerVars, owed>>
  BY DEF CheckPanics
<1>3. queue[i] \in Acquires
  BY DEF ListInv
<1>4. ListInv'
  <2>1. dead' \subseteq Acquires
    BY <1>1, <1>3 DEF ListInv
  <2> QED
    BY <1>2, <2>1, ListUntouched
<1>5. ThreadInv'
  <2>1. batch[t] \in Seq(Acquires \X Wakers) /\ Len(batch[t]) <= BatchCap
    BY DEF ThreadInv, BatchInv
  <2>2. "unwind" \in Places \ {"check", "idle"}
    BY DEF Places
  <2> QED
    BY <1>2, <2>1, <2>2, ThreadLeaves
<1>6. StateInv'
  BY <1>1, <1>2, <1>3, CounterKept DEF StateInv
<1>7. WakerInv'
  BY <1>2, WakersStay DEF wakerVars
<1> QED
  BY <1>4, <1>5, <1>6, <1>7

\* Taking the first waker off a batch; it reaches a future.
LEMMA BatchHead ==
  ASSUME ThreadInv, NEW t \in Threads, batch[t] # <<>>
  PROVE  /\ Head(batch[t]) \in Acquires \X Wakers
         /\ Tail(batch[t]) \in Seq(Acquires \X Wakers)
         /\ Len(Tail(batch[t])) <= BatchCap
<1>1. batch[t] \in Seq(Acquires \X Wakers) /\ Len(batch[t]) <= BatchCap
  BY DEF ThreadInv, BatchInv
<1>2. /\ Head(batch[t]) \in Acquires \X Wakers
      /\ Tail(batch[t]) \in Seq(Acquires \X Wakers)
      /\ Len(Tail(batch[t])) = Len(batch[t]) - 1
  BY <1>1, HeadTailProperties
<1>3. Len(batch[t]) \in Nat
  BY <1>1, LenProperties
<1> QED
  BY <1>1, <1>2, <1>3, QueueAssumptions

\* A call of a waker, and what the thread goes on with.
LEMMA WakeKeeps ==
  ASSUME QInv, NEW t \in Threads, batch[t] # <<>>,
         called' = WakenBy(Head(batch[t])[1], Head(batch[t])[2]),
         NEW place \in Places \ {"check", "idle"}, NEW m \in BOOLEAN,
         LeaveWith(t, place, Tail(batch[t]), m),
         owed' \in BOOLEAN,
         UNCHANGED <<listVars, flagVars, stateVars, futVars, registered, current>>
  PROVE  QInv'
<1> USE DEF QInv
<1>1. ListInv'
  BY ListUntouched DEF futVars, flagVars, ListInv
<1>2. ThreadInv'
  BY BatchHead, ThreadLeaves
<1>3. StateInv'
  BY StateStays DEF flagVars
<1>4. WakerInv'
  <2>1. Head(batch[t])[1] \in Acquires
    BY BatchHead
  <2> QED
    BY <2>1 DEF WakenBy, WakerInv
<1> QED
  BY <1>1, <1>2, <1>3, <1>4

\* The next waker of a batch is called.
LEMMA WakeNextKeeps == ASSUME QInv, NEW t \in Threads, WakeNext(t) PROVE QInv'
<1>1. /\ pc[t] \in Places \ {"check", "idle"}
      /\ more[t] \in BOOLEAN
      /\ owed' \in BOOLEAN
  BY DEF WakeNext, Places, QInv, ThreadInv, StateInv
<1> QED
  BY <1>1, WakeKeeps DEF WakeNext

\* It panics, and the rest of its batch remains.
LEMMA WakePanicsKeeps == ASSUME QInv, NEW t \in Threads, WakePanics(t) PROVE QInv'
<1>1. "unwind" \in Places \ {"check", "idle"} /\ owed' \in BOOLEAN
  BY DEF WakePanics, Places
<1> QED
  BY <1>1, WakeKeeps DEF WakePanics

\* with_queue relocks with an empty batch.
LEMMA ServeMoreKeeps == ASSUME QInv, NEW t \in Threads, ServeMore(t) PROVE QInv'
<1> USE DEF QInv
<1>1. /\ batch[t] = <<>>
      /\ pc' = [pc EXCEPT ![t] = "check"]
      /\ more' = [more EXCEPT ![t] = FALSE]
      /\ UNCHANGED <<listVars, flagVars, stateVars, futVars, wakerVars, batch, owed>>
  BY DEF ServeMore
<1>2. ListInv'
  BY <1>1, ListUntouched DEF futVars, flagVars, ListInv
<1>3. ThreadInv'
  <2>1. pc' \in [Threads -> Places] /\ more' \in [Threads -> BOOLEAN]
    BY <1>1 DEF ThreadInv, Places
  <2>2. ASSUME NEW u \in Threads PROVE BatchInv(u)'
    <3>1. CASE u = t
      <4>1. batch'[u] = <<>> /\ Len(<<>>) = 0 /\ pc'[u] # "idle"
        BY <3>1, <1>1, EmptySeq DEF ThreadInv
      <4> QED
        BY <4>1, QueueAssumptions DEF BatchInv
    <3>2. CASE u # t
      BY <3>2, <1>1 DEF ThreadInv, BatchInv
    <3> QED
      BY <3>1, <3>2
  <2> QED
    BY <1>1, <2>1, <2>2 DEF ThreadInv
<1>4. StateInv' /\ WakerInv'
  BY <1>1, StateStays, WakersStay DEF flagVars, wakerVars, StateInv
<1> QED
  BY <1>2, <1>3, <1>4

\* The number of nodes a round of close takes.
LEMMA RoundSize ==
  ASSUME NEW k \in Nat
  PROVE  Min({BatchCap, k}) \in 0..k /\ Min({BatchCap, k}) <= BatchCap
<1>1. BatchCap \in Nat
  BY QueueAssumptions
<1>2. PICK x \in {BatchCap, k} : \A y \in {BatchCap, k} : x <= y
  BY <1>1
<1>3. Min({BatchCap, k}) \in {BatchCap, k} /\ \A y \in {BatchCap, k} : Min({BatchCap, k}) <= y
  BY <1>2 DEF Min
<1> QED
  BY <1>1, <1>3

\* A round of close: a prefix of the list leaves, and an empty list is discarded.
LEMMA CloseKeeps == ASSUME QInv, NEW t \in Threads, Close(t) PROVE QInv'
<1> USE DEF QInv
<1> DEFINE n == Min({BatchCap, Len(queue)})
           taken == {queue[i] : i \in 1..n}
           b == [i \in 1..n |-> <<queue[i], registered[queue[i]]>>]
<1>1. /\ closed' = TRUE
      /\ queue' = SubSeq(queue, n + 1, Len(queue))
      /\ len' = len - n
      /\ open' = (open /\ KeepsList(queue'))
      /\ fut' = [f \in Acquires |-> IF f \in taken THEN "refused" ELSE fut[f]]
      /\ LeaveWith(t, "wake_closed", b, open')
      /\ UNCHANGED <<poisoned, stateVars, dead, wakerVars, owed>>
  BY DEF Close
<1>2. /\ queue \in Seq(Acquires) /\ IsInjective(queue) /\ len = Len(queue)
      /\ Len(queue) \in Nat /\ DOMAIN queue = 1..Len(queue)
  BY LenProperties DEF ListInv, ListConsistent
<1>3. n \in 0..Len(queue) /\ n <= BatchCap /\ n \in Nat
  BY <1>2, RoundSize
<1> HIDE DEF n
<1>4. /\ queue' \in Seq(Acquires) /\ Len(queue') = Len(queue) - n
      /\ IsInjective(queue') /\ ToSet(queue') = ToSet(queue) \ taken
  <2>1. /\ SubSeq(queue, n + 1, Len(queue)) \in Seq(Acquires)
        /\ Len(SubSeq(queue, n + 1, Len(queue))) = Len(queue) - n
        /\ IsInjective(SubSeq(queue, n + 1, Len(queue)))
        /\ ToSet(SubSeq(queue, n + 1, Len(queue))) = ToSet(queue) \ {queue[i] : i \in 1..n}
    <3>1. queue \in Seq(Acquires) /\ IsInjective(queue) /\ n \in 0..Len(queue)
      BY <1>2, <1>3
    <3> QED
      BY <3>1, DropKeepsInjective, Zenon
  <2> QED
    BY <1>1, <2>1
<1>5. \A i \in 1..n : i \in DOMAIN queue /\ queue[i] \in Acquires
  BY <1>2, <1>3 DEF ListInv
<1>6. ListInv'
  <2>1. taken \subseteq Acquires
    BY <1>5
  <2>2. fut' \in [Acquires -> Phases]
    BY <1>1 DEF ListInv, Phases
  <2>3. \A f \in Acquires : fut'[f] = "linked" <=> f \in ToSet(queue')
    BY <1>1, <1>4 DEF ListInv, ListConsistent
  <2>4. DiscardedListEmpty'
    BY <1>1, <1>2, <1>3, <1>4 DEF DiscardedListEmpty, KeepsList, ListInv
  <2>5. open' \in BOOLEAN
    BY <1>1
  <2> QED
    BY <1>1, <1>2, <1>4, <2>2, <2>3, <2>4, <2>5 DEF ListInv, ListConsistent
<1>7. ThreadInv'
  <2>1. b \in Seq(Acquires \X Wakers) /\ Len(b) = n
    <3>1. \A i \in 1..n : b[i] \in Acquires \X Wakers
      BY <1>5 DEF WakerInv
    <3> QED
      BY <1>3, <3>1, IsASeq, LenProperties
  <2>2. open' \in BOOLEAN /\ "wake_closed" \in Places \ {"check", "idle"}
    BY <1>1 DEF Places
  <2> HIDE DEF b
  <2> QED
    BY <1>1, <1>3, <2>1, <2>2, ThreadLeaves
<1>8. StateInv' /\ WakerInv'
  BY <1>1, StateStays, WakersStay DEF wakerVars, StateInv
<1> QED
  BY <1>6, <1>7, <1>8

\* A new future is in nobody's list.
LEMMA NewAcquireKeeps == ASSUME QInv, NEW f \in Acquires, NewAcquire(f) PROVE QInv'
<1> USE DEF QInv
<1>1. ListInv'
  BY ListKept DEF NewAcquire, flagVars, Phases, ListInv
<1>2. ThreadInv' /\ StateInv'
  BY ThreadsStay, StateStays DEF NewAcquire, flagVars, StateInv
<1>3. WakerInv'
  BY DEF NewAcquire, WakerInv
<1> QED
  BY <1>1, <1>2, <1>3

\* An acquisition that ends up in the queue found the list there; any other outcome
\* leaves the list alone, and all of them keep a counter in the state.
LEMMA AcquireOutcome ==
  ASSUME ListInv, StateInv, NEW f \in Acquires, NEW fair \in BOOLEAN, NEW front \in BOOLEAN,
         NEW outcome \in Outcomes, AcquireOrEnqueue(f, fair, front, outcome), UNCHANGED owed
  PROVE  /\ StateInv'
         /\ outcome = "enqueue" => open /\ ~closed /\ ~poisoned
         /\ ResultOf(outcome) \in Phases \ {"linked"}
<1>1. \/ Take(f) \/ TakePanics(f) \/ UNCHANGED <<poisoned, stateVars>>
  BY DEF AcquireOrEnqueue, Outcomes
<1>2. StateInv'
  BY <1>1, CounterKept DEF StateInv
<1>3. outcome = "enqueue" => open /\ ~closed /\ ~poisoned
  BY DEF AcquireOrEnqueue, Outcomes, Rejecting
<1>4. ResultOf(outcome) \in Phases \ {"linked"}
  BY DEF ResultOf, Outcomes, Phases, Gone
<1> QED
  BY <1>2, <1>3, <1>4

\* The first poll ends the future or links it, if the list is there.
LEMMA FirstPollKeeps ==
  ASSUME QInv, NEW f \in Acquires, NEW w \in Wakers, FirstPoll(f, w) PROVE QInv'
<1> USE DEF QInv
<1>1. PICK front \in BOOLEAN, outcome \in Outcomes :
        /\ AcquireOrEnqueue(f, TRUE, front, outcome)
        /\ IF outcome = "enqueue"
           THEN /\ queue' = IF front THEN <<f>> \o queue ELSE Append(queue, f)
                /\ len' = len + 1
                /\ fut' = [fut EXCEPT ![f] = "linked"]
                /\ registered' = [registered EXCEPT ![f] = w]
                /\ current' = [current EXCEPT ![f] = w]
           ELSE /\ fut' = [fut EXCEPT ![f] = ResultOf(outcome)]
                /\ UNCHANGED <<queue, len, registered, current>>
  BY DEF FirstPoll
<1>2. /\ fut[f] = "new" /\ called' = called \ {f}
      /\ UNCHANGED <<open, closed, dead, threadVars, owed>>
  BY DEF FirstPoll
<1>3. /\ StateInv'
      /\ outcome = "enqueue" => open
      /\ ResultOf(outcome) \in Phases \ {"linked"}
  BY <1>1, <1>2, AcquireOutcome
<1>4. ListInv'
  <2>1. CASE outcome = "enqueue"
    BY <2>1, <1>1, <1>2, <1>3, NodeJoins
  <2>2. CASE outcome # "enqueue"
    BY <2>2, <1>1, <1>2, <1>3, ListKept DEF listVars, ListInv
  <2> QED
    BY <2>1, <2>2
<1>5. ThreadInv'
  BY <1>2, ThreadsStay
<1>6. WakerInv'
  BY <1>1, <1>2 DEF WakerInv
<1> QED
  BY <1>3, <1>4, <1>5, <1>6

\* try_acquire leaves the list alone.
LEMMA TryAcquireKeeps ==
  ASSUME QInv, NEW f \in Acquires, NEW fair \in TryModes, TryAcquire(f, fair) PROVE QInv'
<1> USE DEF QInv
<1>1. PICK front \in BOOLEAN, outcome \in Outcomes :
        /\ AcquireOrEnqueue(f, fair, front, outcome)
        /\ fut' = [fut EXCEPT ![f] = ResultOf(outcome)]
  BY DEF TryAcquire
<1>2. /\ fut[f] = "none"
      /\ UNCHANGED <<listVars, closed, dead, wakerVars, threadVars, owed>>
  BY DEF TryAcquire
<1>3. fair \in BOOLEAN
  BY QueueAssumptions
<1>4. StateInv' /\ ResultOf(outcome) \in Phases \ {"linked"}
  BY <1>1, <1>2, <1>3, AcquireOutcome
<1>5. ListInv'
  BY <1>1, <1>2, <1>4, ListKept DEF ListInv
<1>6. ThreadInv' /\ WakerInv'
  BY <1>2, ThreadsStay, WakersStay DEF wakerVars
<1> QED
  BY <1>4, <1>5, <1>6

\* What a poll or a drop does to a future that keeps its threads and permits alone.
LEMMA UnlinkKeeps ==
  ASSUME ListInv, NEW f \in Acquires, Unlink(f), NEW x \in Phases, x # "linked",
         fut' = [fut EXCEPT ![f] = x], dead' \subseteq Acquires, UNCHANGED <<open, closed>>
  PROVE  ListInv'
BY NodeLeaves DEF Unlink

\* A poll unlinks its node while the queue is closing.
LEMMA PollClosingKeeps == ASSUME QInv, NEW f \in Acquires, PollClosing(f) PROVE QInv'
<1> USE DEF QInv
<1>1. /\ Unlink(f)
      /\ fut' = [fut EXCEPT ![f] = RefusedResult(f)]
      /\ dead' = dead \ {f}
      /\ called' = called \ {f}
      /\ UNCHANGED <<open, flagVars, stateVars, registered, current, threadVars, owed>>
  BY DEF PollClosing
<1>2. RefusedResult(f) \in Phases \ {"linked"}
  BY DEF RefusedResult, Phases, Gone
<1>3. ListInv'
  BY <1>1, <1>2, UnlinkKeeps DEF flagVars, ListInv
<1>4. ThreadInv' /\ StateInv' /\ WakerInv'
  BY <1>1, ThreadsStay, StateStays, WakersStay DEF flagVars, StateInv
<1> QED
  BY <1>3, <1>4

\* A poll replaces the waker of its node.
LEMMA PollPendingKeeps ==
  ASSUME QInv, NEW f \in Acquires, NEW w \in Wakers, PollPending(f, w) PROVE QInv'
<1> USE DEF QInv
<1>1. ListInv'
  BY ListUntouched DEF PollPending, flagVars, futVars, ListInv
<1>2. ThreadInv' /\ StateInv'
  BY ThreadsStay, StateStays DEF PollPending, flagVars, StateInv
<1>3. WakerInv'
  BY DEF PollPending, Reregistered, WakerInv
<1> QED
  BY <1>1, <1>2, <1>3

\* A poll takes the result of a node that has left.
LEMMA PollReadyKeeps == ASSUME QInv, NEW f \in Acquires, PollReady(f) PROVE QInv'
<1> USE DEF QInv
<1> DEFINE x == IF fut[f] = "granted" THEN "permit" ELSE RefusedResult(f)
<1>1. /\ fut[f] \in {"granted", "refused"}
      /\ fut' = [fut EXCEPT ![f] = x]
      /\ dead' = dead \ {f}
      /\ called' = called \ {f}
      /\ UNCHANGED <<listVars, flagVars, stateVars, registered, current, threadVars, owed>>
  BY DEF PollReady
<1>2. x \in Phases \ {"linked"}
  BY DEF RefusedResult, Phases, Gone
<1> HIDE DEF x
<1>3. ListInv'
  BY <1>1, <1>2, ListKept DEF flagVars, ListInv
<1>4. ThreadInv' /\ StateInv' /\ WakerInv'
  BY <1>1, ThreadsStay, StateStays, WakersStay DEF flagVars, StateInv
<1> QED
  BY <1>3, <1>4

\* A future that was never polled is dropped.
LEMMA DropNewKeeps == ASSUME QInv, NEW f \in Acquires, DropNew(f) PROVE QInv'
<1> USE DEF QInv
<1>1. ListInv'
  BY ListKept DEF DropNew, flagVars, Phases, Gone, ListInv
<1>2. ThreadInv' /\ StateInv' /\ WakerInv'
  BY ThreadsStay, StateStays, WakersStay DEF DropNew, flagVars, StateInv
<1> QED
  BY <1>1, <1>2

\* A queued, granted or refused future is dropped, and the queue is served.
LEMMA DropAcquireKeeps ==
  ASSUME QInv, NEW t \in Threads, NEW f \in Acquires, DropAcquire(t, f) PROVE QInv'
<1> USE DEF QInv
<1>1. /\ pc[t] = "idle" /\ ServeAfterwards(t)
      /\ fut[f] \in {"linked", "granted", "refused"}
      /\ fut' = [fut EXCEPT ![f] = "none"]
      /\ dead' = dead \ {f}
      /\ called' = called \ {f}
      /\ UNCHANGED <<open, closed, registered, current, owed>>
  BY DEF DropAcquire
<1>2. \/ fut[f] = "linked" /\ Unlink(f) /\ UNCHANGED <<poisoned, stateVars>>
      \/ fut[f] # "linked" /\ Release(f) /\ UNCHANGED <<queue, len>>
      \/ fut[f] # "linked" /\ UNCHANGED <<poisoned, stateVars, queue, len>>
  BY DEF DropAcquire
<1>3. "none" \in Phases
  BY DEF Phases, Gone
<1>4. ListInv'
  BY <1>1, <1>2, <1>3, UnlinkKeeps, ListKept DEF listVars, ListInv
<1>5. StateInv'
  BY <1>1, <1>2, CounterKept DEF StateInv
<1>6. ThreadInv' /\ WakerInv'
  BY <1>1, ThreadServes, WakersStay
<1> QED
  BY <1>4, <1>5, <1>6

\* A permit is given up: by its holder, or with the future it was granted to.
LEMMA PermitGivenUp ==
  ASSUME QInv, NEW f \in Acquires, fut[f] # "linked",
         Release(f) \/ ReleasePanics(f),
         fut' = [fut EXCEPT ![f] = "none"], called' \subseteq called,
         UNCHANGED <<listVars, closed, dead, registered, current, owed>>
  PROVE  ListInv' /\ StateInv' /\ WakerInv'
<1> USE DEF QInv
<1>1. ListInv'
  BY ListKept DEF Phases, Gone, ListInv
<1>2. StateInv'
  BY CounterKept DEF StateInv
<1>3. WakerInv'
  BY WakersStay
<1> QED
  BY <1>1, <1>2, <1>3

\* The same with a release that panics.
LEMMA DropAcquirePanicsKeeps ==
  ASSUME QInv, NEW f \in Acquires, DropAcquirePanics(f) PROVE QInv'
BY PermitGivenUp, ThreadsStay DEF DropAcquirePanics, QInv

\* A permit is dropped and release panics.
LEMMA DropPermitPanicsKeeps ==
  ASSUME QInv, NEW f \in Acquires, DropPermitPanics(f) PROVE QInv'
BY PermitGivenUp, ThreadsStay DEF DropPermitPanics, QInv, wakerVars

\* A permit is dropped, and the queue is served.
LEMMA DropPermitKeeps ==
  ASSUME QInv, NEW t \in Threads, NEW f \in Acquires, DropPermit(t, f) PROVE QInv'
BY PermitGivenUp, ThreadServes DEF DropPermit, QInv, wakerVars

\* A with_state closure changes the counter, and the queue is served.
LEMMA WithStateKeeps == ASSUME QInv, NEW t \in Threads, WithState(t) PROVE QInv'
<1> USE DEF QInv
<1>1. PICK n \in StateWrites : Write(n)
  BY DEF WithState
<1>2. /\ pc[t] = "idle" /\ ServeAfterwards(t)
      /\ UNCHANGED <<listVars, flagVars, futVars, wakerVars, owed>>
  BY DEF WithState
<1>3. ListInv' /\ WakerInv' /\ ThreadInv'
  BY <1>2, ListUntouched, WakersStay, ThreadServes DEF flagVars, futVars, wakerVars, ListInv
<1>4. StateInv'
  BY <1>1, <1>2, WriteKept DEF flagVars, StateInv
<1> QED
  BY <1>3, <1>4

\* A with_state closure panics.
LEMMA WithStatePanicsKeeps == ASSUME QInv, WithStatePanics PROVE QInv'
<1> USE DEF QInv
<1>1. PICK n \in StateWrites : Write(n)
  BY DEF WithStatePanics
<1>2. /\ poisoned' = TRUE
      /\ UNCHANGED <<listVars, closed, futVars, wakerVars, threadVars, owed>>
  BY DEF WithStatePanics
<1>3. ListInv' /\ WakerInv' /\ ThreadInv'
  BY <1>2, ListUntouched, WakersStay, ThreadsStay DEF futVars, wakerVars, ListInv
<1>4. StateInv'
  BY <1>1, <1>2, WriteKept DEF StateInv
<1> QED
  BY <1>3, <1>4

\* clear_poison touches one flag.
LEMMA ClearPoisonKeeps == ASSUME QInv, ClearPoison PROVE QInv'
<1> USE DEF QInv
<1>1. ListInv' /\ WakerInv' /\ ThreadInv'
  BY ListUntouched, WakersStay, ThreadsStay DEF ClearPoison, futVars, wakerVars, ListInv
<1>2. StateInv'
  BY DEF ClearPoison, StateInv, stateVars
<1> QED
  BY <1>1, <1>2

\* A permit is taken and never comes back.
LEMMA TakePermitKeeps == ASSUME QInv, NEW f \in Acquires, TakePermit(f) PROVE QInv'
<1> USE DEF QInv
<1>1. ListInv' /\ WakerInv' /\ ThreadInv'
  BY ListKept, WakersStay, ThreadsStay
     DEF TakePermit, flagVars, wakerVars, Phases, Gone, ListInv
<1>2. StateInv'
  BY QueueAssumptions DEF TakePermit, StateInv, flagVars
<1> QED
  BY <1>1, <1>2

\* A permit appears.
LEMMA OutOfThinAirKeeps == ASSUME QInv, NEW f \in Acquires, OutOfThinAir(f) PROVE QInv'
<1> USE DEF QInv
<1>1. ListInv' /\ WakerInv' /\ ThreadInv'
  BY ListKept, WakersStay, ThreadsStay
     DEF OutOfThinAir, flagVars, wakerVars, Phases, ListInv
<1>2. StateInv'
  BY QueueAssumptions DEF OutOfThinAir, StateInv, flagVars
<1> QED
  BY <1>1, <1>2

\* The caller is done with an answer.
LEMMA ForgetKeeps == ASSUME QInv, NEW f \in Acquires, Forget(f) PROVE QInv'
<1> USE DEF QInv
<1>1. ListInv' /\ WakerInv' /\ ThreadInv'
  BY ListKept, WakersStay, ThreadsStay
     DEF Forget, flagVars, wakerVars, Phases, Gone, ListInv
<1>2. StateInv'
  BY StateStays DEF Forget, flagVars, StateInv
<1> QED
  BY <1>1, <1>2

\* A step that changes nothing.
LEMMA StutterKeeps == ASSUME QInv, UNCHANGED vars PROVE QInv'
<1> USE DEF QInv
<1>1. UNCHANGED <<listVars, flagVars, stateVars, futVars, wakerVars, threadVars, owed>>
  BY DEF vars
<1>2. ListInv' /\ WakerInv' /\ ThreadInv'
  BY <1>1, ListUntouched, WakersStay, ThreadsStay DEF flagVars, futVars, wakerVars, ListInv
<1>3. StateInv'
  BY <1>1, StateStays DEF flagVars, StateInv
<1> QED
  BY <1>2, <1>3

----------------------------------------------------------------------------
(* The theorems *)

\* Every step keeps the invariant.
LEMMA StepKeeps == QInv /\ [Next]_vars => QInv'
<1> SUFFICES ASSUME QInv, [Next]_vars PROVE QInv'
  OBVIOUS
<1>1. CASE \E t \in Threads : \/ Grant(t) \/ CheckEnds(t) \/ CheckPanics(t)
                              \/ WakeNext(t) \/ WakePanics(t) \/ ServeMore(t)
                              \/ Close(t) \/ WithState(t)
  BY <1>1, GrantKeeps, CheckEndsKeeps, CheckPanicsKeeps, WakeNextKeeps, WakePanicsKeeps,
     ServeMoreKeeps, CloseKeeps, WithStateKeeps
<1>2. CASE \E f \in Acquires : \/ NewAcquire(f) \/ PollClosing(f) \/ PollReady(f)
                               \/ DropNew(f) \/ DropAcquirePanics(f)
                               \/ DropPermitPanics(f) \/ TakePermit(f)
                               \/ OutOfThinAir(f) \/ Forget(f)
  BY <1>2, NewAcquireKeeps, PollClosingKeeps, PollReadyKeeps, DropNewKeeps,
     DropAcquirePanicsKeeps, DropPermitPanicsKeeps, TakePermitKeeps, OutOfThinAirKeeps,
     ForgetKeeps
<1>3. CASE \E f \in Acquires, w \in Wakers : FirstPoll(f, w) \/ PollPending(f, w)
  BY <1>3, FirstPollKeeps, PollPendingKeeps
<1>4. CASE \E f \in Acquires, fair \in TryModes : TryAcquire(f, fair)
  BY <1>4, TryAcquireKeeps
<1>5. CASE \E t \in Threads, f \in Acquires : DropAcquire(t, f) \/ DropPermit(t, f)
  BY <1>5, DropAcquireKeeps, DropPermitKeeps
<1>6. CASE WithStatePanics \/ ClearPoison
  BY <1>6, WithStatePanicsKeeps, ClearPoisonKeeps
<1>7. CASE UNCHANGED vars
  BY <1>7, StutterKeeps
<1> QED
  BY <1>1, <1>2, <1>3, <1>4, <1>5, <1>6, <1>7 DEF Next

\* The inductive invariant holds of the queue (lib.rs, acquire.rs) for any number of
\* futures and threads, any order, any batch capacity and any panics.
THEOREM QueueInvariant == Spec => []QInv
BY InitEstablishes, StepKeeps, PTL DEF Spec

\* Every variable keeps its type, a WakeBatch never exceeds its capacity, and the
\* counters len and avail never fall below zero.
THEOREM QueueTyping == Spec => []TypeOK
BY QueueInvariant, QInvImplies, PTL

\* len counts the linked nodes, and a future is linked exactly while it is in the list,
\* once, whatever grants, cancellations, closing and panics come in between.
THEOREM LenCountsNodes == Spec => []ListConsistent
BY QueueInvariant, QInvImplies, PTL

\* close_one's safety invariant: no node is left when the list is discarded, and none
\* ever joins afterwards.
THEOREM DiscardIsSafe == Spec => []DiscardedListEmpty
BY QueueInvariant, QInvImplies, PTL

----------------------------------------------------------------------------
(***************************************************************************)
(* Who is served, for every set of futures and threads, every order and    *)
(* batch capacity, and whichever user code panics: the head of the queue   *)
(* is never left there unserved, a queue that is closed or poisoned admits *)
(* nobody, and whoever is served or sent away is woken.                    *)
(***************************************************************************)
\* Somebody is going to look at the queue again, or must not.
Excused == InService \/ owed \/ poisoned \/ closed

\* A step after which nothing is claimed: the queue is empty, or there is an excuse.
Covered == Excused' \/ queue' = <<>>

\* A step that leaves those who wait as they are: no permit has come, no params were lost
\* or found, and no excuse is gone.
Still == /\ Excused => Excused'
         /\ UNCHANGED queue
         /\ avail' \in Nat /\ avail' <= avail
         /\ \A f \in Acquires : fut[f] = "linked" => (f \in dead <=> f \in dead')

\* f joins the queue, after the state was asked if f leads.
Joins(f, front) ==
  /\ front \in FrontAnswers(len) /\ front \in BOOLEAN
  /\ queue' = IF front THEN <<f>> \o queue ELSE Append(queue, f)
  /\ ~(MayTry(front) /\ Fits(f))
  /\ UNCHANGED <<poisoned, avail, closed, owed, dead, pc, more>>

----------------------------------------------------------------------------
(* What each action is *)

\* A thread that has run its closure serves a queue that is not empty.
LEMMA ServedIsCovered ==
  ASSUME ThreadInv, ListInv', NEW t \in Threads, ServeAfterwards(t) PROVE Covered
<1>1. CASE len' = 0
  <2>1. Len(queue') = 0 /\ queue' \in Seq(Acquires)
    BY <1>1 DEF ListInv, ListConsistent
  <2> QED
    BY <2>1, EmptySeq DEF Covered
<1>2. CASE len' # 0
  <2>1. pc'[t] = "check"
    BY <1>2 DEF ServeAfterwards, ThreadInv
  <2> QED
    BY <2>1 DEF Covered, Excused, InService
<1> QED
  BY <1>1, <1>2

\* check goes on, or relocks after a full batch, or has emptied the list.
LEMMA GrantIsCovered == ASSUME QInv, NEW t \in Threads, Grant(t) PROVE Covered
<1> USE DEF QInv
<1>1. PICK i \in DOMAIN queue :
        LET b == Append(batch[t], <<queue[i], registered[queue[i]]>>)
        IN IF BatchFull(b)
           THEN LeaveWith(t, "wake_served", b, MoreToServe(b, len'))
           ELSE batch' = [batch EXCEPT ![t] = b] /\ UNCHANGED <<pc, more>>
  BY DEF Grant
<1> DEFINE b == Append(batch[t], <<queue[i], registered[queue[i]]>>)
<1>2. pc[t] = "check"
  BY DEF Grant
<1>3. ListInv'
  BY GrantKeeps
<1>4. CASE ~BatchFull(b)
  <2>1. pc'[t] = "check"
    BY <1>1, <1>2, <1>4
  <2> QED
    BY <2>1 DEF Covered, Excused, InService
<1>5. CASE BatchFull(b)
  <2>1. LeaveWith(t, "wake_served", b, MoreToServe(b, len'))
    BY <1>1, <1>5
  <2>2. MoreToServe(b, len') <=> len' # 0
    BY <1>5 DEF MoreToServe
  <2>3. CASE len' = 0
    <3>1. Len(queue') = 0 /\ queue' \in Seq(Acquires)
      BY <2>3, <1>3 DEF ListInv, ListConsistent
    <3> QED
      BY <3>1, EmptySeq DEF Covered
  <2>4. CASE len' # 0
    <3>1. pc'[t] = "wake_served" /\ more'[t]
      BY <2>1, <2>2, <2>4 DEF LeaveWith, ThreadInv
    <3> QED
      BY <3>1 DEF Covered, Excused, InService
  <2> QED
    BY <2>3, <2>4
<1> QED
  BY <1>4, <1>5

\* Calling a waker gives up a service only when it panics, and then it is owed.
LEMMA WakeIsStill ==
  ASSUME QInv, NEW t \in Threads, WakeNext(t) \/ WakePanics(t) PROVE Covered \/ Still
<1> USE DEF QInv
<1>1. UNCHANGED <<queue, poisoned, closed, avail, dead>>
  BY DEF WakeNext, WakePanics, listVars, flagVars, stateVars, futVars
<1>2. \A u \in Threads : u # t => pc'[u] = pc[u] /\ more'[u] = more[u]
  BY DEF WakeNext, WakePanics, LeaveWith, ThreadInv
<1>3. pc[t] # "check"
  BY DEF WakeNext, WakePanics
<1>4. owed => owed'
  BY DEF WakeNext, WakePanics
<1>5. CASE pc[t] = "wake_served" /\ more[t]
  <2>1. CASE WakeNext(t)
    <3>1. pc'[t] = "wake_served" /\ more'[t]
      BY <2>1, <1>5 DEF WakeNext, LeaveWith, ThreadInv
    <3> QED
      BY <3>1 DEF Covered, Excused, InService
  <2>2. CASE WakePanics(t)
    BY <2>2, <1>5 DEF WakePanics, Covered, Excused
  <2> QED
    BY <2>1, <2>2
<1>6. CASE ~(pc[t] = "wake_served" /\ more[t])
  <2>1. InService => InService'
    BY <1>2, <1>3, <1>6 DEF InService
  <2>2. avail' \in Nat /\ avail' <= avail
    BY <1>1 DEF StateInv
  <2> QED
    BY <1>1, <1>4, <2>1, <2>2 DEF Still, Excused
<1> QED
  BY <1>5, <1>6

\* Closing, poison, a promised service and the lock taken again are excuses.
LEMMA ExcusesCover ==
  ASSUME QInv,
         \/ WithStatePanics \/ ClearPoison
         \/ \E t \in Threads : CheckPanics(t) \/ ServeMore(t) \/ Close(t)
         \/ \E f \in Acquires : \/ PollClosing(f) \/ DropAcquirePanics(f)
                                \/ DropPermitPanics(f)
  PROVE  Covered
<1>1. CASE \/ WithStatePanics \/ ClearPoison \/ \E t \in Threads : CheckPanics(t) \/ Close(t)
           \/ \E f \in Acquires : \/ PollClosing(f) \/ DropAcquirePanics(f)
                                  \/ DropPermitPanics(f)
  <2>1. owed' \/ poisoned' \/ closed'
    <3>1. CASE ClearPoison
      BY <3>1 DEF ClearPoison
    <3>2. CASE WithStatePanics
      BY <3>2 DEF WithStatePanics
    <3>3. CASE \E t \in Threads : CheckPanics(t)
      BY <3>3 DEF CheckPanics, TakePanics
    <3>4. CASE \E t \in Threads : Close(t)
      BY <3>4 DEF Close
    <3>5. CASE \E f \in Acquires : PollClosing(f)
      BY <3>5 DEF PollClosing, flagVars
    <3>6. CASE \E f \in Acquires : DropAcquirePanics(f) \/ DropPermitPanics(f)
      BY <3>6 DEF DropAcquirePanics, DropPermitPanics, ReleasePanics
    <3> QED
      BY <1>1, <3>1, <3>2, <3>3, <3>4, <3>5, <3>6
  <2> QED
    BY <2>1 DEF Covered, Excused
<1>2. CASE \E t \in Threads : ServeMore(t)
  <2>1. PICK t \in Threads : ServeMore(t)
    BY <1>2
  <2>2. pc'[t] = "check"
    BY <2>1 DEF ServeMore, QInv, ThreadInv
  <2> QED
    BY <2>2 DEF Covered, Excused, InService
<1> QED
  BY <1>1, <1>2

\* What serves afterwards.
LEMMA ServersCover ==
  ASSUME QInv, NEW t \in Threads,
         WithState(t) \/ \E f \in Acquires : DropAcquire(t, f) \/ DropPermit(t, f)
  PROVE  Covered
<1>1. ListInv'
  BY WithStateKeeps, DropAcquireKeeps, DropPermitKeeps DEF QInv
<1>2. ServeAfterwards(t)
  BY DEF WithState, DropAcquire, DropPermit
<1> QED
  BY <1>1, <1>2, ServedIsCovered DEF QInv

\* What leaves the list and the state alone, or concerns a future that is not in it.
LEMMA BystandersAreStill ==
  ASSUME QInv,
         \/ UNCHANGED vars
         \/ \E f \in Acquires : \/ NewAcquire(f) \/ PollReady(f) \/ DropNew(f)
                                \/ TakePermit(f) \/ OutOfThinAir(f) \/ Forget(f)
                                \/ \E w \in Wakers : PollPending(f, w)
  PROVE  Still
<1> USE DEF QInv
<1>1. UNCHANGED <<queue, poisoned, closed, avail, owed, pc, more>>
  BY DEF vars, NewAcquire, PollReady, DropNew, TakePermit, OutOfThinAir, Forget, PollPending,
         listVars, flagVars, stateVars, threadVars
<1>2. \A f \in Acquires : fut[f] = "linked" => (f \in dead <=> f \in dead')
  <2>1. ASSUME NEW f \in Acquires, PollReady(f) PROVE dead' = dead \ {f} /\ fut[f] # "linked"
    BY <2>1 DEF PollReady
  <2> QED
    BY <2>1 DEF vars, NewAcquire, DropNew, TakePermit, OutOfThinAir, Forget, PollPending,
                futVars
<1>3. avail' \in Nat /\ avail' <= avail
  BY <1>1 DEF StateInv
<1>4. Excused => Excused'
  BY <1>1 DEF Excused, InService
<1> QED
  BY <1>1, <1>2, <1>3, <1>4 DEF Still

\* An acquisition that leaves the list alone only takes permits, or poisons.
LEMMA AcquisitionIsStill ==
  ASSUME QInv, NEW f \in Acquires, NEW fair, NEW front, NEW outcome \in Outcomes,
         AcquireOrEnqueue(f, fair, front, outcome),
         UNCHANGED <<queue, closed, owed, dead, pc, more>>
  PROVE  Covered \/ Still
<1> USE DEF QInv
<1>1. CASE TakePanics(f)
  BY <1>1 DEF TakePanics, Covered, Excused
<1>2. CASE Take(f)
  <2>1. Need[f] \in Nat /\ avail \in Nat
    BY QueueAssumptions DEF StateInv
  <2>2. avail' \in Nat /\ avail' <= avail
    BY <1>2, <2>1 DEF Take, Fits
  <2>3. Excused => Excused'
    BY <1>2 DEF Take, Excused, InService
  <2> QED
    BY <2>2, <2>3 DEF Still
<1>3. CASE UNCHANGED <<poisoned, stateVars>>
  <2>1. avail' \in Nat /\ avail' <= avail
    BY <1>3 DEF StateInv, stateVars
  <2>2. Excused => Excused'
    BY <1>3 DEF Excused, InService
  <2> QED
    BY <2>1, <2>2 DEF Still
<1> QED
  BY <1>1, <1>2, <1>3 DEF AcquireOrEnqueue, Outcomes

\* try_acquire only takes permits.
LEMMA TryAcquireIsStill ==
  ASSUME QInv, NEW f \in Acquires, NEW fair \in TryModes, TryAcquire(f, fair)
  PROVE  Covered \/ Still
BY AcquisitionIsStill DEF TryAcquire, listVars, threadVars

\* So does a first poll that does not join the queue.
LEMMA FirstPollJoins ==
  ASSUME QInv, NEW f \in Acquires, NEW w \in Wakers, FirstPoll(f, w)
  PROVE  Covered \/ Still \/ \E front \in BOOLEAN : Joins(f, front)
<1>1. PICK front \in BOOLEAN, outcome \in Outcomes :
        /\ AcquireOrEnqueue(f, TRUE, front, outcome)
        /\ IF outcome = "enqueue"
           THEN queue' = IF front THEN <<f>> \o queue ELSE Append(queue, f)
           ELSE UNCHANGED queue
  BY DEF FirstPoll
<1>2. UNCHANGED <<closed, owed, dead, pc, more>>
  BY DEF FirstPoll, threadVars
<1>3. CASE outcome # "enqueue"
  BY <1>1, <1>2, <1>3, AcquisitionIsStill
<1>4. CASE outcome = "enqueue"
  BY <1>1, <1>2, <1>4 DEF AcquireOrEnqueue, Joins, stateVars
<1> QED
  BY <1>3, <1>4

\* All that is left for the queue's own invariants: check ends, or somebody joins.
LEMMA EveryStepIs ==
  ASSUME QInv, [Next]_vars
  PROVE  \/ Covered \/ Still
         \/ \E t \in Threads : CheckEnds(t)
         \/ \E f \in Acquires, front \in BOOLEAN : Joins(f, front)
BY GrantIsCovered, WakeIsStill, ExcusesCover, ServersCover, BystandersAreStill,
   TryAcquireIsStill, FirstPollJoins DEF Next

----------------------------------------------------------------------------
(* The leader *)

\* The queue as a sequence, and its leader.
LEMMA QueueFacts ==
  ASSUME QInv
  PROVE  /\ queue \in Seq(Acquires) /\ Len(queue) \in Nat /\ DOMAIN queue = 1..Len(queue)
         /\ \A i \in DOMAIN queue : queue[i] \in Acquires /\ fut[queue[i]] = "linked"
         /\ queue # <<>> => 1 \in DOMAIN queue /\ Head(queue) = queue[1]
         /\ avail \in Nat /\ \A f \in Acquires : Need[f] \in Nat
<1>1. queue \in Seq(Acquires) /\ Len(queue) \in Nat /\ DOMAIN queue = 1..Len(queue)
  BY LenProperties DEF QInv, ListInv
<1>2. \A i \in DOMAIN queue : queue[i] \in Acquires /\ fut[queue[i]] = "linked"
  BY <1>1 DEF QInv, ListInv, ListConsistent, ToSet
<1>3. queue # <<>> => 1 \in DOMAIN queue /\ Head(queue) = queue[1]
  BY <1>1, EmptySeq, HeadTailProperties
<1> QED
  BY <1>1, <1>2, <1>3, QueueAssumptions DEF QInv, StateInv

\* A head that has its params leads, so that it is blocked if the leader is.
LEMMA HeadLeads == QInv /\ LeaderBlocked => HeadBlocked
<1> SUFFICES ASSUME QInv, LeaderBlocked, MustServe, queue # <<>>, Head(queue) \notin dead
             PROVE  ~Fits(Head(queue))
  BY DEF HeadBlocked
<1>1. 1 \in DOMAIN queue /\ Head(queue) = queue[1] /\ DOMAIN queue = 1..Len(queue)
  BY QueueFacts
<1>2. IsLeader(1)
  BY <1>1 DEF IsLeader
<1> QED
  BY <1>1, <1>2 DEF LeaderBlocked

\* check ends because it may not serve, or because the leader does not fit.
LEMMA CheckEndsBlocked ==
  ASSUME QInv, NEW t \in Threads, CheckEnds(t) PROVE Covered \/ LeaderBlocked'
<1>1. UNCHANGED <<queue, open, poisoned, closed, avail, dead>>
  BY DEF CheckEnds, listVars, flagVars, stateVars, futVars
<1>2. CASE ~Serving
  BY <1>1, <1>2 DEF Serving, QInv, ListInv, DiscardedListEmpty, Covered, Excused
<1>3. CASE Serving
  <2>1. \A i \in DOMAIN queue : IsLeader(i) => ~Fits(queue[i])
    BY <1>3 DEF CheckEnds
  <2> QED
    BY <1>1, <2>1 DEF LeaderBlocked, IsLeader, Fits
<1> QED
  BY <1>2, <1>3

\* Nothing is claimed in a step that is covered.
LEMMA CoveredBlocked == Covered => HeadBlocked' /\ LeaderBlocked'
<1> SUFFICES ASSUME Covered PROVE HeadBlocked' /\ LeaderBlocked'
  OBVIOUS
<1>1. CASE Excused'
  BY <1>1 DEF Excused, HeadBlocked, LeaderBlocked, MustServe, InService
<1>2. CASE queue' = <<>>
  BY <1>2, EmptySeq DEF HeadBlocked, LeaderBlocked
<1> QED
  BY <1>1, <1>2 DEF Covered

\* A step that leaves the waiting as they are leaves them blocked.
LEMMA StillBlocked ==
  ASSUME QInv, Still
  PROVE  /\ HeadBlocked => HeadBlocked'
         /\ LeaderBlocked => LeaderBlocked'
<1>1. MustServe' => MustServe
  BY DEF Still, MustServe, Excused
<1>2. UNCHANGED queue /\ avail' \in Nat /\ avail' <= avail
  BY DEF Still
<1>3. \A i \in DOMAIN queue : /\ queue[i] \in dead' <=> queue[i] \in dead
                              /\ Need[queue[i]] <= avail' => Need[queue[i]] <= avail
  BY <1>2, QueueFacts DEF Still
<1>4. HeadBlocked => HeadBlocked'
  <2> SUFFICES ASSUME HeadBlocked, MustServe', queue' # <<>>, Head(queue') \notin dead'
               PROVE  ~(Need[Head(queue')] <= avail')
    BY DEF HeadBlocked, Fits
  <2>1. queue' = queue /\ 1 \in DOMAIN queue /\ Head(queue) = queue[1]
    BY <1>2, QueueFacts
  <2>2. Head(queue) \notin dead
    BY <1>3, <2>1
  <2>3. ~(Need[Head(queue)] <= avail)
    BY <1>1, <2>1, <2>2 DEF HeadBlocked, Fits
  <2> QED
    BY <1>3, <2>1, <2>3
<1>5. LeaderBlocked => LeaderBlocked'
  <2> SUFFICES ASSUME LeaderBlocked, MustServe', NEW i \in DOMAIN queue', IsLeader(i)'
               PROVE  ~(Need[queue'[i]] <= avail')
    BY DEF LeaderBlocked, Fits
  <2>1. queue' = queue
    BY <1>2
  <2>2. /\ i \in DOMAIN queue /\ queue[i] \notin dead'
        /\ \A j \in DOMAIN queue : j < i => queue[j] \in dead'
    BY <2>1 DEF IsLeader
  <2>3. IsLeader(i)
    BY <1>3, <2>2 DEF IsLeader
  <2>4. ~(Need[queue[i]] <= avail)
    BY <1>1, <2>2, <2>3 DEF LeaderBlocked, Fits
  <2> QED
    BY <1>3, <2>1, <2>2, <2>4
<1> QED
  BY <1>4, <1>5

----------------------------------------------------------------------------
(* The head is blocked *)

HInv == QInv /\ HeadBlocked

\* A waiter becomes the head only after it was tried and did not fit.
LEMMA JoinsBehind ==
  ASSUME HInv, NEW f \in Acquires, NEW front \in BOOLEAN, Joins(f, front)
  PROVE  HeadBlocked'
<1>1. /\ queue' = IF front THEN <<f>> \o queue ELSE Append(queue, f)
      /\ ~(MayTry(front) /\ Fits(f))
      /\ UNCHANGED <<poisoned, avail, closed, owed, dead, pc, more>>
  BY DEF Joins
<1>2. queue \in Seq(Acquires)
  BY DEF HInv, QInv, ListInv
<1>3. CASE MayTry(front)
  <2>1. queue' = <<f>> \o queue \/ (queue = <<>> /\ queue' = Append(queue, f))
    BY <1>1, <1>3 DEF MayTry
  <2>2. Head(<<f>> \o queue) = f
    BY <1>2
  <2>3. queue = <<>> => Head(Append(queue, f)) = f
    OBVIOUS
  <2>4. Head(queue') = f /\ ~Fits(f)
    BY <1>1, <1>3, <2>1, <2>2, <2>3
  <2> QED
    BY <1>1, <2>4 DEF HeadBlocked, Fits
<1>4. CASE ~MayTry(front)
  <2>1. queue # <<>> /\ queue' = Append(queue, f)
    BY <1>1, <1>4 DEF MayTry
  <2>2. Head(queue') = Head(queue)
    BY <2>1, <1>2
  <2>3. MustServe' => MustServe
    BY <1>1 DEF MustServe, InService
  <2> QED
    BY <1>1, <2>1, <2>2, <2>3 DEF HInv, HeadBlocked, Fits
<1> QED
  BY <1>3, <1>4

\* Every step keeps the invariant.
LEMMA HInvStep == HInv /\ [Next]_vars => HInv'
<1> SUFFICES ASSUME HInv, [Next]_vars PROVE HeadBlocked'
  BY StepKeeps DEF HInv
<1>1. QInv /\ QInv'
  BY StepKeeps DEF HInv
<1>2. ASSUME NEW t \in Threads, CheckEnds(t) PROVE HeadBlocked'
  <2>1. (QInv /\ LeaderBlocked => HeadBlocked)'
    BY <1>1, HeadLeads, PTL
  <2> QED
    BY <1>1, <1>2, <2>1, CheckEndsBlocked, CoveredBlocked
<1> QED
  BY <1>1, <1>2, EveryStepIs, CoveredBlocked, StillBlocked, JoinsBehind DEF HInv

\* No lost service: when no thread serves the queue and none was given up, the waiter at
\* the front does not fit.  Releases, cancelled heads, with_state, full batches and
\* panics never leave a waiter there that could be served (with_queue and check in lib.rs,
\* drop in acquire.rs).
THEOREM HeadIsBlocked == Spec => []HeadBlocked
<1>1. Init => HInv
  BY InitEstablishes DEF Init, HInv, HeadBlocked
<1> QED
  BY <1>1, HInvStep, PTL DEF Spec, HInv

----------------------------------------------------------------------------
(* The leader is blocked, when acquire never panics or nobody joins behind the dead *)

\* No params are lost when acquire does not panic.
LEMMA NobodyDies ==
  ASSUME "acquire" \notin Panics, dead = {}, [Next]_vars PROVE dead' = {}
<1>1. \A t \in Threads : ~CheckPanics(t)
  BY DEF CheckPanics, TakePanics
<1>2. ASSUME NEW t \in Threads,
             \/ Grant(t) \/ CheckEnds(t) \/ WakeNext(t) \/ WakePanics(t) \/ ServeMore(t)
             \/ Close(t) \/ WithState(t)
      PROVE  dead' = {}
  BY <1>2 DEF Grant, CheckEnds, WakeNext, WakePanics, ServeMore, Close, WithState, futVars
<1>3. ASSUME NEW f \in Acquires,
             \/ NewAcquire(f) \/ PollClosing(f) \/ PollReady(f) \/ DropNew(f)
             \/ DropAcquirePanics(f) \/ DropPermitPanics(f) \/ TakePermit(f)
             \/ OutOfThinAir(f) \/ Forget(f)
             \/ \E w \in Wakers : FirstPoll(f, w) \/ PollPending(f, w)
             \/ \E fair \in TryModes : TryAcquire(f, fair)
             \/ \E t \in Threads : DropAcquire(t, f) \/ DropPermit(t, f)
      PROVE  dead' = {}
  BY <1>3 DEF NewAcquire, PollClosing, PollReady, DropNew, DropAcquirePanics,
              DropPermitPanics, TakePermit, OutOfThinAir, Forget, FirstPoll, PollPending,
              TryAcquire, DropAcquire, DropPermit, futVars
<1>4. ASSUME WithStatePanics \/ ClearPoison \/ UNCHANGED vars PROVE dead' = {}
  BY <1>4 DEF WithStatePanics, ClearPoison, vars, futVars
<1> QED
  BY <1>1, <1>2, <1>3, <1>4 DEF Next

\* Then the leader is the head.
LEMMA LeaderIsHead == QInv /\ dead = {} /\ HeadBlocked => LeaderBlocked
<1> SUFFICES ASSUME QInv, dead = {}, HeadBlocked, MustServe, NEW i \in DOMAIN queue, IsLeader(i)
             PROVE  ~Fits(queue[i])
  BY DEF LeaderBlocked
<1>1. queue \in Seq(Acquires) /\ Len(queue) \in Nat /\ DOMAIN queue = 1..Len(queue)
  BY LenProperties DEF QInv, ListInv
<1>2. 1 \in DOMAIN queue /\ i >= 1 /\ queue # <<>>
  BY <1>1, EmptySeq
<1>3. Head(queue) = queue[1]
  BY <1>1, <1>2, HeadTailProperties
<1>4. ~(1 < i)
  BY <1>2 DEF IsLeader
<1>5. i = 1
  BY <1>1, <1>2, <1>4
<1> QED
  BY <1>2, <1>3, <1>5 DEF HeadBlocked

\* Under LIFO every newcomer leads, and is tried before it joins: those it joins in front
\* of were blocked, whether or not params were lost among them.
LEMMA JoinsInFront ==
  ASSUME QInv, LeaderBlocked, OrderPolicy = "Lifo",
         NEW f \in Acquires, NEW front \in BOOLEAN, Joins(f, front)
  PROVE  LeaderBlocked'
<1>1. front = TRUE
  BY DEF Joins, FrontAnswers
<1>2. /\ queue' = <<f>> \o queue /\ ~Fits(f)
      /\ UNCHANGED <<poisoned, avail, closed, owed, dead, pc, more>>
  BY <1>1 DEF Joins, MayTry
<1>3. MustServe' => MustServe
  BY <1>2 DEF MustServe, InService
<1>4. /\ queue \in Seq(Acquires) /\ Len(queue) \in Nat /\ DOMAIN queue = 1..Len(queue)
      /\ DOMAIN queue' = 1..(Len(queue) + 1)
      /\ queue'[1] = f /\ \A i \in DOMAIN queue : queue'[i + 1] = queue[i]
  BY <1>2, QueueFacts
<1> SUFFICES ASSUME MustServe', NEW i \in DOMAIN queue', IsLeader(i)' PROVE ~Fits(queue[i])'
  BY DEF LeaderBlocked
<1>5. CASE i = 1
  BY <1>2, <1>4, <1>5 DEF Fits
<1>6. CASE i # 1
  <2>1. i - 1 \in DOMAIN queue /\ queue'[i] = queue[i - 1]
    BY <1>4, <1>6
  <2>2. queue[i - 1] \notin dead
    BY <1>2, <2>1 DEF IsLeader
  <2>3. ASSUME NEW j \in DOMAIN queue, j < i - 1 PROVE queue[j] \in dead
    <3>1. j + 1 \in DOMAIN queue' /\ j + 1 < i /\ queue'[j + 1] = queue[j]
      BY <1>4, <2>3
    <3> QED
      BY <1>2, <3>1 DEF IsLeader
  <2>4. IsLeader(i - 1)
    BY <2>1, <2>2, <2>3 DEF IsLeader
  <2> QED
    BY <1>2, <1>3, <2>1, <2>4 DEF LeaderBlocked, Fits
<1> QED
  BY <1>5, <1>6

\* So the leader stays blocked in every step.
LEMMA LifoStep == OrderPolicy = "Lifo" /\ QInv /\ LeaderBlocked /\ [Next]_vars => LeaderBlocked'
BY EveryStepIs, CheckEndsBlocked, CoveredBlocked, StillBlocked, JoinsInFront

\* The waiter that is due next is never left in the queue while it fits, when acquire never
\* panics, or, whatever panics, under LIFO (check in lib.rs, acquire_or_enqueue in
\* acquire.rs).  The run that lets acquire panic under FIFO shows that one of the two is
\* needed: there a newcomer that joins behind the dead is not tried.
THEOREM LeaderIsBlocked ==
  Spec => []("acquire" \notin Panics \/ OrderPolicy = "Lifo" => LeaderBlocked)
<1>1. CASE OrderPolicy = "Lifo"
  <2>1. Init => LeaderBlocked
    BY EmptySeq DEF Init, LeaderBlocked
  <2>2. QInv /\ LeaderBlocked /\ [Next]_vars => LeaderBlocked'
    BY <1>1, LifoStep
  <2> QED
    BY <2>1, <2>2, QueueInvariant, PTL DEF Spec
<1>2. CASE OrderPolicy # "Lifo"
  <2> DEFINE NoneDead == "acquire" \notin Panics => dead = {}
  <2>1. Init => NoneDead
    BY DEF Init
  <2>2. NoneDead /\ [Next]_vars => NoneDead'
    BY NobodyDies
  <2>3. QInv /\ NoneDead /\ HeadBlocked =>
          ("acquire" \notin Panics \/ OrderPolicy = "Lifo" => LeaderBlocked)
    BY <1>2, LeaderIsHead
  <2> HIDE DEF NoneDead
  <2> QED
    BY <2>1, <2>2, <2>3, QueueInvariant, HeadIsBlocked, PTL DEF Spec
<1> QED
  BY <1>1, <1>2

----------------------------------------------------------------------------
(* Nothing is admitted while closed or poisoned *)

\* No future is granted its permit, gets one by itself, or joins the queue.
Inert == \A f \in Acquires : \/ fut'[f] = fut[f]
                             \/ fut'[f] \notin {"linked", "granted", "permit"}
                             \/ fut[f] = "granted" /\ fut'[f] = "permit"

\* A step that only takes f to another end is inert.
LEMMA EndsAreInert ==
  ASSUME QInv, NEW f \in Acquires, NEW x, fut' = [fut EXCEPT ![f] = x],
         x \notin {"linked", "granted", "permit"} \/ (fut[f] = "granted" /\ x = "permit")
  PROVE  Inert
BY DEF Inert, QInv, ListInv

\* An acquisition that finds the queue closed or poisoned gets neither a permit nor a
\* place in it.
LEMMA AcquisitionAdmitsNobody ==
  ASSUME closed \/ poisoned, NEW f \in Acquires, NEW fair, NEW front,
         NEW outcome \in Outcomes, AcquireOrEnqueue(f, fair, front, outcome)
  PROVE  /\ outcome # "enqueue"
         /\ ResultOf(outcome) \notin {"linked", "granted", "permit"}
<1>1. outcome \in {"poisoned", "closed"}
  BY DEF AcquireOrEnqueue, Outcomes, Rejecting
<1> QED
  BY <1>1 DEF ResultOf

\* An inert step admits nobody.
LEMMA InertAdmitsNobody == Inert => \A f \in Acquires : ~Admitted(f)
BY DEF Inert, Admitted

\* What the next-state relation admits while the queue is closed or poisoned.
LEMMA AdmissionStep ==
  ASSUME QInv, [Next]_vars, closed \/ poisoned PROVE \A f \in Acquires : ~Admitted(f)
<1>1. CASE UNCHANGED fut
  <2>1. Inert
    BY <1>1 DEF Inert
  <2> QED
    BY <2>1, InertAdmitsNobody
<1>2. CASE \E t \in Threads : Close(t)
  <2>1. PICK t \in Threads : Close(t)
    BY <1>2
  <2>2. \A f \in Acquires : fut'[f] \in {"refused", fut[f]}
    BY <2>1 DEF Close
  <2>3. Inert
    BY <2>2 DEF Inert
  <2> QED
    BY <2>3, InertAdmitsNobody
<1>3. CASE \E t \in Threads : Grant(t)
  BY <1>3 DEF Grant, Serving
<1>4. CASE \E f \in Acquires, w \in Wakers : FirstPoll(f, w)
  <2>1. PICK f \in Acquires, w \in Wakers : FirstPoll(f, w)
    BY <1>4
  <2>2. PICK front \in BOOLEAN, outcome \in Outcomes :
          /\ AcquireOrEnqueue(f, TRUE, front, outcome)
          /\ outcome # "enqueue" => fut' = [fut EXCEPT ![f] = ResultOf(outcome)]
    BY <2>1 DEF FirstPoll
  <2>3. Inert
    BY <2>2, AcquisitionAdmitsNobody, EndsAreInert
  <2> QED
    BY <2>3, InertAdmitsNobody
<1>5. CASE \E f \in Acquires, fair \in TryModes : TryAcquire(f, fair)
  <2>1. PICK f \in Acquires, fair \in TryModes : TryAcquire(f, fair)
    BY <1>5
  <2>2. PICK front \in BOOLEAN, outcome \in Outcomes :
          /\ AcquireOrEnqueue(f, fair, front, outcome)
          /\ fut' = [fut EXCEPT ![f] = ResultOf(outcome)]
    BY <2>1 DEF TryAcquire
  <2>3. Inert
    BY <2>2, AcquisitionAdmitsNobody, EndsAreInert
  <2> QED
    BY <2>3, InertAdmitsNobody
<1>6. CASE \E f \in Acquires :
             \/ NewAcquire(f) \/ DropNew(f) \/ DropAcquirePanics(f) \/ DropPermitPanics(f)
             \/ TakePermit(f) \/ Forget(f)
             \/ \E t \in Threads : DropAcquire(t, f) \/ DropPermit(t, f)
  <2>1. PICK f \in Acquires : fut' = [fut EXCEPT ![f] = "new"] \/ fut' = [fut EXCEPT ![f] = "none"]
    BY <1>6 DEF NewAcquire, DropNew, DropAcquirePanics, DropPermitPanics, TakePermit, Forget,
                DropAcquire, DropPermit
  <2>2. Inert
    BY <2>1, EndsAreInert
  <2> QED
    BY <2>2, InertAdmitsNobody
<1>7. CASE \E f \in Acquires : PollClosing(f) \/ PollReady(f)
  <2>1. PICK f \in Acquires : PollClosing(f) \/ PollReady(f)
    BY <1>7
  <2>2. \/ fut' = [fut EXCEPT ![f] = RefusedResult(f)]
        \/ fut[f] = "granted" /\ fut' = [fut EXCEPT ![f] = "permit"]
    BY <2>1 DEF PollClosing, PollReady
  <2>3. RefusedResult(f) \notin {"linked", "granted", "permit"}
    BY DEF RefusedResult
  <2>4. Inert
    BY <2>2, <2>3, EndsAreInert
  <2> QED
    BY <2>4, InertAdmitsNobody
<1>8. CASE \E f \in Acquires : OutOfThinAir(f)
  <2>1. PICK f \in Acquires : OutOfThinAir(f)
    BY <1>8
  <2>2. \A g \in Acquires : g # f => fut'[g] = fut[g]
    BY <2>1 DEF OutOfThinAir, QInv, ListInv
  <2>3. fut[f] = "none" /\ fut'[f] = "permit"
    BY <2>1 DEF OutOfThinAir, QInv, ListInv
  <2> QED
    BY <2>1, <2>2, <2>3 DEF Admitted
<1>9. ASSUME \/ WithStatePanics \/ ClearPoison \/ UNCHANGED vars
             \/ \E t \in Threads : \/ CheckEnds(t) \/ CheckPanics(t) \/ WakeNext(t)
                                   \/ WakePanics(t) \/ ServeMore(t) \/ WithState(t)
             \/ \E f \in Acquires, w \in Wakers : PollPending(f, w)
      PROVE  UNCHANGED fut
  BY <1>9 DEF WithStatePanics, ClearPoison, vars, CheckEnds, CheckPanics, WakeNext,
              WakePanics, ServeMore, WithState, PollPending, futVars
<1> QED
  BY <1>1, <1>2, <1>3, <1>4, <1>5, <1>6, <1>7, <1>8, <1>9 DEF Next

\* From the step that closes or poisons the queue on, until poison is cleared, nobody is
\* granted a permit and nobody joins, even between the rounds of close and the batches of
\* a service under way (check in lib.rs, acquire_or_enqueue in acquire.rs).
THEOREM ClosedAdmitsNobody == Spec => NothingAdmitted
<1>1. QInv /\ [Next]_vars => [closed \/ poisoned => \A f \in Acquires : ~Admitted(f)]_vars
  BY AdmissionStep
<1> QED
  BY <1>1, QueueInvariant, PTL DEF Spec, NothingAdmitted

----------------------------------------------------------------------------
(* Closing is told: the cause of the divergence that the run closed_poisoned shows is that *)
(* poison is looked at first, and there is no other                                        *)

\* An acquire that starts on a closed queue without poison ends as closed, unless its
\* future is dropped.
ClosedIsToldIn(f) == fut[f] = "new" /\ fut'[f] # "new" => fut'[f] \in {"closed", "none"}

LEMMA ClosedStep ==
  ASSUME QInv, [Next]_vars, closed, ~poisoned, NEW f \in Acquires PROVE ClosedIsToldIn(f)
<1>1. fut \in [Acquires -> Phases] /\ \A i \in DOMAIN queue : fut[queue[i]] = "linked"
  <2>1. \A i \in DOMAIN queue : queue[i] \in Acquires /\ queue[i] \in ToSet(queue)
    BY DEF QInv, ListInv, ToSet
  <2> QED
    BY <2>1 DEF QInv, ListInv, ListConsistent
<1>2. ASSUME NEW g \in Acquires, NEW x, fut[g] # "new", fut' = [fut EXCEPT ![g] = x]
      PROVE  ClosedIsToldIn(f)
  BY <1>1, <1>2 DEF ClosedIsToldIn
<1>3. ASSUME NEW t \in Threads, Close(t) PROVE ClosedIsToldIn(f)
  <2> DEFINE n == Min({BatchCap, Len(queue)})
  <2>1. fut'[f] = IF f \in {queue[i] : i \in 1..n} THEN "refused" ELSE fut[f]
    BY <1>3 DEF Close
  <2>2. \A i \in 1..n : i \in DOMAIN queue
    <3>1. Len(queue) \in Nat /\ DOMAIN queue = 1..Len(queue)
      BY LenProperties DEF QInv, ListInv
    <3>2. n \in 0..Len(queue)
      BY <3>1, RoundSize
    <3> HIDE DEF n
    <3> QED
      BY <3>1, <3>2
  <2> HIDE DEF n
  <2> QED
    BY <1>1, <2>1, <2>2 DEF ClosedIsToldIn
<1>4. ASSUME NEW g \in Acquires, NEW w \in Wakers, FirstPoll(g, w) PROVE ClosedIsToldIn(f)
  <2>1. PICK front \in BOOLEAN, outcome \in Outcomes :
          /\ AcquireOrEnqueue(g, TRUE, front, outcome)
          /\ outcome # "enqueue" => fut' = [fut EXCEPT ![g] = ResultOf(outcome)]
    BY <1>4 DEF FirstPoll
  <2>2. outcome = "closed"
    BY <2>1 DEF AcquireOrEnqueue, Outcomes, Rejecting
  <2>3. fut' = [fut EXCEPT ![g] = "closed"]
    BY <2>1, <2>2 DEF ResultOf
  <2> QED
    BY <1>1, <2>3 DEF ClosedIsToldIn
<1>5. ASSUME NEW g \in Acquires, DropNew(g) PROVE ClosedIsToldIn(f)
  BY <1>1, <1>5 DEF DropNew, ClosedIsToldIn
<1>6. ASSUME NEW t \in Threads, Grant(t) PROVE ClosedIsToldIn(f)
  BY <1>6 DEF Grant, Serving
<1>7. ASSUME NEW g \in Acquires, NEW fair \in TryModes, TryAcquire(g, fair)
      PROVE  ClosedIsToldIn(f)
  BY <1>2, <1>7 DEF TryAcquire
<1>8. ASSUME NEW g \in Acquires,
             \/ NewAcquire(g) \/ DropAcquirePanics(g) \/ DropPermitPanics(g) \/ TakePermit(g)
             \/ OutOfThinAir(g) \/ Forget(g) \/ PollClosing(g) \/ PollReady(g)
             \/ \E t \in Threads : DropAcquire(t, g) \/ DropPermit(t, g)
      PROVE  ClosedIsToldIn(f)
  <2>1. fut[g] # "new" /\ \E x : fut' = [fut EXCEPT ![g] = x]
    BY <1>8 DEF NewAcquire, DropAcquirePanics, DropPermitPanics, TakePermit, OutOfThinAir,
                Forget, PollClosing, PollReady, DropAcquire, DropPermit
  <2> QED
    BY <1>2, <2>1
<1>9. ASSUME UNCHANGED fut PROVE ClosedIsToldIn(f)
  BY <1>9 DEF ClosedIsToldIn
<1>10. ASSUME \/ WithStatePanics \/ ClearPoison \/ UNCHANGED vars
              \/ \E t \in Threads : \/ CheckEnds(t) \/ CheckPanics(t) \/ WakeNext(t)
                                    \/ WakePanics(t) \/ ServeMore(t) \/ WithState(t)
              \/ \E g \in Acquires, w \in Wakers : PollPending(g, w)
       PROVE  UNCHANGED fut
  BY <1>10 DEF WithStatePanics, ClearPoison, vars, CheckEnds, CheckPanics, WakeNext,
               WakePanics, ServeMore, WithState, PollPending, futVars
<1> QED
  BY <1>3, <1>4, <1>5, <1>6, <1>7, <1>8, <1>9, <1>10 DEF Next

\* Only the state's own code poisons.
Unpoisonable == Panics \cap {"acquire", "state"} = {}

LEMMA NobodyPoisons == Unpoisonable /\ ~poisoned /\ [Next]_vars => ~poisoned'
<1> SUFFICES ASSUME Unpoisonable, ~poisoned, [Next]_vars PROVE UNCHANGED poisoned
  OBVIOUS
<1>1. "acquire" \notin Panics /\ "state" \notin Panics
  BY DEF Unpoisonable
<1>2. ASSUME NEW f, NEW fair, NEW front, NEW outcome \in Outcomes,
             AcquireOrEnqueue(f, fair, front, outcome)
      PROVE  UNCHANGED poisoned
  BY <1>1, <1>2 DEF AcquireOrEnqueue, Outcomes, Take, TakePanics
<1>3. ASSUME NEW f \in Acquires,
             \/ \E w \in Wakers : FirstPoll(f, w)
             \/ \E fair \in TryModes : TryAcquire(f, fair)
      PROVE  UNCHANGED poisoned
  BY <1>2, <1>3 DEF FirstPoll, TryAcquire
<1>4. ASSUME \/ WithStatePanics \/ \E t \in Threads : CheckPanics(t)
             \/ \E f \in Acquires : DropAcquirePanics(f) \/ DropPermitPanics(f)
      PROVE  FALSE
  BY <1>1, <1>4 DEF WithStatePanics, CheckPanics, TakePanics, DropAcquirePanics,
                    DropPermitPanics, ReleasePanics
<1>5. ASSUME \/ \E t \in Threads : \/ Grant(t) \/ CheckEnds(t) \/ WakeNext(t) \/ WakePanics(t)
                                   \/ ServeMore(t) \/ Close(t) \/ WithState(t)
                                   \/ \E f \in Acquires : DropAcquire(t, f) \/ DropPermit(t, f)
             \/ \E f \in Acquires : \/ NewAcquire(f) \/ PollClosing(f) \/ PollReady(f)
                                    \/ DropNew(f) \/ TakePermit(f) \/ OutOfThinAir(f)
                                    \/ Forget(f)
             \/ \E f \in Acquires, w \in Wakers : PollPending(f, w)
             \/ UNCHANGED vars
      PROVE  UNCHANGED poisoned
  BY <1>5 DEF Grant, Take, CheckEnds, WakeNext, WakePanics, ServeMore, Close, WithState, Write,
              DropAcquire, Release, DropPermit, NewAcquire, PollClosing, PollReady, DropNew,
              TakePermit, OutOfThinAir, Forget, PollPending, vars, flagVars
<1>6. ClearPoison => FALSE
  BY DEF ClearPoison
<1> QED
  BY <1>3, <1>4, <1>5, <1>6 DEF Next

\* acquire's doc (flag-bearer/src/lib.rs:514) is true of every application whose acquire,
\* release and with_state closures do not panic, whatever its wakers and its order do: an
\* acquire that starts once the semaphore is closed ends with the error of a closed one.
THEOREM ClosingIsTold == Spec => (Unpoisonable => ClosedIsTold)
<1>1. QInv /\ [Next]_vars /\ ~poisoned =>
        [closed => \A f \in Acquires :
            fut[f] = "new" /\ fut'[f] # "new" => fut'[f] \in {"closed", "none"}]_vars
  BY ClosedStep DEF ClosedIsToldIn
<1>2. Init => ~poisoned
  BY DEF Init
<1>3. CASE Unpoisonable
  <2>1. Spec => []~poisoned
    BY <1>2, <1>3, NobodyPoisons, PTL DEF Spec
  <2> QED
    BY <1>1, <2>1, QueueInvariant, PTL DEF Spec, ClosedIsTold
<1>4. CASE ~Unpoisonable
  BY <1>4
<1> QED
  BY <1>3, <1>4

----------------------------------------------------------------------------
(* The queue counts its waiters: seen from the unfolded critical sections of Callbacks *)

\* A round of close sends away as many as the abstract one.
LEMMA RoundCounts ==
  ASSUME NEW k \in Nat
  PROVE  Size!Min({k, BatchCap}) = Min({BatchCap, k})
<1>1. {k, BatchCap} = {BatchCap, k}
  OBVIOUS
<1> QED
  BY <1>1 DEF Min, Size!Min

\* What each action does to len and closed.
LEMMA SizeStep == QInv /\ [Next]_vars => [Size!Next]_<<len, closed>>
<1> SUFFICES ASSUME QInv, [Next]_vars PROVE [Size!Next]_<<len, closed>>
  OBVIOUS
<1>1. /\ len = Len(queue) /\ len \in Nat
      /\ \A i \in DOMAIN queue : len > 0
  BY LenProperties DEF QInv, ListInv, ListConsistent
<1>2. CASE UNCHANGED <<len, closed>>
  BY <1>2
<1>3. ASSUME NEW i \in DOMAIN queue, len' = LenWithout(len), UNCHANGED closed
      PROVE  Size!Leave
  BY <1>1, <1>3 DEF Size!Leave, LenWithout
<1>4. ASSUME NEW t \in Threads, Grant(t) PROVE Size!Leave
  BY <1>3, <1>4 DEF Grant
<1>5. ASSUME NEW t \in Threads, Close(t) PROVE Size!Round
  BY <1>1, <1>5, RoundCounts DEF Close, Size!Round
<1>6. ASSUME NEW f \in Acquires, NEW w \in Wakers, FirstPoll(f, w)
      PROVE  Size!Join \/ UNCHANGED <<len, closed>>
  <2>1. PICK front \in BOOLEAN, outcome \in Outcomes :
          /\ AcquireOrEnqueue(f, TRUE, front, outcome)
          /\ IF outcome = "enqueue" THEN len' = len + 1 ELSE UNCHANGED len
    BY <1>6 DEF FirstPoll
  <2>2. UNCHANGED closed
    BY <1>6 DEF FirstPoll
  <2>3. outcome = "enqueue" => ~closed
    BY <2>1 DEF AcquireOrEnqueue, Rejecting
  <2> QED
    BY <2>1, <2>2, <2>3 DEF Size!Join
<1>7. ASSUME NEW f \in Acquires, PollClosing(f) PROVE Size!Leave
  BY <1>3, <1>7 DEF PollClosing, Unlink, flagVars
<1>8. ASSUME NEW f \in Acquires, NEW t \in Threads, DropAcquire(t, f)
      PROVE  Size!Leave \/ UNCHANGED <<len, closed>>
  BY <1>3, <1>8 DEF DropAcquire, Unlink
<1>9. ASSUME \/ WithStatePanics \/ ClearPoison \/ UNCHANGED vars
             \/ \E t \in Threads : \/ CheckEnds(t) \/ CheckPanics(t) \/ WakeNext(t)
                                   \/ WakePanics(t) \/ ServeMore(t) \/ WithState(t)
                                   \/ \E f \in Acquires : DropPermit(t, f)
             \/ \E f \in Acquires : \/ NewAcquire(f) \/ PollReady(f) \/ DropNew(f)
                                    \/ DropAcquirePanics(f) \/ DropPermitPanics(f)
                                    \/ TakePermit(f) \/ OutOfThinAir(f) \/ Forget(f)
             \/ \E f \in Acquires, w \in Wakers : PollPending(f, w)
             \/ \E f \in Acquires, fair \in TryModes : TryAcquire(f, fair)
      PROVE  UNCHANGED <<len, closed>>
  BY <1>9 DEF WithStatePanics, ClearPoison, vars, CheckEnds, CheckPanics, WakeNext, WakePanics,
              ServeMore, WithState, DropPermit, NewAcquire, PollReady, DropNew,
              DropAcquirePanics, DropPermitPanics, TakePermit, OutOfThinAir, Forget,
              PollPending, TryAcquire, listVars, flagVars
<1> QED
  BY <1>2, <1>4, <1>5, <1>6, <1>7, <1>8, <1>9 DEF Next, Size!Next

\* Every interleaving of grants, cancellations, rounds of close and panics moves len as one
\* newcomer let in, one waiter gone or one round of close does, and as nothing else: the
\* count that close_one asserts and the orders are asked with (lib.rs, acquire.rs).
THEOREM QueueCountsItsWaiters == Spec => CountsItsWaiters
<1>1. Init => Size!Init
  BY DEF Init, Size!Init
<1> QED
  BY <1>1, SizeStep, QueueInvariant, PTL DEF Spec, CountsItsWaiters, Size!Spec

----------------------------------------------------------------------------
(* No stranded waker: a future that has left the list has been woken since its last poll, *)
(* or will be, for every set of wakers and whichever user code panics                     *)

\* What is invariant besides QInv: the waker in a node is the one of the last poll.
Fresh == registered = current

Told(f) == \/ f \in called
           \/ \E t \in Threads : <<f, current[f]>> \in ToSet(batch[t])

Left(f) == fut[f] \in {"granted", "refused"}

WInv == QInv /\ Fresh /\ NoStrandedWaker

----------------------------------------------------------------------------
\* The wakers of a batch to which one more is added.
LEMMA AppendSet ==
  ASSUME NEW S, NEW s \in Seq(S), NEW x \in S
  PROVE  ToSet(Append(s, x)) = ToSet(s) \cup {x}
<1> DEFINE r == Append(s, x)
<1>1. /\ Len(r) = Len(s) + 1
      /\ \A j \in 1..Len(s) : r[j] = s[j]
      /\ r[Len(s) + 1] = x
  BY AppendProperties
<1>2. Len(s) \in Nat /\ DOMAIN s = 1..Len(s) /\ DOMAIN r = 1..(Len(s) + 1)
  BY <1>1, LenProperties, AppendProperties
<1> HIDE DEF r
<1>3. \A j \in 1..(Len(s) + 1) : j \in 1..Len(s) \/ j = Len(s) + 1
  BY <1>2
<1>4. (Len(s) + 1) \in 1..(Len(s) + 1) /\ \A j \in 1..Len(s) : j \in 1..(Len(s) + 1)
  BY <1>2
<1>5. ToSet(r) = ToSet(s) \cup {x}
  BY <1>1, <1>2, <1>3, <1>4 DEF ToSet
<1> QED
  BY <1>5 DEF r

\* The wakers of a batch of which the first is called.
LEMMA TailSet ==
  ASSUME NEW S, NEW s \in Seq(S), s # <<>>
  PROVE  ToSet(s) = {Head(s)} \cup ToSet(Tail(s))
<1> DEFINE r == Tail(s)
<1>1. /\ Len(r) = Len(s) - 1 /\ r \in Seq(S) /\ Head(s) = s[1]
      /\ \A j \in 1..(Len(s) - 1) : r[j] = s[j + 1]
  BY HeadTailProperties
<1>2. Len(s) \in Nat /\ Len(s) # 0 /\ DOMAIN s = 1..Len(s) /\ DOMAIN r = 1..(Len(s) - 1)
  BY <1>1, LenProperties, EmptySeq
<1> HIDE DEF r
<1>3. 1 \in 1..Len(s) /\ \A j \in 1..(Len(s) - 1) : j + 1 \in 1..Len(s)
  BY <1>2
<1>4. \A j \in 1..Len(s) : j = 1 \/ (j - 1 \in 1..(Len(s) - 1) /\ (j - 1) + 1 = j)
  BY <1>2
<1>5. ASSUME NEW j \in 1..Len(s) PROVE s[j] \in {Head(s)} \cup ToSet(r)
  <2>1. CASE j = 1
    BY <2>1, <1>1
  <2>2. CASE j # 1
    <3>1. j - 1 \in DOMAIN r /\ r[j - 1] = s[j]
      BY <2>2, <1>1, <1>2, <1>4
    <3> QED
      BY <3>1 DEF ToSet
  <2> QED
    BY <2>1, <2>2
<1>6. ToSet(s) \subseteq {Head(s)} \cup ToSet(r)
  BY <1>2, <1>5 DEF ToSet
<1>7. {Head(s)} \cup ToSet(r) \subseteq ToSet(s)
  BY <1>1, <1>2, <1>3 DEF ToSet
<1> QED
  BY <1>6, <1>7 DEF r

----------------------------------------------------------------------------
\* A step that makes no future leave the list, takes no waker off a batch, and
\* neither polls nor puts to sleep a future that has left.
LEMMA NobodyLeaves ==
  ASSUME NoStrandedWaker, UNCHANGED batch,
         \A f \in Acquires : Left(f)' =>
            Left(f) /\ current'[f] = current[f] /\ (f \in called => f \in called')
  PROVE  NoStrandedWaker'
BY DEF NoStrandedWaker, Left

\* The same where only f is concerned.
LEMMA OnlyOneChanges ==
  ASSUME QInv, NoStrandedWaker, UNCHANGED batch, NEW f \in Acquires, NEW x,
         fut' = [fut EXCEPT ![f] = x], x \notin {"granted", "refused"},
         \A g \in Acquires : g # f => current'[g] = current[g],
         \A g \in Acquires : g # f /\ g \in called => g \in called'
  PROVE  NoStrandedWaker'
<1>1. fut \in [Acquires -> Phases]
  BY DEF QInv, ListInv
<1>2. \A g \in Acquires : Left(g)' => g # f /\ Left(g)
  BY <1>1 DEF Left
<1> QED
  BY <1>2, NobodyLeaves

\* LeaveWith changes the batch of its thread only.
LEMMA BatchOf ==
  ASSUME ThreadInv, NEW t \in Threads, NEW b, NEW place, NEW m, LeaveWith(t, place, b, m)
  PROVE  batch'[t] = b /\ \A u \in Threads : u # t => batch'[u] = batch[u]
BY DEF ThreadInv, LeaveWith

\* A thread that leaves the lock with the batch it has.
LEMMA BatchSame ==
  ASSUME ThreadInv, NEW t \in Threads, NEW place, NEW m, LeaveWith(t, place, batch[t], m)
  PROVE  UNCHANGED batch
BY DEF ThreadInv, LeaveWith

----------------------------------------------------------------------------
\* The waiter that is granted its permit has its waker in the batch.
LEMMA GrantTells == ASSUME WInv, NEW t \in Threads, Grant(t) PROVE NoStrandedWaker'
<1> USE DEF WInv, QInv
<1>1. PICK i \in DOMAIN queue :
        LET f == queue[i]
            b == Append(batch[t], <<f, registered[f]>>)
        IN /\ fut' = [fut EXCEPT ![f] = "granted"]
           /\ IF BatchFull(b)
              THEN LeaveWith(t, "wake_served", b, MoreToServe(b, len'))
              ELSE batch' = [batch EXCEPT ![t] = b] /\ UNCHANGED <<pc, more>>
  BY DEF Grant
<1> DEFINE f == queue[i]
           b == Append(batch[t], <<f, registered[f]>>)
<1>2. UNCHANGED <<current, called>>
  BY DEF Grant, wakerVars
<1>3. f \in Acquires
  BY DEF ListInv
<1>4. batch'[t] = b /\ \A u \in Threads : u # t => batch'[u] = batch[u]
  BY <1>1, BatchOf DEF ThreadInv
<1>5. ToSet(b) = ToSet(batch[t]) \cup {<<f, current[f]>>}
  <2>1. batch[t] \in Seq(Acquires \X Wakers) /\ <<f, registered[f]>> \in Acquires \X Wakers
    BY <1>3 DEF ThreadInv, WakerInv
  <2> QED
    BY <2>1, AppendSet DEF Fresh
<1>6. fut' = [fut EXCEPT ![f] = "granted"] /\ fut \in [Acquires -> Phases]
  BY <1>1 DEF ListInv
<1> HIDE DEF f, b
<1>7. ASSUME NEW g \in Acquires, fut'[g] \in {"granted", "refused"}, g \notin called
      PROVE  \E u \in Threads : <<g, current[g]>> \in ToSet(batch'[u])
  <2>1. CASE g = f
    BY <2>1, <1>4, <1>5
  <2>2. CASE g # f
    <3>1. fut[g] \in {"granted", "refused"}
      BY <2>2, <1>6, <1>7
    <3>2. PICK u \in Threads : <<g, current[g]>> \in ToSet(batch[u])
      BY <3>1, <1>7 DEF NoStrandedWaker
    <3> QED
      BY <3>2, <1>4, <1>5
  <2> QED
    BY <2>1, <2>2
<1> QED
  BY <1>2, <1>7 DEF NoStrandedWaker

\* A waker that is called has told its future: it leaves its batch, and the future is called.
LEMMA WakeTells ==
  ASSUME WInv, NEW t \in Threads, batch[t] # <<>>,
         called' = WakenBy(Head(batch[t])[1], Head(batch[t])[2]),
         NEW place, NEW m, LeaveWith(t, place, Tail(batch[t]), m),
         UNCHANGED <<fut, current>>
  PROVE  NoStrandedWaker'
<1> USE DEF WInv, QInv
<1>1. batch'[t] = Tail(batch[t]) /\ \A u \in Threads : u # t => batch'[u] = batch[u]
  BY BatchOf
<1>2. ToSet(batch[t]) = {Head(batch[t])} \cup ToSet(Tail(batch[t]))
  BY TailSet DEF ThreadInv
<1>3. called \subseteq called'
  BY DEF WakenBy
<1>4. ASSUME NEW f \in Acquires, fut[f] \in {"granted", "refused"}, f \notin called'
      PROVE  \E u \in Threads : <<f, current[f]>> \in ToSet(batch'[u])
  <2>1. PICK u \in Threads : <<f, current[f]>> \in ToSet(batch[u])
    BY <1>3, <1>4 DEF NoStrandedWaker
  <2>2. Head(batch[t]) # <<f, current[f]>>
    BY <1>4 DEF WakenBy, Gone
  <2>3. CASE u = t
    BY <2>1, <2>2, <2>3, <1>1, <1>2
  <2>4. CASE u # t
    BY <2>1, <2>4, <1>1
  <2> QED
    BY <2>3, <2>4
<1> QED
  BY <1>4 DEF NoStrandedWaker

\* So has every waiter that a round of close refuses.
LEMMA CloseTells == ASSUME WInv, NEW t \in Threads, Close(t) PROVE NoStrandedWaker'
<1> USE DEF WInv, QInv
<1> DEFINE n == Min({BatchCap, Len(queue)})
           taken == {queue[i] : i \in 1..n}
           b == [i \in 1..n |-> <<queue[i], registered[queue[i]]>>]
<1>1. /\ fut' = [f \in Acquires |-> IF f \in taken THEN "refused" ELSE fut[f]]
      /\ LeaveWith(t, "wake_closed", b, open')
      /\ UNCHANGED <<current, called>>
  BY DEF Close, wakerVars
<1>2. batch[t] = <<>>
  BY DEF Close, ThreadInv, BatchInv
<1>3. batch'[t] = b /\ \A u \in Threads : u # t => batch'[u] = batch[u]
  BY <1>1, BatchOf
<1>4. \A i \in 1..n : <<queue[i], current[queue[i]]>> \in ToSet(b)
  BY DEF ToSet, Fresh
<1>5. ToSet(batch[t]) = {}
  BY <1>2 DEF ToSet
<1> HIDE DEF n, b
<1>6. ASSUME NEW f \in Acquires, fut'[f] \in {"granted", "refused"}, f \notin called
      PROVE  \E u \in Threads : <<f, current[f]>> \in ToSet(batch'[u])
  <2>1. CASE f \in taken
    <3>1. PICK i \in 1..n : f = queue[i]
      BY <2>1
    <3> QED
      BY <3>1, <1>3, <1>4
  <2>2. CASE f \notin taken
    <3>1. fut[f] \in {"granted", "refused"}
      BY <2>2, <1>1, <1>6
    <3>2. PICK u \in Threads : <<f, current[f]>> \in ToSet(batch[u])
      BY <3>1, <1>6 DEF NoStrandedWaker
    <3> QED
      BY <3>2, <1>3, <1>5
  <2> QED
    BY <2>1, <2>2
<1> QED
  BY <1>1, <1>6 DEF NoStrandedWaker

\* A poll or drop of f: f has its result, or none to take.
LEMMA FirstPollTells ==
  ASSUME WInv, NEW f \in Acquires, NEW w \in Wakers, FirstPoll(f, w) PROVE NoStrandedWaker'
<1> USE DEF WInv
<1>1. PICK outcome \in Outcomes :
        IF outcome = "enqueue"
        THEN fut' = [fut EXCEPT ![f] = "linked"] /\ current' = [current EXCEPT ![f] = w]
        ELSE fut' = [fut EXCEPT ![f] = ResultOf(outcome)] /\ UNCHANGED current
  BY DEF FirstPoll
<1>2. UNCHANGED batch /\ called' = called \ {f}
  BY DEF FirstPoll, threadVars
<1>3. ResultOf(outcome) \notin {"granted", "refused"}
  BY DEF ResultOf, Outcomes
<1>4. \A g \in Acquires : g # f => current'[g] = current[g]
  BY <1>1 DEF QInv, WakerInv
<1>5. CASE outcome = "enqueue"
  BY <1>1, <1>2, <1>4, <1>5, OnlyOneChanges
<1>6. CASE outcome # "enqueue"
  BY <1>1, <1>2, <1>3, <1>4, <1>6, OnlyOneChanges
<1> QED
  BY <1>5, <1>6

\* try_acquire concerns nobody in the list.
LEMMA TryAcquireTells ==
  ASSUME WInv, NEW f \in Acquires, NEW fair \in TryModes, TryAcquire(f, fair)
  PROVE  NoStrandedWaker'
<1>1. PICK outcome \in Outcomes : fut' = [fut EXCEPT ![f] = ResultOf(outcome)]
  BY DEF TryAcquire
<1>2. UNCHANGED <<batch, current, called>>
  BY DEF TryAcquire, threadVars, wakerVars
<1>3. ResultOf(outcome) \notin {"granted", "refused"}
  BY DEF ResultOf, Outcomes
<1> QED
  BY <1>1, <1>2, <1>3, OnlyOneChanges DEF WInv

\* Polling a queued future concerns nobody that has left.
LEMMA PollPendingTells ==
  ASSUME WInv, NEW f \in Acquires, NEW w \in Wakers, PollPending(f, w) PROVE NoStrandedWaker'
<1> USE DEF WInv
<1>1. /\ fut[f] = "linked" /\ UNCHANGED <<fut, batch>>
      /\ current' = [current EXCEPT ![f] = w]
      /\ called' = called \ {f}
  BY DEF PollPending, futVars, threadVars
<1>2. current \in [Acquires -> Wakers]
  BY DEF QInv, WakerInv
<1> QED
  BY <1>1, <1>2, NobodyLeaves DEF Left

\* The actions of one future that end it, or take its result.
LEMMA FutureTells ==
  ASSUME WInv, NEW f \in Acquires,
         \/ NewAcquire(f) \/ PollClosing(f) \/ PollReady(f) \/ DropNew(f)
         \/ DropAcquirePanics(f) \/ DropPermitPanics(f) \/ TakePermit(f)
         \/ OutOfThinAir(f) \/ Forget(f)
         \/ \E t \in Threads : DropAcquire(t, f) \/ DropPermit(t, f)
  PROVE  NoStrandedWaker'
<1> USE DEF WInv
<1>1. UNCHANGED <<batch, current>>
  BY DEF NewAcquire, PollClosing, PollReady, DropNew, DropAcquirePanics, DropPermitPanics,
         TakePermit, OutOfThinAir, Forget, DropAcquire, DropPermit, ServeAfterwards,
         threadVars, wakerVars
<1>2. \A g \in Acquires : g # f /\ g \in called => g \in called'
  BY DEF NewAcquire, PollClosing, PollReady, DropNew, DropAcquirePanics, DropPermitPanics,
         TakePermit, OutOfThinAir, Forget, DropAcquire, DropPermit, wakerVars
<1>3. \/ fut' = [fut EXCEPT ![f] = "none"]
      \/ fut' = [fut EXCEPT ![f] = "new"]
      \/ fut' = [fut EXCEPT ![f] = "permit"]
      \/ fut' = [fut EXCEPT ![f] = RefusedResult(f)]
  <2>1. CASE PollReady(f)
    <3>1. fut' = [fut EXCEPT ![f] = IF fut[f] = "granted" THEN "permit" ELSE RefusedResult(f)]
      BY <2>1 DEF PollReady
    <3> QED
      BY <3>1
  <2>2. CASE NewAcquire(f) \/ PollClosing(f) \/ OutOfThinAir(f)
    BY <2>2 DEF NewAcquire, PollClosing, OutOfThinAir
  <2>3. CASE \/ DropNew(f) \/ DropAcquirePanics(f) \/ DropPermitPanics(f) \/ TakePermit(f)
             \/ Forget(f) \/ \E t \in Threads : DropAcquire(t, f) \/ DropPermit(t, f)
    BY <2>3 DEF DropNew, DropAcquirePanics, DropPermitPanics, TakePermit, Forget,
                DropAcquire, DropPermit
  <2> QED
    BY <2>1, <2>2, <2>3
<1>4. RefusedResult(f) \notin {"granted", "refused"}
  BY DEF RefusedResult
<1> QED
  BY <1>1, <1>2, <1>3, <1>4, OnlyOneChanges

\* The actions that leave futures, wakers and batches alone.
LEMMA OthersTell ==
  ASSUME WInv,
         \/ WithStatePanics \/ ClearPoison \/ UNCHANGED vars
         \/ \E t \in Threads : \/ CheckEnds(t) \/ CheckPanics(t) \/ ServeMore(t)
                               \/ WithState(t)
  PROVE  NoStrandedWaker'
<1> USE DEF WInv
<1>1. UNCHANGED <<fut, current, called>>
  BY DEF WithStatePanics, ClearPoison, vars, CheckEnds, CheckPanics, ServeMore, WithState,
         futVars, wakerVars
<1>2. UNCHANGED batch
  <2>1. CASE WithStatePanics \/ ClearPoison \/ UNCHANGED vars
    BY <2>1 DEF WithStatePanics, ClearPoison, vars, threadVars
  <2>2. CASE \E t \in Threads : ServeMore(t) \/ WithState(t)
    BY <2>2 DEF ServeMore, WithState, ServeAfterwards
  <2>3. CASE \E t \in Threads : CheckEnds(t) \/ CheckPanics(t)
    BY <2>3, BatchSame DEF CheckEnds, CheckPanics, QInv
  <2> QED
    BY <2>1, <2>2, <2>3
<1> QED
  BY <1>1, <1>2, NobodyLeaves DEF Left

\* A node holds the waker of its future's last poll.
LEMMA StaysFresh == WInv /\ [Next]_vars => Fresh'
<1> SUFFICES ASSUME WInv, [Next]_vars PROVE Fresh'
  OBVIOUS
<1> USE DEF WInv, Fresh
<1>1. ASSUME NEW f \in Acquires, NEW w \in Wakers, FirstPoll(f, w) \/ PollPending(f, w)
      PROVE  Fresh'
  BY <1>1 DEF FirstPoll, PollPending, Reregistered
<1>2. ASSUME NEW t \in Threads,
             \/ Grant(t) \/ CheckEnds(t) \/ CheckPanics(t) \/ WakeNext(t) \/ WakePanics(t)
             \/ ServeMore(t) \/ Close(t) \/ WithState(t)
      PROVE  UNCHANGED <<registered, current>>
  BY <1>2 DEF Grant, CheckEnds, CheckPanics, WakeNext, WakePanics, ServeMore, Close,
              WithState, wakerVars
<1>3. ASSUME NEW f \in Acquires,
             \/ NewAcquire(f) \/ PollClosing(f) \/ PollReady(f) \/ DropNew(f)
             \/ DropAcquirePanics(f) \/ DropPermitPanics(f) \/ TakePermit(f)
             \/ OutOfThinAir(f) \/ Forget(f)
             \/ \E fair \in TryModes : TryAcquire(f, fair)
             \/ \E t \in Threads : DropAcquire(t, f) \/ DropPermit(t, f)
      PROVE  UNCHANGED <<registered, current>>
  BY <1>3 DEF NewAcquire, PollClosing, PollReady, DropNew, DropAcquirePanics,
              DropPermitPanics, TakePermit, OutOfThinAir, Forget, TryAcquire, DropAcquire,
              DropPermit, wakerVars
<1>4. ASSUME WithStatePanics \/ ClearPoison \/ UNCHANGED vars
      PROVE  UNCHANGED <<registered, current>>
  BY <1>4 DEF WithStatePanics, ClearPoison, vars, wakerVars
<1> QED
  BY <1>1, <1>2, <1>3, <1>4 DEF Next

\* Every step keeps the invariant of this module.
LEMMA WInvStep == WInv /\ [Next]_vars => WInv'
<1> SUFFICES ASSUME WInv, [Next]_vars PROVE NoStrandedWaker'
  BY StepKeeps, StaysFresh DEF WInv
<1>1. ASSUME NEW t \in Threads, WakeNext(t) \/ WakePanics(t) PROVE NoStrandedWaker'
  <2>1. /\ batch[t] # <<>>
        /\ called' = WakenBy(Head(batch[t])[1], Head(batch[t])[2])
        /\ UNCHANGED <<fut, current>>
    BY <1>1 DEF WakeNext, WakePanics, futVars
  <2>2. \E place, m : LeaveWith(t, place, Tail(batch[t]), m)
    BY <1>1 DEF WakeNext, WakePanics
  <2> QED
    BY <2>1, <2>2, WakeTells
<1> QED
  BY <1>1, GrantTells, CloseTells, FirstPollTells, TryAcquireTells, PollPendingTells,
     FutureTells, OthersTell DEF Next

\* Every future that was granted its permit or refused by closing has been woken since it
\* was last polled, or the waker of that poll is in a batch that a thread still calls:
\* re-registration, cancellation, closing in rounds and panics strand nobody
\* (WakeBatch in lib.rs, poll in acquire.rs).
THEOREM NobodyStranded == Spec => []NoStrandedWaker
<1>1. Init => WInv
  BY InitEstablishes DEF Init, WInv, Fresh, NoStrandedWaker
<1> QED
  BY <1>1, WInvStep, PTL DEF Spec, WInv

----------------------------------------------------------------------------
(***************************************************************************)
(* The wait queue implements the semaphore it promises, and every step of  *)
(* it balances the permits, for every set of futures and threads, every    *)
(* order, batch capacity and application state, whatever panics.           *)
(***************************************************************************)
(* The abstract variables *)

Lost == dead \cap ToSet(queue)

\* Params are lost only of a future that is linked or was sent away by close.
DeadWait == \A f \in dead : fut[f] \in {"linked", "refused"}

RInv == QInv /\ DeadWait

Held == {"granted", "permit"}

\* A future neither gets nor gives up a permit.
LEMMA HeldSame ==
  ASSUME fut \in [Acquires -> Phases], NEW f \in Acquires, NEW x \in Phases,
         fut' = [fut EXCEPT ![f] = x], fut[f] \in Held <=> x \in Held
  PROVE  Outstanding' = Outstanding
BY DEF Outstanding, Held

\* It gets one.
LEMMA HeldGrows ==
  ASSUME fut \in [Acquires -> Phases], NEW f \in Acquires, NEW x \in Held,
         fut' = [fut EXCEPT ![f] = x], fut[f] \notin Held
  PROVE  f \in Acquires \ Outstanding /\ Outstanding' = Outstanding \cup {f}
BY DEF Outstanding, Held

\* It gives it up.
LEMMA HeldShrinks ==
  ASSUME fut \in [Acquires -> Phases], NEW f \in Acquires, NEW x \in Phases \ Held,
         fut' = [fut EXCEPT ![f] = x], fut[f] \in Held
  PROVE  f \in Outstanding /\ Outstanding' = Outstanding \ {f}
BY DEF Outstanding, Held

\* The leader of the queue (lib.rs: peek of a node with params) leads the line.
LEMMA LeaderLeads ==
  ASSUME NEW i, IsLeader(i) PROVE Abstract!Leads(i)
BY DEF IsLeader, Abstract!Leads, ToSet

\* The order is asked with the length of the line.
LEMMA OrderOf ==
  ASSUME ListInv PROVE [n \in Nat |-> FrontAnswers(n)][Len(queue)] = FrontAnswers(len)
<1>1. Len(queue) \in Nat /\ len = Len(queue)
  BY LenProperties DEF ListInv, ListConsistent
<1> QED
  BY <1>1

\* Nothing the abstract semaphore knows of changes.
LEMMA Invisible ==
  ASSUME UNCHANGED <<queue, Lost, Outstanding, avail, closed, poisoned>>
  PROVE  UNCHANGED Abstract!vars
BY DEF Abstract!vars, Lost

----------------------------------------------------------------------------
(* Lost params *)

\* A step of one future keeps them to those that wait.
LEMMA DeadWaitKept ==
  ASSUME RInv, NEW f \in Acquires, NEW x \in Phases, fut' = [fut EXCEPT ![f] = x],
         dead' = dead \ {f} \/ (dead' = dead /\ (f \notin dead \/ x \in {"linked", "refused"}))
  PROVE  DeadWait'
BY DEF RInv, QInv, ListInv, DeadWait

\* What an acquisition leaves behind is no wait.
LEMMA ResultIsPhase ==
  ASSUME NEW outcome \in Outcomes
  PROVE  /\ ResultOf(outcome) \in Phases \ {"linked", "granted", "refused"}
         /\ ResultOf(outcome) \in Held <=> outcome = "acquired"
BY DEF Outcomes, ResultOf, Phases, Gone, Held

\* Every step keeps lost params to futures that wait or were sent away.
LEMMA DeadWaitStep == RInv /\ [Next]_vars => DeadWait'
<1> SUFFICES ASSUME RInv, [Next]_vars PROVE DeadWait'
  OBVIOUS
<1>0. fut \in [Acquires -> Phases] /\ DeadWait /\ dead \subseteq Acquires
  BY DEF RInv, QInv, ListInv
<1>a. \A x \in {"new", "linked", "none", "closed", "panicked", "permit", "granted", "refused"} : x \in Phases
  BY DEF Phases, Gone
<1>1. ASSUME NEW t \in Threads, Grant(t) PROVE DeadWait'
  <2>1. PICK i \in DOMAIN queue : IsLeader(i) /\ fut' = [fut EXCEPT ![queue[i]] = "granted"]
    BY <1>1 DEF Grant
  <2>2. queue[i] \in Acquires /\ queue[i] \notin dead /\ dead' = dead
    BY <1>1, <2>1 DEF Grant, IsLeader, RInv, QInv, ListInv
  <2> QED
    BY <2>1, <2>2, <1>a, DeadWaitKept
<1>2. ASSUME NEW t \in Threads, CheckPanics(t) PROVE DeadWait'
  <2>1. PICK i \in DOMAIN queue : dead' = dead \cup {queue[i]} /\ fut' = fut
    BY <1>2 DEF CheckPanics
  <2>2. queue[i] \in Acquires /\ fut[queue[i]] = "linked"
    BY <2>1 DEF RInv, QInv, ListInv, ListConsistent, ToSet
  <2> QED
    BY <2>1, <2>2, <1>0 DEF DeadWait
<1>3. ASSUME NEW t \in Threads, Close(t) PROVE DeadWait'
  <2>1. PICK taken : fut' = [f \in Acquires |-> IF f \in taken THEN "refused" ELSE fut[f]]
    BY <1>3 DEF Close
  <2>2. dead' = dead
    BY <1>3 DEF Close
  <2> QED
    BY <2>1, <2>2, <1>0 DEF DeadWait
<1>4. CASE UNCHANGED <<fut, dead>>
  BY <1>4, <1>0 DEF DeadWait
<1>5. ASSUME NEW f \in Acquires, NEW w \in Wakers, FirstPoll(f, w) PROVE DeadWait'
  <2>1. PICK outcome \in Outcomes :
          IF outcome = "enqueue" THEN fut' = [fut EXCEPT ![f] = "linked"]
                                 ELSE fut' = [fut EXCEPT ![f] = ResultOf(outcome)]
    BY <1>5 DEF FirstPoll
  <2>2. f \notin dead /\ dead' = dead
    BY <1>5, <1>0 DEF FirstPoll, DeadWait
  <2> QED
    BY <2>1, <2>2, <1>a, ResultIsPhase, DeadWaitKept
<1>6. ASSUME NEW f \in Acquires, NEW fair \in TryModes, TryAcquire(f, fair) PROVE DeadWait'
  <2>1. PICK outcome \in Outcomes : fut' = [fut EXCEPT ![f] = ResultOf(outcome)]
    BY <1>6 DEF TryAcquire
  <2>2. f \notin dead /\ dead' = dead
    BY <1>6, <1>0 DEF TryAcquire, DeadWait
  <2> QED
    BY <2>1, <2>2, ResultIsPhase, DeadWaitKept
<1>7. ASSUME NEW f \in Acquires,
             \/ PollClosing(f) \/ PollReady(f) \/ \E t \in Threads : DropAcquire(t, f)
      PROVE  DeadWait'
  <2>1. dead' = dead \ {f} /\ \E x \in Phases : fut' = [fut EXCEPT ![f] = x]
    BY <1>7, <1>a DEF PollClosing, PollReady, DropAcquire, RefusedResult
  <2> QED
    BY <2>1, DeadWaitKept
<1>8. ASSUME NEW f \in Acquires,
             \/ NewAcquire(f) \/ DropNew(f) \/ DropAcquirePanics(f) \/ DropPermitPanics(f)
             \/ TakePermit(f) \/ OutOfThinAir(f) \/ Forget(f)
             \/ \E t \in Threads : DropPermit(t, f)
      PROVE  DeadWait'
  <2>1. /\ dead' = dead /\ fut[f] \notin {"linked", "refused"}
        /\ \E x \in Phases : fut' = [fut EXCEPT ![f] = x]
    BY <1>8, <1>a DEF NewAcquire, DropNew, DropAcquirePanics, DropPermitPanics, TakePermit,
                      OutOfThinAir, Forget, DropPermit
  <2>2. f \notin dead
    BY <2>1, <1>0 DEF DeadWait
  <2> QED
    BY <2>1, <2>2, DeadWaitKept
<1>9. CASE \/ \E t \in Threads : \/ CheckEnds(t) \/ WakeNext(t) \/ WakePanics(t)
                                 \/ ServeMore(t) \/ WithState(t)
           \/ \E f \in Acquires, w \in Wakers : PollPending(f, w)
           \/ WithStatePanics \/ ClearPoison \/ UNCHANGED vars
  BY <1>9, <1>4 DEF CheckEnds, WakeNext, WakePanics, ServeMore, WithState, PollPending,
                    WithStatePanics, ClearPoison, vars, futVars
<1> QED
  BY <1>1, <1>2, <1>3, <1>5, <1>6, <1>7, <1>8, <1>9 DEF Next

\* The invariant of the refinement is inductive.
LEMMA RInvStep == RInv /\ [Next]_vars => RInv'
BY StepKeeps, DeadWaitStep DEF RInv

LEMMA RInvInit == Init => RInv
BY InitEstablishes DEF RInv, DeadWait, Init
----------------------------------------------------------------------------
(* What each action does to the line and to the permits *)

Implements == Abstract!Next \/ UNCHANGED Abstract!vars

\* The invariants in the form in which the actions need them.
LEMMA Facts ==
  ASSUME RInv
  PROVE  /\ queue \in Seq(Acquires) /\ IsInjective(queue)
         /\ fut \in [Acquires -> Phases] /\ dead \subseteq Acquires
         /\ avail \in Nat /\ total \in Int
         /\ \A f \in Acquires : Need[f] \in Nat /\ (fut[f] = "linked" <=> f \in ToSet(queue))
         /\ ~open => closed
         /\ \A f \in dead : fut[f] \in {"linked", "refused"}
BY QueueAssumptions DEF RInv, QInv, ListInv, ListConsistent, DiscardedListEmpty, StateInv, DeadWait

\* Nothing is given or returned.
LEMMA NothingMoves ==
  ASSUME RInv, UNCHANGED <<fut, stateVars>> PROVE Outstanding' = Outstanding /\ Balances
BY DEF stateVars, Outstanding, Balances, PermitsOut

\* check serves the leader.
LEMMA GrantRefines ==
  ASSUME RInv, NEW t \in Threads, Grant(t) PROVE Abstract!Serve /\ Balances
<1>1. PICK i \in DOMAIN queue :
        /\ IsLeader(i) /\ Take(queue[i])
        /\ queue' = RemoveAt(queue, i)
        /\ fut' = [fut EXCEPT ![queue[i]] = "granted"]
  BY DEF Grant
<1>2. Serving /\ UNCHANGED <<dead, closed, poisoned>>
  BY <1>1 DEF Grant, Take
<1>3. /\ queue[i] \in Acquires /\ fut[queue[i]] = "linked" /\ queue[i] \notin dead
      /\ ToSet(queue') = ToSet(queue) \ {queue[i]}
  <2>1. queue \in Seq(Acquires) /\ IsInjective(queue)
    BY Facts
  <2>2. ToSet(RemoveAt(queue, i)) = ToSet(queue) \ {queue[i]}
    BY <2>1, RemoveAtKeepsInjective, Zenon
  <2>3. queue[i] \in ToSet(queue) /\ queue[i] \in Acquires
    BY <2>1 DEF ToSet
  <2> QED
    BY <1>1, <2>2, <2>3, Facts DEF IsLeader
<1>4. queue[i] \in Acquires \ Outstanding /\ Outstanding' = Outstanding \cup {queue[i]}
  BY <1>1, <1>3, Facts, HeldGrows DEF Held
<1>5. Lost' = Lost
  BY <1>2, <1>3 DEF Lost
<1>6. Abstract!Working /\ Abstract!Fits(queue[i]) /\ Abstract!Leads(i)
  BY <1>1, <1>2, LeaderLeads DEF Serving, Abstract!Working, Abstract!Fits, Take, Fits
<1>7. avail' = avail - Need[queue[i]] /\ total' = total
  BY <1>1 DEF Take
<1>8. Abstract!Serve
  <2>1. UNCHANGED <<Lost, closed, poisoned>>
    BY <1>2, <1>5
  <2>2. /\ Abstract!Leads(i) /\ Abstract!Fits(queue[i])
        /\ queue' = RemoveAt(queue, i)
        /\ Outstanding' = Outstanding \cup {queue[i]}
        /\ avail' = avail - Need[queue[i]]
    BY <1>1, <1>4, <1>6, <1>7
  <2>3. \E j \in DOMAIN queue :
          /\ Abstract!Leads(j) /\ Abstract!Fits(queue[j])
          /\ queue' = RemoveAt(queue, j)
          /\ Outstanding' = Outstanding \cup {queue[j]}
          /\ avail' = avail - Need[queue[j]]
    BY <2>2, Zenon
  <2>4. UNCHANGED <<dead \cap ToSet(queue), closed, poisoned>>
    BY <2>1 DEF Lost
  <2> QED
    BY <1>6, <2>3, <2>4 DEF Abstract!Serve, Abstract!RemoveAt, RemoveAt
<1>9. PermitsOut' = PermitsOut + Need[queue[i]]
  BY <1>3, <1>7, Facts DEF PermitsOut
<1> QED
  BY <1>4, <1>8, <1>9 DEF Balances

\* acquire panics on the leader: only its request is lost.
LEMMA CheckPanicsRefines ==
  ASSUME RInv, NEW t \in Threads, CheckPanics(t) PROVE Abstract!Breakdown /\ Balances
<1>1. PICK i \in DOMAIN queue : /\ IsLeader(i) /\ TakePanics(queue[i])
                                /\ dead' = dead \cup {queue[i]}
  BY DEF CheckPanics
<1>2. Serving /\ UNCHANGED <<queue, fut, closed>> /\ poisoned' = TRUE
  BY <1>1 DEF CheckPanics, listVars, TakePanics
<1>3. queue[i] \in Acquires /\ Need[queue[i]] \in Nat /\ queue[i] \in ToSet(queue)
  BY Facts DEF ToSet
<1>4. Lost' = Lost \cup {queue[i]} /\ Outstanding' = Outstanding
  BY <1>1, <1>2, <1>3 DEF Lost, Outstanding
<1>5. avail' \in Nat /\ PermitsOut' = PermitsOut
  BY <1>1, <1>3, Facts DEF TakePanics, Fits, stateVars, PermitsOut
<1>6. Abstract!Working /\ Abstract!Leads(i)
  BY <1>1, <1>2, LeaderLeads DEF Serving, Abstract!Working
<1>7. Abstract!Breakdown
  BY <1>2, <1>4, <1>5, <1>6 DEF Abstract!Breakdown, Lost
<1> QED
  BY <1>4, <1>5, <1>7 DEF Balances

\* A round of close sends the first of the line away.
LEMMA CloseRefines ==
  ASSUME RInv, NEW t \in Threads, Close(t) PROVE Abstract!Next /\ Balances
<1> DEFINE n == Min({BatchCap, Len(queue)})
           taken == {queue[i] : i \in 1..n}
<1>1. /\ closed' = TRUE
      /\ queue' = SubSeq(queue, n + 1, Len(queue))
      /\ fut' = [f \in Acquires |-> IF f \in taken THEN "refused" ELSE fut[f]]
      /\ UNCHANGED <<poisoned, stateVars, dead>>
  BY DEF Close
<1>2. Len(queue) \in Nat /\ DOMAIN queue = 1..Len(queue)
  BY Facts, LenProperties
<1>3. n \in 0..Len(queue)
  BY <1>2, RoundSize
<1> HIDE DEF n
<1>4. ToSet(SubSeq(queue, n + 1, Len(queue))) = ToSet(queue) \ {queue[i] : i \in 1..n}
  <2>1. queue \in Seq(Acquires) /\ IsInjective(queue)
    BY Facts
  <2> QED
    BY <1>3, <2>1, DropKeepsInjective, Zenon
<1>5. Lost' = Lost \ taken
  BY <1>1, <1>4 DEF Lost
<1>6. \A f \in Acquires : f \in taken => fut[f] = "linked"
  <2>1. \A i \in 1..n : queue[i] \in ToSet(queue)
    BY <1>2, <1>3 DEF ToSet
  <2> QED
    BY <2>1, Facts
<1>7. Outstanding' = Outstanding
  BY <1>1, <1>6, Facts DEF Outstanding
<1>8. Abstract!Close(n)
  BY <1>1, <1>5, <1>7 DEF Abstract!Close, Lost, stateVars
<1>9. Balances
  BY <1>1, <1>7 DEF Balances, PermitsOut, stateVars
<1> QED
  BY <1>3, <1>8, <1>9 DEF Abstract!Next
\* What an acquisition does to the permits: a permit is given, the state breaks down, or
\* nothing happens.
LEMMA AcquisitionRefines ==
  ASSUME RInv, NEW f \in Acquires, NEW fair \in BOOLEAN, NEW front \in BOOLEAN,
         NEW outcome \in Outcomes, AcquireOrEnqueue(f, fair, front, outcome),
         fair \/ FALSE \in TryModes,
         fut[f] \in {"none", "new"}, fut' = [fut EXCEPT ![f] = ResultOf(outcome)],
         UNCHANGED <<listVars, closed, dead>>
  PROVE  Implements /\ Balances
<1>1. /\ Need[f] \in Nat /\ avail \in Nat /\ total \in Int
      /\ fut[f] \notin Held /\ f \notin ToSet(queue) /\ fut \in [Acquires -> Phases]
      /\ (Rejecting <=> closed)
  BY Facts DEF Held, Rejecting
<1>2. UNCHANGED <<queue, Lost, closed>>
  BY DEF listVars, Lost
<1>3. CASE outcome = "acquired"
  <2>1. Take(f) /\ ~poisoned /\ ~Rejecting /\ MayTry(front)
    BY <1>3 DEF AcquireOrEnqueue
  <2>2. f \in Acquires \ Outstanding /\ Outstanding' = Outstanding \cup {f}
    BY <1>1, <1>3, ResultIsPhase, HeldGrows
  <2>3. /\ avail' = avail - Need[f] /\ UNCHANGED <<total, poisoned>>
        /\ Abstract!Fits(f) /\ Abstract!Working
    BY <1>1, <2>1 DEF Take, Fits, Abstract!Fits, Abstract!Working
  <2>4. \/ queue = <<>> \/ FALSE \in TryModes
        \/ TRUE \in [n \in Nat |-> FrontAnswers(n)][Len(queue)]
    <3>1. CASE ~fair
      BY <3>1
    <3>2. CASE fair /\ ~front
      BY <3>2, <2>1 DEF MayTry
    <3>3. CASE fair /\ front
      <4>1. front \in FrontAnswers(len)
        BY <3>3 DEF AcquireOrEnqueue
      <4>2. TRUE \in FrontAnswers(len)
        BY <3>3, <4>1, Zenon
      <4> QED
        BY <4>2, OrderOf DEF RInv, QInv
    <3> QED
      BY <3>1, <3>2, <3>3
  <2>5. f \notin Outstanding \cup ToSet(queue)
    BY <1>1, <2>2
  <2>6. UNCHANGED <<queue, dead \cap ToSet(queue), closed, poisoned>>
    BY <1>2, <2>3 DEF Lost
  <2>7. Abstract!Admit(f)
    BY <2>2, <2>3, <2>4, <2>5, <2>6 DEF Abstract!Admit, Abstract!ToSet, ToSet
  <2>8. PermitsOut' = PermitsOut + Need[f]
    BY <1>1, <2>3 DEF PermitsOut
  <2> QED
    BY <2>2, <2>7, <2>8 DEF Implements, Abstract!Next, Balances
<1>4. CASE outcome # "acquired"
  <2>1. Outstanding' = Outstanding
    BY <1>1, <1>4, ResultIsPhase, HeldSame
  <2>2. CASE outcome = "acquire_panics"
    <3>1. TakePanics(f)
      BY <2>2 DEF AcquireOrEnqueue
    <3>2. poisoned' = TRUE /\ avail' \in Nat /\ PermitsOut' = PermitsOut
      BY <3>1, <1>1 DEF TakePanics, Fits, stateVars, PermitsOut
    <3>3. Abstract!Breakdown
      BY <3>2, <2>1, <1>2 DEF Abstract!Breakdown, Lost
    <3> QED
      BY <2>1, <3>2, <3>3 DEF Implements, Abstract!Next, Balances
  <2>3. CASE outcome # "acquire_panics"
    <3>1. UNCHANGED <<poisoned, stateVars>>
      BY <2>3, <1>4 DEF AcquireOrEnqueue, Outcomes
    <3>2. UNCHANGED Abstract!vars
      BY <3>1, <2>1, <1>2, Invisible DEF stateVars
    <3>3. PermitsOut' = PermitsOut
      BY <3>1 DEF stateVars, PermitsOut
    <3> QED
      BY <2>1, <3>2, <3>3 DEF Implements, Balances
  <2> QED
    BY <2>2, <2>3
<1> QED
  BY <1>3, <1>4

\* try_acquire never touches the line.
LEMMA TryAcquireRefines ==
  ASSUME RInv, NEW f \in Acquires, NEW fair \in TryModes, TryAcquire(f, fair)
  PROVE  Implements /\ Balances
<1>1. PICK front \in BOOLEAN, outcome \in Outcomes :
        /\ AcquireOrEnqueue(f, fair, front, outcome)
        /\ fut' = [fut EXCEPT ![f] = ResultOf(outcome)]
  BY DEF TryAcquire
<1>2. fut[f] = "none" /\ UNCHANGED <<listVars, closed, dead>>
  BY DEF TryAcquire
<1>3. fair \in BOOLEAN /\ (fair \/ FALSE \in TryModes)
  BY QueueAssumptions
<1> QED
  BY <1>1, <1>2, <1>3, AcquisitionRefines

\* Who is in the line when f joins it, at either end.
LEMMA WhoJoins ==
  ASSUME NEW q \in Seq(Acquires), IsInjective(q), NEW f \in Acquires, f \notin ToSet(q)
  PROVE  /\ ToSet(<<f>> \o q) = ToSet(q) \cup {f}
         /\ ToSet(Append(q, f)) = ToSet(q) \cup {f}
<1>1. ToSet(<<f>> \o q) = ToSet(q) \cup {f}
  BY PrependKeepsInjective
<1>2. ToSet(Append(q, f)) = ToSet(q) \cup {f}
  BY AppendKeepsInjective
<1> QED
  BY <1>1, <1>2

\* A first poll joins the line only if it could not be served.
LEMMA FirstPollRefines ==
  ASSUME RInv, NEW f \in Acquires, NEW w \in Wakers, FirstPoll(f, w)
  PROVE  Implements /\ Balances
<1>1. PICK front \in BOOLEAN, outcome \in Outcomes :
        /\ AcquireOrEnqueue(f, TRUE, front, outcome)
        /\ IF outcome = "enqueue"
           THEN /\ queue' = IF front THEN <<f>> \o queue ELSE Append(queue, f)
                /\ fut' = [fut EXCEPT ![f] = "linked"]
           ELSE /\ fut' = [fut EXCEPT ![f] = ResultOf(outcome)]
                /\ UNCHANGED <<queue, len>>
  BY DEF FirstPoll
<1>2. fut[f] = "new" /\ UNCHANGED <<open, closed, dead>>
  BY DEF FirstPoll
<1>3. CASE outcome # "enqueue"
  <2>1. UNCHANGED <<listVars, closed, dead>> /\ fut' = [fut EXCEPT ![f] = ResultOf(outcome)]
    BY <1>1, <1>2, <1>3 DEF listVars
  <2> QED
    BY <2>1, <1>1, <1>2, AcquisitionRefines
<1>4. CASE outcome = "enqueue"
  <2>1. /\ front \in FrontAnswers(len)
        /\ ~poisoned /\ ~Rejecting /\ ~(MayTry(front) /\ Fits(f))
        /\ UNCHANGED <<poisoned, stateVars>>
    BY <1>1, <1>4 DEF AcquireOrEnqueue
  <2>2. /\ f \notin ToSet(queue) /\ f \notin dead /\ queue \in Seq(Acquires)
        /\ IsInjective(queue) /\ fut \in [Acquires -> Phases]
    BY <1>2, Facts
  <2>3. ToSet(queue') = ToSet(queue) \cup {f}
    <3>1. /\ ToSet(<<f>> \o queue) = ToSet(queue) \cup {f}
          /\ ToSet(Append(queue, f)) = ToSet(queue) \cup {f}
      BY <2>2, WhoJoins, Zenon
    <3>2. queue' = <<f>> \o queue \/ queue' = Append(queue, f)
      BY <1>1, <1>4
    <3> QED
      BY <3>1, <3>2, Zenon
  <2>4. UNCHANGED <<dead \cap ToSet(queue), avail, closed, poisoned>>
    BY <1>2, <2>1, <2>2, <2>3 DEF stateVars
  <2>5. f \notin Outstanding /\ Outstanding' = Outstanding /\ PermitsOut' = PermitsOut
    BY <1>1, <1>2, <1>4, <2>1, <2>2 DEF Outstanding, PermitsOut, stateVars
  <2>6. front \in [n \in Nat |-> FrontAnswers(n)][Len(queue)]
    <3>1. [n \in Nat |-> FrontAnswers(n)][Len(queue)] = FrontAnswers(len)
      BY OrderOf DEF RInv, QInv
    <3> QED
      BY <3>1, <2>1, Zenon
  <2>7. Abstract!Working /\ ~(Abstract!Fits(f) /\ (front \/ queue = <<>>))
    BY <2>1 DEF Abstract!Working, Abstract!Fits, Fits, MayTry, Rejecting
  <2>8. queue' = IF front THEN <<f>> \o queue ELSE Append(queue, f)
    BY <1>1, <1>4
  <2>9. f \notin Outstanding \cup Abstract!ToSet(queue)
    BY <2>2, <2>5 DEF Abstract!ToSet, ToSet
  <2>10. \E at \in [n \in Nat |-> FrontAnswers(n)][Len(queue)] :
           /\ ~(Abstract!Fits(f) /\ (at \/ queue = <<>>))
           /\ queue' = IF at THEN <<f>> \o queue ELSE Append(queue, f)
    BY <2>6, <2>7, <2>8, Zenon
  <2>11. UNCHANGED <<dead \cap ToSet(queue), Outstanding, avail, closed, poisoned>>
    BY <2>4, <2>5
  <2>12. Abstract!Join(f)
    BY <2>7, <2>9, <2>10, <2>11, Zenon DEF Abstract!Join
  <2> QED
    BY <2>5, <2>12 DEF Implements, Abstract!Next, Balances
<1> QED
  BY <1>3, <1>4
\* The node of f leaves the line, and its lost params with it.
LEMMA UnlinkRefines ==
  ASSUME RInv, NEW f \in Acquires, Unlink(f), fut[f] = "linked",
         NEW x \in Phases \ Held, fut' = [fut EXCEPT ![f] = x], dead' = dead \ {f},
         UNCHANGED <<stateVars, closed, poisoned>>
  PROVE  Abstract!Leave /\ Balances
<1>1. PICK i \in DOMAIN queue : queue[i] = f /\ queue' = RemoveAt(queue, i)
  BY DEF Unlink
<1>2. queue \in Seq(Acquires) /\ IsInjective(queue) /\ fut \in [Acquires -> Phases]
  BY Facts
<1>3. ToSet(queue') = ToSet(queue) \ {f}
  <2>1. ToSet(RemoveAt(queue, i)) = ToSet(queue) \ {queue[i]}
    BY <1>2, RemoveAtKeepsInjective, Zenon
  <2> QED
    BY <1>1, <2>1, Zenon
<1>4. dead' \cap ToSet(queue') = (dead \cap ToSet(queue)) \ {f}
  BY <1>3
<1>5. Outstanding' = Outstanding /\ PermitsOut' = PermitsOut
  BY <1>2, HeldSame DEF Held, PermitsOut, stateVars
<1>6. UNCHANGED <<Outstanding, avail, closed, poisoned>>
  BY <1>5 DEF stateVars
<1>7. Abstract!Leave
  BY <1>1, <1>4, <1>6 DEF Abstract!Leave, Abstract!RemoveAt, RemoveAt
<1> QED
  BY <1>5, <1>7 DEF Balances

\* The permit of f returns, whether its holder or its cancelled future gives it up.
LEMMA ReleaseRefines ==
  ASSUME RInv, NEW f \in Acquires, Release(f), fut[f] \in Held,
         NEW x \in Phases \ Held, fut' = [fut EXCEPT ![f] = x], dead' \in {dead, dead \ {f}},
         UNCHANGED <<queue, closed>>
  PROVE  Abstract!Return(f) /\ Balances
<1>1. /\ avail \in Nat /\ total \in Int /\ Need[f] \in Nat
      /\ fut \in [Acquires -> Phases] /\ f \notin dead
  BY Facts DEF Held
<1>2. f \in Outstanding /\ Outstanding' = Outstanding \ {f}
  BY <1>1, HeldShrinks
<1>3. avail' = avail + Need[f] /\ UNCHANGED <<total, poisoned>>
  BY DEF Release
<1>4. UNCHANGED <<queue, dead \cap ToSet(queue), closed, poisoned>>
  BY <1>1, <1>3
<1>5. PermitsOut' = PermitsOut - Need[f]
  BY <1>1, <1>3 DEF PermitsOut
<1> QED
  BY <1>2, <1>3, <1>4, <1>5 DEF Abstract!Return, Balances

\* Its release panics, and the permit is gone.
LEMMA ReleasePanicsRefines ==
  ASSUME RInv, NEW f \in Acquires, ReleasePanics(f), fut[f] \in Held,
         fut' = [fut EXCEPT ![f] = "none"], UNCHANGED <<queue, closed, dead>>
  PROVE  Abstract!Breakdown /\ Balances
<1>1. /\ avail \in Nat /\ total \in Int /\ Need[f] \in Nat
      /\ fut \in [Acquires -> Phases]
  BY Facts
<1>2. "none" \in Phases \ Held
  BY DEF Phases, Gone, Held
<1>3. f \in Outstanding /\ Outstanding' = Outstanding \ {f}
  BY <1>1, <1>2, HeldShrinks
<1>4. poisoned' = TRUE /\ avail' \in Nat /\ PermitsOut' = PermitsOut - Need[f]
  BY <1>1 DEF ReleasePanics, PermitsOut
<1> QED
  BY <1>3, <1>4 DEF Abstract!Breakdown, Balances

\* A future that was polled takes what it was given, or learns that the line is closed.
LEMMA PollReadyRefines ==
  ASSUME RInv, NEW f \in Acquires, PollReady(f) PROVE UNCHANGED Abstract!vars /\ Balances
<1>1. /\ fut[f] \in {"granted", "refused"}
      /\ fut' = [fut EXCEPT ![f] = IF fut[f] = "granted" THEN "permit" ELSE RefusedResult(f)]
      /\ dead' = dead \ {f}
      /\ UNCHANGED <<queue, closed, poisoned, avail, total>>
  BY DEF PollReady, listVars, flagVars, stateVars
<1>2. fut \in [Acquires -> Phases] /\ f \notin ToSet(queue)
  BY <1>1, Facts
<1>3. Outstanding' = Outstanding /\ PermitsOut' = PermitsOut
  BY <1>1, <1>2 DEF Outstanding, PermitsOut, RefusedResult
<1>4. Lost' = Lost
  BY <1>1, <1>2 DEF Lost
<1> QED
  BY <1>1, <1>3, <1>4, Invisible DEF Balances

\* A queued future leaves; one that was granted returns its permit; one that was sent
\* away has left before.
LEMMA DropAcquireRefines ==
  ASSUME RInv, NEW t \in Threads, NEW f \in Acquires, DropAcquire(t, f)
  PROVE  Implements /\ Balances
<1>1. /\ fut[f] \in {"linked", "granted", "refused"}
      /\ fut' = [fut EXCEPT ![f] = "none"] /\ dead' = dead \ {f}
      /\ UNCHANGED closed
  BY DEF DropAcquire
<1>2. "none" \in Phases \ Held
  BY DEF Phases, Gone, Held
<1>3. CASE fut[f] = "linked"
  <2>1. Unlink(f) /\ UNCHANGED <<poisoned, stateVars>>
    BY <1>3 DEF DropAcquire
  <2> QED
    BY <1>1, <1>2, <1>3, <2>1, UnlinkRefines DEF Implements, Abstract!Next
<1>4. CASE fut[f] = "granted"
  <2>1. Release(f) /\ UNCHANGED queue
    BY <1>4 DEF DropAcquire
  <2> QED
    BY <1>1, <1>2, <1>4, <2>1, ReleaseRefines DEF Implements, Abstract!Next, Held
<1>5. CASE fut[f] = "refused"
  <2>1. UNCHANGED <<poisoned, stateVars, queue>>
    BY <1>5 DEF DropAcquire
  <2>2. fut \in [Acquires -> Phases] /\ f \notin ToSet(queue)
    BY <1>5, Facts
  <2>3. Outstanding' = Outstanding
    BY <1>1, <1>2, <1>5, <2>2, HeldSame DEF Held
  <2>4. Lost' = Lost
    BY <1>1, <2>1, <2>2 DEF Lost
  <2> QED
    BY <1>1, <2>1, <2>3, <2>4, Invisible DEF Implements, Balances, PermitsOut, stateVars
<1> QED
  BY <1>1, <1>3, <1>4, <1>5
\* Ending a check, calling wakers and relocking do not show.
LEMMA ServingRefines ==
  ASSUME RInv, NEW t \in Threads,
         CheckEnds(t) \/ WakeNext(t) \/ WakePanics(t) \/ ServeMore(t)
  PROVE  UNCHANGED Abstract!vars /\ Balances
<1>1. UNCHANGED <<listVars, flagVars, stateVars, futVars>>
  BY DEF CheckEnds, WakeNext, WakePanics, ServeMore
<1>2. Outstanding' = Outstanding /\ Balances
  BY <1>1, NothingMoves DEF futVars
<1> QED
  BY <1>1, <1>2, Invisible DEF listVars, flagVars, stateVars, futVars, Lost

\* Nor do a spurious poll, and futures that the semaphore does not know yet or any more.
LEMMA BystandersRefine ==
  ASSUME RInv, NEW f \in Acquires,
         NewAcquire(f) \/ DropNew(f) \/ Forget(f) \/ \E w \in Wakers : PollPending(f, w)
  PROVE  UNCHANGED Abstract!vars /\ Balances
<1>1. UNCHANGED <<listVars, flagVars, stateVars, dead>>
  BY DEF NewAcquire, DropNew, Forget, PollPending, futVars
<1>2. \/ UNCHANGED fut
      \/ /\ fut[f] \in {"none", "new", "closed", "panicked"}
         /\ \E x \in {"none", "new"} : fut' = [fut EXCEPT ![f] = x]
  BY DEF NewAcquire, DropNew, Forget, PollPending, futVars
<1>3. Outstanding' = Outstanding
  BY <1>2, Facts DEF Outstanding
<1> QED
  BY <1>1, <1>3, Invisible DEF listVars, flagVars, stateVars, Lost, Balances, PermitsOut

\* The application changes its count, or breaks down doing so, or is declared sound.
LEMMA StateRefines ==
  ASSUME RInv, (\E t \in Threads : WithState(t)) \/ WithStatePanics \/ ClearPoison
  PROVE  Implements /\ Balances
<1>1. UNCHANGED <<queue, fut, dead, closed>>
  BY DEF WithState, WithStatePanics, ClearPoison, listVars, flagVars, futVars
<1>2. Outstanding' = Outstanding /\ Lost' = Lost
  BY <1>1 DEF Outstanding, Lost
<1>3. ASSUME NEW n \in StateWrites, Write(n) PROVE avail' \in Nat /\ PermitsOut' = PermitsOut
  BY <1>3, Facts, QueueAssumptions DEF Write, PermitsOut
<1>4. CASE \E t \in Threads : WithState(t)
  <2>1. UNCHANGED poisoned /\ \E n \in StateWrites : Write(n)
    BY <1>4 DEF WithState, flagVars
  <2>2. Abstract!Adjust
    BY <1>1, <1>2, <1>3, <2>1 DEF Abstract!Adjust, Lost
  <2> QED
    BY <1>2, <1>3, <2>1, <2>2 DEF Implements, Abstract!Next, Balances
<1>5. CASE WithStatePanics
  <2>1. poisoned' = TRUE /\ \E n \in StateWrites : Write(n)
    BY <1>5 DEF WithStatePanics
  <2>2. Abstract!Breakdown
    BY <1>1, <1>2, <1>3, <2>1 DEF Abstract!Breakdown, Lost
  <2> QED
    BY <1>2, <1>3, <2>1, <2>2 DEF Implements, Abstract!Next, Balances
<1>6. CASE ClearPoison
  <2>1. poisoned' = FALSE /\ UNCHANGED <<avail, total>>
    BY <1>6 DEF ClearPoison, stateVars
  <2>2. Abstract!Repair
    BY <1>1, <1>2, <2>1 DEF Abstract!Repair, Lost
  <2> QED
    BY <1>2, <2>1, <2>2 DEF Implements, Abstract!Next, Balances, PermitsOut
<1> QED
  BY <1>4, <1>5, <1>6

\* Permit::take keeps a permit, and out_of_thin_air brings one.
LEMMA ThinAirRefines ==
  ASSUME RInv, NEW f \in Acquires, TakePermit(f) \/ OutOfThinAir(f)
  PROVE  Implements /\ Balances
<1>1. /\ Need[f] \in Nat /\ avail \in Nat /\ total \in Int
      /\ fut \in [Acquires -> Phases]
  BY Facts
<1>2. UNCHANGED <<queue, dead, closed, poisoned, avail>>
  BY DEF TakePermit, OutOfThinAir, listVars, flagVars
<1>3. UNCHANGED <<queue, dead \cap ToSet(queue), closed, poisoned, avail>>
  BY <1>2
<1>4. CASE TakePermit(f)
  <2>1. f \in Outstanding /\ Outstanding' = Outstanding \ {f}
    BY <1>1, <1>4, HeldShrinks DEF TakePermit, Phases, Gone, Held
  <2>2. PermitsOut' = PermitsOut - Need[f]
    BY <1>1, <1>2, <1>4 DEF TakePermit, PermitsOut
  <2>3. Abstract!Keep(f)
    BY <2>1, <1>3 DEF Abstract!Keep
  <2> QED
    BY <2>1, <2>2, <2>3 DEF Implements, Abstract!Next, Balances
<1>5. CASE OutOfThinAir(f)
  <2>1. f \in Acquires \ Outstanding /\ Outstanding' = Outstanding \cup {f}
    BY <1>1, <1>5, HeldGrows DEF OutOfThinAir, Held
  <2>2. PermitsOut' = PermitsOut + Need[f]
    BY <1>1, <1>2, <1>5 DEF OutOfThinAir, PermitsOut
  <2>3. f \notin Outstanding \cup Abstract!ToSet(queue)
    BY <2>1, <1>5, Facts DEF OutOfThinAir, Abstract!ToSet, ToSet
  <2>4. Abstract!Bring(f)
    BY <2>1, <2>3, <1>3 DEF Abstract!Bring
  <2> QED
    BY <2>1, <2>2, <2>4 DEF Implements, Abstract!Next, Balances
<1> QED
  BY <1>4, <1>5

\* The remaining ways a future ends, or its permit.
LEMMA EndsRefine ==
  ASSUME RInv, NEW f \in Acquires,
         \/ PollClosing(f) \/ DropAcquirePanics(f) \/ DropPermitPanics(f)
         \/ \E t \in Threads : DropPermit(t, f)
  PROVE  Implements /\ Balances
<1>1. "none" \in Phases \ Held /\ RefusedResult(f) \in Phases \ Held
  BY DEF Phases, Gone, Held, RefusedResult
<1>2. CASE PollClosing(f)
  <2>1. /\ Unlink(f) /\ fut[f] = "linked"
        /\ fut' = [fut EXCEPT ![f] = RefusedResult(f)] /\ dead' = dead \ {f}
        /\ UNCHANGED <<stateVars, closed, poisoned>>
    BY <1>2 DEF PollClosing, flagVars
  <2> QED
    BY <1>1, <2>1, UnlinkRefines DEF Implements, Abstract!Next
<1>3. CASE DropAcquirePanics(f) \/ DropPermitPanics(f)
  <2>1. /\ ReleasePanics(f) /\ fut[f] \in Held
        /\ fut' = [fut EXCEPT ![f] = "none"] /\ UNCHANGED <<queue, closed, dead>>
    BY <1>3 DEF DropAcquirePanics, DropPermitPanics, listVars, Held
  <2> QED
    BY <2>1, ReleasePanicsRefines DEF Implements, Abstract!Next
<1>4. CASE \E t \in Threads : DropPermit(t, f)
  <2>1. /\ Release(f) /\ fut[f] \in Held
        /\ fut' = [fut EXCEPT ![f] = "none"] /\ UNCHANGED <<queue, closed, dead>>
    BY <1>4 DEF DropPermit, listVars, Held
  <2> QED
    BY <1>1, <2>1, ReleaseRefines DEF Implements, Abstract!Next
<1> QED
  BY <1>2, <1>3, <1>4

----------------------------------------------------------------------------
(* The theorems *)

\* Every step of the queue is a step of the semaphore, or none, and balances its permits.
LEMMA StepRefines == RInv /\ [Next]_vars => Implements /\ (Balances \/ UNCHANGED vars)
<1> SUFFICES ASSUME RInv, [Next]_vars PROVE Implements /\ (Balances \/ UNCHANGED vars)
  OBVIOUS
<1>1. ASSUME NEW t \in Threads, Grant(t) \/ CheckPanics(t) \/ Close(t)
      PROVE  Implements /\ Balances
  BY <1>1, GrantRefines, CheckPanicsRefines, CloseRefines DEF Implements, Abstract!Next
<1>2. ASSUME NEW t \in Threads, CheckEnds(t) \/ WakeNext(t) \/ WakePanics(t) \/ ServeMore(t)
      PROVE  Implements /\ Balances
  BY <1>2, ServingRefines DEF Implements
<1>3. ASSUME NEW f \in Acquires, NewAcquire(f) \/ DropNew(f) \/ Forget(f) \/ PollReady(f)
      PROVE  Implements /\ Balances
  BY <1>3, BystandersRefine, PollReadyRefines DEF Implements
<1>4. ASSUME NEW f \in Acquires, NEW w \in Wakers, FirstPoll(f, w) \/ PollPending(f, w)
      PROVE  Implements /\ Balances
  BY <1>4, FirstPollRefines, BystandersRefine DEF Implements
<1>5. ASSUME NEW f \in Acquires,
             \/ PollClosing(f) \/ DropAcquirePanics(f) \/ DropPermitPanics(f)
             \/ TakePermit(f) \/ OutOfThinAir(f)
             \/ \E t \in Threads : DropPermit(t, f) \/ DropAcquire(t, f)
      PROVE  Implements /\ Balances
  BY <1>5, EndsRefine, ThinAirRefines, DropAcquireRefines
<1>6. ASSUME NEW f \in Acquires, NEW fair \in TryModes, TryAcquire(f, fair)
      PROVE  Implements /\ Balances
  BY <1>6, TryAcquireRefines
<1>7. ASSUME (\E t \in Threads : WithState(t)) \/ WithStatePanics \/ ClearPoison
      PROVE  Implements /\ Balances
  BY <1>7, StateRefines
<1>8. CASE UNCHANGED vars
  <2>1. UNCHANGED <<queue, Lost, Outstanding, avail, closed, poisoned>>
    BY <1>8 DEF vars, listVars, flagVars, stateVars, futVars, Lost, Outstanding
  <2> QED
    BY <1>8, <2>1, Invisible DEF Implements
<1> QED
  BY <1>1, <1>2, <1>3, <1>4, <1>5, <1>6, <1>7, <1>8 DEF Next

\* An empty queue is an empty line.
LEMMA InitRefines == Init => Abstract!Init
<1> SUFFICES ASSUME Init PROVE Abstract!Init
  OBVIOUS
<1>1. /\ queue = <<>> /\ dead = {} /\ avail \in Nat /\ closed = FALSE /\ poisoned = FALSE
      /\ fut = [f \in Acquires |-> "none"]
  BY QueueAssumptions DEF Init
<1>2. Outstanding = {}
  BY <1>1 DEF Outstanding
<1> QED
  BY <1>1, <1>2 DEF Abstract!Init

\* The wait queue implements the semaphore its users are promised: whatever the
\* interleaving of polls, cancellations, releases, panics and closing, the leader of the
\* line is the only waiter served, nobody passes the line unless the order or an unfair
\* try says so, and a panic costs nobody but the one it hit.
THEOREM QueueImplementsSemaphore == Spec => ImplementsSemaphore
<1>1. RInv /\ [Next]_vars => [Abstract!Next]_Abstract!vars
  BY StepRefines DEF Implements
<1> QED
  BY <1>1, RInvInit, RInvStep, InitRefines, PTL DEF Spec, ImplementsSemaphore, Abstract!Spec

\* Every step balances: the count of the state moves by exactly the permit that is given
\* or that comes back (acquire.rs Acquire::drop and poll, permit.rs, with_queue).
THEOREM EveryStepBalances == Spec => BalancedStep
<1>1. RInv /\ [Next]_vars => [Balances]_vars
  BY StepRefines
<1> QED
  BY <1>1, RInvInit, RInvStep, PTL DEF Spec, BalancedStep

----------------------------------------------------------------------------
(* Conservation: every step balances, so the sum does *)

CInv == RInv /\ IsFiniteSet(Units(Need, Outstanding)) /\ PermitsConserved

\* A step that balances keeps the state's count equal to what is out.
LEMMA BalancesKeeps ==
  ASSUME CInv, Balances
  PROVE  IsFiniteSet(Units(Need, Outstanding')) /\ PermitsConserved'
<1>1. \A f \in Acquires : Need[f] \in Nat
  BY QueueAssumptions
<1>2. IsFiniteSet(Units(Need, Outstanding)) /\ PermitsOut = Total(Need, Outstanding)
  BY DEF CInv, PermitsConserved
<1>3. CASE Outstanding' = Outstanding /\ PermitsOut' = PermitsOut
  BY <1>2, <1>3 DEF PermitsConserved
<1>4. ASSUME NEW f \in Acquires \ Outstanding, Outstanding' = Outstanding \cup {f},
             PermitsOut' = PermitsOut + Need[f]
      PROVE  IsFiniteSet(Units(Need, Outstanding')) /\ PermitsConserved'
  <2>1. /\ IsFiniteSet(Units(Need, Outstanding \cup {f}))
        /\ Total(Need, Outstanding \cup {f}) = Total(Need, Outstanding) + Need[f]
    BY <1>1, <1>2, TotalWithOneMore
  <2> QED
    BY <1>2, <1>4, <2>1 DEF PermitsConserved
<1>5. ASSUME NEW f \in Outstanding, Outstanding' = Outstanding \ {f},
             PermitsOut' = PermitsOut - Need[f]
      PROVE  IsFiniteSet(Units(Need, Outstanding')) /\ PermitsConserved'
  <2> DEFINE S == Outstanding \ {f}
  <2>1. f \notin S /\ Outstanding = S \cup {f} /\ f \in Acquires
    BY DEF Outstanding
  <2>2. IsFiniteSet(Units(Need, S))
    BY <1>2, FS_Subset DEF Units
  <2> HIDE DEF S
  <2>3. Total(Need, Outstanding) = Total(Need, S) + Need[f]
    BY <1>1, <2>1, <2>2, TotalWithOneMore
  <2>4. Total(Need, S) \in Nat /\ Need[f] \in Nat
    BY <1>1, <2>1, <2>2, FS_CardinalityType DEF Total
  <2>5. PermitsOut' = Total(Need, S)
    BY <1>2, <1>5, <2>3, <2>4
  <2> QED
    BY <1>5, <2>2, <2>5 DEF PermitsConserved, S
<1> QED
  BY <1>3, <1>4, <1>5 DEF Balances

\* Whatever the path, and whoever cancels, panics or closes when: what the state has
\* given and not had back is what the futures and the application hold.
THEOREM EveryPermitIsKept == Spec => []PermitsConserved
<1>1. Init => CInv
  <2> SUFFICES ASSUME Init PROVE CInv
    OBVIOUS
  <2>1. Outstanding = {} /\ PermitsOut = 0
    BY QueueAssumptions DEF Init, Outstanding, PermitsOut
  <2> QED
    BY <2>1, RInvInit, TotalOfNone DEF CInv, PermitsConserved
<1>2. CInv /\ [Next]_vars => CInv'
  <2> SUFFICES ASSUME CInv, [Next]_vars PROVE CInv'
    OBVIOUS
  <2>1. RInv' /\ [Balances]_vars
    BY RInvStep, StepRefines DEF CInv
  <2>2. CASE Balances
    BY <2>1, <2>2, BalancesKeeps DEF CInv
  <2>3. CASE UNCHANGED vars
    <3>1. Outstanding' = Outstanding /\ PermitsOut' = PermitsOut
      BY <2>3 DEF vars, futVars, stateVars, Outstanding, PermitsOut
    <3> QED
      BY <2>1, <3>1 DEF CInv, PermitsConserved
  <2> QED
    BY <2>1, <2>2, <2>3
<1>3. CInv => PermitsConserved
  BY DEF CInv
<1> QED
  BY <1>1, <1>2, <1>3, PTL DEF Spec
=============================================================================
