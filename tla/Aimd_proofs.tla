---------------------------- MODULE Aimd_proofs ----------------------------
(***************************************************************************)
(* The adaptive limiter is a concurrency limit between its two bounds, for *)
(* any set of tasks, bounds and downstream: the feedback only ever sets    *)
(* the limit to a value between them, and what is proved of                *)
(* ConcurrencyLimit holds of it.                                           *)
(***************************************************************************)
EXTENDS Aimd, CommonFacts

InBounds == limit \in Low..High

\* A success raises the limit, and not above the upper bound.
LEMMA RaisedStaysInBounds ==
  ASSUME NEW l \in Low..High PROVE Raised(l) \in Low..High
<1>1. Low \in Nat /\ High \in Nat /\ l \in Int /\ Low <= l /\ l <= High
  BY AimdAssumptions
<1>2. Raised(l) = IF l + 1 <= High THEN l + 1 ELSE High
  BY <1>1, MinOfTwo DEF Raised
<1> QED
  BY <1>1, <1>2

\* A failure halves it, and not below the lower bound.
LEMMA CutStaysInBounds ==
  ASSUME NEW l \in Low..High PROVE Cut(l) \in Low..High
<1>1. Low \in Nat \ {0} /\ High \in Nat /\ l \in Nat /\ Low <= l /\ l <= High /\ 1 <= l
  BY AimdAssumptions
<1>2. (l + 1) \div 2 \in Int /\ (l + 1) \div 2 <= l
  BY <1>1
<1>3. Cut(l) = IF (l + 1) \div 2 <= Low THEN Low ELSE (l + 1) \div 2
  BY <1>1, <1>2, MaxOfTwo DEF Cut
<1> QED
  BY <1>1, <1>2, <1>3

\* What a step of the control loop is to the limit it drives.
LEMMA StepIsTheLimits ==
  ASSUME InBounds, [Next]_vars PROVE InBounds' /\ [Limit!Next]_Limit!vars
<1>1. CASE UNCHANGED vars
  BY <1>1 DEF vars, Limit!vars, InBounds
<1>2. ASSUME NEW t \in Tasks, Enter(t) PROVE InBounds' /\ Limit!Next
  <2>1. limit' = limit
    BY <1>2 DEF Enter, Limit!MustAcquire, Limit!Enqueue, Limit!Claim
  <2> QED
    BY <1>2, <2>1 DEF Enter, Limit!Next, InBounds
<1>3. ASSUME NEW t \in Tasks, GivesUp(t) PROVE InBounds' /\ Limit!Next
  BY <1>3 DEF GivesUp, Limit!Cancel, Limit!Next, InBounds
<1>4. ASSUME NEW t \in Tasks, Call(t) PROVE InBounds' /\ UNCHANGED Limit!vars
  BY <1>4 DEF Call, Limit!vars, InBounds
<1>5. ASSUME NEW t \in Tasks, Report(t) PROVE InBounds' /\ Limit!Next
  <2> DEFINE l == IF call[t] = "ok" THEN Raised(limit) ELSE Cut(limit)
  <2>1. l \in Low..High
    BY RaisedStaysInBounds, CutStaysInBounds DEF InBounds
  <2>2. Limit!SetLimit(l)
    BY <1>5 DEF Report
  <2> HIDE DEF l
  <2>3. limit' = l
    BY <2>2 DEF Limit!SetLimit
  <2> QED
    BY <2>1, <2>2, <2>3 DEF Limit!Next, InBounds
<1>6. ASSUME NEW t \in Tasks, Finish(t) PROVE InBounds' /\ Limit!Next
  <2>1. Limit!Finish(t) /\ limit' = limit
    BY <1>6 DEF Finish, Limit!Finish
  <2> QED
    BY <2>1 DEF Limit!Next, InBounds
<1> QED
  BY <1>1, <1>2, <1>3, <1>4, <1>5, <1>6 DEF Next

\* The limit starts between its bounds.
LEMMA InitIsTheLimits == Init => InBounds /\ Limit!Init
BY AimdAssumptions DEF Init, Limit!Init, InBounds

----------------------------------------------------------------------------
\* Whatever successes and failures are reported when, the limiter is a concurrency limit
\* between its bounds (aimd.rs on_success, on_failure, and acquire).
THEOREM AimdIsALimit == Spec => IsALimit
BY InitIsTheLimits, StepIsTheLimits, PTL DEF Spec, IsALimit, Limit!Spec

----------------------------------------------------------------------------
(* What is proved of ConcurrencyLimit holds of the limiter: its theorems, with the   *)
(* limiter's constants.  `Limit` and `Proved` are two instances of one module, and   *)
(* first the definitions of the one are shown to be those of the other.              *)

Proved == INSTANCE ConcurrencyLimit_proofs WITH
            Workers <- Tasks, InitLimit <- Start, Limits <- Low..High

\* The room and the service.
LEMMA SameService ==
  /\ \A n, l : Proved!Room(n, l) = Limit!Room(n, l)
  /\ \A n, q, t : Proved!Serve(n, q, t) <=> Limit!Serve(n, q, t)
<1>1. \A S : Proved!Max(S) = Limit!Max(S) /\ Proved!Min(S) = Limit!Min(S)
  BY DEF Proved!Max, Limit!Max, Proved!Min, Limit!Min
<1>2. \A n, l : Proved!Room(n, l) = Limit!Room(n, l)
  BY <1>1 DEF Proved!Room, Limit!Room
<1>3. ASSUME NEW n, NEW q, NEW t PROVE Proved!Serve(n, q, t) <=> Limit!Serve(n, q, t)
  BY <1>1, <1>2, Zenon DEF Proved!Serve, Limit!Serve
<1> QED
  BY <1>2, <1>3

\* The actions of a task.
LEMMA SameActions ==
  ASSUME NEW t
  PROVE  /\ Proved!MustAcquire(t) <=> Limit!MustAcquire(t)
         /\ Proved!Enqueue(t) <=> Limit!Enqueue(t)
         /\ Proved!Claim(t) <=> Limit!Claim(t)
         /\ Proved!Finish(t) <=> Limit!Finish(t)
         /\ Proved!Cancel(t) <=> Limit!Cancel(t)
<1>1. Proved!MustAcquire(t) <=> Limit!MustAcquire(t)
  BY SameService, Zenon DEF Proved!MustAcquire, Limit!MustAcquire
<1>2. Proved!Enqueue(t) <=> Limit!Enqueue(t)
  BY SameService, Zenon DEF Proved!Enqueue, Limit!Enqueue, Proved!Joined, Limit!Joined
<1>3. Proved!Claim(t) <=> Limit!Claim(t)
  BY Zenon DEF Proved!Claim, Limit!Claim
<1>4. Proved!Finish(t) <=> Limit!Finish(t)
  BY SameService, Zenon DEF Proved!Finish, Limit!Finish
<1>5. Proved!Without(t) = Limit!Without(t) /\ Proved!Returned(t) = Limit!Returned(t)
  BY Zenon DEF Proved!Without, Limit!Without, Proved!Returned, Limit!Returned,
               Proved!RemoveAt, Limit!RemoveAt
<1>6. Proved!Cancel(t) <=> Limit!Cancel(t)
  BY <1>5, SameService, Zenon DEF Proved!Cancel, Limit!Cancel
<1> QED
  BY <1>1, <1>2, <1>3, <1>4, <1>6

\* The initial states and the steps.
LEMMA SameSpec ==
  /\ Proved!Init <=> Limit!Init
  /\ [Proved!Next]_Proved!vars <=> [Limit!Next]_Limit!vars
<1>1. Proved!Init <=> Limit!Init
  BY DEF Proved!Init, Limit!Init
<1>2. \A l : Proved!SetLimit(l) <=> Limit!SetLimit(l)
  BY SameService, Zenon DEF Proved!SetLimit, Limit!SetLimit
<1>3. Proved!Next <=> Limit!Next
  BY <1>2, SameActions DEF Proved!Next, Limit!Next
<1> QED
  BY <1>1, <1>3 DEF Proved!vars, Limit!vars

\* The adaptive limiter keeps what a concurrency limit promises: its count is the number of
\* permits out, nobody waits while there is room, and nobody starts above the limit of the
\* moment, however the feedback moves it and whoever gives up (aimd.rs acquire, release,
\* on_success and on_failure).
THEOREM AimdKeepsThePromise ==
  Spec => /\ []Proved!InFlightExact
          /\ []Proved!WaitsOnlyWhenFull
          /\ Proved!NoneStartsAboveLimit
<1>1. /\ Proved!IsFiniteSet(Tasks)
      /\ Start \in Nat
      /\ Low..High \subseteq Nat
  <2>1. Proved!IsFiniteSet(Tasks)
    BY AimdAssumptions DEF Proved!IsFiniteSet, IsFiniteSet
  <2> QED
    BY <2>1, AimdAssumptions
<1>2. Proved!Spec => /\ []Proved!InFlightExact
                     /\ []Proved!WaitsOnlyWhenFull
                     /\ Proved!NoneStartsAboveLimit
  BY <1>1, Proved!CountIsExact, Proved!NoIdleWaiting, Proved!LimitIsKept, PTL
<1> QED
  BY <1>2, SameSpec, AimdIsALimit, PTL DEF IsALimit, Limit!Spec, Proved!Spec
=============================================================================
