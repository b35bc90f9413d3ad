------------------------- MODULE FutexMutex_proofs --------------------------
(***************************************************************************)
(* The futex mutex for every set of threads and every spin limit: typing,  *)
(* mutual exclusion, no forgotten sleeper, and that it implements Mutex.   *)
(***************************************************************************)
EXTENDS FutexMutex, TLAPS

\* The inductive invariant: mutual exclusion needs to know that the word is not
\* UNLOCKED while the lock is held, and the converse keeps the word exact when the
\* only owner leaves.
Owned == TypeOK /\ WordTracksOwner /\ MutualExclusion

\* Every variable has its type at every state (the fields and locals of futex.rs).
THEOREM Typing == Spec => []TypeOK
<1>1. Init => TypeOK
  BY SpinLimitAssumption DEF Init, TypeOK, Words, UNLOCKED, LOCKED, CONTENDED, Places
<1>2. TypeOK /\ [Next]_vars => TypeOK'
  <2> SUFFICES ASSUME TypeOK, [Next]_vars
               PROVE  TypeOK'
    OBVIOUS
  <2> USE SpinLimitAssumption DEF TypeOK, Words, UNLOCKED, LOCKED, CONTENDED, Places, Goto
  <2>1. ASSUME NEW p \in Procs, LockAtOnce(p) PROVE TypeOK'
    BY <2>1 DEF LockAtOnce
  <2>2. ASSUME NEW p \in Procs, LockSlow(p) PROVE TypeOK'
    BY <2>2 DEF LockSlow
  <2>3. ASSUME NEW p \in Procs, SpinOn(p) PROVE TypeOK'
    BY <2>3 DEF SpinOn, SpinsLeft
  <2>4. ASSUME NEW p \in Procs, SpinEnd(p) PROVE TypeOK'
    BY <2>4 DEF SpinEnd, LoopWith
  <2>5. ASSUME NEW p \in Procs, CasOk(p) PROVE TypeOK'
    BY <2>5 DEF CasOk
  <2>6. ASSUME NEW p \in Procs, CasFails(p) PROVE TypeOK'
    BY <2>6 DEF CasFails, LoopWith
  <2>7. ASSUME NEW p \in Procs, Swap(p) PROVE TypeOK'
    BY <2>7 DEF Swap, MarkedWord
  <2>8. ASSUME NEW p \in Procs, FutexSleep(p) PROVE TypeOK'
    BY <2>8 DEF FutexSleep
  <2>9. ASSUME NEW p \in Procs, SpinAgain(p) PROVE TypeOK'
    BY <2>9 DEF SpinAgain
  <2>10. ASSUME NEW p \in Procs, Unlock(p) PROVE TypeOK'
    BY <2>10 DEF Unlock
  <2>11. ASSUME NEW p \in Procs, WakeNone(p) PROVE TypeOK'
    BY <2>11 DEF WakeNone
  <2>12. ASSUME NEW p \in Procs, NEW q \in Procs, WakeOne(p, q) PROVE TypeOK'
    BY <2>12 DEF WakeOne
  <2>13. CASE UNCHANGED vars
    BY <2>13 DEF vars
  <2> QED
    BY <2>1, <2>2, <2>3, <2>4, <2>5, <2>6, <2>7, <2>8, <2>9, <2>10, <2>11, <2>12, <2>13
    DEF Next, Step
<1> QED
  BY <1>1, <1>2, PTL DEF Spec

\* One step keeps the inductive invariant.
LEMMA OwnedStep == Owned /\ TypeOK' /\ [Next]_vars => Owned'
<1> SUFFICES ASSUME Owned, TypeOK', [Next]_vars
             PROVE  WordTracksOwner' /\ MutualExclusion'
  BY DEF Owned
<1> USE DEF Owned, TypeOK, WordTracksOwner, MutualExclusion, Words, UNLOCKED, LOCKED,
            CONTENDED, Goto
<1>1. ASSUME NEW p \in Procs, LockAtOnce(p) PROVE WordTracksOwner' /\ MutualExclusion'
  BY <1>1 DEF LockAtOnce, CasTakes
<1>2. ASSUME NEW p \in Procs, LockSlow(p) PROVE WordTracksOwner' /\ MutualExclusion'
  BY <1>2 DEF LockSlow
<1>3. ASSUME NEW p \in Procs, SpinOn(p) PROVE WordTracksOwner' /\ MutualExclusion'
  BY <1>3 DEF SpinOn
<1>4. ASSUME NEW p \in Procs, SpinEnd(p) PROVE WordTracksOwner' /\ MutualExclusion'
  BY <1>4 DEF SpinEnd, Spinning, LoopWith
<1>5. ASSUME NEW p \in Procs, CasOk(p) PROVE WordTracksOwner' /\ MutualExclusion'
  BY <1>5 DEF CasOk, CasTakes
<1>6. ASSUME NEW p \in Procs, CasFails(p) PROVE WordTracksOwner' /\ MutualExclusion'
  BY <1>6 DEF CasFails, LoopWith
<1>7. ASSUME NEW p \in Procs, Swap(p) PROVE WordTracksOwner' /\ MutualExclusion'
  BY <1>7 DEF Swap, MarkedWord
<1>8. ASSUME NEW p \in Procs, FutexSleep(p) PROVE WordTracksOwner' /\ MutualExclusion'
  BY <1>8 DEF FutexSleep
<1>9. ASSUME NEW p \in Procs, SpinAgain(p) PROVE WordTracksOwner' /\ MutualExclusion'
  BY <1>9 DEF SpinAgain
<1>10. ASSUME NEW p \in Procs, Unlock(p) PROVE WordTracksOwner' /\ MutualExclusion'
  BY <1>10 DEF Unlock
<1>11. ASSUME NEW p \in Procs, WakeNone(p) PROVE WordTracksOwner' /\ MutualExclusion'
  BY <1>11 DEF WakeNone
<1>12. ASSUME NEW p \in Procs, NEW q \in Procs, WakeOne(p, q)
       PROVE  WordTracksOwner' /\ MutualExclusion'
  BY <1>12 DEF WakeOne
<1>13. CASE UNCHANGED vars
  BY <1>13 DEF vars
<1> QED
  BY <1>1, <1>2, <1>3, <1>4, <1>5, <1>6, <1>7, <1>8, <1>9, <1>10, <1>11, <1>12, <1>13
  DEF Next, Step

\* The inductive invariant holds at every state.
THEOREM AlwaysOwned == Spec => []Owned
<1>1. Init => Owned
  BY SpinLimitAssumption
  DEF Init, Owned, TypeOK, WordTracksOwner, MutualExclusion, Words, UNLOCKED, LOCKED,
      CONTENDED, Places
<1> QED
  BY <1>1, Typing, OwnedStep, PTL DEF Spec

\* At most one thread is between lock and unlock of futex.rs.
THEOREM Exclusion == Spec => []MutualExclusion
<1>1. Owned => MutualExclusion
  BY DEF Owned
<1> QED
  BY <1>1, AlwaysOwned, PTL

\* The word is UNLOCKED exactly while nobody holds the lock.
THEOREM WordExact == Spec => []WordTracksOwner
<1>1. Owned => WordTracksOwner
  BY DEF Owned
<1> QED
  BY <1>1, AlwaysOwned, PTL

----------------------------------------------------------------------------
\* The comment of unlock: while a thread sleeps, the owner will wake one, a wake is
\* under way, or an awake contender is about to mark the word.
THEOREM NobodyForgotten == Spec => []NoSleeperForgotten
<1>1. Init => NoSleeperForgotten
  BY DEF Init, NoSleeperForgotten, Sleepers
<1>2. Owned /\ NoSleeperForgotten /\ [Next]_vars => NoSleeperForgotten'
  <2> SUFFICES ASSUME Owned, NoSleeperForgotten, [Next]_vars
               PROVE  NoSleeperForgotten'
    OBVIOUS
  <2> USE DEF Owned, TypeOK, NoSleeperForgotten, Sleepers, WillMark, Words, UNLOCKED,
              LOCKED, CONTENDED, Goto
  <2>1. ASSUME NEW p \in Procs, LockAtOnce(p) PROVE NoSleeperForgotten'
    BY <2>1 DEF LockAtOnce, CasTakes
  <2>2. ASSUME NEW p \in Procs, LockSlow(p) PROVE NoSleeperForgotten'
    BY <2>2 DEF LockSlow
  <2>3. ASSUME NEW p \in Procs, SpinOn(p) PROVE NoSleeperForgotten'
    BY <2>3 DEF SpinOn
  <2>4. ASSUME NEW p \in Procs, SpinEnd(p) PROVE NoSleeperForgotten'
    BY <2>4 DEF SpinEnd, Spinning, LoopWith
  <2>5. ASSUME NEW p \in Procs, CasOk(p) PROVE NoSleeperForgotten'
    BY <2>5 DEF CasOk, CasTakes
  <2>6. ASSUME NEW p \in Procs, CasFails(p) PROVE NoSleeperForgotten'
    BY <2>6 DEF CasFails, CasTakes, LoopWith
  <2>7. ASSUME NEW p \in Procs, Swap(p) PROVE NoSleeperForgotten'
    BY <2>7 DEF Swap, MarkedWord
  <2>8. ASSUME NEW p \in Procs, FutexSleep(p) PROVE NoSleeperForgotten'
    BY <2>8 DEF FutexSleep, WouldSleep
  <2>9. ASSUME NEW p \in Procs, SpinAgain(p) PROVE NoSleeperForgotten'
    BY <2>9 DEF SpinAgain
  <2>10. ASSUME NEW p \in Procs, Unlock(p) PROVE NoSleeperForgotten'
    BY <2>10 DEF Unlock, MustWake
  <2>11. ASSUME NEW p \in Procs, WakeNone(p) PROVE NoSleeperForgotten'
    BY <2>11 DEF WakeNone
  <2>12. ASSUME NEW p \in Procs, NEW q \in Procs, WakeOne(p, q)
         PROVE  NoSleeperForgotten'
    BY <2>12 DEF WakeOne
  <2>13. CASE UNCHANGED vars
    BY <2>13 DEF vars
  <2> QED
    BY <2>1, <2>2, <2>3, <2>4, <2>5, <2>6, <2>7, <2>8, <2>9, <2>10, <2>11, <2>12, <2>13
    DEF Next, Step
<1> QED
  BY <1>1, <1>2, AlwaysOwned, PTL DEF Spec
----------------------------------------------------------------------------
\* A step of the futex mutex is a step of the abstract mutex or leaves its phases
\* alone.  Exclusion's invariant supplies the abstract guard Free from the word.
LEMMA StepImplementsMutex ==
  Owned /\ [Next]_vars => [Abstract!Next]_Abstract!vars
<1> DEFINE ph == [p \in Procs |-> PhaseOf(pc[p])]
<1> SUFFICES ASSUME Owned, [Next]_vars
             PROVE  [Abstract!Next]_Abstract!vars
  OBVIOUS
<1>a. /\ pc \in [Procs -> Places]
      /\ word = UNLOCKED => Abstract!Free
  BY DEF Owned, TypeOK, WordTracksOwner, Abstract!Free, PhaseOf, Places
<1>b. ASSUME NEW p \in Procs, NEW place \in Places, Goto(p, place)
      PROVE  ph' = [ph EXCEPT ![p] = PhaseOf(place)]
  BY <1>a, <1>b DEF Goto
<1>c. ASSUME ph' = ph PROVE Abstract!vars' = Abstract!vars
  BY <1>c DEF Abstract!vars
<1>d. ASSUME NEW p \in Procs, NEW place \in Places, Goto(p, place),
             PhaseOf(place) = PhaseOf(pc[p])
      PROVE  [Abstract!Next]_Abstract!vars
  <2>1. ph' = ph
    BY <1>a, <1>b, <1>d
  <2> QED
    BY <2>1, <1>c
<1>e. ASSUME NEW p \in Procs, Goto(p, "held"), word = UNLOCKED, pc[p] # "held"
      PROVE  [Abstract!Next]_Abstract!vars
  <2>1. "held" \in Places /\ PhaseOf("held") = "holding"
    BY DEF Places, PhaseOf
  <2>2. ph' = [ph EXCEPT ![p] = "holding"]
    BY <2>1, <1>b, <1>e
  <2>3. ph[p] \in {"out", "waiting"}
    BY <1>a, <1>e DEF Places, PhaseOf
  <2>4. Abstract!Take(p) \/ Abstract!Grant(p)
    BY <2>2, <2>3, <1>a, <1>e DEF Abstract!Take, Abstract!Grant
  <2> QED
    BY <2>4 DEF Abstract!Next
<1>1. ASSUME NEW p \in Procs, LockAtOnce(p) PROVE [Abstract!Next]_Abstract!vars
  BY <1>1, <1>e DEF LockAtOnce, CasTakes
<1>2. ASSUME NEW p \in Procs, LockSlow(p) PROVE [Abstract!Next]_Abstract!vars
  <2>1. ph' = [ph EXCEPT ![p] = "waiting"] /\ ph[p] = "out"
    BY <1>2, <1>a, <1>b DEF LockSlow, Places, PhaseOf
  <2>2. Abstract!Request(p)
    BY <2>1 DEF Abstract!Request
  <2> QED
    BY <2>2 DEF Abstract!Next
<1>3. ASSUME NEW p \in Procs, SpinOn(p) PROVE [Abstract!Next]_Abstract!vars
  BY <1>3, <1>c DEF SpinOn
<1>4. ASSUME NEW p \in Procs, SpinEnd(p) PROVE [Abstract!Next]_Abstract!vars
  BY <1>4, <1>d DEF SpinEnd, Spinning, LoopWith, Places, PhaseOf
<1>5. ASSUME NEW p \in Procs, CasOk(p) PROVE [Abstract!Next]_Abstract!vars
  BY <1>5, <1>e DEF CasOk, CasTakes
<1>6. ASSUME NEW p \in Procs, CasFails(p) PROVE [Abstract!Next]_Abstract!vars
  BY <1>6, <1>d DEF CasFails, LoopWith, Places, PhaseOf
<1>7. ASSUME NEW p \in Procs, Swap(p) PROVE [Abstract!Next]_Abstract!vars
  <2>1. CASE word = UNLOCKED
    BY <2>1, <1>7, <1>e DEF Swap
  <2>2. CASE word # UNLOCKED
    BY <2>2, <1>7, <1>d DEF Swap, Places, PhaseOf
  <2> QED
    BY <2>1, <2>2
<1>8. ASSUME NEW p \in Procs, FutexSleep(p) PROVE [Abstract!Next]_Abstract!vars
  BY <1>8, <1>d DEF FutexSleep, Places, PhaseOf
<1>9. ASSUME NEW p \in Procs, SpinAgain(p) PROVE [Abstract!Next]_Abstract!vars
  BY <1>9, <1>d DEF SpinAgain, Places, PhaseOf
<1>10. ASSUME NEW p \in Procs, Unlock(p) PROVE [Abstract!Next]_Abstract!vars
  <2>1. ph' = [ph EXCEPT ![p] = "out"] /\ ph[p] = "holding"
    BY <1>10, <1>a, <1>b DEF Unlock, Places, PhaseOf
  <2>2. Abstract!Release(p)
    BY <2>1 DEF Abstract!Release
  <2> QED
    BY <2>2 DEF Abstract!Next
<1>11. ASSUME NEW p \in Procs, WakeNone(p) PROVE [Abstract!Next]_Abstract!vars
  BY <1>11, <1>d DEF WakeNone, Places, PhaseOf
<1>12. ASSUME NEW p \in Procs, NEW q \in Procs, WakeOne(p, q)
       PROVE  [Abstract!Next]_Abstract!vars
  <2>1. \A r \in Procs : PhaseOf(pc'[r]) = PhaseOf(pc[r])
    BY <1>12, <1>a DEF WakeOne, PhaseOf
  <2>2. ph' = ph
    BY <2>1
  <2> QED
    BY <2>2, <1>c
<1>13. CASE UNCHANGED vars
  BY <1>13, <1>c DEF vars
<1> QED
  BY <1>1, <1>2, <1>3, <1>4, <1>5, <1>6, <1>7, <1>8, <1>9, <1>10, <1>11, <1>12, <1>13
  DEF Next, Step

\* The futex mutex implements the abstract mutex: whoever relies only on Mutex may
\* use futex.rs, which is why the queue's critical sections are single steps.
THEOREM Implementation == Spec => ImplementsMutex
<1>1. Init => Abstract!Init
  BY DEF Init, Abstract!Init, PhaseOf
<1> QED
  BY <1>1, StepImplementsMutex, AlwaysOwned, PTL DEF Spec, ImplementsMutex, Abstract!Spec
=============================================================================
