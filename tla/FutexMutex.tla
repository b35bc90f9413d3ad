----------------------------- MODULE FutexMutex -----------------------------
(***************************************************************************)
(* The lock every queue operation takes: flag-bearer-mutex/src/futex.rs.   *)
(*                                                                         *)
(* The futex word is one atomic; each access to it is one step here.  A    *)
(* process is a thread that calls lock, try_lock and unlock.  FUTEX_WAIT   *)
(* and FUTEX_WAKE are modelled from the way futex.rs uses them: WAIT       *)
(* compares the word with CONTENDED and sleeps in one step, may return for *)
(* no reason, and WAKE wakes one sleeper of the kernel's choice.           *)
(***************************************************************************)
EXTENDS Naturals

CONSTANTS
  Procs,      \* the threads
  SpinLimit   \* loads the spin makes after the first one, 4 in the code

ASSUME SpinLimitAssumption == SpinLimit \in Nat

UNLOCKED == 0
LOCKED == 1
CONTENDED == 2

Words == {UNLOCKED, LOCKED, CONTENDED}

VARIABLES
  word,   \* RawMutex::state
  pc,     \* where each thread is
  spins   \* spin's countdown

vars == <<word, pc, spins>>

(***************************************************************************)
(* Places: "out" (not in the mutex), "spin_first" and "spin_again" (the    *)
(* two calls of spin), "cas" (the attempt after the first spin), "swap"    *)
(* (head of the loop, the last value read is not CONTENDED), "wait" (about *)
(* to enter FUTEX_WAIT), "sleep" (blocked in it), "held" (owns the lock)   *)
(* and "wake" (unlocked a contended word, about to call FUTEX_WAKE).       *)
(* lock_contended's local `state` only decides between these places.       *)
(***************************************************************************)
Places == {"out", "spin_first", "cas", "swap", "wait", "sleep", "spin_again",
           "held", "wake"}

Sleepers == {p \in Procs : pc[p] = "sleep"}

Goto(p, place) == pc' = [pc EXCEPT ![p] = place]

Init == /\ word = UNLOCKED
        /\ pc = [p \in Procs |-> "out"]
        /\ spins = [p \in Procs |-> SpinLimit]

----------------------------------------------------------------------------
(* lock and try_lock *)

\* Variant of CasTakes that compares with the wrong value; used to check that the
\* properties notice it.
CasTakesLocked(w) == w # CONTENDED

\* What compare_exchange(UNLOCKED, LOCKED) requires of the word.
CasTakes(w) == w = UNLOCKED

\* The compare_exchange_weak of lock, or the one of try_lock, succeeds.  A try_lock
\* that fails changes nothing.
LockAtOnce(p) == /\ pc[p] = "out"
                 /\ CasTakes(word)
                 /\ word' = LOCKED
                 /\ Goto(p, "held")
                 /\ UNCHANGED spins

\* compare_exchange_weak fails: the word is not UNLOCKED, or for no reason.
LockSlow(p) == /\ pc[p] = "out"
               /\ Goto(p, "spin_first")
               /\ spins' = [spins EXCEPT ![p] = SpinLimit]
               /\ UNCHANGED word

Spinning(p) == pc[p] \in {"spin_first", "spin_again"}

\* The countdown has not run out.
SpinsLeft(n) == n > 0

\* A load that finds LOCKED while the countdown lasts.
SpinOn(p) == /\ Spinning(p)
             /\ word = LOCKED
             /\ SpinsLeft(spins[p])
             /\ spins' = [spins EXCEPT ![p] = @ - 1]
             /\ UNCHANGED <<word, pc>>

\* Where the loop of lock_contended continues with the value w just read.
LoopWith(w) == IF w = CONTENDED THEN "wait" ELSE "swap"

\* The load that ends a spin.  Only the first spin is followed by an attempt to
\* lock without marking the word contended.
SpinEnd(p) ==
  /\ Spinning(p)
  /\ word # LOCKED \/ ~SpinsLeft(spins[p])
  /\ Goto(p, IF pc[p] = "spin_first" /\ word = UNLOCKED THEN "cas" ELSE LoopWith(word))
  /\ UNCHANGED <<word, spins>>

CasOk(p) == /\ pc[p] = "cas"
            /\ CasTakes(word)
            /\ word' = LOCKED
            /\ Goto(p, "held")
            /\ UNCHANGED spins

CasFails(p) == /\ pc[p] = "cas"
               /\ ~CasTakes(word)
               /\ Goto(p, LoopWith(word))
               /\ UNCHANGED <<word, spins>>

\* Variant of MarkedWord that takes the lock without marking it contended; used
\* to check that the properties notice it.
MarkedWordUncontended(w) == IF w = UNLOCKED THEN LOCKED ELSE CONTENDED

\* What the swap at the head of the loop stores over the word w.
MarkedWord(w) == CONTENDED

\* swap(CONTENDED): it locks when the word was UNLOCKED and otherwise goes to sleep.
Swap(p) == /\ pc[p] = "swap"
           /\ word' = MarkedWord(word)
           /\ Goto(p, IF word = UNLOCKED THEN "held" ELSE "wait")
           /\ UNCHANGED spins

\* Variant of WouldSleep that sleeps without comparing the word; used to check
\* that the properties notice it.
WouldSleepAlways(w) == w \in Words

\* The futex's comparison of the word with the expected value.
WouldSleep(w) == w = CONTENDED

\* FUTEX_WAIT: the comparison and the sleep are one step.
FutexSleep(p) == /\ pc[p] = "wait"
                 /\ WouldSleep(word)
                 /\ Goto(p, "sleep")
                 /\ UNCHANGED <<word, spins>>

\* FUTEX_WAIT returns without sleeping (EAGAIN), or a sleeper returns though
\* nobody woke it (EINTR); both spin again.
SpinAgain(p) == /\ \/ pc[p] = "wait" /\ ~WouldSleep(word)
                   \/ pc[p] = "sleep"
                /\ Goto(p, "spin_again")
                /\ spins' = [spins EXCEPT ![p] = SpinLimit]
                /\ UNCHANGED word

----------------------------------------------------------------------------
(* unlock *)

\* The value swapped out that obliges unlock to wake a sleeper.
MustWake(w) == w = CONTENDED

Unlock(p) == /\ pc[p] = "held"
             /\ word' = UNLOCKED
             /\ Goto(p, IF MustWake(word) THEN "wake" ELSE "out")
             /\ UNCHANGED spins

\* FUTEX_WAKE with a sleeper: one is woken and spins again.
WakeOne(p, q) == /\ pc[p] = "wake"
                 /\ pc[q] = "sleep"
                 /\ pc' = [pc EXCEPT ![p] = "out", ![q] = "spin_again"]
                 /\ spins' = [spins EXCEPT ![q] = SpinLimit]
                 /\ UNCHANGED word

\* FUTEX_WAKE with no sleeper.
WakeNone(p) == /\ pc[p] = "wake"
               /\ Sleepers = {}
               /\ Goto(p, "out")
               /\ UNCHANGED <<word, spins>>

----------------------------------------------------------------------------
Wake(p) == WakeNone(p) \/ \E q \in Procs : WakeOne(p, q)

\* The steps a thread that has called lock makes until it holds the lock; a
\* sleeper's spurious return is not among them.
Contend(p) == \/ SpinOn(p) \/ SpinEnd(p) \/ CasOk(p) \/ CasFails(p) \/ Swap(p)
              \/ FutexSleep(p)
              \/ pc[p] = "wait" /\ SpinAgain(p)

Step(p) == \/ LockAtOnce(p) \/ LockSlow(p)
           \/ SpinOn(p) \/ SpinEnd(p) \/ CasOk(p) \/ CasFails(p) \/ Swap(p)
           \/ FutexSleep(p) \/ SpinAgain(p)
           \/ Unlock(p) \/ WakeNone(p)
           \/ \E q \in Procs : WakeOne(p, q)

Next == \E p \in Procs : Step(p)

Spec == Init /\ [][Next]_vars

(***************************************************************************)
(* A running thread is scheduled, and a thread that holds the lock unlocks *)
(* it: critical sections of the queue do not block.  Nothing obliges a     *)
(* thread to call lock, and a sleeper is never assumed to wake by itself.  *)
(***************************************************************************)
Fairness == \A p \in Procs : WF_vars(Contend(p)) /\ WF_vars(Unlock(p)) /\ WF_vars(Wake(p))

LiveSpec == Spec /\ Fairness

----------------------------------------------------------------------------
TypeOK == /\ word \in Words
          /\ pc \in [Procs -> Places]
          /\ spins \in [Procs -> 0..SpinLimit]

\* The word is UNLOCKED exactly while nobody holds the lock, which is what the
\* fast path, the second attempt and the swap all rely on when they read it.
WordTracksOwner == (word = UNLOCKED) <=> \A p \in Procs : pc[p] # "held"

\* At most one thread is between lock and unlock (futex.rs as a RawMutex).
MutualExclusion == \A p, q \in Procs : pc[p] = "held" /\ pc[q] = "held" => p = q

\* A thread that will either mark the word CONTENDED, or lock it as CONTENDED,
\* before it can sleep or leave.
WillMark(p) == pc[p] \in {"swap", "wait", "spin_again"}

\* The comment of unlock, futex.rs:44-47: no sleeper is forgotten.  While a thread
\* sleeps, the owner will wake one (CONTENDED), a wake is under way, or an awake
\* contender is about to mark the word.
NoSleeperForgotten == Sleepers # {} => \/ word = CONTENDED
                                       \/ \E p \in Procs : pc[p] = "wake"
                                       \/ \E p \in Procs : WillMark(p)

Contending(p) == pc[p] \in {"spin_first", "cas", "swap", "wait", "sleep", "spin_again"}

\* While somebody waits for the lock, somebody gets it: no sleeper is left behind
\* by a free lock and contenders do not block each other.
SomebodyLocks == (\E p \in Procs : Contending(p)) ~> (\E p \in Procs : pc[p] = "held")

\* The abstract mutex sees only who waits and who holds.
PhaseOf(place) == CASE place \in {"out", "wake"} -> "out"
                    [] place = "held" -> "holding"
                    [] OTHER -> "waiting"

Abstract == INSTANCE Mutex WITH phase <- [p \in Procs |-> PhaseOf(pc[p])]

\* Every step of the futex mutex is a step of the abstract mutex, or none.
ImplementsMutex == Abstract!Spec
=============================================================================
