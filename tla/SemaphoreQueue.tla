--------------------------- MODULE SemaphoreQueue ---------------------------
(***************************************************************************)
(* The wait queue of the semaphore: flag-bearer-queue/src/lib.rs and       *)
(* acquire.rs, with the permits of flag-bearer/src/permit.rs that return   *)
(* to it.                                                                  *)
(*                                                                         *)
(* One lock guards the queue, so a critical section is one step, unless it *)
(* calls user code more than once: `check` holds the lock over several     *)
(* steps, one per waiter it serves.  What runs without the lock (calling   *)
(* wakers, relocking for the next batch) is a step of its own, and so a    *)
(* waker that re-enters the queue is another thread's step in between.     *)
(***************************************************************************)
EXTENDS Integers, FiniteSets, SequencesExt, Totals

CONSTANTS
  Acquires,      \* slots for Acquire futures; a slot is used again when its future is gone
  Threads,       \* calls of with_queue or close that can be under way at once
  Wakers,        \* the wakers a task may be polled with
  Need,          \* the permits each future asks for: its Params, and its Permit
  InitPermits,   \* permits in the application state at first
  MaxPermits,    \* bound on the permits the application ever has
  BatchCap,      \* capacity of a WakeBatch, 32 in the code
  Closeable,     \* C::CLOSE
  OrderPolicy,   \* "Fifo", "Lifo", "Hybrid" or "Custom"
  LifoAbove,     \* Hybrid::lifo_above
  TryModes,      \* the values of try_acquire's `fair` the application uses
  StateWrites,   \* the permit counts a with_state closure may leave behind
  ThinAir,       \* whether the application uses Permit::take and out_of_thin_air
  Panics         \* which user code may panic: a subset of {"acquire", "state", "waker", "order"}

ASSUME QueueAssumptions ==
  /\ Need \in [Acquires -> Nat]
  /\ InitPermits \in Nat /\ MaxPermits \in Nat /\ InitPermits <= MaxPermits
  /\ BatchCap \in Nat \ {0}
  /\ Closeable \in BOOLEAN /\ ThinAir \in BOOLEAN
  /\ OrderPolicy \in {"Fifo", "Lifo", "Hybrid", "Custom"}
  /\ LifoAbove \in Nat
  /\ TryModes \subseteq BOOLEAN
  /\ StateWrites \subseteq 0..MaxPermits
  /\ Panics \subseteq {"acquire", "state", "waker", "order"}

VARIABLES
  queue,       \* QueueState::queue when Ok: the linked futures, front first
  open,        \* QueueState::queue is Ok
  len,         \* QueueState::len
  poisoned,    \* QueueState::poisoned
  closed,      \* QueueState::closed
  avail,       \* QueueState::state: the permits it can still give
  total,       \* history: permits the application has put into the semaphore
  fut,         \* what has become of each future
  dead,        \* futures whose params an acquire that panicked has lost
  registered,  \* the waker in each linked node
  current,     \* the waker of each future's last poll
  called,      \* futures that are new, or whose waker was called since their last poll
  pc,          \* where each thread is
  batch,       \* its WakeBatch: the wakers it still has to call
  more,        \* whether it relocks after the batch
  owed         \* history: the queue is due a service that was explicitly given up

listVars == <<queue, open, len>>
flagVars == <<poisoned, closed>>
stateVars == <<avail, total>>
futVars == <<fut, dead>>
wakerVars == <<registered, current, called>>
threadVars == <<pc, batch, more>>
vars == <<listVars, flagVars, stateVars, futVars, wakerVars, threadVars, owed>>

(***************************************************************************)
(* A future is "new" until its first poll, then "linked", and, once it has *)
(* left the list, "granted" (removed with Ok(permit)) or "refused"         *)
(* (removed with Err(params)) until it is polled.  It ends as a "permit"   *)
(* held by the application, or without one.                                *)
(***************************************************************************)
Gone == {"none", "closed", "panicked"}
Phases == Gone \cup {"new", "linked", "granted", "refused", "permit"}

\* Places of a thread: in "check" it holds the lock; it calls the wakers of a batch
\* that `check` or `close` collected without it, or, after a panic, while it unwinds.
Places == {"idle", "check", "wake_served", "wake_closed", "unwind"}

Unlocked == \A t \in Threads : pc[t] # "check"

Init == /\ queue = <<>> /\ open = TRUE /\ len = 0
        /\ poisoned = FALSE /\ closed = FALSE
        /\ avail = InitPermits /\ total = InitPermits
        /\ fut = [f \in Acquires |-> "none"] /\ dead = {}
        /\ registered \in [Acquires -> Wakers] /\ current = registered
        /\ called = {}
        /\ pc = [t \in Threads |-> "idle"]
        /\ batch = [t \in Threads |-> <<>>]
        /\ more = [t \in Threads |-> FALSE]
        /\ owed = FALSE

----------------------------------------------------------------------------
(* The application state: a counter of permits *)

Fits(f) == Need[f] <= avail

\* SemaphoreState::acquire gives f its permit.
Take(f) == /\ Fits(f)
           /\ avail' = avail - Need[f]
           /\ UNCHANGED <<total, poisoned>>

\* SemaphoreState::acquire panics, before or after it has changed the state.
TakePanics(f) == /\ "acquire" \in Panics
                 /\ poisoned' = TRUE
                 /\ \/ UNCHANGED stateVars
                    \/ /\ Fits(f)
                       /\ avail' = avail - Need[f]
                       /\ total' = total - Need[f]

\* Variant of Release that loses the permit once the list is discarded; used to check
\* that the properties notice it.
ReleaseWhileOpen(f) == /\ avail' = IF open THEN avail + Need[f] ELSE avail
                       /\ UNCHANGED <<total, poisoned>>

\* Variant of Release that loses the permit of a poisoned queue; used to check that the
\* properties notice it.
ReleaseUnlessPoisoned(f) == /\ avail' = IF poisoned THEN avail ELSE avail + Need[f]
                            /\ UNCHANGED <<total, poisoned>>

\* update_state(|s| s.release(permit)) with f's permit.
Release(f) == /\ avail' = avail + Need[f]
              /\ UNCHANGED <<total, poisoned>>

\* release panics, before or after it has changed the state; the permit is gone.
ReleasePanics(f) == /\ "state" \in Panics
                    /\ poisoned' = TRUE
                    /\ \/ /\ avail' = avail
                          /\ total' = total - Need[f]
                       \/ /\ avail' = avail + Need[f]
                          /\ total' = total

\* A with_state closure leaves n permits in the state.
Write(n) == /\ total - avail + n <= MaxPermits
            /\ avail' = n
            /\ total' = total - avail + n

----------------------------------------------------------------------------
(* Order::enqueue_front: the answers it may give when n tasks are queued *)

\* A third-party order, like the tests' Random, may answer either way at any length.
CustomAnswers == BOOLEAN

FrontAnswers(n) == CASE OrderPolicy = "Fifo"   -> {FALSE}
                     [] OrderPolicy = "Lifo"   -> {TRUE}
                     [] OrderPolicy = "Hybrid" -> {n > LifoAbove}
                     [] OrderPolicy = "Custom" -> CustomAnswers

----------------------------------------------------------------------------
(* with_queue: what follows the closure, still under the lock *)

\* Variant of ServeAfterwards that forgets to serve; used to check that the
\* properties notice it.
ServeAfterwardsNever(t) == pc' = [pc EXCEPT ![t] = "idle"] /\ UNCHANGED <<batch, more>>

\* The queue is checked unless it is empty.
ServeAfterwards(t) == /\ pc' = [pc EXCEPT ![t] = IF len' = 0 THEN "idle" ELSE "check"]
                      /\ UNCHANGED <<batch, more>>

\* Variant of Serving that forgets that the queue is closing; used to check that the
\* properties notice it.
ServingClosed == ~poisoned /\ open

\* The early returns of check.
Serving == ~poisoned /\ ~closed /\ open

\* The waiter at i is the first one that still has its params: check skips the others.
IsLeader(i) == /\ i \in DOMAIN queue
               /\ queue[i] \notin dead
               /\ \A j \in DOMAIN queue : j < i => queue[j] \in dead

\* Variant of LeaveWith that drops what is left of the batch when it unwinds; used to
\* check that the properties notice it.
LeaveWithNothing(t, place, b, m) ==
  LET kept == IF place = "unwind" THEN <<>> ELSE b
  IN /\ pc' = [pc EXCEPT ![t] = IF kept = <<>> /\ ~m THEN "idle" ELSE place]
     /\ batch' = [batch EXCEPT ![t] = kept]
     /\ more' = [more EXCEPT ![t] = m]

\* The lock is released with the batch b to wake, and retaken afterwards if m.
LeaveWith(t, place, b, m) ==
  /\ pc' = [pc EXCEPT ![t] = IF b = <<>> /\ ~m THEN "idle" ELSE place]
  /\ batch' = [batch EXCEPT ![t] = b]
  /\ more' = [more EXCEPT ![t] = m]

\* Variant of BatchFull that is off by one; used to check that the properties notice it.
BatchFullLate(b) == Len(b) > BatchCap

\* WakeBatch::is_full
BatchFull(b) == Len(b) = BatchCap

\* with_queue goes round again after the batch b when n futures stay queued.
MoreToServe(b, n) == BatchFull(b) /\ n # 0

\* Variant of LenWithout that forgets to count the removal; used to check that the
\* properties notice it.
LenWithoutForgotten(n) == n

\* len once one waiter has left a queue of n.
LenWithout(n) == n - 1

\* check removes the leader and gives it its permit; a full batch ends the check.
Grant(t) ==
  /\ pc[t] = "check" /\ Serving
  /\ \E i \in DOMAIN queue :
       LET f == queue[i]
           b == Append(batch[t], <<f, registered[f]>>)
       IN /\ IsLeader(i)
          /\ Take(f)
          /\ queue' = RemoveAt(queue, i)
          /\ len' = LenWithout(len)
          /\ fut' = [fut EXCEPT ![f] = "granted"]
          /\ IF BatchFull(b)
             THEN LeaveWith(t, "wake_served", b, MoreToServe(b, len'))
             ELSE batch' = [batch EXCEPT ![t] = b] /\ UNCHANGED <<pc, more>>
  /\ owed' = (owed /\ len' # 0)
  /\ UNCHANGED <<open, closed, dead, wakerVars>>

\* check ends: it may not serve, no live waiter is left, or the leader is refused.
\* A service that was given up earlier has then been made good.
CheckEnds(t) ==
  /\ pc[t] = "check"
  /\ Serving => \A i \in DOMAIN queue : IsLeader(i) => ~Fits(queue[i])
  /\ LeaveWith(t, "wake_served", batch[t], FALSE)
  /\ owed' = (owed /\ ~Serving)
  /\ UNCHANGED <<listVars, flagVars, stateVars, futVars, wakerVars>>

\* The leader's acquire panics: its params are lost, the lock is released and the
\* wakers of waiters already removed are still called while the stack unwinds.
CheckPanics(t) ==
  /\ pc[t] = "check" /\ Serving
  /\ \E i \in DOMAIN queue : /\ IsLeader(i)
                             /\ TakePanics(queue[i])
                             /\ dead' = dead \cup {queue[i]}
  /\ LeaveWith(t, "unwind", batch[t], FALSE)
  /\ UNCHANGED <<listVars, closed, fut, wakerVars, owed>>

----------------------------------------------------------------------------
(* Waking, without the lock *)

\* Variant of WakenBy that loses the wake; used to check that the properties notice it.
WakenByNobody(f, w) == called

\* The call of the waker w registered for f reaches f's task if w is that task's waker.  A
\* task that has its answer is not polled again on that account.
WakenBy(f, w) == IF fut[f] \in Gone \cup {"permit"} \/ w # current[f]
                 THEN called ELSE called \cup {f}

\* The next waker of the batch is called.
WakeNext(t) ==
  /\ batch[t] # <<>>
  /\ pc[t] \in {"wake_served", "wake_closed", "unwind"}
  /\ called' = WakenBy(Head(batch[t])[1], Head(batch[t])[2])
  /\ LeaveWith(t, pc[t], Tail(batch[t]), more[t])
  /\ UNCHANGED <<listVars, flagVars, stateVars, futVars, registered, current, owed>>

\* It panics: the rest of the batch is still called, and the batches that were to follow
\* are given up.  It was called, and whether it has woken its task by then is its own
\* affair.  A waker that panics while the stack unwinds aborts the process, and is not
\* modelled.
WakePanics(t) ==
  /\ "waker" \in Panics
  /\ batch[t] # <<>>
  /\ pc[t] \in {"wake_served", "wake_closed"}
  /\ called' = WakenBy(Head(batch[t])[1], Head(batch[t])[2])
  /\ LeaveWith(t, "unwind", Tail(batch[t]), FALSE)
  /\ owed' = (owed \/ (more[t] /\ pc[t] = "wake_served"))
  /\ UNCHANGED <<listVars, flagVars, stateVars, futVars, registered, current>>

\* with_queue relocks for the next batch.
ServeMore(t) ==
  /\ Unlocked
  /\ pc[t] = "wake_served" /\ batch[t] = <<>> /\ more[t]
  /\ pc' = [pc EXCEPT ![t] = "check"]
  /\ more' = [more EXCEPT ![t] = FALSE]
  /\ UNCHANGED <<listVars, flagVars, stateVars, futVars, wakerVars, batch, owed>>

----------------------------------------------------------------------------
(* close: each round of close_one calls is one critical section without user code *)

\* Variants of KeepsList that discard the list with nodes in it, or never; used to check
\* that the properties notice them.
KeepsListNever(q) == Len(q) < 0
KeepsListAlways(q) == Len(q) >= 0

\* close_one discards the list as soon as it is empty.
KeepsList(q) == q # <<>>

\* One round: up to a batch of nodes is removed from the front; there is another round
\* while the list is kept.
Close(t) ==
  LET n == Min({BatchCap, Len(queue)})
      taken == {queue[i] : i \in 1..n}
  IN /\ Closeable /\ Unlocked
     /\ \/ pc[t] = "idle"
        \/ pc[t] = "wake_closed" /\ batch[t] = <<>> /\ more[t]
     /\ closed' = TRUE
     /\ queue' = SubSeq(queue, n + 1, Len(queue))
     /\ len' = len - n
     /\ open' = (open /\ KeepsList(queue'))
     /\ fut' = [f \in Acquires |-> IF f \in taken THEN "refused" ELSE fut[f]]
     /\ LeaveWith(t, "wake_closed",
                  [i \in 1..n |-> <<queue[i], registered[queue[i]]>>], open')
     /\ UNCHANGED <<poisoned, stateVars, dead, wakerVars, owed>>

----------------------------------------------------------------------------
(* acquire_or_enqueue *)

\* Variant of MayTry that lets anybody try; used to check that the properties notice it.
MayTryAlways(front) == front \in BOOLEAN

\* The caller leads: it would go to the front, or nobody is queued.
MayTry(front) == front \/ queue = <<>>

\* Variant of Rejecting that notices only the discarded list; used to check that the
\* properties notice it.
RejectingDiscarded == ~open

\* New work is turned away.
Rejecting == closed \/ ~open

\* The outcomes of an acquisition that asks the order when it is fair: poison is
\* looked at first, then closing, and the state is tried by a leader only.  An order
\* that panics has changed nothing, and does not poison.
AcquireOrEnqueue(f, fair, front, outcome) ==
  /\ front \in (IF fair THEN FrontAnswers(len) ELSE {TRUE})
  /\ CASE outcome = "poisoned" -> poisoned /\ UNCHANGED <<poisoned, stateVars>>
       [] outcome = "closed" -> ~poisoned /\ Rejecting /\ UNCHANGED <<poisoned, stateVars>>
       [] outcome = "acquired" -> ~poisoned /\ ~Rejecting /\ MayTry(front) /\ Take(f)
       [] outcome = "acquire_panics" ->
            ~poisoned /\ ~Rejecting /\ MayTry(front) /\ TakePanics(f)
       [] outcome = "order_panics" -> /\ "order" \in Panics /\ fair /\ ~poisoned
                                      /\ ~Rejecting
                                      /\ UNCHANGED <<poisoned, stateVars>>
       [] outcome = "enqueue" -> /\ ~poisoned /\ ~Rejecting
                                 /\ ~(MayTry(front) /\ Fits(f))
                                 /\ UNCHANGED <<poisoned, stateVars>>

Outcomes == {"poisoned", "closed", "acquired", "acquire_panics", "order_panics", "enqueue"}

\* What an acquisition that does not enqueue leaves the caller with: try_acquire's
\* NoPermits leaves nothing, and its Poisoned is told apart from acquire's panic
\* by nobody here.
ResultOf(outcome) == CASE outcome = "acquired" -> "permit"
                       [] outcome = "closed" -> "closed"
                       [] outcome = "enqueue" -> "none"
                       [] outcome \in {"poisoned", "acquire_panics", "order_panics"} -> "panicked"

\* acquire(params): the future exists and its task is about to poll it.
NewAcquire(f) == /\ fut[f] = "none"
                 /\ fut' = [fut EXCEPT ![f] = "new"]
                 /\ called' = called \cup {f}
                 /\ UNCHANGED <<listVars, flagVars, stateVars, dead, registered, current,
                                threadVars, owed>>

\* The first poll ends the future, or links it with the waker w.
FirstPoll(f, w) ==
  /\ Unlocked /\ fut[f] = "new"
  /\ called' = called \ {f}
  /\ \E front \in BOOLEAN, outcome \in Outcomes :
       /\ AcquireOrEnqueue(f, TRUE, front, outcome)
       /\ IF outcome = "enqueue"
          THEN /\ queue' = IF front THEN <<f>> \o queue ELSE Append(queue, f)
               /\ len' = len + 1
               /\ fut' = [fut EXCEPT ![f] = "linked"]
               /\ registered' = [registered EXCEPT ![f] = w]
               /\ current' = [current EXCEPT ![f] = w]
          ELSE /\ fut' = [fut EXCEPT ![f] = ResultOf(outcome)]
               /\ UNCHANGED <<queue, len, registered, current>>
  /\ UNCHANGED <<open, closed, dead, threadVars, owed>>

\* try_acquire: the slot f stands for the call and for the permit it may return.
TryAcquire(f, fair) ==
  /\ Unlocked /\ fut[f] = "none"
  /\ \E front \in BOOLEAN, outcome \in Outcomes :
       /\ AcquireOrEnqueue(f, fair, front, outcome)
       /\ fut' = [fut EXCEPT ![f] = ResultOf(outcome)]
  /\ UNCHANGED <<listVars, closed, dead, wakerVars, threadVars, owed>>

----------------------------------------------------------------------------
(* Acquire::poll, after the first time *)

\* A future whose params are lost panics where another returns them.
RefusedResult(f) == IF f \in dead THEN "panicked" ELSE "closed"

\* The node of f is taken off the list.
Unlink(f) == /\ \E i \in DOMAIN queue : queue[i] = f /\ queue' = RemoveAt(queue, i)
             /\ len' = LenWithout(len)

\* The queue is closing and has not come to f yet: f unlinks itself.
PollClosing(f) ==
  /\ Unlocked /\ fut[f] = "linked" /\ closed /\ open
  /\ Unlink(f)
  /\ fut' = [fut EXCEPT ![f] = RefusedResult(f)]
  /\ dead' = dead \ {f}
  /\ called' = called \ {f}
  /\ UNCHANGED <<open, flagVars, stateVars, registered, current, threadVars, owed>>

\* Variant of Reregistered that keeps the first waker; used to check that the
\* properties notice it.
ReregisteredNever(f, w) == registered[f]

\* The waker a linked node holds once its future was polled with w.
Reregistered(f, w) == w

\* A spurious poll: still linked, only the waker is replaced.
PollPending(f, w) ==
  /\ Unlocked /\ fut[f] = "linked" /\ ~(closed /\ open)
  /\ registered' = [registered EXCEPT ![f] = Reregistered(f, w)]
  /\ current' = [current EXCEPT ![f] = w]
  /\ called' = called \ {f}
  /\ UNCHANGED <<listVars, flagVars, stateVars, futVars, threadVars, owed>>

\* The future has been removed from the list and takes its result.
PollReady(f) ==
  /\ Unlocked /\ fut[f] \in {"granted", "refused"}
  /\ fut' = [fut EXCEPT ![f] = IF fut[f] = "granted" THEN "permit" ELSE RefusedResult(f)]
  /\ dead' = dead \ {f}
  /\ called' = called \ {f}
  /\ UNCHANGED <<listVars, flagVars, stateVars, registered, current, threadVars, owed>>

----------------------------------------------------------------------------
(* Acquire::drop.  Dropping a future that was never polled, or has ended, does not *)
(* reach the queue.                                                                *)

DropNew(f) == /\ fut[f] = "new"
              /\ fut' = [fut EXCEPT ![f] = "none"]
              /\ called' = called \ {f}
              /\ UNCHANGED <<listVars, flagVars, stateVars, dead, registered, current,
                             threadVars, owed>>

\* Variant of DropAcquire that serves the queue only when it has a permit to return; used to
\* check that the properties notice it.
DropAcquireQuietly(t, f) ==
  /\ Unlocked /\ pc[t] = "idle"
  /\ \/ /\ fut[f] = "granted" /\ Release(f) /\ UNCHANGED <<queue, len>>
        /\ ServeAfterwards(t)
     \/ /\ fut[f] \in {"linked", "refused"}
        /\ IF fut[f] = "linked" THEN Unlink(f) ELSE UNCHANGED <<queue, len>>
        /\ UNCHANGED <<poisoned, stateVars, threadVars>>
  /\ fut' = [fut EXCEPT ![f] = "none"]
  /\ dead' = dead \ {f}
  /\ called' = called \ {f}
  /\ UNCHANGED <<open, closed, registered, current, owed>>

DropAcquire(t, f) ==
  /\ Unlocked /\ pc[t] = "idle"
  /\ fut[f] \in {"linked", "granted", "refused"}
  /\ CASE fut[f] = "linked" -> Unlink(f) /\ UNCHANGED <<poisoned, stateVars>>
       [] fut[f] = "granted" -> Release(f) /\ UNCHANGED <<queue, len>>
       [] fut[f] = "refused" -> UNCHANGED <<poisoned, stateVars, queue, len>>
  /\ ServeAfterwards(t)
  /\ fut' = [fut EXCEPT ![f] = "none"]
  /\ dead' = dead \ {f}
  /\ called' = called \ {f}
  /\ UNCHANGED <<open, closed, registered, current, owed>>

\* The permit of a cancelled future is released, and release panics.
DropAcquirePanics(f) ==
  /\ Unlocked /\ fut[f] = "granted"
  /\ ReleasePanics(f)
  /\ fut' = [fut EXCEPT ![f] = "none"]
  /\ called' = called \ {f}
  /\ UNCHANGED <<listVars, closed, dead, registered, current, threadVars, owed>>

----------------------------------------------------------------------------
(* with_state, clear_poison and the permits held by the application *)

WithState(t) ==
  /\ Unlocked /\ pc[t] = "idle"
  /\ \E n \in StateWrites : Write(n)
  /\ UNCHANGED <<listVars, flagVars>>
  /\ ServeAfterwards(t)
  /\ UNCHANGED <<futVars, wakerVars, owed>>

WithStatePanics ==
  /\ Unlocked /\ "state" \in Panics
  /\ \E n \in StateWrites : Write(n)
  /\ poisoned' = TRUE
  /\ UNCHANGED <<listVars, closed, futVars, wakerVars, threadVars, owed>>

ClearPoison ==
  /\ Unlocked /\ poisoned
  /\ poisoned' = FALSE
  /\ owed' = TRUE
  /\ UNCHANGED <<listVars, closed, stateVars, futVars, wakerVars, threadVars>>

\* Permit::drop is with_state(|s| s.release(permit)).
DropPermit(t, f) ==
  /\ Unlocked /\ pc[t] = "idle" /\ fut[f] = "permit"
  /\ Release(f)
  /\ fut' = [fut EXCEPT ![f] = "none"]
  /\ UNCHANGED <<listVars, closed>>
  /\ ServeAfterwards(t)
  /\ UNCHANGED <<dead, wakerVars, owed>>

DropPermitPanics(f) ==
  /\ Unlocked /\ fut[f] = "permit"
  /\ ReleasePanics(f)
  /\ fut' = [fut EXCEPT ![f] = "none"]
  /\ UNCHANGED <<listVars, closed, dead, wakerVars, threadVars, owed>>

\* Permit::take: the permit is never released.
TakePermit(f) ==
  /\ ThinAir /\ fut[f] = "permit"
  /\ fut' = [fut EXCEPT ![f] = "none"]
  /\ total' = total - Need[f]
  /\ UNCHANGED <<listVars, flagVars, avail, dead, wakerVars, threadVars, owed>>

\* Permit::out_of_thin_air: a permit the state never gave.
OutOfThinAir(f) ==
  /\ ThinAir /\ fut[f] = "none"
  /\ total + Need[f] <= MaxPermits
  /\ fut' = [fut EXCEPT ![f] = "permit"]
  /\ total' = total + Need[f]
  /\ UNCHANGED <<listVars, flagVars, avail, dead, wakerVars, threadVars, owed>>

\* The caller is done with what an acquire or a try_acquire returned.
Forget(f) == /\ fut[f] \in {"closed", "panicked"}
             /\ fut' = [fut EXCEPT ![f] = "none"]
             /\ UNCHANGED <<listVars, flagVars, stateVars, dead, wakerVars, threadVars, owed>>

----------------------------------------------------------------------------
Next == \/ \E t \in Threads : \/ Grant(t) \/ CheckEnds(t) \/ CheckPanics(t)
                              \/ WakeNext(t) \/ WakePanics(t) \/ ServeMore(t)
                              \/ Close(t) \/ WithState(t)
        \/ \E f \in Acquires : \/ NewAcquire(f) \/ PollClosing(f) \/ PollReady(f)
                               \/ DropNew(f) \/ DropAcquirePanics(f)
                               \/ DropPermitPanics(f) \/ TakePermit(f)
                               \/ OutOfThinAir(f) \/ Forget(f)
        \/ \E f \in Acquires, w \in Wakers : FirstPoll(f, w) \/ PollPending(f, w)
        \/ \E f \in Acquires, fair \in TryModes : TryAcquire(f, fair)
        \/ \E t \in Threads, f \in Acquires : DropAcquire(t, f) \/ DropPermit(t, f)
        \/ WithStatePanics \/ ClearPoison

Spec == Init /\ [][Next]_vars

\* What a thread inside with_queue or close goes on to do.
Proceed(t) == \/ Grant(t) \/ CheckEnds(t) \/ WakeNext(t) \/ ServeMore(t)
              \/ pc[t] = "wake_closed" /\ Close(t)

\* The executor polls a task that is new, or whose waker was called.  That is so of wakers
\* that return; one that panics need not have woken anybody.
PollCalled(f) == /\ f \in called /\ "waker" \notin Panics
                 /\ \/ \E w \in Wakers : FirstPoll(f, w) \/ PollPending(f, w)
                    \/ PollClosing(f) \/ PollReady(f)

(***************************************************************************)
(* Fairness: a thread inside with_queue or close goes on.  The executor    *)
(* polls a woken task and a permit is dropped some day, even when this has *)
(* to wait for the lock, or for a thread, while others take it in turn:    *)
(* hence strong fairness for what a task does.                             *)
(***************************************************************************)
GoesOn(f) == PollCalled(f) \/ \E t \in Threads : DropPermit(t, f)

Fairness == /\ \A t \in Threads : WF_vars(Proceed(t))
            /\ \A f \in Acquires : SF_vars(GoesOn(f))

LiveSpec == Spec /\ Fairness

----------------------------------------------------------------------------
TypeOK == /\ queue \in Seq(Acquires) /\ open \in BOOLEAN /\ len \in Nat
          /\ poisoned \in BOOLEAN /\ closed \in BOOLEAN
          /\ avail \in Nat /\ total \in Int
          /\ fut \in [Acquires -> Phases] /\ dead \subseteq Acquires
          /\ registered \in [Acquires -> Wakers] /\ current \in [Acquires -> Wakers]
          /\ called \subseteq Acquires
          /\ pc \in [Threads -> Places]
          /\ batch \in [Threads -> Seq(Acquires \X Wakers)]
          /\ \A t \in Threads : Len(batch[t]) <= BatchCap
          /\ more \in [Threads -> BOOLEAN]
          /\ owed \in BOOLEAN

\* The debug_assert of close_one (lib.rs:452) and what size-dependent orders and
\* with_queue's early return rely on: len counts the linked nodes, each future is
\* linked once, and only while its future says so.
ListConsistent ==
  /\ len = Len(queue)
  /\ IsInjective(queue)
  /\ \A f \in Acquires : fut[f] = "linked" <=> f \in ToSet(queue)

\* close_one's safety invariant (lib.rs:425-430): the list is discarded only after
\* every node has left it, and closed is set by then, so that poll and drop may take
\* the result out of any node they find.
DiscardedListEmpty == ~open => closed /\ queue = <<>>

\* A thread is serving the queue, or has promised to.
InService == \E t \in Threads : \/ pc[t] = "check"
                                \/ pc[t] = "wake_served" /\ more[t]

MustServe == ~InService /\ ~owed /\ ~poisoned /\ ~closed

\* No lost service: when nobody serves the queue and no service was given up, the
\* waiter at the front, if it still has its params, does not fit.
HeadBlocked == MustServe /\ queue # <<>> /\ Head(queue) \notin dead => ~Fits(Head(queue))

\* clear_poison's doc (lib.rs:412-413): a waiter whose params are lost is skipped, so
\* the first waiter that has its params is the one that must not fit.
LeaderBlocked == MustServe => \A i \in DOMAIN queue : IsLeader(i) => ~Fits(queue[i])

\* A future that has left the list: the waker of its last poll was called since, or is in a
\* batch that a thread is still going to call, also when another waker or acquire panics.
NoStrandedWaker ==
  \A f \in Acquires : fut[f] \in {"granted", "refused"} =>
    \/ f \in called
    \/ \E t \in Threads : <<f, current[f]>> \in ToSet(batch[t])

\* The permits that are out: held by the application or granted and not yet claimed.
Outstanding == {f \in Acquires : fut[f] \in {"granted", "permit"}}

\* The number of permits the state has given and not had back.
PermitsOut == total - avail

\* Every permit is in the state or out, whoever cancels, closes or panics when: a grant
\* is neither lost nor returned twice.
PermitsConserved == PermitsOut = Total(Need, Outstanding)

\* What a step does to the permits that are out: nothing, or one permit is given, or one
\* returns or is lost; whatever the path, the state's count moves by just that permit.
Balances == \/ Outstanding' = Outstanding /\ PermitsOut' = PermitsOut
            \/ \E f \in Acquires \ Outstanding : /\ Outstanding' = Outstanding \cup {f}
                                                 /\ PermitsOut' = PermitsOut + Need[f]
            \/ \E f \in Outstanding : /\ Outstanding' = Outstanding \ {f}
                                      /\ PermitsOut' = PermitsOut - Need[f]

\* Conservation, step by step: no path gives a permit twice, returns one twice, or
\* forgets the permit of a future that was granted and is then dropped.
BalancedStep == [][Balances]_vars

\* A permit the semaphore gives, or a waiter that joins the queue.
Admitted(f) == \/ fut[f] = "linked" /\ fut'[f] = "granted"
               \/ fut[f] \in {"new", "none"} /\ fut'[f] = "permit" /\ ~OutOfThinAir(f)
               \/ fut[f] # "linked" /\ fut'[f] = "linked"

\* Closing takes effect at once (lib.rs:136-137, 271-273) and poison stops all grants
\* (lib.rs:400-401): while either flag is set nothing is granted and nobody joins.
NothingAdmitted == [][closed \/ poisoned => \A f \in Acquires : ~Admitted(f)]_vars

\* acquire's doc (flag-bearer/src/lib.rs:514): once the semaphore is closed, an acquire
\* that starts ends with the error of a closed semaphore.
ClosedIsTold == [][closed => \A f \in Acquires :
                     fut[f] = "new" /\ fut'[f] # "new" => fut'[f] \in {"closed", "none"}]_vars

\* A newcomer goes ahead of those who wait: it joins in front, or is served as it comes.
Overtakes(f) == /\ queue # <<>> /\ fut[f] \in {"new", "none"}
                /\ fut'[f] = "permit" \/ queue' = <<f>> \o queue

EveryAcquireAnswered ==
  \A f \in Acquires : fut[f] \in {"new", "linked", "granted", "refused"}
                       ~> fut[f] \in Gone \cup {"permit"}

\* FIFO's "no-starvation guarantee", which other orders give up "under sustained overload"
\* (order.rs:38-39): whatever the order, nobody starves unless newcomers go ahead of the
\* line without end.  Under Fifo they never do, under Hybrid not in light load.  Then
\* every acquire that is polled when woken gets an answer, if permits come back: no
\* waiter is forgotten or left asleep by releases, cancellations and closing.
ServedInTurn == <>[][\A f \in Acquires : ~Overtakes(f)]_vars => EveryAcquireAnswered

\* Closing discards the list, in however many batches.
CloseDrains == closed ~> ~open

Size == INSTANCE Occupancy

\* Callbacks unfolds the critical sections of this module.  Seen from both, len goes up by
\* one who joins an open queue, down by one who leaves it, or by a round of close.
CountsItsWaiters == Size!Spec

\* Seen from outside: what has happened to nodes, threads and wakers does not show.
Abstract == INSTANCE Semaphore WITH
              Clients <- Acquires, Order <- [n \in Nat |-> FrontAnswers(n)],
              Unfair <- FALSE \in TryModes,
              line <- queue, lost <- dead \cap ToSet(queue), held <- Outstanding,
              free <- avail

\* Every interleaving of polls, cancellations, releases, panics and closing is a run of
\* the semaphore promised to the users: the crate's "permits are always handed out from
\* the front" (acquire.rs:196-197), nobody overtakes or waits without need, and a
\* panic costs nobody but the one it hit.
ImplementsSemaphore == Abstract!Spec

\* And with every thread going on, a leader that fits is not left waiting.
ServesItsLeaders == Abstract!ServingSpec
=============================================================================
