----------------------------- MODULE Callbacks ------------------------------
(***************************************************************************)
(* The operations of the queue as calls that run user code, in threads     *)
(* that share the queue's lock.  SemaphoreQueue takes a critical section   *)
(* for one step; here it is unfolded into the lock (Mutex, as FutexMutex   *)
(* implements it) and the user code the operation runs before and after it *)
(* unlocks: the state, the order, wakers, and destructors.  User code may  *)
(* panic, and some of it may call the queue again: a thread is a stack of  *)
(* calls, and a call of the queue is a frame of it.                        *)
(***************************************************************************)
EXTENDS Integers, FiniteSetsExt, Sequences

CONSTANTS
  Threads,
  MaxDepth,     \* bound on the calls of the queue nested in each thread
  MaxWaiting,   \* bound on the queue
  BatchCap,     \* capacity of a WakeBatch
  Ops,          \* the operations that are called
  Reenters      \* the kinds of user code that may call the queue again

\* User code that runs while the lock is held: the state (release and with_state closures,
\* or acquire for a newcomer), acquire for a waiter, the order, cloning a waker, dropping
\* the waker that is replaced, dropping params that were not taken, and Debug of the state.
Inside == {"state", "acquire", "serve", "order", "clone", "replaced", "rejected", "fmt"}

\* User code that runs without it: waking, and dropping what a cancelled future leaves.
Outside == {"wake", "abandoned"}

Kinds == Inside \cup Outside
Places == {"idle", "enter", "crit", "check", "out"} \cup Kinds
Operations == {"update", "drop", "first_poll", "poll", "try_acquire", "close", "debug",
               "flags"}

ASSUME CallbackAssumptions == /\ MaxDepth \in [Threads -> Nat] /\ MaxWaiting \in Nat
                              /\ BatchCap \in Nat \ {0}
                              /\ Reenters \subseteq Kinds /\ Ops \subseteq Operations

\* The places where a call is in its critical section.
Critical == {"crit", "check"} \cup Inside

Frames == UNION {{t} \X (1..MaxDepth[t]) : t \in Threads}

VARIABLES
  phase,   \* what each frame has to do with the lock
  depth,   \* how many frames each thread has
  at,      \* where each frame is; a kind of user code while it runs
  job,     \* its operation: what is left to do under the lock, the wakers to call, ...
  len,     \* QueueState::len
  closed   \* QueueState::closed

vars == <<phase, depth, at, job, len, closed>>

Lock == INSTANCE Mutex WITH Procs <- Frames

(***************************************************************************)
(* A job's script is what its frame still does under the lock, most of it  *)
(* user code; more says that it relocks after waking, abandons that it     *)
(* has something of the user's to drop last, unwinding that user code has  *)
(* panicked in it.                                                         *)
(***************************************************************************)
NewJob(op) == [op |-> op, script |-> <<>>, batch |-> 0, more |-> FALSE,
               abandons |-> FALSE, unwinding |-> FALSE]

Init == /\ Lock!Init
        /\ depth = [t \in Threads |-> 0]
        /\ at = [f \in Frames |-> "idle"]
        /\ job = [f \in Frames |-> NewJob("flags")]
        /\ len = 0 /\ closed = FALSE

Top(f) == f[2] = depth[f[1]]

\* The frame f goes on at a place with the job j.
Goes(f, place, j) == /\ at' = [at EXCEPT ![f] = place]
                     /\ job' = [job EXCEPT ![f] = j]

----------------------------------------------------------------------------
(* Calling *)

\* A thread calls the queue, or user code that may does, whether or not it unwinds.
Call(t, op) ==
  /\ depth[t] < MaxDepth[t]
  /\ depth[t] # 0 => at[<<t, depth[t]>>] \in Reenters
  /\ depth' = [depth EXCEPT ![t] = @ + 1]
  /\ Goes(<<t, depth'[t]>>, "enter", NewJob(op))
  /\ UNCHANGED <<phase, len, closed>>

\* What an operation does under the lock, and whether it sets something aside to drop.  Once
\* the queue is closed, new work is turned away before the order is asked.
Plan(script, aside) == [script |-> script, abandons |-> aside]
WithWaiter(plans) == IF len = 0 THEN {} ELSE plans

Plans(op) ==
  CASE op = "update" -> {Plan(<<"state">>, FALSE)}
    [] op = "drop" -> {Plan(<<"state">>, FALSE), Plan(<<>>, TRUE)}
                      \cup WithWaiter({Plan(<<"unlink">>, TRUE)})
    [] op = "first_poll" ->
         IF closed THEN {Plan(<<>>, FALSE)}
         ELSE {Plan(<<"order", "acquire">>, FALSE)}
              \cup IF len = MaxWaiting THEN {}
                   ELSE {Plan(<<"order", "clone", "link">>, FALSE),
                         Plan(<<"order", "acquire", "clone", "link">>, FALSE)}
    [] op = "poll" ->
         {Plan(<<>>, FALSE)} \cup WithWaiter({IF closed THEN Plan(<<"unlink">>, TRUE)
                                             ELSE Plan(<<"clone", "replaced">>, FALSE)})
    [] op = "try_acquire" ->
         IF closed THEN {Plan(<<>>, FALSE)}
         ELSE {Plan(<<"order">>, FALSE), Plan(<<"order", "acquire">>, FALSE),
               Plan(<<"acquire">>, FALSE)}
    [] op = "close" -> {Plan(<<"close">>, FALSE)}
    [] op = "debug" -> {Plan(<<"fmt">>, FALSE)}
    [] op = "flags" -> {Plan(<<>>, FALSE)}

\* Variant of Again that never finds that this was the last batch; used to check that the
\* properties notice it.
AgainAlways(f) == job[f]

\* What is left of a job that relocks: whether there is more to come is found anew.
Again(f) == [job[f] EXCEPT !.more = FALSE]

\* The lock is f's: it begins, or goes on with the queue it was serving or closing.
Begin(f) ==
  IF job[f].more
  THEN IF job[f].op = "close"
       THEN Goes(f, "crit", [Again(f) EXCEPT !.script = <<"close">>])
       ELSE Goes(f, "check", Again(f))
  ELSE \/ \E plan \in Plans(job[f].op) :
            Goes(f, "crit", [job[f] EXCEPT !.script = plan.script, !.abandons = plan.abandons])
       \/ /\ job[f].op = "first_poll"   \* the queue is poisoned
          /\ Goes(f, "crit", [job[f] EXCEPT !.script = <<"rejected">>, !.unwinding = TRUE])

\* Debug takes the lock only if it is free.
Tries(f) == job[f].op = "debug"

LockAtOnce(f) == /\ at[f] = "enter" /\ Lock!Take(f) /\ Begin(f)
                 /\ UNCHANGED <<depth, len, closed>>

LockContends(f) == /\ at[f] = "enter" /\ ~Tries(f) /\ ~Lock!Free /\ Lock!Request(f)
                   /\ UNCHANGED <<depth, at, job, len, closed>>

LockGranted(f) == /\ at[f] = "enter" /\ Lock!Grant(f) /\ Begin(f)
                  /\ UNCHANGED <<depth, len, closed>>

TryLockFails(f) == /\ at[f] = "enter" /\ Tries(f) /\ ~Lock!Free /\ phase[f] = "out"
                   /\ Goes(f, "out", job[f])
                   /\ UNCHANGED <<phase, depth, len, closed>>

----------------------------------------------------------------------------
(* Under the lock *)

\* The next thing on the script: a change of the list, or a call of user code.
Act(f) ==
  /\ at[f] = "crit" /\ job[f].script # <<>>
  /\ LET what == Head(job[f].script)
         j == [job[f] EXCEPT !.script = Tail(job[f].script)]
         n == Min({len, BatchCap})
     IN \/ what = "link" /\ len' = len + 1 /\ Goes(f, "crit", j) /\ UNCHANGED closed
        \/ what = "unlink" /\ len' = len - 1 /\ Goes(f, "crit", j) /\ UNCHANGED closed
        \/ /\ what = "close" /\ closed' = TRUE
           /\ len' = len - n
           /\ Goes(f, "crit", [j EXCEPT !.batch = n, !.more = len' # 0])
        \/ what \in Inside /\ Goes(f, what, j) /\ UNCHANGED <<len, closed>>
  /\ UNCHANGED <<phase, depth>>

\* with_queue serves unless nobody waits; a closure that panicked is not followed by that.
Serves(f) == /\ job[f].op \in {"update", "drop"}
             /\ len # 0
             /\ ~job[f].unwinding

ToCheck(f) == /\ at[f] = "crit" /\ job[f].script = <<>> /\ Serves(f)
              /\ Goes(f, "check", job[f])
              /\ UNCHANGED <<phase, depth, len, closed>>

\* check asks the state for the next waiter, unless the queue is closing.
Serve(f) == /\ at[f] = "check" /\ ~closed /\ len # 0
            /\ Goes(f, "serve", job[f])
            /\ UNCHANGED <<phase, depth, len, closed>>

\* Variant of Unlock whose guard outlives the batch; used to check that the properties
\* notice it.
UnlockLate(f) ==
  /\ \/ at[f] = "crit" /\ job[f].script = <<>> /\ ~Serves(f)
     \/ at[f] = "check"
  /\ Goes(f, "out", job[f])
  /\ UNCHANGED <<phase, depth, len, closed>>

\* The critical section is over: the guard is dropped, when unwinding as well.
Unlock(f) ==
  /\ \/ at[f] = "crit" /\ job[f].script = <<>> /\ ~Serves(f)
     \/ at[f] = "check"
  /\ Lock!Release(f)
  /\ Goes(f, "out", job[f])
  /\ UNCHANGED <<depth, len, closed>>

----------------------------------------------------------------------------
(* Without the lock *)

\* The next waker of the batch is called, when unwinding as well.
Wake(f) == /\ at[f] = "out" /\ job[f].batch # 0
           /\ Goes(f, "wake", [job[f] EXCEPT !.batch = @ - 1])
           /\ UNCHANGED <<phase, depth, len, closed>>

\* Variant of Relock that goes on without the lock; used to check that the properties
\* notice it.
RelockUnlocked(f) == /\ at[f] = "out" /\ job[f].batch = 0 /\ job[f].more
                     /\ Begin(f)
                     /\ UNCHANGED <<phase, depth, len, closed>>

\* with_queue and close relock for the next batch.
Relock(f) == /\ at[f] = "out" /\ job[f].batch = 0 /\ job[f].more
             /\ Goes(f, "enter", job[f])
             /\ UNCHANGED <<phase, depth, len, closed>>

Finished(f) == at[f] = "out" /\ job[f].batch = 0 /\ ~job[f].more

\* What Acquire::drop and a poll have set aside goes last.
Abandon(f) == /\ Finished(f) /\ job[f].abandons
              /\ Goes(f, "abandoned", [job[f] EXCEPT !.abandons = FALSE])
              /\ UNCHANGED <<phase, depth, len, closed>>

\* The call returns, or its panic reaches its caller.
Return(f) == /\ Finished(f) /\ ~job[f].abandons
             /\ Goes(f, "idle", NewJob("flags"))
             /\ depth' = [depth EXCEPT ![f[1]] = @ - 1]
             /\ UNCHANGED <<phase, len, closed>>

----------------------------------------------------------------------------
(* User code *)

\* WakeBatch::is_full
Full(n) == n = BatchCap

\* check's acquire returns: the waiter is granted and leaves, or nobody more is served.
Served(f) ==
  LET n == job[f].batch + 1
  IN /\ \/ /\ len' = len - 1
           /\ IF Full(n)
              THEN /\ Goes(f, "out", [job[f] EXCEPT !.batch = n, !.more = len' # 0])
                   /\ Lock!Release(f)
              ELSE Goes(f, "check", [job[f] EXCEPT !.batch = n]) /\ UNCHANGED phase
        \/ Lock!Release(f) /\ Goes(f, "out", job[f]) /\ UNCHANGED len
     /\ UNCHANGED <<depth, closed>>

UserReturns(f) ==
  /\ Top(f) /\ at[f] \in Kinds
  /\ IF at[f] = "serve"
     THEN Served(f)
     ELSE /\ Goes(f, IF at[f] \in Inside THEN "crit" ELSE "out", job[f])
          /\ UNCHANGED <<phase, depth, len, closed>>

\* Variant of UserPanics that unwinds past the guard; used to check that the properties
\* notice it.
UserPanicsLocked(f) ==
  /\ Top(f) /\ at[f] \in Kinds /\ ~job[f].unwinding
  /\ Goes(f, "out", [job[f] EXCEPT !.script = <<>>, !.more = FALSE, !.unwinding = TRUE])
  /\ UNCHANGED <<phase, depth, len, closed>>

\* It panics.  What is under the lock is given up, except that the params of an
\* acquisition that has not handed them over are dropped there; then the lock is released,
\* and the rest of the batch is woken.  A panic while unwinding aborts the process.
UserPanics(f) ==
  /\ Top(f) /\ at[f] \in Kinds /\ ~job[f].unwinding
  /\ LET params == IF at[f] \in {"order", "clone"} /\ job[f].op \in {"first_poll", "try_acquire"}
                   THEN <<"rejected">> ELSE <<>>
     IN Goes(f, IF at[f] \in Inside THEN "crit" ELSE "out",
             [job[f] EXCEPT !.script = params, !.more = FALSE, !.unwinding = TRUE])
  /\ UNCHANGED <<phase, depth, len, closed>>

----------------------------------------------------------------------------
Step(f) == /\ Top(f)
           /\ \/ LockAtOnce(f) \/ LockContends(f) \/ LockGranted(f) \/ TryLockFails(f)
              \/ Act(f) \/ ToCheck(f) \/ Serve(f) \/ Unlock(f)
              \/ Wake(f) \/ Relock(f) \/ Abandon(f) \/ Return(f)

Next == \/ \E t \in Threads, op \in Ops : Call(t, op)
        \/ \E f \in Frames : Step(f) \/ UserReturns(f) \/ UserPanics(f)

Spec == Init /\ [][Next]_vars

(***************************************************************************)
(* Fairness: a frame goes on as long as it can.  Of the lock that is what  *)
(* futex.rs promises (FutexMutex!SomebodyLocks): while it is free and      *)
(* wanted somebody gets it, and a waiting frame may be overtaken for ever; *)
(* parking_lot promises more.  User code comes to its end, also if it      *)
(* calls the queue: it does not call for ever.                             *)
(***************************************************************************)
Fairness == \A f \in Frames : WF_vars(Step(f)) /\ SF_vars(UserReturns(f))

LiveSpec == Spec /\ Fairness

----------------------------------------------------------------------------
\* acquire.rs:49-51, lib.rs:162 and the comments of with_queue: the lock is held exactly
\* while a call is in its critical section.  It is released before wakers run and before
\* what a cancelled future leaves is dropped, and by every panic on its way out.
LockScoped == \A f \in Frames : phase[f] = "holding" <=> at[f] \in Critical

\* with_state's doc (lib.rs:104) and tests/reentrant_wake.rs: wakers and destructors may
\* call the queue again.  No thread waits for a lock that one of its own frames holds.
NobodyWaitsForItself ==
  \A f, g \in Frames : f[1] = g[1] /\ phase[f] = "holding" => phase[g] # "waiting"

Size == INSTANCE Occupancy

\* What a call finds under the lock stays true until it acts on it, whatever user code it
\* runs in between: newcomers that were let in are linked before the queue is closing, a
\* waiter that is being served or unlinked is still there, and no count is lost
\* (acquire_or_enqueue, check and close_one change len by hand).
CountsLikeTheQueue == Size!Spec

\* A call is held up when another takes the lock it waits for, ...
Overtaken(f) == /\ phase[f] = "waiting"
                /\ \E g \in Frames \ {f} : phase[g] # "holding" /\ phase'[g] = "holding"

\* ... when a waiter is added to the queue it serves in batches, or ...
Joined(f) == /\ job[f].more /\ job[f].op # "close"
             /\ len' > len

\* ... when that happens to a call from the user code it runs.
HeldUp(f) == \E g \in Frames : g[1] = f[1] /\ g[2] >= f[2] /\ (Overtaken(g) \/ Joined(g))

\* with_queue goes round until nobody waits or the state refuses, close and drop_list until
\* nobody is left, and callbacks cannot extend that one (lib.rs:271-273).  Every call
\* returns, unless it is overtaken at the lock again and again, for ever, or waiters are
\* added again and again, for ever, between the batches of its service.
EveryCallReturns ==
  \A f \in Frames : []<>(at[f] = "idle") \/ []<><<HeldUp(f)>>_vars
=============================================================================
