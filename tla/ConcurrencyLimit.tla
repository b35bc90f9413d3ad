-------------------------- MODULE ConcurrencyLimit --------------------------
(***************************************************************************)
(* A limit on the work in flight that may be raised and lowered at any     *)
(* time, even below what is in flight: the state of                        *)
(* flag-bearer-examples/examples/dynamic_limit.rs (and of the crate's      *)
(* second example, flag-bearer/src/lib.rs:87-143) under a FIFO semaphore.  *)
(*                                                                         *)
(* SemaphoreQueue shows what the semaphore does with its lock.  Here a     *)
(* call is one step: what it does to the state, and the service of the     *)
(* queue that follows.  That is exact while one batch (32) is more than    *)
(* the waiters a call can serve, as in the programs modelled.              *)
(***************************************************************************)
EXTENDS Integers, FiniteSets, SequencesExt

CONSTANTS
  Workers,     \* tasks that acquire a permit, work and drop it, again and again
  InitLimit,   \* the limit at first
  Limits       \* the limits with_state may set

ASSUME LimitAssumptions == /\ IsFiniteSet(Workers)
                           /\ InitLimit \in Nat
                           /\ Limits \subseteq Nat

VARIABLES
  in_flight,   \* the permits that are out
  limit,       \* the current ceiling
  line,        \* the waiting workers, front first
  task         \* what each worker does

vars == <<in_flight, limit, line, task>>

\* "granted": the worker's future has left the queue with a permit, and was not polled yet.
Doing == {"idle", "waiting", "granted", "running"}

Init == /\ in_flight = 0 /\ limit = InitLimit
        /\ line = <<>>
        /\ task = [w \in Workers |-> "idle"]

----------------------------------------------------------------------------
\* Variant of Room that looks at the limit of the start; used to check that the properties
\* notice it.
RoomAtFirst(n, l) == Max({0, InitLimit - n})

\* How often SemaphoreState::acquire succeeds with n in flight under the limit l.
Room(n, l) == Max({0, l - n})

\* What with_queue does after a closure that leaves n in flight, the line q and the
\* tasks t: the front of the line is served until the state refuses.
Serve(n, q, t) ==
  LET k == Min({Len(q), Room(n, limit')})
  IN /\ in_flight' = n + k
     /\ line' = SubSeq(q, k + 1, Len(q))
     /\ task' = [w \in Workers |-> IF \E i \in 1..k : q[i] = w THEN "granted" ELSE t[w]]

\* must_acquire, polled for the first time: only a worker with nobody ahead may try.
MustAcquire(w) ==
  /\ task[w] = "idle" /\ line = <<>> /\ Room(in_flight, limit) > 0
  /\ in_flight' = in_flight + 1
  /\ task' = [task EXCEPT ![w] = "running"]
  /\ UNCHANGED <<limit, line>>

\* Variant of Joined that lets the newcomer overtake; used to check that the properties
\* notice it.
JoinedInFront(w) == <<w>> \o line

\* FairOrder::Fifo
Joined(w) == Append(line, w)

\* The others wait.
Enqueue(w) ==
  /\ task[w] = "idle" /\ (line # <<>> \/ Room(in_flight, limit) = 0)
  /\ line' = Joined(w)
  /\ task' = [task EXCEPT ![w] = "waiting"]
  /\ UNCHANGED <<in_flight, limit>>

\* The task is polled and finds its permit.
Claim(w) == /\ task[w] = "granted"
            /\ task' = [task EXCEPT ![w] = "running"]
            /\ UNCHANGED <<in_flight, limit, line>>

\* Variant of Finish that hands the permit on to the next in the line, whatever the limit
\* is by now; used to check that the properties notice it.
FinishHandingOn(w) ==
  /\ task[w] = "running" /\ limit' = limit
  /\ \/ /\ line = <<>>
        /\ Serve(in_flight - 1, line, [task EXCEPT ![w] = "idle"])
     \/ /\ line # <<>>
        /\ line' = Tail(line)
        /\ task' = [task EXCEPT ![w] = "idle", ![Head(line)] = "granted"]
        /\ UNCHANGED in_flight

\* The permit is dropped: with_state(|s| s.release(())).
Finish(w) == /\ task[w] = "running"
             /\ limit' = limit
             /\ Serve(in_flight - 1, line, [task EXCEPT ![w] = "idle"])

\* Variant of Returned that forgets a permit nobody has claimed; used to check that the
\* properties notice it.
ReturnedNever(w) == in_flight

\* What is in flight when the future of w is dropped: a granted permit goes back.
Returned(w) == IF task[w] = "granted" THEN in_flight - 1 ELSE in_flight

\* The line when w is gone.
Without(w) == IF task[w] = "waiting"
              THEN RemoveAt(line, CHOOSE i \in DOMAIN line : line[i] = w) ELSE line

\* The worker's future is dropped, by a timeout for one (tests/aimd.rs:114-116): it
\* leaves the line, or returns the permit it was given at the same moment.
Cancel(w) == /\ task[w] \in {"waiting", "granted"}
             /\ limit' = limit
             /\ Serve(Returned(w), Without(w), [task EXCEPT ![w] = "idle"])

\* Variant of SetLimit that serves nobody, as a write around with_state would; used to
\* check that the properties notice it.
SetLimitOnly(l) == limit' = l /\ UNCHANGED <<in_flight, line, task>>

\* with_state(|s| s.limit = l)
SetLimit(l) == limit' = l /\ Serve(in_flight, line, task)

Next == \/ \E w \in Workers : \/ MustAcquire(w) \/ Enqueue(w) \/ Claim(w)
                              \/ Finish(w) \/ Cancel(w)
        \/ \E l \in Limits : SetLimit(l)

Spec == Init /\ [][Next]_vars

\* The executor polls the workers that hold a permit or were woken, and work ends.
LiveSpec == Spec /\ \A w \in Workers : WF_vars(Claim(w)) /\ WF_vars(Finish(w))

----------------------------------------------------------------------------
Admitted == {w \in Workers : task[w] \in {"granted", "running"}}

TypeOK == /\ in_flight \in Nat /\ limit \in Nat
          /\ line \in Seq(Workers)
          /\ task \in [Workers -> Doing]

\* The state's count is the number of permits that are out, claimed or not: release's
\* `in_flight -= 1` (dynamic_limit.rs:36) never underflows, and no cancelled worker
\* keeps a place for ever.
InFlightExact == in_flight = Cardinality(Admitted)

\* dynamic_limit.rs:7 and lib.rs:26-28: raising the limit, a permit that returns and a
\* worker that gives up let the line move at once.  Nobody waits while there is room.
WaitsOnlyWhenFull == line # <<>> => in_flight >= limit

\* "Workers already running keep their permits, but no new worker starts until in-flight
\* work falls back under the new ceiling" (dynamic_limit.rs:59-61): however the limit
\* moves, a step that admits anybody ends within the limit of that moment, one that takes
\* a permit back and gives it to the next as well, and lowering the limit takes no permit
\* away.
NoneStartsAboveLimit == [][/\ Admitted' \ Admitted # {} => in_flight' <= limit'
                           /\ limit' # limit => Admitted \subseteq Admitted']_vars

\* "Acquisitions simply pause until in-flight work drains back under the new ceiling"
\* (dynamic_limit.rs:6-7): an excess is always temporary.
ExcessDrains == in_flight > limit ~> in_flight <= limit

\* As long as the limit is not zero for good, every worker that stays in the line gets
\* its turn, whatever the limit does meanwhile.
EveryWorkerServed == []<>(limit > 0) => \A w \in Workers : task[w] = "waiting" ~> task[w] # "waiting"
=============================================================================
