-------------------------------- MODULE Aimd --------------------------------
(***************************************************************************)
(* The adaptive limiter of flag-bearer-examples/examples/aimd.rs and       *)
(* flag-bearer-tests/tests/aimd.rs: a ConcurrencyLimit whose limit grows   *)
(* by one on each success and is halved on each failure, between two       *)
(* bounds, driven by the tasks it admits and a downstream that fails when  *)
(* too many call it at once.                                               *)
(*                                                                         *)
(* The test's limit is an integer, and halving rounds half up.  The        *)
(* example's is a floating-point number x, of which admission sees only    *)
(* whether an integer is below it, that is the least integer not below x:  *)
(* and of that number adding one, halving and both clamps make what they   *)
(* make of the test's limit, since ceil(x/2) = ceil(ceil(x)/2).  Up to the *)
(* rounding of the 53rd bit, which is not modelled, `limit` stands for     *)
(* both.                                                                   *)
(***************************************************************************)
EXTENDS Integers, FiniteSets, SequencesExt

CONSTANTS
  Tasks,      \* tasks that call the downstream, each again and again
  Low,        \* Aimd::min
  High,       \* Aimd::max
  Start,      \* the limit at first
  Capacity    \* calls at once the downstream can bear, 8 in the example

ASSUME AimdAssumptions == /\ IsFiniteSet(Tasks)
                          /\ Low \in Nat \ {0} /\ High \in Nat /\ Start \in Low..High
                          /\ Capacity \in Nat \ {0}

VARIABLES in_flight, limit, line, task,
          call    \* how the call of each task went: "none" yet, "ok", "failed", or "told"

vars == <<in_flight, limit, line, task, call>>

Limit == INSTANCE ConcurrencyLimit WITH
           Workers <- Tasks, InitLimit <- Start, Limits <- Low..High

Init == Limit!Init /\ call = [t \in Tasks |-> "none"]

----------------------------------------------------------------------------
\* on_success, success
Raised(l) == Min({l + 1, High})

\* Variants of Cut that round down without the clamp, or do not cut; used to check that
\* the properties notice them.
CutDown(l) == l \div 2
CutNothing(l) == l

\* on_failure, failure
Cut(l) == Max({(l + 1) \div 2, Low})

\* A task joins, and is admitted.
Enter(t) == /\ Limit!MustAcquire(t) \/ Limit!Enqueue(t) \/ Limit!Claim(t)
            /\ UNCHANGED call

\* Its time is over (tests/aimd.rs:114-116), though it may just have been given a permit.
GivesUp(t) == Limit!Cancel(t) /\ UNCHANGED call

\* It samples how many are in flight and calls the downstream, whose answer depends on
\* that number only.
Call(t) == /\ task[t] = "running" /\ call[t] = "none"
           /\ call' = [call EXCEPT ![t] = IF in_flight <= Capacity THEN "ok" ELSE "failed"]
           /\ UNCHANGED <<in_flight, limit, line, task>>

\* It feeds the result back into the limit, its permit still in hand.
Report(t) == /\ call[t] \in {"ok", "failed"}
             /\ Limit!SetLimit(IF call[t] = "ok" THEN Raised(limit) ELSE Cut(limit))
             /\ call' = [call EXCEPT ![t] = "told"]

\* It drops the permit.
Finish(t) == /\ call[t] = "told"
             /\ Limit!Finish(t)
             /\ call' = [call EXCEPT ![t] = "none"]

Next == \E t \in Tasks : Enter(t) \/ GivesUp(t) \/ Call(t) \/ Report(t) \/ Finish(t)

Spec == Init /\ [][Next]_vars

\* The executor polls the tasks that were woken, and calls and tasks end.
LiveSpec == /\ Spec
            /\ \A t \in Tasks : /\ WF_vars(Limit!Claim(t) /\ UNCHANGED call)
                                /\ WF_vars(Call(t) \/ Report(t) \/ Finish(t))

----------------------------------------------------------------------------
\* The control loop needs "no second structure to keep in sync" (aimd.rs:6-8): whatever
\* successes and failures are reported when, the state is a concurrency limit between
\* the two bounds, with all that a concurrency limit promises.
IsALimit == Limit!Spec

\* The limit "settles just below where the downstream starts to overload" (aimd.rs:4-6):
\* an overload never lasts.  The failures it causes cut the limit until it has passed,
\* unless tasks give up for ever before the calls that would have told.
OverloadEnds == <>[][\A t \in Tasks : ~GivesUp(t)]_vars =>
                  (in_flight > Capacity ~> in_flight <= Capacity)

\* Failures never strangle the limiter: the limit stays positive, and every task that
\* stays in the line is admitted.
EveryTaskAdmitted == \A t \in Tasks : task[t] = "waiting" ~> task[t] # "waiting"
=============================================================================
