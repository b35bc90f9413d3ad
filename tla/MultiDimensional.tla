-------------------------- MODULE MultiDimensional --------------------------
(***************************************************************************)
(* Two quantities limited by one FIFO semaphore, concurrent requests and   *)
(* the bytes they hold: flag-bearer-examples/examples/                     *)
(* multi_dimensional.rs.  The crate's third example (flag-bearer/src/      *)
(* lib.rs:145-205) keeps the same two counters under LIFO, and is not      *)
(* this: there newcomers go first (Leads), and the large may starve.       *)
(*                                                                         *)
(* As in ConcurrencyLimit, a call of the semaphore is one step, with the   *)
(* service of the queue that follows.                                      *)
(***************************************************************************)
EXTENDS Integers, FiniteSets, SequencesExt, Totals

CONSTANTS
  Clients,     \* tasks that make a request, again and again
  Size,        \* the bytes each one reserves: its Params, and its Permit
  Requests,    \* requests that may be in flight at once
  Bytes        \* bytes that may be in flight at once

ASSUME BudgetAssumptions == /\ IsFiniteSet(Clients)
                            /\ Requests \in Nat \ {0} /\ Bytes \in Nat
                            /\ Size \in [Clients -> 0..Bytes]

VARIABLES
  requests, bytes,   \* Limits: what is left of the two budgets
  line,              \* the waiting clients, front first
  task               \* what each client does: idle, waiting, granted or running

vars == <<requests, bytes, line, task>>

Init == /\ requests = Requests /\ bytes = Bytes
        /\ line = <<>>
        /\ task = [c \in Clients |-> "idle"]

First(q, k) == {q[i] : i \in 1..k}

----------------------------------------------------------------------------
\* The clients S can all be given their reservations when r requests and b bytes are left.
Fit(S, r, b) == Cardinality(S) <= r /\ Total(Size, S) <= b

\* What with_queue does after a closure that leaves r, b, the line q and the tasks t: the
\* front of the line is served until the state refuses.
Serve(r, b, q, t) ==
  LET k == Max({n \in 0..Len(q) : Fit(First(q, n), r, b)})
  IN /\ requests' = r - k
     /\ bytes' = b - Total(Size, First(q, k))
     /\ line' = SubSeq(q, k + 1, Len(q))
     /\ task' = [c \in Clients |-> IF c \in First(q, k) THEN "granted" ELSE t[c]]

\* Variant of Leads that lets a newcomer that fits go first; used to check that the
\* properties notice it.
LeadsAlways(c) == c \in Clients

\* A newcomer may try only when nobody waits: FIFO holds a small request back behind a
\* large one.
Leads(c) == line = <<>>

\* must_acquire, polled for the first time: both budgets are taken from, or neither.
MustAcquire(c) ==
  /\ task[c] = "idle" /\ Leads(c) /\ Fit({c}, requests, bytes)
  /\ requests' = requests - 1
  /\ bytes' = bytes - Size[c]
  /\ task' = [task EXCEPT ![c] = "running"]
  /\ UNCHANGED line

Enqueue(c) ==
  /\ task[c] = "idle" /\ ~(Leads(c) /\ Fit({c}, requests, bytes))
  /\ line' = Append(line, c)
  /\ task' = [task EXCEPT ![c] = "waiting"]
  /\ UNCHANGED <<requests, bytes>>

Claim(c) == /\ task[c] = "granted"
            /\ task' = [task EXCEPT ![c] = "running"]
            /\ UNCHANGED <<requests, bytes, line>>

\* Variant of Release that forgets the bytes; used to check that the properties notice it.
ReleaseRequest(c) == Serve(requests + 1, bytes, line, [task EXCEPT ![c] = "idle"])

\* with_state(|s| s.release(reservation))
Release(c) == Serve(requests + 1, bytes + Size[c], line, [task EXCEPT ![c] = "idle"])

\* The permit is dropped.
Finish(c) == task[c] = "running" /\ Release(c)

\* The line when the waiting client c is gone.
Without(c) == RemoveAt(line, CHOOSE i \in DOMAIN line : line[i] = c)

\* Variant of Leave that serves nobody; used to check that the properties notice it.
LeaveQuietly(c) == /\ line' = Without(c)
                   /\ task' = [task EXCEPT ![c] = "idle"]
                   /\ UNCHANGED <<requests, bytes>>

\* A client leaves the line, which may have been waiting for this one only
\* (acquire.rs:61-63).
Leave(c) == Serve(requests, bytes, Without(c), [task EXCEPT ![c] = "idle"])

\* The client's future is dropped: it leaves the line, or returns what it was given.
Cancel(c) == \/ task[c] = "waiting" /\ Leave(c)
             \/ task[c] = "granted" /\ Release(c)

Next == \E c \in Clients : MustAcquire(c) \/ Enqueue(c) \/ Claim(c) \/ Finish(c) \/ Cancel(c)

Spec == Init /\ [][Next]_vars

\* The executor polls the clients that hold a permit or were woken, and requests end.
LiveSpec == Spec /\ \A c \in Clients : WF_vars(Claim(c)) /\ WF_vars(Finish(c))

----------------------------------------------------------------------------
Admitted == {c \in Clients : task[c] \in {"granted", "running"}}

\* "All-or-nothing" (multi_dimensional.rs:5-7): what is gone from both budgets is just
\* what the admitted hold, and never more than there is.  A waiting client holds neither a
\* request nor bytes.
BothBudgetsExact == /\ requests = Requests - Cardinality(Admitted)
                    /\ bytes = Bytes - Total(Size, Admitted)
                    /\ {requests, bytes} \subseteq Nat

\* Only the first in the line is waited for, and for want of requests or of bytes: it
\* does not wait when it fits, whoever left the line or returned what a moment ago.
HeadLacksRoom == line # <<>> => ~Fit({Head(line)}, requests, bytes)

\* No deadlock between the two dimensions and no starvation: "the 800 KiB request can't
\* start until two 512 KiB ones free their bytes" (multi_dimensional.rs:55-57), but no
\* stream of small requests keeps it out.
EveryRequestServed == \A c \in Clients : task[c] = "waiting" ~> task[c] # "waiting"
=============================================================================
