--------------------------- MODULE ConnectionPool ---------------------------
(***************************************************************************)
(* A pool of connections as a LIFO semaphore whose permits are the         *)
(* connections: the crate's fourth example (flag-bearer/src/lib.rs:207-    *)
(* 281), flag-bearer-examples/examples/connection_pool.rs and              *)
(* flag-bearer-tests/tests/pool.rs.                                        *)
(*                                                                         *)
(* A checkout waits for a connection for so long, checks the one it gets,  *)
(* keeps a broken one out of the pool (Permit::take), and in both cases    *)
(* opens one of its own (Permit::out_of_thin_air), which joins the pool    *)
(* when it is dropped.  A call of the semaphore is one step, with the      *)
(* service of the queue that follows.                                      *)
(***************************************************************************)
EXTENDS Integers, FiniteSets, SequencesExt

CONSTANTS
  Clients,       \* tasks that check a connection out and drop it, again and again
  Connections,   \* the connections there can be at once; a closed one's name is used again
  Seed,          \* the connections the pool is seeded with, in this order
  Nobody         \* not a connection

ASSUME PoolAssumptions == /\ IsFiniteSet(Clients)
                          /\ Seed \in Seq(Connections) /\ IsInjective(Seed)
                          /\ Nobody \notin Connections

VARIABLES
  idle,   \* Pool::idle, a stack: the last is given first
  line,   \* the waiting clients, front first: the newest
  task,   \* what each client does
  conn    \* the connection each client has: its permit, or one taken out of its permit

vars == <<idle, line, task, conn>>

\* "granted": its future has left the queue with a connection, and was not polled yet.
\* "checking": it has the connection and asks whether it lives.  "minting": it has given
\* up, or its connection was broken, and opens one.  "using": the checkout has ended.
\* "broken", "discarding": it has taken its connection out of the permit, and is about to
\* drop it, in the course of a checkout or after it.
Taken == {"broken", "discarding"}
Doing == Taken \cup {"out", "waiting", "granted", "checking", "minting", "using"}

Init == /\ idle = Seed /\ line = <<>>
        /\ task = [c \in Clients |-> "out"]
        /\ conn = [c \in Clients |-> Nobody]

Holders == {c \in Clients : task[c] \in Taken \cup {"granted", "checking", "using"}}

\* Connections that exist: the idle ones and those that are somebody's.
Opened == ToSet(idle) \cup {conn[c] : c \in Holders}

----------------------------------------------------------------------------
\* Variant of Serve that serves nobody; used to check that the properties notice it.
ServeNobody(s, q, t, h) == idle' = s /\ line' = q /\ task' = t /\ conn' = h

\* What with_queue does after a closure that leaves the stack s, the line q, the tasks t
\* and their connections h: the stack is popped for the front of the line while both last.
Serve(s, q, t, h) ==
  LET k == Min({Len(q), Len(s)})
      served == {q[i] : i \in 1..k}
  IN /\ idle' = SubSeq(s, 1, Len(s) - k)
     /\ line' = SubSeq(q, k + 1, Len(q))
     /\ task' = [c \in Clients |-> IF c \in served THEN "granted" ELSE t[c]]
     /\ conn' = [c \in Clients |-> IF c \in served
                                   THEN s[Len(s) + 1 - CHOOSE i \in 1..k : q[i] = c]
                                   ELSE h[c]]

\* An acquire that does not have to wait: a newcomer would join the front, so it may try
\* ahead of those who wait.
Pop(c, next) == /\ idle # <<>>
                /\ conn' = [conn EXCEPT ![c] = Last(idle)]
                /\ idle' = Front(idle)
                /\ task' = [task EXCEPT ![c] = next]
                /\ UNCHANGED line

\* acquire_conn starts: must_acquire is polled for the first time.
AcquireConn(c) ==
  /\ task[c] = "out"
  /\ \/ Pop(c, "checking")
     \/ /\ idle = <<>>
        /\ line' = <<c>> \o line
        /\ task' = [task EXCEPT ![c] = "waiting"]
        /\ UNCHANGED <<idle, conn>>

\* checkout (connection_pool.rs:49-54): try_acquire, and a new connection if there is none.
Checkout(c) ==
  /\ task[c] = "out"
  /\ \/ Pop(c, "using")
     \/ /\ idle = <<>>
        /\ task' = [task EXCEPT ![c] = "minting"]
        /\ UNCHANGED <<idle, line, conn>>

\* The task is polled and finds its connection.
Claim(c) == /\ task[c] = "granted"
            /\ task' = [task EXCEPT ![c] = "checking"]
            /\ UNCHANGED <<idle, line, conn>>

\* with_state(|s| s.release(conn)) for c, which goes on to `next`.
Release(c, next) == Serve(Append(idle, conn[c]), line, [task EXCEPT ![c] = next],
                          [conn EXCEPT ![c] = Nobody])

\* The line when the waiting client c is gone.
Without(c) == RemoveAt(line, CHOOSE i \in DOMAIN line : line[i] = c)

\* The future of a waiting client is dropped: it leaves the line.
Leaves(c, next) == Serve(idle, Without(c), [task EXCEPT ![c] = next], conn)

\* Variants of TimesOut that leave the client without a connection, or forget one that
\* nobody has claimed; used to check that the properties notice them.
TimesOutEmpty(c) == \/ task[c] = "waiting" /\ Leaves(c, "out")
                    \/ task[c] = "granted" /\ Release(c, "out")
TimesOutForgetting(c) ==
  \/ task[c] = "waiting" /\ Leaves(c, "minting")
  \/ task[c] = "granted" /\ Serve(idle, line, [task EXCEPT ![c] = "minting"],
                                  [conn EXCEPT ![c] = Nobody])

\* The time is over and the acquire future is dropped: the client leaves the line, or the
\* connection it was given at the same moment goes back, to the next in the line if
\* there is one.
TimesOut(c) == \/ task[c] = "waiting" /\ Leaves(c, "minting")
               \/ task[c] = "granted" /\ Release(c, "minting")

Healthy(c) == /\ task[c] = "checking"
              /\ task' = [task EXCEPT ![c] = "using"]
              /\ UNCHANGED <<idle, line, conn>>

\* Variant of Take that runs the permit's destructor all the same; used to check that the
\* properties notice it.
TakeReleasing(c, next) == Serve(Append(idle, conn[c]), line, [task EXCEPT ![c] = next], conn)

\* Permit::take: the connection stays with the client, and is nobody's permit any more.
Take(c, next) == /\ task' = [task EXCEPT ![c] = next]
                 /\ UNCHANGED <<idle, line, conn>>

Broken(c) == task[c] = "checking" /\ Take(c, "broken")
Discard(c) == task[c] = "using" /\ Take(c, "discarding")

\* Variant of Closes that puts the connection into the pool; used to check that the
\* properties notice it.
ClosesReturning(c) ==
  \/ task[c] = "broken" /\ Release(c, "minting")
  \/ task[c] = "discarding" /\ Release(c, "out")

\* What was taken is dropped, and with it the connection.
Closes(c) == /\ task[c] \in Taken
             /\ task' = [task EXCEPT ![c] = IF task[c] = "broken" THEN "minting" ELSE "out"]
             /\ conn' = [conn EXCEPT ![c] = Nobody]
             /\ UNCHANGED <<idle, line>>

\* Connection::new and Permit::out_of_thin_air
Mint(c) == /\ task[c] = "minting" /\ Connections \ Opened # {}
           /\ conn' = [conn EXCEPT ![c] = CHOOSE k \in Connections : k \notin Opened]
           /\ task' = [task EXCEPT ![c] = "using"]
           /\ UNCHANGED <<idle, line>>

\* The permit is dropped.
Drop(c) == task[c] = "using" /\ Release(c, "out")

Next == \E c \in Clients : \/ AcquireConn(c) \/ Checkout(c) \/ Claim(c) \/ TimesOut(c)
                           \/ Healthy(c) \/ Broken(c) \/ Discard(c) \/ Closes(c)
                           \/ Mint(c) \/ Drop(c)

Spec == Init /\ [][Next]_vars

\* A checkout under way goes on: the executor polls, the timer rings, the check answers,
\* a broken connection is dropped and another one opens.
Proceed(c) == Claim(c) \/ TimesOut(c) \/ Healthy(c) \/ Broken(c) \/ Closes(c) \/ Mint(c)

LiveSpec == Spec /\ \A c \in Clients : WF_vars(Proceed(c))

----------------------------------------------------------------------------
TypeOK == /\ idle \in Seq(Connections) /\ line \in Seq(Clients)
          /\ task \in [Clients -> Doing]
          /\ conn \in [Clients -> Connections \cup {Nobody}]

\* "The permits are the connections" (connection_pool.rs:1): a connection is in the pool
\* or one client's, never twice, however timeouts meet grants.  One that was taken out of
\* its permit is still its client's: take must not run the release as well.
EachInOnePlace ==
  /\ IsInjective(idle)
  /\ \A c \in Holders : conn[c] \in Connections \ ToSet(idle)
  /\ \A c, d \in Holders : conn[c] = conn[d] => c = d

\* Nobody waits while a connection lies idle.
NoneIdleWhileWaiting == line # <<>> => idle = <<>>

\* A connection is lost only on purpose: by a client that has taken it out of its permit.
\* One that is granted to a client whose time is just over goes back.
LostOnPurpose ==
  [][\A k \in Opened \ Opened' : \E c \in Clients : conn[c] = k /\ task[c] \in Taken]_vars

\* Though every timeout opens another connection, and each of them joins the pool, the
\* pool does not grow without end: it never holds as many as two for each client.
PoolBounded ==
  Cardinality(Opened) <= Max({Len(Seed), 2 * Cardinality(Clients) - 1})

\* The newest is served first and the oldest may starve (lib.rs:152-156), yet every
\* checkout ends with a connection: the timeout sees to it.
EveryCheckoutEnds ==
  \A c \in Clients : task[c] \in Doing \ {"out", "using", "discarding"} ~> task[c] = "using"
=============================================================================
