----------------------------- MODULE Semaphore ------------------------------
(***************************************************************************)
(* What the semaphore of flag-bearer promises, without locks, lists, nodes *)
(* or wakers: clients wait in a line, whoever leads it is served first,    *)
(* and every permit is either free or held.  SemaphoreQueue is shown to    *)
(* implement it.                                                           *)
(***************************************************************************)
EXTENDS Integers, SequencesExt

CONSTANTS
  Clients,   \* those who acquire
  Need,      \* the permits each of them asks for
  Order,     \* Order[n]: whether a newcomer may be put in front of a line of n
  Unfair     \* whether a newcomer may pass the line by without joining it

VARIABLES
  line,      \* the clients that wait, the first one in front
  lost,      \* those of them whose request an application that panicked has lost
  held,      \* the clients that have their permits
  free,      \* the permits that can still be given
  closed,
  poisoned

vars == <<line, lost, held, free, closed, poisoned>>

Init == /\ line = <<>> /\ lost = {} /\ held = {}
        /\ free \in Nat
        /\ closed = FALSE /\ poisoned = FALSE

Fits(f) == Need[f] <= free
Working == ~closed /\ ~poisoned

\* The client at i is the first whose request is not lost.
Leads(i) == /\ i \in DOMAIN line
            /\ line[i] \notin lost
            /\ \A j \in DOMAIN line : j < i => line[j] \in lost

\* The leader is served.  Nobody else in the line ever is.
Serve == /\ Working
         /\ \E i \in DOMAIN line :
              /\ Leads(i) /\ Fits(line[i])
              /\ line' = RemoveAt(line, i)
              /\ held' = held \cup {line[i]}
              /\ free' = free - Need[line[i]]
         /\ UNCHANGED <<lost, closed, poisoned>>

\* A newcomer is served without waiting: nobody waits, or the order has it overtake.
Admit(f) == /\ Working /\ Fits(f)
            /\ f \notin held \cup ToSet(line)
            /\ line = <<>> \/ Unfair \/ TRUE \in Order[Len(line)]
            /\ held' = held \cup {f}
            /\ free' = free - Need[f]
            /\ UNCHANGED <<line, lost, closed, poisoned>>

\* A newcomer waits at one end, if it could not be served there and then.
Join(f) == /\ Working
           /\ f \notin held \cup ToSet(line)
           /\ \E front \in Order[Len(line)] :
                /\ ~(Fits(f) /\ (front \/ line = <<>>))
                /\ line' = IF front THEN <<f>> \o line ELSE Append(line, f)
           /\ UNCHANGED <<lost, held, free, closed, poisoned>>

\* A client gives up, or is told that the semaphore is closed.
Leave == /\ \E i \in DOMAIN line : /\ line' = RemoveAt(line, i)
                                   /\ lost' = lost \ {line[i]}
         /\ UNCHANGED <<held, free, closed, poisoned>>

\* The semaphore is closed, and the first n of the line are sent away.
Close(n) == /\ closed' = TRUE
            /\ line' = SubSeq(line, n + 1, Len(line))
            /\ lost' = lost \ {line[i] : i \in 1..n}
            /\ UNCHANGED <<held, free, poisoned>>

Return(f) == /\ f \in held
             /\ held' = held \ {f}
             /\ free' = free + Need[f]
             /\ UNCHANGED <<line, lost, closed, poisoned>>

\* The application keeps a permit for good, brings one of its own, or sets the count.
Keep(f) == f \in held /\ held' = held \ {f} /\ UNCHANGED <<line, lost, free, closed, poisoned>>
Bring(f) == /\ f \notin held \cup ToSet(line)
            /\ held' = held \cup {f}
            /\ UNCHANGED <<line, lost, free, closed, poisoned>>
Adjust == free' \in Nat /\ UNCHANGED <<line, lost, held, closed, poisoned>>

\* The application's code panics: the count is whatever it left behind, and the permit
\* it was taking back, or the request it was serving, is gone.  Nobody else suffers.
Breakdown ==
  /\ poisoned' = TRUE
  /\ free' \in Nat
  /\ \/ UNCHANGED <<held, lost>>
     \/ /\ \E f \in held : held' = held \ {f}
        /\ UNCHANGED lost
     \/ /\ Working
        /\ \E i \in DOMAIN line : Leads(i) /\ lost' = lost \cup {line[i]}
        /\ UNCHANGED held
  /\ UNCHANGED <<line, closed>>

Repair == poisoned' = FALSE /\ UNCHANGED <<line, lost, held, free, closed>>

Next == \/ Serve \/ Leave \/ Adjust \/ Breakdown \/ Repair
        \/ \E f \in Clients : Admit(f) \/ Join(f) \/ Return(f) \/ Keep(f) \/ Bring(f)
        \/ \E n \in 0..Len(line) : Close(n)

Spec == Init /\ [][Next]_vars

\* A leader that fits does not wait for ever.
ServingSpec == Spec /\ WF_vars(Serve)
=============================================================================
