------------------------------- MODULE Mutex -------------------------------
(***************************************************************************)
(* What lock_api::RawMutex promises the queue: lock blocks until the lock  *)
(* is granted, try_lock gets it only when it is free, and at most one      *)
(* process holds it.  FutexMutex implements this specification.            *)
(***************************************************************************)
CONSTANT Procs

VARIABLE phase  \* what each process is doing: "out", "waiting" or "holding"

vars == <<phase>>

Phases == {"out", "waiting", "holding"}

Free == \A p \in Procs : phase[p] # "holding"

Init == phase = [p \in Procs |-> "out"]

\* p calls lock and the lock is free at once, or p calls try_lock on a free lock.
Take(p) == /\ phase[p] = "out"
           /\ Free
           /\ phase' = [phase EXCEPT ![p] = "holding"]

\* p calls lock and has to contend for it.
Request(p) == /\ phase[p] = "out"
              /\ phase' = [phase EXCEPT ![p] = "waiting"]

\* lock returns to p.
Grant(p) == /\ phase[p] = "waiting"
            /\ Free
            /\ phase' = [phase EXCEPT ![p] = "holding"]

\* p unlocks.
Release(p) == /\ phase[p] = "holding"
              /\ phase' = [phase EXCEPT ![p] = "out"]

Next == \E p \in Procs : Take(p) \/ Request(p) \/ Grant(p) \/ Release(p)

Spec == Init /\ [][Next]_vars
=============================================================================
