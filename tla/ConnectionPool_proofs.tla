----------------------- MODULE ConnectionPool_proofs ------------------------
(***************************************************************************)
(* The pool for any set of clients, names and seed: a connection is in one *)
(* place, none lies idle while somebody waits, and none is lost but by a   *)
(* client that takes it out of its permit.                                 *)
(***************************************************************************)
EXTENDS ConnectionPool, CommonFacts

Holding(t) == {c \in Clients : t[c] \in Taken \cup {"granted", "checking", "using"}}

\* A stack s, a line q, what the clients do and what they have, that fit together.
InOrder(s, q, t, h) ==
  /\ s \in Seq(Connections) /\ IsInjective(s)
  /\ q \in Seq(Clients) /\ IsInjective(q)
  /\ t \in [Clients -> Doing] /\ h \in [Clients -> Connections \cup {Nobody}]
  /\ \A c \in Clients : t[c] = "waiting" <=> c \in ToSet(q)
  /\ \A c \in Holding(t) : h[c] \in Connections \ ToSet(s)
  /\ \A c, d \in Holding(t) : h[c] = h[d] => c = d

OpenedIn(s, t, h) == ToSet(s) \cup {h[c] : c \in Holding(t)}

PInv == InOrder(idle, line, task, conn) /\ NoneIdleWhileWaiting

----------------------------------------------------------------------------
\* What is left of a stack when k are popped.
LEMMA PopKeepsInjective ==
  ASSUME NEW S, NEW s \in Seq(S), IsInjective(s), NEW k \in 0..Len(s)
  PROVE  LET r == SubSeq(s, 1, Len(s) - k)
         IN /\ r \in Seq(S) /\ Len(r) = Len(s) - k /\ IsInjective(r)
            /\ ToSet(r) \subseteq ToSet(s)
            /\ \A j \in 1..Len(s) : s[j] \in ToSet(r) <=> j <= Len(s) - k
<1> DEFINE m == Len(s) - k
           r == SubSeq(s, 1, m)
<1>1. Len(s) \in Nat /\ m \in 0..Len(s) /\ DOMAIN s = 1..Len(s)
  BY LenProperties
<1> HIDE DEF m
<1>2. /\ r \in Seq(S) /\ Len(r) = m
      /\ \A j \in 1..m : r[j] = s[j]
  BY <1>1
<1>3. DOMAIN r = 1..m
  BY <1>2, LenProperties
<1> HIDE DEF r
<1>4. \A i, j \in 1..Len(s) : s[i] = s[j] => i = j
  BY <1>1 DEF IsInjective
<1>5. \A j \in 1..m : j \in 1..Len(s)
  BY <1>1
<1>6. IsInjective(r)
  BY <1>2, <1>3, <1>4, <1>5 DEF IsInjective
<1>7. ToSet(r) = {s[j] : j \in 1..m}
  BY <1>2, <1>3 DEF ToSet
<1>8. ToSet(r) \subseteq ToSet(s)
  BY <1>1, <1>5, <1>7 DEF ToSet
<1>9. ASSUME NEW j \in 1..Len(s) PROVE s[j] \in ToSet(r) <=> j <= m
  BY <1>1, <1>4, <1>5, <1>7
<1> QED
  BY <1>2, <1>6, <1>8, <1>9 DEF r, m

\* What is served when the k in front are given the k on the top.
Gives(s, q, t, h, k) ==
  /\ idle' = SubSeq(s, 1, Len(s) - k)
  /\ line' = SubSeq(q, k + 1, Len(q))
  /\ task' = [c \in Clients |-> IF c \in {q[i] : i \in 1..k} THEN "granted" ELSE t[c]]
  /\ conn' = [c \in Clients |-> IF c \in {q[i] : i \in 1..k}
                                THEN s[Len(s) + 1 - CHOOSE i \in 1..k : q[i] = c] ELSE h[c]]

\* Serving pops k connections for the k in front, and ends for want of either.
LEMMA ServeIs ==
  ASSUME NEW s \in Seq(Connections), NEW q \in Seq(Clients), NEW t, NEW h, Serve(s, q, t, h)
  PROVE  \E k \in Nat : /\ k <= Len(q) /\ k <= Len(s) /\ (k = Len(q) \/ k = Len(s))
                        /\ Gives(s, q, t, h, k)
<1> DEFINE k == Min({Len(q), Len(s)})
<1>1. Len(q) \in Nat /\ Len(s) \in Nat
  BY LenProperties
<1>2. k \in Nat /\ k <= Len(q) /\ k <= Len(s) /\ (k = Len(q) \/ k = Len(s))
  BY <1>1, MinOfTwo
<1> QED
  BY <1>2 DEF Serve, Gives

\* Serving keeps everything in order, leaves none idle for want of looking, and neither
\* opens nor loses a connection.
LEMMA ServeKeeps ==
  ASSUME NEW s \in Seq(Connections), NEW q \in Seq(Clients), NEW t, NEW h,
         InOrder(s, q, t, h), Serve(s, q, t, h)
  PROVE  PInv' /\ OpenedIn(idle', task', conn') = OpenedIn(s, t, h)
<1>t. s \in Seq(Connections) /\ IsInjective(s) /\ q \in Seq(Clients) /\ IsInjective(q)
  BY DEF InOrder
<1>u. t \in [Clients -> Doing] /\ h \in [Clients -> Connections \cup {Nobody}]
  BY DEF InOrder
<1>1. Len(q) \in Nat /\ Len(s) \in Nat
  BY LenProperties
<1>d. DOMAIN q = 1..Len(q) /\ DOMAIN s = 1..Len(s)
  BY LenProperties
<1>2. PICK k \in Nat : /\ k <= Len(q) /\ k <= Len(s) /\ (k = Len(q) \/ k = Len(s))
                       /\ Gives(s, q, t, h, k)
  BY ServeIs
<1> DEFINE F == {q[i] : i \in 1..k}
           At(c) == CHOOSE i \in 1..k : q[i] = c
<1>3. /\ idle' = SubSeq(s, 1, Len(s) - k)
      /\ line' = SubSeq(q, k + 1, Len(q))
      /\ task' = [c \in Clients |-> IF c \in F THEN "granted" ELSE t[c]]
      /\ conn' = [c \in Clients |-> IF c \in F THEN s[Len(s) + 1 - At(c)] ELSE h[c]]
  BY <1>2 DEF Gives
<1>k. k \in 0..Len(q) /\ k \in 0..Len(s) /\ (k = Len(q) \/ k = Len(s))
  BY <1>1, <1>2
<1>4. /\ idle' \in Seq(Connections) /\ Len(idle') = Len(s) - k
      /\ line' \in Seq(Clients) /\ Len(line') = Len(q) - k
  <2>1. idle' \in Seq(Connections) /\ Len(idle') = Len(s) - k
    BY <1>t, <1>1, <1>k, <1>3, PopKeepsInjective
  <2>2. line' \in Seq(Clients) /\ Len(line') = Len(q) - k
    BY <1>t, <1>1, <1>k, <1>3, DropKeepsInjective
  <2> QED
    BY <2>1, <2>2
<1>5. NoneIdleWhileWaiting'
  <2>1. Len(line') = 0 \/ Len(idle') = 0
    BY <1>1, <1>k, <1>4
  <2> QED
    BY <1>4, <2>1, EmptySeq DEF NoneIdleWhileWaiting
<1>6. \A c \in F : At(c) \in 1..k /\ q[At(c)] = c
  OBVIOUS
<1> HIDE DEF At
<1>7. /\ idle' \in Seq(Connections) /\ IsInjective(idle') /\ ToSet(idle') \subseteq ToSet(s)
      /\ \A j \in 1..Len(s) : s[j] \in ToSet(idle') <=> j <= Len(s) - k
  BY <1>t, <1>1, <1>k, <1>3, PopKeepsInjective
<1>8. line' \in Seq(Clients) /\ IsInjective(line') /\ ToSet(line') = ToSet(q) \ F
  BY <1>t, <1>1, <1>k, <1>3, DropKeepsInjective
<1>9. F \subseteq ToSet(q) /\ F \subseteq Clients /\ \A c \in F : t[c] = "waiting"
  <2>0. \A i \in 1..k : i \in 1..Len(q)
    BY <1>1, <1>k
  <2>1. F \subseteq ToSet(q)
    BY <1>d, <2>0 DEF ToSet
  <2>2. ToSet(q) \subseteq Clients
    BY <1>1, <1>d, <1>t DEF ToSet
  <2> QED
    BY <2>1, <2>2 DEF InOrder
<1>10. \A c \in F : /\ Len(s) + 1 - At(c) \in 1..Len(s)
                    /\ Len(s) + 1 - At(c) > Len(s) - k
  BY <1>1, <1>k, <1>6
<1>11. \A c \in F : conn'[c] = s[Len(s) + 1 - At(c)] /\ conn'[c] \in ToSet(s) \ ToSet(idle')
  <2> SUFFICES ASSUME NEW c \in F
               PROVE  conn'[c] = s[Len(s) + 1 - At(c)] /\ conn'[c] \in ToSet(s) \ ToSet(idle')
    OBVIOUS
  <2>1. conn'[c] = s[Len(s) + 1 - At(c)]
    BY <1>3, <1>9
  <2> DEFINE j == Len(s) + 1 - At(c)
  <2>2. j \in 1..Len(s) /\ ~(j <= Len(s) - k)
    BY <1>1, <1>k, <1>10
  <2>3. s[j] \in ToSet(s)
    BY <1>1, <1>d, <1>t, <2>2 DEF ToSet
  <2> QED
    BY <1>7, <2>1, <2>2, <2>3
<1>12. ToSet(s) \subseteq Connections
  BY <1>1, <1>d, <1>t DEF ToSet
<1>13. Holding(task') = Holding(t) \cup F /\ Holding(t) \cap F = {}
  BY <1>3, <1>9 DEF Holding, Taken
<1>14. \A c \in Holding(t) : conn'[c] = h[c] /\ h[c] \in Connections \ ToSet(s)
  BY <1>3, <1>13 DEF Holding, Taken, InOrder
<1>15. \A c, d \in F : conn'[c] = conn'[d] => c = d
  <2> SUFFICES ASSUME NEW c \in F, NEW d \in F, conn'[c] = conn'[d] PROVE c = d
    OBVIOUS
  <2>1. Len(s) + 1 - At(c) = Len(s) + 1 - At(d)
    BY <1>1, <1>d, <1>t, <1>10, <1>11 DEF IsInjective
  <2>2. At(c) \in Int /\ At(d) \in Int
    BY <1>6
  <2>3. At(c) = At(d)
    BY <2>1, <2>2, <1>1
  <2> QED
    BY <2>3, <1>6
<1>16. \A c, d \in Holding(task') : conn'[c] = conn'[d] => c = d
  BY <1>11, <1>13, <1>14, <1>15 DEF InOrder
<1>17. \A c \in Holding(task') : conn'[c] \in Connections \ ToSet(idle')
  BY <1>7, <1>11, <1>12, <1>13, <1>14
<1>18. task' \in [Clients -> Doing] /\ conn' \in [Clients -> Connections \cup {Nobody}]
  <2>1. task' \in [Clients -> Doing]
    BY <1>u, <1>3 DEF Doing, Taken
  <2>2. \A c \in Clients : conn'[c] \in Connections \cup {Nobody}
    BY <1>u, <1>3, <1>11, <1>12
  <2> QED
    BY <1>3, <2>1, <2>2
<1>19. \A c \in Clients : task'[c] = "waiting" <=> c \in ToSet(line')
  BY <1>3, <1>8, <1>9 DEF InOrder
<1>20. InOrder(idle', line', task', conn')
  BY <1>7, <1>8, <1>16, <1>17, <1>18, <1>19 DEF InOrder
<1>21. ASSUME NEW x \in ToSet(s) \ ToSet(idle') PROVE \E c \in F : conn'[c] = x
  <2>1. PICK j \in 1..Len(s) : s[j] = x
    BY <1>1, <1>d, <1>t DEF ToSet
  <2>2. ~(j <= Len(s) - k)
    BY <1>7, <1>21, <2>1
  <2>3. Len(s) + 1 - j \in 1..k /\ Len(s) + 1 - j \in 1..Len(q)
    BY <1>1, <1>k, <2>2
  <2> DEFINE c == q[Len(s) + 1 - j]
  <2>4. c \in F /\ At(c) \in 1..k /\ At(c) \in 1..Len(q) /\ q[At(c)] = c
    BY <1>1, <1>k, <1>6, <2>3
  <2>5. At(c) = Len(s) + 1 - j
    BY <1>1, <1>d, <1>t, <2>3, <2>4 DEF IsInjective
  <2>6. Len(s) + 1 - At(c) = j
    BY <1>1, <2>5
  <2> QED
    BY <1>11, <2>1, <2>4, <2>6
<1>22. OpenedIn(idle', task', conn') = OpenedIn(s, t, h)
  <2>1. {conn'[c] : c \in F} = ToSet(s) \ ToSet(idle')
    BY <1>11, <1>21
  <2>2. {conn'[c] : c \in Holding(task')} = {h[c] : c \in Holding(t)} \cup {conn'[c] : c \in F}
    BY <1>13, <1>14
  <2> QED
    BY <1>7, <2>1, <2>2 DEF OpenedIn
<1> QED
  BY <1>5, <1>20, <1>22 DEF PInv
----------------------------------------------------------------------------
(* One lemma for each kind of action: it keeps the invariant, and is a     *)
(* step of LostOnPurpose                                                   *)

\* The step formula of LostOnPurpose.
Loses == \A k \in Opened \ Opened' :
            \E c \in Clients : conn[c] = k /\ task[c] \in Taken

\* The connections that exist, before and after a step.
LEMMA OpenedIs ==
  /\ Opened = OpenedIn(idle, task, conn) /\ Opened' = OpenedIn(idle', task', conn')
  /\ Holders = Holding(task)
BY DEF Opened, OpenedIn, Holders, Holding

\* A service that follows a closure which closes no connection closes none.
LEMMA ServeStep ==
  ASSUME NEW s, NEW q, NEW t, NEW h, InOrder(s, q, t, h), Serve(s, q, t, h),
         Opened \subseteq OpenedIn(s, t, h)
  PROVE  PInv' /\ Loses
<1>1. s \in Seq(Connections) /\ q \in Seq(Clients)
  BY DEF InOrder
<1>2. PInv' /\ OpenedIn(idle', task', conn') = OpenedIn(s, t, h)
  BY <1>1, ServeKeeps
<1> QED
  BY <1>2, OpenedIs DEF Loses

\* acquire_conn and checkout, when a connection is idle: the top of the stack is given.
LEMMA PopKeeps ==
  ASSUME PInv, NEW c \in Clients, task[c] = "out",
         NEW next \in {"checking", "using"}, Pop(c, next)
  PROVE  PInv' /\ Loses
<1>1. /\ idle \in Seq(Connections) /\ IsInjective(idle) /\ idle # <<>> /\ line = <<>> /\ line' = line
      /\ task \in [Clients -> Doing] /\ conn \in [Clients -> Connections \cup {Nobody}]
      /\ task' = [task EXCEPT ![c] = next]
  BY DEF PInv, InOrder, NoneIdleWhileWaiting, Pop
<1>2. Len(idle) \in Nat /\ Len(idle) > 0 /\ DOMAIN idle = 1..Len(idle)
  BY <1>1, LenProperties, EmptySeq
<1>n. Len(idle) \in Nat
  BY <1>2
<1> DEFINE n == Len(idle)
           x == idle[n]
<1>3. /\ idle' = SubSeq(idle, 1, n - 1)
      /\ conn' = [conn EXCEPT ![c] = x]
  BY DEF Pop, Last, Front
<1>4. /\ idle' \in Seq(Connections) /\ IsInjective(idle') /\ ToSet(idle') \subseteq ToSet(idle)
      /\ \A j \in 1..n : idle[j] \in ToSet(idle') <=> j <= n - 1
  <2>1. 1 \in 0..n
    BY <1>2
  <2> QED
    BY <1>1, <1>3, <2>1, PopKeepsInjective
<1>5. n \in 1..n /\ ~(n <= n - 1)
  BY <1>2
<1>6. x \in ToSet(idle) /\ x \notin ToSet(idle') /\ ToSet(idle) \subseteq Connections
  BY <1>1, <1>2, <1>4, <1>5 DEF ToSet
<1>7. \A y \in ToSet(idle) : y \in ToSet(idle') \/ y = x
  <2> SUFFICES ASSUME NEW y \in ToSet(idle) PROVE y \in ToSet(idle') \/ y = x
    OBVIOUS
  <2>1. PICK j \in 1..n : idle[j] = y
    BY <1>2 DEF ToSet
  <2>2. j <= n - 1 \/ j = n
    BY <1>n
  <2> QED
    BY <1>4, <2>1, <2>2
<1> HIDE DEF x
<1>8. /\ Holding(task') = Holding(task) \cup {c} /\ c \notin Holding(task)
      /\ conn'[c] = x /\ \A d \in Holding(task) : conn'[d] = conn[d]
  BY <1>1, <1>3 DEF Holding, Taken
<1>9. \A d \in Holding(task) : conn[d] \in Connections \ ToSet(idle)
  BY DEF PInv, InOrder
<1>10. /\ task' \in [Clients -> Doing] /\ conn' \in [Clients -> Connections \cup {Nobody}]
       /\ \A d \in Clients : task'[d] = "waiting" <=> task[d] = "waiting"
  BY <1>1, <1>3, <1>6 DEF Doing, Taken
<1>11. /\ \A d \in Holding(task') : conn'[d] \in Connections \ ToSet(idle')
       /\ \A d, e \in Holding(task') : conn'[d] = conn'[e] => d = e
  BY <1>4, <1>6, <1>8, <1>9 DEF PInv, InOrder
<1>12. PInv'
  BY <1>1, <1>4, <1>10, <1>11 DEF PInv, InOrder, NoneIdleWhileWaiting
<1>13. Opened \subseteq Opened'
  BY <1>7, <1>8, OpenedIs DEF OpenedIn
<1> QED
  BY <1>12, <1>13 DEF Loses

\* A connection that its holder gives back joins the stack, and the line is served.
LEMMA ReleaseKeeps ==
  ASSUME PInv, NEW c \in Holding(task), NEW next \in {"out", "minting"}, Release(c, next)
  PROVE  PInv' /\ Loses
<1> DEFINE s == Append(idle, conn[c])
           t == [task EXCEPT ![c] = next]
           h == [conn EXCEPT ![c] = Nobody]
<1>1. /\ idle \in Seq(Connections) /\ IsInjective(idle)
      /\ task \in [Clients -> Doing] /\ conn \in [Clients -> Connections \cup {Nobody}]
      /\ c \in Clients /\ task[c] # "waiting" /\ conn[c] \in Connections \ ToSet(idle)
  BY DEF PInv, InOrder, Holding, Taken
<1>2. /\ s \in Seq(Connections) /\ IsInjective(s)
      /\ ToSet(s) = ToSet(idle) \cup {conn[c]}
  BY <1>1, AppendKeepsInjective
<1>3. /\ t \in [Clients -> Doing] /\ h \in [Clients -> Connections \cup {Nobody}]
      /\ \A d \in Clients : t[d] = "waiting" <=> task[d] = "waiting"
      /\ Holding(t) = Holding(task) \ {c}
      /\ \A d \in Holding(t) : h[d] = conn[d]
  BY <1>1 DEF Doing, Taken, Holding
<1>4. Serve(s, line, t, h)
  BY DEF Release
<1> HIDE DEF s, t, h
<1>5. InOrder(s, line, t, h)
  BY <1>2, <1>3 DEF PInv, InOrder
<1>6. Opened \subseteq OpenedIn(s, t, h)
  BY <1>2, <1>3, OpenedIs DEF OpenedIn
<1> QED
  BY <1>4, <1>5, <1>6, ServeStep

\* A waiting client leaves the line.
LEMMA LeavesKeeps ==
  ASSUME PInv, NEW c \in Clients, task[c] = "waiting", Leaves(c, "minting")
  PROVE  PInv' /\ Loses
<1> DEFINE q == Without(c)
           t == [task EXCEPT ![c] = "minting"]
           p == CHOOSE i \in DOMAIN line : line[i] = c
<1>1. line \in Seq(Clients) /\ IsInjective(line) /\ task \in [Clients -> Doing]
  BY DEF PInv, InOrder
<1>2. p \in DOMAIN line /\ line[p] = c
  BY DEF PInv, InOrder, ToSet
<1>3. q = RemoveAt(line, p)
  BY DEF Without
<1> HIDE DEF p
<1>4. q \in Seq(Clients) /\ IsInjective(q) /\ ToSet(q) = ToSet(line) \ {c}
  BY <1>1, <1>2, <1>3, RemoveAtProperties, RemoveAtKeepsInjective
<1>5. /\ t \in [Clients -> Doing] /\ Holding(t) = Holding(task)
      /\ \A d \in Clients : t[d] = "waiting" <=> task[d] = "waiting" /\ d # c
  BY <1>1 DEF Doing, Taken, Holding
<1>6. Serve(idle, q, t, conn)
  BY DEF Leaves
<1> HIDE DEF q, t
<1>7. InOrder(idle, q, t, conn)
  BY <1>4, <1>5 DEF PInv, InOrder
<1>8. Opened \subseteq OpenedIn(idle, t, conn)
  BY <1>5, OpenedIs DEF OpenedIn
<1> QED
  BY <1>6, <1>7, <1>8, ServeStep

\* acquire_conn finds no connection: the client joins the front of the line.
LEMMA WaitsKeeps ==
  ASSUME PInv, NEW c \in Clients, task[c] = "out", idle = <<>>, line' = <<c>> \o line,
         task' = [task EXCEPT ![c] = "waiting"], UNCHANGED <<idle, conn>>
  PROVE  PInv' /\ Loses
<1>1. c \notin ToSet(line) /\ line \in Seq(Clients) /\ IsInjective(line)
      /\ task \in [Clients -> Doing]
  BY DEF PInv, InOrder
<1>2. line' \in Seq(Clients) /\ IsInjective(line') /\ ToSet(line') = ToSet(line) \cup {c}
  BY <1>1, PrependKeepsInjective
<1>3. /\ task' \in [Clients -> Doing] /\ Holding(task') = Holding(task)
      /\ \A d \in Clients : task'[d] = "waiting" <=> task[d] = "waiting" \/ d = c
  BY <1>1 DEF Doing, Taken, Holding
<1>4. PInv'
  BY <1>2, <1>3 DEF PInv, InOrder, NoneIdleWhileWaiting
<1>5. Opened' = Opened
  BY <1>3, OpenedIs DEF OpenedIn
<1> QED
  BY <1>4, <1>5 DEF Loses

\* A client goes on, and neither gets nor gives up a connection.
LEMMA GoesOnKeeps ==
  ASSUME PInv, NEW c \in Clients, NEW next, task' = [task EXCEPT ![c] = next],
         UNCHANGED <<idle, line, conn>>,
         \/ task[c] \in {"granted", "checking"} /\ next \in {"checking", "using"}
         \/ task[c] = "checking" /\ next = "broken"
         \/ task[c] = "using" /\ next = "discarding"
         \/ task[c] = "out" /\ next = "minting"
  PROVE  PInv' /\ Loses
<1>1. task \in [Clients -> Doing]
  BY DEF PInv, InOrder
<1>2. /\ task' \in [Clients -> Doing] /\ Holding(task') = Holding(task)
      /\ \A d \in Clients : task'[d] = "waiting" <=> task[d] = "waiting"
  BY <1>1 DEF Doing, Taken, Holding
<1>3. PInv'
  BY <1>2 DEF PInv, InOrder, NoneIdleWhileWaiting
<1>4. Opened' = Opened
  BY <1>2, OpenedIs DEF OpenedIn
<1> QED
  BY <1>3, <1>4 DEF Loses

\* A connection that was taken out of its permit is dropped.
LEMMA ClosesKeeps ==
  ASSUME PInv, NEW c \in Clients, task[c] \in Taken,
         NEW next \in {"out", "minting"}, task' = [task EXCEPT ![c] = next],
         conn' = [conn EXCEPT ![c] = Nobody], UNCHANGED <<idle, line>>
  PROVE  PInv' /\ Loses
<1>1. task \in [Clients -> Doing] /\ conn \in [Clients -> Connections \cup {Nobody}]
  BY DEF PInv, InOrder
<1>2. /\ task' \in [Clients -> Doing] /\ conn' \in [Clients -> Connections \cup {Nobody}]
      /\ Holding(task') = Holding(task) \ {c}
      /\ \A d \in Holding(task') : conn'[d] = conn[d]
      /\ \A d \in Clients : task'[d] = "waiting" <=> task[d] = "waiting"
  BY <1>1 DEF Doing, Taken, Holding
<1>3. PInv'
  <2>1. UNCHANGED <<idle, line>> /\ NoneIdleWhileWaiting'
    BY DEF PInv, NoneIdleWhileWaiting
  <2>2. \A d \in Holding(task') : conn[d] \in Connections \ ToSet(idle)
    BY <1>2 DEF PInv, InOrder
  <2>3. \A d, e \in Holding(task') : conn'[d] = conn'[e] => d = e
    BY <1>2 DEF PInv, InOrder
  <2> QED
    BY <1>2, <2>1, <2>2, <2>3 DEF PInv, InOrder
<1>4. \A k \in Opened \ Opened' : k = conn[c]
  BY <1>2, OpenedIs DEF OpenedIn
<1> QED
  BY <1>3, <1>4 DEF Loses

\* Permit::out_of_thin_air: the connection that the client has opened is its permit.
LEMMA MintKeeps ==
  ASSUME PInv, NEW c \in Clients, Mint(c) PROVE PInv' /\ Loses
<1> DEFINE x == CHOOSE k \in Connections : k \notin Opened
<1>1. task \in [Clients -> Doing] /\ conn \in [Clients -> Connections \cup {Nobody}]
  BY DEF PInv, InOrder
<1>2. x \in Connections /\ x \notin Opened
  BY DEF Mint
<1>3. /\ task[c] = "minting" /\ task' = [task EXCEPT ![c] = "using"]
      /\ conn' = [conn EXCEPT ![c] = x] /\ UNCHANGED <<idle, line>>
  BY DEF Mint
<1> HIDE DEF x
<1>4. /\ task' \in [Clients -> Doing] /\ conn' \in [Clients -> Connections \cup {Nobody}]
      /\ Holding(task') = Holding(task) \cup {c} /\ c \notin Holding(task)
      /\ conn'[c] = x /\ \A d \in Holding(task) : conn'[d] = conn[d]
      /\ \A d \in Clients : task'[d] = "waiting" <=> task[d] = "waiting"
  BY <1>1, <1>2, <1>3 DEF Doing, Taken, Holding
<1>5. x \notin ToSet(idle) /\ \A d \in Holding(task) : conn[d] # x
  BY <1>2, OpenedIs DEF OpenedIn
<1>6. \A d \in Holding(task) : conn[d] \in Connections \ ToSet(idle)
  BY DEF PInv, InOrder
<1>7. \A d \in Holding(task') : conn'[d] \in Connections \ ToSet(idle')
  BY <1>2, <1>3, <1>4, <1>5, <1>6
<1>8. \A d, e \in Holding(task) : conn[d] = conn[e] => d = e
  BY DEF PInv, InOrder
<1>9. ASSUME NEW d \in Holding(task'), NEW e \in Holding(task'), conn'[d] = conn'[e]
      PROVE  d = e
  <2>1. CASE d \in Holding(task) /\ e \in Holding(task)
    BY <1>4, <1>8, <1>9, <2>1
  <2>2. CASE d = c \/ e = c
    BY <1>4, <1>5, <1>9, <2>2
  <2> QED
    BY <1>4, <2>1, <2>2
<1>10. InOrder(idle', line', task', conn')
  <2>1. /\ idle' \in Seq(Connections) /\ IsInjective(idle')
        /\ line' \in Seq(Clients) /\ IsInjective(line')
        /\ \A d \in Clients : task'[d] = "waiting" <=> d \in ToSet(line')
    BY <1>3, <1>4 DEF PInv, InOrder
  <2> QED
    BY <1>4, <1>7, <1>9, <2>1 DEF InOrder
<1>11. PInv'
  BY <1>3, <1>10 DEF PInv, NoneIdleWhileWaiting
<1>12. Opened \subseteq Opened'
  BY <1>3, <1>4, OpenedIs DEF OpenedIn
<1> QED
  BY <1>11, <1>12 DEF Loses

\* The seeded pool is in order.
LEMMA PInvInit == Init => PInv
<1> SUFFICES ASSUME Init PROVE PInv
  OBVIOUS
<1>1. <<>> \in Seq(Clients) /\ IsInjective(<<>>) /\ ToSet(<<>>) = {}
  BY DEF IsInjective, ToSet
<1>2. Holding(task) = {}
  BY DEF Init, Holding, Taken
<1> QED
  BY <1>1, <1>2, PoolAssumptions DEF Init, PInv, InOrder, NoneIdleWhileWaiting, Doing, Taken

\* Every step keeps the pool in order, and loses a connection only on purpose.
LEMMA PInvStep == PInv /\ [Next]_vars => PInv' /\ [Loses]_vars
<1> SUFFICES ASSUME PInv, [Next]_vars PROVE PInv' /\ [Loses]_vars
  OBVIOUS
<1>1. CASE UNCHANGED vars
  BY <1>1 DEF vars, PInv, InOrder, Holding, NoneIdleWhileWaiting
<1>2. ASSUME NEW c \in Clients, AcquireConn(c) PROVE PInv' /\ Loses
  <2>1. CASE Pop(c, "checking")
    BY <1>2, <2>1, PopKeeps DEF AcquireConn
  <2> QED
    BY <1>2, <2>1, WaitsKeeps DEF AcquireConn
<1>3. ASSUME NEW c \in Clients, Checkout(c) PROVE PInv' /\ Loses
  <2>1. CASE Pop(c, "using")
    BY <1>3, <2>1, PopKeeps DEF Checkout
  <2> QED
    BY <1>3, <2>1, GoesOnKeeps DEF Checkout
<1>4. ASSUME NEW c \in Clients, TimesOut(c) PROVE PInv' /\ Loses
  <2>1. CASE task[c] = "granted" /\ Release(c, "minting")
    BY <2>1, ReleaseKeeps DEF Holding, Taken
  <2> QED
    BY <1>4, <2>1, LeavesKeeps DEF TimesOut
<1>5. ASSUME NEW c \in Clients, Claim(c) \/ Healthy(c) PROVE PInv' /\ Loses
  BY <1>5, GoesOnKeeps DEF Claim, Healthy
<1>6. ASSUME NEW c \in Clients, Broken(c) \/ Discard(c) \/ Closes(c) PROVE PInv' /\ Loses
  BY <1>6, GoesOnKeeps, ClosesKeeps DEF Broken, Discard, Take, Closes
<1>7. ASSUME NEW c \in Clients, Drop(c) PROVE PInv' /\ Loses
  BY <1>7, ReleaseKeeps DEF Drop, Holding, Taken
<1>8. ASSUME NEW c \in Clients, Mint(c) PROVE PInv' /\ Loses
  BY <1>8, MintKeeps
<1> QED
  BY <1>1, <1>2, <1>3, <1>4, <1>5, <1>6, <1>7, <1>8 DEF Next

----------------------------------------------------------------------------
\* A connection is in the pool or one client's, never twice.
THEOREM OnePlaceForEach == Spec => []EachInOnePlace
<1>1. PInv => EachInOnePlace
  BY OpenedIs DEF PInv, InOrder, EachInOnePlace
<1> QED
  BY <1>1, PInvInit, PInvStep, PTL DEF Spec

\* Nobody waits for a connection while one lies idle.
THEOREM NoneIdle == Spec => []NoneIdleWhileWaiting
<1>1. PInv => NoneIdleWhileWaiting
  BY DEF PInv
<1> QED
  BY <1>1, PInvInit, PInvStep, PTL DEF Spec

\* No connection is lost between a timeout and the grant it races with.
THEOREM NoneLost == Spec => LostOnPurpose
<1>1. PInv /\ [Next]_vars => [\A k \in Opened \ Opened' :
                                \E c \in Clients : conn[c] = k /\ task[c] \in Taken]_vars
  BY PInvStep DEF Loses
<1> QED
  BY <1>1, PInvInit, PInvStep, PTL DEF Spec, LostOnPurpose

----------------------------------------------------------------------------
(* How large the pool grows *)

Busy(t) == {c \in Clients : t[c] \in Taken \cup {"granted", "checking", "minting", "using"}}
Granted(t) == {c \in Clients : t[c] = "granted"}

\* The connections there are, or are going to be: the idle ones, one for each busy client,
\* and a second for one that was granted, as it may give that one back and open another.
Claims(s, t) == Len(s) + Cardinality(Busy(t)) + Cardinality(Granted(t))

Weight(x) == IF x = "granted" THEN 2
             ELSE IF x \in Taken \cup {"checking", "minting", "using"} THEN 1 ELSE 0

Bound == Max({Len(Seed), 2 * Cardinality(Clients) - 1})

BInv == PInv /\ Claims(idle, task) <= Bound

\* The clients are finitely many, and so are those at any place.
LEMMA ClientsAreFinite ==
  ASSUME NEW S \in SUBSET Clients
  PROVE  /\ IsFiniteSet(S) /\ Cardinality(S) \in Nat
         /\ Cardinality(Clients) \in Nat /\ Cardinality(S) <= Cardinality(Clients)
BY PoolAssumptions, FS_Subset, FS_CardinalityType

\* The bound is the larger of the two.
LEMMA BoundIs == Bound \in Int /\ Len(Seed) <= Bound /\ 2 * Cardinality(Clients) - 1 <= Bound
<1>1. Len(Seed) \in Int /\ 2 * Cardinality(Clients) - 1 \in Int
  BY PoolAssumptions, LenProperties, ClientsAreFinite
<1> DEFINE a == Len(Seed)
           b == 2 * Cardinality(Clients) - 1
<1>2. Bound = Max({a, b})
  BY DEF Bound
<1> HIDE DEF a, b
<1>3. Bound = IF a <= b THEN b ELSE a
  BY <1>1, <1>2, MaxOfTwo DEF a, b
<1>4. Bound \in Int /\ a <= Bound /\ b <= Bound
  BY <1>1, <1>3 DEF a, b
<1> QED
  BY <1>4 DEF a, b

In(c, S) == IF c \in S THEN 1 ELSE 0

\* A set of clients with and without one of them.
LEMMA OneMoreOrLess ==
  ASSUME NEW S \in SUBSET Clients, NEW T \in SUBSET Clients, NEW c \in Clients,
         S \ {c} = T \ {c}
  PROVE  Cardinality(T) = Cardinality(S) - In(c, S) + In(c, T)
<1>1. /\ IsFiniteSet(S) /\ Cardinality(S) \in Nat /\ IsFiniteSet(T) /\ Cardinality(T) \in Nat
  BY ClientsAreFinite
<1>2. Cardinality(S \ {c}) = IF c \in S THEN Cardinality(S) - 1 ELSE Cardinality(S)
  BY <1>1, FS_RemoveElement
<1>3. Cardinality(T \ {c}) = IF c \in T THEN Cardinality(T) - 1 ELSE Cardinality(T)
  BY <1>1, FS_RemoveElement
<1>4. Cardinality(S \ {c}) = Cardinality(T \ {c})
  OBVIOUS
<1> QED
  BY <1>1, <1>2, <1>3, <1>4 DEF In

\* One client moves.
LEMMA ClaimsOfOneMove ==
  ASSUME NEW s \in Seq(Connections), NEW t \in [Clients -> Doing], NEW c \in Clients,
         NEW next \in Doing
  PROVE  LET u == [t EXCEPT ![c] = next]
         IN /\ Claims(s, t) \in Nat /\ Claims(s, u) \in Nat
            /\ Claims(s, u) = Claims(s, t) - Weight(t[c]) + Weight(next)
<1> DEFINE u == [t EXCEPT ![c] = next]
<1>1. /\ Busy(t) \in SUBSET Clients /\ Granted(t) \in SUBSET Clients
      /\ Busy(u) \in SUBSET Clients /\ Granted(u) \in SUBSET Clients
  BY DEF Busy, Granted
<1>2. /\ Busy(t) \ {c} = Busy(u) \ {c} /\ Granted(t) \ {c} = Granted(u) \ {c}
      /\ c \in Busy(t) <=> t[c] \in Taken \cup {"granted", "checking", "minting", "using"}
      /\ c \in Busy(u) <=> next \in Taken \cup {"granted", "checking", "minting", "using"}
      /\ c \in Granted(t) <=> t[c] = "granted"
      /\ c \in Granted(u) <=> next = "granted"
  BY DEF Busy, Granted
<1> HIDE DEF u
<1>3. Cardinality(Busy(u)) = Cardinality(Busy(t)) - In(c, Busy(t)) + In(c, Busy(u))
  BY <1>1, <1>2, OneMoreOrLess
<1>4. Cardinality(Granted(u)) = Cardinality(Granted(t)) - In(c, Granted(t)) + In(c, Granted(u))
  BY <1>1, <1>2, OneMoreOrLess
<1>5. /\ Len(s) \in Nat /\ Cardinality(Busy(t)) \in Nat /\ Cardinality(Granted(t)) \in Nat
      /\ Cardinality(Busy(u)) \in Nat /\ Cardinality(Granted(u)) \in Nat
  BY <1>1, ClientsAreFinite, LenProperties
<1>6. /\ Weight(t[c]) = In(c, Busy(t)) + In(c, Granted(t))
      /\ Weight(next) = In(c, Busy(u)) + In(c, Granted(u))
  BY <1>2 DEF Weight, Taken, In
<1>7. /\ In(c, Busy(t)) \in Int /\ In(c, Granted(t)) \in Int
      /\ In(c, Busy(u)) \in Int /\ In(c, Granted(u)) \in Int
  BY DEF In
<1>8. Claims(s, t) \in Nat /\ Claims(s, u) \in Nat
  BY <1>5 DEF Claims
<1>9. Claims(s, u) = Claims(s, t) - Weight(t[c]) + Weight(next)
  <2> DEFINE b == Cardinality(Busy(t))
             g == Cardinality(Granted(t))
             n == Len(s)
  <2>1. Claims(s, t) = n + b + g
    BY DEF Claims
  <2>2. Claims(s, u) = n + (b - In(c, Busy(t)) + In(c, Busy(u)))
                         + (g - In(c, Granted(t)) + In(c, Granted(u)))
    BY <1>3, <1>4 DEF Claims
  <2>3. n \in Int /\ b \in Int /\ g \in Int
    BY <1>5
  <2> HIDE DEF b, g, n
  <2> QED
    BY <1>6, <1>7, <2>1, <2>2, <2>3
<1> QED
  BY <1>8, <1>9 DEF u

\* When none is idle and somebody was not granted one, there is room below the bound.
LEMMA ClaimsWhenEmpty ==
  ASSUME NEW s, Len(s) = 0, NEW t, NEW c \in Clients, t[c] # "granted"
  PROVE  Claims(s, t) <= Bound
<1>1. Busy(t) \in SUBSET Clients /\ Granted(t) \in SUBSET Clients \ {c}
  BY DEF Busy, Granted
<1>2. /\ Cardinality(Clients) \in Nat /\ Cardinality(Busy(t)) \in Nat
      /\ Cardinality(Busy(t)) <= Cardinality(Clients)
  BY <1>1, ClientsAreFinite
<1>3. IsFiniteSet(Clients \ {c}) /\ Cardinality(Clients \ {c}) = Cardinality(Clients) - 1
  BY PoolAssumptions, FS_RemoveElement
<1>4. Cardinality(Granted(t)) \in Nat /\ Cardinality(Granted(t)) <= Cardinality(Clients) - 1
  BY <1>1, <1>3, FS_Subset, FS_CardinalityType
<1>5. Claims(s, t) <= 2 * Cardinality(Clients) - 1 /\ Claims(s, t) \in Int
  BY <1>2, <1>4 DEF Claims
<1> QED
  BY <1>2, <1>5, BoundIs

\* A service with nothing to give, or nobody to give it to.
LEMMA ServesNone ==
  ASSUME NEW s \in Seq(Connections), NEW q \in Seq(Clients), NEW t \in [Clients -> Doing], NEW h,
         Serve(s, q, t, h), s = <<>> \/ q = <<>>
  PROVE  Len(idle') = Len(s) /\ task' = t
<1>1. PICK k \in Nat : /\ k <= Len(q) /\ k <= Len(s) /\ (k = Len(q) \/ k = Len(s))
                       /\ Gives(s, q, t, h, k)
  BY ServeIs
<1>2. k = 0 /\ Len(s) \in Nat
  BY <1>1, LenProperties, EmptySeq
<1>3. {q[i] : i \in 1..k} = {}
  BY <1>2
<1>4. task' = t
  BY <1>1, <1>3 DEF Gives
<1>5. Len(SubSeq(s, 1, Len(s) - 0)) = Len(s)
  BY <1>2
<1> QED
  BY <1>1, <1>2, <1>4, <1>5 DEF Gives

\* A service of a stack of one, somebody waiting, leaves none, and moves only one who waits.
LEMMA ServesOne ==
  ASSUME NEW s \in Seq(Connections), NEW q \in Seq(Clients), NEW t, NEW h, Serve(s, q, t, h),
         Len(s) = 1, q # <<>>
  PROVE  Len(idle') = 0 /\ \A c \in Clients \ ToSet(q) : task'[c] = t[c]
<1>1. PICK k \in Nat : /\ k <= Len(q) /\ k <= Len(s) /\ (k = Len(q) \/ k = Len(s))
                       /\ Gives(s, q, t, h, k)
  BY ServeIs
<1>2. Len(q) \in Nat /\ Len(q) # 0
  BY LenProperties, EmptySeq
<1>3. k = 1
  BY <1>1, <1>2
<1>4. Len(SubSeq(s, 1, Len(s) - k)) = 0
  BY <1>3
<1>5. \A c \in Clients \ ToSet(q) : c \notin {q[i] : i \in 1..k}
  <2>1. DOMAIN q = 1..Len(q) /\ \A i \in 1..k : i \in 1..Len(q)
    BY <1>1, <1>2, LenProperties
  <2> QED
    BY <2>1 DEF ToSet
<1> QED
  BY <1>1, <1>4, <1>5 DEF Gives

\* A client goes on to a place that claims no more.
LEMMA GoesOnClaimsNoMore ==
  ASSUME BInv, NEW c \in Clients, NEW next \in Doing, task' = [task EXCEPT ![c] = next],
         idle' = idle, Weight(next) <= Weight(task[c])
  PROVE  Claims(idle', task') <= Bound
<1>1. idle \in Seq(Connections) /\ task \in [Clients -> Doing] /\ Claims(idle, task) <= Bound
  BY DEF BInv, PInv, InOrder
<1>2. /\ Claims(idle, task) \in Nat
      /\ Claims(idle, task') = Claims(idle, task) - Weight(task[c]) + Weight(next)
  BY <1>1, ClaimsOfOneMove
<1>3. Weight(next) \in Int /\ Weight(task[c]) \in Int /\ Bound \in Int
  BY BoundIs DEF Weight, Taken
<1>4. Claims(idle, task') <= Bound
  BY <1>1, <1>2, <1>3
<1> QED
  BY <1>4

\* What is popped is one client's: acquire_conn and checkout when a connection is idle.
LEMMA PopClaimsNoMore ==
  ASSUME BInv, NEW c \in Clients, task[c] = "out", NEW next \in {"checking", "using"},
         Pop(c, next)
  PROVE  Claims(idle', task') <= Bound
<1>1. /\ idle \in Seq(Connections) /\ idle # <<>> /\ idle' = SubSeq(idle, 1, Len(idle) - 1)
      /\ task \in [Clients -> Doing] /\ task' = [task EXCEPT ![c] = next] /\ next \in Doing
  BY DEF BInv, PInv, InOrder, Pop, Front, Doing, Taken
<1>2. Len(idle) \in Nat /\ Len(idle) # 0
  BY <1>1, LenProperties, EmptySeq
<1>3. Len(idle') = Len(idle) - 1
  <2>1. 1 \in 0..Len(idle) /\ IsInjective(idle)
    BY <1>2 DEF BInv, PInv, InOrder
  <2> QED
    BY <1>1, <2>1, PopKeepsInjective
<1>4. /\ Claims(idle, task) \in Nat
      /\ Claims(idle, task') = Claims(idle, task) - Weight("out") + Weight(next)
  BY <1>1, ClaimsOfOneMove
<1>5. Weight("out") = 0 /\ Weight(next) = 1
  BY DEF Weight, Taken
<1>6. Claims(idle, task') = Claims(idle, task) + 1
  BY <1>4, <1>5
<1>7. Busy(task') \in SUBSET Clients /\ Granted(task') \in SUBSET Clients
  BY DEF Busy, Granted
<1>8. Cardinality(Busy(task')) \in Nat /\ Cardinality(Granted(task')) \in Nat
  BY <1>7, ClientsAreFinite
<1>9. Claims(idle', task') = Claims(idle, task') - 1
  BY <1>2, <1>3, <1>8 DEF Claims
<1>10. Claims(idle', task') = Claims(idle, task)
  BY <1>4, <1>6, <1>9
<1> QED
  BY <1>10 DEF BInv

\* A client that waits in vain opens a connection of its own, and none was idle.
LEMMA LeavesWhenEmpty ==
  ASSUME BInv, NEW c \in Clients, task[c] = "waiting", Leaves(c, "minting")
  PROVE  Claims(idle', task') <= Bound
<1> DEFINE t == [task EXCEPT ![c] = "minting"]
           p == CHOOSE i \in DOMAIN line : line[i] = c
<1>1. /\ idle \in Seq(Connections) /\ line \in Seq(Clients) /\ task \in [Clients -> Doing]
      /\ c \in ToSet(line)
  BY DEF BInv, PInv, InOrder
<1>2. p \in DOMAIN line /\ Without(c) = RemoveAt(line, p)
  BY <1>1 DEF ToSet, Without
<1> HIDE DEF p
<1>3. Without(c) \in Seq(Clients)
  BY <1>1, <1>2, RemoveAtProperties
<1>4. idle = <<>>
  <2>1. line # <<>>
    BY <1>1 DEF ToSet
  <2> QED
    BY <2>1 DEF BInv, PInv, NoneIdleWhileWaiting
<1>5. t \in [Clients -> Doing] /\ t[c] # "granted"
  BY <1>1 DEF Doing, Taken
<1>6. Serve(idle, Without(c), t, conn)
  BY DEF Leaves
<1> HIDE DEF t
<1>7. Len(idle') = Len(idle) /\ task' = t
  BY <1>1, <1>3, <1>4, <1>5, <1>6, ServesNone
<1>8. Len(idle') = 0
  BY <1>4, <1>7
<1> QED
  BY <1>5, <1>7, <1>8, ClaimsWhenEmpty

\* A connection that is given back was claimed before; if somebody waits for it, no other
\* is idle.
LEMMA ReleaseClaimsNoMore ==
  ASSUME BInv, NEW c \in Clients, NEW next \in {"out", "minting"}, Release(c, next),
         c \in Holding(task), Weight(next) + 1 <= Weight(task[c])
  PROVE  Claims(idle', task') <= Bound
<1> DEFINE s == Append(idle, conn[c])
           t == [task EXCEPT ![c] = next]
           h == [conn EXCEPT ![c] = Nobody]
<1>1. /\ idle \in Seq(Connections) /\ line \in Seq(Clients) /\ task \in [Clients -> Doing]
      /\ conn[c] \in Connections /\ next \in Doing
      /\ task[c] \in Taken \cup {"granted", "checking", "using"}
  BY DEF BInv, PInv, InOrder, Holding, Doing, Taken
<1>2. Len(idle) \in Nat /\ s \in Seq(Connections) /\ Len(s) = Len(idle) + 1
  BY <1>1, LenProperties, AppendProperties
<1>3. t \in [Clients -> Doing] /\ t[c] = next
  BY <1>1
<1>4. /\ Claims(idle, task) \in Nat
      /\ Claims(idle, t) = Claims(idle, task) - Weight(task[c]) + Weight(next)
  BY <1>1, ClaimsOfOneMove
<1>5. Serve(s, line, t, h)
  BY DEF Release
<1> HIDE DEF s, t, h
<1>6. CASE line = <<>>
  <2>1. Len(idle') = Len(idle) + 1 /\ task' = t
    BY <1>1, <1>2, <1>3, <1>5, <1>6, ServesNone
  <2>2. Busy(t) \in SUBSET Clients /\ Granted(t) \in SUBSET Clients
    BY DEF Busy, Granted
  <2>3. Cardinality(Busy(t)) \in Nat /\ Cardinality(Granted(t)) \in Nat
    BY <2>2, ClientsAreFinite
  <2>4. Claims(idle', t) = Claims(idle, t) + 1
    BY <1>2, <2>1, <2>3 DEF Claims
  <2>5. Weight(next) \in Int /\ Weight(task[c]) \in Int /\ Bound \in Int
        /\ Claims(idle, task) <= Bound
    BY BoundIs DEF Weight, BInv
  <2>6. Claims(idle', t) <= Bound
    BY <1>4, <2>4, <2>5
  <2> QED
    BY <2>1, <2>6
<1>7. CASE line # <<>>
  <2>1. idle = <<>>
    BY <1>7 DEF BInv, PInv, NoneIdleWhileWaiting
  <2>2. Len(s) = 1
    BY <1>2, <2>1
  <2>3. c \notin ToSet(line)
    BY <1>1 DEF BInv, PInv, InOrder, Taken
  <2>4. Len(idle') = 0 /\ task'[c] = next
    BY <1>1, <1>2, <1>3, <1>5, <1>7, <2>2, <2>3, ServesOne
  <2>5. task'[c] # "granted"
    BY <2>4
  <2> QED
    BY <2>4, <2>5, ClaimsWhenEmpty
<1> QED
  BY <1>6, <1>7

\* Nothing is idle and a client will open a connection, or waits for one.
LEMMA EmptyClaims ==
  ASSUME BInv, NEW c \in Clients, idle = <<>>, idle' = idle, NEW next \in {"minting", "waiting"},
         task' = [task EXCEPT ![c] = next]
  PROVE  Claims(idle', task') <= Bound
<1>1. task'[c] # "granted" /\ Len(idle') = 0
  BY DEF BInv, PInv, InOrder
<1> QED
  BY <1>1, ClaimsWhenEmpty

\* No step raises the number of connections there are or will be above the bound.
LEMMA BInvStep == BInv /\ [Next]_vars => BInv'
<1> SUFFICES ASSUME BInv, [Next]_vars PROVE Claims(idle', task') <= Bound
  BY PInvStep DEF BInv, Bound
<1>w. /\ Weight("out") = 0 /\ Weight("waiting") = 0 /\ Weight("granted") = 2
      /\ Weight("checking") = 1 /\ Weight("minting") = 1 /\ Weight("using") = 1
      /\ Weight("broken") = 1 /\ Weight("discarding") = 1
      /\ {"out", "waiting", "granted", "checking", "minting", "using", "broken", "discarding"} = Doing
  BY DEF Weight, Doing, Taken
<1>1. CASE UNCHANGED vars
  BY <1>1 DEF vars, BInv
<1>2. ASSUME NEW c \in Clients, AcquireConn(c) \/ Checkout(c) PROVE Claims(idle', task') <= Bound
  BY <1>2, PopClaimsNoMore, EmptyClaims DEF AcquireConn, Checkout
<1>3. ASSUME NEW c \in Clients, TimesOut(c) PROVE Claims(idle', task') <= Bound
  <2>1. CASE task[c] = "waiting" /\ Leaves(c, "minting")
    BY <2>1, LeavesWhenEmpty
  <2>2. CASE task[c] = "granted" /\ Release(c, "minting")
    BY <1>w, <2>2, ReleaseClaimsNoMore DEF Holding, Taken
  <2> QED
    BY <1>3, <2>1, <2>2 DEF TimesOut
<1>4. ASSUME NEW c \in Clients,
             Claim(c) \/ Healthy(c) \/ Broken(c) \/ Discard(c) \/ Closes(c) \/ Mint(c)
      PROVE  Claims(idle', task') <= Bound
  <2>1. idle' = idle
    BY <1>4 DEF Claim, Healthy, Broken, Discard, Take, Closes, Taken, Mint
  <2>2. \E next \in Doing : /\ task' = [task EXCEPT ![c] = next]
                            /\ Weight(next) <= Weight(task[c])
    BY <1>w, <1>4 DEF Claim, Healthy, Broken, Discard, Take, Closes, Taken, Mint
  <2> QED
    BY <2>1, <2>2, GoesOnClaimsNoMore
<1>5. ASSUME NEW c \in Clients, Drop(c) PROVE Claims(idle', task') <= Bound
  BY <1>5, <1>w, ReleaseClaimsNoMore DEF Drop, Holding, Taken
<1> QED
  BY <1>1, <1>2, <1>3, <1>4, <1>5 DEF Next

\* The connections that exist are idle or some busy client's, and so they are within the bound.
LEMMA OpenedIsClaimed == BInv => Cardinality(Opened) <= Bound
<1> SUFFICES ASSUME BInv PROVE Cardinality(Opened) <= Bound
  OBVIOUS
<1>1. idle \in Seq(Connections) /\ Len(idle) \in Nat /\ DOMAIN idle = 1..Len(idle)
  BY LenProperties DEF BInv, PInv, InOrder
<1> DEFINE H == Holding(task)
           K == {conn[c] : c \in H}
<1>2. IsFiniteSet(ToSet(idle)) /\ Cardinality(ToSet(idle)) <= Len(idle)
  <2>1. [i \in 1..Len(idle) |-> idle[i]] \in Surjection(1..Len(idle), ToSet(idle))
    BY <1>1 DEF Surjection, ToSet
  <2>2. IsFiniteSet(1..Len(idle)) /\ Cardinality(1..Len(idle)) = Len(idle)
    BY <1>1, FS_Interval
  <2> QED
    BY <2>1, <2>2, FS_Surjection
<1>3. H \in SUBSET Busy(task) /\ Busy(task) \in SUBSET Clients /\ Granted(task) \in SUBSET Clients
  BY DEF Holding, Taken, Busy, Granted
<1>4. /\ IsFiniteSet(Busy(task)) /\ Cardinality(Busy(task)) \in Nat /\ Cardinality(Granted(task)) \in Nat
  BY <1>3, ClientsAreFinite
<1>5. IsFiniteSet(H) /\ Cardinality(H) \in Nat /\ Cardinality(H) <= Cardinality(Busy(task))
  BY <1>3, <1>4, FS_Subset, FS_CardinalityType
<1>6. IsFiniteSet(K) /\ Cardinality(K) <= Cardinality(H)
  <2>1. [c \in H |-> conn[c]] \in Surjection(H, K)
    BY DEF Surjection
  <2> QED
    BY <1>5, <2>1, FS_Surjection
<1>7. Opened = ToSet(idle) \cup K
  BY OpenedIs DEF OpenedIn
<1> HIDE DEF H, K
<1>8. Cardinality(Opened) = Cardinality(ToSet(idle)) + Cardinality(K) - Cardinality(ToSet(idle) \cap K)
  BY <1>2, <1>6, <1>7, FS_Union
<1>9. IsFiniteSet(ToSet(idle) \cap K)
  BY <1>6, FS_Subset
<1>10. /\ Cardinality(ToSet(idle)) \in Nat /\ Cardinality(K) \in Nat
       /\ Cardinality(ToSet(idle) \cap K) \in Nat
  BY <1>2, <1>6, <1>9, FS_CardinalityType
<1>11. Cardinality(Opened) <= Cardinality(ToSet(idle)) + Cardinality(K)
  BY <1>8, <1>10
<1>12. Cardinality(Opened) \in Int
  BY <1>8, <1>10
<1>13. Cardinality(Opened) <= Len(idle) + Cardinality(Busy(task)) + Cardinality(Granted(task))
  BY <1>1, <1>2, <1>4, <1>5, <1>6, <1>10, <1>11, <1>12
<1>14. Len(idle) + Cardinality(Busy(task)) + Cardinality(Granted(task)) <= Bound
  BY DEF BInv, Claims
<1>15. Bound \in Int
  BY BoundIs
<1> QED
  BY <1>1, <1>4, <1>12, <1>13, <1>14, <1>15

\* Though every timeout opens one more connection, which joins the pool, there are never
\* more than the seed or all but two for each client (connection_pool.rs, checkout with a
\* timeout and Permit::out_of_thin_air).
THEOREM PoolIsBounded == Spec => []PoolBounded
<1>1. Init => BInv
  <2> SUFFICES ASSUME Init PROVE BInv
    OBVIOUS
  <2>1. Busy(task) = {} /\ Granted(task) = {} /\ idle = Seed
    BY DEF Init, Busy, Granted, Taken
  <2>2. Cardinality(Busy(task)) = 0 /\ Cardinality(Granted(task)) = 0
    BY <2>1, FS_EmptySet
  <2>3. Len(Seed) \in Nat
    BY PoolAssumptions, LenProperties
  <2>4. Claims(idle, task) = Len(Seed)
    BY <2>1, <2>2, <2>3 DEF Claims
  <2> QED
    BY <2>4, PInvInit, BoundIs DEF BInv
<1>2. BInv => PoolBounded
  BY OpenedIsClaimed DEF PoolBounded, Bound
<1> QED
  BY <1>1, <1>2, BInvStep, PTL DEF Spec
=============================================================================
