-------------------------- MODULE Callbacks_proofs --------------------------
(***************************************************************************)
(* For every number of threads and nested calls, every batch capacity and  *)
(* every panic: a call holds the lock exactly in its critical section; as  *)
(* long as only wakers and abandoned values call the queue again, no       *)
(* thread waits for itself; and what a call finds under the lock stays     *)
(* true until it acts on it, so that len counts as in SemaphoreQueue.      *)
(***************************************************************************)
EXTENDS Callbacks, CommonFacts

\* What the lock knows of a frame follows from where it is, and a thread is a stack: only
\* its last frame is not in the middle of user code that called the queue again.
FrameInv(f) ==
  /\ phase[f] = "holding" <=> at[f] \in Critical
  /\ phase[f] = "waiting" => at[f] = "enter"
  /\ f[2] < depth[f[1]] => at[f] \in Reenters
  /\ f[2] > depth[f[1]] => at[f] = "idle"

CInv == /\ phase \in [Frames -> Lock!Phases]
        /\ depth \in [Threads -> Nat]
        /\ at \in [Frames -> Places]
        /\ \A f \in Frames : FrameInv(f)

\* A frame is a thread and a level.
LEMMA FramePair ==
  ASSUME NEW f \in Frames
  PROVE  f[1] \in Threads /\ f[2] \in Nat /\ f = <<f[1], f[2]>>
<1>1. PICK t \in Threads : f \in {t} \X (1..MaxDepth[t])
  BY DEF Frames
<1>2. 1..MaxDepth[t] \subseteq Nat
  BY CallbackAssumptions
<1> QED
  BY <1>1, <1>2

\* The first call of a thread is at level one.
LEMMA NoLevelZero == \A f \in Frames : f[2] # 0
<1> SUFFICES ASSUME NEW t \in Threads, NEW f \in {t} \X (1..MaxDepth[t]) PROVE f[2] # 0
  BY DEF Frames
<1> QED
  BY CallbackAssumptions

\* A thread and a level within its bound are a frame.
LEMMA PairIsFrame ==
  ASSUME NEW t \in Threads, NEW i \in 1..MaxDepth[t]
  PROVE  <<t, i>> \in Frames
BY DEF Frames

\* A step of the last frame of a thread disturbs no other.
LEMMA TopMoves ==
  ASSUME CInv, NEW f \in Frames, Top(f), NEW place \in Places,
         at' = [at EXCEPT ![f] = place],
         NEW p \in Lock!Phases, phase' = [phase EXCEPT ![f] = p],
         p = "holding" <=> place \in Critical,
         p = "waiting" => place = "enter",
         UNCHANGED depth
  PROVE  CInv'
<1>1. f[1] \in Threads /\ f[2] \in Nat /\ f[2] = depth[f[1]]
  BY FramePair DEF Top
<1>2. phase' \in [Frames -> Lock!Phases] /\ at' \in [Frames -> Places]
  BY DEF CInv
<1>3. ASSUME NEW g \in Frames PROVE FrameInv(g)'
  <2>1. CASE g = f
    BY <2>1, <1>1, <1>2 DEF FrameInv, CInv
  <2>2. CASE g # f
    BY <2>2 DEF FrameInv, CInv
  <2> QED
    BY <2>1, <2>2
<1> QED
  BY <1>2, <1>3 DEF CInv

\* The same, when the lock is not concerned.
LEMMA TopStays ==
  ASSUME CInv, NEW f \in Frames, Top(f), NEW place \in Places,
         at' = [at EXCEPT ![f] = place],
         place \in Critical <=> at[f] \in Critical,
         at[f] # "enter",
         UNCHANGED <<phase, depth>>
  PROVE  CInv'
<1>1. phase[f] \in Lock!Phases /\ phase' = [phase EXCEPT ![f] = phase[f]]
  BY DEF CInv
<1>2. (phase[f] = "holding" <=> place \in Critical) /\ phase[f] # "waiting"
  BY DEF CInv, FrameInv
<1> QED
  BY <1>1, <1>2, TopMoves

\* The names of places.
LEMMA PlaceNames ==
  /\ Critical \subseteq Places /\ {"idle", "enter", "out"} \cup Outside \subseteq Places
  /\ ({"idle", "enter", "out"} \cup Outside) \cap Critical = {}
  /\ Kinds = Inside \cup Outside /\ Inside \subseteq Critical
  /\ "crit" \in Critical /\ "check" \in Critical /\ "enter" \notin Kinds /\ "idle" \notin Kinds
  /\ "serve" \in Inside
  /\ Lock!Phases = {"out", "waiting", "holding"}
BY DEF Critical, Places, Outside, Inside, Kinds, Lock!Phases

\* The operation begins in its critical section.
LEMMA BeginsCritical ==
  ASSUME NEW f \in Frames, Begin(f)
  PROVE  \E place \in Critical : at' = [at EXCEPT ![f] = place]
BY PlaceNames DEF Begin, Again, Goes

\* Getting the lock, waiting for it, or not getting it.
LEMMA LockKeeps ==
  ASSUME CInv, NEW f \in Frames, Top(f),
         LockAtOnce(f) \/ LockContends(f) \/ LockGranted(f) \/ TryLockFails(f)
  PROVE  CInv'
<1>1. CASE LockAtOnce(f) \/ LockGranted(f)
  <2>1. phase' = [phase EXCEPT ![f] = "holding"] /\ UNCHANGED depth
    BY <1>1 DEF LockAtOnce, LockGranted, Lock!Take, Lock!Grant
  <2>2. PICK place \in Critical : at' = [at EXCEPT ![f] = place]
    BY <1>1, BeginsCritical DEF LockAtOnce, LockGranted
  <2> QED
    BY <2>1, <2>2, PlaceNames, TopMoves
<1>2. CASE LockContends(f)
  <2>1. /\ phase' = [phase EXCEPT ![f] = "waiting"] /\ UNCHANGED <<at, depth>>
        /\ at[f] = "enter"
    BY <1>2 DEF LockContends, Lock!Request
  <2>2. at' = [at EXCEPT ![f] = "enter"]
    BY <2>1 DEF CInv
  <2> QED
    BY <2>1, <2>2, PlaceNames, TopMoves
<1>3. CASE TryLockFails(f)
  <2>1. /\ at' = [at EXCEPT ![f] = "out"] /\ UNCHANGED <<phase, depth>>
        /\ phase[f] = "out"
    BY <1>3 DEF TryLockFails, Goes
  <2>2. phase' = [phase EXCEPT ![f] = "out"]
    BY <2>1 DEF CInv
  <2> QED
    BY <2>1, <2>2, PlaceNames, TopMoves
<1> QED
  BY <1>1, <1>2, <1>3

\* What a call does under the lock leaves it in its critical section.
LEMMA CriticalKeeps ==
  ASSUME CInv, NEW f \in Frames, Top(f), Act(f) \/ ToCheck(f) \/ Serve(f)
  PROVE  CInv'
<1>1. \E place \in Critical : at' = [at EXCEPT ![f] = place]
  BY PlaceNames DEF Act, ToCheck, Serve, Goes
<1>2. at[f] \in Critical /\ at[f] # "enter" /\ UNCHANGED <<phase, depth>>
  BY PlaceNames DEF Act, ToCheck, Serve, Critical
<1> QED
  BY <1>1, <1>2, PlaceNames, TopStays

\* Dropping the guard.
LEMMA UnlockKeeps == ASSUME CInv, NEW f \in Frames, Top(f), Unlock(f) PROVE CInv'
<1>1. /\ at' = [at EXCEPT ![f] = "out"] /\ phase' = [phase EXCEPT ![f] = "out"]
      /\ UNCHANGED depth
  BY DEF Unlock, Goes, Lock!Release
<1> QED
  BY <1>1, PlaceNames, TopMoves

\* Waking, relocking and dropping what was set aside.
LEMMA OutsideKeeps ==
  ASSUME CInv, NEW f \in Frames, Top(f), Wake(f) \/ Relock(f) \/ Abandon(f) PROVE CInv'
<1>1. PICK place \in {"enter"} \cup Outside : at' = [at EXCEPT ![f] = place]
  BY DEF Wake, Relock, Abandon, Goes, Outside
<1>2. at[f] = "out" /\ UNCHANGED <<phase, depth>>
  BY DEF Wake, Relock, Abandon, Finished
<1> QED
  BY <1>1, <1>2, PlaceNames, TopStays

\* The last frame goes.
LEMMA ReturnKeeps == ASSUME CInv, NEW f \in Frames, Top(f), Return(f) PROVE CInv'
<1>1. /\ at' = [at EXCEPT ![f] = "idle"] /\ at[f] = "out"
      /\ depth' = [depth EXCEPT ![f[1]] = @ - 1] /\ UNCHANGED phase
  BY DEF Return, Finished, Goes
<1>2. f[1] \in Threads /\ f[2] \in Nat \ {0} /\ f[2] = depth[f[1]]
  BY FramePair DEF Top, Frames
<1>3. at' \in [Frames -> Places] /\ depth' \in [Threads -> Nat]
  BY <1>1, <1>2, PlaceNames DEF CInv
<1>4. ASSUME NEW g \in Frames PROVE FrameInv(g)'
  <2>1. FrameInv(g) /\ g[1] \in Threads /\ g[2] \in Nat /\ g = <<g[1], g[2]>>
    BY FramePair DEF CInv
  <2>2. CASE g = f
    BY <2>1, <2>2, <1>1, <1>2, <1>3, PlaceNames DEF FrameInv, CInv
  <2>3. CASE g # f /\ g[1] # f[1]
    BY <2>1, <2>3, <1>1, <1>2 DEF FrameInv, CInv
  <2>4. CASE g # f /\ g[1] = f[1]
    <3>1. g[2] # f[2] /\ depth'[g[1]] = f[2] - 1 /\ depth[g[1]] = f[2] /\ at'[g] = at[g]
      BY <2>1, <2>4, <1>1, <1>2, FramePair DEF CInv
    <3> QED
      BY <2>1, <3>1, <1>1, <1>2 DEF FrameInv
  <2> QED
    BY <2>2, <2>3, <2>4
<1> QED
  BY <1>1, <1>3, <1>4 DEF CInv

\* A new frame, on top of user code that may call.
LEMMA CallKeeps ==
  ASSUME CInv, NEW t \in Threads, NEW op \in Ops, Call(t, op) PROVE CInv'
<1> DEFINE d == depth[t]
           f == <<t, d + 1>>
<1>1. /\ d < MaxDepth[t] /\ (d # 0 => at[<<t, d>>] \in Reenters)
      /\ depth' = [depth EXCEPT ![t] = @ + 1]
      /\ at' = [at EXCEPT ![<<t, depth'[t]>>] = "enter"]
      /\ UNCHANGED phase
  BY DEF Call, Goes
<1>2. d \in Nat /\ d + 1 \in 1..MaxDepth[t] /\ depth'[t] = d + 1 /\ f \in Frames
  <2>1. MaxDepth[t] \in Nat
    BY CallbackAssumptions
  <2>2. d \in Nat /\ d + 1 \in 1..MaxDepth[t] /\ depth'[t] = d + 1
    BY <1>1, <2>1 DEF CInv
  <2> QED
    BY <2>2, PairIsFrame
<1>3. at' = [at EXCEPT ![f] = "enter"]
  BY <1>1, <1>2
<1>4. at' \in [Frames -> Places] /\ depth' \in [Threads -> Nat]
  BY <1>1, <1>2, <1>3, PlaceNames DEF CInv
<1>5. FrameInv(f) /\ f[1] = t /\ f[2] = d + 1
  BY <1>2 DEF CInv
<1> HIDE DEF f
<1>6. ASSUME NEW g \in Frames PROVE FrameInv(g)'
  <2>1. FrameInv(g) /\ g[1] \in Threads /\ g[2] \in Nat /\ g = <<g[1], g[2]>>
    BY FramePair DEF CInv
  <2>2. CASE g = f
    <3>1. at[f] = "idle" /\ phase[f] = "out"
      BY <1>2, <1>5, PlaceNames DEF FrameInv, CInv
    <3> QED
      BY <2>2, <3>1, <1>1, <1>2, <1>3, <1>5, PlaceNames DEF FrameInv, CInv
  <2>3. CASE g # f /\ g[1] # t
    BY <2>1, <2>3, <1>1, <1>3 DEF FrameInv, CInv
  <2>4. CASE g # f /\ g[1] = t
    <3>1. g[2] # d + 1
      BY <2>1, <2>4 DEF f
    <3>2. CASE g[2] = d
      <4>1. at[g] \in Reenters /\ at'[g] = at[g]
        <5>1. g = <<t, d>> /\ d # 0
          BY <2>1, <2>4, <3>2, NoLevelZero
        <5>2. at'[g] = at[g]
          BY <2>4, <1>3 DEF CInv
        <5> QED
          BY <5>1, <5>2, <1>1
      <4> QED
        BY <2>1, <2>4, <3>2, <4>1, <1>1, <1>2 DEF FrameInv
    <3>3. CASE g[2] # d
      <4>1. at'[g] = at[g] /\ depth'[g[1]] = d + 1
        BY <2>4, <1>2, <1>3 DEF CInv
      <4> QED
        BY <2>1, <2>4, <3>1, <3>3, <4>1, <1>1, <1>2 DEF FrameInv
    <3> QED
      BY <3>2, <3>3
  <2> QED
    BY <2>2, <2>3, <2>4
<1> QED
  BY <1>1, <1>4, <1>6 DEF CInv

\* User code returns: acquire for a waiter may release the lock, the rest does not.
LEMMA UserReturnsKeeps == ASSUME CInv, NEW f \in Frames, UserReturns(f) PROVE CInv'
<1>1. Top(f) /\ at[f] \in Kinds
  BY DEF UserReturns
<1>2. CASE at[f] = "serve"
  <2>1. Served(f) /\ UNCHANGED depth
    BY <1>2 DEF UserReturns, Served
  <2>2. \/ at' = [at EXCEPT ![f] = "check"] /\ UNCHANGED phase
        \/ at' = [at EXCEPT ![f] = "out"] /\ phase' = [phase EXCEPT ![f] = "out"]
    BY <2>1 DEF Served, Goes, Lock!Release
  <2>3. CASE at' = [at EXCEPT ![f] = "check"] /\ UNCHANGED phase
    BY <2>1, <2>3, <1>1, <1>2, PlaceNames, TopStays
  <2>4. CASE at' = [at EXCEPT ![f] = "out"] /\ phase' = [phase EXCEPT ![f] = "out"]
    BY <2>1, <2>4, <1>1, PlaceNames, TopMoves
  <2> QED
    BY <2>2, <2>3, <2>4
<1>3. CASE at[f] # "serve"
  <2>1. /\ at' = [at EXCEPT ![f] = IF at[f] \in Inside THEN "crit" ELSE "out"]
        /\ UNCHANGED <<phase, depth>>
    BY <1>3 DEF UserReturns, Goes
  <2>2. /\ (IF at[f] \in Inside THEN "crit" ELSE "out") \in Places
        /\ (IF at[f] \in Inside THEN "crit" ELSE "out") \in Critical <=> at[f] \in Critical
        /\ at[f] # "enter"
    BY <1>1, PlaceNames
  <2> QED
    BY <2>1, <2>2, <1>1, TopStays
<1> QED
  BY <1>2, <1>3

\* User code panics: the lock stays where it is until the guard is dropped.
LEMMA UserPanicsKeeps == ASSUME CInv, NEW f \in Frames, UserPanics(f) PROVE CInv'
<1>1. /\ Top(f) /\ at[f] \in Kinds
      /\ at' = [at EXCEPT ![f] = IF at[f] \in Inside THEN "crit" ELSE "out"]
      /\ UNCHANGED <<phase, depth>>
  BY DEF UserPanics, Goes
<1>2. /\ (IF at[f] \in Inside THEN "crit" ELSE "out") \in Places
      /\ (IF at[f] \in Inside THEN "crit" ELSE "out") \in Critical <=> at[f] \in Critical
      /\ at[f] # "enter"
  BY <1>1, PlaceNames
<1> QED
  BY <1>1, <1>2, TopStays

\* Every step keeps the invariant.
LEMMA CInvStep == CInv /\ [Next]_vars => CInv'
<1> SUFFICES ASSUME CInv, [Next]_vars PROVE CInv'
  OBVIOUS
<1>1. ASSUME NEW f \in Frames, Step(f) PROVE CInv'
  BY <1>1, LockKeeps, CriticalKeeps, UnlockKeeps, OutsideKeeps, ReturnKeeps DEF Step
<1>2. CASE UNCHANGED vars
  BY <1>2 DEF vars, CInv, FrameInv
<1> QED
  BY <1>1, <1>2, CallKeeps, UserReturnsKeeps, UserPanicsKeeps DEF Next

\* Nobody has called anything at first.
LEMMA CInvInit == Init => CInv
<1> SUFFICES ASSUME Init PROVE CInv
  OBVIOUS
<1>1. /\ phase = [f \in Frames |-> "out"] /\ depth = [t \in Threads |-> 0]
      /\ at = [f \in Frames |-> "idle"]
  BY DEF Init, Lock!Init
<1>2. ASSUME NEW f \in Frames PROVE FrameInv(f)
  BY <1>1, FramePair, PlaceNames DEF FrameInv
<1> QED
  BY <1>1, <1>2, PlaceNames DEF CInv

\* The lock is held in critical sections only, user code under it included, and released
\* before wakers run and before anything abandoned is dropped, on every path: returning,
\* or unwinding from whatever user code panicked.
THEOREM LockIsScoped == Spec => []LockScoped
<1>1. CInv => LockScoped
  BY DEF CInv, FrameInv, LockScoped
<1> QED
  BY <1>1, CInvInit, CInvStep, PTL DEF Spec

\* A waiting frame is the last of its thread, and the frames below it run user code that
\* may call the queue: outside the lock, if only such code does.
LEMMA StackIsUnlocked == CInv /\ Reenters \subseteq Outside => NobodyWaitsForItself
<1> SUFFICES ASSUME CInv, Reenters \subseteq Outside,
                    NEW f \in Frames, NEW g \in Frames, f[1] = g[1],
                    phase[f] = "holding", phase[g] = "waiting"
             PROVE  FALSE
  BY DEF NobodyWaitsForItself
<1>1. /\ f[1] \in Threads /\ f[2] \in Nat /\ g[2] \in Nat /\ depth[f[1]] \in Nat
      /\ f = <<f[1], f[2]>> /\ g = <<g[1], g[2]>>
  BY FramePair DEF CInv
<1>2. FrameInv(f) /\ FrameInv(g)
  BY DEF CInv
<1>3. at[g] = "enter" /\ at[f] \in Critical
  BY <1>2 DEF FrameInv
<1>4. g[2] = depth[g[1]]
  BY <1>1, <1>2, <1>3, PlaceNames, CallbackAssumptions DEF FrameInv
<1>5. f[2] = depth[f[1]]
  BY <1>1, <1>2, <1>3, PlaceNames DEF FrameInv
<1> QED
  BY <1>1, <1>3, <1>4, <1>5, PlaceNames

\* Wakers and abandoned values may call the queue again, as with_state's doc and
\* Acquire::drop's comment have it, however deep: no thread deadlocks with itself.
THEOREM ReentryIsSafe == Spec => [](Reenters \subseteq Outside => NobodyWaitsForItself)
BY CInvInit, CInvStep, StackIsUnlocked, PTL DEF Spec
----------------------------------------------------------------------------
(* What a call finds under the lock stays true until it acts on it, so that len moves as  *)
(* in the queue, where the critical section is one step                                   *)

\* What may be on a script; unlinking, and a round of close, are all there is on theirs.
Words == (Inside \ {"serve"}) \cup {"link", "unlink", "close"}
Scripts == {s \in Seq(Words) :
              \A i \in DOMAIN s : s[i] \in {"unlink", "close"} => Len(s) = 1}

Has(script, word) == \E i \in DOMAIN script : script[i] = word

Jobs == [op : Operations, script : Scripts, batch : Nat, more : BOOLEAN,
         abandons : BOOLEAN, unwinding : BOOLEAN]

\* Where a call still has its script before it.
Scripted == Critical \ {"check", "serve"}

\* A newcomer is only going to be linked while the queue is open, and there is somebody
\* to unlink or to serve.
FittingWith(place, script, n, c) ==
  /\ place \in Scripted => /\ Has(script, "link") => ~c
                           /\ Has(script, "unlink") => n > 0
  /\ place = "serve" => n > 0

Fitting(place, script) == FittingWith(place, script, len, closed)

Counted == /\ len \in Nat /\ closed \in BOOLEAN
           /\ job \in [Frames -> Jobs]
           /\ \A f \in Frames : Fitting(at[f], job[f].script)

\* The lock excludes.
Alone == \A f, g \in Frames : at[f] \in Critical /\ at[g] \in Critical => f = g

SInv == CInv /\ Alone /\ Counted

SizeMoves == Size!Next \/ UNCHANGED <<len, closed>>

\* A step of f leaves the others to theirs: they rely on len and closed only while they
\* hold the lock.
LEMMA OthersCounted ==
  ASSUME SInv, NEW f \in Frames, NEW place, NEW j \in Jobs, Goes(f, place, j),
         at[f] \in Critical \/ UNCHANGED <<len, closed>>,
         len' \in Nat, closed' \in BOOLEAN, FittingWith(place, j.script, len', closed')
  PROVE  Counted'
<1>1. job' = [job EXCEPT ![f] = j] /\ at' = [at EXCEPT ![f] = place]
  BY DEF Goes
<1>2. job' \in [Frames -> Jobs]
  BY <1>1 DEF SInv, Counted
<1>3. ASSUME NEW g \in Frames PROVE Fitting(at[g], job[g].script)'
  <2>1. CASE g = f
    BY <2>1, <1>1 DEF SInv, CInv, Counted, Fitting
  <2>2. CASE g # f
    <3>1. at'[g] = at[g] /\ job'[g] = job[g]
      BY <2>2, <1>1 DEF SInv, CInv, Counted
    <3>2. at[g] \notin Critical \/ UNCHANGED <<len, closed>>
      BY <2>2 DEF SInv, Alone
    <3>3. Fitting(at[g], job[g].script) /\ "serve" \in Critical
      BY DEF SInv, Counted, Critical, Inside
    <3> QED
      BY <3>1, <3>2, <3>3 DEF Fitting, FittingWith, Scripted
  <2> QED
    BY <2>1, <2>2
<1> QED
  BY <1>2, <1>3 DEF Counted

\* What is left of a script once its head is done.
LEMMA ScriptGoesOn ==
  ASSUME NEW s \in Scripts, s # <<>>
  PROVE  /\ Tail(s) \in Scripts /\ Head(s) \in Words /\ Has(s, Head(s))
         /\ Has(Tail(s), "link") => Has(s, "link")
         /\ ~Has(Tail(s), "unlink")
         /\ Head(s) = "close" => ~Has(Tail(s), "link")
<1>1. s \in Seq(Words) /\ Len(s) \in Nat \ {0} /\ DOMAIN s = 1..Len(s)
  BY LenProperties, EmptySeq DEF Scripts
<1>2. /\ Head(s) = s[1] /\ Tail(s) \in Seq(Words) /\ Len(Tail(s)) = Len(s) - 1
      /\ \A i \in 1..Len(Tail(s)) : Tail(s)[i] = s[i + 1]
      /\ DOMAIN Tail(s) = 1..(Len(s) - 1)
  BY <1>1, HeadTailProperties, LenProperties
<1>3. \A i \in DOMAIN Tail(s) : i + 1 \in DOMAIN s /\ Tail(s)[i] = s[i + 1] /\ Len(s) # 1
  BY <1>1, <1>2
<1>4. \A i \in DOMAIN s : s[i] \in {"unlink", "close"} => Len(s) = 1
  BY DEF Scripts
<1>5. 1 \in DOMAIN s /\ s[1] \in Words
  BY <1>1
<1>6. \A i \in DOMAIN Tail(s) : Tail(s)[i] \notin {"unlink", "close"}
  BY <1>3, <1>4
<1>7. Tail(s) \in Scripts
  BY <1>2, <1>6 DEF Scripts
<1> QED
  BY <1>1, <1>2, <1>3, <1>4, <1>5, <1>6, <1>7 DEF Has

\* Short scripts, and what they have.
PlainWords == Words \ {"unlink", "close"}

LEMMA EmptyScript == <<>> \in Scripts /\ \A w : ~Has(<<>>, w)
BY DEF Scripts, Has

LEMMA OneWord ==
  ASSUME NEW a \in Words
  PROVE  <<a>> \in Scripts /\ \A w : Has(<<a>>, w) => w = a
BY DEF Scripts, Has

LEMMA TwoWords ==
  ASSUME NEW a \in PlainWords, NEW b \in PlainWords
  PROVE  /\ <<a, b>> \in Scripts /\ ~Has(<<a, b>>, "unlink")
         /\ Has(<<a, b>>, "link") => "link" \in {a, b}
BY DEF Scripts, Has, PlainWords

LEMMA ThreeWords ==
  ASSUME NEW a \in PlainWords, NEW b \in PlainWords, NEW c \in PlainWords
  PROVE  <<a, b, c>> \in Scripts /\ ~Has(<<a, b, c>>, "unlink")
BY DEF Scripts, Has, PlainWords

LEMMA FourWords ==
  ASSUME NEW a \in PlainWords, NEW b \in PlainWords, NEW c \in PlainWords,
         NEW d \in PlainWords
  PROVE  <<a, b, c, d>> \in Scripts /\ ~Has(<<a, b, c, d>>, "unlink")
BY DEF Scripts, Has, PlainWords

\* What an operation plans under the lock fits what it finds there.
LEMMA PlansFit ==
  ASSUME len \in Nat, NEW op \in Operations, NEW plan \in Plans(op)
  PROVE  \E script \in Scripts, aside \in BOOLEAN :
           /\ plan = Plan(script, aside)
           /\ Has(script, "link") => ~closed
           /\ Has(script, "unlink") => len > 0
<1> DEFINE Fits(script) == /\ script \in Scripts
                           /\ Has(script, "link") => ~closed
                           /\ Has(script, "unlink") => len > 0
<1> SUFFICES \E script, aside : Fits(script) /\ aside \in BOOLEAN /\ plan = Plan(script, aside)
  OBVIOUS
<1>1. Words = {"state", "acquire", "order", "clone", "replaced", "rejected", "fmt",
               "link", "unlink", "close"}
  BY DEF Words, Inside
<1>2. \A word \in Words \ {"link", "unlink"} : Fits(<<word>>)
  BY <1>1, OneWord
<1>3. /\ Fits(<<>>) /\ Fits(<<"order", "acquire">>) /\ Fits(<<"clone", "replaced">>)
      /\ len # 0 => Fits(<<"unlink">>)
  <2>1. Fits(<<>>)
    BY EmptyScript
  <2>2. Fits(<<"order", "acquire">>) /\ Fits(<<"clone", "replaced">>)
    BY <1>1, TwoWords DEF PlainWords
  <2>3. len # 0 => Fits(<<"unlink">>)
    BY <1>1, OneWord
  <2> QED
    BY <2>1, <2>2, <2>3
<1>4. ~closed => /\ Fits(<<"order", "clone", "link">>)
                 /\ Fits(<<"order", "acquire", "clone", "link">>)
  BY <1>1, ThreeWords, FourWords DEF PlainWords
<1> HIDE DEF Fits
<1>5. CASE op \in {"update", "close", "debug", "flags"}
  BY <1>1, <1>2, <1>3, <1>5 DEF Plans
<1>6. CASE op = "drop"
  BY <1>1, <1>2, <1>3, <1>6 DEF Plans, WithWaiter
<1>7. CASE op = "first_poll"
  BY <1>1, <1>2, <1>3, <1>4, <1>7 DEF Plans
<1>8. CASE op = "poll"
  BY <1>3, <1>8 DEF Plans, WithWaiter
<1>9. CASE op = "try_acquire"
  BY <1>1, <1>2, <1>3, <1>9 DEF Plans
<1> QED
  BY <1>5, <1>6, <1>7, <1>8, <1>9 DEF Operations

\* The lock goes to one frame at a time.
LEMMA AloneKeeps == CInv /\ CInv' /\ Alone /\ [Next]_vars => Alone'
<1> SUFFICES ASSUME CInv, CInv', Alone, [Next]_vars PROVE Alone'
  OBVIOUS
<1>1. \A g \in Frames : /\ phase[g] = "holding" <=> at[g] \in Critical
                        /\ phase'[g] = "holding" <=> at'[g] \in Critical
  BY DEF CInv, FrameInv
<1>2. CASE \A g \in Frames : phase'[g] = "holding" => phase[g] = "holding"
  BY <1>1, <1>2 DEF Alone
<1>3. CASE \E f \in Frames : LockAtOnce(f) \/ LockGranted(f)
  <2>1. PICK f \in Frames : Lock!Free /\ phase' = [phase EXCEPT ![f] = "holding"]
    BY <1>3 DEF LockAtOnce, LockGranted, Lock!Take, Lock!Grant
  <2>2. \A g \in Frames : phase'[g] = "holding" => g = f
    BY <2>1 DEF Lock!Free, CInv
  <2> QED
    BY <1>1, <2>2 DEF Alone
<1>4. ASSUME NEW f \in Frames,
             \/ LockContends(f) /\ phase' = [phase EXCEPT ![f] = "waiting"]
             \/ phase' = [phase EXCEPT ![f] = "out"]
      PROVE  \A g \in Frames : phase'[g] = "holding" => phase[g] = "holding"
  BY <1>4 DEF CInv
<1>5. ASSUME NEW f \in Frames,
             \/ LockContends(f) \/ TryLockFails(f) \/ Act(f) \/ ToCheck(f) \/ Serve(f)
             \/ Unlock(f) \/ Wake(f) \/ Relock(f) \/ Abandon(f) \/ Return(f)
             \/ UserReturns(f) \/ UserPanics(f)
      PROVE  \A g \in Frames : phase'[g] = "holding" => phase[g] = "holding"
  BY <1>4, <1>5 DEF LockContends, Lock!Request, TryLockFails, Act, ToCheck, Serve, Unlock,
                    Lock!Release, Wake, Relock, Abandon, Return, UserReturns, Served, UserPanics
<1>6. ASSUME UNCHANGED phase
      PROVE  \A g \in Frames : phase'[g] = "holding" => phase[g] = "holding"
  BY <1>6
<1> QED
  BY <1>2, <1>3, <1>5, <1>6 DEF Next, Step, Call, vars

\* A step that leaves len and closed alone, and its script fitting.
LEMMA GoesCounted ==
  ASSUME SInv, NEW f \in Frames, NEW place, NEW j \in Jobs, Goes(f, place, j),
         UNCHANGED <<len, closed>>, Fitting(place, j.script)
  PROVE  Counted'
<1>1. len' \in Nat /\ closed' \in BOOLEAN
  BY DEF SInv, Counted
<1>2. FittingWith(place, j.script, len', closed')
  BY DEF Fitting
<1> QED
  BY <1>1, <1>2, OthersCounted

\* A call that begins, or goes on with the queue it was serving or closing.
LEMMA BeginCounts ==
  ASSUME SInv, NEW f \in Frames, Begin(f), UNCHANGED <<len, closed>> PROVE Counted'
<1> DEFINE j == job[f]
<1>1. j \in Jobs /\ len \in Nat /\ closed \in BOOLEAN
  BY DEF SInv, Counted
<1>2. /\ <<"close">> \in Scripts /\ Fitting("crit", <<"close">>)
      /\ <<"rejected">> \in Scripts /\ Fitting("crit", <<"rejected">>)
  BY OneWord DEF Words, Inside, Fitting, FittingWith
<1>3. CASE Goes(f, "crit", [j EXCEPT !.more = FALSE, !.script = <<"close">>])
  <2> DEFINE k == [j EXCEPT !.more = FALSE, !.script = <<"close">>]
  <2>1. k \in Jobs /\ k.script = <<"close">>
    BY <1>1, <1>2 DEF Jobs
  <2>2. Goes(f, "crit", k)
    BY <1>3
  <2> HIDE DEF k
  <2> QED
    BY <1>2, <2>1, <2>2, GoesCounted
<1>4. CASE Goes(f, "check", [j EXCEPT !.more = FALSE])
  <2> DEFINE k == [j EXCEPT !.more = FALSE]
  <2>1. k \in Jobs /\ Goes(f, "check", k) /\ Fitting("check", k.script)
    BY <1>1, <1>4 DEF Jobs, Fitting, FittingWith, Scripted
  <2> HIDE DEF k
  <2> QED
    BY <2>1, GoesCounted
<1>5. ASSUME NEW plan \in Plans(j.op),
             Goes(f, "crit", [j EXCEPT !.script = plan.script, !.abandons = plan.abandons])
      PROVE  Counted'
  <2> DEFINE k == [j EXCEPT !.script = plan.script, !.abandons = plan.abandons]
  <2>1. Goes(f, "crit", k)
    BY <1>5
  <2>2. PICK script \in Scripts, aside \in BOOLEAN :
          /\ plan = Plan(script, aside)
          /\ Has(script, "link") => ~closed
          /\ Has(script, "unlink") => len > 0
    BY <1>1, PlansFit DEF Jobs
  <2>3. plan.script = script /\ plan.abandons = aside
    BY <2>2 DEF Plan
  <2>4. k = [j EXCEPT !.script = script, !.abandons = aside]
    BY <2>3
  <2>5. k \in Jobs /\ k.script = script
    BY <1>1, <2>4 DEF Jobs
  <2> HIDE DEF k
  <2>6. Fitting("crit", k.script)
    BY <2>2, <2>5 DEF Fitting, FittingWith
  <2> QED
    BY <2>1, <2>5, <2>6, GoesCounted
<1>6. CASE Goes(f, "crit", [j EXCEPT !.script = <<"rejected">>, !.unwinding = TRUE])
  <2> DEFINE k == [j EXCEPT !.script = <<"rejected">>, !.unwinding = TRUE]
  <2>1. k \in Jobs /\ k.script = <<"rejected">>
    BY <1>1, <1>2 DEF Jobs
  <2>2. Goes(f, "crit", k)
    BY <1>6
  <2> HIDE DEF k
  <2> QED
    BY <1>2, <2>1, <2>2, GoesCounted
<1>7. CASE j.more
  BY <1>3, <1>4, <1>7 DEF Begin, Again
<1>8. CASE ~j.more
  BY <1>5, <1>6, <1>8, Zenon DEF Begin
<1> QED
  BY <1>7, <1>8

\* A round of close sends away as many as the abstract one.
LEMMA RoundCounts ==
  ASSUME NEW k \in Nat
  PROVE  /\ Size!Min({k, BatchCap}) = Min({k, BatchCap})
         /\ Min({k, BatchCap}) \in Nat /\ k - Min({k, BatchCap}) \in Nat
<1>1. BatchCap \in Nat
  BY CallbackAssumptions
<1>2. Min({k, BatchCap}) = IF k <= BatchCap THEN k ELSE BatchCap
  BY <1>1, MinOfTwo
<1>3. Size!Min({k, BatchCap}) = Min({k, BatchCap})
  BY DEF Min, Size!Min
<1> QED
  BY <1>1, <1>2, <1>3

\* The next thing on the script still fits: a newcomer joins an open queue, one who is
\* there leaves, or close sends a batch away.
LEMMA ActCounts == ASSUME SInv, NEW f \in Frames, Act(f) PROVE Counted' /\ SizeMoves
<1> DEFINE s == job[f].script
           j == [job[f] EXCEPT !.script = Tail(s)]
           n == Min({len, BatchCap})
           k == [j EXCEPT !.batch = n, !.more = len' # 0]
<1>1. /\ job[f] \in Jobs /\ s \in Scripts /\ s # <<>> /\ len \in Nat /\ closed \in BOOLEAN
      /\ at[f] = "crit" /\ at[f] \in Critical
  BY DEF SInv, Counted, Jobs, Act, Critical
<1>2. /\ Has(s, "link") => ~closed
      /\ Has(s, "unlink") => len > 0
  <2>1. Fitting("crit", s) /\ "crit" \in Scripted
    BY <1>1 DEF SInv, Counted, Scripted, Critical
  <2> QED
    BY <2>1 DEF Fitting, FittingWith
<1>3. /\ Tail(s) \in Scripts /\ Head(s) \in Words /\ Has(s, Head(s))
      /\ Has(Tail(s), "link") => Has(s, "link")
      /\ ~Has(Tail(s), "unlink")
      /\ Head(s) = "close" => ~Has(Tail(s), "link")
  BY <1>1, ScriptGoesOn
<1>4. j \in Jobs /\ j.script = Tail(s)
  BY <1>1, <1>3 DEF Jobs
<1>5. Size!Min({len, BatchCap}) = n /\ n \in Nat /\ len - n \in Nat
  BY <1>1, RoundCounts
<1>6. \/ Head(s) = "link" /\ len' = len + 1 /\ Goes(f, "crit", j) /\ UNCHANGED closed
      \/ Head(s) = "unlink" /\ len' = len - 1 /\ Goes(f, "crit", j) /\ UNCHANGED closed
      \/ Head(s) = "close" /\ closed' = TRUE /\ len' = len - n /\ Goes(f, "crit", k)
      \/ Head(s) \in Inside /\ Goes(f, Head(s), j) /\ UNCHANGED <<len, closed>>
  BY DEF Act
<1> HIDE DEF s, j, n
<1>7. CASE Head(s) = "link" /\ len' = len + 1 /\ Goes(f, "crit", j) /\ UNCHANGED closed
  <2>1. len' \in Nat /\ closed' \in BOOLEAN /\ FittingWith("crit", j.script, len', closed')
    BY <1>1, <1>2, <1>3, <1>4, <1>7 DEF Fitting, FittingWith
  <2>2. Size!Join
    BY <1>2, <1>3, <1>7 DEF Size!Join
  <2>3. Counted'
    BY <1>1, <1>4, <1>7, <2>1, OthersCounted
  <2> QED
    BY <2>2, <2>3 DEF SizeMoves, Size!Next
<1>8. CASE Head(s) = "unlink" /\ len' = len - 1 /\ Goes(f, "crit", j) /\ UNCHANGED closed
  <2>1. len > 0
    BY <1>2, <1>3, <1>8
  <2>2. len' \in Nat /\ closed' \in BOOLEAN /\ FittingWith("crit", j.script, len', closed')
    BY <1>1, <1>2, <1>3, <1>4, <1>8, <2>1 DEF Fitting, FittingWith
  <2>3. Size!Leave
    BY <1>8, <2>1 DEF Size!Leave
  <2>4. Counted'
    BY <1>1, <1>4, <1>8, <2>2, OthersCounted
  <2> QED
    BY <2>3, <2>4 DEF SizeMoves, Size!Next
<1>9. CASE Head(s) = "close" /\ closed' = TRUE /\ len' = len - n /\ Goes(f, "crit", k)
  <2>1. k \in Jobs /\ k.script = Tail(s)
    BY <1>4, <1>5 DEF Jobs
  <2> HIDE DEF k
  <2>2. len' \in Nat /\ closed' \in BOOLEAN /\ FittingWith("crit", k.script, len', closed')
    BY <1>3, <1>5, <1>9, <2>1 DEF Fitting, FittingWith
  <2>3. Size!Round
    BY <1>5, <1>9 DEF Size!Round
  <2>4. Counted'
    BY <1>1, <1>9, <2>1, <2>2, OthersCounted
  <2> QED
    BY <2>3, <2>4 DEF SizeMoves, Size!Next
<1>10. CASE Head(s) \in Inside /\ Goes(f, Head(s), j) /\ UNCHANGED <<len, closed>>
  <2>1. Head(s) # "serve"
    BY <1>3 DEF Words
  <2>2. Fitting(Head(s), j.script)
    BY <1>2, <1>3, <1>4, <2>1 DEF Fitting, FittingWith
  <2> QED
    BY <1>4, <1>10, <2>2, GoesCounted DEF SizeMoves
<1> QED
  BY <1>6, <1>7, <1>8, <1>9, <1>10

\* The waiter that check asks the state for is still there when the state answers.
LEMMA UserReturnsCounts ==
  ASSUME SInv, NEW f \in Frames, UserReturns(f) PROVE Counted' /\ SizeMoves
<1> DEFINE n == job[f].batch + 1
           k == [job[f] EXCEPT !.batch = n, !.more = len' # 0]
           m == [job[f] EXCEPT !.batch = n]
<1>1. /\ job[f] \in Jobs /\ len \in Nat /\ closed \in BOOLEAN /\ at[f] \in Kinds
      /\ Fitting(at[f], job[f].script) /\ n \in Nat
  BY DEF SInv, Counted, UserReturns, Jobs
<1>2. k \in Jobs /\ m \in Jobs
  BY <1>1 DEF Jobs
<1>3. CASE at[f] = "serve"
  <2>1. Served(f) /\ UNCHANGED closed
    BY <1>3 DEF UserReturns, Served
  <2>2. \/ /\ len' = len - 1
           /\ Goes(f, "out", k) \/ Goes(f, "check", m)
        \/ Goes(f, "out", job[f]) /\ UNCHANGED len
    BY <2>1 DEF Served
  <2> HIDE DEF n, k, m
  <2>3. len > 0 /\ at[f] \in Critical /\ {"out", "check"} \cap (Scripted \cup {"serve"}) = {}
    BY <1>1, <1>3 DEF Fitting, FittingWith, Critical, Inside, Scripted
  <2>4. \A place \in {"out", "check"}, j \in Jobs :
           FittingWith(place, j.script, len', closed')
    BY <2>3 DEF FittingWith
  <2>5. CASE len' = len - 1 /\ (Goes(f, "out", k) \/ Goes(f, "check", m))
    <3>1. len' \in Nat /\ closed' \in BOOLEAN /\ Size!Leave
      BY <1>1, <2>1, <2>3, <2>5 DEF Size!Leave
    <3> QED
      BY <1>2, <2>3, <2>4, <2>5, <3>1, OthersCounted DEF SizeMoves, Size!Next
  <2>6. CASE Goes(f, "out", job[f]) /\ UNCHANGED len
    BY <1>1, <2>1, <2>3, <2>4, <2>6, OthersCounted DEF SizeMoves
  <2> QED
    BY <2>2, <2>5, <2>6
<1>4. CASE at[f] # "serve"
  <2> DEFINE place == IF at[f] \in Inside THEN "crit" ELSE "out"
  <2>1. Goes(f, place, job[f]) /\ UNCHANGED <<len, closed>>
    BY <1>4 DEF UserReturns
  <2>2. Fitting(place, job[f].script)
    <3>1. place = "crit" => at[f] \in Scripted
      BY <1>4 DEF Scripted, Critical, Inside
    <3>2. place # "serve" /\ (place \in Scripted => place = "crit")
      BY DEF Scripted, Critical, Inside
    <3> QED
      BY <1>1, <3>1, <3>2 DEF Fitting, FittingWith
  <2> QED
    BY <1>1, <2>1, <2>2, GoesCounted DEF SizeMoves
<1> QED
  BY <1>3, <1>4

\* What a panic leaves to do changes nothing in the list.
LEMMA UserPanicsCounts ==
  ASSUME SInv, NEW f \in Frames, UserPanics(f) PROVE Counted' /\ SizeMoves
<1>1. PICK params \in {<<"rejected">>, <<>>}, place \in {"crit", "out"} :
        Goes(f, place, [job[f] EXCEPT !.script = params, !.more = FALSE, !.unwinding = TRUE])
  BY DEF UserPanics
<1> DEFINE k == [job[f] EXCEPT !.script = params, !.more = FALSE, !.unwinding = TRUE]
<1>2. job[f] \in Jobs /\ UNCHANGED <<len, closed>>
  BY DEF SInv, Counted, UserPanics
<1>3. params \in Scripts /\ ~Has(params, "link") /\ ~Has(params, "unlink")
  BY EmptyScript, OneWord DEF Words, Inside
<1>4. k \in Jobs /\ k.script = params /\ Goes(f, place, k)
  BY <1>1, <1>2, <1>3 DEF Jobs
<1> HIDE DEF k
<1>5. Fitting(place, k.script)
  BY <1>3, <1>4 DEF Fitting, FittingWith
<1> QED
  BY <1>2, <1>4, <1>5, GoesCounted DEF SizeMoves

\* A new call has no script yet.
LEMMA CallCounts ==
  ASSUME SInv, NEW t \in Threads, NEW op \in Ops, Call(t, op) PROVE Counted' /\ SizeMoves
<1> DEFINE f == <<t, depth'[t]>>
<1>1. Goes(f, "enter", NewJob(op)) /\ UNCHANGED <<len, closed>>
  BY DEF Call
<1>2. f \in Frames
  <2>1. /\ depth[t] < MaxDepth[t] /\ depth' = [depth EXCEPT ![t] = @ + 1]
        /\ depth \in [Threads -> Nat] /\ MaxDepth[t] \in Nat
    BY CallbackAssumptions DEF Call, SInv, CInv
  <2>2. depth'[t] \in 1..MaxDepth[t]
    BY <2>1
  <2> QED
    BY <2>2, PairIsFrame
<1>3. NewJob(op) \in Jobs
  BY CallbackAssumptions, EmptyScript DEF NewJob, Jobs
<1>4. Fitting("enter", NewJob(op).script)
  BY DEF Fitting, FittingWith, Scripted, Critical, Inside
<1> HIDE DEF f
<1> QED
  BY <1>1, <1>2, <1>3, <1>4, GoesCounted DEF SizeMoves

\* What a frame does besides acting on the list leaves len and closed alone.
LEMMA StepCounts == ASSUME SInv, NEW f \in Frames, Step(f) PROVE Counted' /\ SizeMoves
<1>1. /\ job[f] \in Jobs /\ len \in Nat /\ closed \in BOOLEAN
      /\ Fitting(at[f], job[f].script)
  BY DEF SInv, Counted
<1>2. CASE Act(f)
  BY <1>2, ActCounts
<1>3. CASE LockAtOnce(f) \/ LockGranted(f)
  BY <1>3, BeginCounts DEF LockAtOnce, LockGranted, SizeMoves
<1>4. CASE LockContends(f)
  BY <1>4 DEF LockContends, SInv, Counted, Fitting, FittingWith, SizeMoves
<1>5. CASE \/ TryLockFails(f) \/ ToCheck(f) \/ Serve(f) \/ Unlock(f) \/ Relock(f)
  <2>1. /\ \E place \in {"out", "check", "serve", "enter"} :
              Goes(f, place, job[f]) /\ (place = "serve" => len # 0)
        /\ UNCHANGED <<len, closed>>
    BY <1>5 DEF TryLockFails, ToCheck, Serve, Unlock, Relock
  <2>2. {"out", "check", "serve", "enter"} \cap Scripted = {}
    BY DEF Scripted, Critical, Inside
  <2> QED
    BY <1>1, <2>1, <2>2, GoesCounted DEF Fitting, FittingWith, SizeMoves
<1>6. CASE Wake(f) \/ Abandon(f) \/ Return(f)
  <2>1. PICK place \in {"wake", "abandoned", "idle"}, j \in Jobs : Goes(f, place, j)
    <3>1. CASE Wake(f)
      <4>1. job[f].batch \in Nat \ {0}
        BY <1>1, <3>1 DEF Wake, Jobs
      <4>2. [job[f] EXCEPT !.batch = @ - 1] \in Jobs
        BY <1>1, <4>1 DEF Jobs
      <4> QED
        BY <3>1, <4>2 DEF Wake
    <3>2. CASE Abandon(f)
      <4>1. [job[f] EXCEPT !.abandons = FALSE] \in Jobs
        BY <1>1 DEF Jobs
      <4> QED
        BY <3>2, <4>1 DEF Abandon
    <3>3. CASE Return(f)
      <4>1. NewJob("flags") \in Jobs
        BY EmptyScript DEF NewJob, Jobs, Operations
      <4> QED
        BY <3>3, <4>1 DEF Return
    <3> QED
      BY <1>6, <3>1, <3>2, <3>3
  <2>2. {"wake", "abandoned", "idle"} \cap (Scripted \cup {"serve"}) = {}
    BY DEF Scripted, Critical, Inside
  <2>3. UNCHANGED <<len, closed>>
    BY <1>6 DEF Wake, Abandon, Return
  <2> QED
    BY <2>1, <2>2, <2>3, GoesCounted DEF Fitting, FittingWith, SizeMoves
<1> QED
  BY <1>2, <1>3, <1>4, <1>5, <1>6 DEF Step

\* Every step keeps the invariant and moves len as the queue does.
LEMMA SInvStep == SInv /\ [Next]_vars => SInv' /\ SizeMoves
<1> SUFFICES ASSUME SInv, [Next]_vars PROVE SInv' /\ SizeMoves
  OBVIOUS
<1>1. CInv' /\ Alone'
  BY CInvStep, AloneKeeps DEF SInv
<1>2. CASE UNCHANGED vars
  BY <1>1, <1>2 DEF vars, SInv, Counted, Fitting, FittingWith, SizeMoves
<1>3. ASSUME Next PROVE Counted' /\ SizeMoves
  BY <1>3, CallCounts, StepCounts, UserReturnsCounts, UserPanicsCounts DEF Next
<1> QED
  BY <1>1, <1>2, <1>3 DEF SInv

\* Nobody has called anything at first.
LEMMA SInvInit == Init => SInv /\ Size!Init
<1> SUFFICES ASSUME Init PROVE SInv /\ Size!Init
  OBVIOUS
<1>1. CInv
  BY CInvInit
<1>2. /\ at = [f \in Frames |-> "idle"] /\ job = [f \in Frames |-> NewJob("flags")]
      /\ len = 0 /\ closed = FALSE
  BY DEF Init
<1>3. NewJob("flags") \in Jobs
  BY EmptyScript DEF NewJob, Jobs, Operations
<1>4. Alone /\ Counted
  BY <1>2, <1>3 DEF Alone, Counted, Fitting, FittingWith, Scripted, Critical, Inside
<1> QED
  BY <1>1, <1>2, <1>4 DEF SInv, Size!Init

\* However calls nest and interleave and wherever user code panics: newcomers are linked
\* only while the queue is open, a waiter is served or unlinked only while it is there,
\* and no count is lost between a test and the act that relies on it (acquire_or_enqueue,
\* check, close_one and Acquire's poll and drop, which change len by hand).
THEOREM CallsCountLikeTheQueue == Spec => CountsLikeTheQueue
<1>1. SInv /\ [Next]_vars => [Size!Next]_<<len, closed>>
  BY SInvStep DEF SizeMoves
<1>2. SInv /\ [Next]_vars => SInv'
  BY SInvStep
<1> QED
  BY <1>1, <1>2, SInvInit, PTL DEF Spec, CountsLikeTheQueue, Size!Spec
=============================================================================
