# flag-bearer: TLA+ specifications

flag-bearer is an asynchronous semaphore whose permits are given out by a
user-defined state. Tasks that cannot be served wait in an intrusive list; the
queue, its lock and the order of service are the library's own logic, and they
are what is specified here.

## The system

| Part | State | Operations | Module |
| --- | --- | --- | --- |
| Futex mutex, `flag-bearer-mutex/src/futex.rs` | the futex word | `lock`, `try_lock`, `unlock`, `lock_contended`, `spin`, `wake` | `FutexMutex`, refining `Mutex` |
| Semaphore queue, `flag-bearer-queue/src/lib.rs` | `QueueState`: list, `poisoned`, `closed`, `len`, order, state | `with_state`, `check`, `with_queue`, `close`, `clear_poison` | `SemaphoreQueue` |
| Acquire future, `flag-bearer-queue/src/acquire.rs` | the node (params, waker, or result) | `acquire`, `poll`, `drop`, `try_acquire`, `acquire_or_enqueue` | `SemaphoreQueue` |
| Orders, `flag-bearer-queue/src/order.rs` | a custom order's own state | `enqueue_front` | `SemaphoreQueue` (`FrontAnswers`) |
| Permits and facade, `flag-bearer/src` | the permit a guard owns | `Permit::drop`, `take`, `out_of_thin_air`, and the calls above | `SemaphoreQueue`, refining `Semaphore` |
| The lock and user code, all of the above | the lock, the stack of each thread | every operation, with the user code it runs under the lock and outside | `Callbacks`, over `Mutex` and `Occupancy` |
| `SemaphoreState`, `flag-bearer-core` | user-defined | `acquire`, `release` | a counter in `SemaphoreQueue`; the four states below |
| `dynamic_limit.rs` | count and limit | run, cancel, change the limit | `ConcurrencyLimit` |
| `aimd.rs`, tests/`aimd.rs` | the same, and a controller | the same; report success or failure | `Aimd`, over `ConcurrencyLimit` |
| `multi_dimensional.rs` | two budgets | run, cancel | `MultiDimensional` |
| `connection_pool.rs`, tests/`pool.rs` | a stack of connections | check out with a timeout, keep, open, return, discard | `ConnectionPool` |
| Builder, close type-state, loom shim, formatting, benches | none of their own | | not modelled |

How they interact. Every queue operation locks the one mutex. `poll` and
`try_acquire` only admit or enqueue; `drop` of a future, `with_state` and
`Permit::drop` run their closure and then *serve*: `with_queue` calls `check`
under the lock, which asks the state to `acquire` for the waiters from the front
until one is refused or 32 wakers are collected, unlocks, calls the wakers, and
relocks if the batch was full. `close` drains the list in batches the same way
and discards it when it is empty. User code is called under the lock (`acquire`,
`release`, the `with_state` closure, the order) and outside it (wakers), and may
panic: a panic of state code poisons the queue. Code that runs outside the lock may
call the semaphore again.

What is hard: the lock is released between batches and before wakers are called,
so anything may come in between; a future may be dropped when it is queued,
granted or refused; a head that is cancelled may unblock those behind it; panics
leave a batch half woken or a node without its params; the waker a task was last
polled with must be the one that is called; `len` shadows a list that four places
change; user code that runs under the lock by mistake locks its own thread out; a
timeout races the grant it waited for; and the mutex must not lose a wake-up between
the word and the kernel. `PROJECT.json` lists these hazards, each with its line and the properties that
watch it.

## Modules

`Mutex` is what the queue relies on: `lock` waits, at most one process holds.

`FutexMutex` has one action per atomic access of `futex.rs`. A process's place
stands for the program counter and for `lock_contended`'s local `state`, which
only chooses between places. The weak compare-exchange may fail for no reason
(`LockSlow` needs no guard on the word); `FUTEX_WAIT` compares and sleeps in one
step (`FutexSleep`) and may return for no reason (`SpinAgain`); `FUTEX_WAKE` wakes
any one sleeper (`WakeOne`). The word holds all the shared state, and its accesses
are atomic operations on one location, so interleaving them is faithful to the
memory orders for the properties stated.

`SemaphoreQueue` models the queue, its futures and their permits. `queue` is the
list, front first; `fut` is what has become of each future: `new`, `linked`,
`granted` or `refused` (removed from the list, result not yet taken), `permit`,
or over. `dead` are the nodes whose params a panicking `acquire` lost
(`None` in the node). A critical section is one step, because the mutex excludes
and no user code observes the middle of it, with one exception: `check` calls
`acquire` once per waiter, so `Grant` serves one waiter, `CheckEnds` leaves and
`CheckPanics` unwinds, with the lock held in between (`Unlocked` guards
everyone else). What runs without the lock is a step of its own: `WakeNext` for
each waker, `ServeMore` for the relock, each round of `Close`. A thread of the
model is one call of `with_queue` or `close` under way; a waker that re-enters the
semaphore is another thread's call between two wakes (`Callbacks` has the stack).
After a panic the thread "unwind"s: the wakers left in its batch are still called.
`called` are the futures whose waker was called since their last poll. A waker that returns
has woken its task; what one that panics had done by then is not the queue's affair, so
`called` says no more of it, and fairness of polls is assumed only where wakers do not panic.

The state is a counter from which each future takes `Need[f]` permits. A panic of
`acquire` or `release` happens before or after its change. `total` records
what the application has put in (history), and `owed` that a service was given up
openly: after `clear_poison`, whose doc asks for a `with_state`, and after a waker
panicked between batches, which abandons the batches to come.

Slots of `Acquires` are used again when their future is gone. A waker still in
a batch then may wake the slot's next future, as a task that keeps its waker
and starts another acquire would be.

`Closeable`, the order, the batch capacity, which calls may panic, and whether
permits are made and taken by hand are constants, so each run chooses what it asks.

`Semaphore` is what a client may rely on: a line, who has permits, how many are
free; no lock, nodes, batches or wakers. Its `Serve` serves the leader and nobody
else. `SemaphoreQueue` implements it under `Abstract`: the line is `queue`, `lost`
are the linked futures without params, `held` those `granted` or with a permit, `free`
is the state's counter, `Order[n]` the answers the order may give to a newcomer of a
line of `n`. Nearly every step of the queue is a step of one client; wakers,
batches, unlocking and taking a result are stutters.

`Callbacks` is the other half of `SemaphoreQueue`: there a critical section is one
step, here it is unfolded into the lock and the user code it runs, and the data
shrinks to `len` and `closed`. A thread is a stack of calls of the queue. A call, or
*frame*, goes through entering (`LockAtOnce`, or `LockContends` and `LockGranted`),
its critical section (`Act` runs the *script* of its operation; `check` serves),
unlocking, waking, relocking, and dropping what it has set aside, whose order the code
fixes by scopes. `at[f]` is a kind of user code while that runs; it returns, panics, or
calls the queue again if its kind is in `Reenters`. `Plans` lists, for each
operation, the scripts its branches amount to. The docs allow calls from wakers and from what a
cancelled future leaves; the state, the order and the clone of a waker are called under
the lock and may not. The kinds `replaced` and `rejected` are finding 3.

`Occupancy` is what the two halves have in common: `len` and `closed`. They change by one who
joins a queue that is not closed, by one who leaves it, and by a round of `close`. In
`SemaphoreQueue` such a change is one step by construction of its critical sections, and what
could go wrong is `len` against the list; in `Callbacks` a decision (the queue is open, the
leader is there) is several steps before the change that relies on it, with user code, panics
and calls from other threads in between. Both are shown to implement `Occupancy`, so that the
two halves cannot drift apart in what they say of the queue.

`ConcurrencyLimit`, `Aimd`, `MultiDimensional` and `ConnectionPool` are the states of the
examples, which the crate's documentation repeats, with the tasks that use them. Each
of them takes a call of the semaphore, and the service that follows, for one step:
`Serve` is what `with_queue` does when it ends, given that `SemaphoreQueue` leaves no
leader unserved that fits. That is exact while a call serves fewer waiters than a
batch holds (32); beyond that a newcomer may come in between batches. The difference
between being granted and being polled stays, because timeouts fall into it.
`Aimd` is composed of `ConcurrencyLimit`, whose limit it moves, and is shown to be
one (`IsALimit`). The example keeps a floating-point limit `x`, the test an integer
that is halved rounding up; admission compares an integer with it, so
only the ceiling of `x` matters, and on that adding one, halving and clamping do what
they do on the test's integer, as `ceil(x/2) = ceil(ceil(x)/2)`. In `ConnectionPool` the
names of closed connections are used again, and a connection that was taken out of its permit
stays its client's until the client drops it. `MultiDimensional` is the FIFO semaphore of the
example; the crate's third example has the same two counters under LIFO and is not covered.

`Totals` is what the members of a set ask for together, as a count of units rather than a
recursive sum, so that conservation can be proved and not only checked.

The `MC` modules give TLC its values; the `_proofs` modules hold the theorems. A
definition called "variant of" is a plausible mistake at the place it names, kept to
show that the properties notice it.

## Properties

Mutex: `MutualExclusion`; `WordTracksOwner` (the word is UNLOCKED exactly while
nobody owns it); `NoSleeperForgotten` (the claim of the comment at
`futex.rs:44-47`); `ImplementsMutex`; `SomebodyLocks` (contention is always
resolved).

Queue:

- `LeaderBlocked`: no lost service. When nobody serves the queue and no service was
  given up, the first waiter that still has its params does not fit. `HeadBlocked`
  is the weaker form that looks at the very front only; it is the one that holds
  when `acquire` may panic.
- `PermitsConserved`: permits in the state and out of it add up to what was put in,
  across cancellation, closing and panics. `BalancedStep` says it step by step: a step
  moves the permit of at most one client, by what that client asks for.
- `CountsItsWaiters`: `len` and `closed` change as `Occupancy` says; nobody joins a closed queue,
  nobody is counted out twice, and a round of `close` takes a full batch or all there are.
- `NothingAdmitted`: while the semaphore is closed or poisoned nothing is granted and
  nobody joins, including between the rounds of `close`.
- `ListConsistent`, `DiscardedListEmpty`: what the unsafe code in `drop` and `poll`
  and `close_one`'s assertion rest on.
- `NoStrandedWaker`: a future that has left the list had the waker of its last poll called,
  or that waker is in a batch that will be, also when another waker or `acquire` panics.
- `ImplementsSemaphore`: every step is one of `Semaphore`, or none. In particular only
  the leader is served, nobody passes the line but whom the order lets, and a panic
  takes at most one permit or request with it.
- `ServedInTurn`: every acquire is answered, whatever the order, unless newcomers go
  ahead of the line without end. `order.rs:38-39` gives only FIFO a guarantee; the
  premise always holds there, unfair tries aside.
- `ServesItsLeaders`: the fairness of the queue's own threads amounts to `Semaphore`'s
  promise that a leader that fits is served. `CloseDrains`: closing ends.

Lock and user code:

- `LockScoped`: a call holds the lock in its critical section and never while wakers or
  abandoned values run, whatever panicked.
- `NobodyWaitsForItself`: no thread waits for a lock that a frame below holds.
- `CountsLikeTheQueue`: the same `Occupancy` with the critical sections unfolded; what a call
  found under the lock still holds when it acts on it.
- `EveryCallReturns`: with other threads and re-entrant calls, every call returns, unless it
  (or a call from its own user code) is held up for ever: overtaken at the lock again and
  again, as `futex.rs` allows, or joined by new waiters between the batches of its service
  again and again. Both exceptions are behaviours, not states: a service nobody adds to
  ends, and without either of them the property fails.

States:

- `InFlightExact`, `WaitsOnlyWhenFull`, `NoneStartsAboveLimit`, `ExcessDrains`,
  `EveryWorkerServed`: a limit moved at any time, with workers that give up. A step that admits
  somebody ends within the limit, also one that takes a permit back at the same moment.
- `IsALimit`, `OverloadEnds`, `EveryTaskAdmitted`: the adaptive loop is such a limit,
  between its two bounds, corrects itself, and never strangles itself.
- `BothBudgetsExact`, `HeadLacksRoom`, `EveryRequestServed`: two budgets taken together or not
  at all, no deadlock between the two, and no starvation of the large request.
- `EachInOnePlace`, `NoneIdleWhileWaiting`, `LostOnPurpose`, `PoolBounded`,
  `EveryCheckoutEnds`: connections are neither shared nor lost when a timeout meets a
  grant, and one that was taken apart from its permit does not return as well; every timeout
  adds one, yet the pool stays below two for each client.

## Runs and bounds

| Run | Shows | Bounds |
| --- | --- | --- |
| `futex` | all mutex properties | 3 threads, the code's spin limit 4 |
| `queue_panics` | list, wakers, count and balance under panics of `acquire`, the order and wakers; the order that reads `len`; fair tries; closing at once and in rounds; the abstract semaphore, overtaking included | 3 futures asking for 1, 2 threads, 1 waker, batches of 2, LIFO above 1, 2 permits |
| `queue_states` | any order; wakers that change between polls; unfair tries; state changes; permits taken and made; panics of `release` and `with_state`; leader served, permits conserved | 3 futures asking for 1, 2 and 1, 2 threads, 2 wakers, batches of 1, never closed, 2 permits |
| `queue_live` | liveness under any order | 3 futures asking for 1, 2 and 1, 2 threads, batches of 1, 2 permits |
| `callbacks` | lock scopes, self-deadlock, calls return, waiters counted | 2 threads, 2 and 1 calls deep, 2 waiters, batches of 1 |
| `limit` | a limit moved at will | 4 workers, limits 0 to 3 |
| `aimd` | the adaptive limit | 5 tasks, limit 1 to 3, a downstream for 2 |
| `budgets` | two budgets | 5 clients of sizes 6, 4, 4, 2 and 1, for 2 requests and 8 units |
| `pool` | the pool | 3 clients, 1 connection seeded, 6 names |
| `dead_waiter` | finding 1 | 3 futures, FIFO, `acquire` may panic |
| `closed_poisoned` | finding 2 | 3 futures, FIFO, `with_state` may panic |
| `replaced_waker` | finding 3 | as `callbacks`, with every operation; dropping a replaced waker calls the queue |

Three threads are what the mutex needs: one unlocks and wakes, one sleeps, one barges
in. Three futures give a head that blocks, one behind it that fits and one more
that arrives or is cancelled; two threads give a server or closer and another that
re-enters. `BatchCap` is 32 in the code; nothing depends on its value but the
comparisons with it, and with three futures the capacities 1 and 2 make a batch
full with waiters left, full with none left, and not full. `MaxPermits` bounds what
`with_state` and `out_of_thin_air` put in; with two permits among three futures
somebody still waits. A custom order may answer as Fifo, Lifo or
Hybrid would, at each call anew, so `queue_states` and `queue_live` hold for those too;
`queue_panics` has the size-gated order itself, because a wrong `len` and a newcomer who goes
first though the order says no show only there. Panics of the order do not depend on which it is.
Panics are shared out between two runs by what they disturb: `queue_panics` has those
that lose a request or a wake, `queue_states` those of the state's own changes. So are the
rest of the operations, each run with those that meet its panics: closing, which drains what a
panic left, in the one, unfair tries, changing wakers, requests of two sizes and permits moved by
hand in the other. What
the two leave out of each other is covered by the theorems, which hold for every combination.

In `callbacks` the operations are those that between them do everything under and outside
the lock that any operation does and that may be nested: `drop` serves, unlinks and
abandons, `first_poll` asks the order, the state and a waker's clone, `close` drains,
`debug` only tries the lock; the scripts of the others are parts of these, but for
`replaced`, which `replaced_waker` has. A frame below the top can only hold, want or
not want the lock, so the deeper thread shows what any nesting would for one
pair, and the other thread competes for the lock, closes, and keeps joining.

The sizes of `budgets` keep the proportions of the example: two halves fill
the budget and the large request needs both gone. `limit` and `aimd` have more tasks
than any limit admits, and limits on both sides of the downstream's capacity. `pool` has
more names than connections can be open (`PoolBounded` is tight: five are reached),
so that opening one never waits for a name.

The numbers of futures, threads, tasks and names, the nesting, and `MaxPermits` and
`MaxWaiting` are the only bounds of the state space, and deadlock is checked in every
run. Futures are interchangeable under a symmetry only where they ask for the same,
threads always, and never in a run with a liveness property.

## Fairness

Mutex: a thread in `lock_contended` keeps running, an owner unlocks and a pending
wake is made (weak fairness of each thread's steps). A sleeper is not assumed to
wake by itself, and nobody is assumed to call `lock`. What is checked is that
somebody gets in; `futex.rs` promises no thread in particular its turn.

Queue: a thread inside `with_queue` or `close` goes on (weak fairness). The executor
polls a task whose waker was called, and a permit is dropped some day (strong fairness: both need the
lock, and dropping a permit also an idle thread of the model, which others may take
in turn). That is fairness for what a task does with its future, be it the poll or the drop:
`GoesOn`. No fairness is assumed of new acquires, cancellation, `close`, or spurious
polls, so a waiter is served because of the queue's own steps. Starvation of an
individual thread by the mutex is excluded here by assumption, as `futex.rs` does not
exclude it.

Lock and user code: a frame goes on as long as it can (weak fairness of each frame's steps). Of
the lock that says what `SomebodyLocks` says of `futex.rs`, the default on Linux: while it is
free somebody who wants it gets it, and the same frame may be overtaken for ever. User code comes to
its end, however often it calls the queue before (strong fairness, as each call suspends it).

States: a task that was woken is polled, and one that runs ends (weak fairness of each
task's own steps); the timer of a checkout rings and a connection opens. Nothing is assumed of new
acquires, of cancellation or of whoever moves a limit. `EveryWorkerServed` asks that the limit be
positive again and again, `OverloadEnds` that from some time on nobody gives up,
as a task that gives up takes with it the report of the overload it saw.

## Three disagreements between code and documentation

1. `acquire_or_enqueue` (`acquire.rs:245-259`) lets a back-of-queue acquire try only if
   the list is *empty*. A waiter that lost its params to a panic stays in the list after
   `clear_poison`; `check` skips it (`lib.rs:351-359`), admission does not. Under FIFO
   a new acquire then waits although a permit is free, and fair `try_acquire` says
   NoPermits, until some other operation happens to serve. `lib.rs:412-413` says such
   a waiter is skipped until its future is dropped. Run `dead_waiter`.
2. `acquire_or_enqueue` looks at `poisoned` (line 239) before `closed` (line 242): on a
   semaphore that is both, `acquire` panics where its doc (`flag-bearer/src/lib.rs:514`)
   promises an `AcquireError`. Run `closed_poisoned`.
3. A poll of a queued future with another waker drops the old waker by `clone_from`
   (`acquire.rs:158`) with the lock held. A waker whose destructor calls the queue, such as
   the last handle of a task that owns a permit, waits for itself. The comment at
   `acquire.rs:49-51` says that the destructors of wakers and params "may reenter" and
   that the mutex must be released before they run, and the closing and cancelling paths
   do so (`acquire.rs:139-140`, `tests/reentrant_wake.rs:122`). Run `replaced_waker`.
   The params of a first poll that finds the queue poisoned fare alike: it panics while it
   still owns them and the guard (`acquire.rs:94-112`), and unwinding drops the params
   first. With `rejected` for `replaced` the run ends the same way.

## Proofs

All proofs are for any set of threads and futures, and every value of the
constants that the modules' assumptions allow (`SpinLimitAssumption`,
`QueueAssumptions`: the amounts, bounds and the batch capacity are natural numbers,
the capacity is not zero, and the finite choices are of the kinds listed;
`CallbackAssumptions`, `LimitAssumptions`, `AimdAssumptions`, `BudgetAssumptions` and
`PoolAssumptions` likewise: tasks are finitely many, limits and budgets natural, a request asks
for no more bytes than there are, and the pool is seeded without repetition). Every safety
property that a passing run checks has its theorem; so have, under the condition that the
counterexample lacks, all three properties that a run refutes.

`CommonFacts`: taking a node off a list, adding one at either end, and dropping a prefix
change length and elements as expected and keep a list free of repetition; a set of numbers up
to n has a maximum (by the well-foundedness of <, not by induction over data); and totals add
up: a newcomer adds what it has, two sets without common members the sum of both.

`FutexMutex_proofs`:

- `Typing` (`TypeOK`).
- `Exclusion`, `WordExact`. Neither `MutualExclusion` nor `WordTracksOwner` is
  inductive alone: a thread takes the lock on the evidence of the word, so exclusion
  needs "held implies not UNLOCKED", and an unlock sets the word UNLOCKED, so the
  converse needs "at most one holder". `Owned` is their conjunction with the types.
- `NobodyForgotten` (`NoSleeperForgotten`).
- `Implementation` (`ImplementsMutex`): under `PhaseOf` each step is a step of
  `Mutex` or a stutter, given `Owned`.

`SemaphoreQueue_proofs`:

- `QueueInvariant`: `QInv` is inductive. It is the conjunction of `ListInv` (the list
  with `fut`, `len`, `open` and `closed`), `ThreadInv`, `StateInv` and `WakerInv`;
  one lemma says that each kind of change to a part keeps it, and one per action puts
  them together. Typing alone is not inductive: that `len` stays natural needs
  `ListConsistent`, and that a batch keeps its capacity needs `BatchInv`, by which a
  thread in `check` has room left.
- `QueueTyping`, `LenCountsNodes`, `DiscardIsSafe`: `TypeOK`, `ListConsistent` and
  `DiscardedListEmpty` of every behaviour.

The same module, on who is served:

- `HeadIsBlocked` (`HeadBlocked`), inductive together with `QInv`: a step that could
  make the head fit (a release, a state change, a head that leaves) either empties the
  list or leaves a thread in `check`, and `check` ends only when the head does not fit,
  nothing may be served, or a relock is due.
  The same in general: `EveryStepIs` sorts the steps. One is `Covered` (afterwards the queue is
  empty, or somebody serves it, owes that, or must not), `Still` (the waiting stay as they are and
  no permit comes), the end of a check, or a newcomer who `Joins`. Only the last two say
  anything about who is blocked, and the next theorem needs just those again.
- `LeaderIsBlocked` (`LeaderBlocked`, when `acquire` does not panic, or under LIFO whatever
  panics). In the first case no params are lost, so the leader is the head. Under LIFO params may
  be lost, but a newcomer goes before all who wait, is tried before it joins, and then is itself
  the leader that does not fit. Finding 1 shows that one of the two is needed: the disagreement
  is confined to orders that let somebody join behind a waiter without params.
- `ClosedAdmitsNobody` (`NothingAdmitted`), step by step from `QInv`.
- `ClosingIsTold` (`ClosedIsTold`, when `acquire`, `release` and `with_state` do not panic): the
  queue is then never poisoned, and an acquire that starts on a closed queue ends as closed or
  is dropped. So poison is the only cause of finding 2; panics of wakers and of the order are not.
- `QueueCountsItsWaiters` (`CountsItsWaiters`), from `QInv`: who leaves was counted, which is
  `ListConsistent`, and a round of `close` takes as many nodes as its batch holds or all there are.
- `NobodyStranded` (`NoStrandedWaker`), with `Fresh` (a node holds the waker of its future's
  last poll) beside `QInv`. `Grant` and `Close` put that waker into a batch in the step in
  which the future leaves the list; a call takes it out, and the future is then `called`;
  everything else leaves both alone.

and on the permits and the abstract semaphore:

- `EveryStepBalances` (`BalancedStep`), action by action from typing: a lemma for a future that
  keeps, gets and gives up its permits.
- `EveryPermitIsKept` (`PermitsConserved`), from `CInv`: besides `RInv` below, the units that are
  out are finitely many (each step adds those of one future at most, so nothing need be assumed
  of `Acquires`). A step that balances moves the state's count and the total of what is out by
  the same amount.
- `QueueImplementsSemaphore` (`ImplementsSemaphore`), from `RInv`, which adds to `QInv` that
  lost params are those of linked or refused futures (`DeadWait`). One lemma for each abstract
  step says when a change of the queue's variables is that step; `Grant`, `Close` and the
  drop of a linked future need the list lemmas, and the place at which the abstract line is cut
  is the number of dead nodes `check` has skipped.

`Callbacks_proofs`:

- `LockIsScoped` (`LockScoped`), inductive with the types and the lock's own exclusion.
- `ReentryIsSafe` (`NobodyWaitsForItself`, when no kind of user code that runs under the lock is
  in `Reenters`): all frames but the top of each thread are in user code that runs
  outside the lock, so by `LockScoped` none of them holds it. Finding 3 is why the
  assumption cannot be dropped.
- `CallsCountLikeTheQueue` (`CountsLikeTheQueue`), from `SInv`: at most one frame is in a critical
  section (`Alone`, from `LockScoped`), and what its remaining script relies on is still so
  (`Counted`: an open queue for one that is going to link, a waiter for one that serves or
  unlinks). The steps of every other frame leave `len` and `closed` alone.

`ConcurrencyLimit_proofs`: `CountIsExact`, `NoIdleWaiting` and `LimitIsKept` (`InFlightExact`,
`WaitsOnlyWhenFull`, `NoneStartsAboveLimit`, of every step that admits somebody, the steps
that return a permit included) from `LInv`: the line holds those who wait,
each once, and the count is the number of those who are in. The line is needed because a
service admits as many as it takes off the line, which are that many only if nobody is in
it twice. One lemma says what a service keeps, for whatever the closure before it
left; one for each action brings it into that form.

`Aimd_proofs`:

- `AimdIsALimit` (`IsALimit`): a step of the control loop is a step of `ConcurrencyLimit` or a
  stutter, given that the limit is between its bounds, which raising and cutting keep.
- `AimdKeepsThePromise`: the three theorems of `ConcurrencyLimit_proofs`, instantiated with the
  limiter's constants, carry over along that refinement; nothing is proved twice.

`MultiDimensional_proofs`: `BudgetsAreExact` and `HeadWaitsForRoom` (`BothBudgetsExact`,
`HeadLacksRoom`) from `MInv`, which adds the line's invariant as for the limit. A service takes
the largest number that fits off the line (`ServesThoseThatFit`); that the next one does
not fit *alone* into what is left is then a matter of adding its request and its bytes to
those of the ones before it (`FirstGrows`), and those are not counted twice because nobody is in
the line twice.

`ConnectionPool_proofs`:

- `OnePlaceForEach`, `NoneIdle` and `NoneLost` (`EachInOnePlace`, `NoneIdleWhileWaiting`,
  `LostOnPurpose`) from `PInv` in the same way. `InOrder` is the invariant as a statement about
  any stack, line and assignment, so that the lemma on `Serve` can be used for what a release
  or a timeout hands to it.
- `PoolIsBounded` (`PoolBounded`). The number of connections is not inductive: a client that is
  granted one may give it back when its time is over and open another. `Claims` counts that
  second one in advance: the idle connections, one for each busy client, and one more for each
  that was granted and not polled. A step raises it only if it leaves the pool empty with the client
  that acts not granted, and then at most two for each of the others and one for it are
  claimed (`ClaimsWhenEmpty`); every other step keeps or lowers it.

Only model-checked: liveness, which with fairness and ENABLED is out of the proof system's
reach (`SomebodyLocks`, `ServedInTurn`, `CloseDrains`, `ServesItsLeaders`, `EveryCallReturns`,
`ExcessDrains`, `EveryWorkerServed`, `OverloadEnds`, `EveryTaskAdmitted`, `EveryRequestServed`,
`EveryCheckoutEnds`), and the three disagreements above, which are counterexamples.

## Not modelled

`DerefMut` of a permit's value: a permit gives back what it was given. A second panic while
unwinding, which aborts. Memory orders weaker than the per-location order, as only one
location is shared. The rounding of the 53rd bit of `aimd.rs`'s limit. Batches of more than 32 in the
modules of the states. What `Debug` and `Display` print; that `Debug` only tries the lock
and runs the state's `Debug` under it is in `Callbacks`. Builder, which moves values; the loom
shim; parking_lot's mutex, of which the queue needs what `Mutex` says; benches and CI.
`SemaphoreState` is an open trait: what is shown of the queue is shown for a counter
with requests of different sizes, and of the four states above for each on its own.

## Plan

1. `FutexMutex`, `Mutex`, `SemaphoreQueue`, their runs and safety theorems: done.
2. `Semaphore`, refined by `SemaphoreQueue`, with its theorem: done.
3. The states of the examples: done.
4. The operations unfolded over `Mutex`, with user code that re-enters: done (`Callbacks`).
5. Proofs about the limit, the adaptive limit, the budgets and the pool: done.
6. `Callbacks` and `SemaphoreQueue` shown to agree: done for what waits and for closing
   (`Occupancy`), with both theorems. Open: that a script and the service that follows also move
   permits and wakers as the step of `SemaphoreQueue` does.
