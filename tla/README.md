# The concurrency core of the annotated Go tree

The repository is a Go source tree (about Go 1.17 in the making, April 2021) that its
owner annotates while reading it; the notes (`src/分析笔记`, `src/读后感` and the comments in the
code) keep coming back to one subsystem: goroutines that sleep and wake each other. This
project specifies that subsystem: the scheduler (`runtime/proc.go`), semaphores (`runtime/sema.go`),
channels and select (`runtime/chan.go`, `runtime/select.go`), the network poller (`runtime/netpoll.go`),
and on top of them the types of `sync`, the descriptors of `internal/poll` and `io.Pipe`.
Paths below are relative to `src/go/src/`.

## 1. Inventory

| Component | Source | State it keeps | Operations | What is hard | What makes it correct |
|---|---|---|---|---|---|
| runtime semaphore | `runtime/sema.go` | word `*addr`; per root: lock, `nwait`, treap of sudogs | `semacquire1`, `semrelease1` | the word is changed without the root lock; `nwait` is read without it; hand-off by ticket; sudogs are reused | no count stays unused while somebody sleeps for it; a sleeper is readied once |
| semaRoot treap | `runtime/sema.go` | nodes with `parent`, `prev`, `next`, priority; wait list per node | `queue`, `dequeue`, rotations | replacing a node by the next waiter of its list, rotating a node out | search tree + heap, exact lists, FIFO or LIFO order per address |
| notifyList | `runtime/sema.go` | `wait`, `notify` (32-bit, wrap), list | `Add`, `Wait`, `NotifyOne`, `NotifyAll` | tickets taken without the lock, out of list order, across the wrap | a ticket is either on its way to the list, on it, or notified |
| sync.Cond | `sync/cond.go` | notifyList, `L` | `Wait`, `Signal`, `Broadcast` | a signal between unlock and sleep | wakeups in ticket order, none lost |
| sync.Mutex | `sync/mutex.go` | word: locked, woken, starving, waiters; semaphore | `Lock`, `Unlock` | CAS on stale values, spinning, barging, starvation hand-off | exclusion, no lost wakeup, hand-off in starvation mode, progress |
| sync.RWMutex | `sync/rwmutex.go` | `readerCount`, `readerWait`, `w`, two semaphores | `RLock`, `RUnlock`, `Lock`, `Unlock` | two counters updated one after the other by both sides | exclusion of writers, a writer is not overtaken for ever |
| sync.WaitGroup | `sync/waitgroup.go` | counter and waiters in a word, semaphore | `Add`, `Done`, `Wait` | a new round while the last one is being released | all waiters released once; legal reuse never panics |
| sync.Once | `sync/once.go` | `done`, mutex | `Do` | fast path beside the mutex; panics | once; nobody returns before it is finished |
| io.Pipe | `io/pipe.go` | two channels, `done`, `once`, `wrMu`, an error per end | `Read`, `Write`, `CloseRead`, `CloseWrite` | either end closes between the two halves of a transfer, or while the other does | bytes in order, a Write counts what was consumed, the right error, closing ends every wait |
| sync.Map | `sync/map.go` | `read`, `dirty`, `misses`, entries | `Load`, `Store`, `LoadOrStore`, `LoadAndDelete`, `Range` | entries are changed without the mutex while the maps are copied and promoted; expunged entries | every call takes effect at one instant |
| poolDequeue, poolChain | `sync/poolqueue.go` | ring slots, packed head and tail; list of rings | `pushHead`, `popHead`, `popTail` | slots handed between threads by non-atomic writes; wrapping indices; dropping a drained ring | single owner of a slot; nothing lost, duplicated or reordered |
| fdMutex and poll.FD | `internal/poll/fd_mutex.go`, `fd_unix.go` | packed word, two lock semaphores, `csema`, `isBlocking` | read/write locks, references, `Close`, destroy | any user may be the last one; Close waits for it | destroyed once, after the last use; Close returns |
| network poller | `runtime/netpoll.go`, `netpoll_epoll.go`, `internal/poll/fd_poll_runtime.go` | `closing`, `rg`, `wg`, `rd`, `wd` | `pollReset`, `pollWait`, `pollSetDeadline`, `pollUnblock`, `netpollready` | parking against readiness, deadlines and close, which take no common lock | nobody parked is overlooked |
| scheduler | `runtime/proc.go` | run queues, idle Ps and Ms, `nmspinning`, P statuses | `ready`, `schedule`, `findrunnable`, `wakep`, `startm`, `handoffp`, system calls, `retake` | nobody is told what to run: work is found because somebody spins, or looks again after it stopped | a P has one owner, spinners are counted, work does not wait beside an idle P |
| channels, select | `runtime/chan.go`, `runtime/select.go` | ring buffer, `closed`, two wait queues, lock | send, receive, close, select | one goroutine queued on many channels; several locks; unlocked fast paths | queue invariants, exactly one case, order, no lost value |
| sync.Pool, timers, runtime locks, context | see section 6 | | | | planned |
| memory management, maps, panics, net/http, compiler and tools | | | | | not planned |

How they interact: Mutex, RWMutex, WaitGroup and fdMutex call `semacquire`/`semrelease`; Cond calls
the notifyList and unlocks and locks `L` around it; Once, RWMutex and Map contain a Mutex; a pipe
contains a Once, a Mutex and three channels; Pool is made of poolChains; FD uses fdMutex and the
network poller; channels use sudogs and runtime locks directly; every sleep and wakeup ends in the
scheduler's `park_m` and `ready`. `PROJECT.json` lists every component with its status and, under
hazards, the places where an execution nobody wrote a test for could go wrong.

## 2. Modules and how they correspond to the code

Convention: program counters are strings; an action is one atomic access to shared memory with
the local computation around it, or one critical section. What an operation holds in Go locals
across two actions is a variable of the module. Operators named `...` after "Mutation:" in a
comment are wrong variants of the one after them; no specification uses them, they document
which mistake a property catches.

### The semaphore and its users

* **Semaphore** is what users of a semaphore see: the word, the queue, and for each goroutine
  where it is in `semacquire1`/`semrelease1`. It has no next-state relation of its own: users
  EXTEND it and conjoin its steps (`SemTake`, `SemPark`, `SemInc`, `SemDequeue`, `SemReady`, ...)
  with their own program counters.
* **SemaphoreClient** closes it with arbitrary callers. **Sema** has the code's steps: the easy
  case, `nwait`, the root lock, the second look at the word, several addresses on one root.
  `ImplementsSemaphore` shows that Sema implements SemaphoreClient, which justifies using Semaphore
  above.
* **SemaRoot** is the treap with every pointer; `ImplementsWaitLists` maps it to **WaitLists**, one
  queue per address, which is how Sema sees it.
* **Mutex** is `Lock`/`lockSlow`/`Unlock`/`unlockSlow`; it implements **Lock**. `LockLoad ...
  LockGrant` follow the for loop of lockSlow; the value a CAS compares with is the variable `old`.
  The word is a record of its flags and its count; an addition that would carry from one field to
  another goes to "throw". The clock is abstracted: whether a sleeper has waited more than 1 ms is a
  choice, forced after `MaxWaits` sleeps.
* **Once** EXTENDS Mutex: its `o.m.Lock` is all the steps of the real mutex. It implements **OnceCall**.
* **Pipe** EXTENDS Once: the function that `p.once.Do` performs closes `done`, so the channel is
  closed exactly when Once's `f` has run (`Done == finished`). The two data channels behave as in
  Channels (a rendezvous is one step, a select takes any ready case), `wrMu` and the mutexes of the
  onceErrors as in Lock. It implements **PipeCalls**, in which a Read consumes a Write's bytes in
  one step and a closed pipe fixes each call's error. What a call has in progress between `wrCh` and
  `rdCh` counts as consumed.
* **RWMutex** implements **RWLock**; its `w` is taken as a Lock. **WaitGroup** follows the rule its
  comments give to callers.
* **FdMutex** holds the methods of fdMutex and **Netpoll** those of pollDesc as operators; **FD**
  composes them with Read, Write, other users of a reference, SetDeadline, SetBlocking, Close and
  destroy, and implements **FDLife**. The load/CAS loops of fdMutex and of netpollunblock are one
  step, because nothing read survives a failed CAS. Everything a goroutine does on its way into and
  out of the poller is a step of its own (`Prepare`, `Reset`, `PollWait`, `Block`, `Recheck`,
  `Park`, `Unpark`), and so is each netpollunblock of a closer, a deadline (`PollUnblock`,
  `TimerUnblock`) or the poller thread (`Event`). The kernel (`KernelReady`, `Use`) is
  edge-triggered: it reports a readiness once. goready is one step with the change of `rg` or `wg`
  that it follows.
* **NotifyList** and **Cond**: Cond EXTENDS NotifyList and adds consumers and producers; it
  implements **CondQueue**. Counts wrap at `Modulus`; the actions' differences are signed, as in the
  code.

### Queues of sync.Pool

* **PoolDequeue** has the steps of one ring, with the write of a slot's type word and value word and
  their clearing apart from the CAS on head and tail; **PoolChain** EXTENDS it with the list of
  rings and the calls; it implements **Deque**, where only the producer pushes, each push gets its
  item into the queue, and what is popped comes from the queue's end.

### sync.Map

* **SyncMap** has a step per access to `read`, to an entry and per critical section of `mu`
  (dirtyLocked's loop over `m.read` has a step per entry); it implements **AtomicMap**, where a call
  takes effect at one instant between its beginning and its end, and Range reports for each key a
  value it had meanwhile.

### Scheduler

* **Sched** has the threads (Ms) with their program counters in `schedule`, `findrunnable`, `wakep`,
  `startm`, `handoffp` and system calls, the Ps with their queues, and the monitor. Goroutines are
  counted per queue, not named. A critical section under `sched.lock` is one step, as is each access
  to a queue or counter outside it, but for handoffp's look at nmspinning and npidle, which with the
  CAS is one step (`HandoffSpin`): apart they only let it start a spinning thread although another P
  has just become idle. `Environment` is what running goroutines do: ready others, park,
  yield, enter system calls.

### Channels

* **Chan** is chan.go and select.go. A case is <<direction, channel>>, a call is a set of cases and
  whether it may block. What chansend, chanrecv and closechan do under one lock is one step;
  selectgo takes its locks one by one (`SelLock`), does passes 1 and 2 with all of them (`Select`),
  and after the wakeup locks again for pass 3. Each unlocked read of a fast path is a step. Readying
  goroutines (`Wake`) comes after the unlock. It implements **Channels**: calls take effect
  atomically, values stay in order, waiting and giving up only when allowed. That gp.param and
  sg.success are set after the unlock by send and recv is not a step apart: only the woken goroutine
  reads them, after goready. Left out: nil channels (block for ever), two cases of one select with
  the same channel and direction, len and cap, stack shrinking.

Each MC module supplies model values and nothing else; where the cfg can give the values, a run
checks the module itself (`cond`, `rwmutex`, `waitgroup`). The proofs are in modules of their own,
section 5.

## 3. Runs

| Run | Instance | Distinct states | Shows |
|---|---|---|---|
| `mutex` | 3 goroutines, late after 1 sleep, one of them may spin once | 111 000 | exclusion, no stranded waiter, the inductive invariant, hand-off only in starvation mode, refinement of Lock, somebody gets the mutex as long as anybody wants it |
| `pipe` | 3 goroutines that all close, buffers up to 2 bytes; the mutex in Once late after 2 sleeps, each may spin once | 222 000 | Once on the real mutex performs one action and returns after it, closing ends every wait, refinement of PipeCalls |
| `rwmutex` | 4 goroutines, rwmutexMaxReaders = 5 | 28 000 | the counters' invariant with exclusion, refinement of RWLock, a writer gets the lock |
| `waitgroup` | 4 goroutines, any number of rounds | 193 000 | no misuse panic for legal callers, clean word after each round, Wait waits, all are released |
| `fd` | 3 goroutines, 2 references or waiters at most, readiness for reading, deadlines later and past | 394 000 | never destroyed under somebody's feet, no wakeup left over, nobody overlooked in the poller, refinement of FDLife, everybody returns after Close |
| `sema` | 3 goroutines, 2 addresses on one root, counts up to 2 | 342 000 | every unused count that is waited for has a wakeup under way; root consistent; refinement |
| `sema_root` | 5 sudogs, all priorities | 14 000 | treap well formed, dequeued sudogs clean, refinement to queues |
| `cond` | 3 goroutines, counts modulo 8, at most 4 tickets apart, 2 items | 311 000 | no consumer sleeps beside an item, tickets consistent across wraps, order, the notified return |
| `pool_chain` | producer and 2 consumers, rings of 1 and 2 slots, 2-bit indices, 2 values | 1 344 000 | nothing dropped, a slot has one owner, refinement of Deque (nothing lost, duplicated or overtaken) |
| `chan` | 3 goroutines, an unbuffered channel and one with a slot, 7 kinds of call and close | 617 000 | documented queue invariants, no throw, locks move on, refinement of Channels |
| `sync_map` | 3 goroutines, 2 keys, 2 values, 5 entries | 884 000 | what the comments say of the two maps, refinement of AtomicMap |
| `sched` | 3 threads and the monitor, 2 Ps, 4 goroutines, local queues of 2 | 2 129 000 | spinning threads are counted, a P has one owner and no goroutine is lost, work does not wait beside an idle P |

Why the bounds are enough. Three goroutines give each word a holder, a waker and a competitor, and
the semaphores the three roles (sleeper, releaser, barger) that their races need; where a round of
readers meets two writers, or a round of Wait meets the next round, there are four. `MaxWaits`
counts sleeps before a Lock is late: with 1 every second attempt is starving, with 2 (run `pipe`) a
waiter also competes twice in normal mode. `MaxReaders` exceeds the number of goroutines, as 1<<30
does. `MaxCount` of FD makes the overflow of its 20-bit counters reachable, so the overflow panics
are exercised. `Modulus` and `Mod` make counts wrap many times; `MaxLag` keeps outstanding tickets
below half the range, which 2^31 does in reality. Capacities 0 and 1 are the two kinds of channels;
a second buffer slot would only add length. `pool_chain` pushes two
values, so a queue shows the order of its items and a push or pop at the wrong end is no step of Deque;
one of them is the nil interface, which slots hold as a sentinel. The producer pops at the head only
(`Consumers`): its popTail would be a third consumer's that does not run beside a push. In `fd`, `MayCall`, `MaySet` and
`Arrives` bound the environment: two goroutines compete for both locks and wait in the poller, one
of them also sets deadlines (both modes to the past, or reading to later, which may expire or
replace one that has passed) and the blocking mode, the third takes references and closes; the
kernel reports readiness for reading only, the code of the two modes being the same. In `pipe`,
`Calls` gives each goroutine calls that cover partial, empty and complete transfers and an error of
its own. `sync_map`'s calls make the dirty map be made and promoted over and over beside calls on
the other key. `RunqLen` = 2 and four goroutines make a local queue overflow into the global one
beside an idle P: one goroutine runs, two fill the queue, the fourth is one too many. (With three, as
this run had before the proofs were attempted, the overflow only happened with all Ps busy, and one
exception of `WorkConserving` was missed.) `MaxPolled` = 2 lets injectglist have one for itself and
one for others. Symmetry is used only in runs without liveness properties.

Deadlock is checked except in `cond`, `sema`, `chan` and `sched`, where all may rightly wait: for an
item that nobody produces, a count that nobody releases, on channels of each other, or, the threads,
for an event.

Fairness. Inside a method a goroutine keeps running: the Go scheduler is preemptive, so each step
that stays enabled is taken (weak fairness). Nobody is obliged to begin a call; holders eventually
unlock. Beyond that:

* `MovesOn` (mutex) needs no more than that: nobody has to win a race. It is about the mutex, not
  about each goroutine; since whoever has returned is one fewer, every Lock returns once no new ones
  begin. That a Lock returns however many others follow it is not true of this code (section 4).
* Once and the pipe need only weak fairness, although they run on the same mutex: once done is set
  nobody enters any more. That readers and writers meet is up to them; only closing must end a wait.
* A goroutine in notifyListWait gets l.lock, which is held for a few instructions (strong fairness
  in Cond).
* In FD whoever holds the pollDesc's lock releases it, and a system call returns unless the kernel's
  mode may block it. Data may never arrive, deadlines may never pass and the poller may never look:
  Close must not depend on any of these.

Sema has no liveness run: with two addresses its fair graph is too large, so `EveryCountIsMoving`
states the absence of missed wakeups as an invariant instead; the liveness of the users is checked
on Semaphore. For the same reason `WorkConserving` of Sched is an invariant: if work waits while a P
is idle, some thread is on its way that has yet to look. `NobodyOverlooked` of FD says the same of a
goroutine parked in the poller.

## 4. Observations

The properties hold of the code; where a comment promises a little more than the code does, the
property says exactly what is exempt.

* FD.Close (`internal/poll/fd_unix.go:135-141`) reads isBlocking without synchronisation because,
  says the comment, increfAndClose gives exclusive access. A SetBlocking that took its reference
  earlier may still store it. Then Close waits for a Read that blocks in the kernel. `CloseReturns`
  exempts this case.
* The comment in the fast path of chansend (`runtime/chan.go:278-281`) says that a closed channel
  cannot go from ready to not ready for sending. An unbuffered channel does, when closechan empties
  recvq. A select with a default can then report "cannot send" although a receiver was waiting
  during the whole part of the call in which the channel was open. Channels allows exactly this
  beside a moment at which no case could proceed: a try-send on an unbuffered channel that is closed
  during the call (`LosesReceivers`). One that begins after close has to panic.
* The comment on worker threads (`runtime/proc.go:84-90`) says that the scheme "guarantees eventual
  maximal CPU parallelism utilization". Six paths leave work beside an idle P until the next thread
  spins or the monitor looks: goschedImpl puts a goroutine on the global queue without wakep
  (`runtime/proc.go:3817`); injectglist reads npidle, then queues the rest locally without wakep
  (`:3511`); handoffp idles its P after having read npidle and nmspinning without the lock
  (`:2717`); a thread that may not spin, because half of the busy Ps' number spin already,
  releases its P without a second look (`:3006`, `:3080`); ready or newproc overflows a full local
  queue into the global one (`:6515`) after the last spinning thread has looked there and before it
  drops nmspinning, so wakep counts on it, but what it checks again are the local queues only
  (`:3122`); and startm, called by wakep, finds no idle P and only then undoes wakep's increment
  (`:2642`), in between a thread that saw the increment woke nobody though a P may be idle again.
  "All this complexity does not apply to global run queue as we are not sloppy about thread
  unparking when submitting to global queue" (`:107-109`) is true neither of goschedImpl nor of the
  overflow. `overlooked` marks the six and `WorkConserving` exempts them until a spinning thread has
  looked; that there are no others is proved.
* `netpollWaiters` (`runtime/netpoll.go:489`) is raised when a goroutine parks in the poller and
  lowered by netpollgoready only, that is by deadlines and close; a goroutine that netpollready
  hands to the scheduler is never uncounted. It is used as "may be positive" only.
* "In starvation mode ownership of the mutex is directly handed off from the unlocking goroutine to
  the waiter at the front of the queue"; new arrivals "queue themselves at the tail"
  (`sync/mutex.go:71-75`). They first try the semaphore's easy case (`runtime/sema.go:105`): one that
  comes between the unlocker's Xadd and its dequeue takes the count, and with it the mutex, and the
  waiter at the front is woken in vain and queues again. So starvation mode does not bound how long a
  waiter waits: TLC finds behaviours, fair to every goroutine, in which arrivals overtake a starving
  waiter for ever, and others in which spinners set mutexWoken before each Unlock, which then wakes
  nobody, so that a waiter never returns to lockSlow to turn starvation mode on. What is checked is
  what remains: ownership passes by hand-off only (`HandoffOnly`), and somebody always gets it
  (`MovesOn`).
* A new reader of a RWMutex can take the semaphore count released for an earlier one while the next
  writer waits (the count of releases still matches).
* poolChain.popTail may report empty although a newer ring holds an item.
* A goroutine woken in fdMutex.rwlock that then meets the overflow panic takes its wakeup with it.
* Cond.Signal's unlocked comparison may return although others wait, if they arrived after it read
  the counts.

## 5. Proofs

Everything here holds for every value of the constants that satisfies the assumptions, where the runs
have one small instance each. A proof module has the name of the module it is about; `SyncProofs` has
the theorems about RWMutex and WaitGroup, both clients of the one semaphore, and `WakeupProofs` those
about Cond and about the scheduler, where a sleeper must not be overlooked.

| Module | Proved | Assumed of the constants |
|---|---|---|
| `SemaProofs` | `EveryCountIsMoving`, `RootConsistent`, Sema implements the semaphore of module Semaphore | finitely many goroutines, None not one of them |
| `SemaphoreProofs` | what clients of the semaphore keep true whatever else they do (`SemConsistent`) | None is no goroutine and no address |
| `MutexProofs` | `MutualExclusion`, no throw, `NoStrandedWaiter`, `StarvingHasWaiter`, `HandoffOnly`, Mutex implements Lock; a Once on it, with a pipe beside it, implements OnceCall; the pipe implements PipeCalls | finitely many goroutines, MaxWaits positive; None is no error and no call record, PipeCalls' two marks are no errors |
| `SyncProofs`, RWMutex | `Exclusion`, no throw, `NoStrandedSleeper`, RWMutex implements RWLock | fewer goroutines than rwmutexMaxReaders, two different semaphores |
| `SyncProofs`, WaitGroup | `RoundsAreSeparate`, `WaitsForAll`; no panic for callers that keep to the comments' rule | finitely many goroutines |
| `WakeupProofs`, Cond | `TicketsConsistent`, `NoStrandedItem`, the notifyList under Cond implements CondQueue | an even modulus; no more goroutines than half of it, and none lags behind further between its ticket and its sleep |
| `WakeupProofs`, Sched | `SpinnersCounted`, no throw; `NothingIsLost`; `WorkConserving` | finitely many threads and Ps, local queues of two or more, the monitor is none of the Ms, Nil none of anything |
| `FDProofs` | `NotUnderTheirFeet`, `NobodyOverlooked`, `CleanWhenQuiescent`, FD implements FDLife | finitely many goroutines, `csema` apart from the lock semaphores; the labels of `rg` and `wg` are no goroutines |
| `ChanProofs` | `LocksMoveOn`: selects do not deadlock on channel locks; `QueueInvariant`; Chan implements Channels | finitely many channels, ordered by address; None is no goroutine, no channel, no call and no result |
| `SyncMapProofs` | `EntriesConsistent`; SyncMap implements AtomicMap, that is, sync.Map is linearizable | finitely many keys; None, nil and expunged are apart from what they stand beside |

`CleanWhenQuiescent` also has the hypothesis `Cardinality(Goroutines) <= MaxCount`. Without it
`fdMutex.rwlock` can meet its overflow panic after it has been woken and take the wakeup with it
(`internal/poll/fd_mutex.go:191`, section 4); with a 20-bit count that takes a million goroutines on
one descriptor. The other theorems about FD do not need it: they hold with the panics.

**The semaphore.** `nwait` is read without the root lock, so what it means has to hold between the
two accesses of each side. `IInv` of Sema says that nwait is the number of goroutines that are queued
*or that somebody who holds the lock will queue or uncount* (`NwaitIsExact`, `Counted`), and that a
waiter off the list belongs to one releaser (`WakeesFit`). A releaser that reads 0 therefore leaves
its count to acquirers that have yet to look; any other one passes its wakeup on. `CountsMove` puts
this together: while anybody waits for a word, or has found it 0 and is about to be queued, each count
in it has a wakeup of its own. The refinement is by cases: Xadd, the successful CAS, the second look
that fails, the dequeue and the decision on the ticket are the steps of Semaphore; lock, unlock,
nwait and goready are not seen. The lemmas `SstFits`, `WakeeFits` and `WaitqFits` (as `View`) say
what the mapping is at each control point.

Above it, `SemaphoreProofs` shows what every client without hand-off may count on
(`SemConsistent(acq, rel)`: roles, unique wakees, exact queues, counts on their way), given only that
each of its steps is one of the semaphore's or leaves the semaphore alone. RWMutex, WaitGroup and FD
have it as a conjunct of their invariants and prove it by citing those lemmas.

**Mutex.** That nobody is stranded depends on a global fact: *at most one wakeup is under way, and
exactly then the word says so* (mutexWoken is set, or the mutex is starving and unlocked).

* `Token(g)`: g carries the wakeup, as the releaser about to increment the count, as the sleeper
  that has returned, or as a spinner that has claimed mutexWoken. `OneWakeup` and `WordTellsWakeup`
  say that tokens and the count are at most one, and agree with the word.
* `TokenKnows`: what the token holder may rely on when its CAS succeeds, which is what keeps the
  consistency checks from throwing.
* `SemRoles`, `QueueIsParked`, `CountIsMoving`: who is inside the semaphore and that an available
  count is on its way to a sleeper.
* `CountIsExact`: the waiter count is the number of waiters, but for the one being woken;
  `StarvingIsCounted` follows from it.
* `UnlockerWillSee`: an unlocked mutex with waiters and no wakeup under way has an unlocker whose
  CAS is still to come.

**Once.** The mutex invariant carries over, because only Do locks this mutex (`MutexFollows` relates
the control points). Whoever runs f has the mutex, or has read done = 0 under it (`FlagFollows`), so
exclusion makes f run once, and the deferred store of done before the unlock makes the others return
after it. The theorems are in `MutexProofs`, behind those of the mutex, and about the specification
of Pipe, whose closing uses the Once.

**The pipe.** A Read that has received on `wrCh` and a Write that is waiting on `rdCh` are there
together, and only the one pair (`AcksFit`), because every Write past the lock holds `wrMu`
(`WriteFits`). So what PipeCalls counts as consumed when the Read copies it is what the Write learns
later: the exchange on `rdCh` is not seen, whoever closes in between. The channel `done` is closed
after an error has been stored, and stored errors stay (`ErrorsFit`): when readCloseError finds none
of its own end, the other end has one, and still has it at the second load. A step of one
goroutine leaves the calls of the others as they look (`OthersLookTheSame`), so each action is
compared with one action of PipeCalls.

**RWMutex.** readerCount and readerWait are changed one after the other by both sides, so each is the
number of goroutines at certain labels plus those that owe it a change (`ReaderCountIsExact`,
`ReaderWaitIsExact`, `OwedToReaders`, `ReadersToRelease`). One lemma, a goroutine moves from one set
of labels to another, carries the arithmetic. That there are fewer goroutines than rwmutexMaxReaders
is needed: the sign of readerCount says whether a writer is pending only then.

**WaitGroup.** A round ends when the counter becomes 0 with waiters. From then until the last of them
has looked at the word, somebody is in Wait, so nobody may add; with the counter at 0 nobody else can
become a waiter. Hence the word has no other writer (`OneAddEndsTheRound`, `WordIsZero`), the panics
on misuse are out of reach of legal callers, and two rounds never share a wakeup.

**Cond.** What a ticket means depends on where the counts are, and they wrap. `TicketsFit` says it by
differences: the tickets not yet notified are the last ones taken, in the order of `order`, and those
already notified that somebody still has to compare lie further back, within `MaxLag`. So `less` is right
(`TicketDecides`) and the search of NotifyOne finds the oldest (`FoundIsFirst`). Only goroutines that hold
a ticket and have not parked are bounded; a sleeper may lag behind by any number of rounds. NotifyAll
stores `l.notify` after it has loaded `l.wait`, and tickets are taken in between without the lock: a
Signal that finds the counts equal then would give up wrongly if they had wrapped around, which the
holders of the old tickets, still inside Wait, rule out by their number (`StoreFits`). `ListFits` and
`ReadyFits` say who is where. That nobody is stranded is a count: while a ticket is outstanding, there
are no more items than goroutines that will look at the condition or notify (`ItemsAreAnnounced`), since
there were none when the last ticket was taken under `c.L`; a notifier that was looking before that, and
may give up, is not among them.

**The scheduler.** `SpinnersCounted` and `NothingIsLost` are proved with what their steps rely on: where
a thread has a P and where it returns to (`PFits`, `RetFits`), the arguments of startm (`StartFits`),
who is idle, chosen or has its note (`IdleFits`), where a thread may spin (`SpinFits`), and which Ps
have an empty queue (`EmptyFits`), which is what keeps startm, schedule and findrunnable from throwing.
That a P has one owner is shown with a function: `Held` says in which way and by whom each P is held,
and a step moves one P at most. Goroutines are counted as places, pairs of a queue and a number, so
that sums become cardinalities and a step adds or removes one or two terms.

That nobody is overlooked rests on `SomebodyLooks`: while a P is idle and `overlooked` is not set,
either somebody spins, or is about to or to wake a thread that will (`Waking`), or there is help for all
work. Help is counted, too (`Helped`): a thread that startIdle still owes, and one that does not spin
but has a P and will look at its queue and the global one before it gives the P up, each take care
of one goroutine. The last thread to stop spinning hands over to its own loop: it has help for
the Ps that it has passed (`Helped(looked[m])`), and when the loop ends that is all of them. When all
threads have settled none of this is left but that no help is needed, so nothing is queued
(`SettledWork`). The invariant failed at first for the last two paths of section 4; TLC confirmed
both, and `overlooked` was extended. Larger instances were also run, outside the list of section 3:
3 threads, 3 Ps and 3 goroutines (2 789 000 states), and 35 000 000 states of 4 threads, 3 Ps and 5
goroutines.

**FD.** The reference count is the number of users (`RefsAreHeld`), so the last one to go is unique
and it alone destroys, after Close has closed the poller's end (`DestroyedOnce`). `SleepersAreCounted`
balances the sleepers of each lock against the waiters in the word, the wakeups on their way and what
Close still has to release. In the poller, `ErrorsAreTold` and `EventsAreToCome` say that a goroutine
about to park has missed no error that nobody is about to tell it of and no event that is not to come;
`NobodyOverlooked` follows. The refinement of FDLife rests on what each atomic update of the word does
to the sets of users and destroyers.

**Channels.** The locks a select holds are the first ones of its channels in address order
(`LocksInOrder`). So whoever holds the greatest locked channel has all its locks or finds the next
one free. Everything else about channels rests on `QueueIInv`, an invariant of its own. A goroutine
that waits is on the queue of each of its cases (`QueuesFit`); a select that has been served may still
be on some until its pass 3, but then `selectDone` has it, so dequeuing passes over it, and what Live
leaves is exactly who waits. Whoever was served is in one list of goroutines to ready, once
(`WakesFit`), so goready never meets a goroutine that is not parked. With that, chan.go's own
invariants (`ChannelFits`) survive each step: a call looks at a channel's other side before it uses
the buffer or queues, and what it dequeues leaves the other queue empty or as it was. `HistoryFits`
is about the fast paths, two or three unlocked reads: chansend's of closed and full, in either order,
justify giving up because nothing enters the buffer once the channel is closed, so a channel that is
full now and was open before was full and open at one moment in between, or, if it has no buffer,
has been closed in between; chanrecv's because a
channel once closed stays closed. The refinement takes the calls' effects one to one: Complete is
Put, Take or Closed, Pair is Exchange, Block is Wait or GiveUp, and locking, readying and pass 3 are
not seen.

**sync.Map.** Calls hold entries while the maps that had them are replaced. An entry belongs to one key
(`OneKey`) and leaves the maps in two ways: expunged, when the dirty map that has left it out is
promoted, after which its pointer never changes; or taken out of the dirty map by one LoadAndDelete,
who alone may then change it (`HoldersFit`). Either way the key has no value at that moment, and
whoever still holds the entry has seen it (`GoneWasSeen`), so what it will read there was the key's
value at some moment of its call. `DirtyInTheMaking` says what holds halfway through dirtyLocked,
`DirtyHasValues` that an entry which only the dirty map has is not empty, hence a LoadAndDelete that
takes it succeeds, there and then. `Fate` collects what one step may do to an entry; each action is
shown to respect it once, and the rest looks at the maps through it only. The refinement maps each
action to the call's one effect, to a read of what `seen` holds, or to no step: a hit writes or
reads at the entry's pointer, a LoadAndDelete that misses in `m.read` writes when it leaves the
mutex, and making, promoting and expunging are not seen.

Layout: one lemma per conjunct of an invariant, or per action where a step disturbs several, with
one step per action or conjunct below; `NextIInv` assembles them and `Invariance` is the temporal
step. The inductive invariants are in the components' modules, under "Why it works"; those of
Mutex and RWMutex are also checked by their runs, the others were checked on the runs' instances
before being proved.

Only model-checked:

* Liveness: fairness and ENABLED are out of the prover's reach.
* The treap (SemaRoot): what its recursive definitions compute for every tree needs induction over
  data.
* The queues of sync.Pool (`NothingIsDropped`, `SlotsAreOwned`, the refinement of Deque): a slot is an
  index modulo the size of its ring, and the rings of a chain differ in size; that two live indices
  never share a slot is non-linear arithmetic, and nothing about these queues has been proved yet.

## 6. Not modelled, and the plan

Order of writing so far: Semaphore and Mutex, Sema and SemaRoot, RWMutex, WaitGroup,
Once, Cond, FD, the pool queues, channels, sync.Map, the scheduler, the network poller inside FD,
io.Pipe on Once; then the proofs of section 5. What remains, most important first:

1. **Proofs**: SlotsAreOwned of the pool dequeue, then NothingIsDropped of the chain.
2. **Timers** (`runtime/time.go`): the status word between addtimer, deltimer, modtimer, runtimer
   and cleantimers, and with it the sequence numbers by which netpolldeadlineimpl tells a late
   timer.
3. **sync.Pool** (`sync/pool.go`) over Deque: pin, getSlow, victim caches, poolCleanup.
4. **Runtime locks and notes** (`runtime/lock_futex.go`), which the modules above take as excluding;
   **singleflight** and **context**, on the channels.

Left out of modelled parts: in Netpoll the reuse of a pollDesc for another descriptor (pollCache),
event scan errors, netpollBreak and the platforms that do not use epoll; in Sched garbage collection
and stopping the world, timers, threads locked to goroutines, the non-blocking poll and the
monitor's other duties; in FD the system calls' data and the retry on EINTR.

Not planned: the allocator and collector (their invariants concern the heap graph and
compiler-placed barriers), maps, defer, interfaces (sequential, tied to generated code), net/http
and other libraries above the core, the compiler and the other commands.
