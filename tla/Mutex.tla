-------------------------------- MODULE Mutex --------------------------------
(***************************************************************************)
(* sync.Mutex (sync/mutex.go): the state word with its locked, woken and   *)
(* starving bits and waiter count, the local variables of lockSlow and     *)
(* unlockSlow, and the semaphore the waiters sleep on.  Each action is one *)
(* atomic access to the word (or one step of the semaphore) with the local *)
(* computation that precedes or follows it.                                *)
(***************************************************************************)
EXTENDS Semaphore

CONSTANTS Sema,        \* the address &m.sema
          MaxWaits,    \* bound: a Lock that slept this often has waited > 1ms
          ActiveSpin,  \* runtime active_spin: runtime_canSpin(i) fails for i >= ActiveSpin
          Spinners     \* goroutines for which the other conditions of runtime_canSpin may hold

ASSUME MutexAssumption ==
  /\ IsFiniteSet(Goroutines)
  /\ Addr = {Sema}
  /\ MaxWaits \in Nat \ {0}
  /\ ActiveSpin \in Nat

VARIABLES state,     \* m.state
          pc,        \* control point of each goroutine
          old,       \* local variable old of lockSlow, unlockSlow
          awoke,     \* local variable awoke of lockSlow
          starving,  \* local variable starving of lockSlow
          waits,     \* sleeps of this Lock so far: waitStartTime # 0 iff waits # 0
          iter       \* local variable iter of lockSlow

locals == <<old, awoke, starving, waits, iter>>
vars == <<semvars, state, pc, locals>>

\* The state word: its flags mutexLocked, mutexWoken and mutexStarving, and the
\* number of waiters above mutexWaiterShift.
Flags == {"locked", "woken", "starving"}
Word == [flags : SUBSET Flags, waiters : Nat]
MkWord(fs, n) == [flags |-> fs, waiters |-> n]
Unlocked == MkWord({}, 0)

PCs == {"idle",     \* not in a call of m
        "load",     \* lockSlow: about to read m.state into old
        "loop",     \* lockSlow: top of the for loop
        "sem",      \* lockSlow: in runtime_SemacquireMutex
        "woken",    \* lockSlow: returned from runtime_SemacquireMutex
        "grant",    \* lockSlow: about to add delta, ownership was handed off
        "cs",       \* Lock has returned
        "uload",    \* unlockSlow: about to read m.state into old again
        "uloop",    \* unlockSlow: top of the for loop
        "wake",     \* unlockSlow: in runtime_Semrelease(&m.sema, false, 1)
        "handoff",  \* unlockSlow: in runtime_Semrelease(&m.sema, true, 1)
        "throw"}    \* throw("sync: inconsistent mutex state") or a corrupted word

TypeOK ==
  /\ SemTypeOK
  /\ state \in Word
  /\ pc \in [Goroutines -> PCs]
  /\ old \in [Goroutines -> Word]
  /\ awoke \in [Goroutines -> BOOLEAN]
  /\ starving \in [Goroutines -> BOOLEAN]
  /\ waits \in [Goroutines -> 0..MaxWaits]
  /\ iter \in [Goroutines -> 0..ActiveSpin]

Init ==
  /\ SemInit
  /\ state = Unlocked
  /\ pc = [g \in Goroutines |-> "idle"]
  /\ old = [g \in Goroutines |-> Unlocked]
  /\ awoke = [g \in Goroutines |-> FALSE]
  /\ starving = [g \in Goroutines |-> FALSE]
  /\ waits = [g \in Goroutines |-> 0]
  /\ iter = [g \in Goroutines |-> 0]

Goto(g, label) == pc' = [pc EXCEPT ![g] = label]

\* The locals of g are dead once its call returns.
ClearLocals(g) ==
  /\ old' = [old EXCEPT ![g] = Unlocked]
  /\ awoke' = [awoke EXCEPT ![g] = FALSE]
  /\ starving' = [starving EXCEPT ![g] = FALSE]
  /\ waits' = [waits EXCEPT ![g] = 0]
  /\ iter' = [iter EXCEPT ![g] = 0]

-----------------------------------------------------------------------------
\* Lock: the fast path, a CAS from 0 to mutexLocked.
LockFast(g) ==
  /\ pc[g] = "idle"
  /\ IF state = Unlocked
       THEN /\ state' = MkWord({"locked"}, 0)
            /\ Goto(g, "cs")
       ELSE /\ state' = state
            /\ Goto(g, "load")
  /\ UNCHANGED <<semvars, locals>>

\* lockSlow: old = m.state.
LockLoad(g) ==
  /\ pc[g] = "load"
  /\ old' = [old EXCEPT ![g] = state]
  /\ Goto(g, "loop")
  /\ UNCHANGED <<semvars, state, awoke, starving, waits, iter>>

\* lockSlow: spinning makes sense while the mutex is held in normal mode and
\* runtime_canSpin allows another round.
Contended(o) == "locked" \in o.flags /\ "starving" \notin o.flags
CanSpin(g) == Contended(old[g]) /\ g \in Spinners /\ iter[g] < ActiveSpin

\* lockSlow: one round of active spinning, which may set mutexWoken to
\* tell Unlock not to wake anybody else.
LockSpin(g) ==
  /\ pc[g] = "loop"
  /\ CanSpin(g)
  /\ LET claim == /\ ~awoke[g] /\ "woken" \notin old[g].flags /\ old[g].waiters # 0
                  /\ state = old[g]
     IN /\ state' = IF claim THEN MkWord(state.flags \cup {"woken"}, state.waiters)
                               ELSE state
        /\ awoke' = [awoke EXCEPT ![g] = @ \/ claim]
  /\ iter' = [iter EXCEPT ![g] = @ + 1]
  /\ Goto(g, "load")
  /\ UNCHANGED <<semvars, old, starving, waits>>

\* lockSlow: the waiter count and the flags of the value it tries to install.
Counted(o) == IF o.flags \cap {"locked", "starving"} # {} THEN o.waiters + 1 ELSE o.waiters
LockedFlag(o) == IF "starving" \notin o.flags THEN {"locked"} ELSE {}
StarvingFlag(g) == IF starving[g] /\ "locked" \in old[g].flags THEN {"starving"} ELSE {}
WokenFlag(g) == IF awoke[g] THEN {"woken"} ELSE {}

\* Mutation: mutexWoken is not cleared.
NewWordKeepsWoken(g) ==
  LET o == old[g] IN MkWord(o.flags \cup LockedFlag(o) \cup StarvingFlag(g), Counted(o))

\* lockSlow: the value it tries to install, computed from old and the locals.
NewWord(g) ==
  LET o == old[g] IN
    MkWord((o.flags \cup LockedFlag(o) \cup StarvingFlag(g)) \ WokenFlag(g), Counted(o))

\* lockSlow: a successful CAS has locked the mutex if it was neither locked
\* nor to be handed off.
AcquiresUnlocked(g) == "locked" \notin old[g].flags
Acquires(g) == old[g].flags \cap {"locked", "starving"} = {}

\* Mutation: m.state is not read again when the CAS has failed.
LockCASKeepsOld(g) ==
  /\ pc[g] = "loop"
  /\ IF awoke[g] /\ "woken" \notin old[g].flags
       THEN Goto(g, "throw") /\ UNCHANGED <<state, locals>>
     ELSE IF state # old[g]
       THEN UNCHANGED <<state, pc, locals>>
     ELSE /\ state' = NewWord(g)
          /\ IF Acquires(g)
               THEN Goto(g, "cs") /\ ClearLocals(g)
               ELSE Goto(g, "sem") /\ UNCHANGED locals
  /\ UNCHANGED semvars

\* lockSlow: CAS(&m.state, old, new), which acquires the mutex, registers the
\* goroutine as a waiter, or fails because the word has changed.  Before it, a
\* goroutine that expects mutexWoken in old throws if it is not there.
LockCAS(g) ==
  /\ pc[g] = "loop"
  /\ IF awoke[g] /\ "woken" \notin old[g].flags
       THEN /\ Goto(g, "throw")
            /\ UNCHANGED <<state, locals>>
     ELSE IF state # old[g]
       THEN /\ Goto(g, "load")
            /\ UNCHANGED <<state, locals>>
       ELSE /\ state' = NewWord(g)
            /\ IF Acquires(g)
                 THEN Goto(g, "cs") /\ ClearLocals(g)
                 ELSE Goto(g, "sem") /\ UNCHANGED locals
  /\ UNCHANGED semvars

\* lockSlow: runtime_SemacquireMutex(&m.sema, queueLifo, 1) sleeps; the waiter
\* goes to the front of the queue if it has already slept in this Lock.
LockSleep(g) ==
  /\ pc[g] = "sem"
  /\ SemPark(g, Sema, waits[g] # 0)
  /\ UNCHANGED <<state, pc, locals>>

\* lockSlow: runtime_SemacquireMutex returns, having taken the count or been
\* given it with a ticket.
LockAwake(g) ==
  /\ pc[g] = "sem"
  /\ SemTake(g, Sema) \/ SemTicket(g)
  /\ Goto(g, "woken")
  /\ waits' = [waits EXCEPT ![g] = IF @ < MaxWaits THEN @ + 1 ELSE @]
  /\ UNCHANGED <<state, old, awoke, starving, iter>>

\* lockSlow: after the sleep, look at the clock and at m.state.  In starvation
\* mode the mutex is this goroutine's; otherwise it competes again.
LockWoken(g) ==
  /\ pc[g] = "woken"
  /\ \E late \in BOOLEAN :
       /\ waits[g] = MaxWaits => late
       /\ starving' = [starving EXCEPT ![g] = @ \/ late]
  /\ old' = [old EXCEPT ![g] = state]
  /\ IF "starving" \in state.flags
       THEN /\ Goto(g, IF state.flags # {"starving"} \/ state.waiters = 0
                         THEN "throw" ELSE "grant")
            /\ UNCHANGED <<awoke, iter>>
       ELSE /\ Goto(g, "loop")
            /\ awoke' = [awoke EXCEPT ![g] = TRUE]
            /\ iter' = [iter EXCEPT ![g] = 0]
  /\ UNCHANGED <<semvars, state, waits>>

\* lockSlow: atomic.AddInt32(&m.state, delta) takes the handed-off ownership and
\* ends starvation mode if g is the last waiter or did not wait long.  The
\* add is field-wise only if no field over- or underflows.
LockGrant(g) ==
  /\ pc[g] = "grant"
  /\ LET exit == ~starving[g] \/ old[g].waiters = 1 IN
       IF "locked" \notin state.flags /\ state.waiters > 0 /\ (exit => "starving" \in state.flags)
         THEN /\ state' = MkWord((state.flags \cup {"locked"}) \ (IF exit THEN {"starving"} ELSE {}),
                               state.waiters - 1)
              /\ Goto(g, "cs")
         ELSE /\ state' = state
              /\ Goto(g, "throw")
  /\ ClearLocals(g)
  /\ UNCHANGED semvars

-----------------------------------------------------------------------------
\* Unlock: atomic.AddInt32(&m.state, -mutexLocked).
Unlock(g) ==
  /\ pc[g] = "cs"
  /\ IF "locked" \notin state.flags
       THEN /\ Goto(g, "throw")
            /\ UNCHANGED <<state, old>>
       ELSE LET new == MkWord(state.flags \ {"locked"}, state.waiters) IN
            /\ state' = new
            /\ Goto(g, IF new = Unlocked THEN "idle"
                       ELSE IF "starving" \in new.flags THEN "handoff" ELSE "uloop")
            /\ old' = IF new = Unlocked \/ "starving" \in new.flags THEN old ELSE [old EXCEPT ![g] = new]
  /\ UNCHANGED <<semvars, awoke, starving, waits, iter>>

\* unlockSlow: nobody to wake, or somebody else will take care of it.
UnlockDone(g) ==
  /\ pc[g] = "uloop"
  /\ old[g].waiters = 0 \/ old[g].flags # {}
  /\ Goto(g, "idle")
  /\ ClearLocals(g)
  /\ UNCHANGED <<semvars, state>>

\* unlockSlow: a CAS grabs the right to wake one waiter.
UnlockCAS(g) ==
  /\ pc[g] = "uloop"
  /\ old[g].waiters # 0 /\ old[g].flags = {}
  /\ IF state = old[g]
       THEN /\ state' = MkWord(state.flags \cup {"woken"}, state.waiters - 1)
            /\ Goto(g, "wake")
       ELSE /\ state' = state
            /\ Goto(g, "uload")
  /\ UNCHANGED <<semvars, locals>>

\* unlockSlow: old = m.state after a failed CAS.
UnlockLoad(g) ==
  /\ pc[g] = "uload"
  /\ old' = [old EXCEPT ![g] = state]
  /\ Goto(g, "uloop")
  /\ UNCHANGED <<semvars, state, awoke, starving, waits, iter>>

\* unlockSlow: runtime_Semrelease, handing off in starvation mode.
UnlockRelease(g) ==
  /\ pc[g] \in {"wake", "handoff"}
  /\ SemInc(g, Sema) \/ SemDequeue(g, Sema)
  /\ UNCHANGED <<state, pc, locals>>

\* unlockSlow: runtime_Semrelease returns.
UnlockReturn(g) ==
  /\ pc[g] \in {"wake", "handoff"}
  /\ SemNoWaiter(g, Sema) \/ SemReady(g, Sema, pc[g] = "handoff")
  /\ Goto(g, "idle")
  /\ ClearLocals(g)
  /\ UNCHANGED state

-----------------------------------------------------------------------------
\* The steps of a Lock call after its fast path, and those of an Unlock call.
LockStep(g) ==
  \/ LockLoad(g) \/ LockSpin(g) \/ LockCAS(g) \/ LockSleep(g)
  \/ LockAwake(g) \/ LockWoken(g) \/ LockGrant(g)

UnlockStep(g) ==
  \/ Unlock(g) \/ UnlockDone(g) \/ UnlockCAS(g) \/ UnlockLoad(g)
  \/ UnlockRelease(g) \/ UnlockReturn(g)

Next == \E g \in Goroutines : LockFast(g) \/ LockStep(g) \/ UnlockStep(g)

Spec == Init /\ [][Next]_vars

(***************************************************************************)
(* Fairness.  A goroutine inside Lock or Unlock keeps running (the         *)
(* scheduler is preemptive), and a holder eventually unlocks; nobody is    *)
(* obliged to call Lock, and nobody is promised to win a race: a CAS may   *)
(* fail, and the semaphore's count may be taken by others, again and again.*)
(***************************************************************************)
Fairness == \A g \in Goroutines : WF_vars(LockStep(g)) /\ WF_vars(UnlockStep(g))
FairSpec == Spec /\ Fairness

-----------------------------------------------------------------------------
\* Two goroutines are never both between the return of Lock and the call of
\* Unlock, across the fast path, the CAS loop and the starvation hand-off.
MutualExclusion ==
  \A g, h \in Goroutines : pc[g] = "cs" /\ pc[h] = "cs" => g = h

\* The consistency checks of lockSlow and unlockSlow never fire for callers
\* that unlock only what they hold, and the hand-off's AddInt32 never carries
\* from one field of the word into another.
NoThrow == \A g \in Goroutines : pc[g] # "throw"

\* No wakeup is lost: if every goroutine is outside the mutex or asleep in its
\* semaphore, then none is asleep.
NoStrandedWaiter ==
  (\A g \in Goroutines : pc[g] = "idle" \/ Asleep(g)) => \A g \in Goroutines : pc[g] = "idle"

\* "Unlock expects that starving mutex has waiters" (lockSlow): without one the
\* hand-off would give the mutex to nobody, for ever.
StarvingHasWaiter ==
  "starving" \in state.flags => \E g \in Goroutines : pc[g] \in {"sem", "woken", "grant"}

\* In starvation mode ownership passes only to a waiter: while it lasts, Lock
\* returns only at the hand-off of LockGrant.
HandoffOnly ==
  [][\A g \in Goroutines :
       "starving" \in state.flags /\ pc[g] # "cs" /\ pc'[g] = "cs" => pc[g] = "grant"]_vars

\* The mutex implements the lock of module Lock.
InLock(g) == pc[g] \in {"load", "loop", "sem", "woken", "grant"}
Abstract == INSTANCE Lock WITH
              waiting <- {g \in Goroutines : InLock(g)},
              holders <- {g \in Goroutines : pc[g] = "cs"}
ImplementsLock == Abstract!Spec

\* The mutex does not stand still while somebody wants it: as long as goroutines
\* are in Lock, one of them or a new arrival returns from it, whatever they are
\* doing there.  Neither can their CAS loops keep each other from succeeding, nor
\* can each of them wait for a wakeup, a hand-off or a retry that is left to another.
MovesOn == (\E g \in Goroutines : InLock(g)) ~> (\E g \in Goroutines : pc[g] = "cs")

-----------------------------------------------------------------------------
(***************************************************************************)
(* Why it works: an inductive invariant.  At any time at most one wakeup   *)
(* is under way, and exactly then the word says so: mutexWoken is set, or  *)
(* the mutex is starving and unlocked.  A wakeup is under way while the    *)
(* semaphore's count is 1 or a goroutine has the token: it is about to     *)
(* increment the count, or it has come back from the semaphore, or it has  *)
(* set mutexWoken while spinning, and has not yet dealt with the word.     *)
(***************************************************************************)
Token(g) ==
  \/ pc[g] \in {"woken", "grant"}
  \/ pc[g] \in {"load", "loop"} /\ awoke[g]
  \/ pc[g] \in {"wake", "handoff"} /\ sst[g] = "running"
  \/ sst[g] = "ticket"

WakeupUnderWay == semval[Sema] = 1 \/ \E g \in Goroutines : Token(g)

OneWakeup ==
  /\ semval[Sema] \in {0, 1}
  /\ semval[Sema] = 1 => \A g \in Goroutines : ~Token(g)
  /\ \A g, h \in Goroutines : Token(g) /\ Token(h) => g = h

WordTellsWakeup ==
  /\ WakeupUnderWay <=> "woken" \in state.flags \/ state.flags = {"starving"}
  /\ "starving" \in state.flags => "woken" \notin state.flags

\* What each token holder knows of the word.
TokenKnows ==
  \A g \in Goroutines :
    /\ pc[g] \in {"load", "loop"} /\ awoke[g] => "woken" \in state.flags
    /\ pc[g] = "loop" /\ awoke[g] => "woken" \in old[g].flags
    /\ pc[g] \in {"load", "loop"} /\ starving[g] => awoke[g]
    /\ pc[g] = "wake" /\ sst[g] = "running" => "woken" \in state.flags
    /\ pc[g] = "handoff" /\ sst[g] = "running" => state.flags = {"starving"}
    /\ pc[g] = "grant" => state.flags = {"starving"}

\* A call of Lock starts with awoke and starving false.
LocalsFresh ==
  \A g \in Goroutines : pc[g] \in {"idle", "cs"} => ~awoke[g] /\ ~starving[g]

\* The locked bit is the holder.
LockedIsHeld ==
  /\ "locked" \in state.flags <=> \E g \in Goroutines : pc[g] = "cs"
  /\ MutualExclusion

\* Who is inside the semaphore, and in which role.
SemRoles ==
  \A g \in Goroutines :
    /\ sst[g] \in {"xadded", "waking"} => pc[g] \in {"wake", "handoff"}
    /\ sst[g] \in {"parked", "dequeued", "ready", "ticket"} => pc[g] = "sem"
    /\ sst[g] = "waking" <=> wakee[g] # None
    /\ sst[g] = "waking" => sst[wakee[g]] = "dequeued"
    /\ sst[g] = "dequeued" => \E h \in Goroutines : wakee[h] = g
    /\ \A h \in Goroutines : wakee[g] = wakee[h] /\ wakee[g] # None => g = h

QueueIsParked ==
  /\ Range(waitq[Sema]) = {g \in Goroutines : sst[g] = "parked"}
  /\ IsInjective(waitq[Sema])

\* The waiter count is exact, one wakeup apart: Unlock has already taken the
\* goroutine it wakes off the count.
Waiters == {g \in Goroutines : pc[g] \in {"sem", "woken", "grant"}}
InTransit == "woken" \in state.flags /\ \A g \in Goroutines : ~(pc[g] \in {"load", "loop"} /\ awoke[g])
CountIsExact == Cardinality(Waiters) = state.waiters + (IF InTransit THEN 1 ELSE 0)

\* A starving mutex has a waiter, whom the last Unlock can hand it to.
StarvingIsCounted ==
  /\ "starving" \in state.flags => state.waiters > 0
  /\ \A g \in Goroutines : pc[g] = "grant" => old[g].waiters \in 1 .. state.waiters

\* A free mutex with waiters and no wakeup under way has an unlocker that is
\* about to see this.
UnlockerWillSee ==
  state.flags = {} /\ state.waiters > 0
    => \E g \in Goroutines : pc[g] = "uload" \/ (pc[g] = "uloop" /\ old[g] = state)

\* A count that sleepers wait for is being brought to one of them.
CountIsMoving ==
  waitq[Sema] # <<>> /\ semval[Sema] > 0
    => \E g \in Goroutines : sst[g] \in {"xadded", "dequeued", "ready"}

\* The invariant that each step of the mutex preserves.
IInv ==
  /\ TypeOK /\ NoThrow
  /\ OneWakeup /\ WordTellsWakeup /\ TokenKnows /\ LocalsFresh /\ LockedIsHeld
  /\ SemRoles /\ QueueIsParked /\ CountIsExact /\ StarvingIsCounted
  /\ UnlockerWillSee /\ CountIsMoving
=============================================================================
