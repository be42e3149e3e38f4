---------------------------------- MODULE FD ----------------------------------
(***************************************************************************)
(* poll.FD (internal/poll/fd_unix.go): reads and writes that take the      *)
(* fdMutex, try the system call and wait in the runtime's poller           *)
(* (fd_poll_runtime.go, module Netpoll); operations that only take a       *)
(* reference (Pread, SetDeadline, SetBlocking); Close, which marks the     *)
(* descriptor closed, evicts the waiting I/O and waits until the last user *)
(* has destroyed it.                                                       *)
(***************************************************************************)
EXTENDS Netpoll

CONSTANTS CSema,   \* the address &fd.csema
          \* Bounds on the environment:
          MayCall, \* MayCall[g]: the operations that g calls
          MaySet,  \* the modes and deadlines <<ms, d>> that SetDeadline is called for
          Arrives  \* the modes that the kernel reports to be ready

Calls == Modes \cup {"ref", "close", "deadline", "blocking"}

ASSUME FDAssumption ==
  /\ IsFiniteSet(Goroutines)
  /\ Addr = {RSema, WSema, CSema} /\ CSema \notin {RSema, WSema}
  /\ MayCall \in [Goroutines -> SUBSET Calls]
  /\ MaySet \subseteq ((SUBSET Modes) \ {{}}) \X {"none", "later", "past"} /\ Arrives \subseteq Modes

VARIABLES isBlocking,  \* fd.isBlocking
          kblock,      \* the kernel's mode: a system call on the descriptor may block
          pd,          \* fd.pd: "none" (not pollable), "open", "closed"
          sysfd,       \* fd.Sysfd is open, or has been closed
          pc,          \* control point of each goroutine
          op,          \* the operation it is in
          left         \* increfAndClose's old: waiters of each mode still to be woken

fdvars == <<isBlocking, kblock, pd, sysfd>>
vars == <<semvars, muvars, pdvars, fdvars, pc, op, left>>

Ops == Modes \cup {"ref", "close"}

PCs == {"idle",
        "sem",      \* rwlock: in runtime_Semacquire(mutexSema)
        "lock",     \* rwlock: woken, about to try again
        "prep",     \* Read, Write: about to call pd.prepareRead, pd.prepareWrite
        "reset",    \* pollReset: no error, about to clear the semaphore
        "sys",      \* Read, Write: in the system call
        "wait",     \* pd.waitRead, pd.waitWrite: about to call netpollcheckerr
        "block",    \* netpollblock: about to load the semaphore
        "recheck",  \* netpollblock: has set it to pdWait
        "park",     \* netpollblock: in gopark
        "xchg",     \* netpollblock: about to take what the semaphore holds
        "unlock",   \* Read, Write: about to call rwunlock
        "wake", "wakelast",   \* rwunlock: in runtime_Semrelease; it returned true
        "misc",     \* holds a reference
        "deadline", \* SetDeadline: about to call pollSetDeadline
        "unblock",  \* pollSetDeadline, pollUnblock: holds pd.lock
        "store",    \* SetBlocking: about to set isBlocking
        "setnb",    \* SetBlocking: about to call syscall.SetNonblock
        "cwake_r", "cwake_w", \* increfAndClose: in the loop over rsema, wsema
        "evict",    \* Close: about to call pd.evict
        "decref",   \* about to call fdmu.decref
        "destroy",  \* destroy: about to call pd.close
        "closefn",  \* destroy: about to call CloseFunc and set Sysfd
        "csignal",  \* destroy: in runtime_Semrelease(&fd.csema)
        "blocking", \* Close: about to read isBlocking
        "csem",     \* Close: in runtime_Semacquire(&fd.csema)
        "panic"}    \* panic("inconsistent poll.fdMutex"), throw("runtime: double wait"), ...

TypeOK ==
  /\ SemTypeOK /\ MuTypeOK /\ PdTypeOK
  /\ isBlocking \in BOOLEAN /\ kblock \in BOOLEAN
  /\ pd \in {"none", "open", "closed"}
  /\ sysfd \in {"open", "closed"}
  /\ pc \in [Goroutines -> PCs]
  /\ op \in [Goroutines -> Ops]
  /\ left \in [Modes -> 0 .. MaxCount]

\* Init: a descriptor the poller takes is in non-blocking mode.
Init ==
  /\ SemInit /\ MuInit /\ PdInit
  /\ \/ pd = "open" /\ isBlocking = FALSE /\ kblock = FALSE
     \/ pd = "none" /\ isBlocking = TRUE /\ kblock \in BOOLEAN
  /\ sysfd = "open"
  /\ pc = [g \in Goroutines |-> "idle"]
  /\ op = [g \in Goroutines |-> "ref"]
  /\ left = [m \in Modes |-> 0]

Begin(g, o, label) == pc' = [pc EXCEPT ![g] = label] /\ op' = [op EXCEPT ![g] = o]
Goto(g, label) == Begin(g, IF label = "idle" THEN "ref" ELSE op[g], label)
Move(g, from, to) == pc[g] = from /\ Goto(g, to)
Call(g, call, o, label) == pc[g] = "idle" /\ call \in MayCall[g] /\ Begin(g, o, label)

\* After decref, destroy or not: Close goes on, the others return.
Back(g) == IF op[g] = "close" THEN "blocking" ELSE "idle"

-----------------------------------------------------------------------------
(* Read and Write. *)

\* readLock, writeLock: a pass through the loop of rwlock, which locks, sleeps
\* or gives up.
TryLock(g, m) ==
  /\ \/ rwlock(m) /\ Begin(g, m, "prep")
     \/ rwlockWait(m) /\ Begin(g, m, "sem")
     \/ rwlockFails(m) /\ Goto(g, "idle")
  /\ UNCHANGED <<semvars, pdvars, fdvars, left>>

Lock(g) == pc[g] = "idle" /\ \E m \in Modes \cap MayCall[g] : TryLock(g, m)
LockAgain(g) == pc[g] = "lock" /\ TryLock(g, op[g])

\* rwlock: runtime_Semacquire(mutexSema) sleeps or returns.
LockSleep(g) ==
  /\ pc[g] = "sem"
  /\ SemPark(g, mutexSema(op[g]), FALSE)
  /\ UNCHANGED <<muvars, pdvars, fdvars, pc, op, left>>

LockAwake(g) ==
  /\ Move(g, "sem", "lock")
  /\ SemTake(g, mutexSema(op[g]))
  /\ UNCHANGED <<muvars, pdvars, fdvars, left>>

\* pd.prepareRead, pd.prepareWrite: an error if the descriptor is being closed
\* or the deadline has passed, or the semaphore is cleared.
Prepare(g) ==
  /\ Move(g, "prep", IF pd = "none" THEN "sys" ELSE IF netpollcheckerr(op[g]) THEN "unlock" ELSE "reset")
  /\ UNCHANGED <<semvars, muvars, pdvars, fdvars, left>>

Reset(g) ==
  /\ Move(g, "reset", "sys")
  /\ Clear(op[g])
  /\ UNCHANGED <<semvars, muvars, fdvars, left>>

\* The system call succeeds or fails, or says EAGAIN and the poller waits.  The
\* calls of a Write that writes its buffer in parts are one.
SysReturn(g) ==
  /\ \/ Move(g, "sys", "unlock") /\ Use(op[g])
     \/ Move(g, "sys", "wait") /\ ~kblock /\ op[g] \notin ready /\ pd # "none" /\ UNCHANGED pdvars
  /\ UNCHANGED <<semvars, muvars, fdvars, left>>

\* pollWait: before it waits and whenever it has waited in vain.
PollWait(g) ==
  /\ Move(g, "wait", IF netpollcheckerr(op[g]) THEN "unlock" ELSE "block")
  /\ UNCHANGED <<semvars, muvars, pdvars, fdvars, left>>

\* netpollblock: a notification is taken, or pdWait is set.
Block(g) ==
  /\ pc[g] = "block"
  /\ CASE gpp[op[g]] = "ready" -> Clear(op[g]) /\ Goto(g, "sys")
       [] gpp[op[g]] = "nil" -> Wait(op[g]) /\ Goto(g, "recheck")
       [] OTHER -> Goto(g, "panic") /\ UNCHANGED pdvars
  /\ UNCHANGED <<semvars, muvars, fdvars, left>>

\* Mutation: the error states are not looked at again.
RecheckNothing(g) ==
  /\ Move(g, "recheck", "park")
  /\ UNCHANGED <<semvars, muvars, pdvars, fdvars, left>>

\* netpollblock: "need to recheck error states after setting gpp to pdWait".
Recheck(g) ==
  /\ Move(g, "recheck", IF netpollcheckerr(op[g]) THEN "xchg" ELSE "park")
  /\ UNCHANGED <<semvars, muvars, pdvars, fdvars, left>>

\* netpollblock: gopark, if netpollblockcommit says so.
Park(g) ==
  /\ pc[g] = "park"
  /\ Commit(g, op[g])
  /\ UNCHANGED <<semvars, muvars, fdvars, pc, op, left>>

\* netpollblock: running again or still, it takes what the semaphore holds.
Unpark(g) ==
  /\ pc[g] = "xchg" \/ (pc[g] = "park" /\ gpp[op[g]] \in {"nil", "ready"})
  /\ Clear(op[g])
  /\ Goto(g, CASE gpp[op[g]] = "ready" -> "sys"
                [] gpp[op[g]] \in {"nil", "wait"} -> "wait"
                [] OTHER -> "panic")
  /\ UNCHANGED <<semvars, muvars, fdvars, left>>

\* readUnlock, writeUnlock: rwunlock wakes a waiter of its mode if there is one.
Unlock(g) ==
  /\ pc[g] = "unlock"
  /\ IF op[g] \notin flags \/ refs = 0
       THEN Goto(g, "panic") /\ UNCHANGED muvars
       ELSE /\ rwunlock(op[g])
            /\ Goto(g, IF waiters[op[g]] > 0 THEN (IF Last THEN "wakelast" ELSE "wake")
                       ELSE IF Last THEN "destroy" ELSE "idle")
  /\ UNCHANGED <<semvars, pdvars, fdvars, left>>

Unlocked(g) == IF pc[g] = "wakelast" THEN "destroy" ELSE "idle"

\* rwunlock: runtime_Semrelease(mutexSema), and its return.
UnlockWake(g) ==
  /\ LET a == mutexSema(op[g]) IN
       \/ /\ pc[g] \in {"wake", "wakelast"} /\ UNCHANGED <<pc, op>>
          /\ SemInc(g, a) \/ SemDequeue(g, a)
       \/ /\ pc[g] \in {"wake", "wakelast"} /\ Goto(g, Unlocked(g))
          /\ SemNoWaiter(g, a) \/ SemReady(g, a, FALSE)
  /\ UNCHANGED <<muvars, pdvars, fdvars, left>>

-----------------------------------------------------------------------------
(* Operations that take a reference: Pread, Pwrite, Fsync, SetDeadline, ... *)

Incref(g) ==
  /\ Call(g, "ref", "ref", "misc") /\ incref
  /\ UNCHANGED <<semvars, pdvars, fdvars, left>>

MiscReturn(g) ==
  /\ Move(g, "misc", "decref")
  /\ UNCHANGED <<semvars, muvars, pdvars, fdvars, left>>

\* SetDeadline: incref, then pollSetDeadline.
SetDeadline(g) ==
  /\ Call(g, "deadline", "ref", IF pd = "none" THEN "decref" ELSE "deadline") /\ incref
  /\ UNCHANGED <<semvars, pdvars, fdvars, left>>

PollSetDeadline(g) ==
  /\ \E d \in MaySet : pollSetDeadline(g, d[1], d[2])
  /\ Move(g, "deadline", IF lock' = g THEN "unblock" ELSE "decref")
  /\ UNCHANGED <<semvars, muvars, fdvars, left>>

\* pollSetDeadline, pollUnblock: unblock, and release pd.lock at last.
PollUnblock(g) ==
  /\ Unblock(g)
  /\ Move(g, "unblock", IF lock' = g THEN "unblock" ELSE "decref")
  /\ UNCHANGED <<semvars, muvars, fdvars, left>>

\* SetBlocking: incref, store to isBlocking, then syscall.SetNonblock(fd, false).
SetBlocking(g) ==
  /\ Call(g, "blocking", "ref", "store") /\ incref
  /\ UNCHANGED <<semvars, pdvars, fdvars, left>>

SetBlockingStore(g) ==
  /\ Move(g, "store", "setnb")
  /\ isBlocking' = TRUE
  /\ UNCHANGED <<semvars, muvars, pdvars, kblock, pd, sysfd, left>>

SetNonblock(g) ==
  /\ Move(g, "setnb", "decref")
  /\ kblock' = TRUE
  /\ UNCHANGED <<semvars, muvars, pdvars, isBlocking, pd, sysfd, left>>

\* FD.decref, for which it is destroyed if this was the last reference.
Decref(g) ==
  /\ pc[g] = "decref"
  /\ IF refs = 0
       THEN Goto(g, "panic") /\ UNCHANGED muvars
       ELSE decref /\ Goto(g, IF Last THEN "destroy" ELSE Back(g))
  /\ UNCHANGED <<semvars, pdvars, fdvars, left>>

-----------------------------------------------------------------------------
(* Close and destroy. *)

\* Where increfAndClose goes next, with l[m] waiters of mode m to be woken.
CloseLabel(l) ==
  IF l["r"] > 0 THEN "cwake_r" ELSE IF l["w"] > 0 THEN "cwake_w" ELSE "evict"

Close(g) ==
  /\ Call(g, "close", "close", CloseLabel(waiters))
  /\ increfAndClose
  /\ left' = waiters
  /\ UNCHANGED <<semvars, pdvars, fdvars>>

\* increfAndClose: one runtime_Semrelease for each waiter.
CloseWake(g, m) ==
  /\ pc[g] = IF m = "r" THEN "cwake_r" ELSE "cwake_w"
  /\ LET a == mutexSema(m) IN
       \/ SemInc(g, a) /\ left' = [left EXCEPT ![m] = @ - 1] /\ UNCHANGED <<pc, op>>
       \/ SemDequeue(g, a) /\ UNCHANGED <<left, pc, op>>
       \/ /\ SemNoWaiter(g, a) \/ SemReady(g, a, FALSE)
          /\ Goto(g, CloseLabel(left))
          /\ UNCHANGED left
  /\ UNCHANGED <<muvars, pdvars, fdvars>>

\* Close: pd.evict unblocks the I/O that waits in the poller.
Evict(g) ==
  /\ IF pd = "none" THEN Move(g, "evict", "decref") /\ UNCHANGED pdvars
                     ELSE Move(g, "evict", "unblock") /\ pollUnblock(g)
  /\ UNCHANGED <<semvars, muvars, fdvars, left>>

\* destroy: pd.close, then CloseFunc and Sysfd = -1.
Destroy(g) ==
  /\ LET blocked == ~closing \/ \E m \in Modes : gpp[m] \notin {"nil", "ready"} IN
       Move(g, "destroy", IF pd = "open" /\ blocked THEN "panic" ELSE "closefn")
  /\ pd' = IF pd = "none" THEN pd ELSE "closed"
  /\ UNCHANGED <<semvars, muvars, pdvars, isBlocking, kblock, sysfd, left>>

CloseFunc(g) ==
  /\ Move(g, "closefn", "csignal")
  /\ sysfd' = "closed"
  /\ UNCHANGED <<semvars, muvars, pdvars, isBlocking, kblock, pd, left>>

\* destroy: runtime_Semrelease(&fd.csema), and its return.
DestroySignal(g) ==
  /\ pc[g] = "csignal"
  /\ \/ (SemInc(g, CSema) \/ SemDequeue(g, CSema)) /\ UNCHANGED <<pc, op>>
     \/ (SemNoWaiter(g, CSema) \/ SemReady(g, CSema, FALSE)) /\ Goto(g, Back(g))
  /\ UNCHANGED <<muvars, pdvars, fdvars, left>>

\* Mutation: Close waits whatever isBlocking says.
CloseAlwaysWaits(g) ==
  /\ pc[g] = "blocking"
  /\ Goto(g, "csem")
  /\ UNCHANGED <<semvars, muvars, pdvars, fdvars, left>>

\* Close: read isBlocking, and wait for the destruction if it is not set.
CloseBlocking(g) ==
  /\ pc[g] = "blocking"
  /\ Goto(g, IF isBlocking THEN "idle" ELSE "csem")
  /\ UNCHANGED <<semvars, muvars, pdvars, fdvars, left>>

CloseSleep(g) ==
  /\ pc[g] = "csem"
  /\ SemPark(g, CSema, FALSE)
  /\ UNCHANGED <<muvars, pdvars, fdvars, pc, op, left>>

CloseAwake(g) ==
  /\ Move(g, "csem", "idle")
  /\ SemTake(g, CSema)
  /\ UNCHANGED <<muvars, pdvars, fdvars, left>>

-----------------------------------------------------------------------------
\* A call begins.
BeginCall(g) == Lock(g) \/ Incref(g) \/ SetDeadline(g) \/ SetBlocking(g) \/ Close(g)

\* Steps that a running goroutine takes by itself.
Step(g) ==
  \/ LockAgain(g) \/ LockSleep(g) \/ LockAwake(g) \/ Unlock(g) \/ UnlockWake(g)
  \/ Prepare(g) \/ Reset(g) \/ PollWait(g) \/ Block(g) \/ Recheck(g) \/ Park(g) \/ Unpark(g)
  \/ MiscReturn(g) \/ PollSetDeadline(g) \/ PollUnblock(g)
  \/ SetBlockingStore(g) \/ SetNonblock(g) \/ Decref(g)
  \/ CloseWake(g, "r") \/ CloseWake(g, "w") \/ Evict(g)
  \/ Destroy(g) \/ CloseFunc(g) \/ DestroySignal(g)
  \/ CloseBlocking(g) \/ CloseSleep(g) \/ CloseAwake(g)

\* The kernel, the poller and the timers, for a descriptor that is registered.
\* The poller may still report an event it fetched before pd.close.
Event ==
  /\ \/ pd = "open" /\ \E m \in Arrives : KernelReady(m)
     \/ pd # "none" /\ \E m \in Modes : netpollready(m)
     \/ pd = "open" /\ \E ms \in (SUBSET Modes) \ {{}} : Expire(ms)
  /\ UNCHANGED <<semvars, muvars, fdvars, pc, op, left>>

TimerUnblock == Unblock("timer") /\ UNCHANGED <<semvars, muvars, fdvars, pc, op, left>>

Next ==
  \/ \E g \in Goroutines : BeginCall(g) \/ Step(g) \/ SysReturn(g)
  \/ Event \/ TimerUnblock

Spec == Init /\ [][Next]_vars

(***************************************************************************)
(* A goroutine inside a method keeps running, whoever holds pd.lock        *)
(* releases it, and a system call returns unless the kernel may block it.  *)
(* Nothing says that data ever arrives, that a deadline passes or that the *)
(* poller looks.                                                           *)
(***************************************************************************)
FairSpec ==
  /\ Spec
  /\ \A g \in Goroutines : WF_vars(Step(g)) /\ WF_vars(~kblock /\ SysReturn(g))
  /\ WF_vars(TimerUnblock)

-----------------------------------------------------------------------------
(* Properties. *)

\* The control points at which g uses the descriptor: it relies on Sysfd
\* and on the poller's registration.
IOPCs == {"prep", "reset", "sys", "wait", "block", "recheck", "park", "xchg", "unlock"}
UsePCs == IOPCs \cup {"misc", "deadline", "unblock", "store", "setnb", "decref", "cwake_r", "cwake_w", "evict"}
Using(g) == pc[g] \in UsePCs
Locks(g, m) == pc[g] \in IOPCs /\ op[g] = m
Destroying(g) == pc[g] \in {"wakelast", "destroy", "closefn"}

\* "Otherwise fd can be closed under their feet" (fd_mutex.go): nobody destroys
\* the descriptor while somebody uses it, it is destroyed by one goroutine, and
\* no sequence of calls, counters at their limit included, makes a method find
\* the word inconsistent with the references that are held.
NotUnderTheirFeet ==
  /\ TypeOK
  /\ \A g \in Goroutines :
       /\ pc[g] # "panic"
       /\ Destroying(g) => sysfd = "open" /\ \A h \in Goroutines \ {g} : ~Using(h) /\ ~Destroying(h)

\* No wakeup is lost and none is left over: when everybody is idle or asleep,
\* nobody is asleep, no count is left on the two locks' semaphores, and a
\* descriptor that has been closed has been destroyed.
Quiescent == \A g \in Goroutines : pc[g] = "idle" \/ Asleep(g)
CleanWhenQuiescent ==
  Quiescent =>
    /\ \A g \in Goroutines : pc[g] = "idle"
    /\ flags \subseteq {"closed"} /\ refs = 0 /\ \A m \in Modes : waiters[m] = 0
    /\ semval[RSema] = 0 /\ semval[WSema] = 0
    /\ Closed => sysfd = "closed"

\* "Be careful to not lose concurrent pdReady notification" and "need to recheck
\* error states after setting gpp to pdWait" (netpollblock): a goroutine is parked
\* in the poller only as the holder of its mode's lock; an error that it has
\* missed, by the closing or a deadline, is one that somebody is about to wake it
\* for; and if it has missed the readiness, which the kernel reports once, then
\* the report is still to come.
NobodyOverlooked ==
  \A m \in Modes, g \in Goroutines :
    Parked(g, m) =>
      /\ pc[g] = "park" /\ op[g] = m /\ pd = "open"
      /\ netpollcheckerr(m) => m \in unblocking
      /\ m \in ready => m \in edge

\* Closing ends the waits: once the file is closed everybody who is in a method,
\* waiting for a lock, in the poller or in Close, returns, except a system call
\* that blocks since the descriptor is in blocking mode.  One more exemption
\* is needed: Close reads isBlocking without synchronisation ("increfAndClose
\* means we have exclusive access to fd"), but a SetBlocking that took its
\* reference earlier may store it afterwards, and Close then waits for a Read
\* that blocks in the kernel.
BlockedInKernel(g) == isBlocking /\ pc[g] = "sys"
CloseReturns ==
  Closed ~> \A g \in Goroutines :
    \/ pc[g] = "idle" \/ BlockedInKernel(g)
    \/ pc[g] = "csem" /\ pd = "open" /\ \E h \in Goroutines : BlockedInKernel(h)

\* The descriptor's life is that of module FDLife.
Abstract == INSTANCE FDLife WITH
              status <- IF sysfd = "closed" THEN "destroyed" ELSE IF Closed THEN "closing" ELSE "open",
              users <- {g \in Goroutines : Using(g)},
              locked <- [m \in Modes |-> {g \in Goroutines : Locks(g, m)}]
ImplementsFDLife == Abstract!Spec

-----------------------------------------------------------------------------
(***************************************************************************)
(* Why it works: an inductive invariant, of the word, of the descriptor's  *)
(* end, of the poller and of the semaphores.                               *)
(***************************************************************************)
Users == {g \in Goroutines : Using(g)}

\* What a goroutine does at its control point.
OpsByPC ==
  \A g \in Goroutines :
    /\ pc[g] \in IOPCs \cup {"sem", "lock", "wake", "wakelast"} => op[g] \in Modes
    /\ pc[g] \in {"cwake_r", "cwake_w", "evict", "blocking", "csem"} => op[g] = "close"
    /\ pc[g] \in {"misc", "deadline", "store", "setnb", "idle"} => op[g] = "ref"
    /\ pc[g] \in {"unblock", "decref"} => op[g] \in {"ref", "close"}

\* The word counts the users and says who has the locks.
RefsAreHeld ==
  /\ refs = Cardinality(Users)
  /\ \A m \in Modes : m \in flags <=> \E g \in Goroutines : Locks(g, m)
  /\ \A m \in Modes, g, h \in Goroutines : Locks(g, m) /\ Locks(h, m) => g = h

\* Close gets past increfAndClose once.
OneCloser ==
  \A g \in Goroutines : op[g] = "close" => Closed /\ \A h \in Goroutines : op[h] = "close" => g = h

\* Whoever drops the last reference to a closed file, and nobody else, destroys it;
\* Close has evicted the waiting I/O by then.
DestroyedOnce ==
  /\ \A g \in Goroutines : Destroying(g) =>
       Closed /\ refs = 0 /\ sysfd = "open" /\ \A h \in Goroutines : Destroying(h) => g = h
  /\ sysfd = "closed" => Closed /\ refs = 0 /\ pd # "open"
  /\ Closed /\ refs = 0 => sysfd = "closed" \/ \E g \in Goroutines : Destroying(g)
  /\ pd = "closed" => sysfd = "closed" \/ \E g \in Goroutines : pc[g] = "closefn"
  /\ \A g \in Goroutines : pc[g] = "closefn" => pd # "open"
  /\ Closed => closing \/ pd = "none"
                 \/ \E g \in Goroutines : pc[g] \in {"cwake_r", "cwake_w", "evict"}

\* The holder of pd.lock is to call netpollunblock, and whoever is to call it holds it.
UnblockingLocked == lock = None <=> unblocking = {}

\* The poller is used for a descriptor that has been registered with it.
UsedIfPollable ==
  \A g \in Goroutines :
    pc[g] \in {"reset", "wait", "block", "recheck", "park", "xchg", "deadline", "unblock"} => pd # "none"

\* pdWait, or a goroutine, is in the semaphore only while the one that has set it
\* is there to take it out.
SemaphoreHeld ==
  \A m \in Modes : gpp[m] \notin {"nil", "ready"} =>
    \E g \in Goroutines :
      /\ op[g] = m
      /\ \/ gpp[m] = "wait" /\ pc[g] \in {"recheck", "park", "xchg"}
         \/ gpp[m] = g /\ pc[g] = "park"

\* A goroutine that is going to park has missed no error that nobody is about to
\* tell it of, and one that waits has missed no event that is not to come.
ErrorsAreTold ==
  \A m \in Modes, g \in Goroutines :
    op[g] = m /\ pc[g] = "park" /\ gpp[m] \notin {"nil", "ready"} /\ netpollcheckerr(m)
      => m \in unblocking
EventsAreToCome ==
  \A m \in Modes, g \in Goroutines :
    op[g] = m /\ pc[g] \in {"wait", "block", "recheck", "park", "xchg"} /\ m \in ready
      => m \in edge \/ gpp[m] = "ready"

PollerConsistent ==
  UnblockingLocked /\ UsedIfPollable /\ SemaphoreHeld /\ ErrorsAreTold /\ EventsAreToCome

\* The semaphore that each goroutine waits for, and the one it releases.
Acquiring == [g \in Goroutines |-> CASE pc[g] = "sem" -> mutexSema(op[g])
                                     [] pc[g] = "csem" -> CSema
                                     [] OTHER -> None]
Releasing == [g \in Goroutines |-> CASE pc[g] \in {"wake", "wakelast"} -> mutexSema(op[g])
                                     [] pc[g] = "cwake_r" -> RSema
                                     [] pc[g] = "cwake_w" -> WSema
                                     [] pc[g] = "csignal" -> CSema
                                     [] OTHER -> None]

Sleepers(m) == {g \in Goroutines : pc[g] = "sem" /\ op[g] = m}
Wakers(m) == {g \in Goroutines : pc[g] \in {"wake", "wakelast"} /\ op[g] = m /\ sst[g] = "running"}

\* Every sleeper is counted in the word, or owed a count by a waker or by Close, or
\* has one waiting in the semaphore.
SleepersAreCounted ==
  \A m \in Modes :
    Cardinality(Sleepers(m)) = waiters[m] + Cardinality(Wakers(m)) + left[m] + semval[mutexSema(m)]

\* increfAndClose has taken the waiters out of the word and wakes them itself.
CloseWakesAll ==
  /\ Closed => \A m \in Modes : waiters[m] = 0
  /\ \A m \in Modes : left[m] > 0 => \E g \in Goroutines : pc[g] \in {"cwake_r", "cwake_w"}
  /\ \A g \in Goroutines : sst[g] = "running" =>
       (pc[g] = "cwake_r" => left["r"] > 0) /\ (pc[g] = "cwake_w" => left["w"] > 0)

\* A waiter in the word has somebody to wake it, or who has been woken in its
\* place; this is lost when a count is at its limit and the woken one gives up.
WaitersAreAwaited ==
  Cardinality(Goroutines) <= MaxCount =>
    \A m \in Modes : waiters[m] > 0 =>
      \/ m \in flags \/ semval[mutexSema(m)] > 0 \/ Wakers(m) # {}
      \/ \E g \in Goroutines : pc[g] = "lock" /\ op[g] = m

\* The destruction is signalled, or about to be, until Close has taken the count.
SignalToCome ==
  \A g \in Goroutines : op[g] = "close" /\ sysfd = "closed" =>
    semval[CSema] > 0 \/ \E h \in Goroutines : pc[h] = "csignal" /\ sst[h] = "running"

\* The invariant that each step preserves.
IInv ==
  /\ TypeOK /\ \A g \in Goroutines : pc[g] # "panic"
  /\ OpsByPC /\ RefsAreHeld /\ OneCloser /\ DestroyedOnce /\ PollerConsistent
  /\ SleepersAreCounted /\ CloseWakesAll /\ WaitersAreAwaited /\ SignalToCome
  /\ SemConsistent(Acquiring, Releasing)
=============================================================================
