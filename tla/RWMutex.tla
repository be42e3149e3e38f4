------------------------------- MODULE RWMutex -------------------------------
(***************************************************************************)
(* sync.RWMutex (sync/rwmutex.go): the counters readerCount and readerWait *)
(* and the two semaphores that readers and writers sleep on.  The embedded *)
(* mutex w is the lock of module Lock, which Mutex implements.  Releases   *)
(* are without handoff, so no sleeper is given a ticket.                   *)
(***************************************************************************)
EXTENDS Semaphore, Integers

CONSTANTS ReaderSem,   \* the address &rw.readerSem
          WriterSem,   \* the address &rw.writerSem
          MaxReaders   \* rwmutexMaxReaders

ASSUME RWMutexAssumption ==
  /\ IsFiniteSet(Goroutines)
  /\ {ReaderSem, WriterSem} \subseteq Addr /\ ReaderSem # WriterSem
  /\ MaxReaders \in Nat
  /\ Cardinality(Goroutines) < MaxReaders

VARIABLES readerCount,  \* rw.readerCount
          readerWait,   \* rw.readerWait
          w,            \* holder of rw.w, or None
          pc,           \* control point of each goroutine
          r             \* local variable r of Lock; of Unlock, less the iterations done

vars == <<semvars, readerCount, readerWait, w, pc, r>>

PCs == {"idle",
        "rsem",      \* RLock: in runtime_SemacquireMutex(&rw.readerSem)
        "read",      \* RLock has returned
        "rslow",     \* rUnlockSlow: about to decrement readerWait
        "rwake",     \* rUnlockSlow: in runtime_Semrelease(&rw.writerSem)
        "wlock",     \* Lock: in rw.w.Lock
        "announce",  \* Lock: about to subtract rwmutexMaxReaders from readerCount
        "wait",      \* Lock: about to add r to readerWait
        "wsem",      \* Lock: in runtime_SemacquireMutex(&rw.writerSem)
        "write",     \* Lock has returned
        "rel",       \* Unlock: in the loop of runtime_Semrelease(&rw.readerSem)
        "wunlock",   \* Unlock: about to call rw.w.Unlock
        "throw"}     \* throw: unlock of unlocked RWMutex

TypeOK ==
  /\ SemTypeOK
  /\ readerCount \in -MaxReaders .. MaxReaders - 1
  /\ readerWait \in -MaxReaders .. MaxReaders
  /\ w \in Goroutines \cup {None}
  /\ pc \in [Goroutines -> PCs]
  /\ r \in [Goroutines -> 0 .. MaxReaders]

Init ==
  /\ SemInit
  /\ readerCount = 0 /\ readerWait = 0
  /\ w = None
  /\ pc = [g \in Goroutines |-> "idle"]
  /\ r = [g \in Goroutines |-> 0]

Goto(g, label) == pc' = [pc EXCEPT ![g] = label]

-----------------------------------------------------------------------------
\* RLock: count the reader; wait if a writer is pending.
RLock(g) ==
  /\ pc[g] = "idle"
  /\ readerCount' = readerCount + 1
  /\ Goto(g, IF readerCount + 1 < 0 THEN "rsem" ELSE "read")
  /\ UNCHANGED <<semvars, readerWait, w, r>>

\* RLock: runtime_SemacquireMutex(&rw.readerSem, false, 0) sleeps or returns.
RLockSleep(g) ==
  /\ pc[g] = "rsem"
  /\ SemPark(g, ReaderSem, FALSE)
  /\ UNCHANGED <<readerCount, readerWait, w, pc, r>>

RLockAwake(g) ==
  /\ pc[g] = "rsem"
  /\ SemTake(g, ReaderSem)
  /\ Goto(g, "read")
  /\ UNCHANGED <<readerCount, readerWait, w, r>>

\* RUnlock: uncount the reader; if a writer is pending it may be waiting for g.
RUnlock(g) ==
  /\ pc[g] = "read"
  /\ readerCount' = readerCount - 1
  /\ Goto(g, IF readerCount - 1 >= 0 THEN "idle"
             ELSE IF readerCount \in {0, -MaxReaders} THEN "throw" ELSE "rslow")
  /\ UNCHANGED <<semvars, readerWait, w, r>>

\* rUnlockSlow: the last reader unblocks the writer.
RUnlockSlow(g) ==
  /\ pc[g] = "rslow"
  /\ readerWait' = readerWait - 1
  /\ Goto(g, IF readerWait - 1 = 0 THEN "rwake" ELSE "idle")
  /\ UNCHANGED <<semvars, readerCount, w, r>>

\* rUnlockSlow: runtime_Semrelease(&rw.writerSem, false, 1), and its return.
RUnlockRelease(g) ==
  /\ pc[g] = "rwake"
  /\ SemInc(g, WriterSem) \/ SemDequeue(g, WriterSem)
  /\ UNCHANGED <<readerCount, readerWait, w, pc, r>>

RUnlockReturn(g) ==
  /\ pc[g] = "rwake"
  /\ SemNoWaiter(g, WriterSem) \/ SemReady(g, WriterSem, FALSE)
  /\ Goto(g, "idle")
  /\ UNCHANGED <<readerCount, readerWait, w, r>>

-----------------------------------------------------------------------------
\* Lock: first, resolve competition with other writers.
Lock(g) ==
  /\ pc[g] = "idle"
  /\ Goto(g, "wlock")
  /\ UNCHANGED <<semvars, readerCount, readerWait, w, r>>

\* Lock: rw.w.Lock returns.
LockW(g) ==
  /\ pc[g] = "wlock"
  /\ w = None /\ w' = g
  /\ Goto(g, "announce")
  /\ UNCHANGED <<semvars, readerCount, readerWait, r>>

\* Mutation: the writer does not see the readers that are counted already.
AnnounceAlone(g) ==
  /\ pc[g] = "announce"
  /\ readerCount' = readerCount - MaxReaders
  /\ r' = [r EXCEPT ![g] = 0]
  /\ Goto(g, "write")
  /\ UNCHANGED <<semvars, readerWait, w>>

\* Mutation: the writer announces itself only when there are no readers.
AnnounceToNobody(g) ==
  /\ pc[g] = "announce" /\ readerCount = 0
  /\ readerCount' = -MaxReaders
  /\ Goto(g, "write")
  /\ UNCHANGED <<semvars, readerWait, w, r>>

\* Lock: announce to readers that there is a pending writer.
Announce(g) ==
  /\ pc[g] = "announce"
  /\ readerCount' = readerCount - MaxReaders
  /\ r' = [r EXCEPT ![g] = readerCount]
  /\ Goto(g, IF readerCount = 0 THEN "write" ELSE "wait")
  /\ UNCHANGED <<semvars, readerWait, w>>

\* Mutation: readerWait is set, not added to.
LockWaitSets(g) ==
  /\ pc[g] = "wait"
  /\ readerWait' = r[g]
  /\ Goto(g, IF readerWait' # 0 THEN "wsem" ELSE "write")
  /\ r' = [r EXCEPT ![g] = 0]
  /\ UNCHANGED <<semvars, readerCount, w>>

\* Lock: wait for active readers, some of which may have left already.
LockWait(g) ==
  /\ pc[g] = "wait"
  /\ readerWait' = readerWait + r[g]
  /\ Goto(g, IF readerWait' # 0 THEN "wsem" ELSE "write")
  /\ r' = [r EXCEPT ![g] = 0]
  /\ UNCHANGED <<semvars, readerCount, w>>

\* Lock: runtime_SemacquireMutex(&rw.writerSem, false, 0) sleeps or returns.
LockSleep(g) ==
  /\ pc[g] = "wsem"
  /\ SemPark(g, WriterSem, FALSE)
  /\ UNCHANGED <<readerCount, readerWait, w, pc, r>>

LockAwake(g) ==
  /\ pc[g] = "wsem"
  /\ SemTake(g, WriterSem)
  /\ Goto(g, "write")
  /\ UNCHANGED <<readerCount, readerWait, w, r>>

\* Unlock: announce to readers that there is no active writer.
Unlock(g) ==
  /\ pc[g] = "write"
  /\ readerCount' = readerCount + MaxReaders
  /\ IF readerCount + MaxReaders >= MaxReaders
       THEN Goto(g, "throw") /\ UNCHANGED r
       ELSE /\ Goto(g, IF readerCount' = 0 THEN "wunlock" ELSE "rel")
            /\ r' = [r EXCEPT ![g] = readerCount']
  /\ UNCHANGED <<semvars, readerWait, w>>

\* Unlock: the loop condition fails.
LeavesLoop(g) == r[g] = 0

\* Unlock: unblock blocked readers; each iteration is a runtime_Semrelease.
UnlockRelease(g) ==
  /\ pc[g] = "rel"
  /\ \/ SemInc(g, ReaderSem) /\ r' = [r EXCEPT ![g] = @ - 1]
     \/ SemDequeue(g, ReaderSem) /\ UNCHANGED r
  /\ UNCHANGED <<readerCount, readerWait, w, pc>>

UnlockReturn(g) ==
  /\ pc[g] = "rel"
  /\ SemNoWaiter(g, ReaderSem) \/ SemReady(g, ReaderSem, FALSE)
  /\ Goto(g, IF LeavesLoop(g) THEN "wunlock" ELSE "rel")
  /\ UNCHANGED <<readerCount, readerWait, w, r>>

\* Unlock: rw.w.Unlock allows other writers to proceed.
UnlockW(g) ==
  /\ pc[g] = "wunlock"
  /\ w' = None
  /\ Goto(g, "idle")
  /\ UNCHANGED <<semvars, readerCount, readerWait, r>>

-----------------------------------------------------------------------------
ReadStep(g) ==
  \/ RLockSleep(g) \/ RLockAwake(g)
  \/ RUnlock(g) \/ RUnlockSlow(g) \/ RUnlockRelease(g) \/ RUnlockReturn(g)

WriteStep(g) ==
  \/ LockW(g) \/ Announce(g) \/ LockWait(g) \/ LockSleep(g) \/ LockAwake(g)
  \/ Unlock(g) \/ UnlockRelease(g) \/ UnlockReturn(g) \/ UnlockW(g)

Next == \E g \in Goroutines : RLock(g) \/ Lock(g) \/ ReadStep(g) \/ WriteStep(g)

Spec == Init /\ [][Next]_vars

\* A goroutine inside a method keeps running and a holder eventually unlocks.
FairSpec == Spec /\ \A g \in Goroutines : WF_vars(ReadStep(g)) /\ WF_vars(WriteStep(g))

-----------------------------------------------------------------------------
(* Properties. *)

\* "The lock can be held by an arbitrary number of readers or a single writer."
Exclusion ==
  \A g, h \in Goroutines : pc[g] = "write" /\ pc[h] \in {"read", "write"} => g = h

\* No throw is reachable for callers that unlock what they hold: readerCount
\* tells pending writers, counted readers and an unlocked lock apart.
NoThrow == \A g \in Goroutines : pc[g] # "throw"

\* Nobody sleeps on a semaphore of the RWMutex while everybody else is outside
\* its methods, or waits for rw.w that a sleeper holds.
NoStrandedSleeper ==
  (\A g \in Goroutines : pc[g] \in {"idle", "wlock"} \/ Asleep(g))
    => \A g \in Goroutines : ~Asleep(g)

\* "To ensure that the lock eventually becomes available" (comment of type RWMutex): the
\* writer that has rw.w gets the lock, however many readers keep coming.
WriterGetsLock ==
  \A g \in Goroutines : pc[g] \in {"announce", "wait", "wsem"} ~> pc[g] = "write"

\* The RWMutex implements the readers-writer lock of module RWLock.
Abstract == INSTANCE RWLock WITH
              readers <- {g \in Goroutines : pc[g] = "read"},
              writers <- {g \in Goroutines : pc[g] = "write"}
ImplementsRWLock == Abstract!Spec

-----------------------------------------------------------------------------
(***************************************************************************)
(* Why it works: an inductive invariant.  Everything follows from counting *)
(* the readers at each control point: readerCount is the number of readers *)
(* in or waiting for the lock, less rwmutexMaxReaders while a writer is    *)
(* announced, and readerWait is the number of readers that writer still    *)
(* has to wait for, up to the addition that the writer has not made yet.   *)
(***************************************************************************)
N(label) == Cardinality({g \in Goroutines : pc[g] = label})

Announced == w # None /\ pc[w] \in {"wait", "wsem", "write"}

\* Counts on readerSem that blocked readers have been or will be given.
Owed == semval[ReaderSem] + (IF w # None /\ pc[w] = "rel" THEN r[w] ELSE 0)

\* The readers an announced writer waits for: those inside, those let in by
\* the previous writer, and those that have left but not said so yet.
Ahead == N("read") + Owed + N("rslow")

\* The readers about to wake the writer, and the counts on writerSem with theirs.
Wakers == {g \in Goroutines : pc[g] = "rwake" /\ sst[g] = "running"}
WriterWakeups == semval[WriterSem] + Cardinality(Wakers)

\* w is held from the return of rw.w.Lock to the call of rw.w.Unlock.
HolderOfW ==
  \A g \in Goroutines :
    w = g <=> pc[g] \in {"announce", "wait", "wsem", "write", "rel", "wunlock"}

ReaderCountIsExact ==
  readerCount = N("rsem") + N("read") - (IF Announced THEN MaxReaders ELSE 0)

\* Every reader that sleeps and is not owed a count is behind an announced writer.
OwedToReaders ==
  /\ Owed <= N("rsem")
  /\ ~Announced => Owed = N("rsem") /\ readerWait = 0 /\ N("rslow") = 0

\* Unlock enters another iteration of its loop only with readers left to release.
ReadersToRelease == \A g \in Goroutines : pc[g] = "rel" /\ sst[g] = "running" => r[g] > 0

ReaderWaitIsExact ==
  Announced =>
    /\ pc[w] = "wait" => readerWait + r[w] = Ahead /\ readerWait <= 0
    /\ pc[w] = "wsem" => readerWait = Ahead
    /\ pc[w] = "write" => readerWait = 0 /\ Ahead = 0

\* The writer is woken once, when nobody is ahead of it any more.
OneWriterWakeup ==
  WriterWakeups = IF w # None /\ pc[w] = "wsem" /\ Ahead = 0 THEN 1 ELSE 0

\* The semaphore that each goroutine waits for, and the one it releases.
Acquiring == [g \in Goroutines |-> CASE pc[g] = "rsem" -> ReaderSem
                                     [] pc[g] = "wsem" -> WriterSem
                                     [] OTHER -> None]
Releasing == [g \in Goroutines |-> CASE pc[g] = "rel" -> ReaderSem
                                     [] pc[g] = "rwake" -> WriterSem
                                     [] OTHER -> None]

\* The invariant that each step of the RWMutex preserves.
IInv ==
  /\ TypeOK /\ NoThrow /\ HolderOfW
  /\ ReaderCountIsExact /\ OwedToReaders /\ ReadersToRelease
  /\ ReaderWaitIsExact /\ OneWriterWakeup
  /\ SemConsistent(Acquiring, Releasing)
=============================================================================
