------------------------------ MODULE SyncProofs ------------------------------
(***************************************************************************)
(* Proofs about RWMutex, for every finite set of goroutines and every      *)
(* rwmutexMaxReaders that is larger; and about WaitGroup, for every finite *)
(* set of goroutines: any number of workers and waiters, in any number of  *)
(* rounds.  The two have nothing in common but the semaphore they are      *)
(* clients of.                                                             *)
(***************************************************************************)
EXTENDS RWMutex, WaitGroup, SemaphoreProofs

USE DEF Goto

-----------------------------------------------------------------------------
(* The semaphores. *)

\* Each step is a step of at most one of the semaphores, taken in the role that
\* the goroutine's control point says; a goroutine that changes its control
\* point is not inside a semaphore afterwards.
LEMMA NextSem ==
  ASSUME TypeOK, SemConsistent(Acquiring, Releasing), [Next]_vars
  PROVE  SemTypeOK' /\ SemConsistent(Acquiring, Releasing)'
<1> USE RWMutexAssumption, NoneAssumption
<1>1. SemTypeOK
  BY DEF TypeOK
<1> SUFFICES ASSUME NEW g \in Goroutines, RLock(g) \/ Lock(g) \/ ReadStep(g) \/ WriteStep(g)
             PROVE  SemTypeOK' /\ SemConsistent(Acquiring, Releasing)'
  <2>1. CASE UNCHANGED vars
    <3>1. /\ semval' = semval /\ waitq' = waitq /\ sst' = sst /\ wakee' = wakee
          /\ Acquiring' = Acquiring /\ Releasing' = Releasing
      BY <2>1 DEF vars, semvars, Acquiring, Releasing
    <3>2. /\ SemTypeOK' /\ RolesConsistent(Acquiring, Releasing)' /\ WakeesConsistent'
          /\ QueuesConsistent(Acquiring)'
      BY <1>1, <3>1 DEF SemTypeOK, SemConsistent, RolesConsistent, WakeesConsistent, QueuesConsistent
    <3>3. CountsMoving(Acquiring, Releasing)'
      BY <3>1 DEF SemConsistent, CountsMoving, Bringing
    <3>4. QED  BY <3>2, <3>3 DEF SemConsistent
  <2>2. QED  BY <2>1 DEF Next
<1>2. pc[g] \notin {"rsem", "wsem", "rel", "rwake"} => sst[g] = "running"
  <2>1. pc[g] \notin {"rsem", "wsem", "rel", "rwake"} => Acquiring[g] \notin Addr /\ Releasing[g] \notin Addr
    BY DEF Acquiring, Releasing
  <2>2. QED  BY <1>1, <2>1, OutsideSem
<1>3. ASSUME NEW a \in Addr, SemStep(g, a, Acquiring, Releasing),
             pc' = pc \/ (sst'[g] = "running" /\ \E to \in PCs : pc' = [pc EXCEPT ![g] = to])
      PROVE  SemTypeOK' /\ SemConsistent(Acquiring, Releasing)'
  <2>1. \A h \in Goroutines : h # g => pc'[h] = pc[h]
    BY <1>3 DEF TypeOK
  <2>2. KeepsRoles(Acquiring, Releasing, Acquiring', Releasing')
    BY <1>3, <2>1 DEF KeepsRoles, Acquiring, Releasing
  <2>3. QED  BY <1>1, <1>3, <2>2, SemStepConsistent
<1>4. CASE \/ RLock(g) \/ RUnlock(g) \/ RUnlockSlow(g) \/ Lock(g) \/ LockW(g)
           \/ Announce(g) \/ LockWait(g) \/ Unlock(g) \/ UnlockW(g)
  <2>1. UNCHANGED semvars
    BY <1>4 DEF RLock, RUnlock, RUnlockSlow, Lock, LockW, Announce, LockWait, Unlock, UnlockW
  <2>2. pc[g] \notin {"rsem", "wsem", "rel", "rwake"} /\ \E to \in PCs : pc' = [pc EXCEPT ![g] = to]
    BY <1>4 DEF RLock, RUnlock, RUnlockSlow, Lock, LockW, Announce, LockWait, Unlock, UnlockW, PCs
  <2>3. ReaderSem \in Addr /\ SemStep(g, ReaderSem, Acquiring, Releasing)
    BY <2>1 DEF SemStep
  <2>4. QED  BY <1>2, <1>3, <2>1, <2>2, <2>3 DEF semvars
<1>5. CASE RLockSleep(g) \/ LockSleep(g)
  BY <1>3, <1>5 DEF RLockSleep, LockSleep, SemStep, Acquiring
<1>6. CASE RLockAwake(g) \/ LockAwake(g)
  <2>1. sst'[g] = "running" /\ \E to \in PCs : pc' = [pc EXCEPT ![g] = to]
    BY <1>1, <1>6 DEF RLockAwake, LockAwake, SemTake, PCs, SemTypeOK
  <2>2. QED  BY <1>3, <1>6, <2>1 DEF RLockAwake, LockAwake, SemStep, Acquiring
<1>7. CASE RUnlockRelease(g) \/ UnlockRelease(g)
  BY <1>3, <1>7 DEF RUnlockRelease, UnlockRelease, SemStep, Releasing
<1>8. CASE RUnlockReturn(g) \/ UnlockReturn(g)
  <2>1. \E a \in Addr : Releasing[g] = a /\ (SemNoWaiter(g, a) \/ SemReady(g, a, FALSE))
    BY <1>8 DEF RUnlockReturn, UnlockReturn, Releasing
  <2>2. sst'[g] = "running"
    BY <1>1, <2>1, WakeeIsDequeued DEF SemNoWaiter, SemReady, SemConsistent, SemTypeOK
  <2>3. \E to \in PCs : pc' = [pc EXCEPT ![g] = to]
    BY <1>8 DEF RUnlockReturn, UnlockReturn, PCs
  <2>4. QED  BY <1>3, <2>1, <2>2, <2>3 DEF SemStep
<1>9. QED  BY <1>4, <1>5, <1>6, <1>7, <1>8 DEF ReadStep, WriteStep

-----------------------------------------------------------------------------
(* Counting the goroutines at each control point. *)

\* One goroutine moves: the count of its label goes down, that of the next one up.
LEMMA CountMoves ==
  ASSUME TypeOK, NEW g \in Goroutines, NEW to \in PCs, pc' = [pc EXCEPT ![g] = to], NEW l
  PROVE  /\ N(l) \in Nat
         /\ N(l)' = IF pc[g] = to THEN N(l)
                    ELSE IF l = pc[g] THEN N(l) - 1 ELSE IF l = to THEN N(l) + 1 ELSE N(l)
<1> DEFINE S == {h \in Goroutines : pc[h] = l}
           T == {h \in Goroutines : pc'[h] = l}
<1>1. IsFiniteSet(S)
  BY RWMutexAssumption, FS_Subset
<1>2. /\ \A h : h # g => (h \in T <=> h \in S)
      /\ g \in S <=> pc[g] = l
      /\ g \in T <=> to = l
  BY DEF TypeOK
<1>3. N(l) = Cardinality(S) /\ N(l)' = Cardinality(T)
  BY DEF N
<1> HIDE DEF S, T
<1>4. QED  BY <1>1, <1>2, <1>3, OneMoves

\* A count is zero when nobody is there.
LEMMA CountZero ==
  ASSUME NEW l
  PROVE  /\ N(l) \in Nat
         /\ N(l) = 0 <=> \A g \in Goroutines : pc[g] # l
<1>1. IsFiniteSet({g \in Goroutines : pc[g] = l})
  BY RWMutexAssumption, FS_Subset
<1>2. QED  BY <1>1, FS_CardinalityType, FS_EmptySet DEF N

\* Readers are counted once: three disjoint sets of them have fewer members than
\* rwmutexMaxReaders.
LEMMA CountsAdd ==
  ASSUME NEW f
  PROVE  LET C(l) == Cardinality({g \in Goroutines : f[g] = l})
         IN  /\ C("rsem") \in Nat /\ C("read") \in Nat /\ C("rslow") \in Nat
             /\ C("rsem") + C("read") + C("rslow") < MaxReaders
<1> DEFINE S(l) == {g \in Goroutines : f[g] = l}
<1>1. \A l : S(l) \subseteq Goroutines
  OBVIOUS
<1>2. /\ IsFiniteSet(S("rsem")) /\ IsFiniteSet(S("read")) /\ IsFiniteSet(S("rslow"))
      /\ S("rsem") \cap S("read") = {} /\ (S("rsem") \cup S("read")) \cap S("rslow") = {}
  BY <1>1, RWMutexAssumption, FS_Subset
<1>3. (S("rsem") \cup S("read")) \cup S("rslow") \subseteq Goroutines
  OBVIOUS
<1> HIDE DEF S
<1>4. /\ IsFiniteSet(S("rsem") \cup S("read"))
      /\ Cardinality(S("rsem") \cup S("read")) = Cardinality(S("rsem")) + Cardinality(S("read"))
  BY <1>2, DisjointUnion
<1>5. Cardinality((S("rsem") \cup S("read")) \cup S("rslow"))
        = Cardinality(S("rsem")) + Cardinality(S("read")) + Cardinality(S("rslow"))
  BY <1>2, <1>4, DisjointUnion
<1>6. Cardinality((S("rsem") \cup S("read")) \cup S("rslow")) <= Cardinality(Goroutines)
  BY <1>3, RWMutexAssumption, FS_Subset
<1>7. Cardinality(Goroutines) \in Nat
  BY RWMutexAssumption, FS_CardinalityType
<1>8. /\ Cardinality(S("rsem")) \in Nat /\ Cardinality(S("read")) \in Nat
      /\ Cardinality(S("rslow")) \in Nat
  BY <1>2, FS_CardinalityType
<1>9. QED  BY <1>5, <1>6, <1>7, <1>8, RWMutexAssumption DEF S

\* The wakers change by one goroutine at most, with its control point or its state.
LEMMA WakersMove ==
  ASSUME NEW g \in Goroutines,
         \A h \in Goroutines \ {g} : h \in Wakers' <=> h \in Wakers
  PROVE  /\ Cardinality(Wakers) \in Nat
         /\ g \in Wakers' /\ g \notin Wakers => Cardinality(Wakers)' = Cardinality(Wakers) + 1
         /\ g \notin Wakers' /\ g \in Wakers => Cardinality(Wakers)' = Cardinality(Wakers) - 1
         /\ (g \in Wakers' <=> g \in Wakers) => Cardinality(Wakers)' = Cardinality(Wakers)
<1> DEFINE S == Wakers
           T == Wakers'
<1>1. S \subseteq Goroutines /\ T \subseteq Goroutines
  BY DEF Wakers
<1>2. IsFiniteSet(S)
  BY <1>1, RWMutexAssumption, FS_Subset
<1>3. \A h : h # g => (h \in T <=> h \in S)
  BY <1>1
<1> HIDE DEF S, T
<1>4. /\ Cardinality(S) \in Nat
      /\ Cardinality(T) = Cardinality(S) - (IF g \in S THEN 1 ELSE 0) + (IF g \in T THEN 1 ELSE 0)
  BY <1>2, <1>3, OneMoves
<1>5. QED  BY <1>4 DEF S, T

-----------------------------------------------------------------------------
(* The counters. *)

WriterLabels == {"announce", "wait", "wsem", "write", "rel", "wunlock"}
ReaderLabels == {"idle", "rsem", "read", "rslow", "rwake", "wlock"}

Counters ==
  /\ NoThrow /\ HolderOfW
  /\ ReaderCountIsExact /\ OwedToReaders /\ ReadersToRelease
  /\ ReaderWaitIsExact /\ OneWriterWakeup

\* What the counters say, as far as the steps need it.
LEMMA CountersSay ==
  ASSUME TypeOK
  PROVE  /\ N("rsem") \in Nat /\ N("read") \in Nat /\ N("rslow") \in Nat
         /\ Cardinality(Wakers) \in Nat
         /\ N("rsem") + N("read") + N("rslow") < MaxReaders
         /\ semval[ReaderSem] \in Nat /\ semval[WriterSem] \in Nat
         /\ Owed \in Nat /\ readerCount \in Int /\ readerWait \in Int /\ MaxReaders \in Nat
<1>1. /\ N("rsem") \in Nat /\ N("read") \in Nat /\ N("rslow") \in Nat
      /\ N("rsem") + N("read") + N("rslow") < MaxReaders
  BY CountsAdd DEF N
<1>2. Cardinality(Wakers) \in Nat
  BY RWMutexAssumption, FS_Subset, FS_CardinalityType DEF Wakers
<1>3. semval[ReaderSem] \in Nat /\ semval[WriterSem] \in Nat
  BY RWMutexAssumption DEF TypeOK, SemTypeOK
<1>4. Owed \in Nat
  BY <1>3, RWMutexAssumption DEF Owed, TypeOK
<1>5. QED  BY <1>1, <1>2, <1>3, <1>4, RWMutexAssumption DEF TypeOK

\* The steps of a goroutine that does not hold rw.w leave the writer's side alone.
LEMMA ReaderMoves ==
  ASSUME TypeOK, Counters, NEW g \in Goroutines, pc[g] \in ReaderLabels,
         NEW to \in ReaderLabels, pc' = [pc EXCEPT ![g] = to], w' = w, r' = r,
         semval'[ReaderSem] \in Nat
  PROVE  /\ HolderOfW' /\ NoThrow'
         /\ Announced' <=> Announced
         /\ w # None => pc'[w] = pc[w] /\ pc[w] \in WriterLabels
         /\ Owed' = semval'[ReaderSem] + (Owed - semval[ReaderSem])
<1>1. w # g
  BY DEF Counters, HolderOfW, ReaderLabels
<1>2. w # None => pc'[w] = pc[w] /\ pc[w] \in WriterLabels
  BY <1>1 DEF TypeOK, Counters, HolderOfW, WriterLabels
<1>3. Announced' <=> Announced
  BY <1>2 DEF Announced
<1>4. HolderOfW' /\ NoThrow'
  BY <1>1 DEF TypeOK, Counters, HolderOfW, NoThrow, ReaderLabels
<1>5. semval[ReaderSem] \in Nat /\ (w # None => r[w] \in Nat)
  BY RWMutexAssumption DEF TypeOK, SemTypeOK
<1>6. Owed' = semval'[ReaderSem] + (Owed - semval[ReaderSem])
  BY <1>2, <1>5 DEF Owed
<1>7. QED  BY <1>2, <1>3, <1>4, <1>6

\* A step of a goroutine leaves the control points of the others, and the wakers
\* among them.
LEMMA OthersStay ==
  ASSUME TypeOK, SemConsistent(Acquiring, Releasing), NEW g \in Goroutines,
         RLock(g) \/ Lock(g) \/ ReadStep(g) \/ WriteStep(g)
  PROVE  \A h \in Goroutines \ {g} :
           /\ pc'[h] = pc[h]
           /\ sst'[h] = "running" <=> sst[h] = "running"
           /\ h \in Wakers' <=> h \in Wakers
<1>1. \A h \in Goroutines \ {g} : pc'[h] = pc[h]
  <2>1. \/ pc' = pc \/ \E to \in PCs : pc' = [pc EXCEPT ![g] = to]
    BY DEF ReadStep, WriteStep, RLock, RLockSleep, RLockAwake, RUnlock, RUnlockSlow, RUnlockRelease,
           RUnlockReturn, Lock, LockW, Announce, LockWait, LockSleep, LockAwake,
           Unlock, UnlockRelease, UnlockReturn, UnlockW, PCs
  <2>2. QED  BY <2>1 DEF TypeOK
<1>2. \E a \in Addr : SemStep(g, a, Acquiring, Releasing)
  <2>1. CASE \/ RLock(g) \/ RUnlock(g) \/ RUnlockSlow(g) \/ Lock(g) \/ LockW(g)
             \/ Announce(g) \/ LockWait(g) \/ Unlock(g) \/ UnlockW(g)
    <3>1. UNCHANGED semvars
      BY <2>1 DEF RLock, RUnlock, RUnlockSlow, Lock, LockW, Announce, LockWait, Unlock, UnlockW
    <3>2. QED  BY <3>1, RWMutexAssumption DEF SemStep
  <2>2. CASE RLockSleep(g) \/ LockSleep(g) \/ RLockAwake(g) \/ LockAwake(g)
    BY <2>2, RWMutexAssumption DEF RLockSleep, LockSleep, RLockAwake, LockAwake, SemStep, Acquiring
  <2>3. CASE RUnlockRelease(g) \/ UnlockRelease(g) \/ RUnlockReturn(g) \/ UnlockReturn(g)
    BY <2>3, RWMutexAssumption
       DEF RUnlockRelease, UnlockRelease, RUnlockReturn, UnlockReturn, SemStep, Releasing
  <2>4. QED  BY <2>1, <2>2, <2>3 DEF ReadStep, WriteStep
<1>3. \A h \in Goroutines \ {g} : sst'[h] = "running" <=> sst[h] = "running"
  BY <1>2, OthersKeepRunning DEF TypeOK
<1>4. QED  BY <1>1, <1>3 DEF Wakers

\* How a step changes the number of wakers.
LEMMA WakersStep ==
  ASSUME TypeOK, SemConsistent(Acquiring, Releasing), NEW g \in Goroutines,
         RLock(g) \/ Lock(g) \/ ReadStep(g) \/ WriteStep(g)
  PROVE  Cardinality(Wakers)' =
           Cardinality(Wakers) - (IF pc[g] = "rwake" /\ sst[g] = "running" THEN 1 ELSE 0)
                               + (IF pc'[g] = "rwake" /\ sst'[g] = "running" THEN 1 ELSE 0)
<1>1. /\ g \in Wakers <=> pc[g] = "rwake" /\ sst[g] = "running"
      /\ g \in Wakers' <=> pc'[g] = "rwake" /\ sst'[g] = "running"
  BY DEF Wakers
<1>2. \A h \in Goroutines \ {g} : h \in Wakers' <=> h \in Wakers
  BY OthersStay
<1>3. QED  BY <1>1, <1>2, WakersMove

-----------------------------------------------------------------------------
(* Each step keeps the counters. *)

\* A step of a reader that is not about to wake the writer, neither before nor after.
LEMMA ReaderStep ==
  ASSUME TypeOK, SemConsistent(Acquiring, Releasing), Counters, NEW g \in Goroutines,
         RLock(g) \/ Lock(g) \/ ReadStep(g) \/ WriteStep(g),
         pc[g] \in ReaderLabels, NEW to \in ReaderLabels, pc' = [pc EXCEPT ![g] = to],
         w' = w, r' = r, semval'[ReaderSem] \in Nat
  PROVE  /\ HolderOfW' /\ NoThrow' /\ ReadersToRelease'
         /\ Announced' <=> Announced
         /\ w # None => pc'[w] = pc[w] /\ pc[w] \in WriterLabels
         /\ Owed' = semval'[ReaderSem] + (Owed - semval[ReaderSem])
<1>1. /\ HolderOfW' /\ NoThrow' /\ (Announced' <=> Announced)
      /\ w # None => pc'[w] = pc[w] /\ pc[w] \in WriterLabels
      /\ Owed' = semval'[ReaderSem] + (Owed - semval[ReaderSem])
  BY ReaderMoves
<1>2. pc'[g] # "rel" /\ \A h \in Goroutines \ {g} : pc'[h] = pc[h] /\ (sst'[h] = "running" <=> sst[h] = "running")
  BY OthersStay DEF TypeOK, ReaderLabels
<1>3. ReadersToRelease'
  BY <1>2 DEF Counters, ReadersToRelease
<1>4. QED  BY <1>1, <1>3

\* RLock counts the reader among those inside, or behind an announced writer.
LEMMA RLockCounters ==
  ASSUME TypeOK, SemConsistent(Acquiring, Releasing), Counters, NEW g \in Goroutines, RLock(g)
  PROVE  Counters'
<1>1. PICK to \in {"rsem", "read"} :
        /\ to = IF readerCount + 1 < 0 THEN "rsem" ELSE "read"
        /\ pc[g] = "idle" /\ pc' = [pc EXCEPT ![g] = to] /\ readerCount' = readerCount + 1
        /\ semval' = semval /\ readerWait' = readerWait /\ w' = w /\ r' = r
  BY DEF RLock, semvars
<1>2. to \in PCs /\ to \in ReaderLabels /\ pc[g] \in ReaderLabels
  BY <1>1 DEF PCs, ReaderLabels
<1>3. /\ N("rsem")' = IF to = "rsem" THEN N("rsem") + 1 ELSE N("rsem")
      /\ N("read")' = IF to = "read" THEN N("read") + 1 ELSE N("read")
      /\ N("rslow")' = N("rslow")
  BY <1>1, <1>2, CountMoves
<1>4. N("rsem")' + N("read")' + N("rslow")' < MaxReaders
  BY CountsAdd DEF N
<1>5. Cardinality(Wakers)' = Cardinality(Wakers)
  BY <1>1, WakersStep, CountersSay DEF TypeOK
<1>6. to = IF Announced THEN "rsem" ELSE "read"
  BY <1>1, <1>3, <1>4, CountersSay DEF Counters, ReaderCountIsExact
<1>7. semval'[ReaderSem] \in Nat /\ semval[ReaderSem] \in Nat /\ Owed \in Nat
  BY <1>1, CountersSay
<1>8. /\ HolderOfW' /\ NoThrow' /\ ReadersToRelease' /\ (Announced' <=> Announced)
      /\ w # None => pc'[w] = pc[w]
      /\ Owed' = semval'[ReaderSem] + (Owed - semval[ReaderSem])
  BY <1>1, <1>2, <1>7, ReaderStep
<1>9. Owed' = Owed
  BY <1>1, <1>7, <1>8
<1>10. ReaderCountIsExact' /\ OwedToReaders'
  BY <1>1, <1>3, <1>6, <1>8, <1>9, CountersSay DEF Counters, ReaderCountIsExact, OwedToReaders
<1>11. Announced => Ahead' = Ahead
  BY <1>3, <1>6, <1>8, <1>9, CountersSay DEF Ahead
<1>12. ReaderWaitIsExact' /\ OneWriterWakeup'
  BY <1>1, <1>5, <1>8, <1>11, CountersSay
     DEF Counters, ReaderWaitIsExact, OneWriterWakeup, WriterWakeups, Announced
<1>13. QED  BY <1>8, <1>10, <1>12 DEF Counters

\* A step of a goroutine that only sleeps, dequeues a sleeper, or readies one.
LEMMA QuietCounters ==
  ASSUME TypeOK, SemConsistent(Acquiring, Releasing), Counters, NEW g \in Goroutines,
         RLock(g) \/ Lock(g) \/ ReadStep(g) \/ WriteStep(g),
         UNCHANGED <<semval, readerCount, readerWait, w, pc, r>>,
         pc[g] = "rwake" => (sst'[g] = "running" <=> sst[g] = "running"),
         pc[g] = "rel" /\ sst'[g] = "running" => r[g] > 0
  PROVE  Counters'
<1>1. /\ semval' = semval /\ readerCount' = readerCount /\ readerWait' = readerWait
      /\ w' = w /\ pc' = pc /\ r' = r
  OBVIOUS
<1>2. N("rsem")' = N("rsem") /\ N("read")' = N("read") /\ N("rslow")' = N("rslow")
  BY <1>1 DEF N
<1>3. Cardinality(Wakers)' = Cardinality(Wakers)
  BY <1>1, WakersStep, CountersSay
<1>4. /\ HolderOfW' /\ NoThrow' /\ (Announced' <=> Announced) /\ Owed' = Owed
      /\ ReaderCountIsExact'
  BY <1>1, <1>2 DEF Counters, HolderOfW, NoThrow, Announced, Owed, ReaderCountIsExact
<1>5. ReadersToRelease'
  BY <1>1, OthersStay DEF Counters, ReadersToRelease
<1>6. OwedToReaders' /\ Ahead' = Ahead
  BY <1>1, <1>2, <1>4 DEF Counters, OwedToReaders, Ahead
<1>7. ReaderWaitIsExact' /\ OneWriterWakeup'
  BY <1>1, <1>3, <1>4, <1>6 DEF Counters, ReaderWaitIsExact, OneWriterWakeup, WriterWakeups
<1>8. QED  BY <1>4, <1>5, <1>6, <1>7 DEF Counters

\* RLock sleeps, or takes a count and the count that it was owed with it.
LEMMA RLockAwakeCounters ==
  ASSUME TypeOK, SemConsistent(Acquiring, Releasing), Counters, NEW g \in Goroutines, RLockAwake(g)
  PROVE  Counters'
<1> DEFINE to == "read"
<1>1. /\ pc[g] = "rsem" /\ pc' = [pc EXCEPT ![g] = to] /\ readerCount' = readerCount
      /\ semval[ReaderSem] > 0 /\ semval' = [semval EXCEPT ![ReaderSem] = @ - 1]
      /\ readerWait' = readerWait /\ w' = w /\ r' = r
  BY DEF RLockAwake, SemTake
<1>2. /\ to \in PCs /\ to \in ReaderLabels /\ pc[g] \in ReaderLabels
      /\ RLock(g) \/ Lock(g) \/ ReadStep(g) \/ WriteStep(g)
  BY <1>1 DEF PCs, ReaderLabels, ReadStep
<1>3. /\ N("rsem")' = N("rsem") - 1 /\ N("read")' = N("read") + 1
      /\ N("rslow")' = N("rslow")
  BY <1>1, <1>2, CountMoves
<1>4. Cardinality(Wakers)' = Cardinality(Wakers)
  BY <1>1, <1>2, WakersStep, CountersSay DEF TypeOK
<1>5. /\ semval'[ReaderSem] = semval[ReaderSem] - 1 /\ semval'[WriterSem] = semval[WriterSem]
      /\ semval[ReaderSem] \in Nat /\ semval'[ReaderSem] \in Nat
  BY <1>1, CountersSay, RWMutexAssumption DEF TypeOK, SemTypeOK
<1>6. /\ HolderOfW' /\ NoThrow' /\ ReadersToRelease' /\ (Announced' <=> Announced)
      /\ w # None => pc'[w] = pc[w]
      /\ Owed' = semval'[ReaderSem] + (Owed - semval[ReaderSem])
  BY <1>1, <1>2, <1>5, ReaderStep
<1>7. Owed' = Owed - 1
  BY <1>5, <1>6, CountersSay
<1>8. ReaderCountIsExact' /\ OwedToReaders'
  BY <1>1, <1>3, <1>6, <1>7, CountersSay DEF Counters, ReaderCountIsExact, OwedToReaders
<1>9. Ahead' = Ahead
  BY <1>3, <1>7, CountersSay DEF Ahead
<1>10. ReaderWaitIsExact' /\ OneWriterWakeup'
  BY <1>1, <1>4, <1>5, <1>6, <1>9, CountersSay
     DEF Counters, ReaderWaitIsExact, OneWriterWakeup, WriterWakeups, Announced
<1>11. QED  BY <1>6, <1>8, <1>10 DEF Counters

\* RUnlock: with the counts exact there is no throw; behind an announced writer
\* the reader still has to tell it.
LEMMA RUnlockCounters ==
  ASSUME TypeOK, SemConsistent(Acquiring, Releasing), Counters, NEW g \in Goroutines, RUnlock(g)
  PROVE  Counters'
<1>1. N("read") > 0
  BY CountZero DEF RUnlock
<1>2. /\ readerCount \notin {0, -MaxReaders}
      /\ readerCount - 1 < 0 <=> Announced
  BY <1>1, CountersSay DEF Counters, ReaderCountIsExact
<1>3. PICK to \in {"idle", "rslow"} :
        /\ to = IF Announced THEN "rslow" ELSE "idle"
        /\ pc[g] = "read" /\ pc' = [pc EXCEPT ![g] = to] /\ readerCount' = readerCount - 1
        /\ semval' = semval /\ readerWait' = readerWait /\ w' = w /\ r' = r
  <2>1. pc' = [pc EXCEPT ![g] = IF Announced THEN "rslow" ELSE "idle"]
    <3>1. readerCount - 1 >= 0 <=> ~Announced
      BY <1>2, CountersSay
    <3>2. QED  BY <1>2, <3>1 DEF RUnlock
  <2>2. QED  BY <2>1 DEF RUnlock, semvars
<1>4. /\ to \in PCs /\ to \in ReaderLabels /\ pc[g] \in ReaderLabels
      /\ RLock(g) \/ Lock(g) \/ ReadStep(g) \/ WriteStep(g)
  BY <1>3 DEF PCs, ReaderLabels, ReadStep
<1>5. /\ N("rsem")' = N("rsem") /\ N("read")' = N("read") - 1
      /\ N("rslow")' = IF to = "rslow" THEN N("rslow") + 1 ELSE N("rslow")
  BY <1>3, <1>4, CountMoves
<1>6. Cardinality(Wakers)' = Cardinality(Wakers)
  BY <1>3, <1>4, WakersStep, CountersSay DEF TypeOK
<1>7. semval'[ReaderSem] \in Nat /\ semval[ReaderSem] \in Nat /\ Owed \in Nat
  BY <1>3, CountersSay
<1>8. /\ HolderOfW' /\ NoThrow' /\ ReadersToRelease' /\ (Announced' <=> Announced)
      /\ w # None => pc'[w] = pc[w]
      /\ Owed' = semval'[ReaderSem] + (Owed - semval[ReaderSem])
  BY <1>3, <1>4, <1>7, ReaderStep
<1>9. Owed' = Owed
  BY <1>3, <1>7, <1>8
<1>10. ReaderCountIsExact' /\ OwedToReaders'
  BY <1>3, <1>5, <1>8, <1>9, CountersSay DEF Counters, ReaderCountIsExact, OwedToReaders
<1>11. Announced => Ahead' = Ahead
  BY <1>3, <1>5, <1>9, CountersSay DEF Ahead
<1>12. ReaderWaitIsExact' /\ OneWriterWakeup'
  BY <1>3, <1>6, <1>8, <1>11, CountersSay
     DEF Counters, ReaderWaitIsExact, OneWriterWakeup, WriterWakeups, Announced
<1>13. QED  BY <1>8, <1>10, <1>12 DEF Counters

\* rUnlockSlow: the last reader ahead of the writer, and nobody else, wakes it, and
\* only a writer that has read the counts.
LEMMA RUnlockSlowCounters ==
  ASSUME TypeOK, SemConsistent(Acquiring, Releasing), Counters, NEW g \in Goroutines, RUnlockSlow(g)
  PROVE  Counters'
<1>1. PICK to \in {"rwake", "idle"} :
        /\ to = IF readerWait - 1 = 0 THEN "rwake" ELSE "idle"
        /\ pc[g] = "rslow" /\ pc' = [pc EXCEPT ![g] = to] /\ readerWait' = readerWait - 1
        /\ semval' = semval /\ sst' = sst /\ readerCount' = readerCount /\ w' = w /\ r' = r
  BY DEF RUnlockSlow, semvars
<1>2. /\ to \in PCs /\ to \in ReaderLabels /\ pc[g] \in ReaderLabels
      /\ RLock(g) \/ Lock(g) \/ ReadStep(g) \/ WriteStep(g)
  BY <1>1 DEF PCs, ReaderLabels, ReadStep
<1>3. /\ N("rsem")' = N("rsem") /\ N("read")' = N("read")
      /\ N("rslow")' = N("rslow") - 1
  BY <1>1, <1>2, CountMoves
<1>4. N("rslow") > 0
  BY <1>1, CountZero
<1>5. sst[g] = "running"
  BY <1>1, OutsideSem, NoneAssumption DEF TypeOK, Acquiring, Releasing
<1>6. Cardinality(Wakers)' = Cardinality(Wakers) + (IF to = "rwake" THEN 1 ELSE 0)
  BY <1>1, <1>2, <1>5, WakersStep, CountersSay DEF TypeOK
<1>7. semval'[ReaderSem] \in Nat /\ semval[ReaderSem] \in Nat /\ Owed \in Nat
  BY <1>1, CountersSay
<1>8. /\ HolderOfW' /\ NoThrow' /\ ReadersToRelease' /\ (Announced' <=> Announced)
      /\ w # None => pc'[w] = pc[w]
      /\ Owed' = semval'[ReaderSem] + (Owed - semval[ReaderSem])
  BY <1>1, <1>2, <1>7, ReaderStep
<1>9. Owed' = Owed
  BY <1>1, <1>7, <1>8
<1>10. /\ Announced /\ ReaderCountIsExact' /\ OwedToReaders'
  BY <1>1, <1>3, <1>4, <1>8, <1>9, CountersSay DEF Counters, ReaderCountIsExact, OwedToReaders
<1>11. Ahead' = Ahead - 1 /\ Ahead > 0
  BY <1>3, <1>4, <1>9, CountersSay DEF Ahead
<1>12. w # None /\ pc[w] \in {"wait", "wsem"} /\ r[w] \in Int
  BY <1>10, <1>11, RWMutexAssumption DEF Announced, Counters, ReaderWaitIsExact, TypeOK
<1>13. ReaderWaitIsExact'
  BY <1>1, <1>8, <1>10, <1>11, <1>12, CountersSay DEF Counters, ReaderWaitIsExact
<1>14. to = "rwake" <=> pc[w] = "wsem" /\ Ahead' = 0
  BY <1>1, <1>10, <1>11, <1>12, CountersSay DEF Counters, ReaderWaitIsExact
<1>15. OneWriterWakeup'
  BY <1>1, <1>6, <1>8, <1>11, <1>12, <1>14, CountersSay DEF Counters, OneWriterWakeup, WriterWakeups
<1>16. QED  BY <1>8, <1>10, <1>13, <1>15 DEF Counters

\* rUnlockSlow: the count on writerSem takes the place of the reader that brings it.
LEMMA RUnlockReleaseCounters ==
  ASSUME TypeOK, SemConsistent(Acquiring, Releasing), Counters, NEW g \in Goroutines, RUnlockRelease(g)
  PROVE  Counters'
<1>1. RLock(g) \/ Lock(g) \/ ReadStep(g) \/ WriteStep(g)
  BY DEF ReadStep
<1>2. CASE SemDequeue(g, WriterSem)
  <2>1. Head(waitq[WriterSem]) \in Goroutines /\ sst[g] = "xadded" /\ sst[Head(waitq[WriterSem])] = "parked"
    BY <1>2, RWMutexAssumption, FirstIsParked DEF SemDequeue, SemConsistent, TypeOK
  <2>2. sst'[g] # "running"
    BY <1>2, <2>1 DEF SemDequeue, TypeOK, SemTypeOK
  <2>3. pc[g] = "rwake" /\ UNCHANGED <<semval, readerCount, readerWait, w, pc, r>>
    BY <1>2 DEF RUnlockRelease, SemDequeue
  <2>4. QED  BY <1>1, <2>1, <2>2, <2>3, QuietCounters
<1>3. CASE SemInc(g, WriterSem)
  <2>1. /\ pc[g] = "rwake" /\ pc' = pc /\ readerCount' = readerCount /\ readerWait' = readerWait
        /\ w' = w /\ r' = r /\ sst[g] = "running" /\ semval' = [semval EXCEPT ![WriterSem] = @ + 1]
    BY <1>3 DEF RUnlockRelease, SemInc
  <2>2. sst'[g] = "xadded"
    BY <1>3 DEF SemInc, TypeOK, SemTypeOK
  <2>3. /\ semval'[WriterSem] = semval[WriterSem] + 1 /\ semval'[ReaderSem] = semval[ReaderSem]
        /\ semval[ReaderSem] \in Nat
    BY <2>1, RWMutexAssumption DEF TypeOK, SemTypeOK
  <2>4. N("rsem")' = N("rsem") /\ N("read")' = N("read") /\ N("rslow")' = N("rslow")
    BY <2>1 DEF N
  <2>5. Cardinality(Wakers)' = Cardinality(Wakers) - 1
    BY <1>1, <2>1, <2>2, WakersStep, CountersSay
  <2>6. WriterWakeups' = WriterWakeups
    BY <2>3, <2>5, CountersSay DEF WriterWakeups
  <2>7. /\ HolderOfW' /\ NoThrow' /\ (Announced' <=> Announced) /\ Owed' = Owed
        /\ ReaderCountIsExact'
    BY <2>1, <2>3, <2>4 DEF Counters, HolderOfW, NoThrow, Announced, Owed, ReaderCountIsExact
  <2>8. ReadersToRelease'
    BY <1>1, <2>1, OthersStay DEF Counters, ReadersToRelease
  <2>9. OwedToReaders' /\ Ahead' = Ahead
    BY <2>1, <2>4, <2>7 DEF Counters, OwedToReaders, Ahead
  <2>10. ReaderWaitIsExact' /\ OneWriterWakeup'
    BY <2>1, <2>6, <2>7, <2>9 DEF Counters, ReaderWaitIsExact, OneWriterWakeup
  <2>11. QED  BY <2>7, <2>8, <2>9, <2>10 DEF Counters
<1>4. QED  BY <1>2, <1>3 DEF RUnlockRelease

\* A step between control points at which a goroutine counts for nothing.
LEMMA NeutralCounters ==
  ASSUME TypeOK, SemConsistent(Acquiring, Releasing), Counters, NEW g \in Goroutines,
         Lock(g) \/ RUnlockReturn(g)
  PROVE  Counters'
<1>1. PICK to \in {"wlock", "idle"} :
        /\ pc[g] \in {"idle", "rwake"} /\ pc' = [pc EXCEPT ![g] = to]
        /\ semval' = semval /\ readerWait' = readerWait /\ readerCount' = readerCount
        /\ w' = w /\ r' = r /\ (pc[g] = "rwake" => sst[g] # "running")
  BY DEF Lock, RUnlockReturn, SemNoWaiter, SemReady, semvars
<1>2. /\ to \in PCs /\ to \in ReaderLabels /\ pc[g] \in ReaderLabels
      /\ RLock(g) \/ Lock(g) \/ ReadStep(g) \/ WriteStep(g)
  BY <1>1 DEF PCs, ReaderLabels, ReadStep
<1>3. N("rsem")' = N("rsem") /\ N("read")' = N("read") /\ N("rslow")' = N("rslow")
  BY <1>1, <1>2, CountMoves
<1>4. Cardinality(Wakers)' = Cardinality(Wakers)
  BY <1>1, <1>2, WakersStep, CountersSay DEF TypeOK
<1>5. semval'[ReaderSem] \in Nat /\ semval[ReaderSem] \in Nat /\ Owed \in Nat
  BY <1>1, CountersSay
<1>6. /\ HolderOfW' /\ NoThrow' /\ ReadersToRelease' /\ (Announced' <=> Announced)
      /\ w # None => pc'[w] = pc[w]
      /\ Owed' = semval'[ReaderSem] + (Owed - semval[ReaderSem])
  BY <1>1, <1>2, <1>5, ReaderStep
<1>7. Owed' = Owed
  BY <1>1, <1>5, <1>6
<1>8. ReaderCountIsExact' /\ OwedToReaders' /\ Ahead' = Ahead
  BY <1>1, <1>3, <1>6, <1>7, CountersSay DEF Counters, ReaderCountIsExact, OwedToReaders, Ahead
<1>9. ReaderWaitIsExact' /\ OneWriterWakeup'
  BY <1>1, <1>4, <1>6, <1>8, CountersSay
     DEF Counters, ReaderWaitIsExact, OneWriterWakeup, WriterWakeups, Announced
<1>10. QED  BY <1>6, <1>8, <1>9 DEF Counters

\* The counters of a step of the goroutine that holds rw.w: it moves no reader.
LEMMA WriterStep ==
  ASSUME TypeOK, SemConsistent(Acquiring, Releasing), Counters, NEW g \in Goroutines,
         RLock(g) \/ Lock(g) \/ ReadStep(g) \/ WriteStep(g),
         pc[g] \in WriterLabels, NEW to \in WriterLabels, pc' = [pc EXCEPT ![g] = to],
         w' = w, pc'[g] = "rel" /\ sst'[g] = "running" => r'[g] > 0
  PROVE  /\ w = g /\ g # None /\ pc'[g] = to
         /\ HolderOfW' /\ NoThrow' /\ ReadersToRelease'
         /\ N("rsem")' = N("rsem") /\ N("read")' = N("read") /\ N("rslow")' = N("rslow")
         /\ Cardinality(Wakers)' = Cardinality(Wakers)
<1>1. w = g /\ g # None /\ pc'[g] = to
  BY NoneAssumption DEF Counters, HolderOfW, WriterLabels, TypeOK
<1>2. \A h \in Goroutines \ {g} : pc'[h] = pc[h] /\ (sst'[h] = "running" <=> sst[h] = "running")
  BY OthersStay
<1>3. HolderOfW' /\ NoThrow'
  BY <1>1, <1>2 DEF Counters, HolderOfW, NoThrow, WriterLabels
<1>4. ReadersToRelease'
  <2>1. \A h \in Goroutines : pc'[h] = "rel" => h = g
    BY <1>1, <1>2 DEF Counters, HolderOfW
  <2>2. QED  BY <2>1 DEF ReadersToRelease
<1>5. to \in PCs /\ pc[g] \notin {"rsem", "read", "rslow"} /\ to \notin {"rsem", "read", "rslow"}
  BY DEF WriterLabels, PCs
<1>6. N("rsem")' = N("rsem") /\ N("read")' = N("read") /\ N("rslow")' = N("rslow")
  BY <1>5, CountMoves
<1>7. pc[g] # "rwake" /\ pc'[g] # "rwake"
  BY <1>1 DEF WriterLabels
<1>8. Cardinality(Wakers)' = Cardinality(Wakers)
  BY <1>7, WakersStep, CountersSay
<1>9. QED  BY <1>1, <1>3, <1>4, <1>6, <1>8

\* Lock gets rw.w, and with it everything as the previous writer left it.
LEMMA LockWCounters ==
  ASSUME TypeOK, SemConsistent(Acquiring, Releasing), Counters, NEW g \in Goroutines, LockW(g)
  PROVE  Counters'
<1>1. /\ pc[g] = "wlock" /\ pc' = [pc EXCEPT ![g] = "announce"] /\ w = None /\ w' = g
      /\ semval' = semval /\ readerWait' = readerWait /\ readerCount' = readerCount /\ r' = r
      /\ "announce" \in PCs /\ g # None
      /\ RLock(g) \/ Lock(g) \/ ReadStep(g) \/ WriteStep(g)
  BY NoneAssumption DEF LockW, semvars, PCs, WriteStep
<1>2. N("rsem")' = N("rsem") /\ N("read")' = N("read") /\ N("rslow")' = N("rslow")
  BY <1>1, CountMoves
<1>3. /\ pc'[g] = "announce"
      /\ \A h \in Goroutines \ {g} : pc'[h] = pc[h] /\ (sst'[h] = "running" <=> sst[h] = "running")
  BY <1>1, OthersStay DEF TypeOK
<1>4. Cardinality(Wakers)' = Cardinality(Wakers)
  BY <1>1, <1>3, WakersStep, CountersSay
<1>5. HolderOfW' /\ NoThrow' /\ ReadersToRelease'
  BY <1>1, <1>3, NoneAssumption DEF Counters, HolderOfW, NoThrow, ReadersToRelease
<1>6. ~Announced /\ ~Announced' /\ Owed' = Owed
  BY <1>1, <1>3 DEF Announced, Owed
<1>7. ReaderCountIsExact' /\ OwedToReaders' /\ ReaderWaitIsExact'
  BY <1>1, <1>2, <1>6 DEF Counters, ReaderCountIsExact, OwedToReaders, ReaderWaitIsExact
<1>8. OneWriterWakeup'
  BY <1>1, <1>3, <1>4 DEF Counters, OneWriterWakeup, WriterWakeups
<1>9. QED  BY <1>5, <1>7, <1>8 DEF Counters

\* Lock announces itself: the readers counted so far are the ones ahead of it.
LEMMA AnnounceCounters ==
  ASSUME TypeOK, SemConsistent(Acquiring, Releasing), Counters, NEW g \in Goroutines, Announce(g)
  PROVE  Counters'
<1>1. PICK to \in {"write", "wait"} :
        /\ to = IF readerCount = 0 THEN "write" ELSE "wait"
        /\ pc[g] = "announce" /\ pc' = [pc EXCEPT ![g] = to] /\ r' = [r EXCEPT ![g] = readerCount]
        /\ semval' = semval /\ readerWait' = readerWait /\ w' = w
        /\ readerCount' = readerCount - MaxReaders
  BY DEF Announce, semvars
<1>2. /\ to \in WriterLabels /\ pc[g] \in WriterLabels
      /\ RLock(g) \/ Lock(g) \/ ReadStep(g) \/ WriteStep(g)
  BY <1>1 DEF WriterLabels, WriteStep
<1>3. pc'[g] # "rel" /\ r'[g] = readerCount
  BY <1>1 DEF TypeOK
<1>4. /\ w = g /\ g # None /\ pc'[g] = to
      /\ HolderOfW' /\ NoThrow' /\ ReadersToRelease'
      /\ N("rsem")' = N("rsem") /\ N("read")' = N("read") /\ N("rslow")' = N("rslow")
      /\ Cardinality(Wakers)' = Cardinality(Wakers)
  BY <1>1, <1>2, <1>3, WriterStep
<1>5. ~Announced /\ Announced' /\ Owed' = Owed
  BY <1>1, <1>4 DEF Announced, Owed
<1>6. /\ readerCount = N("rsem") + N("read") /\ Owed = N("rsem") /\ N("rslow") = 0 /\ readerWait = 0
  BY <1>5, CountersSay DEF Counters, ReaderCountIsExact, OwedToReaders
<1>7. Ahead' = readerCount
  BY <1>4, <1>5, <1>6, CountersSay DEF Ahead
<1>8. ReaderCountIsExact' /\ OwedToReaders'
  BY <1>1, <1>4, <1>5, <1>6, CountersSay DEF ReaderCountIsExact, OwedToReaders
<1>9. ReaderWaitIsExact' /\ OneWriterWakeup'
  BY <1>1, <1>3, <1>4, <1>6, <1>7, CountersSay
     DEF Counters, ReaderWaitIsExact, OneWriterWakeup, WriterWakeups
<1>10. QED  BY <1>4, <1>8, <1>9 DEF Counters

\* Lock adds the readers it counted to readerWait, from which some have gone.
LEMMA LockWaitCounters ==
  ASSUME TypeOK, SemConsistent(Acquiring, Releasing), Counters, NEW g \in Goroutines, LockWait(g)
  PROVE  Counters'
<1>1. PICK to \in {"write", "wsem"} :
        /\ to = IF readerWait + r[g] = 0 THEN "write" ELSE "wsem"
        /\ pc[g] = "wait" /\ pc' = [pc EXCEPT ![g] = to] /\ r' = [r EXCEPT ![g] = 0]
        /\ semval' = semval /\ readerWait' = readerWait + r[g] /\ w' = w
        /\ readerCount' = readerCount
  BY DEF LockWait, semvars
<1>2. /\ to \in WriterLabels /\ pc[g] \in WriterLabels
      /\ RLock(g) \/ Lock(g) \/ ReadStep(g) \/ WriteStep(g)
  BY <1>1 DEF WriterLabels, WriteStep
<1>3. pc'[g] # "rel"
  BY <1>1 DEF TypeOK
<1>4. /\ w = g /\ g # None /\ pc'[g] = to
      /\ HolderOfW' /\ NoThrow' /\ ReadersToRelease'
      /\ N("rsem")' = N("rsem") /\ N("read")' = N("read") /\ N("rslow")' = N("rslow")
      /\ Cardinality(Wakers)' = Cardinality(Wakers)
  BY <1>1, <1>2, <1>3, WriterStep
<1>5. Announced /\ Announced' /\ Owed' = Owed
  BY <1>1, <1>4 DEF Announced, Owed
<1>6. Ahead' = Ahead /\ readerWait + r[g] = Ahead
  BY <1>1, <1>4, <1>5 DEF Ahead, Counters, ReaderWaitIsExact
<1>7. ReaderCountIsExact' /\ OwedToReaders'
  BY <1>1, <1>4, <1>5, CountersSay DEF Counters, ReaderCountIsExact, OwedToReaders
<1>8. ReaderWaitIsExact' /\ OneWriterWakeup'
  BY <1>1, <1>4, <1>6, CountersSay DEF Counters, ReaderWaitIsExact, OneWriterWakeup, WriterWakeups
<1>9. QED  BY <1>4, <1>7, <1>8 DEF Counters

\* Lock takes the count on writerSem: nobody was ahead of the writer when it was made.
LEMMA LockAwakeCounters ==
  ASSUME TypeOK, SemConsistent(Acquiring, Releasing), Counters, NEW g \in Goroutines, LockAwake(g)
  PROVE  Counters'
<1> DEFINE to == "write"
<1>1. /\ pc[g] = "wsem" /\ pc' = [pc EXCEPT ![g] = to] /\ readerCount' = readerCount
      /\ semval[WriterSem] > 0 /\ semval' = [semval EXCEPT ![WriterSem] = @ - 1]
      /\ readerWait' = readerWait /\ w' = w /\ r' = r
  BY DEF LockAwake, SemTake
<1>2. /\ to \in WriterLabels /\ pc[g] \in WriterLabels
      /\ RLock(g) \/ Lock(g) \/ ReadStep(g) \/ WriteStep(g)
  BY <1>1 DEF WriterLabels, WriteStep
<1>3. pc'[g] # "rel"
  BY <1>1 DEF TypeOK
<1>4. /\ w = g /\ g # None /\ pc'[g] = to
      /\ HolderOfW' /\ NoThrow' /\ ReadersToRelease'
      /\ N("rsem")' = N("rsem") /\ N("read")' = N("read") /\ N("rslow")' = N("rslow")
      /\ Cardinality(Wakers)' = Cardinality(Wakers)
  BY <1>1, <1>2, <1>3, WriterStep
<1>5. /\ semval'[WriterSem] = semval[WriterSem] - 1 /\ semval'[ReaderSem] = semval[ReaderSem]
  BY <1>1, RWMutexAssumption DEF TypeOK, SemTypeOK
<1>6. Announced /\ Announced' /\ Owed' = Owed /\ Ahead' = Ahead
  BY <1>1, <1>4, <1>5 DEF Announced, Owed, Ahead
<1>7. /\ Ahead = 0 /\ WriterWakeups = 1
  BY <1>1, <1>4, CountersSay DEF Counters, OneWriterWakeup, WriterWakeups
<1>8. readerWait = 0 /\ WriterWakeups' = 0
  BY <1>1, <1>4, <1>5, <1>6, <1>7, CountersSay DEF Counters, ReaderWaitIsExact, WriterWakeups
<1>9. ReaderCountIsExact' /\ OwedToReaders'
  BY <1>1, <1>4, <1>6, CountersSay DEF Counters, ReaderCountIsExact, OwedToReaders
<1>10. ReaderWaitIsExact' /\ OneWriterWakeup'
  BY <1>1, <1>4, <1>6, <1>7, <1>8 DEF ReaderWaitIsExact, OneWriterWakeup
<1>11. QED  BY <1>4, <1>9, <1>10 DEF Counters

\* Unlock: there is no throw, and every reader that is counted is owed a count.
LEMMA UnlockCounters ==
  ASSUME TypeOK, SemConsistent(Acquiring, Releasing), Counters, NEW g \in Goroutines, Unlock(g)
  PROVE  Counters'
<1>1. /\ w = g /\ g # None /\ Announced /\ pc[g] = "write"
  BY NoneAssumption DEF Unlock, Counters, HolderOfW, Announced
<1>2. /\ Ahead = 0 /\ readerWait = 0 /\ Owed = semval[ReaderSem]
  BY <1>1, CountersSay DEF Counters, ReaderWaitIsExact, Owed
<1>3. /\ N("read") = 0 /\ N("rslow") = 0 /\ semval[ReaderSem] = 0
  BY <1>2, CountersSay DEF Ahead
<1>4. readerCount + MaxReaders = N("rsem")
  BY <1>1, <1>3, CountersSay DEF Counters, ReaderCountIsExact
<1>5. PICK to \in {"wunlock", "rel"} :
        /\ to = IF N("rsem") = 0 THEN "wunlock" ELSE "rel"
        /\ pc' = [pc EXCEPT ![g] = to] /\ r' = [r EXCEPT ![g] = N("rsem")]
        /\ semval' = semval /\ readerWait' = readerWait /\ w' = w
        /\ readerCount' = N("rsem")
  <2>1. ~(readerCount + MaxReaders >= MaxReaders)
    BY <1>4, CountersSay
  <2>2. QED  BY <1>4, <2>1 DEF Unlock, semvars
<1>6. /\ to \in WriterLabels /\ pc[g] \in WriterLabels
      /\ RLock(g) \/ Lock(g) \/ ReadStep(g) \/ WriteStep(g)
  BY <1>1, <1>5 DEF WriterLabels, WriteStep
<1>7. /\ r'[g] = N("rsem")
      /\ pc'[g] = "rel" => r'[g] > 0
  BY <1>5, CountersSay DEF TypeOK
<1>8. /\ pc'[g] = to
      /\ HolderOfW' /\ NoThrow' /\ ReadersToRelease'
      /\ N("rsem")' = N("rsem") /\ N("read")' = N("read") /\ N("rslow")' = N("rslow")
      /\ Cardinality(Wakers)' = Cardinality(Wakers)
  BY <1>5, <1>6, <1>7, WriterStep
<1>9. ~Announced' /\ Owed' = N("rsem")
  BY <1>1, <1>3, <1>5, <1>7, <1>8, CountersSay DEF Announced, Owed
<1>10. ReaderCountIsExact' /\ OwedToReaders' /\ ReaderWaitIsExact'
  BY <1>2, <1>3, <1>5, <1>8, <1>9, CountersSay DEF ReaderCountIsExact, OwedToReaders, ReaderWaitIsExact
<1>11. OneWriterWakeup'
  BY <1>1, <1>5, <1>8 DEF Counters, OneWriterWakeup, WriterWakeups
<1>12. QED  BY <1>8, <1>10, <1>11 DEF Counters

\* Unlock: the count on readerSem takes the place of an iteration of the loop.
LEMMA UnlockReleaseCounters ==
  ASSUME TypeOK, SemConsistent(Acquiring, Releasing), Counters, NEW g \in Goroutines, UnlockRelease(g)
  PROVE  Counters'
<1>1. /\ pc[g] = "rel" /\ pc' = pc /\ readerCount' = readerCount /\ readerWait' = readerWait /\ w' = w
      /\ w = g /\ g # None
      /\ RLock(g) \/ Lock(g) \/ ReadStep(g) \/ WriteStep(g)
  BY NoneAssumption DEF UnlockRelease, Counters, HolderOfW, WriteStep
<1>2. CASE SemDequeue(g, ReaderSem)
  <2>1. Head(waitq[ReaderSem]) \in Goroutines /\ sst[g] = "xadded" /\ sst[Head(waitq[ReaderSem])] = "parked"
    BY <1>2, RWMutexAssumption, FirstIsParked DEF SemDequeue, SemConsistent, TypeOK
  <2>2. sst'[g] # "running"
    BY <1>2, <2>1 DEF SemDequeue, TypeOK, SemTypeOK
  <2>3. UNCHANGED <<semval, readerCount, readerWait, w, pc, r>>
    BY <1>1, <1>2 DEF UnlockRelease, SemDequeue, SemInc
  <2>4. QED  BY <1>1, <2>1, <2>2, <2>3, QuietCounters
<1>3. CASE SemInc(g, ReaderSem)
  <2>1. /\ r' = [r EXCEPT ![g] = @ - 1] /\ sst[g] = "running"
        /\ semval' = [semval EXCEPT ![ReaderSem] = @ + 1]
    BY <1>3 DEF UnlockRelease, SemInc, SemDequeue
  <2>2. sst'[g] = "xadded"
    BY <1>3 DEF SemInc, TypeOK, SemTypeOK
  <2>3. /\ semval'[ReaderSem] = semval[ReaderSem] + 1 /\ semval'[WriterSem] = semval[WriterSem]
        /\ r'[g] = r[g] - 1 /\ r[g] \in Nat
    BY <2>1, RWMutexAssumption DEF TypeOK, SemTypeOK
  <2>4. N("rsem")' = N("rsem") /\ N("read")' = N("read") /\ N("rslow")' = N("rslow")
    BY <1>1 DEF N
  <2>5. Cardinality(Wakers)' = Cardinality(Wakers)
    BY <1>1, WakersStep, CountersSay
  <2>6. Owed' = Owed
    BY <1>1, <2>3, CountersSay DEF Owed
  <2>7. /\ HolderOfW' /\ NoThrow' /\ (Announced' <=> Announced) /\ ReaderCountIsExact'
    BY <1>1, <2>4 DEF Counters, HolderOfW, NoThrow, Announced, ReaderCountIsExact
  <2>8. ReadersToRelease'
    BY <1>1, <2>2 DEF Counters, HolderOfW, ReadersToRelease
  <2>9. OwedToReaders' /\ ReaderWaitIsExact' /\ OneWriterWakeup'
    BY <1>1, <2>3, <2>4, <2>5, <2>6, <2>7
       DEF Counters, OwedToReaders, ReaderWaitIsExact, OneWriterWakeup, WriterWakeups, Announced
  <2>10. QED  BY <2>7, <2>8, <2>9 DEF Counters
<1>4. QED  BY <1>2, <1>3 DEF UnlockRelease

\* Unlock: a release returns, with readers left to release or not.
LEMMA UnlockReturnCounters ==
  ASSUME TypeOK, SemConsistent(Acquiring, Releasing), Counters, NEW g \in Goroutines, UnlockReturn(g)
  PROVE  Counters'
<1>1. PICK to \in {"wunlock", "rel"} :
        /\ to = IF r[g] = 0 THEN "wunlock" ELSE "rel"
        /\ pc[g] = "rel" /\ pc' = [pc EXCEPT ![g] = to] /\ r' = r
        /\ semval' = semval /\ readerWait' = readerWait /\ w' = w /\ readerCount' = readerCount
  BY DEF UnlockReturn, LeavesLoop, SemNoWaiter, SemReady
<1>2. /\ to \in WriterLabels /\ pc[g] \in WriterLabels
      /\ RLock(g) \/ Lock(g) \/ ReadStep(g) \/ WriteStep(g)
  BY <1>1 DEF WriterLabels, WriteStep
<1>3. pc'[g] = "rel" => r'[g] > 0
  BY <1>1, RWMutexAssumption DEF TypeOK
<1>4. /\ w = g /\ g # None /\ pc'[g] = to
      /\ HolderOfW' /\ NoThrow' /\ ReadersToRelease'
      /\ N("rsem")' = N("rsem") /\ N("read")' = N("read") /\ N("rslow")' = N("rslow")
      /\ Cardinality(Wakers)' = Cardinality(Wakers)
  BY <1>1, <1>2, <1>3, WriterStep
<1>5. ~Announced /\ ~Announced' /\ Owed' = Owed
  BY <1>1, <1>4, CountersSay DEF Announced, Owed
<1>6. ReaderCountIsExact' /\ OwedToReaders' /\ ReaderWaitIsExact'
  BY <1>1, <1>4, <1>5 DEF Counters, ReaderCountIsExact, OwedToReaders, ReaderWaitIsExact
<1>7. OneWriterWakeup'
  BY <1>1, <1>4 DEF Counters, OneWriterWakeup, WriterWakeups
<1>8. QED  BY <1>4, <1>6, <1>7 DEF Counters

\* Unlock leaves rw.w.
LEMMA UnlockWCounters ==
  ASSUME TypeOK, SemConsistent(Acquiring, Releasing), Counters, NEW g \in Goroutines, UnlockW(g)
  PROVE  Counters'
<1>1. /\ pc[g] = "wunlock" /\ pc' = [pc EXCEPT ![g] = "idle"] /\ w = g /\ w' = None /\ g # None
      /\ semval' = semval /\ readerWait' = readerWait /\ readerCount' = readerCount /\ r' = r
      /\ "idle" \in PCs
      /\ RLock(g) \/ Lock(g) \/ ReadStep(g) \/ WriteStep(g)
  BY NoneAssumption DEF UnlockW, semvars, PCs, WriteStep, Counters, HolderOfW
<1>2. N("rsem")' = N("rsem") /\ N("read")' = N("read") /\ N("rslow")' = N("rslow")
  BY <1>1, CountMoves
<1>3. /\ pc'[g] = "idle"
      /\ \A h \in Goroutines \ {g} : pc'[h] = pc[h] /\ (sst'[h] = "running" <=> sst[h] = "running")
  BY <1>1, OthersStay DEF TypeOK
<1>4. Cardinality(Wakers)' = Cardinality(Wakers)
  BY <1>1, <1>3, WakersStep, CountersSay
<1>5. HolderOfW' /\ NoThrow' /\ ReadersToRelease'
  BY <1>1, <1>3, NoneAssumption DEF Counters, HolderOfW, NoThrow, ReadersToRelease
<1>6. ~Announced /\ ~Announced' /\ Owed' = Owed
  BY <1>1, <1>3, CountersSay DEF Announced, Owed
<1>7. ReaderCountIsExact' /\ OwedToReaders' /\ ReaderWaitIsExact'
  BY <1>1, <1>2, <1>6 DEF Counters, ReaderCountIsExact, OwedToReaders, ReaderWaitIsExact
<1>8. OneWriterWakeup'
  BY <1>1, <1>3, <1>4 DEF Counters, OneWriterWakeup, WriterWakeups
<1>9. QED  BY <1>5, <1>7, <1>8 DEF Counters

-----------------------------------------------------------------------------
(* The invariant. *)

\* Every step keeps the counters exact and the waiting readers and writers owed a count.
LEMMA CountersStep ==
  ASSUME TypeOK, SemConsistent(Acquiring, Releasing), Counters, [Next]_vars
  PROVE  Counters'
<1>1. CASE UNCHANGED vars
  <2>1. /\ semval' = semval /\ sst' = sst /\ readerCount' = readerCount /\ readerWait' = readerWait
        /\ w' = w /\ pc' = pc /\ r' = r
    BY <1>1 DEF vars, semvars
  <2>2. Announced' = Announced /\ Owed' = Owed /\ Ahead' = Ahead /\ WriterWakeups' = WriterWakeups
        /\ N("rsem")' = N("rsem") /\ N("read")' = N("read") /\ N("rslow")' = N("rslow")
    BY <2>1 DEF Announced, Owed, Ahead, WriterWakeups, Wakers, N
  <2>3. QED
    BY <2>1, <2>2 DEF Counters, NoThrow, HolderOfW, ReaderCountIsExact, OwedToReaders,
                      ReadersToRelease, ReaderWaitIsExact, OneWriterWakeup
<1>2. ASSUME NEW g \in Goroutines, RLock(g) \/ Lock(g) \/ ReadStep(g) \/ WriteStep(g)
      PROVE  Counters'
  <2>1. CASE RLock(g)
    BY <2>1, RLockCounters
  <2>2. CASE Lock(g) \/ RUnlockReturn(g)
    BY <2>2, NeutralCounters
  <2>3. CASE RLockSleep(g) \/ LockSleep(g)
    <3>1. /\ UNCHANGED <<semval, readerCount, readerWait, w, pc, r>>
          /\ pc[g] \in {"rsem", "wsem"}
      BY <2>3 DEF RLockSleep, LockSleep, SemPark
    <3>2. QED  BY <1>2, <3>1, QuietCounters
  <2>4. CASE RLockAwake(g)
    BY <2>4, RLockAwakeCounters
  <2>5. CASE RUnlock(g)
    BY <2>5, RUnlockCounters
  <2>6. CASE RUnlockSlow(g)
    BY <2>6, RUnlockSlowCounters
  <2>7. CASE RUnlockRelease(g)
    BY <2>7, RUnlockReleaseCounters
  <2>8. CASE LockW(g)
    BY <2>8, LockWCounters
  <2>9. CASE Announce(g)
    BY <2>9, AnnounceCounters
  <2>10. CASE LockWait(g)
    BY <2>10, LockWaitCounters
  <2>11. CASE LockAwake(g)
    BY <2>11, LockAwakeCounters
  <2>12. CASE Unlock(g)
    BY <2>12, UnlockCounters
  <2>13. CASE UnlockRelease(g)
    BY <2>13, UnlockReleaseCounters
  <2>14. CASE UnlockReturn(g)
    BY <2>14, UnlockReturnCounters
  <2>15. CASE UnlockW(g)
    BY <2>15, UnlockWCounters
  <2>16. QED
    BY <1>2, <2>1, <2>2, <2>3, <2>4, <2>5, <2>6, <2>7, <2>8, <2>9, <2>10, <2>11, <2>12, <2>13,
       <2>14, <2>15 DEF ReadStep, WriteStep
<1>3. QED  BY <1>1, <1>2 DEF Next

\* The counters bound themselves: no arithmetic on them leaves the range of its type.
LEMMA CountersBounded ==
  ASSUME Counters', semval' \in [Addr -> Nat], w' \in Goroutines \cup {None},
         r' \in [Goroutines -> 0 .. MaxReaders], readerWait' \in Int
  PROVE  /\ readerCount' \in -MaxReaders .. MaxReaders - 1
         /\ readerWait' \in -MaxReaders .. MaxReaders
<1>1. /\ N("rsem")' \in Nat /\ N("read")' \in Nat /\ N("rslow")' \in Nat
      /\ N("rsem")' + N("read")' + N("rslow")' < MaxReaders
  BY CountsAdd DEF N
<1>2. MaxReaders \in Nat /\ readerCount' \in -MaxReaders .. MaxReaders - 1
  BY <1>1, RWMutexAssumption DEF Counters, ReaderCountIsExact
<1>3. Owed' \in Nat /\ Owed' <= N("rsem")'
  BY RWMutexAssumption DEF Owed, Counters, OwedToReaders
<1>4. Ahead' \in 0 .. MaxReaders
  BY <1>1, <1>2, <1>3 DEF Ahead
<1>5. CASE ~Announced'
  BY <1>1, <1>2, <1>5 DEF Counters, OwedToReaders
<1>6. CASE Announced'
  <2>1. w' \in Goroutines /\ r'[w'] \in 0 .. MaxReaders /\ pc'[w'] \in {"wait", "wsem", "write"}
    BY <1>6 DEF Announced
  <2>2. QED  BY <1>1, <1>2, <1>4, <1>6, <2>1 DEF Counters, ReaderWaitIsExact
<1>7. QED  BY <1>5, <1>6

\* Every step keeps the types.
LEMMA TypesStep ==
  ASSUME TypeOK, SemConsistent(Acquiring, Releasing), Counters, [Next]_vars
  PROVE  TypeOK'
<1>1. SemTypeOK' /\ Counters'
  BY NextSem, CountersStep
<1>2. /\ w' \in Goroutines \cup {None} /\ pc' \in [Goroutines -> PCs] /\ readerWait' \in Int
      /\ r' \in [Goroutines -> 0 .. MaxReaders]
  <2>1. CASE UNCHANGED vars
    BY <2>1, CountersSay DEF vars, TypeOK
  <2>2. ASSUME NEW g \in Goroutines, RLock(g) \/ Lock(g) \/ ReadStep(g) \/ WriteStep(g)
        PROVE  /\ w' \in Goroutines \cup {None} /\ pc' \in [Goroutines -> PCs] /\ readerWait' \in Int
               /\ r' \in [Goroutines -> 0 .. MaxReaders]
    <3>1. pc' \in [Goroutines -> PCs]
      BY <2>2 DEF ReadStep, WriteStep, RLock, RLockSleep, RLockAwake, RUnlock, RUnlockSlow,
                  RUnlockRelease, RUnlockReturn, Lock, LockW, Announce, LockWait, LockSleep, LockAwake,
                  Unlock, UnlockRelease, UnlockReturn, UnlockW, PCs, TypeOK
    <3>2. w' \in Goroutines \cup {None}
      BY <2>2 DEF ReadStep, WriteStep, RLock, RLockSleep, RLockAwake, RUnlock, RUnlockSlow,
                  RUnlockRelease, RUnlockReturn, Lock, LockW, Announce, LockWait, LockSleep, LockAwake,
                  Unlock, UnlockRelease, UnlockReturn, UnlockW, TypeOK
    <3>3. readerWait \in Int /\ readerCount \in Int /\ MaxReaders \in Nat /\ r[g] \in 0 .. MaxReaders
      BY CountersSay DEF TypeOK
    <3>4. readerWait' \in Int
      <4>1. CASE LockWait(g)
        BY <3>3, <4>1 DEF LockWait
      <4>2. CASE RUnlockSlow(g)
        BY <3>3, <4>2 DEF RUnlockSlow
      <4>3. CASE ~LockWait(g) /\ ~RUnlockSlow(g)
        <5>1. readerWait' = readerWait
          BY <2>2, <4>3 DEF ReadStep, WriteStep, RLock, RLockSleep, RLockAwake, RUnlock,
                  RUnlockRelease, RUnlockReturn, Lock, LockW, Announce, LockSleep, LockAwake,
                  Unlock, UnlockRelease, UnlockReturn, UnlockW
        <5>2. QED  BY <3>3, <5>1
      <4>4. QED  BY <4>1, <4>2, <4>3
    <3>5. r' = r \/ \E n \in 0 .. MaxReaders : r' = [r EXCEPT ![g] = n]
      <4>1. CASE Announce(g)
        <5>1. ~Announced
          BY <4>1 DEF Announce, Counters, HolderOfW, Announced
        <5>2. readerCount \in 0 .. MaxReaders
          BY <5>1, CountersSay DEF Counters, ReaderCountIsExact
        <5>3. QED  BY <4>1, <5>2 DEF Announce
      <4>2. CASE Unlock(g)
        <5>1. readerCount + MaxReaders \in 0 .. MaxReaders \/ r' = r
          BY <3>3, <4>2 DEF Unlock, TypeOK
        <5>2. QED  BY <4>2, <5>1 DEF Unlock
      <4>3. CASE UnlockRelease(g)
        <5>1. SemInc(g, ReaderSem) => r[g] > 0
          BY <4>3 DEF UnlockRelease, SemInc, Counters, ReadersToRelease
        <5>2. SemInc(g, ReaderSem) => r[g] - 1 \in 0 .. MaxReaders
          BY <3>3, <5>1
        <5>3. QED  BY <4>3, <5>2 DEF UnlockRelease
      <4>4. CASE LockWait(g)
        <5>1. r' = [r EXCEPT ![g] = 0] /\ 0 \in 0 .. MaxReaders
          BY <3>3, <4>4 DEF LockWait
        <5>2. QED  BY <5>1
      <4>5. QED
        BY <2>2, <4>1, <4>2, <4>3, <4>4
           DEF ReadStep, WriteStep, RLock, RLockSleep, RLockAwake, RUnlock, RUnlockSlow,
               RUnlockRelease, RUnlockReturn, Lock, LockW, LockSleep, LockAwake, UnlockReturn, UnlockW
    <3>6. r' \in [Goroutines -> 0 .. MaxReaders]
      BY <3>5 DEF TypeOK
    <3>7. QED  BY <3>1, <3>2, <3>4, <3>6
  <2>3. QED  BY <2>1, <2>2 DEF Next
<1>3. semval' \in [Addr -> Nat]
  BY <1>1 DEF SemTypeOK
<1>4. /\ readerCount' \in -MaxReaders .. MaxReaders - 1
      /\ readerWait' \in -MaxReaders .. MaxReaders
  BY <1>1, <1>2, <1>3, CountersBounded
<1>5. QED  BY <1>1, <1>2, <1>4 DEF TypeOK

\* The zero RWMutex satisfies the invariant.
LEMMA InitIInv == Init => IInv
<1> SUFFICES ASSUME Init  PROVE  IInv
  OBVIOUS
<1> USE DEF Init, SemInit
<1>1. SemTypeOK
  BY DEF SemTypeOK, SemStates
<1>2. MaxReaders \in Nat \ {0}
  BY RWMutexAssumption, FS_CardinalityType
<1>3. TypeOK
  BY <1>1, <1>2 DEF TypeOK, PCs
<1>4. N("rsem") = 0 /\ N("read") = 0 /\ N("rslow") = 0
  BY CountZero
<1>5. Owed = 0 /\ ~Announced
  BY RWMutexAssumption DEF Owed, Announced
<1>6. WriterWakeups = 0
  <2>1. Wakers = {}
    BY DEF Wakers
  <2>2. Cardinality(Wakers) = 0
    BY <2>1, FS_EmptySet
  <2>3. QED  BY <2>2, RWMutexAssumption DEF WriterWakeups
<1>7. Counters
  BY <1>4, <1>5, <1>6, NoneAssumption
     DEF Counters, NoThrow, HolderOfW, ReaderCountIsExact, OwedToReaders, ReadersToRelease,
         ReaderWaitIsExact, OneWriterWakeup
<1>8. RolesConsistent(Acquiring, Releasing) /\ WakeesConsistent
  BY NoneAssumption DEF RolesConsistent, WakeesConsistent
<1>9. QueuesConsistent(Acquiring) /\ CountsMoving(Acquiring, Releasing)
  BY DEF QueuesConsistent, CountsMoving, Range, IsInjective
<1>10. QED  BY <1>3, <1>7, <1>8, <1>9 DEF IInv, Counters, SemConsistent

\* Every step preserves the invariant.
LEMMA NextIInv == IInv /\ [Next]_vars => IInv'
<1> SUFFICES ASSUME IInv, [Next]_vars  PROVE  IInv'
  OBVIOUS
<1>1. TypeOK /\ Counters /\ SemConsistent(Acquiring, Releasing)
  BY DEF IInv, Counters
<1>2. TypeOK' /\ Counters' /\ SemConsistent(Acquiring, Releasing)'
  BY <1>1, NextSem, CountersStep, TypesStep
<1>3. QED  BY <1>2 DEF IInv, Counters

\* With a writer inside there are no readers, since none are ahead of it.
LEMMA IInvExcludes == IInv => Exclusion
<1> SUFFICES ASSUME IInv, NEW g \in Goroutines, NEW h \in Goroutines, pc[g] = "write",
                    pc[h] \in {"read", "write"}
             PROVE  g = h
  BY DEF Exclusion
<1>1. w = g /\ Announced /\ TypeOK
  BY NoneAssumption DEF IInv, HolderOfW, Announced
<1>2. Ahead = 0
  BY <1>1 DEF IInv, ReaderWaitIsExact
<1>3. N("read") = 0
  BY <1>1, <1>2, CountersSay DEF Ahead
<1>4. pc[h] = "write"
  BY <1>3, CountZero
<1>5. QED  BY <1>1, <1>4 DEF IInv, HolderOfW

-----------------------------------------------------------------------------
(* The theorems. *)

\* The inductive invariant: readerCount and readerWait count exactly the readers
\* they stand for, each waiting reader is owed a count or behind a writer, and an
\* announced writer is woken once, when nobody is ahead of it.
THEOREM Invariance == Spec => []IInv
BY InitIInv, NextIInv, PTL DEF Spec

\* The counters keep their ranges: readerCount never reaches rwmutexMaxReaders or
\* passes its negation, so that its sign tells whether a writer is pending.
THEOREM TypeCorrectness == Spec => []TypeOK
<1>1. IInv => TypeOK
  BY DEF IInv
<1>2. QED  BY <1>1, Invariance, PTL

\* "The lock can be held by an arbitrary number of readers or a single writer."
THEOREM ReadersOrOneWriter == Spec => []Exclusion
BY IInvExcludes, Invariance, PTL

\* Callers that unlock what they hold never meet "RUnlock of unlocked RWMutex" or
\* "Unlock of unlocked RWMutex".
THEOREM NeverThrows == Spec => []NoThrow
<1>1. IInv => NoThrow
  BY DEF IInv
<1>2. QED  BY <1>1, Invariance, PTL

\* No reader and no writer sleeps on when nobody is left to wake it.
THEOREM NoLostWakeup == Spec => []NoStrandedSleeper
<1>1. IInv => NoStrandedSleeper
  <2> SUFFICES ASSUME IInv, \A g \in Goroutines : pc[g] \in {"idle", "wlock"} \/ Asleep(g)
               PROVE  \A g \in Goroutines : ~Asleep(g)
    BY DEF NoStrandedSleeper
  <2>1. /\ TypeOK /\ SemTypeOK /\ Counters /\ SemConsistent(Acquiring, Releasing)
    BY DEF IInv, Counters, TypeOK
  <2>2. \A g \in Goroutines : sst[g] \in {"running", "parked", "dequeued"}
    <3>1. \A g \in Goroutines : pc[g] \in {"idle", "wlock"} => sst[g] = "running"
      BY <2>1, OutsideSem, NoneAssumption DEF Acquiring, Releasing
    <3>2. QED  BY <3>1 DEF Asleep
  <2>3. \A g \in Goroutines :
          sst[g] = "running" \/ (sst[g] = "parked" /\ Acquiring[g] \in Addr /\ semval[Acquiring[g]] = 0)
    BY <2>1, <2>2, AllAsleep
  <2>4. \A g \in Goroutines :
          \/ pc[g] \in {"idle", "wlock"} /\ ~Asleep(g)
          \/ pc[g] = "rsem" /\ semval[ReaderSem] = 0
          \/ pc[g] = "wsem" /\ semval[WriterSem] = 0
    <3>1. \A g \in Goroutines :
            \/ pc[g] \in {"idle", "wlock"}
            \/ pc[g] = "rsem" /\ semval[ReaderSem] = 0
            \/ pc[g] = "wsem" /\ semval[WriterSem] = 0
      BY <2>3, NoneAssumption DEF Acquiring, Asleep
    <3>2. \A g \in Goroutines : pc[g] \in {"idle", "wlock"} => ~Asleep(g)
      BY <2>3, NoneAssumption DEF Acquiring, Asleep
    <3>3. QED  BY <3>1, <3>2
  <2>5. N("read") = 0 /\ N("rslow") = 0
    BY <2>4, CountZero
  <2>6. Cardinality(Wakers) = 0
    <3>1. Wakers = {}
      BY <2>4 DEF Wakers
    <3>2. QED  BY <3>1, FS_EmptySet
  <2>7. w # None => pc[w] = "wsem" /\ semval[WriterSem] = 0
    BY <2>1, <2>4 DEF TypeOK, Counters, HolderOfW
  <2>8. Owed = semval[ReaderSem]
    BY <2>1, <2>7, CountersSay DEF Owed
  <2>9. Owed = 0
    <3>1. CASE N("rsem") = 0
      BY <2>1, <3>1, CountersSay DEF Counters, OwedToReaders
    <3>2. CASE N("rsem") # 0
      <4>1. semval[ReaderSem] = 0
        BY <2>4, <3>2, CountZero
      <4>2. QED  BY <2>8, <4>1
    <3>3. QED  BY <3>1, <3>2
  <2>10. w = None
    <3>1. Ahead = 0
      BY <2>5, <2>9 DEF Ahead
    <3>2. w # None => WriterWakeups = 0
      BY <2>6, <2>7 DEF WriterWakeups
    <3>3. QED  BY <2>1, <2>7, <3>1, <3>2 DEF Counters, OneWriterWakeup
  <2>11. N("rsem") = 0
    BY <2>1, <2>9, <2>10 DEF Counters, OwedToReaders, Announced
  <2>12. \A g \in Goroutines : pc[g] \notin {"rsem", "wsem"}
    BY <2>1, <2>10, <2>11, CountZero, NoneAssumption DEF Counters, HolderOfW
  <2>13. QED  BY <2>4, <2>12
<1>2. QED  BY <1>1, Invariance, PTL

\* The RWMutex is a readers-writer lock: each step of a reader or a writer takes
\* or leaves the abstract lock, or changes nothing that it speaks of.
THEOREM Refinement == Spec => ImplementsRWLock
<1> DEFINE R == {g \in Goroutines : pc[g] = "read"}
           W == {g \in Goroutines : pc[g] = "write"}
<1>1. Init => Abstract!Init
  BY DEF Init, Abstract!Init
<1>2. IInv /\ [Next]_vars => [Abstract!Next]_(Abstract!vars)
  <2> SUFFICES ASSUME IInv, [Next]_vars
               PROVE  Abstract!Next \/ UNCHANGED Abstract!vars
    OBVIOUS
  <2>1. TypeOK /\ Exclusion
    BY IInvExcludes DEF IInv
  <2>2. Exclusion'
    <3>1. IInv'
      BY NextIInv
    <3>2. IInv' => Exclusion'
      BY IInvExcludes, PTL
    <3>3. QED  BY <3>1, <3>2
  <2>3. CASE UNCHANGED vars
    BY <2>3 DEF vars, Abstract!vars
  <2>4. ASSUME NEW g \in Goroutines, RLock(g) \/ Lock(g) \/ ReadStep(g) \/ WriteStep(g)
        PROVE  Abstract!Next \/ UNCHANGED <<R, W>>
    <3>1. PICK to \in PCs : pc' = [pc EXCEPT ![g] = to]
      BY <2>1, <2>4 DEF ReadStep, WriteStep, RLock, RLockSleep, RLockAwake, RUnlock, RUnlockSlow,
              RUnlockRelease, RUnlockReturn, Lock, LockW, Announce, LockWait, LockSleep, LockAwake,
              Unlock, UnlockRelease, UnlockReturn, UnlockW, PCs, TypeOK
    <3>2. /\ R' = IF to = "read" THEN R \cup {g} ELSE R \ {g}
          /\ W' = IF to = "write" THEN W \cup {g} ELSE W \ {g}
          /\ g \in R <=> pc[g] = "read"
          /\ g \in W <=> pc[g] = "write"
      BY <2>1, <3>1 DEF TypeOK
    <3>3. /\ g \in R /\ to # "read" => W' = W
          /\ g \in W /\ to # "write" => R' = R
          /\ to = "read" => g \notin W
          /\ to = "write" => g \notin R
      BY <2>1, <2>2, <2>4, <3>1, <3>2 DEF TypeOK, ReadStep, WriteStep, RLock, RLockSleep, RLockAwake,
              RUnlock, RUnlockSlow, RUnlockRelease, RUnlockReturn, Lock, LockW, Announce, LockWait,
              LockSleep, LockAwake, Unlock, UnlockRelease, UnlockReturn, UnlockW
    <3>4. CASE to = "read" /\ pc[g] # "read"
      <4>1. pc'[g] = "read"
        BY <2>1, <3>1, <3>4 DEF TypeOK
      <4>2. W' = {}
        BY <2>2, <4>1 DEF Exclusion
      <4>3. W = {} /\ W' = W
        BY <3>2, <3>3, <3>4, <4>2
      <4>4. Abstract!RLock(g)
        BY <3>2, <3>4, <4>3 DEF Abstract!RLock
      <4>5. QED  BY <4>4 DEF Abstract!Next
    <3>5. CASE to = "write" /\ pc[g] # "write"
      <4>1. pc'[g] = "write"
        BY <2>1, <3>1, <3>5 DEF TypeOK
      <4>2. R' = {} /\ W' = {g}
        BY <2>2, <4>1 DEF Exclusion
      <4>3. R = {} /\ R' = R /\ W = {}
        BY <3>2, <3>3, <3>5, <4>2
      <4>4. Abstract!Lock(g)
        BY <3>2, <3>5, <4>3 DEF Abstract!Lock
      <4>5. QED  BY <4>4 DEF Abstract!Next
    <3>6. CASE to # "read" /\ pc[g] = "read"
      <4>1. Abstract!RUnlock(g)
        BY <3>2, <3>3, <3>6 DEF Abstract!RUnlock
      <4>2. QED  BY <4>1 DEF Abstract!Next
    <3>7. CASE to # "write" /\ pc[g] = "write"
      <4>1. Abstract!Unlock(g)
        BY <3>2, <3>3, <3>7 DEF Abstract!Unlock
      <4>2. QED  BY <4>1 DEF Abstract!Next
    <3>8. CASE (to = "read" <=> pc[g] = "read") /\ (to = "write" <=> pc[g] = "write")
      BY <3>2, <3>8
    <3>9. QED  BY <3>4, <3>5, <3>6, <3>7, <3>8
  <2>5. QED  BY <2>3, <2>4 DEF Next, Abstract!vars
<1>3. QED  BY <1>1, <1>2, Invariance, PTL DEF Spec, ImplementsRWLock, Abstract!Spec

-----------------------------------------------------------------------------
(***************************************************************************)
(*                               WaitGroup                                 *)
(***************************************************************************)
USE DEF Move

-----------------------------------------------------------------------------
(* What every step does. *)

\* A step moves the control point of its goroutine and of no other one, and
\* changes no local variable of another one.
LEMMA StepMoves ==
  ASSUME WGTypeOK, NEW g \in Goroutines, Begin(g) \/ Step(g)
  PROVE  /\ \E to \in WGPCs : wgpc' = [wgpc EXCEPT ![g] = to]
         /\ \A h \in Goroutines \ {g} : wgpc'[h] = wgpc[h] /\ old'[h] = old[h] /\ WGOwed(h)' = WGOwed(h)
<1>1. \E to \in WGPCs : wgpc' = [wgpc EXCEPT ![g] = to]
  BY DEF WGTypeOK, Begin, Step, Add, Wait, Done, DoneCheck, DoneReset, DoneRelease, DoneReturn,
         WaitLoad, WaitCAS, WaitSleep, WaitAwake, WaitReturn, WGPCs
<1>2. old' = old \/ \E x : old' = [old EXCEPT ![g] = x]
  BY DEF Begin, Step, Add, Wait, Done, DoneCheck, DoneReset, DoneRelease, DoneReturn,
         WaitLoad, WaitCAS, WaitSleep, WaitAwake, WaitReturn
<1>3. \A h \in Goroutines \ {g} : wgpc'[h] = wgpc[h] /\ old'[h] = old[h]
  BY <1>1, <1>2 DEF WGTypeOK
<1>4. QED  BY <1>1, <1>3 DEF WGOwed

\* Each step is at most one step of the semaphore, in the role that the control
\* point says.
LEMMA StepSem ==
  ASSUME NEW g \in Goroutines, Begin(g) \/ Step(g)
  PROVE  SemStep(g, Sema, WGAcquiring, WGReleasing)
<1>1. CASE WaitSleep(g) \/ WaitAwake(g)
  BY <1>1 DEF WaitSleep, WaitAwake, SemStep, WGAcquiring
<1>2. CASE DoneRelease(g) \/ DoneReturn(g)
  BY <1>2 DEF DoneRelease, DoneReturn, SemStep, WGReleasing
<1>3. CASE Begin(g) \/ DoneCheck(g) \/ DoneReset(g) \/ WaitLoad(g) \/ WaitCAS(g) \/ WaitReturn(g)
  BY <1>3 DEF Begin, Add, Wait, Done, DoneCheck, DoneReset, WaitLoad, WaitCAS, WaitReturn, SemStep
<1>4. QED  BY <1>1, <1>2, <1>3 DEF Step

\* The rules that a semaphore's clients rely on go on to hold.
LEMMA WGNextSem ==
  ASSUME WGTypeOK, SemConsistent(WGAcquiring, WGReleasing), NEW g \in Goroutines, Begin(g) \/ Step(g)
  PROVE  SemTypeOK' /\ SemConsistent(WGAcquiring, WGReleasing)'
<1>1. SemTypeOK /\ Sema \in Addr /\ IsFiniteSet(Goroutines)
  BY WaitGroupAssumption DEF WGTypeOK
<1>2. wgpc[g] \notin {"sem", "rel"} => sst[g] = "running"
  BY <1>1, OutsideSem, NoneAssumption DEF WGAcquiring, WGReleasing
<1>3. wgpc'[g] = wgpc[g] \/ sst'[g] = "running"
  <2>1. CASE WaitAwake(g)
    BY <1>1, <2>1 DEF WaitAwake, SemTake, SemTypeOK
  <2>2. CASE DoneReturn(g)
    BY <1>1, <2>2, WakeeIsDequeued
       DEF DoneReturn, SemNoWaiter, SemReady, SemConsistent, SemTypeOK
  <2>3. CASE WaitSleep(g) \/ DoneRelease(g)
    BY <2>3 DEF WaitSleep, DoneRelease
  <2>4. CASE Begin(g) \/ DoneCheck(g) \/ DoneReset(g) \/ WaitLoad(g) \/ WaitCAS(g) \/ WaitReturn(g)
    <3>1. UNCHANGED semvars /\ wgpc[g] \notin {"sem", "rel"}
      BY <2>4 DEF Begin, Add, Wait, Done, DoneCheck, DoneReset, WaitLoad, WaitCAS, WaitReturn
    <3>2. QED  BY <1>2, <3>1 DEF semvars
  <2>5. QED  BY <2>1, <2>2, <2>3, <2>4 DEF Step
<1>4. KeepsRoles(WGAcquiring, WGReleasing, WGAcquiring', WGReleasing')
  BY <1>3, StepMoves DEF KeepsRoles, WGAcquiring, WGReleasing
<1>5. QED  BY <1>1, <1>4, StepSem, SemStepConsistent

\* Nobody else enters or leaves the semaphore, and the sleepers change by one.
LEMMA StepSleepers ==
  ASSUME WGTypeOK, SemConsistent(WGAcquiring, WGReleasing), NEW g \in Goroutines, Begin(g) \/ Step(g)
  PROVE  /\ \A h \in Goroutines \ {g} : sst'[h] = "running" <=> sst[h] = "running"
         /\ Cardinality(Sleepers) \in Nat
         /\ Cardinality(Sleepers)' = Cardinality(Sleepers) - (IF wgpc[g] = "sem" THEN 1 ELSE 0)
                                                           + (IF wgpc'[g] = "sem" THEN 1 ELSE 0)
<1>1. \A h \in Goroutines \ {g} : sst'[h] = "running" <=> sst[h] = "running"
  BY StepSem, OthersKeepRunning, WaitGroupAssumption DEF WGTypeOK
<1> DEFINE S == Sleepers
           T == Sleepers'
<1>2. IsFiniteSet(S)
  BY WaitGroupAssumption, FS_Subset DEF Sleepers
<1>3. /\ \A h : h # g => (h \in T <=> h \in S)
      /\ g \in S <=> wgpc[g] = "sem"
      /\ g \in T <=> wgpc'[g] = "sem"
  BY StepMoves DEF Sleepers
<1> HIDE DEF S, T
<1>4. /\ Cardinality(S) \in Nat
      /\ Cardinality(T) = Cardinality(S) - (IF g \in S THEN 1 ELSE 0) + (IF g \in T THEN 1 ELSE 0)
  BY <1>2, <1>3, OneMoves
<1>5. Cardinality(Sleepers)' = Cardinality(T)
  BY DEF T
<1>6. QED  BY <1>1, <1>3, <1>4, <1>5 DEF S

-----------------------------------------------------------------------------
(* The rounds. *)

Rounds ==
  /\ \A g \in Goroutines : wgpc[g] # "panic"
  /\ CounterIsExact /\ OneAddEndsTheRound /\ WordIsZero
  /\ SleepersAreCounted /\ WaitersToRelease /\ CASNeedsCounter

\* What the types say of the numbers.
LEMMA Numbers ==
  ASSUME WGTypeOK
  PROVE  /\ counter \in Nat /\ waiters \in Nat /\ semval[Sema] \in Nat
         /\ \A g \in Goroutines : old[g][1] \in Nat /\ old[g][2] \in Nat /\ WGOwed(g) \in Nat
         /\ Cardinality(Goroutines) \in Nat
         /\ \A g \in Goroutines : old[g] = <<old[g][1], old[g][2]>>
<1>1. Cardinality(Goroutines) \in Nat
  BY WaitGroupAssumption, FS_CardinalityType
<1>2. counter \in Nat /\ waiters \in Nat /\ semval[Sema] \in Nat
  BY <1>1, WaitGroupAssumption DEF WGTypeOK, SemTypeOK
<1>3. ASSUME NEW g \in Goroutines
      PROVE  /\ old[g][1] \in Nat /\ old[g][2] \in Nat /\ WGOwed(g) \in Nat
             /\ old[g] = <<old[g][1], old[g][2]>>
  BY <1>1 DEF WGTypeOK, WGOwed
<1>4. QED  BY <1>1, <1>2, <1>3

\* Until the last waiter of a round has returned, somebody is in Wait.
LEMMA SomebodyWaits ==
  ASSUME WGTypeOK, Rounds,
         waiters > 0 \/ semval[Sema] > 0 \/ \E g \in Goroutines : WGOwed(g) > 0 \/ wgpc[g] = "woken"
  PROVE  \E h \in Goroutines : InWait(h)
<1>1. CASE \E g \in Goroutines : wgpc[g] = "woken"
  BY <1>1 DEF InWait
<1>2. CASE waiters > 0 \/ semval[Sema] > 0 \/ \E g \in Goroutines : WGOwed(g) > 0
  <2>1. Cardinality(Sleepers) # 0
    <3>1. CASE \A g \in Goroutines : WGOwed(g) = 0
      BY <1>2, <3>1, Numbers DEF Rounds, SleepersAreCounted
    <3>2. CASE \E g \in Goroutines : WGOwed(g) # 0
      BY <3>2, Numbers DEF Rounds, SleepersAreCounted
    <3>3. QED  BY <3>1, <3>2
  <2>2. Sleepers # {}
    BY <2>1, FS_EmptySet
  <2>3. QED  BY <2>2 DEF Sleepers, InWait
<1>3. QED  BY <1>1, <1>2

\* With the counter at zero nobody is at work.
LEMMA NobodyWorks ==
  ASSUME WGTypeOK, Rounds
  PROVE  /\ IsFiniteSet(working) /\ (counter = 0 <=> working = {})
         /\ counter = 0 => \A g \in Goroutines : awaited[g] = {}
<1>1. IsFiniteSet(working)
  BY WaitGroupAssumption, FS_Subset DEF WGTypeOK
<1>2. QED  BY <1>1, FS_EmptySet DEF Rounds, CounterIsExact

\* A step that moves no count, no worker and no waiter.
LEMMA NeutralRounds ==
  ASSUME WGTypeOK, SemConsistent(WGAcquiring, WGReleasing), Rounds, NEW g \in Goroutines, Begin(g) \/ Step(g),
         counter' = counter, waiters' = waiters, semval' = semval, working' = working,
         \A h \in Goroutines : awaited'[h] \subseteq working,
         WGOwed(g)' = WGOwed(g), wgpc'[g] = "sem" <=> wgpc[g] = "sem",
         wgpc[g] \notin {"check", "reset"}, wgpc'[g] \notin {"panic", "check", "reset"},
         wgpc'[g] = "woken" => wgpc[g] = "woken",
         g \in working => wgpc'[g] = "idle",
         wgpc'[g] = "cas" => old'[g][1] > 0,
         wgpc'[g] = "rel" /\ sst'[g] = "running" => old'[g][2] > 0
  PROVE  Rounds'
<1>1. /\ \A h \in Goroutines \ {g} : wgpc'[h] = wgpc[h] /\ old'[h] = old[h]
      /\ \A h \in Goroutines \ {g} : sst'[h] = "running" <=> sst[h] = "running"
      /\ \A h \in Goroutines : WGOwed(h)' = WGOwed(h)
  BY StepMoves, StepSleepers
<1>2. Cardinality(Sleepers)' = Cardinality(Sleepers)
  BY StepSleepers
<1>3. (\A h \in Goroutines : wgpc[h] # "panic")' /\ CounterIsExact'
  BY <1>1 DEF Rounds, CounterIsExact
<1>4. OneAddEndsTheRound'
  BY <1>1 DEF Rounds, OneAddEndsTheRound, word
<1>5. WordIsZero' /\ SleepersAreCounted'
  BY <1>1, <1>2 DEF Rounds, WordIsZero, SleepersAreCounted
<1>6. WaitersToRelease' /\ CASNeedsCounter'
  BY <1>1 DEF Rounds, WaitersToRelease, CASNeedsCounter
<1>7. QED  BY <1>3, <1>4, <1>5, <1>6 DEF Rounds

\* Steps of Wait and the loop of Done that neither end a round nor leave it.
LEMMA NeutralSteps ==
  ASSUME WGTypeOK, SemConsistent(WGAcquiring, WGReleasing), Rounds, NEW g \in Goroutines, Begin(g) \/ Step(g),
         \/ (g \notin working /\ Wait(g)) \/ WaitLoad(g) \/ WaitSleep(g) \/ WaitReturn(g) \/ DoneReturn(g)
         \/ (WaitCAS(g) /\ word # old[g]) \/ (DoneRelease(g) /\ SemDequeue(g, Sema))
  PROVE  Rounds'
<1>1. \A h \in Goroutines : awaited[h] \subseteq working
  BY DEF Rounds, CounterIsExact
<1>2. g \in working => wgpc[g] = "idle"
  BY DEF Rounds, CounterIsExact
<1> USE DEF WGOwed
<1>3. CASE g \notin working /\ Wait(g)
  <2>1. /\ counter' = counter /\ waiters' = waiters /\ semval' = semval /\ working' = working
        /\ old' = old /\ wgpc[g] = "idle" /\ wgpc'[g] = "load" /\ awaited' = [awaited EXCEPT ![g] = working]
    BY <1>3 DEF Wait, WGTypeOK, semvars
  <2>2. \A h \in Goroutines : awaited'[h] \subseteq working
    BY <1>1, <2>1 DEF WGTypeOK
  <2>3. QED  BY <1>3, <2>1, <2>2, NeutralRounds
<1>4. CASE WaitLoad(g)
  <2>1. /\ counter' = counter /\ waiters' = waiters /\ semval' = semval /\ working' = working
        /\ wgpc[g] = "load" /\ wgpc'[g] = (IF counter = 0 THEN "idle" ELSE "cas") /\ old'[g] = word
        /\ awaited' = awaited \/ awaited' = [awaited EXCEPT ![g] = {}]
    BY <1>4 DEF WaitLoad, WGTypeOK, semvars
  <2>2. \A h \in Goroutines : awaited'[h] \subseteq working
    BY <1>1, <2>1 DEF WGTypeOK
  <2>3. wgpc'[g] = "cas" => old'[g][1] > 0
    BY <2>1, Numbers DEF word
  <2>4. QED  BY <1>2, <2>1, <2>2, <2>3, NeutralRounds
<1>5. CASE WaitSleep(g)
  <2>1. /\ counter' = counter /\ waiters' = waiters /\ semval' = semval /\ working' = working
        /\ awaited' = awaited /\ old' = old /\ wgpc[g] = "sem" /\ wgpc' = wgpc
    BY <1>5 DEF WaitSleep, SemPark
  <2>2. QED  BY <1>1, <1>2, <2>1, NeutralRounds
<1>6. CASE WaitReturn(g)
  <2>1. word = <<0, 0>>
    BY <1>6 DEF WaitReturn, Rounds, WordIsZero, word
  <2>2. /\ counter' = counter /\ waiters' = waiters /\ semval' = semval /\ working' = working
        /\ awaited' = awaited /\ old' = old /\ wgpc[g] = "woken" /\ wgpc'[g] = "idle"
    BY <1>6, <2>1 DEF WaitReturn, WGTypeOK, semvars
  <2>3. QED  BY <1>1, <1>2, <2>2, NeutralRounds
<1>7. CASE DoneReturn(g)
  <2>1. /\ counter' = counter /\ waiters' = waiters /\ semval' = semval /\ working' = working
        /\ awaited' = awaited /\ old' = old /\ wgpc[g] = "rel"
        /\ wgpc'[g] = IF old[g][2] = 0 THEN "idle" ELSE "rel"
    BY <1>7 DEF DoneReturn, LoopDone, WGTypeOK, SemNoWaiter, SemReady
  <2>2. wgpc'[g] = "rel" => old'[g][2] > 0
    BY <2>1, Numbers
  <2>3. QED  BY <1>1, <1>2, <2>1, <2>2, NeutralRounds
<1>8. CASE WaitCAS(g) /\ word # old[g]
  <2>1. /\ counter' = counter /\ waiters' = waiters /\ semval' = semval /\ working' = working
        /\ awaited' = awaited /\ wgpc[g] = "cas" /\ wgpc'[g] = "load"
    BY <1>8 DEF WaitCAS, WGTypeOK, semvars
  <2>2. QED  BY <1>1, <1>2, <2>1, NeutralRounds
<1>9. CASE DoneRelease(g) /\ SemDequeue(g, Sema)
  <2>1. /\ counter' = counter /\ waiters' = waiters /\ semval' = semval /\ working' = working
        /\ awaited' = awaited /\ old' = old /\ wgpc[g] = "rel" /\ wgpc' = wgpc
    BY <1>9 DEF DoneRelease, SemDequeue, SemInc
  <2>2. sst'[g] # "running"
    <3>1. /\ Head(waitq[Sema]) \in Goroutines /\ sst[Head(waitq[Sema])] = "parked" /\ sst[g] = "xadded"
      BY <1>9, WaitGroupAssumption, FirstIsParked DEF SemDequeue, SemConsistent, WGTypeOK
    <3>2. QED  BY <1>9, <3>1 DEF SemDequeue, WGTypeOK, SemTypeOK
  <2>3. QED  BY <1>1, <1>2, <2>1, <2>2, NeutralRounds
<1>10. QED  BY <1>3, <1>4, <1>5, <1>6, <1>7, <1>8, <1>9

\* A positive Add: either the counter is positive, or nobody is in Wait, no round
\* is being ended, and no count is left over.
LEMMA AddRounds ==
  ASSUME WGTypeOK, SemConsistent(WGAcquiring, WGReleasing), Rounds, NEW g \in Goroutines,
         NEW S \in SUBSET Free, S # {}, Add(g, S)
  PROVE  Rounds' /\ counter' = Cardinality(working') /\ wgpc'[g] = "idle"
<1>1. Begin(g) \/ Step(g)
  BY DEF Begin
<1>2. waiters > 0 \/ semval[Sema] > 0 \/ (\E h \in Goroutines : WGOwed(h) > 0 \/ wgpc[h] = "woken")
        => counter > 0
  BY SomebodyWaits DEF Add
<1>3. IsFiniteSet(S) /\ S \cap working = {} /\ \A h \in S : wgpc[h] = "idle" /\ h \in Goroutines
  BY WaitGroupAssumption, FS_Subset DEF Free
<1>4. /\ Cardinality(S) \in Nat /\ Cardinality(S) # 0
      /\ Cardinality(working \cup S) = Cardinality(working) + Cardinality(S)
  BY <1>3, FS_CardinalityType, FS_EmptySet, DisjointUnion, NobodyWorks
<1>5. counter' = counter + Cardinality(S) /\ counter' > 0 /\ counter' = Cardinality(working')
  BY <1>4, Numbers DEF Add, Rounds, CounterIsExact
<1>6. /\ wgpc[g] = "idle" /\ wgpc' = wgpc
      /\ waiters' = waiters /\ semval' = semval /\ sst' = sst /\ old' = old /\ awaited' = awaited
      /\ working' = working \cup S
  <2>1. ~(waiters # 0 /\ counter' = Cardinality(S))
    BY <1>2, <1>4, <1>5, Numbers
  <2>2. wgpc[g] = "idle" /\ wgpc' = [wgpc EXCEPT ![g] = "idle"]
    BY <2>1 DEF Add
  <2>3. QED  BY <2>2 DEF Add, WGTypeOK, semvars
<1>7. Cardinality(Sleepers)' = Cardinality(Sleepers) /\ \A h \in Goroutines : WGOwed(h)' = WGOwed(h)
  BY <1>6 DEF Sleepers, WGOwed
<1>8. (\A h \in Goroutines : wgpc[h] # "panic")' /\ CounterIsExact'
  BY <1>3, <1>5, <1>6 DEF Rounds, CounterIsExact
<1>9. \A h \in Goroutines : wgpc[h] \notin {"check", "reset"}
  BY <1>2, Numbers DEF Rounds, OneAddEndsTheRound
<1>10. OneAddEndsTheRound'
  BY <1>5, <1>6, <1>7, <1>9, Numbers DEF Rounds, OneAddEndsTheRound
<1>11. WordIsZero'
  BY <1>2, <1>6, <1>7, Numbers DEF Rounds, WordIsZero
<1>12. SleepersAreCounted' /\ WaitersToRelease' /\ CASNeedsCounter'
  BY <1>6, <1>7 DEF Rounds, SleepersAreCounted, WaitersToRelease, CASNeedsCounter
<1>13. QED  BY <1>5, <1>6, <1>8, <1>10, <1>11, <1>12 DEF Rounds

\* Done: the worker that brings the counter to 0 with waiters ends the round.
LEMMA DoneRounds ==
  ASSUME WGTypeOK, SemConsistent(WGAcquiring, WGReleasing), Rounds, NEW g \in Goroutines,
         g \in working, Done(g)
  PROVE  Rounds' /\ counter' \in Nat /\ counter' <= counter
<1>1. Begin(g) \/ Step(g)
  BY DEF Begin
<1>2. /\ Cardinality(working \ {g}) = counter - 1 /\ counter > 0 /\ wgpc[g] = "idle"
  <2>1. Cardinality(working \ {g}) = counter - 1
    BY NobodyWorks, FS_RemoveElement DEF Rounds, CounterIsExact
  <2>2. counter # 0
    BY NobodyWorks
  <2>3. QED  BY <2>1, <2>2, Numbers DEF Rounds, CounterIsExact
<1>3. counter' = counter - 1 /\ counter' \in Nat
  BY <1>2, Numbers DEF Done
<1>4. /\ semval[Sema] = 0 /\ \A h \in Goroutines : WGOwed(h) = 0 /\ wgpc[h] \notin {"woken", "check", "reset"}
  BY <1>2, Numbers DEF Rounds, WordIsZero, OneAddEndsTheRound
<1>5. /\ waiters' = waiters /\ semval' = semval /\ working' = working \ {g}
      /\ awaited' = [h \in Goroutines |-> awaited[h] \ {g}]
      /\ wgpc'[g] = IF counter' = 0 /\ waiters # 0 THEN "check" ELSE "idle"
      /\ counter' = 0 /\ waiters # 0 => old'[g] = <<counter', waiters>>
  BY <1>3 DEF Done, Wakes, WGTypeOK, semvars
<1>6. /\ \A h \in Goroutines \ {g} : wgpc'[h] = wgpc[h] /\ old'[h] = old[h] /\ WGOwed(h)' = WGOwed(h)
      /\ \A h \in Goroutines \ {g} : sst'[h] = "running" <=> sst[h] = "running"
      /\ Cardinality(Sleepers)' = Cardinality(Sleepers)
  BY <1>1, <1>2, <1>5, StepMoves, StepSleepers
<1>7. \A h \in Goroutines : WGOwed(h)' = 0
  BY <1>4, <1>5, <1>6 DEF WGOwed
<1>8. (\A h \in Goroutines : wgpc[h] # "panic")'
  BY <1>5, <1>6 DEF Rounds
<1>9. CounterIsExact'
  BY <1>2, <1>3, <1>5, <1>6 DEF Rounds, CounterIsExact
<1>10. OneAddEndsTheRound'
  <2>1. \A h \in Goroutines : wgpc'[h] \in {"check", "reset"} => h = g /\ counter' = 0 /\ waiters' > 0 /\ old'[h] = word'
    BY <1>4, <1>5, <1>6, Numbers DEF word
  <2>2. counter' = 0 /\ waiters' > 0 => wgpc'[g] = "check"
    BY <1>5, Numbers
  <2>3. QED  BY <1>7, <2>1, <2>2 DEF OneAddEndsTheRound
<1>11. WordIsZero' /\ SleepersAreCounted'
  BY <1>4, <1>5, <1>6, <1>7 DEF Rounds, WordIsZero, SleepersAreCounted
<1>12. WaitersToRelease' /\ CASNeedsCounter'
  BY <1>5, <1>6 DEF Rounds, WaitersToRelease, CASNeedsCounter
<1>13. QED  BY <1>2, <1>3, <1>8, <1>9, <1>10, <1>11, <1>12, Numbers DEF Rounds

\* Add: nobody has touched the word since, so there is no panic.
LEMMA DoneCheckRounds ==
  ASSUME WGTypeOK, SemConsistent(WGAcquiring, WGReleasing), Rounds, NEW g \in Goroutines, DoneCheck(g)
  PROVE  Rounds'
<1>1. /\ wgpc[g] = "check" /\ wgpc' = [wgpc EXCEPT ![g] = "reset"] /\ old' = old
      /\ counter' = counter /\ waiters' = waiters /\ semval' = semval /\ sst' = sst
      /\ working' = working /\ awaited' = awaited
  BY DEF DoneCheck, semvars, Rounds, OneAddEndsTheRound
<1>2. /\ wgpc'[g] = "reset" /\ \A h \in Goroutines \ {g} : wgpc'[h] = wgpc[h]
      /\ \A h \in Goroutines : WGOwed(h)' = WGOwed(h)
  BY <1>1 DEF WGTypeOK, WGOwed
<1>3. Cardinality(Sleepers)' = Cardinality(Sleepers)
  BY <1>1, <1>2, StepSleepers DEF Step
<1>4. (\A h \in Goroutines : wgpc[h] # "panic")' /\ CounterIsExact'
  BY <1>1, <1>2 DEF Rounds, CounterIsExact
<1>5. OneAddEndsTheRound'
  BY <1>1, <1>2 DEF Rounds, OneAddEndsTheRound, word
<1>6. WordIsZero' /\ SleepersAreCounted' /\ WaitersToRelease' /\ CASNeedsCounter'
  BY <1>1, <1>2, <1>3
     DEF Rounds, WordIsZero, SleepersAreCounted, WaitersToRelease, CASNeedsCounter
<1>7. QED  BY <1>4, <1>5, <1>6 DEF Rounds

\* Add: what the word said of the waiters is owed to them from now on.
LEMMA DoneResetRounds ==
  ASSUME WGTypeOK, SemConsistent(WGAcquiring, WGReleasing), Rounds, NEW g \in Goroutines, DoneReset(g)
  PROVE  Rounds'
<1>1. /\ wgpc[g] = "reset" /\ wgpc' = [wgpc EXCEPT ![g] = "rel"] /\ old' = old
      /\ counter' = 0 /\ waiters' = 0 /\ semval' = semval /\ sst' = sst
      /\ working' = working /\ awaited' = awaited
  BY DEF DoneReset, semvars
<1>2. /\ counter = 0 /\ waiters > 0 /\ old[g][2] = waiters
      /\ \A h \in Goroutines : wgpc[h] \in {"check", "reset"} => h = g
  BY <1>1 DEF Rounds, OneAddEndsTheRound, word
<1>3. semval[Sema] = 0 /\ \A h \in Goroutines : WGOwed(h) = 0 /\ wgpc[h] # "woken"
  BY <1>2, Numbers DEF Rounds, WordIsZero
<1>4. /\ wgpc'[g] = "rel" /\ \A h \in Goroutines \ {g} : wgpc'[h] = wgpc[h]
      /\ \A h \in Goroutines : WGOwed(h)' = IF h = g THEN waiters ELSE 0
  BY <1>1, <1>2, <1>3 DEF WGTypeOK, WGOwed
<1>5. Cardinality(Sleepers)' = Cardinality(Sleepers)
  BY <1>1, <1>4, StepSleepers DEF Step
<1>6. (\A h \in Goroutines : wgpc[h] # "panic")' /\ CounterIsExact'
  BY <1>1, <1>2, <1>4 DEF Rounds, CounterIsExact
<1>7. OneAddEndsTheRound'
  BY <1>1, <1>2, <1>4 DEF OneAddEndsTheRound
<1>8. WordIsZero' /\ SleepersAreCounted'
  BY <1>1, <1>2, <1>3, <1>4, <1>5, Numbers DEF Rounds, WordIsZero, SleepersAreCounted
<1>9. WaitersToRelease' /\ CASNeedsCounter'
  BY <1>1, <1>2, <1>4 DEF Rounds, WaitersToRelease, CASNeedsCounter
<1>10. QED  BY <1>6, <1>7, <1>8, <1>9 DEF Rounds

\* Add: the count of the semaphore takes the place of an iteration of the loop.
LEMMA DoneReleaseRounds ==
  ASSUME WGTypeOK, SemConsistent(WGAcquiring, WGReleasing), Rounds, NEW g \in Goroutines,
         DoneRelease(g), SemInc(g, Sema)
  PROVE  Rounds' /\ old'[g] = <<0, old[g][2] - 1>> /\ old[g][2] > 0
<1>1. /\ wgpc[g] = "rel" /\ wgpc' = wgpc /\ old' = [old EXCEPT ![g] = <<0, @[2] - 1>>]
      /\ counter' = counter /\ waiters' = waiters /\ semval' = [semval EXCEPT ![Sema] = @ + 1]
      /\ working' = working /\ awaited' = awaited /\ sst[g] = "running"
  BY DEF DoneRelease, SemInc, SemDequeue
<1>2. /\ old[g][2] > 0 /\ old'[g] = <<0, old[g][2] - 1>> /\ semval'[Sema] = semval[Sema] + 1
      /\ sst'[g] = "xadded"
  BY <1>1, WaitGroupAssumption DEF WGTypeOK, SemTypeOK, SemInc, Rounds, WaitersToRelease
<1>3. /\ WGOwed(g) > 0 /\ WGOwed(g)' = WGOwed(g) - 1
      /\ \A h \in Goroutines \ {g} : WGOwed(h)' = WGOwed(h) /\ old'[h] = old[h]
      /\ \A h \in Goroutines \ {g} : sst'[h] = "running" <=> sst[h] = "running"
  BY <1>1, <1>2, StepMoves, StepSleepers DEF WGOwed, Step
<1>4. /\ \A h \in Goroutines \ {g} : WGOwed(h) = 0
      /\ counter = 0 /\ waiters = 0 /\ Cardinality(Sleepers) = WGOwed(g) + semval[Sema]
  BY <1>3, Numbers DEF Rounds, OneAddEndsTheRound, WordIsZero, SleepersAreCounted
<1>5. Cardinality(Sleepers)' = Cardinality(Sleepers)
  BY <1>1 DEF Sleepers
<1>6. (\A h \in Goroutines : wgpc[h] # "panic")' /\ CounterIsExact' /\ CASNeedsCounter'
  BY <1>1, <1>3 DEF Rounds, CounterIsExact, CASNeedsCounter
<1>7. OneAddEndsTheRound'
  <2>1. \A h \in Goroutines : wgpc[h] \notin {"check", "reset"}
    BY <1>4 DEF Rounds, OneAddEndsTheRound
  <2>2. \A h \in Goroutines : WGOwed(h)' > 0 => h = g
    BY <1>3, <1>4
  <2>3. QED  BY <1>1, <1>4, <2>1, <2>2 DEF OneAddEndsTheRound
<1>8. WordIsZero'
  BY <1>1, <1>4 DEF WordIsZero
<1>9. SleepersAreCounted'
  <2>1. \A h \in Goroutines : WGOwed(h)' > 0 => h = g
    BY <1>3, <1>4
  <2>2. Cardinality(Sleepers)' = WGOwed(g)' + semval'[Sema] /\ WGOwed(g)' \in Nat
    BY <1>2, <1>3, <1>4, <1>5, Numbers
  <2>3. QED  BY <1>1, <1>4, <2>1, <2>2 DEF SleepersAreCounted
<1>10. WaitersToRelease'
  BY <1>1, <1>2, <1>3 DEF Rounds, WaitersToRelease
<1>11. QED  BY <1>2, <1>6, <1>7, <1>8, <1>9, <1>10 DEF Rounds

\* Wait: a successful CAS adds a sleeper and a waiter, during the round only.
LEMMA WaitCASRounds ==
  ASSUME WGTypeOK, SemConsistent(WGAcquiring, WGReleasing), Rounds, NEW g \in Goroutines,
         WaitCAS(g), word = old[g]
  PROVE  Rounds'
<1>1. /\ wgpc[g] = "cas" /\ wgpc' = [wgpc EXCEPT ![g] = "sem"] /\ old' = [old EXCEPT ![g] = <<0, 0>>]
      /\ counter' = counter /\ waiters' = waiters + 1 /\ semval' = semval /\ sst' = sst
      /\ working' = working /\ awaited' = awaited
  BY DEF WaitCAS, semvars
<1>2. counter > 0
  BY <1>1 DEF Rounds, CASNeedsCounter, word
<1>3. /\ semval[Sema] = 0
      /\ \A h \in Goroutines : WGOwed(h) = 0 /\ wgpc[h] \notin {"woken", "check", "reset"}
  BY <1>2, Numbers DEF Rounds, WordIsZero, OneAddEndsTheRound
<1>4. /\ wgpc'[g] = "sem" /\ \A h \in Goroutines \ {g} : wgpc'[h] = wgpc[h] /\ old'[h] = old[h]
      /\ \A h \in Goroutines : WGOwed(h)' = 0
  BY <1>1, <1>3 DEF WGTypeOK, WGOwed
<1>5. Cardinality(Sleepers)' = Cardinality(Sleepers) + 1
  BY <1>1, <1>4, StepSleepers DEF Step
<1>6. (\A h \in Goroutines : wgpc[h] # "panic")' /\ CounterIsExact'
  BY <1>1, <1>4 DEF Rounds, CounterIsExact
<1>7. OneAddEndsTheRound' /\ WordIsZero'
  BY <1>1, <1>2, <1>3, <1>4 DEF OneAddEndsTheRound, WordIsZero
<1>8. SleepersAreCounted'
  BY <1>1, <1>3, <1>4, <1>5, Numbers DEF Rounds, SleepersAreCounted
<1>9. WaitersToRelease' /\ CASNeedsCounter'
  BY <1>1, <1>4 DEF Rounds, WaitersToRelease, CASNeedsCounter
<1>10. QED  BY <1>6, <1>7, <1>8, <1>9 DEF Rounds

\* Wait: a sleeper takes the count that it is owed.
LEMMA WaitAwakeRounds ==
  ASSUME WGTypeOK, SemConsistent(WGAcquiring, WGReleasing), Rounds, NEW g \in Goroutines, WaitAwake(g)
  PROVE  Rounds'
<1>1. /\ wgpc[g] = "sem" /\ wgpc' = [wgpc EXCEPT ![g] = "woken"] /\ old' = old
      /\ counter' = counter /\ waiters' = waiters /\ semval' = [semval EXCEPT ![Sema] = @ - 1]
      /\ working' = working /\ awaited' = awaited /\ semval[Sema] > 0
  BY DEF WaitAwake, SemTake
<1>2. counter = 0 /\ waiters = 0 /\ semval'[Sema] = semval[Sema] - 1
  BY <1>1, WaitGroupAssumption DEF Rounds, WordIsZero, WGTypeOK, SemTypeOK
<1>3. /\ wgpc'[g] = "woken" /\ \A h \in Goroutines \ {g} : wgpc'[h] = wgpc[h]
      /\ \A h \in Goroutines : WGOwed(h)' = WGOwed(h)
      /\ \A h \in Goroutines \ {g} : sst'[h] = "running" <=> sst[h] = "running"
  BY <1>1, StepSleepers DEF WGTypeOK, WGOwed, Step
<1>4. Cardinality(Sleepers)' = Cardinality(Sleepers) - 1 /\ Cardinality(Sleepers) \in Nat
  BY <1>1, <1>3, StepSleepers DEF Step
<1>5. (\A h \in Goroutines : wgpc[h] # "panic")' /\ CounterIsExact' /\ CASNeedsCounter'
  BY <1>1, <1>3 DEF Rounds, CounterIsExact, CASNeedsCounter
<1>6. OneAddEndsTheRound' /\ WordIsZero'
  BY <1>1, <1>2, <1>3 DEF Rounds, OneAddEndsTheRound, WordIsZero, word
<1>7. SleepersAreCounted'
  BY <1>1, <1>2, <1>3, <1>4, Numbers DEF Rounds, SleepersAreCounted
<1>8. WaitersToRelease'
  BY <1>1, <1>3 DEF Rounds, WaitersToRelease
<1>9. QED  BY <1>5, <1>6, <1>7, <1>8 DEF Rounds

-----------------------------------------------------------------------------
(* The invariant. *)

\* Every step keeps the rounds apart.
LEMMA RoundsStep ==
  ASSUME WGTypeOK, SemConsistent(WGAcquiring, WGReleasing), Rounds, NEW g \in Goroutines, Begin(g) \/ Step(g)
  PROVE  Rounds'
<1>1. ASSUME NEW S \in SUBSET Free, S # {}, Add(g, S)
      PROVE  Rounds'
  BY <1>1, AddRounds
<1>2. CASE g \in working /\ Done(g)
  BY <1>2, DoneRounds
<1>3. CASE DoneCheck(g)
  BY <1>3, DoneCheckRounds
<1>4. CASE DoneReset(g)
  BY <1>4, DoneResetRounds
<1>5. CASE DoneRelease(g) /\ SemInc(g, Sema)
  BY <1>5, DoneReleaseRounds
<1>6. CASE WaitCAS(g) /\ word = old[g]
  BY <1>6, WaitCASRounds
<1>7. CASE WaitAwake(g)
  BY <1>7, WaitAwakeRounds
<1>8. CASE \/ (g \notin working /\ Wait(g)) \/ WaitLoad(g) \/ WaitSleep(g) \/ WaitReturn(g) \/ DoneReturn(g)
           \/ (WaitCAS(g) /\ word # old[g]) \/ (DoneRelease(g) /\ SemDequeue(g, Sema))
  BY <1>8, NeutralSteps
<1>9. DoneRelease(g) => SemInc(g, Sema) \/ SemDequeue(g, Sema)
  BY DEF DoneRelease
<1>10. QED
  BY <1>1, <1>2, <1>3, <1>4, <1>5, <1>6, <1>7, <1>8, <1>9 DEF Begin, Step

\* The two halves of the word stay within the number of goroutines.
LEMMA WordBounded ==
  ASSUME SemTypeOK', Rounds', waiters' \in Nat, working' \subseteq Goroutines,
         \A h \in Goroutines : WGOwed(h)' \in Nat
  PROVE  /\ counter' \in 0 .. Cardinality(Goroutines)
         /\ waiters' \in 0 .. Cardinality(Goroutines)
<1>1. /\ Cardinality(Goroutines) \in Nat
      /\ Cardinality(working') \in Nat /\ Cardinality(working') <= Cardinality(Goroutines)
  BY WaitGroupAssumption, FS_Subset, FS_CardinalityType
<1>2. /\ Cardinality(Sleepers') \in Nat /\ Cardinality(Sleepers') <= Cardinality(Goroutines)
  <2>1. Sleepers' \subseteq Goroutines
    BY DEF Sleepers
  <2>2. QED  BY <2>1, WaitGroupAssumption, FS_Subset, FS_CardinalityType
<1>3. counter' = Cardinality(working')
  BY DEF Rounds, CounterIsExact
<1>4. semval'[Sema] \in Nat
  BY WaitGroupAssumption DEF SemTypeOK
<1>5. waiters' <= Cardinality(Sleepers')
  <2>1. CASE \A h \in Goroutines : WGOwed(h)' = 0
    <3>1. Cardinality(Sleepers') = waiters' + semval'[Sema]
      BY <2>1 DEF Rounds, SleepersAreCounted
    <3>2. QED  BY <1>2, <1>4, <3>1
  <2>2. CASE \E h \in Goroutines : WGOwed(h)' > 0
    BY <1>2, <2>2 DEF Rounds, WordIsZero
  <2>3. QED  BY <2>1, <2>2
<1>6. QED  BY <1>1, <1>2, <1>3, <1>5

\* Every step keeps the types.
LEMMA WGTypesStep ==
  ASSUME WGTypeOK, SemConsistent(WGAcquiring, WGReleasing), Rounds, NEW g \in Goroutines, Begin(g) \/ Step(g)
  PROVE  WGTypeOK'
<1> DEFINE M == 0 .. Cardinality(Goroutines)
<1>1. SemTypeOK' /\ Rounds'
  BY WGNextSem, RoundsStep
<1>2. wgpc' \in [Goroutines -> WGPCs]
  BY StepMoves DEF WGTypeOK
<1>3. working' \subseteq Goroutines /\ awaited' \in [Goroutines -> SUBSET Goroutines]
  <2>1. working' \subseteq Goroutines
    BY DEF WGTypeOK, Begin, Step, Add, Free, Wait, Done, DoneCheck, DoneReset, DoneRelease, DoneReturn,
           WaitLoad, WaitCAS, WaitSleep, WaitAwake, WaitReturn
  <2>2. CASE Wait(g) \/ WaitLoad(g) \/ Done(g)
    <3>1. CASE Wait(g)
      BY <2>1, <3>1 DEF WGTypeOK, Wait
    <3>2. CASE WaitLoad(g)
      BY <2>1, <3>2 DEF WGTypeOK, WaitLoad
    <3>3. CASE Done(g)
      BY <2>1, <3>3 DEF WGTypeOK, Done
    <3>4. QED  BY <2>2, <3>1, <3>2, <3>3
  <2>3. CASE \/ \E S \in SUBSET Free : Add(g, S)
             \/ DoneCheck(g) \/ DoneReset(g) \/ DoneRelease(g) \/ DoneReturn(g)
             \/ WaitCAS(g) \/ WaitSleep(g) \/ WaitAwake(g) \/ WaitReturn(g)
    <3>1. awaited' = awaited
      BY <2>3 DEF Add, DoneCheck, DoneReset, DoneRelease, DoneReturn,
                  WaitCAS, WaitSleep, WaitAwake, WaitReturn
    <3>2. QED  BY <2>1, <3>1 DEF WGTypeOK
  <2>4. QED  BY <2>1, <2>2, <2>3 DEF Begin, Step
<1>4. waiters' \in Nat
  <2>1. CASE WaitCAS(g)
    <3>1. waiters \in Nat /\ (waiters' = waiters \/ waiters' = waiters + 1)
      BY <2>1, Numbers DEF WaitCAS
    <3>2. QED  BY <3>1
  <2>2. CASE DoneReset(g)
    BY <2>2 DEF DoneReset
  <2>3. CASE ~WaitCAS(g) /\ ~DoneReset(g)
    <3>1. waiters' = waiters
      BY <2>3 DEF Begin, Step, Add, Wait, Done, DoneCheck, DoneRelease, DoneReturn,
                  WaitLoad, WaitSleep, WaitAwake, WaitReturn
    <3>2. QED  BY <3>1, Numbers
  <2>4. QED  BY <2>1, <2>2, <2>3
<1>5. old' = old \/ \E x \in M \X M : old' = [old EXCEPT ![g] = x]
  <2>1. counter \in M /\ waiters \in M /\ <<0, 0>> \in M \X M /\ word \in M \X M
    BY Numbers DEF WGTypeOK, word
  <2>2. CASE WaitLoad(g) \/ WaitCAS(g)
    BY <2>1, <2>2 DEF WaitLoad, WaitCAS
  <2>3. CASE g \in working /\ Done(g)
    <3>1. counter' \in M
      BY <2>1, <2>3, DoneRounds, Numbers
    <3>2. old' = old \/ old' = [old EXCEPT ![g] = <<counter', waiters>>]
      BY <2>3 DEF Done
    <3>3. <<counter', waiters>> \in M \X M
      BY <2>1, <3>1
    <3>4. QED  BY <3>2, <3>3
  <2>4. CASE DoneRelease(g)
    <3>1. CASE SemInc(g, Sema)
      <4>1. old[g][2] \in M /\ old[g][2] > 0
        BY <2>4, <3>1, DoneReleaseRounds DEF WGTypeOK
      <4>2. <<0, old[g][2] - 1>> \in M \X M
        BY <4>1, Numbers
      <4>3. old' = [old EXCEPT ![g] = <<0, old[g][2] - 1>>]
        BY <2>4, <3>1 DEF DoneRelease, SemInc, SemDequeue, WGTypeOK
      <4>4. QED  BY <4>2, <4>3
    <3>2. QED  BY <2>4, <3>1 DEF DoneRelease
  <2>5. CASE \/ \E S \in SUBSET Free : Add(g, S)
             \/ Wait(g) \/ DoneCheck(g) \/ DoneReset(g) \/ DoneReturn(g)
             \/ WaitSleep(g) \/ WaitAwake(g) \/ WaitReturn(g)
    BY <2>5 DEF Add, Wait, DoneCheck, DoneReset, DoneReturn, WaitSleep, WaitAwake, WaitReturn
  <2>6. QED  BY <2>2, <2>3, <2>4, <2>5 DEF Begin, Step
<1>6. old' \in [Goroutines -> M \X M]
  BY <1>5 DEF WGTypeOK
<1>7. \A h \in Goroutines : WGOwed(h)' \in Nat
  <2>1. \A h \in Goroutines : old'[h][2] \in Nat
    BY <1>6, Numbers
  <2>2. QED  BY <2>1 DEF WGOwed
<1>8. counter' \in M /\ waiters' \in M
  BY <1>1, <1>3, <1>4, <1>7, WordBounded
<1>9. QED  BY <1>1, <1>2, <1>3, <1>6, <1>8 DEF WGTypeOK

\* The zero WaitGroup satisfies the invariant.
LEMMA WGInitIInv == WGInit => WGIInv
<1> SUFFICES ASSUME WGInit  PROVE  WGIInv
  OBVIOUS
<1> USE DEF WGInit, SemInit
<1>1. SemTypeOK
  BY DEF SemTypeOK, SemStates
<1>2. WGTypeOK
  BY <1>1, WaitGroupAssumption, FS_CardinalityType DEF WGTypeOK, WGPCs
<1>3. Sleepers = {} /\ \A g \in Goroutines : WGOwed(g) = 0
  BY DEF Sleepers, WGOwed
<1>4. Cardinality({}) = 0
  BY FS_EmptySet
<1>5. CounterIsExact /\ OneAddEndsTheRound
  BY <1>3, <1>4 DEF CounterIsExact, OneAddEndsTheRound
<1>6. WordIsZero /\ WaitersToRelease /\ CASNeedsCounter
  BY <1>3 DEF WordIsZero, WaitersToRelease, CASNeedsCounter
<1>7. SleepersAreCounted
  BY <1>3, <1>4, WaitGroupAssumption DEF SleepersAreCounted
<1>8. RolesConsistent(WGAcquiring, WGReleasing) /\ WakeesConsistent
  BY NoneAssumption DEF RolesConsistent, WakeesConsistent
<1>9. QueuesConsistent(WGAcquiring) /\ CountsMoving(WGAcquiring, WGReleasing)
  BY DEF QueuesConsistent, CountsMoving, Range, IsInjective
<1>10. QED  BY <1>2, <1>5, <1>6, <1>7, <1>8, <1>9 DEF WGIInv, SemConsistent

\* Every step preserves the invariant.
LEMMA WGNextIInv == WGIInv /\ [WGNext]_wgvars => WGIInv'
<1> SUFFICES ASSUME WGIInv, [WGNext]_wgvars  PROVE  WGIInv'
  OBVIOUS
<1>1. WGTypeOK /\ Rounds /\ SemConsistent(WGAcquiring, WGReleasing)
  BY DEF WGIInv, Rounds
<1>2. CASE UNCHANGED wgvars
  <2> USE <1>2 DEF wgvars, semvars
  <2>1. WGTypeOK'
    BY <1>1 DEF WGTypeOK, SemTypeOK
  <2>2. /\ \A g \in Goroutines : WGOwed(g)' = WGOwed(g)
        /\ Sleepers' = Sleepers /\ WGAcquiring' = WGAcquiring /\ WGReleasing' = WGReleasing
    BY DEF WGOwed, Sleepers, WGAcquiring, WGReleasing
  <2>3. Rounds'
    BY <1>1, <2>2 DEF Rounds, CounterIsExact, OneAddEndsTheRound, WordIsZero, SleepersAreCounted,
                      WaitersToRelease, CASNeedsCounter, word
  <2>4. SemConsistent(WGAcquiring, WGReleasing)'
    BY <1>1, <2>2 DEF SemConsistent, RolesConsistent, WakeesConsistent, QueuesConsistent,
                      CountsMoving, Bringing
  <2>5. QED  BY <2>1, <2>3, <2>4 DEF WGIInv, Rounds
<1>3. ASSUME NEW g \in Goroutines, Begin(g) \/ Step(g)
      PROVE  WGIInv'
  <2>1. WGTypeOK' /\ Rounds' /\ SemConsistent(WGAcquiring, WGReleasing)'
    BY <1>1, <1>3, WGTypesStep, RoundsStep, WGNextSem
  <2>2. QED  BY <2>1 DEF WGIInv, Rounds
<1>4. QED  BY <1>2, <1>3 DEF WGNext

-----------------------------------------------------------------------------
(* The theorems. *)

\* The inductive invariant: one Add ends a round, the word is zero while its
\* waiters leave, and each of them is counted in the word or owed a count.
THEOREM WGInvariance == WGSpec => []WGIInv
BY WGInitIInv, WGNextIInv, PTL DEF WGSpec

\* No panic, no waiter left behind and no count left over, in any round.
THEOREM RoundsDoNotMix == WGSpec => []RoundsAreSeparate
<1>1. WGIInv => RoundsAreSeparate
  <2> SUFFICES ASSUME WGIInv, counter = 0, \A g \in Goroutines : wgpc[g] = "idle" \/ Asleep(g)
               PROVE  /\ \A g \in Goroutines : wgpc[g] = "idle"
                      /\ waiters = 0 /\ semval[Sema] = 0
    BY DEF RoundsAreSeparate, WGIInv
  <2>1. WGTypeOK /\ SemTypeOK /\ Rounds /\ SemConsistent(WGAcquiring, WGReleasing)
    BY DEF WGIInv, Rounds, WGTypeOK
  <2>2. \A g \in Goroutines : sst[g] \in {"running", "parked", "dequeued"}
    <3>1. \A g \in Goroutines : wgpc[g] = "idle" => sst[g] = "running"
      BY <2>1, OutsideSem, NoneAssumption DEF WGAcquiring, WGReleasing
    <3>2. QED  BY <3>1 DEF Asleep
  <2>3. \A g \in Goroutines :
          sst[g] = "running" \/ (sst[g] = "parked" /\ WGAcquiring[g] \in Addr /\ semval[WGAcquiring[g]] = 0)
    BY <2>1, <2>2, AllAsleep
  <2>4. \A g \in Goroutines : wgpc[g] = "idle" \/ (wgpc[g] = "sem" /\ semval[Sema] = 0)
    BY <2>3, NoneAssumption DEF WGAcquiring, Asleep
  <2>5. waiters = 0
    BY <2>1, <2>4, Numbers DEF Rounds, OneAddEndsTheRound
  <2>6. Cardinality(Sleepers) = semval[Sema]
    <3>1. \A g \in Goroutines : WGOwed(g) = 0
      BY <2>4 DEF WGOwed
    <3>2. QED  BY <2>1, <2>5, <3>1, Numbers DEF Rounds, SleepersAreCounted
  <2>7. Sleepers = {}
    <3> SUFFICES ASSUME Sleepers # {}  PROVE  FALSE
      OBVIOUS
    <3>1. Cardinality(Sleepers) = 0
      BY <2>4, <2>6 DEF Sleepers
    <3>2. IsFiniteSet(Sleepers)
      BY WaitGroupAssumption, FS_Subset DEF Sleepers
    <3>3. QED  BY <3>1, <3>2, FS_EmptySet
  <2>8. semval[Sema] = 0
    BY <2>6, <2>7, FS_EmptySet
  <2>9. QED  BY <2>4, <2>5, <2>7, <2>8 DEF Sleepers
<1>2. QED  BY <1>1, WGInvariance, PTL

\* Wait returns only after everybody has called Done that was at work when it was called.
THEOREM WaitWaits == WGSpec => WaitsForAll
<1>1. WGIInv /\ [WGNext]_wgvars
        => [\A g \in Goroutines : InWait(g) /\ wgpc'[g] = "idle" => awaited[g] = {}]_wgvars
  <2> SUFFICES ASSUME WGIInv, WGNext, NEW h \in Goroutines, InWait(h), wgpc'[h] = "idle"
               PROVE  awaited[h] = {}
    OBVIOUS
  <2>1. WGTypeOK /\ Rounds
    BY DEF WGIInv, Rounds
  <2>2. PICK g \in Goroutines : Begin(g) \/ Step(g)
    BY DEF WGNext
  <2>3. g = h
    BY <2>1, <2>2, StepMoves DEF InWait
  <2>4. (WaitLoad(h) /\ counter = 0) \/ WaitReturn(h)
    BY <2>1, <2>2, <2>3
       DEF InWait, WGTypeOK, Begin, Step, Add, Wait, Done, DoneCheck, DoneReset, DoneRelease, DoneReturn,
           WaitLoad, WaitCAS, WaitSleep, WaitAwake, WaitReturn
  <2>5. counter = 0
    BY <2>1, <2>4 DEF WaitReturn, Rounds, WordIsZero
  <2>6. QED  BY <2>1, <2>5, NobodyWorks
<1>2. QED  BY <1>1, WGInvariance, PTL DEF WGSpec, WaitsForAll

===============================================================================
