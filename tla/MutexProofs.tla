----------------------------- MODULE MutexProofs -----------------------------
(***************************************************************************)
(* Proofs about Mutex, about the Once that is built on it and about the    *)
(* pipe that uses the Once, for every finite set of goroutines and every   *)
(* value of the bounds.                                                    *)
(***************************************************************************)
EXTENDS Pipe, SemaphoreProofs, FiniteSetTheorems, TLAPS

USE DEF Goto, ClearLocals, MkWord

\* The zero Mutex is well typed.
LEMMA InitTypeOK == Init => TypeOK
BY MutexAssumption DEF Init, TypeOK, SemInit, SemTypeOK, SemStates, PCs, Word, Flags, Unlocked

\* Every step keeps the types of the variables.
LEMMA NextTypeOK ==
  ASSUME TypeOK, SemRoles, [Next]_vars
  PROVE  TypeOK'
<1> USE MutexAssumption, NoneAssumption
<1>1. ASSUME NEW g \in Goroutines, LockFast(g)
      PROVE  TypeOK'
  <2>1. SemTypeOK'
    BY <1>1 DEF LockFast, TypeOK, SemTypeOK, semvars
  <2>2. state' \in Word
    BY <1>1 DEF LockFast, TypeOK, Word, Flags, Unlocked
  <2>3. pc' \in [Goroutines -> PCs]
    BY <1>1 DEF LockFast, TypeOK, PCs
  <2>4. old' \in [Goroutines -> Word]
    BY <1>1 DEF LockFast, TypeOK, Word, Flags, Unlocked, locals
  <2>5. QED
    BY <1>1, <2>1, <2>2, <2>3, <2>4 DEF LockFast, TypeOK, locals
<1>2. ASSUME NEW g \in Goroutines, LockLoad(g)
      PROVE  TypeOK'
  BY <1>2 DEF LockLoad, TypeOK, PCs, Word, Flags, semvars, SemTypeOK
<1>3. ASSUME NEW g \in Goroutines, LockSpin(g)
      PROVE  TypeOK'
  BY <1>3 DEF LockSpin, CanSpin, Contended, TypeOK, PCs, Word, Flags, semvars, SemTypeOK
<1>4. ASSUME NEW g \in Goroutines, LockCAS(g)
      PROVE  TypeOK'
  <2>1. NewWord(g) \in Word
    BY DEF NewWord, Flags, Counted, LockedFlag, StarvingFlag, WokenFlag, TypeOK, Word, Flags, Flags
  <2>2. SemTypeOK'
    BY <1>4 DEF LockCAS, TypeOK, SemTypeOK, semvars
  <2>3. pc' \in [Goroutines -> PCs]
    BY <1>4 DEF LockCAS, TypeOK, PCs
  <2>4. Unlocked \in Word
    BY DEF Unlocked, Word, Flags
  <2>5. state' \in Word
    BY <1>4, <2>1 DEF LockCAS, TypeOK
  <2>6. old' \in [Goroutines -> Word]
    BY <1>4, <2>4 DEF LockCAS, TypeOK, locals
  <2>7. awoke' \in [Goroutines -> BOOLEAN] /\ starving' \in [Goroutines -> BOOLEAN]
    BY <1>4 DEF LockCAS, TypeOK, locals
  <2>8. waits' \in [Goroutines -> 0..MaxWaits] /\ iter' \in [Goroutines -> 0..ActiveSpin]
    BY <1>4 DEF LockCAS, TypeOK, locals
  <2>9. QED
    BY <2>2, <2>3, <2>5, <2>6, <2>7, <2>8 DEF TypeOK
<1>5. ASSUME NEW g \in Goroutines, LockSleep(g)
      PROVE  TypeOK'
  <2>1. SemTypeOK'
    BY <1>5, SemTypes DEF LockSleep, TypeOK
  <2>2. QED  BY <1>5, <2>1 DEF LockSleep, TypeOK, locals
<1>6. ASSUME NEW g \in Goroutines, LockAwake(g)
      PROVE  TypeOK'
  <2>1. SemTypeOK'
    BY <1>6, SemTypes DEF LockAwake, TypeOK
  <2>2. QED  BY <1>6, <2>1 DEF LockAwake, TypeOK, PCs
<1>7. ASSUME NEW g \in Goroutines, LockWoken(g)
      PROVE  TypeOK'
  <2>1. SemTypeOK'
    BY <1>7 DEF LockWoken, TypeOK, SemTypeOK, semvars
  <2>2. state' \in Word
    BY <1>7 DEF LockWoken, TypeOK, Word, Flags, Unlocked
  <2>3. pc' \in [Goroutines -> PCs]
    BY <1>7 DEF LockWoken, TypeOK, PCs
  <2>4. old' \in [Goroutines -> Word]
    BY <1>7 DEF LockWoken, TypeOK, Word, Flags, Unlocked, locals
  <2>5. starving' \in [Goroutines -> BOOLEAN] /\ awoke' \in [Goroutines -> BOOLEAN]
    BY <1>7 DEF LockWoken, TypeOK
  <2>6. waits' \in [Goroutines -> 0..MaxWaits] /\ iter' \in [Goroutines -> 0..ActiveSpin]
    BY <1>7 DEF LockWoken, TypeOK
  <2>7. QED
    BY <2>1, <2>2, <2>3, <2>4, <2>5, <2>6 DEF TypeOK
<1>8. ASSUME NEW g \in Goroutines, LockGrant(g)
      PROVE  TypeOK'
  <2>1. SemTypeOK'
    BY <1>8 DEF LockGrant, TypeOK, SemTypeOK, semvars
  <2>2. state' \in Word
    BY <1>8 DEF LockGrant, TypeOK, Word, Flags, Unlocked
  <2>3. pc' \in [Goroutines -> PCs]
    BY <1>8 DEF LockGrant, TypeOK, PCs
  <2>4. old' \in [Goroutines -> Word]
    BY <1>8 DEF LockGrant, TypeOK, Word, Flags, Unlocked, locals
  <2>5. QED
    BY <1>8, <2>1, <2>2, <2>3, <2>4 DEF LockGrant, TypeOK, locals
<1>9. ASSUME NEW g \in Goroutines, Unlock(g)
       PROVE  TypeOK'
  <2>1. SemTypeOK'
    BY <1>9 DEF Unlock, TypeOK, SemTypeOK, semvars
  <2>2. state' \in Word
    BY <1>9 DEF Unlock, TypeOK, Word, Flags, Unlocked
  <2>3. pc' \in [Goroutines -> PCs]
    BY <1>9 DEF Unlock, TypeOK, PCs
  <2>4. old' \in [Goroutines -> Word]
    BY <1>9 DEF Unlock, TypeOK, Word, Flags, Unlocked, locals
  <2>5. QED
    BY <1>9, <2>1, <2>2, <2>3, <2>4 DEF Unlock, TypeOK, locals
<1>10. ASSUME NEW g \in Goroutines, UnlockDone(g)
       PROVE  TypeOK'
  BY <1>10 DEF UnlockDone, TypeOK, PCs, Word, Flags, Unlocked, semvars, SemTypeOK
<1>11. ASSUME NEW g \in Goroutines, UnlockCAS(g)
       PROVE  TypeOK'
  <2>1. SemTypeOK'
    BY <1>11 DEF UnlockCAS, TypeOK, SemTypeOK, semvars
  <2>2. state' \in Word
    BY <1>11 DEF UnlockCAS, TypeOK, Word, Flags, Unlocked
  <2>3. pc' \in [Goroutines -> PCs]
    BY <1>11 DEF UnlockCAS, TypeOK, PCs
  <2>4. old' \in [Goroutines -> Word]
    BY <1>11 DEF UnlockCAS, TypeOK, Word, Flags, Unlocked, locals
  <2>5. QED
    BY <1>11, <2>1, <2>2, <2>3, <2>4 DEF UnlockCAS, TypeOK, locals
<1>12. ASSUME NEW g \in Goroutines, UnlockLoad(g)
       PROVE  TypeOK'
  BY <1>12 DEF UnlockLoad, TypeOK, PCs, semvars, SemTypeOK
<1>13. ASSUME NEW g \in Goroutines, UnlockRelease(g)
       PROVE  TypeOK'
  <2>1. SemTypeOK'
    BY <1>13, SemTypes DEF UnlockRelease, TypeOK
  <2>2. QED  BY <1>13, <2>1 DEF UnlockRelease, TypeOK, locals
<1>14. ASSUME NEW g \in Goroutines, UnlockReturn(g)
       PROVE  TypeOK'
  <2>1. SemTypeOK'
    <3>1. CASE SemNoWaiter(g, Sema)
      BY <3>1, SemTypes DEF TypeOK
    <3>2. CASE SemReady(g, Sema, pc[g] = "handoff")
      <4>1. wakee[g] \in Goroutines
        BY <3>2 DEF SemReady, SemRoles, TypeOK, SemTypeOK
      <4>2. QED  BY <3>2, <4>1, SemTypes DEF TypeOK
    <3>3. QED  BY <1>14, <3>1, <3>2 DEF UnlockReturn
  <2>2. QED  BY <1>14, <2>1 DEF UnlockReturn, TypeOK, PCs, Word, Flags, Unlocked
<1>15. CASE UNCHANGED vars
  BY <1>15 DEF vars, semvars, locals, TypeOK, SemTypeOK
<1>16. QED
  BY <1>1, <1>2, <1>3, <1>4, <1>5, <1>6, <1>7, <1>8, <1>9, <1>10, <1>11,
     <1>12, <1>13, <1>14, <1>15 DEF Next, LockStep, UnlockStep

\* The flags of the value that lockSlow installs, one by one.
LEMMA NewWordFlags ==
  ASSUME NEW g \in Goroutines, old[g] \in Word
  PROVE  /\ "locked" \in NewWord(g).flags
              <=> "locked" \in old[g].flags \/ "starving" \notin old[g].flags
         /\ "woken" \in NewWord(g).flags <=> "woken" \in old[g].flags /\ ~awoke[g]
         /\ "starving" \in NewWord(g).flags
              <=> "starving" \in old[g].flags \/ (starving[g] /\ "locked" \in old[g].flags)
         /\ NewWord(g).waiters = IF Acquires(g) THEN old[g].waiters ELSE old[g].waiters + 1
BY DEF NewWord, Counted, LockedFlag, StarvingFlag, WokenFlag, Acquires, Word, Flags

\* The locked bit says whether somebody holds the mutex, and nobody else does.
LEMMA NextLockedIsHeld ==
  ASSUME TypeOK, LockedIsHeld, [Next]_vars
  PROVE  LockedIsHeld'
<1> USE DEF TypeOK, LockedIsHeld, MutualExclusion
<1>1. ASSUME NEW g \in Goroutines, LockFast(g)
      PROVE  LockedIsHeld'
  BY <1>1 DEF LockFast, Unlocked, Word, Flags
<1>2. ASSUME NEW g \in Goroutines, LockLoad(g)
      PROVE  LockedIsHeld'
  BY <1>2 DEF LockLoad
<1>3. ASSUME NEW g \in Goroutines, LockSpin(g)
      PROVE  LockedIsHeld'
  BY <1>3 DEF LockSpin, Word, Flags
<1>4. ASSUME NEW g \in Goroutines, LockCAS(g)
      PROVE  LockedIsHeld'
  BY <1>4, NewWordFlags DEF LockCAS, Acquires, Word, Flags
<1>5. ASSUME NEW g \in Goroutines, LockSleep(g)
      PROVE  LockedIsHeld'
  BY <1>5 DEF LockSleep
<1>6. ASSUME NEW g \in Goroutines, LockAwake(g)
      PROVE  LockedIsHeld'
  BY <1>6 DEF LockAwake
<1>7. ASSUME NEW g \in Goroutines, LockWoken(g)
      PROVE  LockedIsHeld'
  BY <1>7 DEF LockWoken
<1>8. ASSUME NEW g \in Goroutines, LockGrant(g)
      PROVE  LockedIsHeld'
  <2>1. \/ state' = state /\ pc' = [pc EXCEPT ![g] = "throw"]
        \/ "locked" \notin state.flags /\ "locked" \in state'.flags /\ pc' = [pc EXCEPT ![g] = "cs"]
    BY <1>8 DEF LockGrant
  <2>2. pc[g] # "cs"
    BY <1>8 DEF LockGrant
  <2>3. QED  BY <2>1, <2>2
<1>9. ASSUME NEW g \in Goroutines, Unlock(g)
       PROVE  LockedIsHeld'
  <2>1. "locked" \in state.flags /\ pc[g] = "cs"
    BY <1>9 DEF Unlock
  <2>2. "locked" \notin state'.flags
    BY <1>9, <2>1 DEF Unlock
  <2>3. \E label \in {"idle", "handoff", "uloop"} : pc' = [pc EXCEPT ![g] = label]
    BY <1>9, <2>1 DEF Unlock
  <2>4. QED  BY <2>1, <2>2, <2>3
<1>10. ASSUME NEW g \in Goroutines, UnlockDone(g)
       PROVE  LockedIsHeld'
  BY <1>10 DEF UnlockDone
<1>11. ASSUME NEW g \in Goroutines, UnlockCAS(g)
       PROVE  LockedIsHeld'
  BY <1>11 DEF UnlockCAS, Word, Flags
<1>12. ASSUME NEW g \in Goroutines, UnlockLoad(g)
       PROVE  LockedIsHeld'
  BY <1>12 DEF UnlockLoad
<1>13. ASSUME NEW g \in Goroutines, UnlockRelease(g)
       PROVE  LockedIsHeld'
  BY <1>13 DEF UnlockRelease
<1>14. ASSUME NEW g \in Goroutines, UnlockReturn(g)
       PROVE  LockedIsHeld'
  BY <1>14 DEF UnlockReturn
<1>15. CASE UNCHANGED vars
  BY <1>15 DEF vars
<1>16. QED
  BY <1>1, <1>2, <1>3, <1>4, <1>5, <1>6, <1>7, <1>8, <1>9, <1>10, <1>11,
     <1>12, <1>13, <1>14, <1>15 DEF Next, LockStep, UnlockStep

\* The first of the queue is a parked goroutine.
LEMMA HeadIsParked ==
  ASSUME TypeOK, QueueIsParked, waitq[Sema] # <<>>
  PROVE  Head(waitq[Sema]) \in Goroutines /\ sst[Head(waitq[Sema])] = "parked"
<1>1. waitq[Sema] \in Seq(Goroutines)
  BY MutexAssumption DEF TypeOK, SemTypeOK
<1>2. QED  BY <1>1, QueueTail DEF QueueIsParked

\* Nobody is in the semaphore in a role that its own code does not put it in.
LEMMA NextSemRoles ==
  ASSUME TypeOK, SemRoles, QueueIsParked, [Next]_vars
  PROVE  SemRoles'
<1> USE NoneAssumption DEF TypeOK, SemTypeOK, SemRoles
<1>1. ASSUME NEW g \in Goroutines, LockFast(g)
       PROVE  SemRoles'
  BY <1>1 DEF LockFast, semvars
<1>2. ASSUME NEW g \in Goroutines, LockLoad(g)
       PROVE  SemRoles'
  BY <1>2 DEF LockLoad, semvars
<1>3. ASSUME NEW g \in Goroutines, LockSpin(g)
       PROVE  SemRoles'
  BY <1>3 DEF LockSpin, semvars
<1>4. ASSUME NEW g \in Goroutines, LockCAS(g)
       PROVE  SemRoles'
  BY <1>4 DEF LockCAS, semvars
<1>5. ASSUME NEW g \in Goroutines, LockSleep(g)
       PROVE  SemRoles'
  BY <1>5 DEF LockSleep, SemPark
<1>6. ASSUME NEW g \in Goroutines, LockAwake(g)
       PROVE  SemRoles'
  <2>1. CASE SemTake(g, Sema)
    BY <1>6, <2>1 DEF LockAwake, SemTake
  <2>2. CASE SemTicket(g)
    BY <1>6, <2>2 DEF LockAwake, SemTicket
  <2>3. QED  BY <1>6, <2>1, <2>2 DEF LockAwake
<1>7. ASSUME NEW g \in Goroutines, LockWoken(g)
       PROVE  SemRoles'
  BY <1>7 DEF LockWoken, semvars
<1>8. ASSUME NEW g \in Goroutines, LockGrant(g)
       PROVE  SemRoles'
  BY <1>8 DEF LockGrant, semvars
<1>9. ASSUME NEW g \in Goroutines, Unlock(g)
       PROVE  SemRoles'
  <2>1. \E label \in PCs : pc' = [pc EXCEPT ![g] = label]
    BY <1>9 DEF Unlock, PCs
  <2>2. sst[g] = "running" /\ UNCHANGED semvars
    BY <1>9 DEF Unlock, SemStates
  <2>3. QED  BY <2>1, <2>2 DEF semvars
<1>10. ASSUME NEW g \in Goroutines, UnlockDone(g)
       PROVE  SemRoles'
  BY <1>10 DEF UnlockDone, semvars
<1>11. ASSUME NEW g \in Goroutines, UnlockCAS(g)
       PROVE  SemRoles'
  BY <1>11 DEF UnlockCAS, semvars
<1>12. ASSUME NEW g \in Goroutines, UnlockLoad(g)
       PROVE  SemRoles'
  BY <1>12 DEF UnlockLoad, semvars
<1>13. ASSUME NEW g \in Goroutines, UnlockRelease(g)
       PROVE  SemRoles'
  <2>1. CASE SemInc(g, Sema)
    BY <1>13, <2>1 DEF UnlockRelease, SemInc
  <2>2. CASE SemDequeue(g, Sema)
    <3> DEFINE h == Head(waitq[Sema])
    <3>1. h \in Goroutines /\ sst[h] = "parked" /\ sst[g] = "xadded"
      BY <2>2, HeadIsParked DEF SemDequeue
    <3>2. sst' = [sst EXCEPT ![g] = "waking", ![h] = "dequeued"] /\ wakee' = [wakee EXCEPT ![g] = h]
      BY <2>2 DEF SemDequeue
    <3>3. UNCHANGED pc /\ pc[h] = "sem" /\ pc[g] \in {"wake", "handoff"} /\ g # h
      BY <1>13, <3>1 DEF UnlockRelease
    <3> HIDE DEF h
    <3>4. \A f \in Goroutines : wakee[f] # h
      BY SMTT(20), <3>1
    <3>5. QED  BY <3>1, <3>2, <3>3, <3>4
  <2>3. QED  BY <1>13, <2>1, <2>2 DEF UnlockRelease
<1>14. ASSUME NEW g \in Goroutines, UnlockReturn(g)
       PROVE  SemRoles'
  <2>1. CASE SemNoWaiter(g, Sema)
    BY <1>14, <2>1 DEF UnlockReturn, SemNoWaiter
  <2>2. CASE SemReady(g, Sema, pc[g] = "handoff")
    BY <1>14, <2>2 DEF UnlockReturn, SemReady
  <2>3. QED  BY <1>14, <2>1, <2>2 DEF UnlockReturn
<1>15. CASE UNCHANGED vars
  BY <1>15 DEF vars, semvars, locals
<1>16. QED
  BY <1>1, <1>2, <1>3, <1>4, <1>5, <1>6, <1>7, <1>8, <1>9, <1>10, <1>11,
     <1>12, <1>13, <1>14, <1>15 DEF Next, LockStep, UnlockStep

\* The queue holds the parked goroutines, each once.
LEMMA NextQueueIsParked ==
  ASSUME TypeOK, SemRoles, QueueIsParked, [Next]_vars
  PROVE  QueueIsParked'
<1> USE MutexAssumption, NoneAssumption DEF TypeOK, SemTypeOK, QueueIsParked
<1>1. ASSUME NEW g \in Goroutines, LockFast(g)
       PROVE  QueueIsParked'
  BY <1>1 DEF LockFast, semvars
<1>2. ASSUME NEW g \in Goroutines, LockLoad(g)
       PROVE  QueueIsParked'
  BY <1>2 DEF LockLoad, semvars
<1>3. ASSUME NEW g \in Goroutines, LockSpin(g)
       PROVE  QueueIsParked'
  BY <1>3 DEF LockSpin, semvars
<1>4. ASSUME NEW g \in Goroutines, LockCAS(g)
       PROVE  QueueIsParked'
  BY <1>4 DEF LockCAS, semvars
<1>5. ASSUME NEW g \in Goroutines, LockSleep(g)
       PROVE  QueueIsParked'
  <2> DEFINE q == waitq[Sema]
  <2>1. q \in Seq(Goroutines) /\ g \notin Range(q) /\ IsInjective(q)
    BY <1>5 DEF LockSleep, SemPark
  <2>2. waitq'[Sema] \in {Append(q, g), <<g>> \o q} /\ sst' = [sst EXCEPT ![g] = "parked"]
    BY <1>5 DEF LockSleep, SemPark
  <2>3. Range(waitq'[Sema]) = Range(q) \cup {g} /\ IsInjective(waitq'[Sema])
    <3> HIDE DEF q, QueueIsParked, TypeOK
    <3>1. Range(Append(q, g)) = Range(q) \cup {g} /\ IsInjective(Append(q, g))
      BY <2>1, QueueAppend
    <3>2. Range(<<g>> \o q) = Range(q) \cup {g} /\ IsInjective(<<g>> \o q)
      BY <2>1, QueuePush
    <3>3. QED  BY <2>2, <3>1, <3>2
  <2>4. QED  BY <2>2, <2>3
<1>6. ASSUME NEW g \in Goroutines, LockAwake(g)
       PROVE  QueueIsParked'
  <2>1. CASE SemTake(g, Sema)
    BY <1>6, <2>1 DEF LockAwake, SemTake
  <2>2. CASE SemTicket(g)
    BY <1>6, <2>2 DEF LockAwake, SemTicket
  <2>3. QED  BY <1>6, <2>1, <2>2 DEF LockAwake
<1>7. ASSUME NEW g \in Goroutines, LockWoken(g)
       PROVE  QueueIsParked'
  BY <1>7 DEF LockWoken, semvars
<1>8. ASSUME NEW g \in Goroutines, LockGrant(g)
       PROVE  QueueIsParked'
  BY <1>8 DEF LockGrant, semvars
<1>9. ASSUME NEW g \in Goroutines, Unlock(g)
       PROVE  QueueIsParked'
  BY <1>9 DEF Unlock, semvars
<1>10. ASSUME NEW g \in Goroutines, UnlockDone(g)
       PROVE  QueueIsParked'
  BY <1>10 DEF UnlockDone, semvars
<1>11. ASSUME NEW g \in Goroutines, UnlockCAS(g)
       PROVE  QueueIsParked'
  BY <1>11 DEF UnlockCAS, semvars
<1>12. ASSUME NEW g \in Goroutines, UnlockLoad(g)
       PROVE  QueueIsParked'
  BY <1>12 DEF UnlockLoad, semvars
<1>13. ASSUME NEW g \in Goroutines, UnlockRelease(g)
       PROVE  QueueIsParked'
  <2>1. CASE SemInc(g, Sema)
    BY <1>13, <2>1 DEF UnlockRelease, SemInc
  <2>2. CASE SemDequeue(g, Sema)
    <3> DEFINE q == waitq[Sema]
    <3>1. q \in Seq(Goroutines) /\ q # <<>> /\ IsInjective(q)
      BY <2>2 DEF SemDequeue
    <3>2. /\ waitq'[Sema] = Tail(q)
          /\ sst' = [sst EXCEPT ![g] = "waking", ![Head(q)] = "dequeued"]
          /\ sst[g] = "xadded"
      BY <2>2 DEF SemDequeue
    <3>3. Range(Tail(q)) = Range(q) \ {Head(q)} /\ Head(q) \in Goroutines /\ IsInjective(Tail(q))
      BY <3>1, QueueTail
    <3>4. QED  BY <3>2, <3>3
  <2>3. QED  BY <1>13, <2>1, <2>2 DEF UnlockRelease
<1>14. ASSUME NEW g \in Goroutines, UnlockReturn(g)
       PROVE  QueueIsParked'
  <2>1. CASE SemNoWaiter(g, Sema)
    BY <1>14, <2>1 DEF UnlockReturn, SemNoWaiter
  <2>2. CASE SemReady(g, Sema, pc[g] = "handoff")
    <3>1. wakee[g] \in Goroutines /\ sst[wakee[g]] = "dequeued" /\ sst[g] = "waking"
      BY <2>2 DEF SemReady, SemRoles
    <3>2. QED  BY <2>2, <3>1 DEF SemReady
  <2>3. QED  BY <1>14, <2>1, <2>2 DEF UnlockReturn
<1>15. CASE UNCHANGED vars
  BY <1>15 DEF vars, semvars, locals
<1>16. QED
  BY <1>1, <1>2, <1>3, <1>4, <1>5, <1>6, <1>7, <1>8, <1>9, <1>10, <1>11,
     <1>12, <1>13, <1>14, <1>15 DEF Next, LockStep, UnlockStep

\* A word whose only flag is mutexStarving.
LEMMA OnlyStarving ==
  ASSUME NEW fs \in SUBSET Flags
  PROVE  fs = {"starving"} <=> "starving" \in fs /\ "locked" \notin fs /\ "woken" \notin fs
BY DEF Flags

\* A step that moves no token keeps what the word says of it.
LEMMA TokenStays ==
  ASSUME OneWakeup, WordTellsWakeup,
         \A h \in Goroutines : Token(h)' <=> Token(h),
         semval'[Sema] = semval[Sema],
         "woken" \in state'.flags <=> "woken" \in state.flags,
         state'.flags = {"starving"} <=> state.flags = {"starving"},
         ~({"woken", "starving"} \subseteq state'.flags)
  PROVE  OneWakeup' /\ WordTellsWakeup'
BY DEF OneWakeup, WordTellsWakeup, WakeupUnderWay

\* A step that creates the token, when there is none, has to say so.
LEMMA TokenCreated ==
  ASSUME OneWakeup, WordTellsWakeup, ~WakeupUnderWay, NEW g \in Goroutines,
         \A h \in Goroutines : Token(h)' <=> Token(h) \/ h = g,
         semval'[Sema] = semval[Sema],
         "woken" \in state'.flags \/ state'.flags = {"starving"},
         ~({"woken", "starving"} \subseteq state'.flags)
  PROVE  OneWakeup' /\ WordTellsWakeup'
BY DEF OneWakeup, WordTellsWakeup, WakeupUnderWay

\* A step that retires the token has to take back what the word says.
LEMMA TokenRetired ==
  ASSUME OneWakeup, NEW g \in Goroutines, Token(g),
         \A h \in Goroutines : Token(h)' <=> Token(h) /\ h # g,
         semval'[Sema] = semval[Sema],
         "woken" \notin state'.flags /\ state'.flags # {"starving"}
  PROVE  OneWakeup' /\ WordTellsWakeup'
BY DEF OneWakeup, WordTellsWakeup, WakeupUnderWay

\* Outside runtime_SemacquireMutex and runtime_Semrelease a goroutine is running.
LEMMA RunningOutside ==
  ASSUME TypeOK, SemRoles, NEW g \in Goroutines, pc[g] \notin {"sem", "wake", "handoff"}
  PROVE  sst[g] = "running"
<1>1. sst[g] \in SemStates
  BY DEF TypeOK, SemTypeOK
<1>2. sst[g] \notin {"xadded", "waking", "parked", "dequeued", "ready", "ticket"}
  BY DEF SemRoles
<1>3. QED  BY <1>1, <1>2 DEF SemStates

\* A goroutine that comes back from the semaphore in starvation mode finds the
\* word as the hand-off left it.
LEMMA HandedOff ==
  ASSUME TypeOK, OneWakeup, WordTellsWakeup, TokenKnows, CountIsExact, NEW g \in Goroutines,
         pc[g] = "grant" \/ (pc[g] = "woken" /\ "starving" \in state.flags)
  PROVE  state.flags = {"starving"} /\ state.waiters > 0
<1>1. state.flags = {"starving"}
  BY DEF WordTellsWakeup, WakeupUnderWay, Token, TokenKnows
<1>2. g \in Waiters /\ IsFiniteSet(Waiters)
  BY MutexAssumption, FS_Subset DEF Waiters
<1>3. Cardinality(Waiters) # 0 /\ Cardinality(Waiters) \in Nat
  BY <1>2, FS_EmptySet, FS_CardinalityType
<1>4. Cardinality(Waiters) = state.waiters
  <2>1. ~InTransit /\ state.waiters \in Nat
    BY <1>1 DEF InTransit, TypeOK, Word
  <2>2. QED  BY <2>1 DEF CountIsExact
<1>5. QED  BY <1>1, <1>3, <1>4

\* A goroutine that expects mutexWoken in the word it has read finds it there.
LEMMA CASFindsWoken ==
  ASSUME TokenKnows, NEW g \in Goroutines, LockCAS(g)
  PROVE  ~(awoke[g] /\ "woken" \notin old[g].flags)
BY DEF TokenKnows, LockCAS

\* One wakeup at a time, and the word tells of it.
LEMMA NextWakeups ==
  ASSUME TypeOK, NoThrow, SemRoles, QueueIsParked, LockedIsHeld,
         OneWakeup, WordTellsWakeup, TokenKnows, LocalsFresh, CountIsExact,
         [Next]_vars
  PROVE  OneWakeup' /\ WordTellsWakeup' /\ TokenKnows' /\ LocalsFresh'
<1> USE MutexAssumption, NoneAssumption DEF TypeOK, SemTypeOK
<1>1. ASSUME NEW g \in Goroutines, LockFast(g)
      PROVE  OneWakeup' /\ WordTellsWakeup' /\ TokenKnows' /\ LocalsFresh'
  <2>1. \/ state.flags = {} /\ state'.flags = {"locked"} /\ pc' = [pc EXCEPT ![g] = "cs"]
        \/ state' = state /\ pc' = [pc EXCEPT ![g] = "load"]
    BY <1>1 DEF LockFast, Unlocked
  <2>2. pc[g] = "idle" /\ ~awoke[g] /\ ~starving[g] /\ UNCHANGED <<semval, sst, old, awoke, starving>>
    BY <1>1 DEF LockFast, LocalsFresh, semvars, locals
  <2>3. \A h \in Goroutines : Token(h)' <=> Token(h)
    BY <2>1, <2>2 DEF Token
  <2>4. OneWakeup' /\ WordTellsWakeup'
    BY <2>1, <2>2, <2>3, TokenStays DEF WordTellsWakeup
  <2>5. TokenKnows'
    BY ZenonT(40), <2>1, <2>2 DEF TokenKnows
  <2>6. LocalsFresh'
    BY <2>1, <2>2 DEF LocalsFresh
  <2>7. QED  BY <2>4, <2>5, <2>6
<1>2. ASSUME NEW g \in Goroutines, LockLoad(g)
      PROVE  OneWakeup' /\ WordTellsWakeup' /\ TokenKnows' /\ LocalsFresh'
  <2>1. \A h \in Goroutines : Token(h)' <=> Token(h)
    BY <1>2 DEF LockLoad, Token, semvars
  <2>2. OneWakeup' /\ WordTellsWakeup'
    BY <1>2, <2>1, TokenStays DEF WordTellsWakeup, LockLoad, semvars
  <2>3. TokenKnows'
    BY <1>2 DEF LockLoad, TokenKnows, semvars
  <2>4. LocalsFresh'
    BY <1>2 DEF LockLoad, LocalsFresh, semvars
  <2>5. QED  BY <2>2, <2>3, <2>4
<1>3. ASSUME NEW g \in Goroutines, LockSpin(g)
      PROVE  OneWakeup' /\ WordTellsWakeup' /\ TokenKnows' /\ LocalsFresh'
  <2>1. /\ pc[g] = "loop" /\ "locked" \in old[g].flags /\ "starving" \notin old[g].flags
        /\ pc' = [pc EXCEPT ![g] = "load"]
        /\ UNCHANGED <<semval, sst, old, starving>>
    BY <1>3 DEF LockSpin, CanSpin, Contended, semvars
  <2>2. CASE UNCHANGED <<state, awoke>>
    <3>1. \A h \in Goroutines : Token(h)' <=> Token(h)
      BY <2>1, <2>2 DEF Token
    <3>2. QED
      BY <2>1, <2>2, <3>1, TokenStays DEF WordTellsWakeup, TokenKnows, LocalsFresh
  <2>3. CASE /\ ~awoke[g] /\ state.flags = old[g].flags /\ "woken" \notin state.flags
             /\ state'.flags = state.flags \cup {"woken"}
             /\ awoke' = [awoke EXCEPT ![g] = TRUE]
    <3>1. ~WakeupUnderWay
      BY <2>1, <2>3 DEF WordTellsWakeup
    <3>2. \A h \in Goroutines : Token(h)' <=> Token(h) \/ h = g
      BY <2>1, <2>3 DEF Token
    <3>3. OneWakeup' /\ WordTellsWakeup'
      BY <2>1, <2>3, <3>1, <3>2, TokenCreated
    <3>4. TokenKnows' /\ LocalsFresh'
      BY <2>1, <2>3, <3>1 DEF TokenKnows, LocalsFresh, WakeupUnderWay, Token
    <3>5. QED  BY <3>3, <3>4
  <2>4. UNCHANGED <<state, awoke>> \/
             /\ ~awoke[g] /\ state.flags = old[g].flags /\ "woken" \notin state.flags
             /\ state'.flags = state.flags \cup {"woken"}
             /\ awoke' = [awoke EXCEPT ![g] = TRUE]
    BY <1>3 DEF LockSpin
  <2>5. QED  BY <2>2, <2>3, <2>4
<1>4. ASSUME NEW g \in Goroutines, LockCAS(g)
      PROVE  OneWakeup' /\ WordTellsWakeup' /\ TokenKnows' /\ LocalsFresh'
  <2>1. pc[g] = "loop" /\ sst[g] # "ticket" /\ UNCHANGED <<semval, sst>>
    BY <1>4 DEF LockCAS, SemRoles, semvars
  <2>2. CASE UNCHANGED <<state, locals>> /\ pc' = [pc EXCEPT ![g] = "load"]
    <3>1. \A h \in Goroutines : Token(h)' <=> Token(h)
      BY <2>1, <2>2 DEF Token, locals
    <3>2. QED
      BY <2>1, <2>2, <3>1, TokenStays DEF WordTellsWakeup, TokenKnows, LocalsFresh, locals
  <2>3. CASE state = old[g] /\ state' = NewWord(g)
    <3> DEFINE fs == state.flags
    <3>1. \E label \in {"cs", "sem"} : pc' = [pc EXCEPT ![g] = label]
      BY <1>4, <2>3, CASFindsWoken DEF LockCAS
    <3>2. \A h \in Goroutines : h # g => UNCHANGED <<old[h], awoke[h], starving[h]>>
      BY <1>4, <2>3 DEF LockCAS, locals
    <3>3. pc'[g] = "cs" => ~awoke'[g] /\ ~starving'[g]
      BY <1>4, <2>3 DEF LockCAS
    <3>4. /\ "locked" \in state'.flags <=> "locked" \in fs \/ "starving" \notin fs
          /\ "woken" \in state'.flags <=> "woken" \in fs /\ ~awoke[g]
          /\ "starving" \in state'.flags <=> "starving" \in fs \/ (starving[g] /\ "locked" \in fs)
          /\ fs \subseteq Flags /\ state'.flags \subseteq Flags
      <4>1. old[g] \in Word
        OBVIOUS
      <4>2. fs \subseteq Flags /\ NewWord(g).flags \subseteq Flags
        BY DEF NewWord, LockedFlag, StarvingFlag, WokenFlag, Word, Flags
      <4>3. QED  BY <2>3, <4>1, <4>2, NewWordFlags
    <3>5. starving[g] => awoke[g]
      BY <2>1 DEF TokenKnows
    <3>6. \A h \in Goroutines : Token(h)' <=> Token(h) /\ h # g
      BY <2>1, <3>1, <3>2 DEF Token
    <3>7. OneWakeup' /\ WordTellsWakeup'
      <4>1. CASE awoke[g]
        <5>1. Token(g) /\ "woken" \in fs /\ "starving" \notin fs
          BY <2>1, <4>1 DEF Token, TokenKnows, WordTellsWakeup
        <5>2. "woken" \notin state'.flags /\ state'.flags # {"starving"}
          BY <3>4, <4>1, <5>1
        <5>3. QED  BY <2>1, <3>6, <5>1, <5>2, TokenRetired
      <4>2. CASE ~awoke[g]
        <5>1. ~Token(g)
          BY <2>1, <4>2 DEF Token
        <5>2. \A h \in Goroutines : Token(h)' <=> Token(h)
          BY <3>6, <5>1
        <5>3. /\ "woken" \in state'.flags <=> "woken" \in fs
              /\ "starving" \in state'.flags <=> "starving" \in fs
          BY <3>4, <3>5, <4>2
        <5>4. state'.flags = {"starving"} <=> fs = {"starving"}
          BY <3>4, <5>3, OnlyStarving
        <5>5. ~({"woken", "starving"} \subseteq state'.flags)
          BY <5>3 DEF WordTellsWakeup
        <5>6. QED  BY <2>1, <5>2, <5>3, <5>4, <5>5, TokenStays
      <4>3. QED  BY <4>1, <4>2
    <3>8. TokenKnows'
      <4>1. CASE awoke[g]
        <5>1. Token(g) /\ \A h \in Goroutines : h # g => ~Token(h)
          BY <2>1, <4>1 DEF Token, OneWakeup
        <5>2. QED  BY <2>1, <3>1, <3>2, <5>1 DEF TokenKnows, Token
      <4>2. CASE ~awoke[g]
        <5>1. /\ "woken" \in state'.flags <=> "woken" \in fs
              /\ fs = {"starving"} => state'.flags = {"starving"}
          BY <3>4, <3>5, <4>2, OnlyStarving
        <5>2. QED  BY <2>1, <3>1, <3>2, <5>1 DEF TokenKnows
      <4>3. QED  BY <4>1, <4>2
    <3>9. LocalsFresh'
      BY <2>1, <3>1, <3>2, <3>3 DEF LocalsFresh
    <3>10. QED  BY <3>7, <3>8, <3>9
  <2>4. QED  BY <1>4, <2>2, <2>3, CASFindsWoken DEF LockCAS
<1>5. ASSUME NEW g \in Goroutines, LockSleep(g)
      PROVE  OneWakeup' /\ WordTellsWakeup' /\ TokenKnows' /\ LocalsFresh'
  <2>1. \A h \in Goroutines : Token(h)' <=> Token(h)
    BY <1>5 DEF LockSleep, Token, SemPark, semvars, locals
  <2>2. OneWakeup' /\ WordTellsWakeup'
    BY <1>5, <2>1, TokenStays DEF WordTellsWakeup, LockSleep, SemPark
  <2>3. TokenKnows'
    BY <1>5 DEF LockSleep, TokenKnows, SemPark, semvars, locals
  <2>4. LocalsFresh'
    BY <1>5 DEF LockSleep, LocalsFresh, semvars, locals
  <2>5. QED  BY <2>2, <2>3, <2>4
<1>6. ASSUME NEW g \in Goroutines, LockAwake(g)
      PROVE  OneWakeup' /\ WordTellsWakeup' /\ TokenKnows' /\ LocalsFresh'
  <2>1. pc[g] = "sem" /\ pc' = [pc EXCEPT ![g] = "woken"]
        /\ UNCHANGED <<state, old, awoke, starving>>
    BY <1>6 DEF LockAwake
  <2>2. CASE SemTake(g, Sema)
    <3>1. /\ semval[Sema] = 1 /\ semval'[Sema] = 0
          /\ sst[g] \in {"running", "ready"} /\ sst' = [sst EXCEPT ![g] = "running"]
      BY <2>2 DEF SemTake, OneWakeup
    <3>2. \A h \in Goroutines : ~Token(h)
      BY <3>1 DEF OneWakeup
    <3>3. \A h \in Goroutines : Token(h)' <=> h = g
      BY <2>1, <3>1, <3>2 DEF Token
    <3>4. OneWakeup'
      BY <3>1, <3>3 DEF OneWakeup
    <3>5. WordTellsWakeup'
      BY <2>1, <3>1, <3>3 DEF WordTellsWakeup, WakeupUnderWay
    <3>6. TokenKnows' /\ LocalsFresh'
      BY <2>1, <3>1 DEF TokenKnows, LocalsFresh
    <3>7. QED  BY <3>4, <3>5, <3>6
  <2>3. CASE SemTicket(g)
    <3>1. sst[g] = "ticket" /\ sst' = [sst EXCEPT ![g] = "running"] /\ UNCHANGED semval
      BY <2>3 DEF SemTicket
    <3>2. \A h \in Goroutines : Token(h)' <=> Token(h)
      BY <2>1, <3>1 DEF Token
    <3>3. OneWakeup' /\ WordTellsWakeup'
      BY <2>1, <3>1, <3>2, TokenStays DEF WordTellsWakeup
    <3>4. TokenKnows' /\ LocalsFresh'
      BY <2>1, <3>1 DEF TokenKnows, LocalsFresh
    <3>5. QED  BY <3>3, <3>4
  <2>4. QED  BY <1>6, <2>2, <2>3 DEF LockAwake
<1>7. ASSUME NEW g \in Goroutines, LockWoken(g)
      PROVE  OneWakeup' /\ WordTellsWakeup' /\ TokenKnows' /\ LocalsFresh'
  <2>1. /\ pc[g] = "woken" /\ Token(g)
        /\ UNCHANGED <<state, semval, sst>>
        /\ old' = [old EXCEPT ![g] = state]
        /\ \A h \in Goroutines : h # g => starving'[h] = starving[h]
    BY <1>7 DEF LockWoken, Token, semvars
  <2>2. CASE "starving" \in state.flags
    <3>1. state.flags = {"starving"} /\ state.waiters > 0
      BY <2>1, <2>2, HandedOff
    <3>2. pc' = [pc EXCEPT ![g] = "grant"] /\ UNCHANGED awoke
      BY <1>7, <3>1 DEF LockWoken
    <3>3. \A h \in Goroutines : Token(h)' <=> Token(h)
      BY <2>1, <3>2 DEF Token
    <3>4. OneWakeup' /\ WordTellsWakeup'
      BY <2>1, <3>3, TokenStays DEF WordTellsWakeup
    <3>5. TokenKnows'
      BY <2>1, <3>1, <3>2 DEF TokenKnows
    <3>6. LocalsFresh'
      BY <2>1, <3>2 DEF LocalsFresh
    <3>7. QED  BY <3>4, <3>5, <3>6
  <2>3. CASE "starving" \notin state.flags
    <3>1. pc' = [pc EXCEPT ![g] = "loop"] /\ awoke' = [awoke EXCEPT ![g] = TRUE]
      BY <1>7, <2>3 DEF LockWoken
    <3>2. \A h \in Goroutines : Token(h)' <=> Token(h)
      BY <2>1, <3>1 DEF Token
    <3>3. "woken" \in state.flags
      BY <2>1, <2>3 DEF WordTellsWakeup, WakeupUnderWay
    <3>4. OneWakeup' /\ WordTellsWakeup'
      BY <2>1, <3>2, TokenStays DEF WordTellsWakeup
    <3>5. TokenKnows'
      BY <2>1, <3>1, <3>3 DEF TokenKnows
    <3>6. LocalsFresh'
      BY <2>1, <3>1 DEF LocalsFresh
    <3>7. QED  BY <3>4, <3>5, <3>6
  <2>4. QED  BY <2>2, <2>3
<1>8. ASSUME NEW g \in Goroutines, LockGrant(g)
      PROVE  OneWakeup' /\ WordTellsWakeup' /\ TokenKnows' /\ LocalsFresh'
  <2>1. pc[g] = "grant" /\ UNCHANGED <<semval, sst>>
    BY <1>8 DEF LockGrant, semvars
  <2>2. state.flags = {"starving"} /\ state.waiters > 0
    BY <2>1, HandedOff
  <2>3. /\ pc' = [pc EXCEPT ![g] = "cs"]
        /\ "locked" \in state'.flags /\ "woken" \notin state'.flags
        /\ awoke' = [awoke EXCEPT ![g] = FALSE] /\ starving' = [starving EXCEPT ![g] = FALSE]
        /\ \A h \in Goroutines : h # g => old'[h] = old[h]
    <3>1. "locked" \notin state.flags /\ "woken" \notin state.flags /\ "starving" \in state.flags
      BY <2>2
    <3>2. PICK out \in SUBSET {"starving"} :
            state' = MkWord((state.flags \cup {"locked"}) \ out, state.waiters - 1)
      BY <1>8, <2>2, <3>1 DEF LockGrant
    <3>3. "locked" \in state'.flags /\ "woken" \notin state'.flags
      BY <3>1, <3>2
    <3>4. QED  BY <1>8, <2>2, <3>1, <3>3 DEF LockGrant
  <2>4. Token(g) /\ \A h \in Goroutines : h # g => ~Token(h)
    BY <2>1 DEF Token, OneWakeup
  <2>5. \A h \in Goroutines : Token(h)' <=> Token(h) /\ h # g
    BY <2>1, <2>3 DEF Token, SemRoles
  <2>6. OneWakeup' /\ WordTellsWakeup'
    <3>1. state'.flags # {"starving"}
      BY <2>3
    <3>2. QED  BY <2>1, <2>3, <2>4, <2>5, <3>1, TokenRetired
  <2>7. TokenKnows'
    BY <2>1, <2>3, <2>4 DEF TokenKnows, Token
  <2>8. LocalsFresh'
    BY <2>1, <2>3 DEF LocalsFresh
  <2>9. QED  BY <2>6, <2>7, <2>8
<1>9. ASSUME NEW g \in Goroutines, Unlock(g)
       PROVE  OneWakeup' /\ WordTellsWakeup' /\ TokenKnows' /\ LocalsFresh'
  <2> DEFINE fs == state.flags
  <2>1. pc[g] = "cs" /\ "locked" \in fs /\ UNCHANGED <<semval, sst, awoke, starving>>
    BY <1>9 DEF Unlock, LockedIsHeld, semvars
  <2>2. sst[g] = "running"
    BY <2>1, RunningOutside
  <2>3. /\ state'.flags = fs \ {"locked"}
        /\ \A h \in Goroutines : h # g => old'[h] = old[h]
        /\ IF "starving" \in fs THEN pc' = [pc EXCEPT ![g] = "handoff"]
                                ELSE \E label \in {"idle", "uloop"} : pc' = [pc EXCEPT ![g] = label]
    BY <1>9, <2>1 DEF Unlock, Unlocked
  <2>4. CASE "starving" \in fs
    <3>1. ~WakeupUnderWay /\ "woken" \notin fs
      BY <2>1, <2>4 DEF WordTellsWakeup
    <3>2. state'.flags = {"starving"}
      <4>1. fs \in SUBSET Flags
        BY DEF Word
      <4>2. QED  BY <2>3, <2>4, <3>1, <4>1 DEF Flags
    <3>3. \A h \in Goroutines : Token(h)' <=> Token(h) \/ h = g
      BY <2>1, <2>2, <2>3, <2>4 DEF Token
    <3>4. OneWakeup' /\ WordTellsWakeup'
      BY <2>1, <3>1, <3>2, <3>3, TokenCreated
    <3>5. TokenKnows' /\ LocalsFresh'
      BY ZenonT(40), <2>1, <2>3, <2>4, <3>1, <3>2 DEF TokenKnows, LocalsFresh, WakeupUnderWay, Token
    <3>6. QED  BY <3>4, <3>5
  <2>5. CASE "starving" \notin fs
    <3>1. \A h \in Goroutines : Token(h)' <=> Token(h)
      BY <2>1, <2>3, <2>5 DEF Token
    <3>2. /\ "woken" \in state'.flags <=> "woken" \in fs
          /\ "starving" \notin state'.flags
      BY <2>3, <2>5
    <3>3. OneWakeup' /\ WordTellsWakeup'
      BY <2>1, <2>5, <3>1, <3>2, TokenStays
    <3>4. TokenKnows' /\ LocalsFresh'
      BY <2>1, <2>3, <2>5, <3>2 DEF TokenKnows, LocalsFresh
    <3>5. QED  BY <3>3, <3>4
  <2>6. QED  BY <2>4, <2>5
<1>10. ASSUME NEW g \in Goroutines, UnlockDone(g)
       PROVE  OneWakeup' /\ WordTellsWakeup' /\ TokenKnows' /\ LocalsFresh'
  <2>1. \A h \in Goroutines : Token(h)' <=> Token(h)
    BY <1>10 DEF UnlockDone, Token, semvars
  <2>2. OneWakeup' /\ WordTellsWakeup'
    BY <1>10, <2>1, TokenStays DEF WordTellsWakeup, UnlockDone, semvars
  <2>3. TokenKnows'
    BY <1>10 DEF UnlockDone, TokenKnows, semvars
  <2>4. LocalsFresh'
    BY <1>10 DEF UnlockDone, LocalsFresh, semvars
  <2>5. QED  BY <2>2, <2>3, <2>4
<1>11. ASSUME NEW g \in Goroutines, UnlockCAS(g)
       PROVE  OneWakeup' /\ WordTellsWakeup' /\ TokenKnows' /\ LocalsFresh'
  <2>1. /\ pc[g] = "uloop" /\ old[g].flags = {} /\ sst[g] = "running"
        /\ UNCHANGED <<semval, sst, old, awoke, starving>>
    BY <1>11, RunningOutside DEF UnlockCAS, semvars, locals
  <2>2. CASE state' = state /\ pc' = [pc EXCEPT ![g] = "uload"]
    <3>1. \A h \in Goroutines : Token(h)' <=> Token(h)
      BY <2>1, <2>2 DEF Token
    <3>2. QED
      BY <2>1, <2>2, <3>1, TokenStays DEF WordTellsWakeup, TokenKnows, LocalsFresh
  <2>3. CASE state.flags = {} /\ state'.flags = {"woken"} /\ pc' = [pc EXCEPT ![g] = "wake"]
    <3>1. ~WakeupUnderWay
      BY <2>3 DEF WordTellsWakeup
    <3>2. \A h \in Goroutines : Token(h)' <=> Token(h) \/ h = g
      BY <2>1, <2>3 DEF Token
    <3>3. OneWakeup' /\ WordTellsWakeup'
      BY <2>1, <2>3, <3>1, <3>2, TokenCreated
    <3>4. TokenKnows' /\ LocalsFresh'
      BY <2>1, <2>3, <3>1 DEF TokenKnows, LocalsFresh, WakeupUnderWay, Token
    <3>5. QED  BY <3>3, <3>4
  <2>4. QED  BY <1>11, <2>1, <2>2, <2>3 DEF UnlockCAS
<1>12. ASSUME NEW g \in Goroutines, UnlockLoad(g)
       PROVE  OneWakeup' /\ WordTellsWakeup' /\ TokenKnows' /\ LocalsFresh'
  <2>1. \A h \in Goroutines : Token(h)' <=> Token(h)
    BY <1>12 DEF UnlockLoad, Token, semvars
  <2>2. OneWakeup' /\ WordTellsWakeup'
    BY <1>12, <2>1, TokenStays DEF WordTellsWakeup, UnlockLoad, semvars
  <2>3. TokenKnows'
    BY <1>12 DEF UnlockLoad, TokenKnows, semvars
  <2>4. LocalsFresh'
    BY <1>12 DEF UnlockLoad, LocalsFresh, semvars
  <2>5. QED  BY <2>2, <2>3, <2>4
<1>13. ASSUME NEW g \in Goroutines, UnlockRelease(g)
       PROVE  OneWakeup' /\ WordTellsWakeup' /\ TokenKnows' /\ LocalsFresh'
  <2>1. pc[g] \in {"wake", "handoff"} /\ UNCHANGED <<state, pc, old, awoke, starving>>
    BY <1>13 DEF UnlockRelease, locals
  <2>2. CASE SemInc(g, Sema)
    <3>1. /\ sst[g] = "running" /\ Token(g)
          /\ semval'[Sema] = semval[Sema] + 1 /\ sst' = [sst EXCEPT ![g] = "xadded"]
      BY <2>1, <2>2 DEF SemInc, Token
    <3>2. semval[Sema] = 0 /\ semval'[Sema] = 1
      BY <3>1 DEF OneWakeup
    <3>3. \A h \in Goroutines : ~Token(h)'
      BY <2>1, <3>1 DEF Token, OneWakeup, SemRoles
    <3>4. OneWakeup' /\ WordTellsWakeup'
      BY <2>1, <3>1, <3>2, <3>3 DEF OneWakeup, WordTellsWakeup, WakeupUnderWay
    <3>5. TokenKnows' /\ LocalsFresh'
      BY <2>1, <3>1 DEF TokenKnows, LocalsFresh
    <3>6. QED  BY <3>4, <3>5
  <2>3. CASE SemDequeue(g, Sema)
    <3> DEFINE f == Head(waitq[Sema])
    <3>1. f \in Goroutines /\ sst[f] = "parked" /\ sst[g] = "xadded" /\ UNCHANGED semval
      BY <2>3, HeadIsParked DEF SemDequeue
    <3>2. sst' = [sst EXCEPT ![g] = "waking", ![f] = "dequeued"]
      BY <2>3 DEF SemDequeue
    <3> HIDE DEF f
    <3>3. \A h \in Goroutines : /\ sst'[h] = "running" <=> sst[h] = "running"
                                /\ sst'[h] = "ticket" <=> sst[h] = "ticket"
      BY <3>1, <3>2
    <3>4. \A h \in Goroutines : Token(h)' <=> Token(h)
      BY <2>1, <3>3 DEF Token
    <3>5. OneWakeup' /\ WordTellsWakeup'
      BY <2>1, <3>1, <3>4, TokenStays DEF WordTellsWakeup
    <3>6. TokenKnows' /\ LocalsFresh'
      BY <2>1, <3>3 DEF TokenKnows, LocalsFresh
    <3>7. QED  BY <3>5, <3>6
  <2>4. QED  BY <1>13, <2>2, <2>3 DEF UnlockRelease
<1>14. ASSUME NEW g \in Goroutines, UnlockReturn(g)
       PROVE  OneWakeup' /\ WordTellsWakeup' /\ TokenKnows' /\ LocalsFresh'
  <2>1. /\ pc[g] \in {"wake", "handoff"} /\ pc' = [pc EXCEPT ![g] = "idle"]
        /\ UNCHANGED state
        /\ awoke' = [awoke EXCEPT ![g] = FALSE] /\ starving' = [starving EXCEPT ![g] = FALSE]
        /\ \A h \in Goroutines : h # g => old'[h] = old[h]
    BY <1>14 DEF UnlockReturn
  <2>2. CASE SemNoWaiter(g, Sema)
    <3>1. sst[g] = "xadded" /\ sst' = [sst EXCEPT ![g] = "running"] /\ UNCHANGED semval
      BY <2>2 DEF SemNoWaiter
    <3>2. \A h \in Goroutines : Token(h)' <=> Token(h)
      BY <2>1, <3>1 DEF Token
    <3>3. OneWakeup' /\ WordTellsWakeup'
      BY <2>1, <3>1, <3>2, TokenStays DEF WordTellsWakeup
    <3>4. TokenKnows' /\ LocalsFresh'
      BY <2>1, <3>1 DEF TokenKnows, LocalsFresh
    <3>5. QED  BY <3>3, <3>4
  <2>3. CASE SemReady(g, Sema, pc[g] = "handoff")
    <3> DEFINE f == wakee[g]
    <3>1. f \in Goroutines /\ sst[g] = "waking" /\ sst[f] = "dequeued" /\ pc[f] = "sem" /\ f # g
      BY <2>3 DEF SemReady, SemRoles
    <3>2. \/ /\ sst' = [sst EXCEPT ![g] = "running", ![f] = "ready"]
             /\ UNCHANGED semval
          \/ /\ semval[Sema] > 0 /\ semval'[Sema] = semval[Sema] - 1
             /\ sst' = [sst EXCEPT ![g] = "running", ![f] = "ticket"]
      BY <2>3 DEF SemReady
    <3> HIDE DEF f
    <3>3. OneWakeup' /\ WordTellsWakeup'
      <4>1. CASE /\ sst' = [sst EXCEPT ![g] = "running", ![f] = "ready"]
                 /\ UNCHANGED semval
        <5>1. \A h \in Goroutines : Token(h)' <=> Token(h)
          BY <2>1, <3>1, <4>1 DEF Token
        <5>2. QED  BY <2>1, <4>1, <5>1, TokenStays DEF WordTellsWakeup
      <4>2. CASE /\ semval[Sema] > 0 /\ semval'[Sema] = semval[Sema] - 1
                 /\ sst' = [sst EXCEPT ![g] = "running", ![f] = "ticket"]
        <5>1. semval[Sema] = 1 /\ semval'[Sema] = 0 /\ \A h \in Goroutines : ~Token(h)
          BY <4>2 DEF OneWakeup
        <5>2. \A h \in Goroutines : Token(h)' <=> h = f
          BY <2>1, <3>1, <4>2, <5>1 DEF Token
        <5>3. OneWakeup'
          BY <5>1, <5>2 DEF OneWakeup
        <5>4. WordTellsWakeup'
          BY <2>1, <3>1, <5>1, <5>2 DEF WordTellsWakeup, WakeupUnderWay
        <5>5. QED  BY <5>3, <5>4
      <4>3. QED  BY <3>2, <4>1, <4>2
    <3>4. \A h \in Goroutines : h # g => sst'[h] = "running" <=> sst[h] = "running"
      BY <3>1, <3>2
    <3>5. TokenKnows' /\ LocalsFresh'
      BY <2>1, <3>4 DEF TokenKnows, LocalsFresh
    <3>6. QED  BY <3>3, <3>5
  <2>4. QED  BY <1>14, <2>2, <2>3 DEF UnlockReturn
<1>15. CASE UNCHANGED vars
  <2>1. \A h \in Goroutines : Token(h)' <=> Token(h)
    BY <1>15 DEF Token, vars, semvars, locals
  <2>2. QED
    BY <1>15, <2>1, TokenStays DEF vars, semvars, locals, WordTellsWakeup, TokenKnows, LocalsFresh
<1>16. QED
  BY <1>1, <1>2, <1>3, <1>4, <1>5, <1>6, <1>7, <1>8, <1>9, <1>10, <1>11,
     <1>12, <1>13, <1>14, <1>15 DEF Next, LockStep, UnlockStep

\* How the waiter count follows the set of waiters.
LEMMA CountSame ==
  ASSUME CountIsExact, Waiters' = Waiters, state'.waiters = state.waiters,
         InTransit' <=> InTransit
  PROVE  CountIsExact'
BY DEF CountIsExact

\* The waiters can be counted.
LEMMA WaitersFinite == IsFiniteSet(Waiters) /\ Cardinality(Waiters) \in Nat
<1>1. IsFiniteSet(Waiters)
  BY MutexAssumption, FS_Subset DEF Waiters
<1>2. QED  BY <1>1, FS_CardinalityType

\* One goroutine joins the waiters and the count goes up by one.
LEMMA CountUp ==
  ASSUME CountIsExact, NEW g \in Goroutines, g \notin Waiters, Waiters' = Waiters \cup {g},
         state.waiters \in Nat, state'.waiters = state.waiters + 1, InTransit' <=> InTransit
  PROVE  CountIsExact'
<1>1. Cardinality(Waiters') = Cardinality(Waiters) + 1
  BY WaitersFinite, FS_AddElement
<1>2. QED  BY <1>1, WaitersFinite DEF CountIsExact

\* One goroutine leaves the waiters and the count goes down by one.
LEMMA CountDown ==
  ASSUME CountIsExact, NEW g \in Goroutines, g \in Waiters, Waiters' = Waiters \ {g},
         state.waiters \in Nat,
         \/ state'.waiters = state.waiters - 1 /\ (InTransit' <=> InTransit)
         \/ state'.waiters = state.waiters /\ InTransit /\ ~InTransit'
  PROVE  CountIsExact'
<1>1. Cardinality(Waiters') = Cardinality(Waiters) - 1
  BY WaitersFinite, FS_RemoveElement
<1>2. QED  BY <1>1, WaitersFinite DEF CountIsExact

\* The waiter count stays exact.
LEMMA NextCountIsExact ==
  ASSUME TypeOK, OneWakeup, WordTellsWakeup, TokenKnows, LocalsFresh, LockedIsHeld,
         CountIsExact,
         [Next]_vars
  PROVE  CountIsExact'
<1> USE DEF TypeOK
<1>1. ASSUME NEW g \in Goroutines, LockFast(g)
      PROVE  CountIsExact'
  <2>1. Waiters' = Waiters
    BY <1>1 DEF LockFast, Waiters
  <2>2. state'.waiters = state.waiters
    BY <1>1 DEF LockFast, Unlocked
  <2>3. InTransit' <=> InTransit
    <3>1. \/ "woken" \notin state.flags /\ "woken" \notin state'.flags
          \/ state' = state /\ pc' = [pc EXCEPT ![g] = "load"]
      BY <1>1 DEF LockFast, Unlocked
    <3>2. pc[g] = "idle" /\ ~awoke[g] /\ UNCHANGED awoke
      BY <1>1 DEF LockFast, LocalsFresh, locals
    <3>3. QED  BY <3>1, <3>2 DEF InTransit
  <2>4. QED  BY <2>1, <2>2, <2>3, CountSame
<1>2. ASSUME NEW g \in Goroutines, LockLoad(g)
      PROVE  CountIsExact'

  <2>1. Waiters' = Waiters
    BY <1>2 DEF LockLoad, Waiters
  <2>2. InTransit' <=> InTransit
    BY <1>2 DEF LockLoad, InTransit, locals
  <2>3. QED  BY <1>2, <2>1, <2>2, CountSame DEF LockLoad
<1>3. ASSUME NEW g \in Goroutines, LockSpin(g)
      PROVE  CountIsExact'
  <2>1. Waiters' = Waiters
    BY <1>3 DEF LockSpin, Waiters
  <2>2. CASE UNCHANGED <<state, awoke>>
    <3>1. InTransit' <=> InTransit
      BY <1>3, <2>2 DEF LockSpin, InTransit
    <3>2. QED  BY <2>1, <2>2, <3>1, CountSame
  <2>3. CASE /\ "woken" \notin state.flags /\ state'.waiters = state.waiters
             /\ awoke' = [awoke EXCEPT ![g] = TRUE]
    <3>1. ~InTransit
      BY <2>3 DEF InTransit
    <3>2. pc'[g] = "load" /\ awoke'[g]
      BY <1>3, <2>3 DEF LockSpin
    <3>3. ~InTransit'
      BY <3>2 DEF InTransit
    <3>4. QED  BY <2>1, <2>3, <3>1, <3>3, CountSame
  <2>4. QED  BY <1>3, <2>2, <2>3 DEF LockSpin
<1>4. ASSUME NEW g \in Goroutines, LockCAS(g)
      PROVE  CountIsExact'
  <2>1. pc[g] = "loop" /\ g \notin Waiters /\ old[g] \in Word
    BY <1>4 DEF LockCAS, Waiters
  <2>2. CASE UNCHANGED <<state, locals>> /\ pc' = [pc EXCEPT ![g] = "load"]
    <3>1. Waiters' = Waiters /\ (InTransit' <=> InTransit)
      BY <2>1, <2>2 DEF Waiters, InTransit, locals
    <3>2. QED  BY <2>2, <3>1, CountSame
  <2>3. CASE state = old[g] /\ state' = NewWord(g)
    <3>1. pc' = [pc EXCEPT ![g] = IF Acquires(g) THEN "cs" ELSE "sem"]
      BY <1>4, <2>3, CASFindsWoken DEF LockCAS
    <3>2. \A h \in Goroutines : h # g => awoke'[h] = awoke[h]
      BY <1>4, <2>3 DEF LockCAS, locals
    <3>3. state'.waiters = IF Acquires(g) THEN state.waiters ELSE state.waiters + 1
      BY <2>1, <2>3, NewWordFlags
    <3>4. "woken" \in state'.flags <=> "woken" \in state.flags /\ ~awoke[g]
      BY <2>1, <2>3, NewWordFlags
    <3>5. \A h \in Goroutines : pc'[h] \in {"load", "loop"} /\ awoke'[h]
                                 <=> pc[h] \in {"load", "loop"} /\ awoke[h] /\ h # g
      BY <2>1, <3>1, <3>2
    <3>6. InTransit' <=> InTransit
      BY <2>1, <3>4, <3>5 DEF InTransit
    <3>7. Waiters' = IF Acquires(g) THEN Waiters ELSE Waiters \cup {g}
      BY <2>1, <3>1 DEF Waiters
    <3>8. state.waiters \in Nat
      BY DEF Word
    <3>9. QED  BY <2>1, <3>3, <3>6, <3>7, <3>8, CountSame, CountUp
  <2>4. QED  BY <1>4, <2>2, <2>3, CASFindsWoken DEF LockCAS
<1>5. ASSUME NEW g \in Goroutines, LockSleep(g)
      PROVE  CountIsExact'

  <2>1. Waiters' = Waiters
    BY <1>5 DEF LockSleep, Waiters
  <2>2. InTransit' <=> InTransit
    BY <1>5 DEF LockSleep, InTransit, locals
  <2>3. QED  BY <1>5, <2>1, <2>2, CountSame DEF LockSleep
<1>6. ASSUME NEW g \in Goroutines, LockAwake(g)
      PROVE  CountIsExact'

  <2>1. Waiters' = Waiters
    BY <1>6 DEF LockAwake, Waiters
  <2>2. InTransit' <=> InTransit
    BY <1>6 DEF LockAwake, InTransit, locals
  <2>3. QED  BY <1>6, <2>1, <2>2, CountSame DEF LockAwake
<1>7. ASSUME NEW g \in Goroutines, LockWoken(g)
      PROVE  CountIsExact'
  <2>1. pc[g] = "woken" /\ g \in Waiters /\ UNCHANGED state /\ state.waiters \in Nat
    BY <1>7 DEF LockWoken, Waiters, Word
  <2>2. CASE "starving" \in state.flags
    <3>1. state.flags = {"starving"} /\ state.waiters > 0
      BY <2>1, <2>2, HandedOff
    <3>2. pc' = [pc EXCEPT ![g] = "grant"]
      BY <1>7, <3>1 DEF LockWoken
    <3>3. Waiters' = Waiters
      BY <2>1, <3>2 DEF Waiters
    <3>4. InTransit' <=> InTransit
      BY <2>1, <3>1 DEF InTransit
    <3>5. QED  BY <2>1, <3>3, <3>4, CountSame
  <2>3. CASE "starving" \notin state.flags
    <3>1. pc' = [pc EXCEPT ![g] = "loop"] /\ awoke' = [awoke EXCEPT ![g] = TRUE]
      BY <1>7, <2>3 DEF LockWoken
    <3>2. Waiters' = Waiters \ {g}
      BY <2>1, <3>1 DEF Waiters
    <3>3. Token(g)
      BY <2>1 DEF Token
    <3>4. "woken" \in state.flags /\ \A h \in Goroutines : ~(pc[h] \in {"load", "loop"} /\ awoke[h])
      BY <2>1, <2>3, <3>3 DEF WordTellsWakeup, WakeupUnderWay, OneWakeup, Token
    <3>5. InTransit
      BY <3>4 DEF InTransit
    <3>6. pc'[g] = "loop" /\ awoke'[g]
      BY <3>1
    <3>7. ~InTransit'
      BY <3>6 DEF InTransit
    <3>8. QED  BY <2>1, <3>2, <3>5, <3>7, CountDown
  <2>4. QED  BY <2>2, <2>3
<1>8. ASSUME NEW g \in Goroutines, LockGrant(g)
      PROVE  CountIsExact'
  <2>1. pc[g] = "grant" /\ g \in Waiters /\ state.waiters \in Nat
    BY <1>8 DEF LockGrant, Waiters, Word
  <2>2. state.flags = {"starving"} /\ state.waiters > 0
    BY <2>1, HandedOff
  <2>3. /\ pc' = [pc EXCEPT ![g] = "cs"]
        /\ state'.waiters = state.waiters - 1
        /\ state'.flags \subseteq {"starving", "locked"}
    BY <1>8, <2>2 DEF LockGrant
  <2>4. Waiters' = Waiters \ {g}
    BY <2>1, <2>3 DEF Waiters
  <2>5. ~InTransit /\ ~InTransit'
    BY <2>2, <2>3 DEF InTransit
  <2>6. QED  BY <2>1, <2>3, <2>4, <2>5, CountDown
<1>9. ASSUME NEW g \in Goroutines, Unlock(g)
       PROVE  CountIsExact'
  <2>1. pc[g] = "cs" /\ "locked" \in state.flags /\ UNCHANGED awoke
    BY <1>9 DEF Unlock, LockedIsHeld
  <2>2. /\ \E label \in {"idle", "handoff", "uloop"} : pc' = [pc EXCEPT ![g] = label]
        /\ state'.flags = state.flags \ {"locked"} /\ state'.waiters = state.waiters
    BY <1>9, <2>1 DEF Unlock
  <2>3. Waiters' = Waiters
    BY <2>1, <2>2 DEF Waiters
  <2>4. InTransit' <=> InTransit
    BY <2>1, <2>2 DEF InTransit
  <2>5. QED  BY <2>2, <2>3, <2>4, CountSame
<1>10. ASSUME NEW g \in Goroutines, UnlockDone(g)
       PROVE  CountIsExact'

  <2>1. Waiters' = Waiters
    BY <1>10 DEF UnlockDone, Waiters
  <2>2. InTransit' <=> InTransit
    BY <1>10 DEF UnlockDone, InTransit, locals
  <2>3. QED  BY <1>10, <2>1, <2>2, CountSame DEF UnlockDone
<1>11. ASSUME NEW g \in Goroutines, UnlockCAS(g)
       PROVE  CountIsExact'
  <2>1. pc[g] = "uloop" /\ old[g].flags = {} /\ UNCHANGED awoke
    BY <1>11 DEF UnlockCAS, locals
  <2>2. \E label \in {"uload", "wake"} : pc' = [pc EXCEPT ![g] = label]
    BY <1>11 DEF UnlockCAS
  <2>3. Waiters' = Waiters
    BY <2>1, <2>2 DEF Waiters
  <2>4. CASE state' = state
    <3>1. InTransit' <=> InTransit
      BY <2>1, <2>2, <2>4 DEF InTransit
    <3>2. QED  BY <2>3, <2>4, <3>1, CountSame
  <2>5. CASE state.flags = {} /\ state' = MkWord({"woken"}, state.waiters - 1)
    <3>1. ~InTransit
      BY <2>5 DEF InTransit
    <3>2. InTransit'
      BY <2>1, <2>2, <2>5 DEF InTransit, TokenKnows
    <3>3. state'.waiters = state.waiters - 1 /\ state.waiters \in Nat
      BY <2>5 DEF Word
    <3>4. QED  BY <2>3, <3>1, <3>2, <3>3, WaitersFinite DEF CountIsExact
  <2>6. QED  BY <1>11, <2>1, <2>4, <2>5 DEF UnlockCAS
<1>12. ASSUME NEW g \in Goroutines, UnlockLoad(g)
       PROVE  CountIsExact'

  <2>1. Waiters' = Waiters
    BY <1>12 DEF UnlockLoad, Waiters
  <2>2. InTransit' <=> InTransit
    BY <1>12 DEF UnlockLoad, InTransit, locals
  <2>3. QED  BY <1>12, <2>1, <2>2, CountSame DEF UnlockLoad
<1>13. ASSUME NEW g \in Goroutines, UnlockRelease(g)
       PROVE  CountIsExact'

  <2>1. Waiters' = Waiters
    BY <1>13 DEF UnlockRelease, Waiters
  <2>2. InTransit' <=> InTransit
    BY <1>13 DEF UnlockRelease, InTransit, locals
  <2>3. QED  BY <1>13, <2>1, <2>2, CountSame DEF UnlockRelease
<1>14. ASSUME NEW g \in Goroutines, UnlockReturn(g)
       PROVE  CountIsExact'
  <2>1. Waiters' = Waiters
    BY <1>14 DEF UnlockReturn, Waiters
  <2>2. InTransit' <=> InTransit
    BY <1>14 DEF UnlockReturn, InTransit
  <2>3. QED  BY <1>14, <2>1, <2>2, CountSame DEF UnlockReturn
<1>15. CASE UNCHANGED vars
  <2>1. Waiters' = Waiters /\ (InTransit' <=> InTransit)
    BY <1>15 DEF vars, locals, Waiters, InTransit
  <2>2. QED  BY <1>15, <2>1, CountSame DEF vars
<1>16. QED
  BY <1>1, <1>2, <1>3, <1>4, <1>5, <1>6, <1>7, <1>8, <1>9, <1>10, <1>11,
     <1>12, <1>13, <1>14, <1>15 DEF Next, LockStep, UnlockStep

\* No step reaches a throw, and the hand-off's AddInt32 stays inside the fields.
LEMMA NextNoThrow ==
  ASSUME TypeOK, NoThrow, OneWakeup, WordTellsWakeup, TokenKnows, LockedIsHeld, CountIsExact,
         [Next]_vars
  PROVE  NoThrow'
<1> USE DEF NoThrow, TypeOK
<1>1. ASSUME NEW g \in Goroutines, LockFast(g)
      PROVE  NoThrow'
  BY <1>1 DEF LockFast
<1>2. ASSUME NEW g \in Goroutines, LockLoad(g)
      PROVE  NoThrow'
  BY <1>2 DEF LockLoad
<1>3. ASSUME NEW g \in Goroutines, LockSpin(g)
      PROVE  NoThrow'
  BY <1>3 DEF LockSpin
<1>4. ASSUME NEW g \in Goroutines, LockCAS(g)
      PROVE  NoThrow'
  BY <1>4, CASFindsWoken DEF LockCAS
<1>5. ASSUME NEW g \in Goroutines, LockSleep(g)
      PROVE  NoThrow'
  BY <1>5 DEF LockSleep
<1>6. ASSUME NEW g \in Goroutines, LockAwake(g)
      PROVE  NoThrow'
  BY <1>6 DEF LockAwake
<1>7. ASSUME NEW g \in Goroutines, LockWoken(g)
      PROVE  NoThrow'
  <2>1. pc[g] = "woken"
    BY <1>7 DEF LockWoken
  <2>2. "starving" \in state.flags => state.flags = {"starving"} /\ state.waiters > 0
    BY <2>1, HandedOff
  <2>3. state.waiters \in Nat
    BY DEF Word
  <2>4. \E label \in {"grant", "loop"} : pc' = [pc EXCEPT ![g] = label]
    BY <1>7, <2>2, <2>3 DEF LockWoken
  <2>5. QED  BY <2>4
<1>8. ASSUME NEW g \in Goroutines, LockGrant(g)
      PROVE  NoThrow'
  <2>1. state.flags = {"starving"} /\ state.waiters > 0
    BY <1>8, HandedOff DEF LockGrant
  <2>2. pc' = [pc EXCEPT ![g] = "cs"]
    BY <1>8, <2>1 DEF LockGrant
  <2>3. QED  BY <2>2
<1>9. ASSUME NEW g \in Goroutines, Unlock(g)
       PROVE  NoThrow'
  <2>1. "locked" \in state.flags
    BY <1>9 DEF Unlock, LockedIsHeld
  <2>2. \E label \in {"idle", "handoff", "uloop"} : pc' = [pc EXCEPT ![g] = label]
    BY <1>9, <2>1 DEF Unlock
  <2>3. QED  BY <2>2
<1>10. ASSUME NEW g \in Goroutines, UnlockDone(g)
       PROVE  NoThrow'
  BY <1>10 DEF UnlockDone
<1>11. ASSUME NEW g \in Goroutines, UnlockCAS(g)
       PROVE  NoThrow'
  BY <1>11 DEF UnlockCAS
<1>12. ASSUME NEW g \in Goroutines, UnlockLoad(g)
       PROVE  NoThrow'
  BY <1>12 DEF UnlockLoad
<1>13. ASSUME NEW g \in Goroutines, UnlockRelease(g)
       PROVE  NoThrow'
  BY <1>13 DEF UnlockRelease
<1>14. ASSUME NEW g \in Goroutines, UnlockReturn(g)
       PROVE  NoThrow'
  BY <1>14 DEF UnlockReturn
<1>15. CASE UNCHANGED vars
  BY <1>15 DEF vars
<1>16. QED
  BY <1>1, <1>2, <1>3, <1>4, <1>5, <1>6, <1>7, <1>8, <1>9, <1>10, <1>11,
     <1>12, <1>13, <1>14, <1>15 DEF Next, LockStep, UnlockStep

\* h is an unlocker that will look at the word as it is now.
Sees(h) == pc[h] = "uload" \/ (pc[h] = "uloop" /\ old[h] = state)

\* A free mutex with waiters and no wakeup under way does not go unnoticed.
LEMMA NextUnlockerWillSee ==
  ASSUME TypeOK, WordTellsWakeup, TokenKnows, LockedIsHeld, UnlockerWillSee,
         [Next]_vars
  PROVE  UnlockerWillSee'
<1> USE DEF TypeOK
<1>1. ASSUME NEW g \in Goroutines, LockFast(g)
      PROVE  UnlockerWillSee'
  <2>1. "locked" \in state'.flags \/ (state' = state /\ pc[g] = "idle" /\ pc' = [pc EXCEPT ![g] = "load"] /\ UNCHANGED old)
    BY <1>1 DEF LockFast, locals
  <2>2. QED  BY <2>1 DEF UnlockerWillSee
<1>2. ASSUME NEW g \in Goroutines, LockLoad(g)
      PROVE  UnlockerWillSee'

  <2>1. UNCHANGED state
    BY <1>2 DEF LockLoad
  <2>2. \A h \in Goroutines : Sees(h) => Sees(h)'
    BY <1>2, <2>1 DEF LockLoad, Sees, locals
  <2>3. QED  BY <2>1, <2>2 DEF UnlockerWillSee, Sees
<1>3. ASSUME NEW g \in Goroutines, LockSpin(g)
      PROVE  UnlockerWillSee'
  <2>1. "woken" \in state'.flags \/ (state' = state /\ pc[g] = "loop" /\ pc' = [pc EXCEPT ![g] = "load"] /\ UNCHANGED old)
    BY <1>3 DEF LockSpin
  <2>2. QED  BY <2>1 DEF UnlockerWillSee
<1>4. ASSUME NEW g \in Goroutines, LockCAS(g)
      PROVE  UnlockerWillSee'
  <2>1. CASE state' = state /\ (\E label \in {"load", "throw"} : pc' = [pc EXCEPT ![g] = label])
             /\ UNCHANGED old
    BY <1>4, <2>1 DEF LockCAS, UnlockerWillSee
  <2>2. CASE state = old[g] /\ state' = NewWord(g)
    <3>1. "locked" \in state'.flags \/ "starving" \in state'.flags
      BY <2>2, NewWordFlags
    <3>2. QED  BY <3>1 DEF UnlockerWillSee
  <2>3. QED  BY <1>4, <2>1, <2>2 DEF LockCAS, locals
<1>5. ASSUME NEW g \in Goroutines, LockSleep(g)
      PROVE  UnlockerWillSee'

  <2>1. UNCHANGED state
    BY <1>5 DEF LockSleep
  <2>2. \A h \in Goroutines : Sees(h) => Sees(h)'
    BY <1>5, <2>1 DEF LockSleep, Sees, locals
  <2>3. QED  BY <2>1, <2>2 DEF UnlockerWillSee, Sees
<1>6. ASSUME NEW g \in Goroutines, LockAwake(g)
      PROVE  UnlockerWillSee'

  <2>1. UNCHANGED state
    BY <1>6 DEF LockAwake
  <2>2. \A h \in Goroutines : Sees(h) => Sees(h)'
    BY <1>6, <2>1 DEF LockAwake, Sees, locals
  <2>3. QED  BY <2>1, <2>2 DEF UnlockerWillSee, Sees
<1>7. ASSUME NEW g \in Goroutines, LockWoken(g)
      PROVE  UnlockerWillSee'

  <2>1. UNCHANGED state
    BY <1>7 DEF LockWoken
  <2>2. \A h \in Goroutines : Sees(h) => Sees(h)'
    BY <1>7, <2>1 DEF LockWoken, Sees, locals
  <2>3. QED  BY <2>1, <2>2 DEF UnlockerWillSee, Sees
<1>8. ASSUME NEW g \in Goroutines, LockGrant(g)
      PROVE  UnlockerWillSee'
  <2>1. "locked" \in state'.flags \/ UNCHANGED state
    BY <1>8 DEF LockGrant
  <2>2. \A h \in Goroutines : state' = state => (Sees(h) => Sees(h)')
    BY <1>8 DEF LockGrant, Sees
  <2>3. QED  BY <2>1, <2>2 DEF UnlockerWillSee, Sees
<1>9. ASSUME NEW g \in Goroutines, Unlock(g)
       PROVE  UnlockerWillSee'
  <2>1. pc[g] = "cs" /\ "locked" \in state.flags
    BY <1>9 DEF Unlock, LockedIsHeld
  <2> DEFINE new == MkWord(state.flags \ {"locked"}, state.waiters)
  <2>2. state' = new
    BY <1>9, <2>1 DEF Unlock
  <2>3. ASSUME state'.flags = {}, state'.waiters > 0
        PROVE  pc'[g] = "uloop" /\ old'[g] = state'
    <3>1. new # Unlocked /\ new.flags = {}
      BY <2>2, <2>3 DEF Unlocked
    <3>2. QED  BY <1>9, <2>1, <2>2, <3>1 DEF Unlock
  <2>4. QED  BY <2>3 DEF UnlockerWillSee
<1>10. ASSUME NEW g \in Goroutines, UnlockDone(g)
       PROVE  UnlockerWillSee'
  <2>1. (UNCHANGED state /\ ~Sees(g)) \/ ~(state.flags = {} /\ state.waiters > 0)
    BY <1>10 DEF UnlockDone, Sees
  <2>2. \A h \in Goroutines : h # g /\ Sees(h) => Sees(h)'
    BY <1>10 DEF UnlockDone, Sees
  <2>3. UNCHANGED state
    BY <1>10 DEF UnlockDone
  <2>4. QED  BY <2>1, <2>2, <2>3 DEF UnlockerWillSee, Sees
<1>11. ASSUME NEW g \in Goroutines, UnlockCAS(g)
       PROVE  UnlockerWillSee'
  <2>1. CASE "woken" \in state'.flags
    BY <2>1 DEF UnlockerWillSee
  <2>2. CASE state' = state /\ pc' = [pc EXCEPT ![g] = "uload"]
    BY <2>2 DEF UnlockerWillSee
  <2>3. QED  BY <1>11, <2>1, <2>2 DEF UnlockCAS
<1>12. ASSUME NEW g \in Goroutines, UnlockLoad(g)
       PROVE  UnlockerWillSee'
  <2>1. pc'[g] = "uloop" /\ old'[g] = state'
    BY <1>12 DEF UnlockLoad
  <2>2. QED  BY <2>1 DEF UnlockerWillSee
<1>13. ASSUME NEW g \in Goroutines, UnlockRelease(g)
       PROVE  UnlockerWillSee'

  <2>1. UNCHANGED state
    BY <1>13 DEF UnlockRelease
  <2>2. \A h \in Goroutines : Sees(h) => Sees(h)'
    BY <1>13, <2>1 DEF UnlockRelease, Sees, locals
  <2>3. QED  BY <2>1, <2>2 DEF UnlockerWillSee, Sees
<1>14. ASSUME NEW g \in Goroutines, UnlockReturn(g)
       PROVE  UnlockerWillSee'
  <2>1. UNCHANGED state
    BY <1>14 DEF UnlockReturn
  <2>2. \A h \in Goroutines : Sees(h) => Sees(h)'
    BY <1>14, <2>1 DEF UnlockReturn, Sees
  <2>3. QED  BY <2>1, <2>2 DEF UnlockerWillSee, Sees
<1>15. CASE UNCHANGED vars
  BY <1>15 DEF vars, locals, UnlockerWillSee
<1>16. QED
  BY <1>1, <1>2, <1>3, <1>4, <1>5, <1>6, <1>7, <1>8, <1>9, <1>10, <1>11,
     <1>12, <1>13, <1>14, <1>15 DEF Next, LockStep, UnlockStep

\* A count that goroutines are parked for is on its way to one of them.
LEMMA NextCountIsMoving ==
  ASSUME TypeOK, SemRoles, QueueIsParked, OneWakeup, CountIsMoving,
         [Next]_vars
  PROVE  CountIsMoving'
<1> USE MutexAssumption, NoneAssumption DEF TypeOK, SemTypeOK
<1>1. ASSUME NEW g \in Goroutines, LockFast(g)
      PROVE  CountIsMoving'
  BY <1>1 DEF LockFast, semvars, CountIsMoving
<1>2. ASSUME NEW g \in Goroutines, LockLoad(g)
      PROVE  CountIsMoving'
  BY <1>2 DEF LockLoad, semvars, CountIsMoving
<1>3. ASSUME NEW g \in Goroutines, LockSpin(g)
      PROVE  CountIsMoving'
  BY <1>3 DEF LockSpin, semvars, CountIsMoving
<1>4. ASSUME NEW g \in Goroutines, LockCAS(g)
      PROVE  CountIsMoving'
  BY <1>4 DEF LockCAS, semvars, CountIsMoving
<1>5. ASSUME NEW g \in Goroutines, LockSleep(g)
      PROVE  CountIsMoving'
  <2>1. semval'[Sema] = 0
    BY <1>5 DEF LockSleep, SemPark
  <2>2. QED  BY <2>1 DEF CountIsMoving
<1>6. ASSUME NEW g \in Goroutines, LockAwake(g)
      PROVE  CountIsMoving'
  <2>1. CASE SemTake(g, Sema)
    <3>1. semval'[Sema] = 0
      BY <2>1 DEF SemTake, OneWakeup
    <3>2. QED  BY <3>1 DEF CountIsMoving
  <2>2. CASE SemTicket(g)
    BY <2>2 DEF SemTicket, CountIsMoving
  <2>3. QED  BY <1>6, <2>1, <2>2 DEF LockAwake
<1>7. ASSUME NEW g \in Goroutines, LockWoken(g)
      PROVE  CountIsMoving'
  BY <1>7 DEF LockWoken, semvars, CountIsMoving
<1>8. ASSUME NEW g \in Goroutines, LockGrant(g)
      PROVE  CountIsMoving'
  BY <1>8 DEF LockGrant, semvars, CountIsMoving
<1>9. ASSUME NEW g \in Goroutines, Unlock(g)
       PROVE  CountIsMoving'
  BY <1>9 DEF Unlock, semvars, CountIsMoving
<1>10. ASSUME NEW g \in Goroutines, UnlockDone(g)
       PROVE  CountIsMoving'
  BY <1>10 DEF UnlockDone, semvars, CountIsMoving
<1>11. ASSUME NEW g \in Goroutines, UnlockCAS(g)
       PROVE  CountIsMoving'
  BY <1>11 DEF UnlockCAS, semvars, CountIsMoving
<1>12. ASSUME NEW g \in Goroutines, UnlockLoad(g)
       PROVE  CountIsMoving'
  BY <1>12 DEF UnlockLoad, semvars, CountIsMoving
<1>13. ASSUME NEW g \in Goroutines, UnlockRelease(g)
       PROVE  CountIsMoving'
  <2>1. CASE SemInc(g, Sema)
    <3>1. sst'[g] = "xadded"
      BY <2>1 DEF SemInc
    <3>2. QED  BY <3>1 DEF CountIsMoving
  <2>2. CASE SemDequeue(g, Sema)
    <3>1. Head(waitq[Sema]) \in Goroutines /\ sst[Head(waitq[Sema])] = "parked" /\ sst[g] = "xadded"
      BY <2>2, HeadIsParked DEF SemDequeue
    <3>2. sst'[Head(waitq[Sema])] = "dequeued"
      BY <2>2, <3>1 DEF SemDequeue
    <3>3. QED  BY <3>1, <3>2 DEF CountIsMoving
  <2>3. QED  BY <1>13, <2>1, <2>2 DEF UnlockRelease
<1>14. ASSUME NEW g \in Goroutines, UnlockReturn(g)
       PROVE  CountIsMoving'
  <2>1. CASE SemNoWaiter(g, Sema)
    BY <2>1 DEF SemNoWaiter, CountIsMoving
  <2>2. CASE SemReady(g, Sema, pc[g] = "handoff")
    <3>1. wakee[g] \in Goroutines /\ sst[wakee[g]] = "dequeued" /\ sst[g] = "waking"
      BY <2>2 DEF SemReady, SemRoles
    <3>2. sst'[wakee[g]] = "ready" \/ semval'[Sema] = 0
      BY <2>2, <3>1 DEF SemReady, OneWakeup
    <3>3. QED  BY <3>1, <3>2 DEF CountIsMoving
  <2>3. QED  BY <1>14, <2>1, <2>2 DEF UnlockReturn
<1>15. CASE UNCHANGED vars
  BY <1>15 DEF vars, semvars, CountIsMoving
<1>16. QED
  BY <1>1, <1>2, <1>3, <1>4, <1>5, <1>6, <1>7, <1>8, <1>9, <1>10, <1>11,
     <1>12, <1>13, <1>14, <1>15 DEF Next, LockStep, UnlockStep

\* Starvation mode ends with its last waiter.
LEMMA NextStarvingIsCounted ==
  ASSUME TypeOK, OneWakeup, WordTellsWakeup, TokenKnows, LockedIsHeld, CountIsExact,
         StarvingIsCounted,
         [Next]_vars
  PROVE  StarvingIsCounted'
<1> USE DEF TypeOK
<1>1. ASSUME NEW g \in Goroutines, LockFast(g)
      PROVE  StarvingIsCounted'
  <2>1. \E label \in {"cs", "load"} : pc' = [pc EXCEPT ![g] = label]
    BY <1>1 DEF LockFast
  <2>2. state' = state \/ (state.waiters = 0 /\ state'.flags = {"locked"} /\ state'.waiters = 0)
    BY <1>1 DEF LockFast, Unlocked
  <2>3. UNCHANGED old
    BY <1>1 DEF LockFast, locals
  <2>4. QED  BY <2>1, <2>2, <2>3 DEF StarvingIsCounted
<1>2. ASSUME NEW g \in Goroutines, LockLoad(g)
      PROVE  StarvingIsCounted'
  BY <1>2 DEF LockLoad, StarvingIsCounted, locals
<1>3. ASSUME NEW g \in Goroutines, LockSpin(g)
      PROVE  StarvingIsCounted'
  <2>1. pc' = [pc EXCEPT ![g] = "load"] /\ UNCHANGED old
    BY <1>3 DEF LockSpin
  <2>2. state'.waiters = state.waiters /\ ("starving" \in state'.flags <=> "starving" \in state.flags)
    BY <1>3 DEF LockSpin
  <2>3. QED  BY <2>1, <2>2 DEF StarvingIsCounted
<1>4. ASSUME NEW g \in Goroutines, LockCAS(g)
      PROVE  StarvingIsCounted'
  <2>1. \A h \in Goroutines : pc'[h] = "grant" => pc[h] = "grant" /\ old'[h] = old[h]
    BY <1>4 DEF LockCAS, locals
  <2>2. CASE state' = state
    BY <2>1, <2>2 DEF StarvingIsCounted
  <2>3. CASE state = old[g] /\ state' = NewWord(g)
    <3>1. state'.waiters = IF Acquires(g) THEN state.waiters ELSE state.waiters + 1
      BY <2>3, NewWordFlags
    <3>2. state.waiters \in Nat
      BY DEF Word
    <3>3. "starving" \in state'.flags => ~Acquires(g)
      BY <2>3, NewWordFlags DEF Acquires
    <3>4. QED  BY <2>1, <3>1, <3>2, <3>3 DEF StarvingIsCounted
  <2>4. QED  BY <1>4, <2>2, <2>3 DEF LockCAS
<1>5. ASSUME NEW g \in Goroutines, LockSleep(g)
      PROVE  StarvingIsCounted'
  BY <1>5 DEF LockSleep, StarvingIsCounted, locals
<1>6. ASSUME NEW g \in Goroutines, LockAwake(g)
      PROVE  StarvingIsCounted'
  BY <1>6 DEF LockAwake, StarvingIsCounted, locals
<1>7. ASSUME NEW g \in Goroutines, LockWoken(g)
      PROVE  StarvingIsCounted'
  <2>1. pc[g] = "woken" /\ UNCHANGED state /\ old' = [old EXCEPT ![g] = state]
    BY <1>7 DEF LockWoken
  <2>2. state.waiters \in Nat /\ ("starving" \in state.flags => state.waiters > 0)
    BY <2>1, HandedOff DEF Word
  <2>3. pc'[g] = "grant" => "starving" \in state.flags
    BY <1>7 DEF LockWoken
  <2>4. \A h \in Goroutines : h # g => pc'[h] = pc[h]
    BY <1>7 DEF LockWoken
  <2>5. QED  BY <2>1, <2>2, <2>3, <2>4 DEF StarvingIsCounted
<1>8. ASSUME NEW g \in Goroutines, LockGrant(g)
      PROVE  StarvingIsCounted'
  <2>1. state.flags = {"starving"} /\ state.waiters > 0 /\ pc[g] = "grant" /\ state.waiters \in Nat
    BY <1>8, HandedOff DEF LockGrant, Word
  <2>2. \A h \in Goroutines : pc'[h] # "grant"
    <3>1. \A h \in Goroutines : h # g => pc[h] # "grant"
      BY <2>1 DEF OneWakeup, Token
    <3>2. pc' = [pc EXCEPT ![g] = "cs"]
      BY <1>8, <2>1 DEF LockGrant
    <3>3. QED  BY <3>1, <3>2
  <2>3. old[g].waiters \in 1 .. state.waiters
    BY <2>1 DEF StarvingIsCounted
  <2>4. ASSUME "starving" \in state'.flags
        PROVE  state'.waiters > 0
    <3>1. state'.waiters = state.waiters - 1
      BY <1>8, <2>1 DEF LockGrant
    <3>2. old[g].waiters # 1
      BY <1>8, <2>1, <2>4 DEF LockGrant
    <3>3. QED  BY <2>1, <2>3, <3>1, <3>2
  <2>5. QED  BY <2>2, <2>4 DEF StarvingIsCounted
<1>9. ASSUME NEW g \in Goroutines, Unlock(g)
       PROVE  StarvingIsCounted'
  <2>1. "locked" \in state.flags
    BY <1>9 DEF Unlock, LockedIsHeld
  <2>2. state'.waiters = state.waiters /\ state'.flags = state.flags \ {"locked"}
    BY <1>9, <2>1 DEF Unlock
  <2>3. \A h \in Goroutines : pc'[h] = "grant" => pc[h] = "grant" /\ old'[h] = old[h]
    BY <1>9, <2>1 DEF Unlock
  <2>4. QED  BY <2>2, <2>3 DEF StarvingIsCounted
<1>10. ASSUME NEW g \in Goroutines, UnlockDone(g)
       PROVE  StarvingIsCounted'
  BY <1>10 DEF UnlockDone, StarvingIsCounted, locals
<1>11. ASSUME NEW g \in Goroutines, UnlockCAS(g)
       PROVE  StarvingIsCounted'
  <2>1. \A h \in Goroutines : pc'[h] = "grant" => pc[h] = "grant" /\ old'[h] = old[h]
    BY <1>11 DEF UnlockCAS, locals
  <2>2. CASE state' = state
    BY <2>1, <2>2 DEF StarvingIsCounted
  <2>3. CASE state.flags = {} /\ state'.flags = {"woken"}
    BY <2>1, <2>3 DEF StarvingIsCounted, TokenKnows
  <2>4. QED  BY <1>11, <2>2, <2>3 DEF UnlockCAS
<1>12. ASSUME NEW g \in Goroutines, UnlockLoad(g)
       PROVE  StarvingIsCounted'
  BY <1>12 DEF UnlockLoad, StarvingIsCounted, locals
<1>13. ASSUME NEW g \in Goroutines, UnlockRelease(g)
       PROVE  StarvingIsCounted'
  BY <1>13 DEF UnlockRelease, StarvingIsCounted, locals
<1>14. ASSUME NEW g \in Goroutines, UnlockReturn(g)
       PROVE  StarvingIsCounted'
  BY <1>14 DEF UnlockReturn, StarvingIsCounted, locals
<1>15. CASE UNCHANGED vars
  BY <1>15 DEF vars, locals, StarvingIsCounted
<1>16. QED
  BY <1>1, <1>2, <1>3, <1>4, <1>5, <1>6, <1>7, <1>8, <1>9, <1>10, <1>11,
     <1>12, <1>13, <1>14, <1>15 DEF Next, LockStep, UnlockStep

-----------------------------------------------------------------------------
\* The invariant holds of the zero Mutex that nobody has used.
LEMMA InitIInv == Init => IInv
<1> SUFFICES ASSUME Init PROVE IInv
  OBVIOUS
<1> USE MutexAssumption, NoneAssumption
<1>1. TypeOK
  BY InitTypeOK
<1>2. /\ state.flags = {} /\ state.waiters = 0
      /\ semval[Sema] = 0 /\ waitq[Sema] = <<>>
      /\ \A g \in Goroutines : /\ pc[g] = "idle" /\ sst[g] = "running" /\ wakee[g] = None
                               /\ ~awoke[g] /\ ~starving[g]
  BY DEF Init, SemInit, Unlocked
<1>3. NoThrow /\ OneWakeup /\ WordTellsWakeup /\ TokenKnows /\ LocalsFresh /\ LockedIsHeld
  BY <1>2 DEF NoThrow, OneWakeup, WordTellsWakeup, WakeupUnderWay, Token, TokenKnows,
              LocalsFresh, LockedIsHeld, MutualExclusion
<1>4. SemRoles
  BY <1>2 DEF SemRoles
<1>5. QueueIsParked
  <2>1. Range(<<>>) = {} /\ IsInjective(<<>>)
    BY DEF Range, IsInjective
  <2>2. QED  BY <1>2, <2>1 DEF QueueIsParked
<1>6. CountIsExact
  <2>1. Waiters = {} /\ ~InTransit
    BY <1>2 DEF Waiters, InTransit
  <2>2. QED  BY <1>2, <2>1, FS_EmptySet DEF CountIsExact
<1>7. UnlockerWillSee /\ CountIsMoving /\ StarvingIsCounted
  BY <1>2 DEF UnlockerWillSee, CountIsMoving, StarvingIsCounted
<1>8. QED  BY <1>1, <1>3, <1>4, <1>5, <1>6, <1>7 DEF IInv

\* The invariant is inductive.
LEMMA NextIInv == IInv /\ [Next]_vars => IInv'
<1> SUFFICES ASSUME IInv, [Next]_vars PROVE IInv'
  OBVIOUS
<1> USE DEF IInv
<1>1. TypeOK'
  BY NextTypeOK
<1>2. NoThrow'
  BY NextNoThrow
<1>3. OneWakeup' /\ WordTellsWakeup' /\ TokenKnows' /\ LocalsFresh'
  BY NextWakeups
<1>4. LockedIsHeld'
  BY NextLockedIsHeld
<1>5. SemRoles' /\ QueueIsParked'
  BY NextSemRoles, NextQueueIsParked
<1>6. CountIsExact' /\ StarvingIsCounted'
  BY NextCountIsExact, NextStarvingIsCounted
<1>7. UnlockerWillSee' /\ CountIsMoving'
  BY NextUnlockerWillSee, NextCountIsMoving
<1>8. QED  BY <1>1, <1>2, <1>3, <1>4, <1>5, <1>6, <1>7

\* The inductive invariant of the mutex: one wakeup at a time, told by the word,
\* an exact waiter count, and no count or free mutex that nobody looks after.
THEOREM Invariance == Spec => []IInv
BY InitIInv, NextIInv, PTL DEF Spec

\* The variables keep their types: no counter leaves its range, and the word
\* never holds anything but its three flags and a number of waiters.
THEOREM TypeCorrectness == Spec => []TypeOK
<1>1. IInv => TypeOK
  BY DEF IInv
<1>2. QED  BY <1>1, Invariance, PTL

\* Lock excludes: at most one goroutine is between the return of Lock and Unlock.
THEOREM Exclusion == Spec => []MutualExclusion
<1>1. IInv => MutualExclusion
  BY DEF IInv, LockedIsHeld
<1>2. QED  BY <1>1, Invariance, PTL

\* Neither "inconsistent mutex state" nor "unlock of unlocked mutex" is ever
\* thrown, and no AddInt32 on the word carries from one field into another.
THEOREM NeverThrows == Spec => []NoThrow
<1>1. IInv => NoThrow
  BY DEF IInv
<1>2. QED  BY <1>1, Invariance, PTL

\* No goroutine sleeps in Lock while everybody else is done with the mutex.
THEOREM NoLostWakeup == Spec => []NoStrandedWaiter
<1>1. IInv => NoStrandedWaiter
  <2> SUFFICES ASSUME IInv, \A g \in Goroutines : pc[g] = "idle" \/ Asleep(g)
               PROVE  \A g \in Goroutines : pc[g] = "idle"
    BY DEF NoStrandedWaiter
  <2> USE DEF IInv
  <2>1. \A g \in Goroutines : pc[g] = "idle" \/ (pc[g] = "sem" /\ sst[g] = "parked")
    <3>1. \A g \in Goroutines : pc[g] # "idle" => pc[g] = "sem" /\ sst[g] \in {"parked", "dequeued"}
      BY DEF Asleep, SemRoles
    <3>2. \A g \in Goroutines : sst[g] # "dequeued"
      <4>1. SUFFICES ASSUME NEW g \in Goroutines, sst[g] = "dequeued" PROVE FALSE
        OBVIOUS
      <4>2. PICK h \in Goroutines : wakee[h] = g
        BY <4>1 DEF SemRoles
      <4>3. sst[h] = "waking"
        BY <4>2, NoneAssumption DEF SemRoles
      <4>4. pc[h] \in {"wake", "handoff"}
        BY <4>3 DEF SemRoles
      <4>5. QED  BY <3>1, <4>4
    <3>3. QED  BY <3>1, <3>2
  <2>2. \A g \in Goroutines : ~Token(g)
    <3>1. \A g \in Goroutines : sst[g] # "ticket"
      BY <2>1 DEF SemRoles
    <3>2. QED  BY <2>1, <3>1 DEF Token
  <2>3. SUFFICES ASSUME NEW f \in Goroutines, pc[f] = "sem" PROVE FALSE
    BY <2>1
  <2>4. sst[f] = "parked"
    BY <2>1, <2>3
  <2>5. semval[Sema] = 0
    <3>1. waitq[Sema] # <<>>
      <4>1. f \in Range(waitq[Sema])
        BY <2>4 DEF QueueIsParked
      <4>2. QED  BY <4>1 DEF Range
    <3>2. \A g \in Goroutines : sst[g] \notin {"xadded", "dequeued", "ready"}
      BY <2>1 DEF SemRoles
    <3>3. QED  BY <3>1, <3>2 DEF CountIsMoving, OneWakeup
  <2>6. state.flags = {}
    <3>1. "woken" \notin state.flags /\ state.flags # {"starving"}
      BY <2>2, <2>5 DEF WordTellsWakeup, WakeupUnderWay
    <3>2. "locked" \notin state.flags
      BY <2>1 DEF LockedIsHeld
    <3>3. state.flags \in SUBSET Flags
      BY DEF TypeOK, Word
    <3>4. QED  BY <3>1, <3>2, <3>3 DEF Flags
  <2>7. state.waiters > 0
    <3>1. f \in Waiters
      BY <2>3 DEF Waiters
    <3>2. Cardinality(Waiters) # 0
      BY <3>1, WaitersFinite, FS_EmptySet
    <3>3. ~InTransit
      BY <2>6 DEF InTransit
    <3>4. state.waiters \in Nat /\ Cardinality(Waiters) = state.waiters
      BY <3>3 DEF CountIsExact, TypeOK, Word
    <3>5. QED  BY <3>2, <3>4
  <2>8. QED  BY <2>1, <2>6, <2>7 DEF UnlockerWillSee
<1>2. QED  BY <1>1, Invariance, PTL

\* A starving mutex has a waiter that will take it.
THEOREM StarvingHasAWaiter == Spec => []StarvingHasWaiter
<1>1. IInv => StarvingHasWaiter
  <2> SUFFICES ASSUME IInv, "starving" \in state.flags
               PROVE  \E g \in Goroutines : pc[g] \in {"sem", "woken", "grant"}
    BY DEF StarvingHasWaiter
  <2>1. "woken" \notin state.flags /\ state.waiters > 0 /\ state.waiters \in Nat
    BY DEF IInv, WordTellsWakeup, StarvingIsCounted, TypeOK, Word
  <2>2. ~InTransit
    BY <2>1 DEF InTransit
  <2>3. Cardinality(Waiters) = state.waiters
    BY <2>1, <2>2 DEF IInv, CountIsExact
  <2>4. Waiters # {}
    BY <2>1, <2>3, FS_EmptySet
  <2>5. QED  BY <2>4 DEF Waiters
<1>2. QED  BY <1>1, Invariance, PTL

\* In starvation mode the mutex passes only by the hand-off.
THEOREM OnlyByHandoff == Spec => HandoffOnly
<1>1. IInv /\ [Next]_vars
        => [\A g \in Goroutines :
              "starving" \in state.flags /\ pc[g] # "cs" /\ pc'[g] = "cs" => pc[g] = "grant"]_vars
  <2> SUFFICES ASSUME IInv, Next, NEW h \in Goroutines,
                      "starving" \in state.flags, pc[h] # "cs", pc'[h] = "cs"
               PROVE  pc[h] = "grant"
    OBVIOUS
  <2> USE DEF IInv, TypeOK
  <2>1. PICK g \in Goroutines : LockFast(g) \/ LockStep(g) \/ UnlockStep(g)
    BY DEF Next
  <2>2. CASE LockFast(g)
    BY <2>2 DEF LockFast, Unlocked
  <2>3. CASE LockCAS(g)
    <3>1. Acquires(g) /\ state = old[g]
      BY <2>3 DEF LockCAS
    <3>2. QED  BY <3>1 DEF Acquires
  <2>4. CASE LockGrant(g)
    BY <2>4 DEF LockGrant
  <2>5. CASE LockWoken(g)
    BY <2>5 DEF LockWoken
  <2>6. CASE UnlockStep(g)
    BY <2>6 DEF UnlockStep, Unlock, UnlockDone, UnlockCAS, UnlockLoad, UnlockRelease, UnlockReturn
  <2>7. CASE LockLoad(g) \/ LockSpin(g) \/ LockSleep(g) \/ LockAwake(g)
    BY <2>7 DEF LockLoad, LockSpin, LockSleep, LockAwake
  <2>8. QED  BY <2>1, <2>2, <2>3, <2>4, <2>5, <2>6, <2>7 DEF LockStep
<1>2. QED  BY <1>1, Invariance, PTL DEF Spec, HandoffOnly

\* The mutex is a lock: each step of Lock and Unlock is a request, an acquire or
\* a release of the abstract lock, or changes nothing that it speaks of.
THEOREM Refinement == Spec => ImplementsLock
<1>1. Init => Abstract!Init
  BY DEF Init, Abstract!Init, InLock
<1>2. IInv /\ [Next]_vars => [Abstract!Next]_(Abstract!vars)
  <2> SUFFICES ASSUME IInv, [Next]_vars
               PROVE  Abstract!Next \/ UNCHANGED Abstract!vars
    OBVIOUS
  <2> USE DEF IInv, TypeOK, InLock, Abstract!vars
  <2>1. CASE UNCHANGED vars
    BY <2>1 DEF vars
  <2>2. ASSUME NEW g \in Goroutines, LockFast(g)
        PROVE  Abstract!Next
    <3>1. CASE pc' = [pc EXCEPT ![g] = "cs"] /\ "locked" \notin state.flags
      <4>1. Abstract!Acquire(g)
        BY <2>2, <3>1 DEF LockFast, LockedIsHeld, Abstract!Acquire
      <4>2. QED  BY <4>1 DEF Abstract!Next
    <3>2. CASE pc' = [pc EXCEPT ![g] = "load"]
      <4>1. Abstract!Request(g)
        BY <2>2, <3>2 DEF LockFast, Abstract!Request
      <4>2. QED  BY <4>1 DEF Abstract!Next
    <3>3. QED  BY <2>2, <3>1, <3>2 DEF LockFast, Unlocked
  <2>3. ASSUME NEW g \in Goroutines, LockCAS(g)
        PROVE  Abstract!Next \/ UNCHANGED Abstract!vars
    <3>1. pc[g] = "loop"
      BY <2>3 DEF LockCAS
    <3>2. CASE pc' = [pc EXCEPT ![g] = "cs"] /\ "locked" \notin state.flags
      <4>1. Abstract!Acquire(g)
        BY <3>1, <3>2 DEF LockedIsHeld, Abstract!Acquire
      <4>2. QED  BY <4>1 DEF Abstract!Next
    <3>3. CASE \E label \in {"sem", "load"} : pc' = [pc EXCEPT ![g] = label]
      BY <3>1, <3>3
    <3>4. QED  BY <2>3, <3>2, <3>3, CASFindsWoken DEF LockCAS, Acquires
  <2>4. ASSUME NEW g \in Goroutines, LockGrant(g)
        PROVE  Abstract!Next
    <3>1. state.flags = {"starving"} /\ state.waiters > 0 /\ pc[g] = "grant"
      BY <2>4, HandedOff DEF LockGrant
    <3>2. pc' = [pc EXCEPT ![g] = "cs"]
      BY <2>4, <3>1 DEF LockGrant
    <3>3. Abstract!Acquire(g)
      BY <3>1, <3>2 DEF LockedIsHeld, Abstract!Acquire
    <3>4. QED  BY <3>3 DEF Abstract!Next
  <2>5. ASSUME NEW g \in Goroutines, Unlock(g)
        PROVE  Abstract!Next
    <3>1. pc[g] = "cs" /\ "locked" \in state.flags
      BY <2>5 DEF Unlock, LockedIsHeld
    <3>2. \E label \in {"idle", "handoff", "uloop"} : pc' = [pc EXCEPT ![g] = label]
      BY <2>5, <3>1 DEF Unlock
    <3>3. Abstract!Release(g)
      BY <3>1, <3>2 DEF Abstract!Release
    <3>4. QED  BY <3>3 DEF Abstract!Next
  <2>6. ASSUME NEW g \in Goroutines, LockWoken(g)
        PROVE  UNCHANGED Abstract!vars
    <3>1. pc[g] = "woken" /\ "starving" \in state.flags => state.flags = {"starving"} /\ state.waiters > 0
      BY HandedOff
    <3>2. pc[g] = "woken" /\ \E label \in {"grant", "loop"} : pc' = [pc EXCEPT ![g] = label]
      BY <2>6, <3>1 DEF LockWoken, Word
    <3>3. QED  BY <3>2
  <2>7. ASSUME NEW g \in Goroutines,
               LockLoad(g) \/ LockSpin(g) \/ LockSleep(g) \/ LockAwake(g)
        PROVE  UNCHANGED Abstract!vars
    BY <2>7 DEF LockLoad, LockSpin, LockSleep, LockAwake
  <2>8. ASSUME NEW g \in Goroutines,
               UnlockDone(g) \/ UnlockCAS(g) \/ UnlockLoad(g) \/ UnlockRelease(g) \/ UnlockReturn(g)
        PROVE  UNCHANGED Abstract!vars
    BY <2>8 DEF UnlockDone, UnlockCAS, UnlockLoad, UnlockRelease, UnlockReturn
  <2>9. QED
    BY <2>1, <2>2, <2>3, <2>4, <2>5, <2>6, <2>7, <2>8 DEF Next, LockStep, UnlockStep
<1>3. QED  BY <1>1, <1>2, Invariance, PTL DEF Spec, ImplementsLock, Abstract!Spec

-----------------------------------------------------------------------------
(***************************************************************************)
(* Once.  Every step of Do that touches the mutex is a step of Mutex, so   *)
(* the invariant above holds of a mutex that only Do locks, and the        *)
(* exclusion it gives is what makes the action of Once happen once.        *)
(***************************************************************************)
\* A step of Lock leaves the goroutine in Lock or with the mutex.
LEMMA LockMoves ==
  ASSUME TypeOK, NoThrow', NEW g \in Goroutines, LockFast(g) \/ LockStep(g)
  PROVE  \E label \in {"load", "loop", "sem", "woken", "grant", "cs"} :
           pc' = [pc EXCEPT ![g] = label]
<1> USE DEF TypeOK, NoThrow, Goto
<1>1. CASE LockFast(g)
  BY <1>1 DEF LockFast
<1>2. CASE LockLoad(g) \/ LockSpin(g) \/ LockCAS(g)
  BY <1>2 DEF LockLoad, LockSpin, LockCAS
<1>3. CASE LockSleep(g) \/ LockAwake(g)
  BY <1>3 DEF LockSleep, LockAwake
<1>4. CASE LockWoken(g) \/ LockGrant(g)
  BY <1>4 DEF LockWoken, LockGrant
<1>5. QED  BY <1>1, <1>2, <1>3, <1>4 DEF LockStep

\* A step of Unlock leaves the goroutine in Unlock or outside the mutex.
LEMMA UnlockMoves ==
  ASSUME TypeOK, NoThrow', NEW g \in Goroutines, UnlockStep(g)
  PROVE  /\ pc[g] # "idle" /\ ~InLock(g)
         /\ \E label \in {"idle", "uload", "uloop", "wake", "handoff"} :
              pc' = [pc EXCEPT ![g] = label]
<1> USE DEF TypeOK, NoThrow, InLock, Goto
<1>1. CASE Unlock(g)
  BY <1>1 DEF Unlock
<1>2. CASE UnlockDone(g) \/ UnlockCAS(g) \/ UnlockLoad(g)
  BY <1>2 DEF UnlockDone, UnlockCAS, UnlockLoad
<1>3. CASE UnlockRelease(g) \/ UnlockReturn(g)
  BY <1>3 DEF UnlockRelease, UnlockReturn
<1>4. QED  BY <1>1, <1>2, <1>3 DEF UnlockStep

\* Only the call that is about to unlock or to run f holds the mutex.
LEMMA OneInside ==
  ASSUME OnceIInv, NEW g \in Goroutines, NEW h \in Goroutines,
         dopc[g] \in {"check", "f", "store"}, dopc[h] \in {"check", "f", "store"}
  PROVE  g = h
BY DEF OnceIInv, IInv, LockedIsHeld, MutualExclusion, MutexFollows

\* A step that is none of the mutex keeps the mutex's invariant.
LEMMA MutexIdle ==
  ASSUME IInv, UNCHANGED vars
  PROVE  IInv'
<1>1. [Next]_vars
  OBVIOUS
<1>2. QED  BY <1>1, NextIInv

\* What a step of Do is to somebody who sees only that f is run and calls return.
DoIsCall == Call!Next \/ UNCHANGED Call!vars

\* A step of Do keeps the invariant and is a step of OnceCall, or none.
LEMMA DoKeeps ==
  ASSUME OnceIInv, NEW g \in Goroutines, Do(g) \/ DoStep(g)
  PROVE  OnceIInv' /\ DoIsCall
<1> USE DEF OnceTypeOK, DoPCs, Move
<1>t. OnceTypeOK /\ MutexFollows /\ FlagFollows /\ IInv /\ TypeOK
  BY DEF OnceIInv, IInv
<1>1. CASE Do(g)
  <2>1. dopc[g] = "idle" /\ dopc' = [dopc EXCEPT ![g] = "load"] /\ UNCHANGED vars
        /\ done' = done /\ finished' = finished /\ pc' = pc
    BY <1>1 DEF Do, vars
  <2>2. OnceIInv'
    BY <2>1, <1>t, MutexIdle DEF OnceIInv, MutexFollows, FlagFollows, InLock
  <2>3. Call!Call(g)
    BY <2>1, <1>t DEF Call!Call
  <2>4. QED  BY <2>2, <2>3 DEF DoIsCall, Call!Next
<1>2. CASE DoLoad(g)
  <2>1. dopc[g] = "load" /\ dopc' = [dopc EXCEPT ![g] = IF done = 0 THEN "lock" ELSE "idle"] /\ UNCHANGED vars
        /\ done' = done /\ finished' = finished /\ pc' = pc
    BY <1>2 DEF DoLoad, vars
  <2>2. OnceIInv'
    BY <2>1, <1>t, MutexIdle DEF OnceIInv, MutexFollows, FlagFollows, InLock
  <2>3. CASE done = 0
    BY <2>1, <2>2, <2>3, <1>t DEF DoIsCall, Call!vars
  <2>4. CASE done = 1
    <3>1. Call!Return(g)
      BY <2>1, <2>4, <1>t DEF Call!Return, FlagFollows
    <3>2. QED  BY <2>2, <3>1 DEF DoIsCall, Call!Next
  <2>5. QED  BY <1>t, <2>3, <2>4
<1>3. CASE DoLock(g)
  <2>1. [Next]_vars
    BY <1>3 DEF DoLock, Next
  <2>2. IInv' /\ NoThrow'
    BY <2>1, <1>t, NextIInv DEF IInv
  <2>3. PICK label \in {"load", "loop", "sem", "woken", "grant", "cs"} : pc' = [pc EXCEPT ![g] = label]
    BY <1>3, <1>t, <2>2, LockMoves DEF DoLock
  <2>4. /\ dopc[g] = "lock"
        /\ dopc' = [dopc EXCEPT ![g] = IF label = "cs" THEN "check" ELSE "lock"]
        /\ done' = done /\ finished' = finished
    BY <1>3, <2>3, <1>t DEF DoLock, TypeOK
  <2>5. OnceTypeOK' /\ MutexFollows' /\ FlagFollows'
    BY <2>3, <2>4, <1>t DEF MutexFollows, FlagFollows, InLock, TypeOK
  <2>6. DoIsCall
    BY <2>4, <1>t DEF DoIsCall, Call!vars
  <2>7. QED  BY <2>2, <2>5, <2>6 DEF OnceIInv
<1>4. CASE DoCheck(g)
  <2>1. dopc[g] = "check" /\ dopc' = [dopc EXCEPT ![g] = IF done = 0 THEN "f" ELSE "unlock"] /\ UNCHANGED vars
        /\ done' = done /\ finished' = finished /\ pc' = pc
    BY <1>4 DEF DoCheck, vars
  <2>2. done = 0 => ~finished
    BY <2>1, <1>t, OneInside DEF FlagFollows
  <2>3. OnceIInv'
    BY <2>1, <2>2, <1>t, MutexIdle DEF OnceIInv, MutexFollows, FlagFollows, InLock
  <2>4. CASE done = 0
    <3>1. \A h \in Goroutines : dopc[h] # "f"
      BY <2>1, OneInside
    <3>2. Call!Perform(g)
      BY <2>1, <2>2, <2>4, <3>1, <1>t DEF Call!Perform
    <3>3. QED  BY <2>3, <3>2 DEF DoIsCall, Call!Next
  <2>5. CASE done = 1
    BY <2>1, <2>3, <2>5, <1>t DEF DoIsCall, Call!vars
  <2>6. QED  BY <1>t, <2>4, <2>5
<1>5. CASE DoCall(g)
  <2>1. dopc[g] = "f" /\ dopc' = [dopc EXCEPT ![g] = "store"] /\ UNCHANGED vars
        /\ done' = done /\ finished' = TRUE /\ pc' = pc
    BY <1>5 DEF DoCall, vars
  <2>2. \A h \in Goroutines : dopc[h] = "f" => h = g
    BY <2>1, OneInside
  <2>3. OnceIInv'
    BY <2>1, <2>2, <1>t, MutexIdle DEF OnceIInv, MutexFollows, FlagFollows, InLock
  <2>4. Call!Performed(g)
    BY <2>1, <2>2, <1>t DEF Call!Performed
  <2>5. QED  BY <2>3, <2>4 DEF DoIsCall, Call!Next
<1>6. CASE DoStore(g)
  <2>1. dopc[g] = "store" /\ dopc' = [dopc EXCEPT ![g] = "unlock"] /\ UNCHANGED vars
        /\ done' = 1 /\ finished' = finished /\ pc' = pc
    BY <1>6 DEF DoStore, vars
  <2>2. OnceIInv'
    BY <2>1, <1>t, MutexIdle DEF OnceIInv, MutexFollows, FlagFollows, InLock
  <2>3. DoIsCall
    BY <2>1, <1>t DEF DoIsCall, Call!vars
  <2>4. QED  BY <2>2, <2>3
<1>7. CASE DoUnlock(g)
  <2>1. [Next]_vars
    BY <1>7 DEF DoUnlock, Next
  <2>2. IInv' /\ NoThrow'
    BY <2>1, <1>t, NextIInv DEF IInv
  <2>3. PICK label \in {"idle", "uload", "uloop", "wake", "handoff"} : pc' = [pc EXCEPT ![g] = label]
    BY <1>7, <1>t, <2>2, UnlockMoves DEF DoUnlock
  <2>4. /\ dopc[g] = "unlock"
        /\ dopc' = [dopc EXCEPT ![g] = IF label = "idle" THEN "idle" ELSE "unlock"]
        /\ done' = done /\ finished' = finished
    BY <1>7, <2>3, <1>t DEF DoUnlock, TypeOK
  <2>5. OnceTypeOK' /\ MutexFollows' /\ FlagFollows'
    BY <2>3, <2>4, <1>t DEF MutexFollows, FlagFollows, InLock, TypeOK
  <2>6. CASE label = "idle"
    <3>1. finished /\ \A h \in Goroutines : dopc[h] # "f"
      BY <2>4, <1>t DEF FlagFollows
    <3>2. Call!Return(g)
      BY <2>4, <2>6, <3>1, <1>t DEF Call!Return
    <3>3. QED  BY <2>2, <2>5, <3>2 DEF OnceIInv, DoIsCall, Call!Next
  <2>7. CASE label # "idle"
    BY <2>2, <2>4, <2>5, <2>7, <1>t DEF OnceIInv, DoIsCall, Call!vars
  <2>8. QED  BY <2>6, <2>7
<1>8. QED  BY <1>1, <1>2, <1>3, <1>4, <1>5, <1>6, <1>7 DEF DoStep

\* The pipe touches Once and its mutex by calls of Do only.
LEMMA PipeOnlyDoes ==
  ASSUME [PipeNext]_pipevars
  PROVE  \/ \E g \in Goroutines : Do(g) \/ DoStep(g)
         \/ UNCHANGED oncevars
<1>1. CASE UNCHANGED pipevars
  BY <1>1 DEF pipevars
<1>2. ASSUME NEW g \in Goroutines, BeginCall(g)
      PROVE  UNCHANGED oncevars
  BY <1>2 DEF BeginCall, Start, Close
<1>3. ASSUME NEW g \in Goroutines, NEW w \in Goroutines, Transfer(g, w) \/ Ack(g, w)
      PROVE  UNCHANGED oncevars
  BY <1>3 DEF Transfer, Ack
<1>4. ASSUME NEW g \in Goroutines,
             Poll(g) \/ WriteLock(g) \/ Interrupt(g) \/ CloseError1(g) \/ CloseError2(g) \/ Return(g)
      PROVE  UNCHANGED oncevars
  BY <1>4 DEF Poll, WriteLock, Interrupt, CloseError1, CloseError2, Return
<1>5. ASSUME NEW g \in Goroutines, Store(g) \/ OnceStep(g)
      PROVE  Do(g) \/ DoStep(g)
  BY <1>5 DEF Store, OnceStep
<1>6. QED  BY <1>1, <1>2, <1>3, <1>4, <1>5 DEF PipeNext, PipeStep

\* The invariant holds before the first call of Do.
LEMMA InitOnceIInv == OnceInit => OnceIInv
<1> SUFFICES ASSUME OnceInit PROVE OnceIInv
  OBVIOUS
<1>1. Init /\ done = 0 /\ finished = FALSE /\ dopc = [g \in Goroutines |-> "idle"]
  BY DEF OnceInit
<1>2. IInv
  BY <1>1, InitIInv
<1>3. \A g \in Goroutines : pc[g] = "idle"
  BY <1>1 DEF Init
<1>4. OnceTypeOK
  BY <1>1 DEF OnceTypeOK, DoPCs
<1>5. MutexFollows
  BY <1>1, <1>3 DEF MutexFollows, InLock
<1>6. FlagFollows
  BY <1>1 DEF FlagFollows
<1>7. QED  BY <1>2, <1>4, <1>5, <1>6 DEF OnceIInv

\* Every step of the pipe keeps the invariant and is a step of OnceCall, or none.
LEMMA NextOnceIInv ==
  ASSUME OnceIInv, [PipeNext]_pipevars
  PROVE  OnceIInv' /\ DoIsCall
<1>1. CASE \E g \in Goroutines : Do(g) \/ DoStep(g)
  BY <1>1, DoKeeps
<1>2. CASE UNCHANGED oncevars
  <2>1. UNCHANGED vars /\ done' = done /\ finished' = finished /\ dopc' = dopc
    BY <1>2 DEF oncevars
  <2>2. pc' = pc
    BY <2>1 DEF vars
  <2>3. IInv'
    BY <2>1, MutexIdle DEF OnceIInv
  <2>4. OnceTypeOK' /\ MutexFollows' /\ FlagFollows'
    BY <2>1, <2>2 DEF OnceIInv, OnceTypeOK, MutexFollows, FlagFollows, InLock
  <2>5. DoIsCall
    BY <2>1 DEF DoIsCall, Call!vars
  <2>6. QED  BY <2>3, <2>4, <2>5 DEF OnceIInv
<1>3. QED  BY <1>1, <1>2, PipeOnlyDoes

\* In every run of the pipe the mutex of its Once satisfies the mutex's own
\* invariant, and the flag, the mutex and the state of f agree as doSlow wants it.
THEOREM OnceInvariance == PipeSpec => []OnceIInv
<1>1. PipeInit => OnceIInv
  BY InitOnceIInv DEF PipeInit
<1>2. OnceIInv /\ [PipeNext]_pipevars => OnceIInv'
  BY NextOnceIInv
<1>3. QED  BY <1>1, <1>2, PTL DEF PipeSpec

\* Do runs f once, in one goroutine, and returns to nobody before f is over, by
\* the fast path as little as by the slow one, also if f panics.
THEOREM OnlyOnce == PipeSpec => ImplementsOnceCall
<1>1. PipeInit => Call!Init
  BY DEF PipeInit, OnceInit, Call!Init
<1>2. OnceIInv /\ [PipeNext]_pipevars => [Call!Next]_(Call!vars)
  BY NextOnceIInv DEF DoIsCall
<1>3. QED  BY <1>1, <1>2, OnceInvariance, PTL DEF PipeSpec, ImplementsOnceCall, Call!Spec

-----------------------------------------------------------------------------
(***************************************************************************)
(* The pipe.                                                               *)
(***************************************************************************)

\* The bytes of a Write, from one place to the end, and what is left of them.
LEMMA RestOfBytes ==
  ASSUME NEW l \in Nat, NEW a \in 0 .. l
  PROVE  LET s == SubSeq(Bytes(l), a + 1, l) IN
           /\ s \in Seq(Nat) /\ Len(s) = l - a /\ (s = <<>> <=> a = l)
           /\ a = 0 => s = Bytes(l)
           /\ \A k \in 0 .. l - a : SubSeq(s, k + 1, Len(s)) = SubSeq(Bytes(l), a + k + 1, l)
<1> DEFINE y == Bytes(l)
           s == SubSeq(y, a + 1, l)
<1>1. y \in Seq(Nat) /\ Len(y) = l /\ \A i \in 1 .. l : y[i] = i
  BY DEF Bytes
<1> HIDE DEF y
<1>2. s \in Seq(Nat) /\ Len(s) = l - a /\ \A i \in 1 .. l - a : s[i] = y[a + i]
  <2>1. \A i \in a + 1 .. l : y[i] \in Nat
    BY <1>1
  <2>2. QED  BY <1>1, <2>1, SubSeqProperties
<1>3. s = <<>> <=> a = l
  <2>1. s = <<>> <=> Len(s) = 0
    BY <1>2, EmptySeq
  <2>2. QED  BY <1>2, <2>1
<1>4. a = 0 => s = y
  BY <1>1, SubSeqFull
<1> HIDE DEF s
<1>5. ASSUME NEW k \in 0 .. l - a
      PROVE  SubSeq(s, k + 1, Len(s)) = SubSeq(y, a + k + 1, l)
  <2>1. \A i \in k + 1 .. l - a : s[i] \in Nat
    BY <1>2
  <2>2. /\ SubSeq(s, k + 1, l - a) \in Seq(Nat) /\ Len(SubSeq(s, k + 1, l - a)) = l - a - k
        /\ \A i \in 1 .. l - a - k : SubSeq(s, k + 1, l - a)[i] = s[k + i]
    BY <2>1, SubSeqProperties
  <2>3. \A i \in a + k + 1 .. l : y[i] \in Nat
    BY <1>1
  <2>4. /\ SubSeq(y, a + k + 1, l) \in Seq(Nat) /\ Len(SubSeq(y, a + k + 1, l)) = l - a - k
        /\ \A i \in 1 .. l - a - k : SubSeq(y, a + k + 1, l)[i] = y[a + k + i]
    BY <2>3, SubSeqProperties
  <2>5. \A i \in 1 .. l - a - k : s[k + i] = y[a + k + i]
    BY <1>2
  <2>6. QED  BY <1>2, <2>2, <2>4, <2>5
<1>6. QED  BY <1>2, <1>3, <1>4, <1>5 DEF s, y

LEMMA AllBytes ==
  ASSUME NEW l \in Nat
  PROVE  SubSeq(Bytes(l), 0 + 1, l) = Bytes(l)
<1>1. Bytes(l) \in Seq(Nat) /\ Len(Bytes(l)) = l
  BY DEF Bytes
<1> HIDE DEF Bytes
<1>2. SubSeq(Bytes(l), 1, l) = Bytes(l)
  BY <1>1, SubSeqFull
<1>3. 0 + 1 = 1
  OBVIOUS
<1>4. QED  BY <1>2, <1>3

\* The first bytes of what is left.
LEMMA FirstBytes ==
  ASSUME NEW s \in Seq(Nat), NEW k \in 0 .. Len(s)
  PROVE  SubSeq(s, 1, k) \in Seq(Nat) /\ Len(SubSeq(s, 1, k)) = k
<1>1. \A i \in 1 .. k : s[i] \in Nat
  OBVIOUS
<1>2. QED  BY <1>1, SubSeqProperties

\* A step of Do is one of its goroutine, and closes the pipe in f only.
LEMMA DoFacts ==
  ASSUME OnceTypeOK, NEW g \in Goroutines, DoStep(g)
  PROVE  /\ dopc[g] # "idle" /\ \A h \in Goroutines \ {g} : dopc'[h] = dopc[h]
         /\ finished' = finished \/ (finished' = TRUE /\ dopc[g] = "f" /\ dopc'[g] = "store")
BY DEF DoStep, DoLoad, DoLock, DoCheck, DoCall, DoStore, DoUnlock, Move, OnceTypeOK

\* The invariant of the pipe beside that of the Once.
PipeFits ==
  /\ PipeTypeOK /\ AcksFit /\ ErrorsFit
  /\ \A g \in Goroutines : LocalsFit(g) /\ WriteFits(g)

LEMMA PipeStarts == PipeInit => PipeFits
<1> SUFFICES ASSUME PipeInit PROVE PipeFits
  OBVIOUS
<1> USE NoneAssumption, PipeAssumption DEF PipeInit
<1>1. PipeTypeOK
  BY DEF PipeTypeOK, IOPCs
<1>2. AcksFit
  BY DEF AcksFit
<1>3. ErrorsFit
  BY DEF ErrorsFit, OnceInit, Done
<1>4. \A g \in Goroutines : LocalsFit(g) /\ WriteFits(g)
  BY DEF LocalsFit, WriteFits, Reading, Writing
<1>5. QED  BY <1>1, <1>2, <1>3, <1>4 DEF PipeFits

\* A goroutine that takes a step alone, and is between the two channels neither
\* before nor after, leaves the others what they have.
Alone(g) ==
  /\ \A h \in Goroutines \ {g} : /\ iopc'[h] = iopc[h] /\ kind'[h] = kind[h] /\ len'[h] = len[h]
                                 /\ b'[h] = b[h] /\ n'[h] = n[h] /\ err'[h] = err[h]
  /\ iopc[g] # "ack" /\ iopc'[g] # "ack"

LEMMA AloneKeepsAcks ==
  ASSUME PipeFits, NEW g \in Goroutines, Alone(g)
  PROVE  AcksFit'
BY DEF PipeFits, AcksFit, Alone, Reading, Writing

LEMMA AloneKeepsLocals ==
  ASSUME PipeFits, NEW g \in Goroutines, Alone(g), LocalsFit(g)'
  PROVE  \A h \in Goroutines : LocalsFit(h)'
BY DEF PipeFits, LocalsFit, Alone, Reading, Writing

LEMMA AloneKeepsWrites ==
  ASSUME PipeFits, NEW g \in Goroutines, Alone(g), WriteFits(g)',
         wrMu' = wrMu \/ (wrMu = None /\ wrMu' = g) \/ (wrMu = g /\ wrMu' = None)
  PROVE  \A h \in Goroutines : WriteFits(h)'
BY NoneAssumption DEF PipeFits, WriteFits, Alone, Reading, Writing

\* The steps that a goroutine takes alone.
LEMMA StartKeeps ==
  ASSUME PipeFits, NEW g \in Goroutines, NEW call \in Calls[g], Start(g, call)
  PROVE  PipeFits'
<1> USE NoneAssumption DEF PipeFits
<1>1. /\ call[1] \in {"read", "write"} /\ call[2] \in Lens /\ call[2] \in Nat
      /\ iopc[g] = "idle" /\ UNCHANGED <<dopc, finished, wrMu, rerr, werr, n, err>>
  <2>1. call \in ({"read", "write"} \X Lens) \cup ({"closeread", "closewrite"} \X Errors)
    BY PipeAssumption
  <2>2. call[1] \in {"read", "write"}
    BY DEF Start
  <2>3. call[2] \in Lens /\ call[2] \in Nat
    BY <2>1, <2>2, PipeAssumption
  <2>4. QED  BY <2>2, <2>3 DEF Start, Go, oncevars
<1>2. Bytes(call[2]) \in Seq(Nat)
  BY <1>1 DEF Bytes
<1>3. PipeTypeOK'
  BY <1>1, <1>2 DEF PipeTypeOK, IOPCs, Start, Go
<1>4. Alone(g)
  BY <1>1 DEF Alone, Start, Go, PipeTypeOK
<1>5. /\ iopc'[g] = "poll" /\ kind'[g] = call[1] /\ len'[g] = call[2] /\ n'[g] = 0 /\ err'[g] = None
      /\ b'[g] = IF call[1] = "read" THEN <<>> ELSE Bytes(call[2])
  BY <1>1 DEF Start, Go, PipeTypeOK, LocalsFit
<1>6. LocalsFit(g)'
  BY <1>1, <1>5 DEF LocalsFit, Reading, Writing
<1>7. WriteFits(g)'
  <2>1. SubSeq(Bytes(call[2]), 0 + 1, call[2]) = Bytes(call[2])
    BY <1>1, AllBytes
  <2>2. wrMu # g
    BY <1>1 DEF WriteFits
  <2>3. QED  BY <1>1, <1>5, <2>1, <2>2 DEF WriteFits, Reading, Writing
<1>8. ErrorsFit'
  BY <1>1, <1>4, <1>5 DEF ErrorsFit, Alone, Done, Other, Reading
<1>9. QED  BY <1>1, <1>3, <1>4, <1>6, <1>7, <1>8, AloneKeepsAcks, AloneKeepsLocals, AloneKeepsWrites

LEMMA CloseKeeps ==
  ASSUME PipeFits, NEW g \in Goroutines, NEW call \in Calls[g], Close(g, call)
  PROVE  PipeFits'
<1> USE PipeAssumption, NoneAssumption DEF PipeFits
<1>1. /\ call[1] \in {"closeread", "closewrite"} /\ call[2] \in Errors
      /\ iopc[g] = "idle" /\ UNCHANGED <<dopc, finished, wrMu, rerr, werr, n, len, b>>
  BY DEF Close, Go, oncevars
<1>2. /\ iopc' = [iopc EXCEPT ![g] = "store"] /\ kind' = [kind EXCEPT ![g] = call[1]]
      /\ err' = [err EXCEPT ![g] = call[2]]
  BY DEF Close, Go
<1>3. PipeTypeOK'
  BY <1>1, <1>2 DEF PipeTypeOK, IOPCs
<1>4. Alone(g)
  BY <1>1, <1>2 DEF Alone, PipeTypeOK
<1>5. /\ iopc'[g] = "store" /\ kind'[g] = call[1] /\ len'[g] = 0 /\ n'[g] = 0 /\ err'[g] # None
      /\ b'[g] = <<>>
  BY <1>1, <1>2 DEF PipeTypeOK, LocalsFit
<1>6. LocalsFit(g)'
  BY <1>1, <1>5 DEF LocalsFit, Reading, Writing
<1>7. WriteFits(g)'
  BY <1>1, <1>5 DEF WriteFits, Reading, Writing
<1>8. ErrorsFit'
  BY <1>1, <1>4, <1>5 DEF ErrorsFit, Alone, Done, Other, Reading
<1>9. QED  BY <1>1, <1>3, <1>4, <1>6, <1>7, <1>8, AloneKeepsAcks, AloneKeepsLocals, AloneKeepsWrites

LEMMA PollKeeps ==
  ASSUME PipeFits, NEW g \in Goroutines, Poll(g) \/ WriteLock(g) \/ Interrupt(g)
  PROVE  PipeFits'
<1> USE PipeAssumption, NoneAssumption DEF PipeFits
<1>1. /\ UNCHANGED <<dopc, finished, rerr, werr, kind, len, b, n, err>>
      /\ iopc' = [iopc EXCEPT ![g] = iopc'[g]]
      /\ \/ iopc[g] = "poll" /\ iopc'[g] = "err1" /\ Done /\ wrMu' = wrMu
         \/ iopc[g] = "poll" /\ iopc'[g] = "mu" /\ Writing(g) /\ wrMu' = wrMu
         \/ iopc[g] = "poll" /\ iopc'[g] = "select" /\ ~Writing(g) /\ wrMu' = wrMu
         \/ iopc[g] = "mu" /\ iopc'[g] = "select" /\ wrMu = None /\ wrMu' = g
         \/ iopc[g] = "select" /\ iopc'[g] = "err1" /\ Done /\ wrMu' = wrMu
  BY DEF Poll, WriteLock, Interrupt, Go, oncevars, iovars, PipeTypeOK
<1>2. iopc'[g] \in {"err1", "mu", "select"}
  BY <1>1
<1>3. PipeTypeOK'
  BY <1>1, <1>2 DEF PipeTypeOK, IOPCs
<1>4. Alone(g)
  BY <1>1 DEF Alone, PipeTypeOK
<1>5. LocalsFit(g)'
  BY <1>1 DEF LocalsFit, Reading, Writing, PipeTypeOK
<1>6. WriteFits(g)'
  BY <1>1 DEF WriteFits, LocalsFit, Reading, Writing, PipeTypeOK
<1>7. ErrorsFit'
  BY <1>1, <1>4 DEF ErrorsFit, Alone, Done, Other, Reading
<1>8. QED  BY <1>1, <1>3, <1>4, <1>5, <1>6, <1>7, AloneKeepsAcks, AloneKeepsLocals, AloneKeepsWrites

LEMMA CloseErrorKeeps ==
  ASSUME PipeFits, NEW g \in Goroutines, CloseError1(g) \/ CloseError2(g)
  PROVE  PipeFits'
<1> USE PipeAssumption, NoneAssumption DEF PipeFits
<1>1. /\ UNCHANGED <<dopc, finished, rerr, werr, kind, len, b, n, wrMu>>
      /\ iopc' = [iopc EXCEPT ![g] = iopc'[g]] /\ err' = [err EXCEPT ![g] = err'[g]]
      /\ \/ iopc[g] = "err1" /\ iopc'[g] = "err2" /\ err'[g] = IF Reading(g) THEN rerr ELSE werr
         \/ iopc[g] = "err2" /\ iopc'[g] = "return" /\ err'[g] = CloseError(g)
  BY DEF CloseError1, CloseError2, Go, oncevars, PipeTypeOK
<1>2. err'[g] \in Errors \cup {None} /\ iopc'[g] \in {"err2", "return"}
  BY <1>1 DEF PipeTypeOK, CloseError, Other
<1>3. PipeTypeOK'
  BY ZenonT(40), <1>1, <1>2 DEF PipeTypeOK, IOPCs
<1>4. Alone(g)
  BY <1>1 DEF Alone, PipeTypeOK
<1>5. LocalsFit(g)'
  BY <1>1 DEF LocalsFit, Reading, Writing, PipeTypeOK
<1>6. WriteFits(g)'
  BY <1>1 DEF WriteFits, LocalsFit, Reading, Writing, PipeTypeOK
<1>7. ErrorsFit'
  BY <1>1, <1>4 DEF ErrorsFit, Alone, Done, Other, Reading
<1>8. QED  BY <1>1, <1>3, <1>4, <1>5, <1>6, <1>7, AloneKeepsAcks, AloneKeepsLocals, AloneKeepsWrites

LEMMA ReturnKeeps ==
  ASSUME PipeFits, NEW g \in Goroutines, Return(g)
  PROVE  PipeFits'
<1> USE PipeAssumption, NoneAssumption DEF PipeFits
<1>1. /\ UNCHANGED <<dopc, finished, rerr, werr>> /\ wrMu' = IF wrMu = g THEN None ELSE wrMu
      /\ iopc[g] = "return" /\ iopc' = [iopc EXCEPT ![g] = "idle"]
      /\ kind' = [kind EXCEPT ![g] = "read"] /\ len' = [len EXCEPT ![g] = 0]
      /\ b' = [b EXCEPT ![g] = <<>>] /\ n' = [n EXCEPT ![g] = 0] /\ err' = [err EXCEPT ![g] = None]
  BY DEF Return, Go, oncevars
<1>2. PipeTypeOK'
  BY <1>1 DEF PipeTypeOK, IOPCs
<1>3. Alone(g)
  BY <1>1 DEF Alone, PipeTypeOK
<1>4. /\ iopc'[g] = "idle" /\ kind'[g] = "read" /\ len'[g] = 0 /\ b'[g] = <<>> /\ n'[g] = 0
      /\ err'[g] = None
  BY <1>1 DEF PipeTypeOK
<1>5. LocalsFit(g)'
  BY <1>4 DEF LocalsFit, Reading, Writing
<1>6. WriteFits(g)'
  BY <1>1, <1>4 DEF WriteFits, Reading, Writing
<1>7. ErrorsFit'
  BY <1>1, <1>3 DEF ErrorsFit, Alone, Done, Other, Reading
<1>8. wrMu' = wrMu \/ (wrMu = g /\ wrMu' = None)
  BY <1>1
<1>9. QED  BY <1>2, <1>3, <1>5, <1>6, <1>7, <1>8, AloneKeepsAcks, AloneKeepsLocals, AloneKeepsWrites

\* An error, once stored, stays.
LEMMA StoreKeeps ==
  ASSUME PipeFits, OnceIInv', OnceTypeOK, NEW g \in Goroutines, Store(g)
  PROVE  /\ PipeFits'
         /\ rerr # None => rerr' = rerr
         /\ werr # None => werr' = werr
<1> USE PipeAssumption, NoneAssumption DEF PipeFits
<1>1. /\ UNCHANGED <<finished, wrMu, kind, len, b, n>> /\ dopc' = [dopc EXCEPT ![g] = "load"]
      /\ iopc[g] = "store" /\ iopc' = [iopc EXCEPT ![g] = "once"] /\ err' = [err EXCEPT ![g] = None]
      /\ rerr' = (IF kind[g] = "closeread" /\ rerr = None THEN err[g] ELSE rerr)
      /\ werr' = (IF kind[g] # "closeread" /\ werr = None THEN err[g] ELSE werr)
  BY DEF Store, Go, Do, Move
<1>2. err[g] # None /\ err[g] \in Errors
  BY <1>1 DEF PipeTypeOK, LocalsFit
<1>3. PipeTypeOK'
  BY <1>1, <1>2 DEF PipeTypeOK, IOPCs
<1>4. Alone(g)
  BY <1>1 DEF Alone, PipeTypeOK
<1>5. iopc'[g] = "once" /\ err'[g] = None /\ dopc'[g] = "load" /\ \A h \in Goroutines \ {g} : dopc'[h] = dopc[h]
  BY <1>1 DEF PipeTypeOK, OnceTypeOK
<1>6. LocalsFit(g)'
  BY <1>1, <1>5 DEF LocalsFit, Reading, Writing, PipeTypeOK
<1>7. WriteFits(g)'
  BY <1>1, <1>5 DEF WriteFits, LocalsFit, Reading, Writing, PipeTypeOK
<1>8. /\ rerr # None => rerr' = rerr
      /\ werr # None => werr' = werr
  BY <1>1
<1>9. ErrorsFit'
  <2>1. Done' => rerr' # None \/ werr' # None
    BY <1>1, <1>8 DEF ErrorsFit, Done
  <2>2. IF kind'[g] = "closeread" THEN rerr' # None ELSE werr' # None
    BY <1>1, <1>2
  <2>3. ASSUME NEW h \in Goroutines \ {g}
        PROVE  ErrorsFit!2!(h)'
    BY <1>1, <1>4, <1>5, <1>8 DEF ErrorsFit, Alone, Done, Other, Reading
  <2>4. QED  BY <1>1, <1>5, <2>1, <2>2, <2>3 DEF ErrorsFit
<1>10. QED  BY <1>1, <1>3, <1>4, <1>6, <1>7, <1>8, <1>9, AloneKeepsAcks, AloneKeepsLocals, AloneKeepsWrites

LEMMA OnceStepKeeps ==
  ASSUME PipeFits, OnceTypeOK, NEW g \in Goroutines, OnceStep(g)
  PROVE  PipeFits'
<1> USE PipeAssumption, NoneAssumption DEF PipeFits
<1>1. /\ DoStep(g) /\ UNCHANGED <<len, b, n, err, wrMu, rerr, werr>>
      /\ \/ /\ dopc'[g] = "idle" /\ iopc[g] = "once" /\ iopc' = [iopc EXCEPT ![g] = "idle"]
            /\ kind' = [kind EXCEPT ![g] = "read"]
         \/ dopc'[g] # "idle" /\ UNCHANGED <<iopc, kind>>
  BY DEF OnceStep, Go
<1>2. /\ dopc[g] # "idle" /\ \A h \in Goroutines \ {g} : dopc'[h] = dopc[h]
      /\ finished' = finished \/ finished' = TRUE
  BY <1>1, DoFacts
<1>3. iopc[g] = "once"
  BY <1>2 DEF ErrorsFit
<1>4. PipeTypeOK'
  BY <1>1 DEF PipeTypeOK, IOPCs
<1>5. Alone(g)
  BY <1>1, <1>3 DEF Alone, PipeTypeOK
<1>6. LocalsFit(g)'
  BY <1>1, <1>3 DEF LocalsFit, Reading, Writing, PipeTypeOK
<1>7. WriteFits(g)'
  BY <1>1, <1>3 DEF WriteFits, LocalsFit, Reading, Writing, PipeTypeOK
<1>8. ErrorsFit'
  <2>1. rerr # None \/ werr # None
    BY <1>3 DEF ErrorsFit
  <2>2. ASSUME NEW h \in Goroutines
        PROVE  ErrorsFit!2!(h)'
    <3>1. CASE h # g
      BY <1>1, <1>2, <1>5, <3>1 DEF ErrorsFit, Alone, Done, Other, Reading
    <3>2. CASE h = g
      BY <1>1, <1>2, <1>3, <3>2 DEF ErrorsFit, PipeTypeOK
    <3>3. QED  BY <3>1, <3>2
  <2>3. QED  BY <1>1, <2>1, <2>2 DEF ErrorsFit
<1>9. QED  BY <1>1, <1>4, <1>5, <1>6, <1>7, <1>8, AloneKeepsAcks, AloneKeepsLocals, AloneKeepsWrites

\* Nobody is between the two channels when a Write is in its select.
LEMMA NobodyAcks ==
  ASSUME PipeFits, NEW w \in Goroutines, iopc[w] = "select", Writing(w)
  PROVE  /\ \A h \in Goroutines : iopc[h] # "ack"
         /\ \A h \in Goroutines \ {w} : Writing(h) => iopc[h] # "select"
<1>1. wrMu = w
  BY DEF PipeFits, WriteFits
<1>2. ASSUME NEW h \in Goroutines \ {w}, Writing(h)
      PROVE  iopc[h] \notin {"select", "ack"}
  BY <1>1, <1>2 DEF PipeFits, WriteFits
<1>3. ASSUME NEW h \in Goroutines, iopc[h] = "ack"
      PROVE  Reading(h) \/ Writing(h)
  BY <1>3 DEF PipeFits, LocalsFit, PipeTypeOK, Reading, Writing
<1>4. QED  BY <1>2, <1>3 DEF PipeFits, AcksFit, Reading, Writing

\* The one Read and the one Write that are there.
LEMMA AckersAre ==
  ASSUME PipeFits, NEW r \in Goroutines, NEW w \in Goroutines,
         iopc[r] = "ack", Reading(r), iopc[w] = "ack", Writing(w)
  PROVE  /\ \A h \in Goroutines : iopc[h] = "ack" => h \in {r, w}
         /\ \A h \in Goroutines \ {w} : Writing(h) => iopc[h] # "select"
         /\ Len(b[r]) <= Len(b[w]) /\ Receiver = r
<1>1. wrMu = w
  BY DEF PipeFits, WriteFits
<1>2. ASSUME NEW h \in Goroutines \ {w}, Writing(h)
      PROVE  iopc[h] \notin {"select", "ack"}
  BY <1>1, <1>2 DEF PipeFits, WriteFits
<1>3. ASSUME NEW h \in Goroutines, iopc[h] = "ack"
      PROVE  Reading(h) \/ Writing(h)
  BY <1>3 DEF PipeFits, LocalsFit, PipeTypeOK, Reading, Writing
<1>4. \A h \in Goroutines : iopc[h] = "ack" /\ Reading(h) => h = r
  BY DEF PipeFits, AcksFit
<1>5. Receiver = r
  BY <1>4 DEF Receiver
<1>6. QED  BY <1>2, <1>3, <1>4, <1>5 DEF PipeFits, AcksFit

\* A Read gets the first bytes that are left of the Write.
LEMMA TransferDoes ==
  ASSUME PipeFits, NEW r \in Goroutines, NEW w \in Goroutines, Transfer(r, w)
  PROVE  LET k == IF len[r] < Len(b[w]) THEN len[r] ELSE Len(b[w]) IN
           /\ r # w /\ k \in 0 .. Len(b[w]) /\ b[w] \in Seq(Nat) /\ Len(b[w]) = len[w] - n[w]
           /\ b'[r] = SubSeq(b[w], 1, k) /\ b'[r] \in Seq(Nat) /\ Len(b'[r]) = k /\ b' = [b EXCEPT ![r] = b'[r]]
<1> DEFINE k == IF len[r] < Len(b[w]) THEN len[r] ELSE Len(b[w])
<1>1. r # w
  BY DEF Transfer, Reading, Writing
<1>2. b[w] \in Seq(Nat) /\ Len(b[w]) \in Nat /\ k \in 0 .. Len(b[w])
  BY DEF PipeFits, PipeTypeOK
<1>3. b' = [b EXCEPT ![r] = SubSeq(b[w], 1, k)]
  BY DEF Transfer
<1>4. SubSeq(b[w], 1, k) \in Seq(Nat) /\ Len(SubSeq(b[w], 1, k)) = k
  BY <1>2, FirstBytes
<1>5. Len(b[w]) = len[w] - n[w]
  <2>1. len[w] \in Nat /\ n[w] \in 0 .. len[w] /\ b[w] = SubSeq(Bytes(len[w]), n[w] + 1, len[w])
    BY DEF PipeFits, PipeTypeOK, WriteFits, Transfer
  <2>2. QED  BY <2>1, RestOfBytes
<1> HIDE DEF k
<1>6. b'[r] = SubSeq(b[w], 1, k)
  BY <1>3 DEF PipeFits, PipeTypeOK
<1>7. QED  BY <1>1, <1>2, <1>3, <1>4, <1>5, <1>6 DEF k

LEMMA TransferKeeps ==
  ASSUME PipeFits, NEW r \in Goroutines, NEW w \in Goroutines, Transfer(r, w)
  PROVE  PipeFits'
<1> USE NoneAssumption DEF PipeFits
<1>1. /\ iopc[r] = "select" /\ Reading(r) /\ iopc[w] = "select" /\ Writing(w) /\ r # w
      /\ iopc' = [iopc EXCEPT ![r] = "ack", ![w] = "ack"]
      /\ UNCHANGED <<dopc, finished, kind, len, n, err, wrMu, rerr, werr>>
      /\ b' = [b EXCEPT ![r] = b'[r]] /\ b'[r] \in Seq(Nat) /\ Len(b'[r]) <= Len(b[w]) /\ b'[w] = b[w]
  <2>1. b' = [b EXCEPT ![r] = b'[r]] /\ b'[r] \in Seq(Nat) /\ Len(b'[r]) <= Len(b[w]) /\ r # w
    BY TransferDoes
  <2>2. b'[w] = b[w]
    BY <2>1 DEF PipeTypeOK
  <2>3. QED  BY <2>1, <2>2 DEF Transfer, oncevars
<1>2. PipeTypeOK'
  BY <1>1 DEF PipeTypeOK, IOPCs
<1>3. \A h \in Goroutines : iopc[h] # "ack"
  BY <1>1, NobodyAcks
<1>4. \A h \in Goroutines : iopc'[h] = IF h \in {r, w} THEN "ack" ELSE iopc[h]
  BY <1>1 DEF PipeTypeOK
<1>5. \A h \in Goroutines \ {r} : b'[h] = b[h]
  BY <1>1 DEF PipeTypeOK
<1>6. AcksFit'
  <2>1. /\ \A h \in Goroutines : iopc'[h] = "ack" /\ Reading(h)' => h = r
        /\ \A h \in Goroutines : iopc'[h] = "ack" /\ Writing(h)' => h = w
    BY ZenonT(40), <1>1, <1>3, <1>4 DEF Reading, Writing
  <2>2. iopc'[r] = "ack" /\ Reading(r)' /\ iopc'[w] = "ack" /\ Writing(w)' /\ Len(b[r])' <= Len(b[w])'
    BY <1>1, <1>4 DEF Reading, Writing
  <2>3. QED  BY <2>1, <2>2 DEF AcksFit
<1>7. ErrorsFit'
  <2>1. ASSUME NEW h \in Goroutines
        PROVE  ErrorsFit!2!(h)'
    <3>1. UNCHANGED <<dopc, finished, kind, err, rerr, werr>>
      BY <1>1
    <3>2. iopc'[h] = iopc[h] \/ (iopc[h] = "select" /\ iopc'[h] = "ack")
      BY <1>1, <1>4
    <3>3. QED  BY <3>1, <3>2 DEF ErrorsFit, Done, Other, Reading
  <2>2. QED  BY <1>1, <2>1 DEF ErrorsFit, Done
<1>8. ASSUME NEW h \in Goroutines
      PROVE  LocalsFit(h)' /\ WriteFits(h)'
  <2>1. LocalsFit(h)'
    <3>1. CASE h = r
      <4>1. /\ iopc[h] = "select" /\ iopc'[h] = "ack" /\ Reading(h)' = Reading(h) /\ Writing(h)' = Writing(h)
            /\ kind'[h] = kind[h] /\ len'[h] = len[h] /\ n'[h] = n[h] /\ err'[h] = err[h]
        BY <1>1, <1>4, <3>1 DEF Reading, Writing
      <4>2. QED  BY <4>1 DEF LocalsFit
    <3>2. CASE h = w
      <4>1. /\ iopc[h] = "select" /\ iopc'[h] = "ack" /\ Reading(h)' = Reading(h) /\ Writing(h)' = Writing(h)
            /\ kind'[h] = kind[h] /\ len'[h] = len[h] /\ n'[h] = n[h] /\ err'[h] = err[h]
        BY <1>1, <1>4, <3>2 DEF Reading, Writing
      <4>2. QED  BY <4>1 DEF LocalsFit
    <3>3. CASE h # r /\ h # w
      BY ZenonT(40), <1>1, <1>4, <1>5, <3>3 DEF LocalsFit, Reading, Writing
    <3>4. QED  BY <3>1, <3>2, <3>3
  <2>2. WriteFits(h)'
    BY <1>1, <1>4, <1>5 DEF WriteFits, Reading, Writing
  <2>3. QED  BY <2>1, <2>2
<1>9. QED  BY <1>2, <1>6, <1>7, <1>8

\* The Write learns how many of its bytes are gone.
LEMMA AckDoes ==
  ASSUME PipeFits, NEW r \in Goroutines, NEW w \in Goroutines, Ack(r, w)
  PROVE  LET nw   == Len(b[r])
             rest == SubSeq(Bytes(len[w]), n[w] + nw + 1, len[w])
         IN  /\ r # w /\ nw \in Nat /\ n[w] + nw \in 0 .. len[w] /\ rest \in Seq(Nat)
             /\ b' = [b EXCEPT ![w] = rest] /\ n' = [n EXCEPT ![w] = @ + nw]
             /\ iopc' = [iopc EXCEPT ![r] = "return", ![w] = IF rest = <<>> THEN "return" ELSE "select"]
<1> DEFINE nw == Len(b[r])
           rest == SubSeq(Bytes(len[w]), n[w] + nw + 1, len[w])
<1>1. r # w
  BY DEF Ack, Reading, Writing
<1>2. nw \in Nat /\ nw <= Len(b[w])
  BY AckersAre DEF Ack, PipeFits, PipeTypeOK
<1>3. len[w] \in Nat /\ n[w] \in 0 .. len[w] /\ b[w] = SubSeq(Bytes(len[w]), n[w] + 1, len[w])
  BY DEF PipeFits, PipeTypeOK, WriteFits, Ack
<1>4. Len(b[w]) = len[w] - n[w] /\ n[w] + nw \in 0 .. len[w] /\ nw \in 0 .. len[w] - n[w]
  BY SMTT(20), <1>2, <1>3, RestOfBytes
<1>5. SubSeq(b[w], nw + 1, Len(b[w])) = rest
  BY ZenonT(40), <1>3, <1>4, RestOfBytes
<1>6. rest \in Seq(Nat)
  BY <1>3, <1>4, RestOfBytes
<1>7. QED  BY <1>1, <1>2, <1>4, <1>5, <1>6 DEF Ack

LEMMA AckKeeps ==
  ASSUME PipeFits, NEW r \in Goroutines, NEW w \in Goroutines, Ack(r, w)
  PROVE  PipeFits'
<1> USE NoneAssumption DEF PipeFits
<1> DEFINE nw == Len(b[r])
           rest == SubSeq(Bytes(len[w]), n[w] + nw + 1, len[w])
<1>1. /\ iopc[r] = "ack" /\ Reading(r) /\ iopc[w] = "ack" /\ Writing(w) /\ r # w
      /\ UNCHANGED <<dopc, finished, kind, len, err, wrMu, rerr, werr>>
      /\ iopc' = [iopc EXCEPT ![r] = "return", ![w] = IF rest = <<>> THEN "return" ELSE "select"]
      /\ b' = [b EXCEPT ![w] = rest] /\ rest \in Seq(Nat)
      /\ n' = [n EXCEPT ![w] = @ + nw] /\ nw \in Nat /\ n[w] + nw \in 0 .. len[w]
  BY AckDoes DEF Ack, oncevars
<1> HIDE DEF nw, rest
<1>2. PipeTypeOK'
  <2>1. iopc' \in [Goroutines -> IOPCs]
    BY <1>1 DEF PipeTypeOK, IOPCs
  <2>2. n' \in [Goroutines -> Nat] /\ b' \in [Goroutines -> Seq(Nat)]
    BY <1>1 DEF PipeTypeOK
  <2>3. QED  BY <1>1, <2>1, <2>2 DEF PipeTypeOK
<1>3. /\ iopc'[r] = "return" /\ iopc'[w] \in {"return", "select"}
      /\ \A h \in Goroutines \ {r, w} : iopc'[h] = iopc[h]
      /\ b'[w] = rest /\ n'[w] = n[w] + nw /\ \A h \in Goroutines \ {w} : b'[h] = b[h] /\ n'[h] = n[h]
  BY <1>1 DEF PipeTypeOK
<1>4. \A h \in Goroutines : iopc'[h] # "ack"
  <2>1. \A h \in Goroutines : iopc[h] = "ack" => h \in {r, w}
    BY <1>1, AckersAre
  <2>2. QED  BY <1>1, <1>3, <2>1
<1>5. AcksFit'
  BY <1>4 DEF AcksFit
<1>6. ErrorsFit'
  <2>1. ASSUME NEW h \in Goroutines
        PROVE  ErrorsFit!2!(h)'
    <3>1. CASE h \in {r, w}
      BY <1>1, <1>3, <3>1 DEF ErrorsFit
    <3>2. CASE h \notin {r, w}
      <4>1. UNCHANGED <<dopc, finished, kind, err, rerr, werr>> /\ iopc'[h] = iopc[h]
        BY <1>1, <1>3, <3>2
      <4>2. QED  BY <4>1 DEF ErrorsFit, Done, Other, Reading
    <3>3. QED  BY <3>1, <3>2
  <2>2. QED  BY <1>1, <2>1 DEF ErrorsFit, Done
<1>7. ASSUME NEW h \in Goroutines \ {r, w}
      PROVE  LocalsFit(h)' /\ WriteFits(h)'
  <2>1. /\ iopc'[h] = iopc[h] /\ b'[h] = b[h] /\ n'[h] = n[h] /\ kind'[h] = kind[h] /\ len'[h] = len[h]
        /\ err'[h] = err[h]
    BY <1>1, <1>3
  <2>2. LocalsFit(h)'
    BY <2>1 DEF LocalsFit, Reading, Writing
  <2>3. WriteFits(h)'
    BY <1>1, <2>1 DEF WriteFits, Reading, Writing
  <2>4. QED  BY <2>2, <2>3
<1>8. LocalsFit(r)' /\ WriteFits(r)'
  <2>1. /\ iopc'[r] = "return" /\ b'[r] = b[r] /\ n'[r] = n[r] /\ kind'[r] = kind[r] /\ len'[r] = len[r]
        /\ err'[r] = err[r]
    BY <1>1, <1>3
  <2>2. LocalsFit(r)'
    BY <1>1, <2>1 DEF LocalsFit, Reading, Writing
  <2>3. WriteFits(r)'
    BY <1>1, <2>1 DEF WriteFits, Reading, Writing
  <2>4. QED  BY <2>2, <2>3
<1>9. LocalsFit(w)'
  BY <1>1, <1>3 DEF LocalsFit, Reading, Writing
<1>10. WriteFits(w)'
  <2>1. /\ iopc[w] = "ack" /\ Writing(w) /\ wrMu = w /\ wrMu' = w /\ Writing(w)'
        /\ len'[w] = len[w] /\ n'[w] = n[w] + nw /\ n'[w] <= len[w]
    BY <1>1, <1>3 DEF WriteFits, Writing
  <2>2. b'[w] = SubSeq(Bytes(len[w]), n[w] + nw + 1, len[w])
    BY <1>3 DEF rest
  <2>3. QED  BY <1>3, <2>1, <2>2 DEF WriteFits
<1>11. QED  BY <1>2, <1>5, <1>6, <1>7, <1>8, <1>9, <1>10

LEMMA NextPipeIInv ==
  ASSUME PipeIInv, [PipeNext]_pipevars
  PROVE  PipeIInv'
<1>1. OnceIInv' /\ OnceTypeOK /\ PipeFits
  BY NextOnceIInv DEF PipeIInv, OnceIInv, PipeFits
<1>2. PipeFits'
  <2>1. CASE UNCHANGED pipevars
    BY <1>1, <2>1 DEF pipevars, oncevars, iovars, PipeFits, PipeTypeOK, AcksFit, ErrorsFit, LocalsFit, WriteFits,
       Reading, Writing, Done, Other
  <2>2. ASSUME NEW g \in Goroutines, BeginCall(g)
        PROVE  PipeFits'
    BY <1>1, <2>2, StartKeeps, CloseKeeps DEF BeginCall
  <2>3. ASSUME NEW g \in Goroutines, PipeStep(g)
        PROVE  PipeFits'
    <3>1. CASE Poll(g) \/ WriteLock(g) \/ Interrupt(g)
      BY <1>1, <3>1, PollKeeps
    <3>2. CASE CloseError1(g) \/ CloseError2(g)
      BY <1>1, <3>2, CloseErrorKeeps
    <3>3. CASE Return(g)
      BY <1>1, <3>3, ReturnKeeps
    <3>4. CASE Store(g)
      BY <1>1, <3>4, StoreKeeps
    <3>5. CASE OnceStep(g)
      BY <1>1, <3>5, OnceStepKeeps
    <3>6. CASE \E w \in Goroutines : Ack(g, w)
      BY <1>1, <3>6, AckKeeps
    <3>7. QED  BY <2>3, <3>1, <3>2, <3>3, <3>4, <3>5, <3>6 DEF PipeStep
  <2>4. ASSUME NEW g \in Goroutines, NEW w \in Goroutines, Transfer(g, w)
        PROVE  PipeFits'
    BY <1>1, <2>4, TransferKeeps
  <2>5. QED  BY <2>1, <2>2, <2>3, <2>4 DEF PipeNext
<1>3. QED  BY <1>1, <1>2 DEF PipeIInv, PipeFits

\* A Read and a Write that meet stay together until both have heard of each other,
\* one Write at a time has told some of its bytes, and a call that finds the pipe
\* closed finds an error.
THEOREM PipeInvariance == PipeSpec => []PipeIInv
<1>1. PipeInit => PipeIInv
  BY PipeStarts, InitOnceIInv DEF PipeInit, PipeIInv, PipeFits
<1>2. QED  BY <1>1, NextPipeIInv, PTL DEF PipeSpec

-----------------------------------------------------------------------------
(* The calls, as PipeCalls has them. *)

ReceiverIs == \A r \in Goroutines : iopc[r] = "ack" /\ Reading(r) => Receiver = r

LEMMA TheReceiver == PipeFits => ReceiverIs
<1> SUFFICES ASSUME PipeFits, NEW r \in Goroutines, iopc[r] = "ack", Reading(r)
             PROVE  Receiver = r
  BY DEF ReceiverIs
<1>1. \A q \in Goroutines : iopc[q] = "ack" /\ Reading(q) => q = r
  BY DEF PipeFits, AcksFit
<1>2. QED  BY <1>1 DEF Receiver

LEMMA TheReceiverNext == PipeFits' => ReceiverIs'
BY TheReceiver, PTL

ErrorsStay == (rerr # None => rerr' = rerr) /\ (werr # None => werr' = werr)

\* A call looks as before to whom it is the others that take a step.
LEMMA OthersLookTheSame ==
  ASSUME PipeFits, PipeFits', NEW g \in Goroutines, Alone(g), ErrorsStay, NEW h \in Goroutines \ {g}
  PROVE  AbstractCall(h)' = AbstractCall(h)
<1>1. /\ iopc'[h] = iopc[h] /\ kind'[h] = kind[h] /\ len'[h] = len[h]
      /\ b'[h] = b[h] /\ n'[h] = n[h] /\ err'[h] = err[h]
  BY DEF Alone
<1>2. ASSUME iopc[h] = "ack", Writing(h)
      PROVE  Len(b[Receiver])' = Len(b[Receiver])
  <2>1. PICK r \in Goroutines : iopc[r] = "ack" /\ Reading(r)
    BY <1>2 DEF PipeFits, AcksFit
  <2>2. r # g /\ iopc'[r] = "ack" /\ Reading(r)' /\ b'[r] = b[r]
    BY <2>1 DEF Alone, Reading
  <2>3. Receiver = r /\ Receiver' = r
    BY <2>1, <2>2, TheReceiver, TheReceiverNext DEF ReceiverIs
  <2>4. QED  BY <2>2, <2>3
<1>3. iopc[h] = "err2" => CloseError(h)' = CloseError(h)
  <2>1. iopc[h] = "err2" /\ err[h] = None => Other(h) # None /\ Other(h)' = Other(h)
    BY <1>1 DEF PipeFits, ErrorsFit, ErrorsStay, Other, Reading
  <2>2. QED  BY <1>1, <2>1 DEF CloseError
<1>4. Reading(h) = (kind[h] = "read") /\ Writing(h) = (kind[h] = "write")
  BY DEF Reading, Writing
<1>5. CASE iopc[h] \in {"idle", "poll", "store", "once"}
  BY <1>1, <1>5 DEF AbstractCall
<1>6. CASE iopc[h] \notin {"idle", "poll", "store", "once"}
  <2>1. Reading(h) \/ Writing(h)
    BY <1>6 DEF PipeFits, LocalsFit, PipeTypeOK, Reading, Writing
  <2>2. Reading(h)' = Reading(h)
    BY <1>1 DEF Reading
  <2>3. Data(h)' = Data(h)
    <3>1. CASE Reading(h)
      BY <1>1, <2>2, <3>1 DEF Data
    <3>2. CASE Writing(h)
      <4>1. Sent(h)' = Sent(h)
        BY <1>1, <1>2, <3>2 DEF Sent
      <4>2. QED  BY <1>1, <2>2, <4>1 DEF Data
    <3>3. QED  BY <2>1, <3>1, <3>2
  <2>4. Served(h)' = Served(h)
    BY <1>1, <2>2, <2>3 DEF Served
  <2>5. End(h)' = End(h)
    BY <1>1, <1>3 DEF End
  <2>6. QED  BY <1>1, <1>6, <2>3, <2>4, <2>5 DEF AbstractCall
<1>7. QED  BY <1>5, <1>6

\* What the calls are after such a step.
LEMMA AloneLooks ==
  ASSUME PipeFits, PipeFits', NEW g \in Goroutines, Alone(g), ErrorsStay
  PROVE  [h \in Goroutines |-> AbstractCall(h)'] =
           [[h \in Goroutines |-> AbstractCall(h)] EXCEPT ![g] = AbstractCall(g)']
BY OthersLookTheSame

LEMMA UnseenStep ==
  ASSUME PipeFits, PipeFits', NEW g \in Goroutines, Alone(g), AbstractCall(g)' = AbstractCall(g),
         UNCHANGED <<rerr, werr, finished>>
  PROVE  UNCHANGED Promise!vars
<1>1. \A h \in Goroutines : AbstractCall(h)' = AbstractCall(h)
  BY OthersLookTheSame DEF ErrorsStay
<1>2. QED  BY <1>1 DEF Promise!vars, Done

\* A call is a record, None is not.
LEMMA CallIsSome ==
  ASSUME PipeFits, NEW g \in Goroutines, iopc[g] \notin {"idle", "poll", "store", "once"}
  PROVE  AbstractCall(g) # None /\ kind[g] \in {"read", "write"} /\ len[g] \in Lens
<1> USE PipeAssumption
<1>1. kind[g] \in {"read", "write"} /\ len[g] \in Lens /\ len[g] \in Nat /\ b[g] \in Seq(Nat)
  BY DEF PipeFits, LocalsFit, PipeTypeOK
<1>2. ASSUME ~Reading(g)
      PROVE  Sent(g) \in Nat
    <2>1. CASE iopc[g] = "ack"
      <3>1. PICK r \in Goroutines : iopc[r] = "ack" /\ Reading(r)
        BY <1>1, <1>2, <2>1 DEF PipeFits, AcksFit, Reading, Writing
      <3>2. Receiver = r /\ b[r] \in Seq(Nat)
        BY <3>1, TheReceiver DEF ReceiverIs, PipeFits, PipeTypeOK
      <3>3. QED  BY <2>1, <3>2 DEF Sent, PipeFits, PipeTypeOK
    <2>2. CASE iopc[g] # "ack"
      BY <2>2 DEF Sent, PipeFits, PipeTypeOK
    <2>3. QED  BY <2>1, <2>2
<1>3. Data(g) \in Seq(Nat)
  <2>1. ASSUME NEW m \in Nat
        PROVE  SubSeq(Bytes(len[g]), m + 1, len[g]) \in Seq(Nat)
    <3>1. \A i \in m + 1 .. len[g] : Bytes(len[g])[i] \in Nat
      BY <1>1 DEF Bytes
    <3>2. QED  BY <1>1, <3>1, SubSeqProperties
  <2>2. QED  BY <1>1, <1>2, <2>1 DEF Data
<1>4. End(g) \in Errors \cup {"none", "failing"}
  BY DEF End, CloseError, Other, PipeFits, PipeTypeOK
<1>5. Served(g) \in BOOLEAN
  BY DEF Served
<1>6. QED  BY <1>1, <1>3, <1>4, <1>5 DEF AbstractCall

\* What a call that is not between the two channels looks like.
CallsLook ==
  \A g \in Goroutines :
    /\ iopc[g] \in {"idle", "poll", "store", "once"} => AbstractCall(g) = None
    /\ iopc[g] \in {"mu", "select", "err1", "err2", "return"} =>
         AbstractCall(g) =
           [kind |-> kind[g], len |-> len[g], data |-> b[g],
            served |-> (iopc[g] = "return" /\ err[g] = None), end |-> End(g)]
    /\ iopc[g] \notin {"idle", "poll", "store", "once"} =>
         AbstractCall(g) # None /\ kind[g] \in {"read", "write"} /\ len[g] \in Lens

LEMMA CallLooks == PipeFits => CallsLook
<1> SUFFICES ASSUME PipeFits, NEW g \in Goroutines
             PROVE  CallsLook!(g)
  BY DEF CallsLook
<1>1. ASSUME iopc[g] \notin {"idle", "poll", "store", "once"}
      PROVE  kind[g] \in {"read", "write"} /\ len[g] \in Lens
  BY <1>1 DEF PipeFits, LocalsFit, PipeTypeOK
<1>2. ASSUME iopc[g] \in {"mu", "select", "err1", "err2", "return"}
      PROVE  Data(g) = b[g] /\ Served(g) = (iopc[g] = "return" /\ err[g] = None)
  <2>1. Sent(g) = n[g]
    BY <1>2 DEF Sent, PipeFits, PipeTypeOK
  <2>2. ~Reading(g) => b[g] = SubSeq(Bytes(len[g]), n[g] + 1, len[g])
    BY <1>1, <1>2 DEF PipeFits, WriteFits, Reading, Writing
  <2>3. QED  BY <1>2, <2>1, <2>2 DEF Data, Served
<1>3. iopc[g] \notin {"idle", "poll", "store", "once"} => AbstractCall(g) # None
  BY CallIsSome
<1>4. QED  BY <1>1, <1>2, <1>3 DEF AbstractCall

LEMMA CallLooksNext == PipeFits' => CallsLook'
BY CallLooks, PTL

-----------------------------------------------------------------------------
(* Each step, as a step of PipeCalls. *)

PipeRefines == Promise!Next \/ UNCHANGED Promise!vars

\* A step of a goroutine alone that becomes one of its call.
LEMMA PollRefines ==
  ASSUME NEW g \in Goroutines, PipeFits, PipeFits', Poll(g)
  PROVE  PipeRefines
<1>1. /\ UNCHANGED <<finished, rerr, werr, kind, len, b, n, err>> /\ iopc[g] = "poll"
      /\ iopc' = [iopc EXCEPT ![g] = iopc'[g]]
      /\ iopc'[g] = IF Done THEN "err1" ELSE IF Writing(g) THEN "mu" ELSE "select"
  BY DEF Poll, Go, oncevars, iovars, PipeFits, PipeTypeOK
<1>2. Alone(g)
  BY <1>1 DEF Alone, PipeFits, PipeTypeOK
<1>3. AbstractCall(g) = None
  BY <1>1, CallLooks DEF CallsLook
<1>4. /\ kind[g] \in {"read", "write"} /\ len[g] \in Lens /\ err'[g] = None
      /\ b[g] = IF kind[g] = "read" THEN <<>> ELSE Bytes(len[g])
  <2>1. kind[g] \in {"read", "write"} /\ len[g] \in Lens /\ len[g] \in Nat /\ err[g] = None /\ n[g] = 0
    BY <1>1 DEF PipeFits, LocalsFit, PipeTypeOK
  <2>2. kind[g] = "read" => b[g] = <<>>
    BY <1>1 DEF PipeFits, LocalsFit, Reading
  <2>3. kind[g] = "write" => b[g] = SubSeq(Bytes(len[g]), 0 + 1, len[g])
    BY <2>1 DEF PipeFits, WriteFits, Writing
  <2>4. SubSeq(Bytes(len[g]), 0 + 1, len[g]) = Bytes(len[g])
    BY <2>1, AllBytes
  <2>5. QED  BY <1>1, <2>1, <2>2, <2>3, <2>4
<1>5. AbstractCall(g)' = [kind |-> kind[g], len |-> len[g], data |-> b[g], served |-> FALSE,
                          end |-> IF Done THEN "failing" ELSE "none"]
  <2>1. AbstractCall(g)' =
          [kind |-> kind'[g], len |-> len'[g], data |-> b'[g],
           served |-> (iopc'[g] = "return" /\ err'[g] = None), end |-> End(g)']
    <3>1. iopc'[g] \in {"mu", "select", "err1", "err2", "return"}
      BY <1>1
    <3>2. QED  BY <3>1, CallLooksNext DEF CallsLook
  <2>2. End(g)' = IF Done THEN "failing" ELSE "none"
    BY <1>1 DEF End
  <2>3. QED  BY <1>1, <2>1, <2>2
<1>6. Bytes(len[g]) = Promise!Bytes(len[g])
  BY DEF Bytes, Promise!Bytes
<1>7. [h \in Goroutines |-> AbstractCall(h)'] =
        [[h \in Goroutines |-> AbstractCall(h)] EXCEPT ![g] = AbstractCall(g)']
  BY <1>1, <1>2, AloneLooks DEF ErrorsStay
<1>8. Promise!Begin(g, kind[g], len[g])
  BY <1>1, <1>3, <1>4, <1>5, <1>6, <1>7 DEF Promise!Begin, Promise!Record, Done
<1>9. QED  BY <1>4, <1>8 DEF PipeRefines, Promise!Next

\* Beginnings and the lock are not seen.
LEMMA QuietRefines ==
  ASSUME NEW g \in Goroutines, PipeFits, PipeFits', BeginCall(g) \/ WriteLock(g) \/ CloseError2(g)
  PROVE  PipeRefines
<1>1. CASE BeginCall(g)
  <2>1. /\ iopc[g] = "idle" /\ iopc' = [iopc EXCEPT ![g] = iopc'[g]] /\ iopc'[g] \in {"poll", "store"}
        /\ UNCHANGED <<finished, rerr, werr>>
    BY <1>1 DEF BeginCall, Start, Close, Go, oncevars, PipeFits, PipeTypeOK
  <2>2. Alone(g)
    BY SMTT(20), <1>1, <2>1 DEF Alone, BeginCall, Start, Close, PipeFits, PipeTypeOK
  <2>3. AbstractCall(g)' = AbstractCall(g)
    BY <2>1, CallLooks, CallLooksNext DEF CallsLook
  <2>4. QED  BY <2>1, <2>2, <2>3, UnseenStep DEF PipeRefines
<1>2. CASE WriteLock(g)
  <2>1. /\ iopc[g] = "mu" /\ iopc' = [iopc EXCEPT ![g] = "select"] /\ iopc'[g] = "select"
        /\ UNCHANGED <<finished, rerr, werr, kind, len, b, n, err>>
    BY <1>2 DEF WriteLock, Go, oncevars, iovars, PipeFits, PipeTypeOK
  <2>2. Alone(g)
    BY <2>1 DEF Alone, PipeFits, PipeTypeOK
  <2>3. End(g)' = End(g)
    BY <2>1 DEF End
  <2>4. AbstractCall(g)' = AbstractCall(g)
    <3>1. /\ AbstractCall(g) = [kind |-> kind[g], len |-> len[g], data |-> b[g],
                                served |-> (iopc[g] = "return" /\ err[g] = None), end |-> End(g)]
          /\ AbstractCall(g)' = [kind |-> kind'[g], len |-> len'[g], data |-> b'[g],
                                 served |-> (iopc'[g] = "return" /\ err'[g] = None), end |-> End(g)']
      BY <2>1, CallLooks, CallLooksNext DEF CallsLook
    <3>2. QED  BY <2>1, <2>3, <3>1
  <2>5. QED  BY <2>1, <2>2, <2>4, UnseenStep DEF PipeRefines
<1>3. CASE CloseError2(g)
  <2>1. /\ iopc[g] = "err2" /\ iopc' = [iopc EXCEPT ![g] = "return"] /\ iopc'[g] = "return"
        /\ UNCHANGED <<finished, rerr, werr, kind, len, b, n>> /\ err' = [err EXCEPT ![g] = CloseError(g)]
        /\ err'[g] = CloseError(g)
    BY <1>3 DEF CloseError2, Go, oncevars, PipeFits, PipeTypeOK
  <2>2. Alone(g)
    BY <2>1 DEF Alone, PipeFits, PipeTypeOK
  <2>3. CloseError(g) # None
    BY PipeAssumption DEF CloseError
  <2>4. End(g)' = End(g)
    BY <2>1, <2>3 DEF End
  <2>5. AbstractCall(g)' = AbstractCall(g)
    <3>1. /\ AbstractCall(g) = [kind |-> kind[g], len |-> len[g], data |-> b[g],
                                served |-> (iopc[g] = "return" /\ err[g] = None), end |-> End(g)]
          /\ AbstractCall(g)' = [kind |-> kind'[g], len |-> len'[g], data |-> b'[g],
                                 served |-> (iopc'[g] = "return" /\ err'[g] = None), end |-> End(g)']
      BY <2>1, CallLooks, CallLooksNext DEF CallsLook
    <3>2. QED  BY <2>1, <2>3, <2>4, <3>1
  <2>6. QED  BY <2>1, <2>2, <2>5, UnseenStep DEF PipeRefines
<1>4. QED  BY <1>1, <1>2, <1>3

\* The closing interrupts a call in its select, and the call takes its error.
LEMMA InterruptRefines ==
  ASSUME NEW g \in Goroutines, PipeFits, PipeFits', Interrupt(g) \/ CloseError1(g)
  PROVE  PipeRefines
<1>1. /\ UNCHANGED <<finished, rerr, werr, kind, len, b, n>>
      /\ iopc' = [iopc EXCEPT ![g] = iopc'[g]] /\ err' = [err EXCEPT ![g] = err'[g]]
      /\ \/ iopc[g] = "select" /\ iopc'[g] = "err1" /\ err'[g] = err[g] /\ Done /\ Interrupt(g)
         \/ iopc[g] = "err1" /\ iopc'[g] = "err2" /\ err'[g] = (IF Reading(g) THEN rerr ELSE werr)
  BY DEF Interrupt, CloseError1, Go, oncevars, iovars, PipeFits, PipeTypeOK
<1>2. Alone(g)
  BY <1>1 DEF Alone, PipeFits, PipeTypeOK
<1>3. [h \in Goroutines |-> AbstractCall(h)'] =
        [[h \in Goroutines |-> AbstractCall(h)] EXCEPT ![g] = AbstractCall(g)']
  BY <1>1, <1>2, AloneLooks DEF ErrorsStay
<1>4. /\ AbstractCall(g) = [kind |-> kind[g], len |-> len[g], data |-> b[g],
                            served |-> (iopc[g] = "return" /\ err[g] = None), end |-> End(g)]
      /\ AbstractCall(g)' = [kind |-> kind'[g], len |-> len'[g], data |-> b'[g],
                             served |-> (iopc'[g] = "return" /\ err'[g] = None), end |-> End(g)']
      /\ AbstractCall(g) # None /\ kind[g] \in {"read", "write"}
  BY <1>1, CallLooks, CallLooksNext DEF CallsLook
<1>5. AbstractCall(g)' = [AbstractCall(g) EXCEPT !.end = End(g)']
  BY <1>1, <1>4
<1>6. CASE iopc[g] = "select"
  <2>1. End(g) = "none"
    BY <1>6 DEF End
  <2>2. iopc'[g] = "err1" /\ Done
    BY <1>1, <1>6
  <2>3. End(g)' = "failing"
    BY <2>2 DEF End
  <2>4. AbstractCall(g).kind = kind[g] /\ AbstractCall(g).end = "none" /\ ~AbstractCall(g).served
    <3>1. /\ AbstractCall(g).kind = kind[g] /\ AbstractCall(g).end = End(g)
          /\ AbstractCall(g).served = (iopc[g] = "return" /\ err[g] = None)
      BY <1>4
    <3>2. QED  BY <1>6, <2>1, <3>1
  <2>5. [h \in Goroutines |-> AbstractCall(h)][g] = AbstractCall(g)
    OBVIOUS
  <2>6. [h \in Goroutines |-> AbstractCall(h)'] =
          [[h \in Goroutines |-> AbstractCall(h)] EXCEPT ![g] = [@ EXCEPT !.end = "failing"]]
    <3> DEFINE F == [h \in Goroutines |-> AbstractCall(h)]
    <3>1. [F EXCEPT ![g] = AbstractCall(g)'] = [F EXCEPT ![g] = [F[g] EXCEPT !.end = "failing"]]
      BY <1>5, <2>3, <2>5
    <3>2. QED  BY <1>3, <3>1
  <2>7. Promise!Interrupt(g, kind[g])
    <3>1. Promise!Waits(g, kind[g])
      BY <1>4, <2>4, <2>5 DEF Promise!Waits
    <3>2. UNCHANGED <<rerr, werr, Done>>
      BY <1>1 DEF Done
    <3>3. QED  BY <2>2, <2>6, <3>1, <3>2 DEF Promise!Interrupt
  <2>8. QED  BY <1>4, <2>7 DEF PipeRefines, Promise!Next
<1>7. CASE iopc[g] = "err1"
  <2>1. AbstractCall(g).kind = kind[g] /\ AbstractCall(g).end = "failing"
    BY <1>4, <1>7 DEF End
  <2>2. End(g)' = CloseError(g)'
    BY <1>1, <1>7 DEF End
  <2>3. err'[g] = None => Other(g)' # None
    BY <1>1, <1>7 DEF PipeFits, ErrorsFit
  <2>4. CloseError(g)' = IF kind[g] = "read" THEN Promise!CloseError(rerr, werr)
                                             ELSE Promise!CloseError(werr, rerr)
    BY <1>1, <1>7, <2>3 DEF CloseError, Other, Reading, Promise!CloseError
  <2>5. [h \in Goroutines |-> AbstractCall(h)][g] = AbstractCall(g)
    OBVIOUS
  <2>6. [h \in Goroutines |-> AbstractCall(h)'] =
          [[h \in Goroutines |-> AbstractCall(h)] EXCEPT ![g] = [@ EXCEPT !.end = CloseError(g)']]
    <3> DEFINE F == [h \in Goroutines |-> AbstractCall(h)]
    <3>1. [F EXCEPT ![g] = AbstractCall(g)'] = [F EXCEPT ![g] = [F[g] EXCEPT !.end = CloseError(g)']]
      BY <1>5, <2>2, <2>5
    <3>2. QED  BY <1>3, <3>1
  <2>7. Promise!Fail(g)
    <3>1. UNCHANGED <<rerr, werr, Done>>
      BY <1>1 DEF Done
    <3>2. AbstractCall(g) # None
      BY <1>4
    <3>3. QED  BY <2>1, <2>4, <2>5, <2>6, <3>1, <3>2 DEF Promise!Fail
  <2>8. QED  BY <2>7 DEF PipeRefines, Promise!Next
<1>8. QED  BY <1>1, <1>6, <1>7

LEMMA ReturnRefines ==
  ASSUME NEW g \in Goroutines, PipeFits, PipeFits', Return(g)
  PROVE  PipeRefines
<1>1. /\ UNCHANGED <<finished, rerr, werr>> /\ iopc[g] = "return" /\ iopc' = [iopc EXCEPT ![g] = "idle"]
      /\ iopc'[g] = "idle"
  BY DEF Return, Go, oncevars, PipeFits, PipeTypeOK
<1>2. Alone(g)
  BY <1>1 DEF Alone, Return, PipeFits, PipeTypeOK
<1>3. [h \in Goroutines |-> AbstractCall(h)'] =
        [[h \in Goroutines |-> AbstractCall(h)] EXCEPT ![g] = AbstractCall(g)']
  BY <1>1, <1>2, AloneLooks DEF ErrorsStay
<1>4. /\ AbstractCall(g) # None /\ AbstractCall(g)' = None
      /\ AbstractCall(g).served = (err[g] = None) /\ AbstractCall(g).end = End(g)
  BY <1>1, CallLooks, CallLooksNext DEF CallsLook
<1>5. AbstractCall(g).served \/ AbstractCall(g).end \in Errors
  BY <1>1, <1>4 DEF End, PipeFits, PipeTypeOK
<1>6. Promise!Return(g)
  BY <1>1, <1>3, <1>4, <1>5 DEF Promise!Return, Done
<1>7. QED  BY <1>6 DEF PipeRefines, Promise!Next

\* The error of an end is stored, if it is the first, and the pipe is closed.
LEMMA StoreRefines ==
  ASSUME NEW g \in Goroutines, PipeFits, PipeFits', Store(g)
  PROVE  PipeRefines
<1>1. /\ finished' = finished /\ iopc[g] = "store" /\ iopc' = [iopc EXCEPT ![g] = "once"]
      /\ iopc'[g] = "once" /\ UNCHANGED <<kind, len, b, n>> /\ err' = [err EXCEPT ![g] = None]
      /\ rerr' = (IF kind[g] = "closeread" /\ rerr = None THEN err[g] ELSE rerr)
      /\ werr' = (IF kind[g] # "closeread" /\ werr = None THEN err[g] ELSE werr)
  BY DEF Store, Go, Do, PipeFits, PipeTypeOK
<1>2. Alone(g)
  BY <1>1 DEF Alone, PipeFits, PipeTypeOK
<1>3. ErrorsStay
  BY <1>1 DEF ErrorsStay
<1>4. AbstractCall(g)' = AbstractCall(g)
  BY <1>1, CallLooks, CallLooksNext DEF CallsLook
<1>5. [h \in Goroutines |-> AbstractCall(h)'] = [h \in Goroutines |-> AbstractCall(h)]
  BY <1>2, <1>3, <1>4, OthersLookTheSame
<1>6. err[g] \in Errors
  BY <1>1 DEF PipeFits, PipeTypeOK, LocalsFit
<1>7. CASE kind[g] = "closeread" /\ rerr = None
  <2>1. Promise!CloseRead(err[g])
    BY <1>1, <1>5, <1>7 DEF Promise!CloseRead, Done
  <2>2. QED  BY <1>6, <2>1 DEF PipeRefines, Promise!Next
<1>8. CASE kind[g] # "closeread" /\ werr = None
  <2>1. Promise!CloseWrite(err[g])
    BY <1>1, <1>5, <1>8 DEF Promise!CloseWrite, Done
  <2>2. QED  BY <1>6, <2>1 DEF PipeRefines, Promise!Next
<1>9. CASE ~(kind[g] = "closeread" /\ rerr = None) /\ ~(kind[g] # "closeread" /\ werr = None)
  BY <1>1, <1>5, <1>9 DEF PipeRefines, Promise!vars, Done
<1>10. QED  BY <1>7, <1>8, <1>9

LEMMA OnceStepRefines ==
  ASSUME NEW g \in Goroutines, PipeFits, PipeFits', OnceTypeOK, OnceStep(g)
  PROVE  PipeRefines
<1>1. /\ dopc[g] # "idle" /\ (finished' = finished \/ finished' = TRUE)
      /\ UNCHANGED <<len, b, n, err, rerr, werr>>
  BY DoFacts DEF OnceStep
<1>2. iopc[g] = "once" /\ (rerr # None \/ werr # None)
  <2>1. iopc[g] = "once"
    BY <1>1 DEF PipeFits, ErrorsFit
  <2>2. IF kind[g] = "closeread" THEN rerr # None ELSE werr # None
    BY <2>1 DEF PipeFits, ErrorsFit
  <2>3. QED  BY <2>1, <2>2
<1>3. /\ iopc' = [iopc EXCEPT ![g] = iopc'[g]] /\ iopc'[g] \in {"once", "idle"}
      /\ kind' = [kind EXCEPT ![g] = kind'[g]]
  BY <1>2 DEF OnceStep, Go, PipeFits, PipeTypeOK
<1>4. Alone(g)
  BY <1>1, <1>2, <1>3 DEF Alone, PipeFits, PipeTypeOK
<1>5. AbstractCall(g)' = AbstractCall(g)
  BY <1>2, <1>3, CallLooks, CallLooksNext DEF CallsLook
<1>6. [h \in Goroutines |-> AbstractCall(h)'] = [h \in Goroutines |-> AbstractCall(h)]
  BY <1>1, <1>4, <1>5, OthersLookTheSame DEF ErrorsStay
<1>7. CASE finished' = finished
  BY <1>1, <1>6, <1>7 DEF PipeRefines, Promise!vars, Done
<1>8. CASE finished' = TRUE
  BY <1>1, <1>2, <1>6, <1>8 DEF PipeRefines, Promise!Next, Promise!Shut, Done
<1>9. QED  BY <1>1, <1>7, <1>8

\* A call that is not between the two channels, before and after a step of others.
LEMMA SameCall ==
  ASSUME PipeFits, PipeFits', NEW h \in Goroutines, iopc[h] # "ack", UNCHANGED <<rerr, werr>>,
         iopc'[h] = iopc[h], kind'[h] = kind[h], len'[h] = len[h],
         b'[h] = b[h], n'[h] = n[h], err'[h] = err[h]
  PROVE  AbstractCall(h)' = AbstractCall(h)
<1>1. CASE iopc[h] \in {"idle", "poll", "store", "once"}
  BY <1>1, CallLooks, CallLooksNext DEF CallsLook
<1>2. CASE iopc[h] \in {"mu", "select", "err1", "err2", "return"}
  <2>1. CloseError(h)' = CloseError(h)
    BY DEF CloseError, Other, Reading
  <2>2. End(h)' = End(h)
    BY <2>1 DEF End
  <2>3. AbstractCall(h) = [kind |-> kind[h], len |-> len[h], data |-> b[h],
                           served |-> (iopc[h] = "return" /\ err[h] = None), end |-> End(h)]
    BY <1>2, CallLooks DEF CallsLook
  <2>4. AbstractCall(h)' = [kind |-> kind'[h], len |-> len'[h], data |-> b'[h],
                            served |-> (iopc'[h] = "return" /\ err'[h] = None), end |-> End(h)']
    BY <1>2, CallLooksNext DEF CallsLook
  <2>5. QED  BY <2>2, <2>3, <2>4
<1>3. QED  BY <1>1, <1>2 DEF PipeFits, PipeTypeOK, IOPCs

\* While a Write is in its select, no other is half done.
LEMMA OneWriteAtATime ==
  ASSUME PipeFits, NEW w \in Goroutines, iopc[w] = "select", Writing(w),
         NEW v \in Goroutines \ {w}
  PROVE  ~Promise!HalfDone(v)
<1> SUFFICES ASSUME Promise!HalfDone(v)
             PROVE  FALSE
  OBVIOUS
<1>1. [h \in Goroutines |-> AbstractCall(h)][v] = AbstractCall(v)
  OBVIOUS
<1>2. /\ AbstractCall(v) # None /\ AbstractCall(v).kind = "write" /\ AbstractCall(v).end = "none"
      /\ ~AbstractCall(v).served /\ Len(AbstractCall(v).data) < AbstractCall(v).len
  BY <1>1 DEF Promise!HalfDone, Promise!Waits
<1>3. iopc[v] \in {"mu", "select", "err1", "err2", "return"}
  <2>1. iopc[v] # "ack"
    BY NobodyAcks
  <2>2. QED  BY <1>2, <2>1, CallLooks DEF CallsLook, PipeFits, PipeTypeOK, IOPCs
<1>4. AbstractCall(v) = [kind |-> kind[v], len |-> len[v], data |-> b[v],
                         served |-> (iopc[v] = "return" /\ err[v] = None), end |-> End(v)]
  BY <1>3, CallLooks DEF CallsLook
<1>5. /\ AbstractCall(v).kind = kind[v] /\ AbstractCall(v).end = End(v)
      /\ AbstractCall(v).served = (iopc[v] = "return" /\ err[v] = None)
      /\ AbstractCall(v).data = b[v] /\ AbstractCall(v).len = len[v]
  BY <1>4
<1>6. Writing(v) /\ End(v) = "none" /\ ~(iopc[v] = "return" /\ err[v] = None) /\ Len(b[v]) < len[v]
  BY <1>2, <1>5 DEF Writing
<1>7. iopc[v] \notin {"err1", "err2", "return"}
  BY <1>6, PipeAssumption DEF End, CloseError, Other, PipeFits, PipeTypeOK
<1>8. iopc[v] # "select"
  BY <1>6, NobodyAcks
<1>9. iopc[v] # "mu"
  <2>1. iopc[v] = "mu" => n[v] = 0 /\ len[v] \in Nat /\ b[v] = SubSeq(Bytes(len[v]), n[v] + 1, len[v])
    BY <1>6 DEF PipeFits, PipeTypeOK, LocalsFit, WriteFits
  <2>2. iopc[v] = "mu" => Len(b[v]) = len[v]
    BY <2>1, RestOfBytes
  <2>3. QED  BY <1>6, <2>1, <2>2
<1>10. QED  BY <1>3, <1>7, <1>8, <1>9

LEMMA TransferRefines ==
  ASSUME PipeFits, PipeFits', NEW r \in Goroutines, NEW w \in Goroutines, Transfer(r, w)
  PROVE  PipeRefines
<1> DEFINE k    == IF len[r] < Len(b[w]) THEN len[r] ELSE Len(b[w])
           rest == SubSeq(b[w], k + 1, Len(b[w]))
           F    == [h \in Goroutines |-> AbstractCall(h)]
<1>1. /\ iopc[r] = "select" /\ Reading(r) /\ iopc[w] = "select" /\ Writing(w) /\ r # w
      /\ iopc' = [iopc EXCEPT ![r] = "ack", ![w] = "ack"]
      /\ UNCHANGED <<finished, kind, len, n, err, rerr, werr>>
  BY DEF Transfer, oncevars, Reading, Writing
<1>2. /\ k \in 0 .. Len(b[w]) /\ b[w] \in Seq(Nat) /\ Len(b[w]) = len[w] - n[w]
      /\ b'[r] = SubSeq(b[w], 1, k) /\ Len(b'[r]) = k /\ b' = [b EXCEPT ![r] = b'[r]]
  BY TransferDoes
<1> HIDE DEF k
<1>3. iopc'[r] = "ack" /\ iopc'[w] = "ack" /\ \A h \in Goroutines \ {r, w} : iopc'[h] = iopc[h]
  BY <1>1 DEF PipeFits, PipeTypeOK
<1>4. \A h \in Goroutines \ {r} : b'[h] = b[h]
  BY <1>2 DEF PipeFits, PipeTypeOK
<1>5. \A h \in Goroutines \ {r, w} : AbstractCall(h)' = AbstractCall(h)
  BY <1>1, <1>3, <1>4, NobodyAcks, SameCall
<1>6. Reading(r)' /\ ~Reading(w)' /\ ~Writing(r)' /\ kind[r] = "read" /\ kind[w] = "write"
  BY <1>1 DEF Reading, Writing
<1>7. Receiver' = r
  BY <1>3, <1>6, TheReceiverNext DEF ReceiverIs
<1>8. AbstractCall(r)' = Promise!Record("read", len[r], SubSeq(b[w], 1, k), TRUE, "none")
  <2>1. Data(r)' = SubSeq(b[w], 1, k)
    BY <1>2, <1>6 DEF Data
  <2>2. Served(r)' = TRUE
    BY <1>3, <1>6 DEF Served
  <2>3. End(r)' = "none"
    BY <1>3 DEF End
  <2>4. QED  BY <1>1, <1>3, <1>6, <2>1, <2>2, <2>3 DEF AbstractCall, Promise!Record
<1>9. AbstractCall(w)' = Promise!Record("write", len[w], rest, rest = <<>>, "none")
  <2>1. Sent(w)' = n[w] + k
    BY <1>1, <1>2, <1>3, <1>7 DEF Sent
  <2>2. rest = SubSeq(Bytes(len[w]), n[w] + k + 1, len[w])
    <3>1. len[w] \in Nat /\ n[w] \in 0 .. len[w] /\ b[w] = SubSeq(Bytes(len[w]), n[w] + 1, len[w])
      BY <1>1 DEF PipeFits, PipeTypeOK, WriteFits
    <3>2. k \in 0 .. len[w] - n[w]
      BY <1>2
    <3>3. QED  BY ZenonT(40), <3>1, <3>2, RestOfBytes
  <2>3. Data(w)' = rest
    BY <1>1, <1>6, <2>1, <2>2 DEF Data
  <2>4. Served(w)' = (rest = <<>>)
    BY <1>3, <1>6, <2>3 DEF Served
  <2>5. End(w)' = "none"
    BY <1>3 DEF End
  <2>6. QED  BY <1>1, <1>3, <1>6, <2>3, <2>4, <2>5 DEF AbstractCall, Promise!Record
<1>10. /\ AbstractCall(r) = [kind |-> "read", len |-> len[r], data |-> b[r], served |-> FALSE, end |-> "none"]
       /\ AbstractCall(w) = [kind |-> "write", len |-> len[w], data |-> b[w], served |-> FALSE, end |-> "none"]
       /\ AbstractCall(r) # None /\ AbstractCall(w) # None
  <2>1. End(r) = "none" /\ End(w) = "none"
    BY <1>1 DEF End
  <2>2. (iopc[r] = "return" /\ err[r] = None) = FALSE /\ (iopc[w] = "return" /\ err[w] = None) = FALSE
    BY <1>1
  <2>3. QED  BY <1>1, <1>6, <2>1, <2>2, CallLooks DEF CallsLook
<1>11. F[r] = AbstractCall(r) /\ F[w] = AbstractCall(w)
  OBVIOUS
<1>12. Promise!Waits(r, "read") /\ Promise!Waits(w, "write")
  BY <1>10, <1>11 DEF Promise!Waits
<1>13. [h \in Goroutines |-> AbstractCall(h)'] =
         [F EXCEPT ![r] = AbstractCall(r)', ![w] = AbstractCall(w)']
  BY <1>5
<1>14. F[r].len = len[r] /\ F[w].len = len[w] /\ F[w].data = b[w]
  BY <1>10, <1>11
<1> HIDE DEF F
<1>15. [h \in Goroutines |-> AbstractCall(h)'] =
         [F EXCEPT ![r] = Promise!Record("read", @.len, SubSeq(b[w], 1, k), TRUE, "none"),
                   ![w] = Promise!Record("write", @.len, rest, rest = <<>>, "none")]
  BY <1>1, <1>8, <1>9, <1>13, <1>14
<1>16. UNCHANGED <<rerr, werr, Done>>
  BY <1>1 DEF Done
<1>17. Promise!Transfer(r, w)
  BY <1>1, <1>12, <1>14, <1>15, <1>16, OneWriteAtATime DEF Promise!Transfer, F, k
<1>18. QED  BY <1>17 DEF PipeRefines, Promise!Next

\* What the Write learns is what has been promised already.
LEMMA AckRefines ==
  ASSUME PipeFits, PipeFits', NEW r \in Goroutines, NEW w \in Goroutines, Ack(r, w)
  PROVE  PipeRefines
<1> DEFINE nw   == Len(b[r])
           rest == SubSeq(Bytes(len[w]), n[w] + nw + 1, len[w])
<1>1. /\ iopc[r] = "ack" /\ Reading(r) /\ iopc[w] = "ack" /\ Writing(w) /\ r # w
      /\ UNCHANGED <<finished, kind, len, err, rerr, werr>>
      /\ iopc' = [iopc EXCEPT ![r] = "return", ![w] = IF rest = <<>> THEN "return" ELSE "select"]
      /\ b' = [b EXCEPT ![w] = rest] /\ n' = [n EXCEPT ![w] = @ + nw] /\ nw \in Nat
  BY AckDoes DEF Ack, oncevars
<1>2. /\ iopc'[r] = "return" /\ b'[r] = b[r] /\ n'[r] = n[r]
      /\ iopc'[w] = (IF rest = <<>> THEN "return" ELSE "select") /\ b'[w] = rest
      /\ \A h \in Goroutines \ {r, w} : iopc'[h] = iopc[h] /\ b'[h] = b[h] /\ n'[h] = n[h]
  BY <1>1 DEF PipeFits, PipeTypeOK
<1>3. /\ Reading(r)' /\ ~Reading(w) /\ ~Reading(w)' /\ kind[r] = "read" /\ kind[w] = "write"
      /\ kind' = kind /\ len' = len /\ err[r] = None /\ err[w] = None /\ err' = err
  BY <1>1 DEF Reading, Writing, PipeFits, LocalsFit
<1>4. Receiver = r
  BY <1>1, TheReceiver DEF ReceiverIs
<1>5. Sent(w) = n[w] + nw
  BY <1>1, <1>4 DEF Sent
<1> HIDE DEF nw
<1>6. Data(w) = rest
  BY <1>3, <1>5 DEF Data
<1> HIDE DEF rest
<1>7. AbstractCall(r)' = AbstractCall(r)
  <2>1. Data(r) = b[r] /\ Served(r) = TRUE /\ End(r) = "none"
    BY <1>1 DEF Data, Served, End
  <2>2. AbstractCall(r) = [kind |-> kind[r], len |-> len[r], data |-> b[r], served |-> TRUE, end |-> "none"]
    BY <1>1, <2>1 DEF AbstractCall
  <2>3. (iopc'[r] = "return" /\ err'[r] = None) = TRUE
    BY <1>2, <1>3
  <2>4. End(r)' = "none"
    BY <1>2, <1>3 DEF End
  <2>5. AbstractCall(r)' = [kind |-> kind'[r], len |-> len'[r], data |-> b'[r], served |-> TRUE, end |-> "none"]
    BY <1>2, <2>3, <2>4, CallLooksNext DEF CallsLook
  <2>6. QED  BY <1>2, <1>3, <2>2, <2>5
<1>8. AbstractCall(w)' = AbstractCall(w)
  <2>1. Served(w) = (rest = <<>>) /\ End(w) = "none"
    BY <1>1, <1>3, <1>6 DEF Served, End
  <2>2. AbstractCall(w) = [kind |-> kind[w], len |-> len[w], data |-> rest, served |-> (rest = <<>>), end |-> "none"]
    BY <1>1, <1>6, <2>1 DEF AbstractCall
  <2>3. (iopc'[w] = "return" /\ err'[w] = None) = (rest = <<>>)
    BY <1>2, <1>3
  <2>4. End(w)' = "none"
    BY <1>2, <1>3 DEF End
  <2>5. iopc'[w] \in {"return", "select"}
    BY <1>2
  <2>6. AbstractCall(w)' =
          [kind |-> kind'[w], len |-> len'[w], data |-> b'[w], served |-> (rest = <<>>), end |-> "none"]
    BY <2>3, <2>4, <2>5, CallLooksNext DEF CallsLook
  <2>7. QED  BY <1>2, <1>3, <2>2, <2>6
<1>9. ASSUME NEW h \in Goroutines \ {r, w}
      PROVE  AbstractCall(h)' = AbstractCall(h)
  <2>1. iopc[h] # "ack"
    BY <1>1, AckersAre
  <2>2. QED  BY <1>1, <1>2, <2>1, SameCall
<1>10. [h \in Goroutines |-> AbstractCall(h)'] = [h \in Goroutines |-> AbstractCall(h)]
  BY <1>7, <1>8, <1>9
<1>11. QED  BY <1>1, <1>10 DEF PipeRefines, Promise!vars, Done

LEMMA NextPipeRefines ==
  ASSUME PipeIInv, PipeIInv', [PipeNext]_pipevars
  PROVE  PipeRefines
<1>1. OnceTypeOK /\ PipeFits /\ PipeFits'
  BY DEF PipeIInv, OnceIInv, PipeFits
<1>2. CASE UNCHANGED pipevars
  <2>1. ASSUME NEW g \in Goroutines
        PROVE  AbstractCall(g)' = AbstractCall(g)
    <3>1. UNCHANGED <<iopc, kind, len, b, n, err, rerr, werr>>
      BY <1>2 DEF pipevars, iovars
    <3>2. Receiver' = Receiver
      BY <3>1 DEF Receiver, Reading
    <3>3. QED  BY <3>1, <3>2 DEF AbstractCall, Data, Sent, Served, End, CloseError, Other, Reading
  <2>2. QED  BY <1>2, <2>1 DEF PipeRefines, Promise!vars, Done, pipevars, oncevars
<1>3. ASSUME NEW g \in Goroutines, BeginCall(g)
      PROVE  PipeRefines
  BY <1>1, <1>3, QuietRefines
<1>4. ASSUME NEW g \in Goroutines, PipeStep(g)
      PROVE  PipeRefines
  <2>1. CASE Poll(g)
    BY <1>1, <2>1, PollRefines
  <2>2. CASE WriteLock(g) \/ CloseError2(g)
    BY <1>1, <2>2, QuietRefines
  <2>3. CASE Interrupt(g) \/ CloseError1(g)
    BY <1>1, <2>3, InterruptRefines
  <2>4. CASE Return(g)
    BY <1>1, <2>4, ReturnRefines
  <2>5. CASE Store(g)
    BY <1>1, <2>5, StoreRefines
  <2>6. CASE OnceStep(g)
    BY <1>1, <2>6, OnceStepRefines
  <2>7. CASE \E w \in Goroutines : Ack(g, w)
    BY <1>1, <2>7, AckRefines
  <2>8. QED  BY <1>4, <2>1, <2>2, <2>3, <2>4, <2>5, <2>6, <2>7 DEF PipeStep
<1>5. ASSUME NEW g \in Goroutines, NEW w \in Goroutines, Transfer(g, w)
      PROVE  PipeRefines
  BY <1>1, <1>5, TransferRefines
<1>6. QED  BY <1>2, <1>3, <1>4, <1>5 DEF PipeNext

\* Each Write is matched by Reads that consume its bytes in order, one Write at a
\* time; the closing ends a call with the first error given to the other end; and a
\* Write reports how many of its bytes were consumed.
THEOREM PipeRefinement == PipeSpec => ImplementsPipeCalls
<1>1. PipeInit => Promise!Init
  <2>1. PipeInit => \A g \in Goroutines : AbstractCall(g) = None
    BY DEF PipeInit, AbstractCall
  <2>2. QED  BY <2>1 DEF PipeInit, OnceInit, Promise!Init, Done
<1>2. PipeIInv /\ PipeIInv' /\ [PipeNext]_pipevars => [Promise!Next]_(Promise!vars)
  BY NextPipeRefines DEF PipeRefines
<1>3. QED  BY <1>1, <1>2, PipeInvariance, PTL DEF PipeSpec, ImplementsPipeCalls, Promise!Spec

=============================================================================
