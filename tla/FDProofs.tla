------------------------------- MODULE FDProofs -------------------------------
(***************************************************************************)
(* Proofs about FD, for every finite set of goroutines and every limit of  *)
(* the counters, whatever operations the goroutines call.                  *)
(***************************************************************************)
EXTENDS FD, SemaphoreProofs

USE DEF Begin, Goto, Move, Call

Act(g) == BeginCall(g) \/ Step(g) \/ SysReturn(g)

-----------------------------------------------------------------------------
(* What every step does. *)

\* A step moves the control point of its goroutine and of no other one.
LEMMA StepMoves ==
  ASSUME TypeOK, NEW g \in Goroutines, Act(g)
  PROVE  /\ pc' \in [Goroutines -> PCs] /\ op' \in [Goroutines -> Ops]
         /\ \A h \in Goroutines \ {g} : pc'[h] = pc[h] /\ op'[h] = op[h]
<1>1. \E to \in PCs, o \in Ops : pc' = [pc EXCEPT ![g] = to] /\ op' = [op EXCEPT ![g] = o]
  <2>0. pc[g] \in PCs /\ op[g] \in Ops /\ pc = [pc EXCEPT ![g] = pc[g]] /\ op = [op EXCEPT ![g] = op[g]]
        /\ pc \in [Goroutines -> PCs] /\ op \in [Goroutines -> Ops]
    BY DEF TypeOK
  <2> USE DEF PCs, Ops, Calls, Modes
  <2>1. CASE Lock(g) \/ LockAgain(g)
    BY <2>0, <2>1 DEF Lock, LockAgain, TryLock
  <2>2. CASE LockSleep(g) \/ LockAwake(g) \/ Unlock(g) \/ UnlockWake(g)
    BY <2>0, <2>2 DEF LockSleep, LockAwake, Unlock, UnlockWake, Unlocked
  <2>3. CASE Prepare(g) \/ Reset(g) \/ SysReturn(g) \/ PollWait(g)
    BY <2>0, <2>3 DEF Prepare, Reset, SysReturn, PollWait
  <2>4. CASE Block(g) \/ Recheck(g) \/ Park(g) \/ Unpark(g)
    BY <2>0, <2>4 DEF Block, Recheck, Park, Unpark
  <2>5. CASE Incref(g) \/ SetDeadline(g) \/ SetBlocking(g) \/ MiscReturn(g) \/ PollSetDeadline(g)
             \/ PollUnblock(g) \/ SetBlockingStore(g) \/ SetNonblock(g) \/ Decref(g)
    BY <2>0, <2>5 DEF Incref, SetDeadline, SetBlocking, MiscReturn, PollSetDeadline,
                      PollUnblock, SetBlockingStore, SetNonblock, Decref, Back
  <2>6. CASE Close(g) \/ (\E m \in Modes : CloseWake(g, m)) \/ Evict(g)
    BY <2>0, <2>6 DEF Close, CloseWake, Evict, CloseLabel
  <2>7. CASE \/ Destroy(g) \/ CloseFunc(g) \/ DestroySignal(g)
             \/ CloseBlocking(g) \/ CloseSleep(g) \/ CloseAwake(g)
    BY <2>0, <2>7 DEF Destroy, CloseFunc, DestroySignal, CloseBlocking, CloseSleep, CloseAwake, Back
  <2>8. QED
    BY <2>1, <2>2, <2>3, <2>4, <2>5, <2>6, <2>7 DEF Act, BeginCall, Step
<1>2. QED  BY <1>1 DEF TypeOK

\* What a goroutine does at its control point.
LEMMA StepOps ==
  ASSUME TypeOK, OpsByPC, NEW g \in Goroutines, Act(g)
  PROVE  OpsByPC'
<1>0. pc \in [Goroutines -> PCs] /\ op \in [Goroutines -> Ops]
  BY DEF TypeOK
<1> DEFINE P(h) == /\ pc[h] \in IOPCs \cup {"sem", "lock", "wake", "wakelast"} => op[h] \in Modes
                   /\ pc[h] \in {"cwake_r", "cwake_w", "evict", "blocking", "csem"} => op[h] = "close"
                   /\ pc[h] \in {"misc", "deadline", "store", "setnb", "idle"} => op[h] = "ref"
                   /\ pc[h] \in {"unblock", "decref"} => op[h] \in {"ref", "close"}
<1>1. \A h \in Goroutines : P(h)
  BY DEF OpsByPC
<1>2. P(g)'
  <2>0. P(g)
    BY <1>1
  <2> USE DEF IOPCs, Modes
  <2>1. CASE Lock(g) \/ LockAgain(g)
    BY <1>0, <2>0, <2>1 DEF Lock, LockAgain, TryLock
  <2>2. CASE LockSleep(g) \/ LockAwake(g) \/ Unlock(g) \/ UnlockWake(g)
    BY <1>0, <2>0, <2>2 DEF LockSleep, LockAwake, Unlock, UnlockWake, Unlocked
  <2>3. CASE Prepare(g) \/ Reset(g) \/ SysReturn(g) \/ PollWait(g)
    BY <1>0, <2>0, <2>3 DEF Prepare, Reset, SysReturn, PollWait
  <2>4. CASE Block(g) \/ Recheck(g) \/ Park(g) \/ Unpark(g)
    BY <1>0, <2>0, <2>4 DEF Block, Recheck, Park, Unpark
  <2>5. CASE Incref(g) \/ SetDeadline(g) \/ SetBlocking(g) \/ MiscReturn(g) \/ PollSetDeadline(g)
             \/ PollUnblock(g) \/ SetBlockingStore(g) \/ SetNonblock(g) \/ Decref(g)
    BY <1>0, <2>0, <2>5 DEF Incref, SetDeadline, SetBlocking, MiscReturn, PollSetDeadline,
                      PollUnblock, SetBlockingStore, SetNonblock, Decref, Back
  <2>6. CASE Close(g) \/ (\E m \in Modes : CloseWake(g, m)) \/ Evict(g)
    BY <1>0, <2>0, <2>6 DEF Close, CloseWake, Evict, CloseLabel
  <2>7. CASE \/ Destroy(g) \/ CloseFunc(g) \/ DestroySignal(g)
             \/ CloseBlocking(g) \/ CloseSleep(g) \/ CloseAwake(g)
    BY <1>0, <2>0, <2>7 DEF Destroy, CloseFunc, DestroySignal, CloseBlocking, CloseSleep, CloseAwake, Back
  <2>8. QED
    BY <2>1, <2>2, <2>3, <2>4, <2>5, <2>6, <2>7 DEF Act, BeginCall, Step, Modes
<1>3. \A h \in Goroutines \ {g} : P(h)'
  BY <1>1, StepMoves
<1>4. QED  BY <1>2, <1>3 DEF OpsByPC

\* What a step does to the word: it takes a lock or a reference, drops the one
\* that its goroutine holds, or does neither.
WordStep(g) ==
  \/ \E m \in Modes : ~Using(g) /\ rwlock(m) /\ pc'[g] \in IOPCs /\ op'[g] = m
  \/ ~Using(g) /\ incref /\ pc'[g] \in UsePCs \ IOPCs /\ op'[g] # "close"
  \/ ~Using(g) /\ increfAndClose /\ pc'[g] \in UsePCs \ IOPCs
  \/ \E m \in Modes : Locks(g, m) /\ rwunlock(m) /\ pc'[g] \notin UsePCs
  \/ Using(g) /\ pc[g] \notin IOPCs /\ decref /\ pc'[g] \notin UsePCs
  \/ /\ UNCHANGED <<flags, refs>>
     /\ Using(g)' <=> Using(g)
     /\ \A m \in Modes : Locks(g, m)' <=> Locks(g, m)

\* A goroutine that holds a reference is counted, and nobody else has its lock.
LEMMA HolderCounted ==
  ASSUME TypeOK, RefsAreHeld, NEW g \in Goroutines, Using(g)
  PROVE  /\ refs > 0
         /\ \A m \in Modes : Locks(g, m) => m \in flags /\ \A h \in Goroutines : Locks(h, m) => h = g
<1>1. IsFiniteSet(Users) /\ g \in Users
  BY FDAssumption, FS_Subset DEF Users
<1>2. Cardinality(Users) \in Nat /\ Cardinality(Users) # 0
  BY <1>1, FS_CardinalityType, FS_EmptySet
<1>3. refs > 0
  BY <1>2 DEF RefsAreHeld
<1>4. QED  BY <1>3 DEF RefsAreHeld

\* Each step does one of these things to the word.
LEMMA StepWord ==
  ASSUME TypeOK, OpsByPC, RefsAreHeld, NEW g \in Goroutines, Act(g), pc'[g] # "panic"
  PROVE  WordStep(g)
<1>0. pc \in [Goroutines -> PCs] /\ op \in [Goroutines -> Ops]
  BY DEF TypeOK
<1>1. pc[g] \in IOPCs => op[g] \in Modes
  BY DEF OpsByPC
<1> USE DEF WordStep, Using, Locks, UsePCs, IOPCs
<1>2. CASE Lock(g) \/ LockAgain(g)
  <2>1. pc[g] \in {"idle", "lock"} /\ \E m \in Modes : TryLock(g, m)
    BY <1>0, <1>2 DEF Lock, LockAgain, OpsByPC
  <2>2. PICK m \in Modes : TryLock(g, m)
    BY <2>1
  <2>3. QED  BY <1>0, <2>1, <2>2 DEF TryLock, rwlockWait, rwlockFails, muvars
<1>3. CASE Unlock(g)
  <2>1. op[g] \in flags /\ refs > 0 /\ op[g] \in Modes /\ Locks(g, op[g])
    BY <1>1, <1>3, HolderCounted DEF Unlock
  <2>2. rwunlock(op[g]) /\ pc'[g] \notin UsePCs
    BY <1>0, <1>3, <2>1 DEF Unlock, TypeOK, MuTypeOK
  <2>3. QED  BY <2>1, <2>2
<1>4. CASE Decref(g)
  <2>1. refs > 0
    BY <1>4, HolderCounted DEF Decref
  <2>2. QED  BY <1>0, <1>4, <2>1 DEF Decref, Back
<1>5. CASE LockSleep(g) \/ LockAwake(g) \/ UnlockWake(g)
  BY <1>0, <1>5 DEF LockSleep, LockAwake, UnlockWake, Unlocked, muvars
<1>6. CASE Prepare(g) \/ Reset(g) \/ SysReturn(g) \/ PollWait(g)
  BY <1>0, <1>1, <1>6 DEF Prepare, Reset, SysReturn, PollWait, muvars
<1>7. CASE Block(g) \/ Recheck(g) \/ Park(g) \/ Unpark(g)
  BY <1>0, <1>1, <1>7 DEF Block, Recheck, Park, Unpark, muvars
<1>8. CASE Incref(g) \/ SetDeadline(g) \/ SetBlocking(g) \/ Close(g)
  BY <1>0, <1>8 DEF Incref, SetDeadline, SetBlocking, Close, CloseLabel
<1>9. CASE MiscReturn(g) \/ PollSetDeadline(g) \/ PollUnblock(g) \/ SetBlockingStore(g) \/ SetNonblock(g)
  BY <1>0, <1>9 DEF MiscReturn, PollSetDeadline, PollUnblock, SetBlockingStore, SetNonblock, muvars
<1>10. CASE (\E m \in Modes : CloseWake(g, m)) \/ Evict(g)
  BY <1>0, <1>10 DEF CloseWake, Evict, CloseLabel, muvars, Modes
<1>11. CASE \/ Destroy(g) \/ CloseFunc(g) \/ DestroySignal(g)
            \/ CloseBlocking(g) \/ CloseSleep(g) \/ CloseAwake(g)
  BY <1>0, <1>11 DEF Destroy, CloseFunc, DestroySignal, CloseBlocking, CloseSleep, CloseAwake, Back, muvars
<1>12. QED
  BY <1>2, <1>3, <1>4, <1>5, <1>6, <1>7, <1>8, <1>9, <1>10, <1>11 DEF Act, BeginCall, Step, Modes

\* The goroutine that the poller's semaphore is not free for has its mode's lock.
LEMMA SemaphoreHolder ==
  ASSUME PollerConsistent, NEW m \in Modes, gpp[m] \notin {"nil", "ready"}
  PROVE  \E h \in Goroutines :
           /\ Locks(h, m) /\ Using(h)
           /\ \/ gpp[m] = "wait" /\ pc[h] \in {"recheck", "park", "xchg"}
              \/ gpp[m] = h /\ pc[h] = "park"
<1>1. PICK h \in Goroutines :
        /\ op[h] = m
        /\ \/ gpp[m] = "wait" /\ pc[h] \in {"recheck", "park", "xchg"}
           \/ gpp[m] = h /\ pc[h] = "park"
  BY DEF PollerConsistent, SemaphoreHeld
<1>2. QED  BY <1>1 DEF Locks, Using, UsePCs, IOPCs

\* Nobody holds a reference when there is none.
LEMMA NoReferences ==
  ASSUME TypeOK, RefsAreHeld, refs = 0
  PROVE  \A g \in Goroutines : ~Using(g)
BY HolderCounted

\* No method finds the word, the poller's semaphore or the registration in a
\* state that it panics about.
LEMMA StepNoPanic ==
  ASSUME TypeOK, OpsByPC, RefsAreHeld, DestroyedOnce, PollerConsistent,
         NEW g \in Goroutines, pc[g] # "panic", Act(g)
  PROVE  pc'[g] # "panic"
<1>0. pc \in [Goroutines -> PCs] /\ op \in [Goroutines -> Ops]
  BY DEF TypeOK
<1>1. CASE Unlock(g)
  <2>1. Using(g) /\ Locks(g, op[g]) /\ op[g] \in Modes
    BY <1>1 DEF Unlock, Using, UsePCs, IOPCs, Locks, OpsByPC
  <2>2. op[g] \in flags /\ refs > 0
    BY <2>1, HolderCounted
  <2>3. QED  BY <1>0, <1>1, <2>2 DEF Unlock
<1>2. CASE Decref(g)
  <2>1. refs > 0
    BY <1>2, HolderCounted DEF Decref, Using, UsePCs, IOPCs
  <2>2. QED  BY <1>0, <1>2, <2>1 DEF Decref, Back
<1>3. CASE Block(g)
  <2>1. Using(g) /\ Locks(g, op[g]) /\ op[g] \in Modes /\ pc[g] = "block"
    BY <1>3 DEF Block, Using, UsePCs, IOPCs, Locks, OpsByPC
  <2>2. gpp[op[g]] \in {"nil", "ready"}
    BY <2>1, SemaphoreHolder, HolderCounted
  <2>3. QED  BY <1>0, <1>3, <2>2 DEF Block
<1>4. CASE Unpark(g)
  <2>1. Using(g) /\ Locks(g, op[g]) /\ op[g] \in Modes /\ pc[g] \in {"xchg", "park"}
    BY <1>4 DEF Unpark, Using, UsePCs, IOPCs, Locks, OpsByPC
  <2>2. pc[g] = "xchg" => gpp[op[g]] \in {"nil", "ready", "wait"}
    BY <2>1, SemaphoreHolder, HolderCounted
  <2>3. QED  BY <1>0, <1>4, <2>2 DEF Unpark
<1>5. CASE Destroy(g)
  <2>1. Closed /\ refs = 0
    BY <1>5 DEF Destroy, DestroyedOnce, Destroying
  <2>2. \A h \in Goroutines : ~Using(h)
    BY <2>1, NoReferences
  <2>3. \A m \in Modes : gpp[m] \in {"nil", "ready"}
    BY <2>2, SemaphoreHolder
  <2>4. closing \/ pd = "none"
    BY <2>1, <2>2 DEF DestroyedOnce, Using, UsePCs
  <2>5. QED  BY <1>0, <1>5, <2>3, <2>4 DEF Destroy
<1>6. CASE Lock(g) \/ LockAgain(g) \/ LockSleep(g) \/ LockAwake(g) \/ UnlockWake(g)
  BY <1>0, <1>6 DEF Lock, LockAgain, TryLock, LockSleep, LockAwake, UnlockWake, Unlocked
<1>7. CASE Prepare(g) \/ Reset(g) \/ SysReturn(g) \/ PollWait(g) \/ Recheck(g) \/ Park(g)
  BY <1>0, <1>7 DEF Prepare, Reset, SysReturn, PollWait, Recheck, Park
<1>8. CASE Incref(g) \/ SetDeadline(g) \/ SetBlocking(g) \/ Close(g)
           \/ MiscReturn(g) \/ PollSetDeadline(g) \/ PollUnblock(g) \/ SetBlockingStore(g) \/ SetNonblock(g)
  BY <1>0, <1>8 DEF Incref, SetDeadline, SetBlocking, Close, CloseLabel, MiscReturn, PollSetDeadline,
                    PollUnblock, SetBlockingStore, SetNonblock
<1>9. CASE \/ (\E m \in Modes : CloseWake(g, m)) \/ Evict(g) \/ CloseFunc(g) \/ DestroySignal(g)
           \/ CloseBlocking(g) \/ CloseSleep(g) \/ CloseAwake(g)
  BY <1>0, <1>9 DEF CloseWake, CloseLabel, Evict, CloseFunc, DestroySignal, CloseBlocking,
                    CloseSleep, CloseAwake, Back
<1>10. QED
  BY <1>1, <1>2, <1>3, <1>4, <1>5, <1>6, <1>7, <1>8, <1>9 DEF Act, BeginCall, Step, Modes

-----------------------------------------------------------------------------
(* The word counts its users. *)

\* What WordStep does to the users and to the number of references.
LEMMA StepUsers ==
  ASSUME TypeOK, NEW g \in Goroutines, Act(g), WordStep(g)
  PROVE  /\ Cardinality(Users) \in Nat
         /\ Cardinality(Users)' = Cardinality(Users) - (IF Using(g) THEN 1 ELSE 0) + (IF Using(g)' THEN 1 ELSE 0)
         /\ refs' = refs - (IF Using(g) THEN 1 ELSE 0) + (IF Using(g)' THEN 1 ELSE 0)
         /\ refs' \in 0 .. MaxCount
<1> DEFINE S == Users
           T == Users'
<1>1. IsFiniteSet(S)
  BY FDAssumption, FS_Subset DEF Users
<1>2. /\ \A h : h # g => (h \in T <=> h \in S)
      /\ g \in S <=> Using(g)
      /\ g \in T <=> Using(g)'
  BY StepMoves DEF Users, Using
<1> HIDE DEF S, T
<1>3. /\ Cardinality(S) \in Nat
      /\ Cardinality(T) = Cardinality(S) - (IF g \in S THEN 1 ELSE 0) + (IF g \in T THEN 1 ELSE 0)
  BY <1>1, <1>2, OneMoves
<1>4. Cardinality(Users) \in Nat /\ Cardinality(Users)' = Cardinality(Users) - (IF Using(g) THEN 1 ELSE 0) + (IF Using(g)' THEN 1 ELSE 0)
  BY <1>2, <1>3 DEF S, T
<1>5. refs \in 0 .. MaxCount /\ MaxCount \in Nat
  BY FdMutexAssumption DEF TypeOK, MuTypeOK
<1>6. \/ ~Using(g) /\ Using(g)' /\ refs < MaxCount /\ refs' = refs + 1
      \/ Using(g) /\ ~Using(g)' /\ refs > 0 /\ refs' = refs - 1
      \/ (Using(g)' <=> Using(g)) /\ refs' = refs
  BY DEF WordStep, Using, Locks, UsePCs, rwlock, incref, increfAndClose, rwunlock, decref
<1>7. QED  BY <1>4, <1>5, <1>6

\* Only increfAndClose sets mutexClosed, and nothing clears it.
LEMMA StepFlags ==
  ASSUME TypeOK, RefsAreHeld, NEW g \in Goroutines, WordStep(g)
  PROVE  /\ flags' \subseteq Modes \cup {"closed"}
         /\ Closed => Closed' /\ (refs = 0 => refs' = 0)
         /\ Closed' => Closed \/ increfAndClose
         /\ \A m \in Modes : m \in flags' <=> (m \in flags /\ ~Locks(g, m)) \/ Locks(g, m)'
<1>1. flags \subseteq Modes \cup {"closed"} /\ refs \in 0 .. MaxCount
  BY DEF TypeOK, MuTypeOK
<1>2. \A m \in Modes : Locks(g, m) => m \in flags /\ Using(g)
  BY HolderCounted DEF Using, Locks, UsePCs
<1>3. ASSUME NEW m \in Modes, ~Using(g), rwlock(m), pc'[g] \in IOPCs, op'[g] = m
      PROVE  /\ Closed' <=> Closed
             /\ ~Closed /\ \A n \in Modes : Locks(g, n)' <=> n = m
             /\ flags' = flags \cup {m}
  BY <1>3 DEF rwlock, Closed, Locks, Modes
<1>4. ASSUME NEW m \in Modes, Locks(g, m), rwunlock(m), pc'[g] \notin UsePCs
      PROVE  /\ Closed' <=> Closed
             /\ refs > 0 /\ \A n \in Modes : ~Locks(g, n)' /\ (Locks(g, n) <=> n = m)
             /\ flags' = flags \ {m}
  BY <1>4 DEF rwunlock, Closed, Locks, Modes, UsePCs
<1>5. CASE ~Using(g) /\ (incref \/ increfAndClose) /\ pc'[g] \in UsePCs \ IOPCs
  BY <1>1, <1>2, <1>5 DEF incref, increfAndClose, Closed, Locks, Modes
<1>6. CASE Using(g) /\ pc[g] \notin IOPCs /\ decref /\ pc'[g] \notin UsePCs
  BY <1>1, <1>6 DEF decref, Closed, Locks, UsePCs
<1>7. CASE /\ UNCHANGED <<flags, refs>>
           /\ \A m \in Modes : Locks(g, m)' <=> Locks(g, m)
  BY <1>1, <1>2, <1>7 DEF Closed
<1>8. CASE \E m \in Modes : ~Using(g) /\ rwlock(m) /\ pc'[g] \in IOPCs /\ op'[g] = m
  BY <1>1, <1>2, <1>3, <1>8
<1>9. CASE \E m \in Modes : Locks(g, m) /\ rwunlock(m) /\ pc'[g] \notin UsePCs
  BY <1>1, <1>2, <1>4, <1>9
<1>10. QED  BY <1>5, <1>6, <1>7, <1>8, <1>9 DEF WordStep

\* The word goes on to count the users and to say who has the locks.
LEMMA StepRefs ==
  ASSUME TypeOK, RefsAreHeld, NEW g \in Goroutines, Act(g), WordStep(g)
  PROVE  RefsAreHeld'
<1>1. refs' = Cardinality(Users)'
  BY StepUsers DEF RefsAreHeld
<1>2. \A h \in Goroutines \ {g}, m \in Modes : Locks(h, m)' <=> Locks(h, m)
  BY StepMoves DEF Locks
<1>3. \A m \in Modes : Locks(g, m)' /\ ~Locks(g, m) => m \notin flags
  <2> SUFFICES ASSUME NEW m \in Modes, Locks(g, m)', ~Locks(g, m)
               PROVE  m \notin flags
    OBVIOUS
  <2>1. pc'[g] \in IOPCs /\ op'[g] = m
    BY DEF Locks
  <2>2. ~Using(g) /\ rwlock(m)
    BY <2>1 DEF WordStep, UsePCs
  <2>3. QED  BY <2>2 DEF rwlock
<1>4. \A m \in Modes : m \in flags' <=> \E h \in Goroutines : Locks(h, m)'
  BY <1>2, <1>3, StepFlags DEF RefsAreHeld
<1>5. \A m \in Modes, f, h \in Goroutines : Locks(f, m)' /\ Locks(h, m)' => f = h
  BY <1>2, <1>3 DEF RefsAreHeld
<1>6. QED  BY <1>1, <1>4, <1>5 DEF RefsAreHeld

\* Only a goroutine that calls increfAndClose with success becomes the closer.
LEMMA StepOpClose ==
  ASSUME TypeOK, NEW g \in Goroutines, Act(g)
  PROVE  op'[g] = "close" => op[g] = "close" \/ increfAndClose
<1>0. pc \in [Goroutines -> PCs] /\ op \in [Goroutines -> Ops]
  BY DEF TypeOK
<1>1. CASE Close(g)
  BY <1>1 DEF Close
<1>2. CASE Lock(g) \/ LockAgain(g) \/ LockSleep(g) \/ LockAwake(g) \/ Unlock(g) \/ UnlockWake(g)
  BY <1>0, <1>2 DEF Lock, LockAgain, TryLock, LockSleep, LockAwake, Unlock, UnlockWake, Unlocked, Modes
<1>3. CASE \/ Prepare(g) \/ Reset(g) \/ SysReturn(g) \/ PollWait(g)
           \/ Block(g) \/ Recheck(g) \/ Park(g) \/ Unpark(g)
  BY <1>0, <1>3 DEF Prepare, Reset, SysReturn, PollWait, Block, Recheck, Park, Unpark
<1>4. CASE \/ Incref(g) \/ SetDeadline(g) \/ SetBlocking(g) \/ MiscReturn(g) \/ PollSetDeadline(g)
           \/ PollUnblock(g) \/ SetBlockingStore(g) \/ SetNonblock(g) \/ Decref(g)
  BY <1>0, <1>4 DEF Incref, SetDeadline, SetBlocking, MiscReturn, PollSetDeadline,
                    PollUnblock, SetBlockingStore, SetNonblock, Decref
<1>5. CASE \/ (\E m \in Modes : CloseWake(g, m)) \/ Evict(g)
           \/ Destroy(g) \/ CloseFunc(g) \/ DestroySignal(g)
           \/ CloseBlocking(g) \/ CloseSleep(g) \/ CloseAwake(g)
  BY <1>0, <1>5 DEF CloseWake, Evict, Destroy, CloseFunc, DestroySignal, CloseBlocking,
                    CloseSleep, CloseAwake
<1>6. QED  BY <1>1, <1>2, <1>3, <1>4, <1>5 DEF Act, BeginCall, Step, Modes

\* Close gets past increfAndClose once.
LEMMA StepCloser ==
  ASSUME TypeOK, RefsAreHeld, OneCloser, NEW g \in Goroutines, Act(g), WordStep(g)
  PROVE  OneCloser'
<1>1. op'[g] = "close" => op[g] = "close" \/ increfAndClose
  BY StepOpClose
<1>2. \A h \in Goroutines \ {g} : op'[h] = op[h]
  BY StepMoves
<1>3. Closed => Closed'
  BY StepFlags
<1>4. increfAndClose => ~Closed /\ Closed'
  BY DEF increfAndClose, Closed
<1>5. QED  BY <1>1, <1>2, <1>3, <1>4 DEF OneCloser

-----------------------------------------------------------------------------
(* The descriptor's end. *)

\* What a step does to the descriptor and to its poller's registration.
LEMMA StepDescriptor ==
  ASSUME TypeOK, OpsByPC, NEW g \in Goroutines, Act(g), pc'[g] # "panic"
  PROVE  /\ Destroying(g)' => Destroying(g) \/ (Closed /\ refs > 0 /\ refs' = 0)
         /\ Closed /\ refs > 0 /\ refs' = 0 => Destroying(g)'
         /\ Destroying(g) => flags' = flags /\ refs' = refs
         /\ IF pc[g] = "closefn" THEN ~Destroying(g)' /\ sysfd' = "closed" ELSE sysfd' = sysfd
         /\ Destroying(g) /\ pc[g] # "closefn" => Destroying(g)'
         /\ pd' = pd \/ (pd' = "closed" /\ pc'[g] = "closefn")
         /\ pd' = "none" <=> pd = "none"
         /\ pc'[g] = "closefn" => pd' # "open"
         /\ closing => closing'
         /\ pc[g] \in {"cwake_r", "cwake_w", "evict"} =>
              pc'[g] \in {"cwake_r", "cwake_w", "evict"} \/ closing' \/ pd = "none"
         /\ ~Closed /\ Closed' => refs' > 0 /\ pc'[g] \in {"cwake_r", "cwake_w", "evict"}
<1>0. /\ pc \in [Goroutines -> PCs] /\ op \in [Goroutines -> Ops]
      /\ pd \in {"none", "open", "closed"} /\ refs \in Nat
  BY FdMutexAssumption DEF TypeOK, MuTypeOK
<1> USE DEF Destroying, Closed, pdvars, fdvars, muvars
<1>1. CASE Lock(g) \/ LockAgain(g) \/ LockSleep(g) \/ LockAwake(g)
  <2>1. /\ pc[g] \in {"idle", "lock", "sem"} /\ pc'[g] \in {"idle", "prep", "lock", "sem"}
        /\ sysfd' = sysfd /\ pd' = pd /\ closing' = closing
    BY <1>0, <1>1 DEF Lock, LockAgain, TryLock, LockSleep, LockAwake
  <2>2. (flags' = flags /\ refs' = refs) \/ \E m \in Modes : rwlock(m)
    BY <1>1 DEF Lock, LockAgain, TryLock, LockSleep, LockAwake, rwlock, rwlockWait, rwlockFails, Modes, OpsByPC
  <2>3. refs' >= refs /\ (Closed' <=> Closed)
    BY <1>0, <2>2 DEF rwlock, Modes
  <2>4. QED  BY <1>0, <2>1, <2>3
<1>2. CASE Unlock(g)
  BY <1>0, <1>2 DEF Unlock, rwunlock, Last
<1>3. CASE UnlockWake(g)
  <2>1. /\ pc[g] \in {"wake", "wakelast"} /\ (pc'[g] = pc[g] \/ pc'[g] = Unlocked(g))
    BY <1>0, <1>3 DEF UnlockWake
  <2>2. /\ sysfd' = sysfd /\ pd' = pd /\ closing' = closing
        /\ flags' = flags /\ refs' = refs
    BY <1>3 DEF UnlockWake
  <2>3. QED  BY <1>0, <2>1, <2>2 DEF Unlocked
<1>4. CASE Prepare(g) \/ Reset(g) \/ SysReturn(g) \/ PollWait(g)
  BY <1>0, <1>4 DEF Prepare, Reset, Clear, SysReturn, Use, PollWait
<1>5. CASE Block(g) \/ Recheck(g) \/ Park(g) \/ Unpark(g)
  BY <1>0, <1>5 DEF Block, Clear, Wait, Recheck, Park, Commit, Unpark
<1>6. CASE Incref(g) \/ SetDeadline(g) \/ SetBlocking(g)
  BY <1>0, <1>6 DEF Incref, SetDeadline, SetBlocking, incref
<1>7. CASE MiscReturn(g) \/ SetBlockingStore(g) \/ SetNonblock(g)
  BY <1>0, <1>7 DEF MiscReturn, SetBlockingStore, SetNonblock
<1>8. CASE PollSetDeadline(g) \/ PollUnblock(g)
  <2>1. /\ pc[g] \in {"deadline", "unblock"} /\ pc'[g] \in {"unblock", "decref"}
        /\ sysfd' = sysfd /\ pd' = pd /\ flags' = flags /\ refs' = refs
    BY <1>0, <1>8 DEF PollSetDeadline, PollUnblock
  <2>2. closing' = closing
    BY <1>8 DEF PollSetDeadline, pollSetDeadline, PollUnblock, Unblock
  <2>3. QED  BY <1>0, <2>1, <2>2
<1>9. CASE Decref(g)
  BY <1>0, <1>9 DEF Decref, decref, Last, Back
<1>10. CASE Close(g)
  BY <1>0, <1>10 DEF Close, CloseLabel, increfAndClose
<1>11. CASE (\E m \in Modes : CloseWake(g, m)) \/ Evict(g)
  <2>1. /\ pc[g] \in {"cwake_r", "cwake_w", "evict"}
        /\ sysfd' = sysfd /\ pd' = pd /\ flags' = flags /\ refs' = refs
    BY <1>0, <1>11 DEF CloseWake, Evict, Modes
  <2>2. CASE \E m \in Modes : CloseWake(g, m)
    <3>1. closing' = closing /\ pc'[g] \in {"cwake_r", "cwake_w", "evict"}
      BY <1>0, <2>2 DEF CloseWake, CloseLabel, Modes
    <3>2. QED  BY <1>0, <2>1, <3>1
  <2>3. CASE Evict(g)
    <3>1. (closing => closing') /\ (closing' \/ pd = "none") /\ pc'[g] \in {"decref", "unblock"}
      BY <1>0, <2>3 DEF Evict, pollUnblock
    <3>2. QED  BY <1>0, <2>1, <3>1
  <2>4. QED  BY <1>11, <2>2, <2>3
<1>12. CASE Destroy(g) \/ CloseFunc(g)
  BY <1>0, <1>12 DEF Destroy, CloseFunc
<1>13. CASE DestroySignal(g) \/ CloseBlocking(g) \/ CloseSleep(g) \/ CloseAwake(g)
  <2>1. /\ pc[g] \in {"csignal", "blocking", "csem"} /\ pc'[g] \in {"csignal", "blocking", "csem", "idle"}
    BY <1>0, <1>13 DEF DestroySignal, CloseBlocking, CloseSleep, CloseAwake, Back
  <2>2. /\ sysfd' = sysfd /\ pd' = pd /\ closing' = closing
        /\ flags' = flags /\ refs' = refs
    BY <1>13 DEF DestroySignal, CloseBlocking, CloseSleep, CloseAwake
  <2>3. QED  BY <1>0, <2>1, <2>2
<1>14. QED
  BY <1>1, <1>2, <1>3, <1>4, <1>5, <1>6, <1>7, <1>8, <1>9, <1>10, <1>11, <1>12, <1>13
     DEF Act, BeginCall, Step, Modes

\* Whoever drops the last reference to a closed file, alone, destroys it.
LEMMA StepDestroyed ==
  ASSUME TypeOK, OpsByPC, RefsAreHeld, DestroyedOnce, NEW g \in Goroutines, Act(g), pc'[g] # "panic"
  PROVE  DestroyedOnce'
<1> DEFINE Closing(h) == pc[h] \in {"cwake_r", "cwake_w", "evict"}
<1>1. \A h \in Goroutines \ {g} :
        /\ Destroying(h)' <=> Destroying(h)
        /\ pc'[h] = pc[h] /\ (Closing(h)' <=> Closing(h))
  BY StepMoves DEF Destroying
<1>2. /\ Closed => Closed' /\ (refs = 0 => refs' = 0)
      /\ ~Closed /\ Closed' => refs' > 0 /\ Closing(g)'
      /\ refs \in Nat
  BY StepWord, StepFlags, StepDescriptor, FdMutexAssumption DEF TypeOK, MuTypeOK
<1>3. /\ Destroying(g)' => Destroying(g) \/ (Closed /\ refs > 0 /\ refs' = 0)
      /\ Closed /\ refs > 0 /\ refs' = 0 => Destroying(g)'
      /\ pc[g] = "closefn" => Destroying(g) /\ ~Destroying(g)' /\ sysfd' = "closed"
      /\ pc[g] # "closefn" => sysfd' = sysfd /\ (Destroying(g) => Destroying(g)')
  BY StepDescriptor DEF Destroying
<1>4. /\ pd' = pd \/ (pd' = "closed" /\ pc'[g] = "closefn")
      /\ pd' = "none" <=> pd = "none"
      /\ pc'[g] = "closefn" => pd' # "open"
      /\ closing => closing'
      /\ Closing(g) => Closing(g)' \/ closing' \/ pd = "none"
  BY StepDescriptor
<1>5. /\ \A h \in Goroutines : Destroying(h) =>
           Closed /\ refs = 0 /\ sysfd = "open" /\ \A f \in Goroutines : Destroying(f) => h = f
      /\ sysfd = "closed" => Closed /\ refs = 0 /\ pd # "open"
      /\ Closed /\ refs = 0 => sysfd = "closed" \/ \E h \in Goroutines : Destroying(h)
      /\ pd = "closed" => sysfd = "closed" \/ \E h \in Goroutines : pc[h] = "closefn"
      /\ \A h \in Goroutines : pc[h] = "closefn" => pd # "open"
      /\ Closed => closing \/ pd = "none" \/ \E h \in Goroutines : Closing(h)
      /\ sysfd \in {"open", "closed"}
  BY DEF DestroyedOnce, TypeOK
<1> HIDE DEF Closing, Closed
<1>6. ASSUME NEW f \in Goroutines, Destroying(f)'
      PROVE  Closed' /\ refs' = 0 /\ sysfd' = "open" /\ \A h \in Goroutines : Destroying(h)' => f = h
  <2>1. CASE Destroying(f)
    <3>1. Closed' /\ refs' = 0 /\ refs = 0 /\ sysfd = "open"
      BY <1>2, <1>5, <2>1
    <3>2. pc[g] # "closefn"
      BY <1>3, <1>5, <1>6, <2>1
    <3>3. \A h \in Goroutines : Destroying(h)' => Destroying(h)
      BY <1>1, <1>3, <3>1
    <3>4. QED  BY <1>3, <1>5, <2>1, <3>1, <3>2, <3>3
  <2>2. CASE ~Destroying(f)
    <3>1. f = g /\ Closed /\ refs > 0 /\ refs' = 0
      BY <1>1, <1>3, <1>6, <2>2
    <3>2. \A h \in Goroutines : ~Destroying(h)
      BY <1>5, <3>1
    <3>3. QED  BY <1>1, <1>2, <1>3, <1>5, <3>1, <3>2
  <2>3. QED  BY <2>1, <2>2
<1>7. sysfd' = "closed" => Closed' /\ refs' = 0 /\ pd' # "open"
  BY <1>2, <1>3, <1>4, <1>5
<1>8. Closed' /\ refs' = 0 => sysfd' = "closed" \/ \E h \in Goroutines : Destroying(h)'
  <2> SUFFICES ASSUME Closed', refs' = 0, sysfd' # "closed"
               PROVE  \E h \in Goroutines : Destroying(h)'
    OBVIOUS
  <2>1. Closed /\ pc[g] # "closefn" /\ sysfd # "closed"
    BY <1>2, <1>3
  <2>2. CASE refs = 0
    <3>1. PICK h \in Goroutines : Destroying(h)
      BY <1>5, <2>1, <2>2
    <3>2. QED  BY <1>1, <1>3, <2>1, <3>1
  <2>3. CASE refs > 0
    BY <1>3, <2>1, <2>3
  <2>4. QED  BY <1>2, <2>2, <2>3
<1>9. pd' = "closed" => sysfd' = "closed" \/ \E h \in Goroutines : pc'[h] = "closefn"
  BY <1>1, <1>3, <1>4, <1>5
<1>10. \A h \in Goroutines : pc'[h] = "closefn" => pd' # "open"
  BY <1>1, <1>4, <1>5
<1>11. Closed' => closing' \/ pd' = "none" \/ \E h \in Goroutines : Closing(h)'
  <2>1. CASE Closed
    BY <1>1, <1>4, <1>5, <2>1
  <2>2. CASE ~Closed
    BY <1>2, <2>2
  <2>3. QED  BY <2>1, <2>2
<1>12. QED  BY <1>6, <1>7, <1>8, <1>9, <1>10, <1>11 DEF DestroyedOnce, Closing

-----------------------------------------------------------------------------
(* The poller. *)

WaitPCs == {"wait", "block", "recheck", "park", "xchg"}
PollerParts == UnblockingLocked /\ SemaphoreHeld /\ ErrorsAreTold /\ EventsAreToCome

\* A step that leaves the poller alone, of a goroutine that does not get there.
LEMMA PollerNeutral ==
  ASSUME TypeOK, PollerConsistent, NEW g \in Goroutines, Act(g),
         closing' = closing, gpp' = gpp, deadline' = deadline, lock' = lock,
         unblocking' = unblocking, ready' = ready, edge' = edge,
         pc[g] \notin {"recheck", "park", "xchg"}, pc'[g] \notin WaitPCs
  PROVE  PollerParts'
<1>1. \A h \in Goroutines \ {g} : pc'[h] = pc[h] /\ op'[h] = op[h]
  BY StepMoves
<1>2. UnblockingLocked'
  BY DEF PollerConsistent, UnblockingLocked
<1>3. SemaphoreHeld'
  <2> SUFFICES ASSUME NEW m \in Modes, gpp[m] \notin {"nil", "ready"}
               PROVE  \E h \in Goroutines :
                        /\ op'[h] = m
                        /\ \/ gpp[m] = "wait" /\ pc'[h] \in {"recheck", "park", "xchg"}
                           \/ gpp[m] = h /\ pc'[h] = "park"
    BY DEF SemaphoreHeld
  <2>1. PICK h \in Goroutines :
          /\ op[h] = m
          /\ \/ gpp[m] = "wait" /\ pc[h] \in {"recheck", "park", "xchg"}
             \/ gpp[m] = h /\ pc[h] = "park"
    BY DEF PollerConsistent, SemaphoreHeld
  <2>2. h # g
    BY <2>1
  <2>3. QED  BY <1>1, <2>1, <2>2
<1>4. ErrorsAreTold' /\ EventsAreToCome'
  BY <1>1 DEF PollerConsistent, ErrorsAreTold, EventsAreToCome, netpollcheckerr, WaitPCs
<1>5. QED  BY <1>2, <1>3, <1>4 DEF PollerParts

\* A step of a reader or writer, which concerns the semaphore of its mode only.
LEMMA PollerOwn ==
  ASSUME TypeOK, RefsAreHeld, PollerConsistent, NEW g \in Goroutines, Act(g), NEW m \in Modes,
         closing' = closing, deadline' = deadline, lock' = lock, unblocking' = unblocking, edge' = edge,
         Locks(g, m), op'[g] = m,
         \A n \in Modes \ {m} : gpp'[n] = gpp[n] /\ (n \in ready' => n \in ready),
         \/ gpp'[m] \in {"nil", "ready"}
         \/ gpp'[m] = "wait" /\ pc'[g] \in {"recheck", "park", "xchg"}
         \/ gpp'[m] = g /\ pc'[g] = "park",
         pc'[g] = "park" /\ gpp'[m] \notin {"nil", "ready"} /\ netpollcheckerr(m) => m \in unblocking,
         pc'[g] \in WaitPCs /\ m \in ready' => m \in edge \/ gpp'[m] = "ready"
  PROVE  PollerParts'
<1>1. \A h \in Goroutines \ {g} : pc'[h] = pc[h] /\ op'[h] = op[h]
  BY StepMoves
<1>2. \A h \in Goroutines \ {g} : op[h] = m => pc[h] \notin WaitPCs
  BY HolderCounted DEF Locks, Using, UsePCs, IOPCs, WaitPCs
<1>3. op[g] = m /\ pc[g] \in IOPCs
  BY DEF Locks
<1>4. UnblockingLocked'
  BY DEF PollerConsistent, UnblockingLocked
<1>5. SemaphoreHeld'
  <2> SUFFICES ASSUME NEW n \in Modes, gpp'[n] \notin {"nil", "ready"}
               PROVE  \E h \in Goroutines :
                        /\ op'[h] = n
                        /\ \/ gpp'[n] = "wait" /\ pc'[h] \in {"recheck", "park", "xchg"}
                           \/ gpp'[n] = h /\ pc'[h] = "park"
    BY DEF SemaphoreHeld
  <2>1. CASE n = m
    BY <2>1
  <2>2. CASE n # m
    <3>1. gpp'[n] = gpp[n]
      BY <2>2
    <3>2. PICK h \in Goroutines :
            /\ op[h] = n
            /\ \/ gpp[n] = "wait" /\ pc[h] \in {"recheck", "park", "xchg"}
               \/ gpp[n] = h /\ pc[h] = "park"
      BY <3>1 DEF PollerConsistent, SemaphoreHeld
    <3>3. h # g
      BY <1>3, <2>2, <3>2
    <3>4. QED  BY <1>1, <3>1, <3>2, <3>3
  <2>3. QED  BY <2>1, <2>2
<1>6. ErrorsAreTold'
  <2> SUFFICES ASSUME NEW n \in Modes, NEW h \in Goroutines,
                      op'[h] = n, pc'[h] = "park", gpp'[n] \notin {"nil", "ready"}, netpollcheckerr(n)'
               PROVE  n \in unblocking
    BY DEF ErrorsAreTold
  <2>1. netpollcheckerr(n)
    BY DEF netpollcheckerr
  <2>2. CASE h = g
    BY <2>1, <2>2
  <2>3. CASE h # g
    <3>1. n # m /\ op[h] = n /\ pc[h] = "park"
      BY <1>1, <1>2, <2>3 DEF WaitPCs
    <3>2. QED  BY <2>1, <3>1 DEF PollerConsistent, ErrorsAreTold
  <2>4. QED  BY <2>2, <2>3
<1>7. EventsAreToCome'
  <2> SUFFICES ASSUME NEW n \in Modes, NEW h \in Goroutines,
                      op'[h] = n, pc'[h] \in WaitPCs, n \in ready'
               PROVE  n \in edge \/ gpp'[n] = "ready"
    BY DEF EventsAreToCome, WaitPCs
  <2>1. CASE h = g
    BY <2>1
  <2>2. CASE h # g
    <3>1. n # m /\ op[h] = n /\ pc[h] \in WaitPCs
      BY <1>1, <1>2, <2>2
    <3>2. QED  BY <3>1 DEF PollerConsistent, EventsAreToCome, WaitPCs
  <2>3. QED  BY <2>1, <2>2
<1>8. QED  BY <1>4, <1>5, <1>6, <1>7 DEF PollerParts

\* Nobody who waits in the poller moves.
WaitersStay ==
  \A f \in Goroutines : pc[f] \in WaitPCs \/ pc'[f] \in WaitPCs => pc'[f] = pc[f] /\ op'[f] = op[f]

\* netpollunblock makes the semaphore free for its mode and leaves the other alone.
LEMMA Unblocked ==
  ASSUME TypeOK, NEW m \in Modes, NEW ioready \in BOOLEAN, netpollunblock(m, ioready)
  PROVE  /\ gpp'[m] \in {"nil", "ready"} /\ (gpp[m] = "ready" \/ ioready => gpp'[m] = "ready")
         /\ \A n \in Modes \ {m} : gpp'[n] = gpp[n]
BY DEF netpollunblock, TypeOK, PdTypeOK

\* News that is told at once, or is to be told by whoever has stored it.
LEMMA PollerNews ==
  ASSUME TypeOK, PollerConsistent, NEW h, h # None, WaitersStay,
         \/ Unblock(h) \/ pollUnblock(h) \/ (\E ms, d : pollSetDeadline(h, ms, d))
         \/ (h = "timer" /\ \E ms \in (SUBSET Modes) \ {{}} : Expire(ms))
         \/ (\E m \in Modes : netpollready(m)) \/ (\E m \in Modes : KernelReady(m))
  PROVE  PollerParts'
<1>1. UnblockingLocked /\ SemaphoreHeld /\ ErrorsAreTold /\ EventsAreToCome
      /\ unblocking \subseteq Modes /\ gpp \in [Modes -> {"nil", "ready", "wait"} \cup Goroutines]
  BY DEF PollerConsistent, TypeOK, PdTypeOK
\* The semaphore changes for nobody, or becomes free.
<1>2. ASSUME \A n \in Modes : gpp'[n] = gpp[n] \/ gpp'[n] \in {"nil", "ready"}
      PROVE  SemaphoreHeld'
  <2> SUFFICES ASSUME NEW m \in Modes, gpp'[m] \notin {"nil", "ready"}
               PROVE  \E f \in Goroutines :
                        /\ op'[f] = m
                        /\ \/ gpp'[m] = "wait" /\ pc'[f] \in {"recheck", "park", "xchg"}
                           \/ gpp'[m] = f /\ pc'[f] = "park"
    BY DEF SemaphoreHeld
  <2>1. gpp'[m] = gpp[m]
    BY <1>2
  <2>2. PICK f \in Goroutines :
          /\ op[f] = m
          /\ \/ gpp[m] = "wait" /\ pc[f] \in {"recheck", "park", "xchg"}
             \/ gpp[m] = f /\ pc[f] = "park"
    BY <1>1, <2>1 DEF SemaphoreHeld
  <2>3. pc'[f] = pc[f] /\ op'[f] = op[f]
    BY <2>2 DEF WaitersStay, WaitPCs
  <2>4. QED  BY <2>1, <2>2, <2>3
<1>3. ASSUME \A n \in Modes : n \in ready' =>
               \/ n \in edge'
               \/ gpp'[n] = "ready"
               \/ n \in ready /\ (n \in edge => n \in edge') /\ (gpp[n] = "ready" => gpp'[n] = "ready")
      PROVE  EventsAreToCome'
  BY <1>1, <1>3 DEF EventsAreToCome, WaitersStay, WaitPCs
<1>4. ASSUME \A n \in Modes : netpollcheckerr(n)' =>
               \/ n \in unblocking'
               \/ gpp'[n] \in {"nil", "ready"}
               \/ netpollcheckerr(n) /\ gpp'[n] = gpp[n] /\ (n \in unblocking => n \in unblocking')
      PROVE  ErrorsAreTold'
  BY <1>1, <1>4 DEF ErrorsAreTold, WaitersStay, WaitPCs
<1>5. CASE Unblock(h)
  <2> DEFINE m == IF "r" \in unblocking THEN "r" ELSE "w"
  <2>1. m \in Modes /\ lock = h /\ netpollunblock(m, FALSE)
        /\ unblocking' = unblocking \ {m}
        /\ lock' = (IF unblocking = {m} THEN None ELSE h)
        /\ closing' = closing /\ deadline' = deadline /\ ready' = ready /\ edge' = edge
    BY <1>5 DEF Unblock, Modes
  <2>2. unblocking # {} /\ m \in unblocking
    BY <1>1, <2>1 DEF UnblockingLocked, Modes
  <2> HIDE DEF m
  <2>3. /\ gpp'[m] \in {"nil", "ready"} /\ (gpp[m] = "ready" => gpp'[m] = "ready")
        /\ \A n \in Modes \ {m} : gpp'[n] = gpp[n]
    BY <2>1, Unblocked
  <2>4. UnblockingLocked'
    BY <2>1, <2>2 DEF UnblockingLocked
  <2>5. SemaphoreHeld'
    BY <1>2, <2>3
  <2>6. EventsAreToCome'
    BY <1>3, <2>1, <2>3
  <2>7. ErrorsAreTold'
    BY <1>4, <2>1, <2>3 DEF netpollcheckerr
  <2>8. QED  BY <2>4, <2>5, <2>6, <2>7 DEF PollerParts
<1>6. CASE pollUnblock(h)
  <2>1. /\ lock' = h /\ unblocking' = Modes /\ gpp' = gpp /\ ready' = ready /\ edge' = edge
    BY <1>6 DEF pollUnblock, Hold, Modes
  <2>2. UnblockingLocked'
    BY <2>1 DEF UnblockingLocked, Modes
  <2>3. SemaphoreHeld' /\ EventsAreToCome' /\ ErrorsAreTold'
    BY <1>2, <1>3, <1>4, <2>1
  <2>4. QED  BY <2>2, <2>3 DEF PollerParts
<1>7. ASSUME NEW ms, NEW d, pollSetDeadline(h, ms, d)
      PROVE  PollerParts'
  <2> DEFINE new == [m \in Modes |-> IF m \in ms /\ ~closing THEN d ELSE deadline[m]]
             S == IF closing THEN {} ELSE {m \in Modes : new[m] = "past"}
  <2>1. /\ deadline' = new /\ lock = None /\ unblocking' = S
        /\ lock' = (IF S = {} THEN None ELSE h)
        /\ closing' = closing /\ gpp' = gpp /\ ready' = ready /\ edge' = edge
    BY <1>7 DEF pollSetDeadline, Hold
  <2>2. /\ \A n \in Modes : closing => deadline'[n] = deadline[n]
        /\ \A n \in Modes : ~closing /\ deadline'[n] = "past" => n \in S
    BY <2>1
  <2> HIDE DEF new, S
  <2>3. UnblockingLocked'
    BY <2>1 DEF UnblockingLocked
  <2>4. unblocking = {}
    BY <1>1, <2>1 DEF UnblockingLocked
  <2>5. SemaphoreHeld' /\ EventsAreToCome'
    BY <1>2, <1>3, <2>1
  <2>6. ErrorsAreTold'
    BY <1>4, <2>1, <2>2, <2>4 DEF netpollcheckerr
  <2>7. QED  BY <2>3, <2>5, <2>6 DEF PollerParts
<1>8. ASSUME h = "timer", NEW ms \in (SUBSET Modes) \ {{}}, Expire(ms)
      PROVE  PollerParts'
  <2>1. /\ lock = None /\ lock' = "timer" /\ unblocking' = ms /\ ms # {}
        /\ deadline' = [m \in Modes |-> IF m \in ms THEN "past" ELSE deadline[m]]
        /\ closing' = closing /\ gpp' = gpp /\ ready' = ready /\ edge' = edge
    BY <1>8 DEF Expire, Hold
  <2>2. UnblockingLocked'
    BY <2>1, NetpollAssumption DEF UnblockingLocked
  <2>3. unblocking = {}
    BY <1>1, <2>1 DEF UnblockingLocked
  <2>4. SemaphoreHeld' /\ EventsAreToCome'
    BY <1>2, <1>3, <2>1
  <2>5. \A n \in Modes : n \in ms \/ deadline'[n] = deadline[n]
    BY <2>1
  <2>6. ErrorsAreTold'
    BY <1>4, <2>1, <2>3, <2>5 DEF netpollcheckerr
  <2>7. QED  BY <2>2, <2>4, <2>6 DEF PollerParts
<1>9. ASSUME NEW m \in Modes, netpollready(m)
      PROVE  PollerParts'
  <2>1. /\ netpollunblock(m, TRUE) /\ edge' = edge \ {m}
        /\ closing' = closing /\ deadline' = deadline /\ lock' = lock
        /\ unblocking' = unblocking /\ ready' = ready
    BY <1>9 DEF netpollready
  <2>2. gpp'[m] = "ready" /\ \A n \in Modes \ {m} : gpp'[n] = gpp[n]
    BY <2>1, Unblocked
  <2>3. UnblockingLocked'
    BY <1>1, <2>1 DEF UnblockingLocked
  <2>4. SemaphoreHeld' /\ EventsAreToCome'
    BY <1>2, <1>3, <2>1, <2>2
  <2>5. ErrorsAreTold'
    BY <1>4, <2>1, <2>2 DEF netpollcheckerr
  <2>6. QED  BY <2>3, <2>4, <2>5 DEF PollerParts
<1>10. ASSUME NEW m \in Modes, KernelReady(m)
       PROVE  PollerParts'
  <2>1. /\ ready' = ready \cup {m} /\ edge' = edge \cup {m}
        /\ closing' = closing /\ gpp' = gpp /\ deadline' = deadline /\ lock' = lock /\ unblocking' = unblocking
    BY <1>10 DEF KernelReady
  <2>2. UnblockingLocked'
    BY <1>1, <2>1 DEF UnblockingLocked
  <2>3. SemaphoreHeld' /\ EventsAreToCome'
    BY <1>2, <1>3, <2>1
  <2>4. ErrorsAreTold'
    BY <1>4, <2>1 DEF netpollcheckerr
  <2>5. QED  BY <2>2, <2>3, <2>4 DEF PollerParts
<1>11. QED  BY <1>5, <1>6, <1>7, <1>8, <1>9, <1>10

\* A step of a method, those of the poller's semaphore among them, overlooks nobody.
LEMMA StepPoller ==
  ASSUME TypeOK, OpsByPC, RefsAreHeld, PollerConsistent, NEW g \in Goroutines, Act(g), pc'[g] # "panic"
  PROVE  PollerParts'
<1>0. /\ pc \in [Goroutines -> PCs] /\ op \in [Goroutines -> Ops]
      /\ gpp \in [Modes -> {"nil", "ready", "wait"} \cup Goroutines]
  BY DEF TypeOK, PdTypeOK
<1> DEFINE m == op[g]
<1>1. pc[g] \in IOPCs => m \in Modes /\ Locks(g, m)
  BY DEF OpsByPC, Locks
<1>2. \A h \in Goroutines \ {g} : pc'[h] = pc[h] /\ op'[h] = op[h]
  BY StepMoves
<1>3. CASE Reset(g)
  <2>1. pc[g] = "reset" /\ pc'[g] = "sys" /\ op'[g] = m /\ Clear(m)
    BY <1>0, <1>3 DEF Reset
  <2>2. gpp'[m] = "nil" /\ Locks(g, m) /\ m \in Modes
    BY <1>0, <1>1, <2>1 DEF IOPCs, Clear, Set
  <2>3. QED  BY <1>0, <2>1, <2>2, PollerOwn DEF Clear, Set, WaitPCs
<1>4. CASE SysReturn(g)
  <2>1. pc[g] = "sys" /\ op'[g] = m /\ Locks(g, m) /\ m \in Modes
    BY <1>0, <1>1, <1>4 DEF SysReturn, IOPCs
  <2>2. gpp[m] \in {"nil", "ready"}
    BY <2>1, SemaphoreHolder, HolderCounted DEF Locks, Using, UsePCs
  <2>3. CASE pc'[g] = "unlock" /\ Use(m)
    <3>1. \A n \in Modes : n \in ready' => n \in ready
      BY <2>3 DEF Use
    <3>2. QED  BY <2>1, <2>2, <2>3, <3>1, PollerOwn DEF Use, WaitPCs
  <2>4. CASE /\ pc'[g] = "wait" /\ m \notin ready
             /\ closing' = closing /\ gpp' = gpp /\ deadline' = deadline /\ lock' = lock
             /\ unblocking' = unblocking /\ ready' = ready /\ edge' = edge
    BY <2>1, <2>2, <2>4, PollerOwn
  <2>5. QED  BY <1>0, <1>4, <2>3, <2>4 DEF SysReturn, pdvars
<1>5. CASE PollWait(g)
  <2>1. /\ pc[g] = "wait" /\ op'[g] = m /\ Locks(g, m) /\ m \in Modes /\ pc'[g] \in {"unlock", "block"}
        /\ closing' = closing /\ gpp' = gpp /\ deadline' = deadline /\ lock' = lock
        /\ unblocking' = unblocking /\ ready' = ready /\ edge' = edge
    BY <1>0, <1>1, <1>5 DEF PollWait, IOPCs, pdvars
  <2>2. gpp[m] \in {"nil", "ready"}
    BY <2>1, SemaphoreHolder, HolderCounted DEF Locks, Using, UsePCs
  <2>3. m \in ready => m \in edge \/ gpp[m] = "ready"
    BY <2>1 DEF PollerConsistent, EventsAreToCome
  <2>4. QED  BY <2>1, <2>2, <2>3, PollerOwn
<1>6. CASE Block(g)
  <2>1. pc[g] = "block" /\ op'[g] = m /\ Locks(g, m) /\ m \in Modes
    BY <1>0, <1>1, <1>6 DEF Block, IOPCs
  <2>2. gpp[m] \in {"nil", "ready"}
    BY <2>1, SemaphoreHolder, HolderCounted DEF Locks, Using, UsePCs
  <2>3. m \in ready => m \in edge \/ gpp[m] = "ready"
    BY <2>1 DEF PollerConsistent, EventsAreToCome
  <2>4. CASE gpp[m] = "ready"
    <3>1. pc'[g] = "sys" /\ Clear(m) /\ gpp'[m] = "nil"
      BY <1>0, <1>6, <2>1, <2>4 DEF Block, Clear, Set
    <3>2. QED  BY <1>0, <2>1, <3>1, PollerOwn DEF Clear, Set, WaitPCs
  <2>5. CASE gpp[m] = "nil"
    <3>1. pc'[g] = "recheck" /\ Wait(m) /\ gpp'[m] = "wait"
      BY <1>0, <1>6, <2>1, <2>5 DEF Block, Wait, Set
    <3>2. QED  BY <1>0, <2>1, <2>3, <2>5, <3>1, PollerOwn DEF Wait, Set
  <2>6. QED  BY <2>2, <2>4, <2>5
<1>7. CASE Recheck(g)
  <2>1. /\ pc[g] = "recheck" /\ op'[g] = m /\ Locks(g, m) /\ m \in Modes
        /\ pc'[g] = (IF netpollcheckerr(m) THEN "xchg" ELSE "park")
        /\ closing' = closing /\ gpp' = gpp /\ deadline' = deadline /\ lock' = lock
        /\ unblocking' = unblocking /\ ready' = ready /\ edge' = edge
    BY <1>0, <1>1, <1>7 DEF Recheck, IOPCs, pdvars
  <2>2. gpp[m] \in {"nil", "ready", "wait"}
    BY <2>1, SemaphoreHolder, HolderCounted DEF Locks, Using, UsePCs
  <2>3. m \in ready => m \in edge \/ gpp[m] = "ready"
    BY <2>1 DEF PollerConsistent, EventsAreToCome
  <2>4. QED  BY <2>1, <2>2, <2>3, PollerOwn
<1>8. CASE Park(g)
  <2>1. /\ pc[g] = "park" /\ pc' = pc /\ op' = op /\ Locks(g, m) /\ m \in Modes
        /\ gpp[m] = "wait" /\ gpp' = [gpp EXCEPT ![m] = g]
        /\ closing' = closing /\ deadline' = deadline /\ lock' = lock
        /\ unblocking' = unblocking /\ ready' = ready /\ edge' = edge
    BY <1>0, <1>1, <1>8 DEF Park, IOPCs, Commit, Set
  <2>2. gpp'[m] = g /\ \A n \in Modes \ {m} : gpp'[n] = gpp[n]
    BY <1>0, <2>1
  <2>3. /\ m \in ready => m \in edge
        /\ netpollcheckerr(m) => m \in unblocking
    BY <2>1 DEF PollerConsistent, EventsAreToCome, ErrorsAreTold
  <2>4. QED  BY <2>1, <2>2, <2>3, PollerOwn
<1>9. CASE Unpark(g)
  <2>1. /\ pc[g] \in {"xchg", "park"} /\ op'[g] = m /\ Locks(g, m) /\ m \in Modes
        /\ pc'[g] = (IF gpp[m] = "ready" THEN "sys" ELSE "wait")
        /\ gpp' = [gpp EXCEPT ![m] = "nil"]
        /\ closing' = closing /\ deadline' = deadline /\ lock' = lock
        /\ unblocking' = unblocking /\ ready' = ready /\ edge' = edge
    BY <1>0, <1>1, <1>9 DEF Unpark, IOPCs, Clear, Set
  <2>2. gpp'[m] = "nil" /\ \A n \in Modes \ {m} : gpp'[n] = gpp[n]
    BY <1>0, <2>1
  <2>3. m \in ready => m \in edge \/ gpp[m] = "ready"
    BY <2>1 DEF PollerConsistent, EventsAreToCome
  <2>4. QED  BY <2>1, <2>2, <2>3, PollerOwn DEF WaitPCs
<1>10. CASE PollSetDeadline(g)
  <2>1. /\ pc[g] \notin WaitPCs /\ pc'[g] \notin WaitPCs /\ \E ms, d : pollSetDeadline(g, ms, d)
    BY <1>0, <1>10 DEF PollSetDeadline, WaitPCs
  <2>2. QED  BY <1>2, <2>1, NoneAssumption, PollerNews DEF WaitersStay
<1>11. CASE PollUnblock(g) \/ (Evict(g) /\ pollUnblock(g))
  <2>1. pc[g] \notin WaitPCs /\ pc'[g] \notin WaitPCs /\ (Unblock(g) \/ pollUnblock(g))
    BY <1>0, <1>11 DEF PollUnblock, Evict, WaitPCs
  <2>2. QED  BY <1>2, <2>1, NoneAssumption, PollerNews DEF WaitersStay
<1>12. CASE /\ closing' = closing /\ gpp' = gpp /\ deadline' = deadline /\ lock' = lock
            /\ unblocking' = unblocking /\ ready' = ready /\ edge' = edge
            /\ pc[g] \notin {"recheck", "park", "xchg"} /\ pc'[g] \notin WaitPCs
  BY <1>12, PollerNeutral
<1>13. CASE Lock(g) \/ LockAgain(g) \/ LockSleep(g) \/ LockAwake(g)
  BY <1>0, <1>12, <1>13 DEF Lock, LockAgain, TryLock, LockSleep, LockAwake, WaitPCs, pdvars
<1>14. CASE Unlock(g) \/ UnlockWake(g) \/ Prepare(g)
  BY <1>0, <1>12, <1>14 DEF Unlock, UnlockWake, Unlocked, Prepare, WaitPCs, pdvars
<1>15. CASE \/ Incref(g) \/ SetDeadline(g) \/ SetBlocking(g) \/ MiscReturn(g)
            \/ SetBlockingStore(g) \/ SetNonblock(g) \/ Decref(g)
  BY <1>0, <1>12, <1>15 DEF Incref, SetDeadline, SetBlocking, MiscReturn,
                            SetBlockingStore, SetNonblock, Decref, Back, WaitPCs, pdvars
<1>16. CASE Close(g) \/ (Evict(g) /\ ~pollUnblock(g)) \/ \E n \in Modes : CloseWake(g, n)
  BY <1>0, <1>12, <1>16 DEF Close, CloseLabel, Evict, CloseWake, Modes, WaitPCs, pdvars
<1>17. CASE \/ Destroy(g) \/ CloseFunc(g) \/ DestroySignal(g)
            \/ CloseBlocking(g) \/ CloseSleep(g) \/ CloseAwake(g)
  BY <1>0, <1>12, <1>17 DEF Destroy, CloseFunc, DestroySignal, CloseBlocking, CloseSleep, CloseAwake,
                            Back, WaitPCs, pdvars
<1>18. QED
  BY <1>3, <1>4, <1>5, <1>6, <1>7, <1>8, <1>9, <1>10, <1>11, <1>13, <1>14, <1>15, <1>16, <1>17
     DEF Act, BeginCall, Step, Modes

\* No method gets to the poller with a descriptor that is not registered.
LEMMA StepUsedIfPollable ==
  ASSUME TypeOK, OpsByPC, PollerConsistent, NEW g \in Goroutines, Act(g), pc'[g] # "panic"
  PROVE  UsedIfPollable'
<1> DEFINE L == {"reset", "wait", "block", "recheck", "park", "xchg", "deadline", "unblock"}
<1>0. pc \in [Goroutines -> PCs] /\ op \in [Goroutines -> Ops]
  BY DEF TypeOK
<1>1. \A h \in Goroutines : pc[h] \in L => pd # "none"
  BY DEF PollerConsistent, UsedIfPollable
<1>2. pc'[g] \in L => pc[g] \in L \/ pd # "none"
  <2>1. CASE Lock(g) \/ LockAgain(g) \/ LockSleep(g) \/ LockAwake(g) \/ Unlock(g) \/ UnlockWake(g)
    BY <1>0, <2>1 DEF Lock, LockAgain, TryLock, LockSleep, LockAwake, Unlock, UnlockWake, Unlocked
  <2>2. CASE Prepare(g) \/ Reset(g) \/ SysReturn(g) \/ PollWait(g)
    BY <1>0, <2>2 DEF Prepare, Reset, SysReturn, PollWait
  <2>3. CASE Block(g) \/ Recheck(g) \/ Park(g) \/ Unpark(g)
    BY <1>0, <2>3 DEF Block, Recheck, Park, Unpark
  <2>4. CASE \/ Incref(g) \/ SetDeadline(g) \/ SetBlocking(g) \/ MiscReturn(g) \/ PollSetDeadline(g)
             \/ PollUnblock(g) \/ SetBlockingStore(g) \/ SetNonblock(g) \/ Decref(g)
    BY <1>0, <2>4 DEF Incref, SetDeadline, SetBlocking, MiscReturn, PollSetDeadline,
                      PollUnblock, SetBlockingStore, SetNonblock, Decref, Back
  <2>5. CASE Close(g) \/ (\E m \in Modes : CloseWake(g, m)) \/ Evict(g)
    BY <1>0, <2>5 DEF Close, CloseLabel, CloseWake, Evict, Modes
  <2>6. CASE \/ Destroy(g) \/ CloseFunc(g) \/ DestroySignal(g)
             \/ CloseBlocking(g) \/ CloseSleep(g) \/ CloseAwake(g)
    BY <1>0, <2>6 DEF Destroy, CloseFunc, DestroySignal, CloseBlocking, CloseSleep, CloseAwake, Back
  <2>7. QED  BY <2>1, <2>2, <2>3, <2>4, <2>5, <2>6 DEF Act, BeginCall, Step, Modes
<1>3. pd' = "none" <=> pd = "none"
  BY StepDescriptor
<1>4. \A h \in Goroutines \ {g} : pc'[h] = pc[h]
  BY StepMoves
<1>5. QED  BY <1>1, <1>2, <1>3, <1>4 DEF UsedIfPollable

\* The types of the poller's variables.
LEMMA NewsTypes ==
  ASSUME TypeOK, NEW h \in Goroutines \cup {"timer"},
         \/ Unblock(h) \/ pollUnblock(h) \/ (\E d \in MaySet : pollSetDeadline(h, d[1], d[2]))
         \/ (\E ms \in (SUBSET Modes) \ {{}} : Expire(ms))
         \/ (\E m \in Modes : netpollready(m)) \/ (\E m \in Modes : KernelReady(m))
  PROVE  PdTypeOK'
<1>0. PdTypeOK
  BY DEF TypeOK
<1>1. CASE Unblock(h)
  BY <1>0, <1>1 DEF Unblock, netpollunblock, PdTypeOK, Modes
<1>2. CASE pollUnblock(h)
  BY <1>0, <1>2 DEF pollUnblock, Hold, PdTypeOK
<1>3. ASSUME NEW d \in MaySet, pollSetDeadline(h, d[1], d[2])
      PROVE  PdTypeOK'
  <2>1. d[2] \in {"none", "later", "past"}
    BY FDAssumption
  <2>2. deadline' \in [Modes -> {"none", "later", "past"}]
    BY <1>0, <1>3, <2>1 DEF pollSetDeadline, PdTypeOK
  <2>3. unblocking' \subseteq Modes /\ lock' \in Goroutines \cup {None, "timer"}
    BY <1>3 DEF pollSetDeadline, Hold
  <2>4. closing' = closing /\ gpp' = gpp /\ ready' = ready /\ edge' = edge
    BY <1>3 DEF pollSetDeadline
  <2>5. QED  BY <1>0, <2>2, <2>3, <2>4 DEF PdTypeOK
<1>4. ASSUME NEW ms \in (SUBSET Modes) \ {{}}, Expire(ms)
      PROVE  PdTypeOK'
  <2>1. deadline' \in [Modes -> {"none", "later", "past"}]
    BY <1>0, <1>4 DEF Expire, PdTypeOK
  <2>2. unblocking' \subseteq Modes /\ lock' \in Goroutines \cup {None, "timer"}
    BY <1>4 DEF Expire, Hold
  <2>3. closing' = closing /\ gpp' = gpp /\ ready' = ready /\ edge' = edge
    BY <1>4 DEF Expire
  <2>4. QED  BY <1>0, <2>1, <2>2, <2>3 DEF PdTypeOK
<1>5. ASSUME NEW m \in Modes, netpollready(m) \/ KernelReady(m)
      PROVE  PdTypeOK'
  BY <1>0, <1>5 DEF netpollready, netpollunblock, KernelReady, PdTypeOK
<1>6. QED  BY <1>1, <1>2, <1>3, <1>4, <1>5

\* The types of pollDesc's fields, for the steps of the methods.
LEMMA StepPdTypes ==
  ASSUME TypeOK, OpsByPC, NEW g \in Goroutines, Act(g)
  PROVE  PdTypeOK'
<1>0. PdTypeOK /\ g \in Goroutines \cup {"timer"}
  BY DEF TypeOK
<1>1. CASE PollSetDeadline(g) \/ PollUnblock(g) \/ (Evict(g) /\ pollUnblock(g))
  BY <1>0, <1>1, NewsTypes DEF PollSetDeadline, PollUnblock
<1>2. ASSUME NEW m \in Modes, Clear(m) \/ Wait(m) \/ Commit(g, m) \/ Use(m)
      PROVE  PdTypeOK'
  BY <1>0, <1>2 DEF Clear, Wait, Commit, Set, Use, PdTypeOK
<1>3. CASE UNCHANGED pdvars
  BY <1>0, <1>3 DEF pdvars, PdTypeOK
<1>4. CASE \/ Reset(g) \/ SysReturn(g) \/ Block(g) \/ Park(g) \/ Unpark(g)
  <2>1. op[g] \in Modes
    BY <1>4 DEF Reset, SysReturn, Block, Park, Unpark, OpsByPC, IOPCs
  <2>2. UNCHANGED pdvars \/ Clear(op[g]) \/ Wait(op[g]) \/ Commit(g, op[g]) \/ Use(op[g])
    BY <1>4 DEF Reset, SysReturn, Block, Park, Unpark
  <2>3. QED  BY <1>2, <1>3, <2>1, <2>2
<1>5. CASE Lock(g) \/ LockAgain(g) \/ LockSleep(g) \/ LockAwake(g) \/ Unlock(g) \/ UnlockWake(g)
  BY <1>3, <1>5 DEF Lock, LockAgain, TryLock, LockSleep, LockAwake, Unlock, UnlockWake
<1>6. CASE Prepare(g) \/ PollWait(g) \/ Recheck(g)
  BY <1>3, <1>6 DEF Prepare, PollWait, Recheck
<1>7. CASE \/ Incref(g) \/ SetDeadline(g) \/ SetBlocking(g) \/ MiscReturn(g)
           \/ SetBlockingStore(g) \/ SetNonblock(g) \/ Decref(g)
  BY <1>3, <1>7 DEF Incref, SetDeadline, SetBlocking, MiscReturn, SetBlockingStore, SetNonblock, Decref
<1>8. CASE Close(g) \/ (\E m \in Modes : CloseWake(g, m)) \/ (Evict(g) /\ ~pollUnblock(g))
  BY <1>3, <1>8 DEF Close, CloseWake, Evict
<1>9. CASE \/ Destroy(g) \/ CloseFunc(g) \/ DestroySignal(g)
           \/ CloseBlocking(g) \/ CloseSleep(g) \/ CloseAwake(g)
  BY <1>3, <1>9 DEF Destroy, CloseFunc, DestroySignal, CloseBlocking, CloseSleep, CloseAwake
<1>10. QED
  BY <1>1, <1>4, <1>5, <1>6, <1>7, <1>8, <1>9 DEF Act, BeginCall, Step, Modes

-----------------------------------------------------------------------------
(* The semaphores. *)

SemPCs == {"sem", "wake", "wakelast", "cwake_r", "cwake_w", "csignal", "csem"}
SemAct(g) == \/ LockSleep(g) \/ LockAwake(g) \/ UnlockWake(g) \/ (\E m \in Modes : CloseWake(g, m))
             \/ DestroySignal(g) \/ CloseSleep(g) \/ CloseAwake(g)

\* The other steps leave the semaphores alone, and are not taken inside of them.
LEMMA OutsideActs ==
  ASSUME TypeOK, NEW g \in Goroutines, Act(g), ~SemAct(g)
  PROVE  semval' = semval /\ waitq' = waitq /\ sst' = sst /\ wakee' = wakee /\ pc[g] \notin SemPCs
<1> USE DEF semvars, SemPCs
<1>1. CASE Lock(g) \/ LockAgain(g) \/ Unlock(g)
  BY <1>1 DEF Lock, LockAgain, TryLock, Unlock
<1>2. CASE Prepare(g) \/ Reset(g) \/ SysReturn(g) \/ PollWait(g)
  BY <1>2 DEF Prepare, Reset, SysReturn, PollWait
<1>3. CASE Block(g) \/ Recheck(g) \/ Park(g) \/ Unpark(g)
  BY <1>3 DEF Block, Recheck, Park, Unpark
<1>4. CASE \/ Incref(g) \/ SetDeadline(g) \/ SetBlocking(g) \/ MiscReturn(g) \/ PollSetDeadline(g)
           \/ PollUnblock(g) \/ SetBlockingStore(g) \/ SetNonblock(g) \/ Decref(g)
  BY <1>4 DEF Incref, SetDeadline, SetBlocking, MiscReturn, PollSetDeadline,
              PollUnblock, SetBlockingStore, SetNonblock, Decref
<1>5. CASE Close(g) \/ Evict(g) \/ Destroy(g) \/ CloseFunc(g) \/ CloseBlocking(g)
  BY <1>5 DEF Close, Evict, Destroy, CloseFunc, CloseBlocking
<1>6. QED  BY <1>1, <1>2, <1>3, <1>4, <1>5 DEF Act, BeginCall, Step, SemAct, Modes

\* Each step is at most one step of a semaphore, in the role that the control
\* point says; whoever is in a semaphore stays there, or comes out of it.
LEMMA StepSem ==
  ASSUME TypeOK, OpsByPC, SemConsistent(Acquiring, Releasing), NEW g \in Goroutines, Act(g)
  PROVE  /\ \E a \in Addr : SemStep(g, a, Acquiring, Releasing)
         /\ (pc'[g] = pc[g] /\ op'[g] = op[g]) \/ sst'[g] = "running"
         /\ pc[g] \notin SemPCs => sst[g] = "running" /\ sst'[g] = "running"
<1>0. /\ pc \in [Goroutines -> PCs] /\ op \in [Goroutines -> Ops] /\ SemTypeOK /\ sst \in [Goroutines -> SemStates]
      /\ RSema \in Addr /\ WSema \in Addr /\ CSema \in Addr /\ RSema # WSema /\ CSema \notin {RSema, WSema}
      /\ None \notin Addr
  BY FDAssumption, FdMutexAssumption, NoneAssumption DEF TypeOK, SemTypeOK
<1>1. pc[g] \notin SemPCs => sst[g] = "running"
  BY <1>0, OutsideSem DEF Acquiring, Releasing, SemPCs
<1>2. ASSUME NEW a \in Addr, SemReady(g, a, FALSE)
      PROVE  sst'[g] = "running"
  BY <1>0, <1>2, WakeeIsDequeued DEF SemReady, SemConsistent
<1>3. ASSUME NEW a \in Addr, SemTake(g, a) \/ SemNoWaiter(g, a)
      PROVE  sst'[g] = "running"
  BY <1>0, <1>3 DEF SemTake, SemNoWaiter
<1> USE DEF SemStep
<1>4. CASE LockSleep(g) \/ LockAwake(g)
  <2>1. mutexSema(op[g]) \in Addr /\ Acquiring[g] = mutexSema(op[g]) /\ pc[g] = "sem"
    BY <1>0, <1>4 DEF LockSleep, LockAwake, mutexSema, Acquiring
  <2>2. \/ SemPark(g, mutexSema(op[g]), FALSE) /\ pc' = pc /\ op' = op
        \/ SemTake(g, mutexSema(op[g]))
    BY <1>4 DEF LockSleep, LockAwake
  <2>3. QED  BY <1>3, <2>1, <2>2 DEF SemPCs
<1>5. CASE UnlockWake(g)
  <2> DEFINE a == mutexSema(op[g])
  <2>1. a \in Addr /\ Releasing[g] = a /\ pc[g] \in SemPCs
    BY <1>0, <1>5 DEF UnlockWake, mutexSema, Releasing, SemPCs
  <2>2. \/ (SemInc(g, a) \/ SemDequeue(g, a)) /\ pc' = pc /\ op' = op
        \/ SemNoWaiter(g, a) \/ SemReady(g, a, FALSE)
    BY <1>5 DEF UnlockWake
  <2>3. QED  BY <1>2, <1>3, <2>1, <2>2
<1>6. ASSUME NEW m \in Modes, CloseWake(g, m)
      PROVE  /\ \E a \in Addr : SemStep(g, a, Acquiring, Releasing)
             /\ (pc'[g] = pc[g] /\ op'[g] = op[g]) \/ sst'[g] = "running"
             /\ pc[g] \in SemPCs
  <2> DEFINE a == mutexSema(m)
  <2>1. a \in Addr /\ Releasing[g] = a /\ pc[g] \in SemPCs
    BY <1>0, <1>6 DEF CloseWake, mutexSema, Releasing, SemPCs, Modes
  <2>2. \/ (SemInc(g, a) \/ SemDequeue(g, a)) /\ pc' = pc /\ op' = op
        \/ SemNoWaiter(g, a) \/ SemReady(g, a, FALSE)
    BY <1>6 DEF CloseWake
  <2>3. QED  BY <1>2, <1>3, <2>1, <2>2
<1>7. CASE DestroySignal(g)
  <2>1. Releasing[g] = CSema /\ pc[g] \in SemPCs
    BY <1>7 DEF DestroySignal, Releasing, SemPCs
  <2>2. \/ (SemInc(g, CSema) \/ SemDequeue(g, CSema)) /\ pc' = pc /\ op' = op
        \/ SemNoWaiter(g, CSema) \/ SemReady(g, CSema, FALSE)
    BY <1>7 DEF DestroySignal
  <2>3. QED  BY <1>0, <1>2, <1>3, <2>1, <2>2
<1>8. CASE CloseSleep(g) \/ CloseAwake(g)
  <2>1. Acquiring[g] = CSema /\ pc[g] \in SemPCs
    BY <1>8 DEF CloseSleep, CloseAwake, Acquiring, SemPCs
  <2>2. \/ SemPark(g, CSema, FALSE) /\ pc' = pc /\ op' = op
        \/ SemTake(g, CSema)
    BY <1>8 DEF CloseSleep, CloseAwake
  <2>3. QED  BY <1>0, <1>3, <2>1, <2>2
<1>9. CASE ~SemAct(g)
  <2>1. semval' = semval /\ waitq' = waitq /\ sst' = sst /\ wakee' = wakee /\ pc[g] \notin SemPCs
    BY <1>9, OutsideActs
  <2>2. SemStep(g, RSema, Acquiring, Releasing)
    BY <2>1 DEF semvars
  <2>3. QED  BY <1>0, <1>1, <2>1, <2>2
<1>10. QED  BY <1>4, <1>5, <1>6, <1>7, <1>8, <1>9 DEF SemAct

\* The rules that a semaphore's clients rely on go on to hold.
LEMMA NextSem ==
  ASSUME TypeOK, OpsByPC, SemConsistent(Acquiring, Releasing), NEW g \in Goroutines, Act(g)
  PROVE  /\ SemTypeOK' /\ SemConsistent(Acquiring, Releasing)'
         /\ \A h \in Goroutines \ {g} : sst'[h] = "running" <=> sst[h] = "running"
<1>1. SemTypeOK /\ IsFiniteSet(Goroutines)
  BY FDAssumption DEF TypeOK
<1>2. PICK a \in Addr : SemStep(g, a, Acquiring, Releasing)
  BY StepSem
<1>3. KeepsRoles(Acquiring, Releasing, Acquiring', Releasing')
  BY StepSem, StepMoves DEF KeepsRoles, Acquiring, Releasing
<1>4. QED  BY <1>1, <1>2, <1>3, SemStepConsistent, OthersKeepRunning

\* What a step of a semaphore does to its word.
LEMMA SemEffects ==
  ASSUME SemTypeOK, NEW g \in Goroutines, NEW a \in Addr
  PROVE  /\ SemInc(g, a) => /\ sst[g] = "running" /\ sst'[g] = "xadded"
                            /\ semval'[a] = semval[a] + 1
                            /\ \A b \in Addr \ {a} : semval'[b] = semval[b]
         /\ SemDequeue(g, a) => sst[g] = "xadded" /\ sst'[g] # "running" /\ semval' = semval
         /\ SemNoWaiter(g, a) \/ SemReady(g, a, FALSE) => sst[g] # "running" /\ semval' = semval
         /\ SemPark(g, a, FALSE) => semval' = semval
         /\ SemTake(g, a) => /\ semval[a] > 0 /\ semval'[a] = semval[a] - 1
                             /\ \A b \in Addr \ {a} : semval'[b] = semval[b]
BY DEF SemTypeOK, SemInc, SemDequeue, SemNoWaiter, SemReady, SemPark, SemTake

Sleeps(g, m) == pc[g] = "sem" /\ op[g] = m
Wakes(g, m) == pc[g] \in {"wake", "wakelast"} /\ op[g] = m /\ sst[g] = "running"

One(b) == IF b THEN 1 ELSE 0

\* Who sleeps and who wakes changes with the goroutine that takes the step.
LEMMA StepSleepers ==
  ASSUME TypeOK, OpsByPC, SemConsistent(Acquiring, Releasing), NEW g \in Goroutines, Act(g), NEW m \in Modes
  PROVE  /\ Cardinality(Sleepers(m)) \in Nat /\ Cardinality(Wakers(m)) \in Nat
         /\ Cardinality(Sleepers(m))' = Cardinality(Sleepers(m)) - One(Sleeps(g, m)) + One(Sleeps(g, m)')
         /\ Cardinality(Wakers(m))' = Cardinality(Wakers(m)) - One(Wakes(g, m)) + One(Wakes(g, m)')
<1> DEFINE S == Sleepers(m)
           SS == Sleepers(m)'
           W == Wakers(m)
           WW == Wakers(m)'
<1>1. IsFiniteSet(S) /\ IsFiniteSet(W)
  BY FDAssumption, FS_Subset DEF Sleepers, Wakers
<1>2. /\ \A h : h # g => (h \in SS <=> h \in S)
      /\ \A h : h # g => (h \in WW <=> h \in W)
      /\ (g \in S <=> Sleeps(g, m)) /\ (g \in SS <=> Sleeps(g, m)')
      /\ (g \in W <=> Wakes(g, m)) /\ (g \in WW <=> Wakes(g, m)')
  BY StepMoves, NextSem DEF Sleepers, Wakers, Sleeps, Wakes
<1> HIDE DEF S, SS, W, WW
<1>3. /\ Cardinality(S) \in Nat
      /\ Cardinality(SS) = Cardinality(S) - (IF g \in S THEN 1 ELSE 0) + (IF g \in SS THEN 1 ELSE 0)
  BY <1>1, <1>2, OneMoves
<1>4. /\ Cardinality(W) \in Nat
      /\ Cardinality(WW) = Cardinality(W) - (IF g \in W THEN 1 ELSE 0) + (IF g \in WW THEN 1 ELSE 0)
  BY <1>1, <1>2, OneMoves
<1>5. /\ Cardinality(S) = Cardinality(Sleepers(m)) /\ Cardinality(SS) = Cardinality(Sleepers(m))'
      /\ Cardinality(W) = Cardinality(Wakers(m)) /\ Cardinality(WW) = Cardinality(Wakers(m))'
  BY DEF S, SS, W, WW
<1>6. QED  BY <1>2, <1>3, <1>4, <1>5 DEF One

\* What the types say of the counts.
LEMMA Numbers ==
  ASSUME TypeOK, NEW m \in Modes
  PROVE  /\ mutexSema(m) \in Addr /\ mutexSema(m) # CSema
         /\ \A n \in Modes : mutexSema(n) = mutexSema(m) => n = m
         /\ semval[mutexSema(m)] \in Nat /\ waiters[m] \in Nat /\ left[m] \in Nat
         /\ semval[CSema] \in Nat /\ CSema \in Addr
         /\ MaxCount \in Nat /\ waiters[m] <= MaxCount /\ left[m] <= MaxCount
<1>1. mutexSema(m) \in Addr /\ mutexSema(m) # CSema /\ CSema \in Addr
  BY FDAssumption DEF mutexSema
<1>2. \A n \in Modes : mutexSema(n) = mutexSema(m) => n = m
  BY FdMutexAssumption DEF mutexSema, Modes
<1>3. semval[mutexSema(m)] \in Nat /\ semval[CSema] \in Nat
  BY <1>1 DEF TypeOK, SemTypeOK
<1>4. /\ waiters[m] \in 0 .. MaxCount /\ left[m] \in 0 .. MaxCount /\ MaxCount \in Nat
  BY FdMutexAssumption DEF TypeOK, MuTypeOK
<1>5. QED  BY <1>1, <1>2, <1>3, <1>4

-----------------------------------------------------------------------------
(* The waiters of the locks. *)

\* The steps that move waiters: from the lock to the semaphore, from the word to
\* a waker or to Close, and from there to the semaphore's count.
CountStep(g, n) ==
  \/ /\ TryLock(g, n) /\ rwlockWait(n) /\ pc[g] \notin SemPCs /\ pc'[g] = "sem" /\ op'[g] = n
     /\ left' = left /\ semval' = semval
  \/ /\ Unlock(g) /\ op[g] = n /\ op'[g] = n /\ waiters[n] > 0 /\ pc'[g] \in {"wake", "wakelast"}
     /\ waiters' = [waiters EXCEPT ![n] = @ - 1] /\ sst'[g] = "running"
     /\ left' = left /\ semval' = semval
  \/ /\ LockAwake(g) /\ op[g] = n /\ pc[g] = "sem" /\ op'[g] = n /\ pc'[g] = "lock"
     /\ SemTake(g, mutexSema(n))
     /\ waiters' = waiters /\ left' = left
  \/ /\ UnlockWake(g) /\ op[g] = n /\ pc[g] \in {"wake", "wakelast"} /\ pc' = pc /\ op' = op
     /\ SemInc(g, mutexSema(n))
     /\ waiters' = waiters /\ left' = left
  \/ /\ CloseWake(g, n) /\ pc' = pc /\ op' = op /\ pc[g] \in {"cwake_r", "cwake_w"}
     /\ SemInc(g, mutexSema(n))
     /\ waiters' = waiters /\ left' = [left EXCEPT ![n] = @ - 1]

\* The other steps move none.
NoCount(g) ==
  /\ waiters' = waiters /\ left' = left
  /\ \A m \in Modes : /\ semval'[mutexSema(m)] = semval[mutexSema(m)]
                      /\ Sleeps(g, m)' <=> Sleeps(g, m)
                      /\ Wakes(g, m)' <=> Wakes(g, m)

\* A step changes the counts of one mode, or is increfAndClose, or changes none.
LEMMA StepCount ==
  ASSUME TypeOK, OpsByPC, SemConsistent(Acquiring, Releasing), NEW g \in Goroutines, Act(g), pc'[g] # "panic"
  PROVE  NoCount(g) \/ Close(g) \/ \E n \in Modes : CountStep(g, n)
<1>0. /\ pc \in [Goroutines -> PCs] /\ op \in [Goroutines -> Ops] /\ SemTypeOK
      /\ waiters \in [Modes -> 0 .. MaxCount]
  BY DEF TypeOK, MuTypeOK
<1>1. /\ ~SemAct(g) => semval' = semval /\ pc[g] \notin SemPCs
      /\ pc[g] \notin SemPCs => sst'[g] = "running"
  BY OutsideActs, StepSem
<1>2. ASSUME waiters' = waiters, left' = left, semval' = semval, ~SemAct(g),
             pc'[g] \notin {"sem", "wake", "wakelast"}
      PROVE  NoCount(g)
  BY <1>1, <1>2 DEF NoCount, Sleeps, Wakes, SemPCs
<1>3. CASE Lock(g) \/ LockAgain(g)
  <2>1. PICK n \in Modes : TryLock(g, n) /\ pc[g] \in {"idle", "lock"}
    BY <1>3 DEF Lock, LockAgain, OpsByPC
  <2>2. semval' = semval /\ left' = left /\ pc[g] \notin SemPCs
    BY <2>1 DEF TryLock, semvars, SemPCs
  <2>3. ~SemAct(g)
    BY <2>1 DEF SemAct, LockSleep, LockAwake, UnlockWake, CloseWake, DestroySignal, CloseSleep, CloseAwake, Modes
  <2>4. CASE rwlockWait(n) /\ Begin(g, n, "sem")
    <3>1. CountStep(g, n)
      BY <1>0, <2>1, <2>2, <2>4 DEF CountStep
    <3>2. QED  BY <3>1
  <2>5. CASE (rwlock(n) /\ Begin(g, n, "prep")) \/ (rwlockFails(n) /\ Goto(g, "idle"))
    <3>1. waiters' = waiters /\ pc'[g] \in {"prep", "idle"}
      BY <1>0, <2>5 DEF rwlock, rwlockFails, muvars
    <3>2. QED  BY <1>2, <2>2, <2>3, <3>1
  <2>6. \/ rwlockWait(n) /\ Begin(g, n, "sem")
        \/ rwlock(n) /\ Begin(g, n, "prep")
        \/ rwlockFails(n) /\ Goto(g, "idle")
    BY <2>1 DEF TryLock
  <2>7. QED  BY <2>1, <2>4, <2>5, <2>6
<1>4. CASE Unlock(g)
  <2>1. /\ pc[g] = "unlock" /\ op[g] \in Modes /\ left' = left /\ ~SemAct(g) /\ rwunlock(op[g])
        /\ pc'[g] = (IF waiters[op[g]] > 0 THEN (IF Last THEN "wakelast" ELSE "wake")
                     ELSE IF Last THEN "destroy" ELSE "idle")
    BY <1>0, <1>4
       DEF Unlock, OpsByPC, IOPCs, SemAct, LockSleep, LockAwake, UnlockWake, CloseWake,
           DestroySignal, CloseSleep, CloseAwake, Modes
  <2>2. CASE waiters[op[g]] > 0
    <3>1. pc'[g] \in {"wake", "wakelast"} /\ op'[g] = op[g]
      BY <1>0, <1>4, <2>1, <2>2 DEF Unlock
    <3>2. waiters' = [waiters EXCEPT ![op[g]] = @ - 1]
      BY <1>0, <2>1, <2>2 DEF rwunlock
    <3>3. CountStep(g, op[g])
      BY <1>1, <1>4, <2>1, <2>2, <3>1, <3>2 DEF CountStep
    <3>4. QED  BY <2>1, <3>3
  <2>3. CASE ~(waiters[op[g]] > 0)
    <3>1. waiters[op[g]] = 0
      BY <2>1, <2>3, Numbers
    <3>2. waiters' = waiters
      BY <1>0, <2>1, <3>1 DEF rwunlock
    <3>3. QED  BY <1>1, <1>2, <2>1, <2>3, <3>2
  <2>4. QED  BY <2>2, <2>3
<1>5. CASE LockSleep(g)
  <2>1. /\ pc[g] = "sem" /\ op[g] \in Modes /\ pc' = pc /\ op' = op
        /\ waiters' = waiters /\ left' = left /\ SemPark(g, mutexSema(op[g]), FALSE)
    BY <1>5 DEF LockSleep, OpsByPC, muvars
  <2>2. semval' = semval
    BY <2>1 DEF SemPark
  <2>3. QED  BY <2>1, <2>2 DEF NoCount, Sleeps, Wakes
<1>6. CASE LockAwake(g)
  <2>1. /\ pc[g] = "sem" /\ op[g] \in Modes /\ pc'[g] = "lock" /\ op'[g] = op[g]
        /\ waiters' = waiters /\ left' = left /\ SemTake(g, mutexSema(op[g]))
    BY <1>0, <1>6 DEF LockAwake, OpsByPC, muvars
  <2>2. CountStep(g, op[g])
    BY <1>6, <2>1 DEF CountStep
  <2>3. QED  BY <2>1, <2>2
<1>7. CASE UnlockWake(g)
  <2> DEFINE n == op[g]
  <2>1. /\ pc[g] \in {"wake", "wakelast"} /\ n \in Modes /\ waiters' = waiters /\ left' = left
        /\ \/ (SemInc(g, mutexSema(n)) \/ SemDequeue(g, mutexSema(n))) /\ pc' = pc /\ op' = op
           \/ (SemNoWaiter(g, mutexSema(n)) \/ SemReady(g, mutexSema(n), FALSE)) /\ pc'[g] \in {"destroy", "idle"}
    BY <1>0, <1>7 DEF UnlockWake, Unlocked, OpsByPC, muvars
  <2>2. mutexSema(n) \in Addr
    BY <2>1, Numbers
  <2>3. CASE SemInc(g, mutexSema(n)) /\ pc' = pc /\ op' = op
    <3>1. CountStep(g, n)
      BY <1>7, <2>1, <2>3 DEF CountStep
    <3>2. QED  BY <2>1, <3>1
  <2>4. CASE SemDequeue(g, mutexSema(n)) /\ pc' = pc /\ op' = op
    BY <1>0, <2>1, <2>2, <2>4, SemEffects DEF NoCount, Sleeps, Wakes
  <2>5. CASE /\ SemNoWaiter(g, mutexSema(n)) \/ SemReady(g, mutexSema(n), FALSE)
             /\ pc'[g] \in {"destroy", "idle"}
    BY <1>0, <2>1, <2>2, <2>5, SemEffects DEF NoCount, Sleeps, Wakes
  <2>6. QED  BY <2>1, <2>3, <2>4, <2>5
<1>8. ASSUME NEW n \in Modes, CloseWake(g, n)
      PROVE  NoCount(g) \/ CountStep(g, n)
  <2>1. /\ pc[g] \in {"cwake_r", "cwake_w"} /\ waiters' = waiters /\ mutexSema(n) \in Addr
    BY <1>8, Numbers DEF CloseWake, muvars
  <2>2. CASE SemInc(g, mutexSema(n)) /\ left' = [left EXCEPT ![n] = @ - 1] /\ pc' = pc /\ op' = op
    BY <1>8, <2>1, <2>2 DEF CountStep
  <2>3. CASE SemDequeue(g, mutexSema(n)) /\ left' = left /\ pc' = pc /\ op' = op
    BY <1>0, <2>1, <2>3, SemEffects DEF NoCount, Sleeps, Wakes
  <2>4. CASE /\ SemNoWaiter(g, mutexSema(n)) \/ SemReady(g, mutexSema(n), FALSE)
             /\ left' = left /\ pc'[g] \in {"cwake_r", "cwake_w", "evict"}
    BY <1>0, <2>1, <2>4, SemEffects DEF NoCount, Sleeps, Wakes
  <2>5. QED  BY <1>0, <1>8, <2>2, <2>3, <2>4 DEF CloseWake, CloseLabel
<1>9. CASE DestroySignal(g) \/ CloseSleep(g) \/ CloseAwake(g)
  <2>1. /\ pc[g] \in {"csignal", "csem"} /\ pc'[g] \in {"csignal", "csem", "idle", "blocking"}
        /\ waiters' = waiters /\ left' = left
    BY <1>0, <1>9 DEF DestroySignal, CloseSleep, CloseAwake, Back, muvars
  <2>2. \/ SemInc(g, CSema) \/ SemDequeue(g, CSema) \/ SemNoWaiter(g, CSema)
        \/ SemReady(g, CSema, FALSE) \/ SemPark(g, CSema, FALSE) \/ SemTake(g, CSema)
    BY <1>9 DEF DestroySignal, CloseSleep, CloseAwake
  <2>3. CSema \in Addr /\ \A m \in Modes : mutexSema(m) \in Addr \ {CSema}
    BY Numbers DEF Modes
  <2>4. \A m \in Modes : semval'[mutexSema(m)] = semval[mutexSema(m)]
    BY <1>0, <2>2, <2>3, SemEffects
  <2>5. QED  BY <2>1, <2>4 DEF NoCount, Sleeps, Wakes
<1>10. CASE ~SemAct(g) /\ ~(Lock(g) \/ LockAgain(g) \/ Unlock(g) \/ Close(g))
  <2> USE DEF muvars
  <2>1. CASE Prepare(g) \/ Reset(g) \/ SysReturn(g) \/ PollWait(g)
    BY <1>0, <1>1, <1>2, <1>10, <2>1 DEF Prepare, Reset, SysReturn, PollWait
  <2>2. CASE Block(g) \/ Recheck(g) \/ Park(g) \/ Unpark(g)
    BY <1>0, <1>1, <1>2, <1>10, <2>2 DEF Block, Recheck, Park, Unpark
  <2>3. CASE Incref(g) \/ SetDeadline(g) \/ SetBlocking(g) \/ Decref(g)
    BY <1>0, <1>1, <1>2, <1>10, <2>3 DEF Incref, SetDeadline, SetBlocking, incref, Decref, decref, Back
  <2>4. CASE MiscReturn(g) \/ PollSetDeadline(g) \/ PollUnblock(g) \/ SetBlockingStore(g) \/ SetNonblock(g)
    BY <1>0, <1>1, <1>2, <1>10, <2>4
       DEF MiscReturn, PollSetDeadline, PollUnblock, SetBlockingStore, SetNonblock
  <2>5. CASE Evict(g) \/ Destroy(g) \/ CloseFunc(g) \/ CloseBlocking(g)
    BY <1>0, <1>1, <1>2, <1>10, <2>5 DEF Evict, Destroy, CloseFunc, CloseBlocking
  <2>6. QED  BY <1>10, <2>1, <2>2, <2>3, <2>4, <2>5 DEF Act, BeginCall, Step, SemAct, Modes
<1>11. QED  BY <1>3, <1>4, <1>5, <1>6, <1>7, <1>8, <1>9, <1>10 DEF SemAct

\* Only Close writes and reads what increfAndClose has to wake.
LEMMA StepClosing ==
  ASSUME TypeOK, NEW g \in Goroutines, Act(g),
         pc[g] \in {"cwake_r", "cwake_w"} \/ pc'[g] \in {"cwake_r", "cwake_w"} \/ left' # left
  PROVE  Close(g) \/ \E n \in Modes : CloseWake(g, n)
<1>0. pc \in [Goroutines -> PCs] /\ op \in [Goroutines -> Ops]
  BY DEF TypeOK
<1>1. CASE Lock(g) \/ LockAgain(g) \/ LockSleep(g) \/ LockAwake(g) \/ Unlock(g) \/ UnlockWake(g)
  BY <1>0, <1>1 DEF Lock, LockAgain, TryLock, LockSleep, LockAwake, Unlock, UnlockWake, Unlocked
<1>2. CASE Prepare(g) \/ Reset(g) \/ SysReturn(g) \/ PollWait(g)
  BY <1>0, <1>2 DEF Prepare, Reset, SysReturn, PollWait
<1>3. CASE Block(g) \/ Recheck(g) \/ Park(g) \/ Unpark(g)
  BY <1>0, <1>3 DEF Block, Recheck, Park, Unpark
<1>4. CASE \/ Incref(g) \/ SetDeadline(g) \/ SetBlocking(g) \/ MiscReturn(g) \/ PollSetDeadline(g)
           \/ PollUnblock(g) \/ SetBlockingStore(g) \/ SetNonblock(g) \/ Decref(g)
  BY <1>0, <1>4 DEF Incref, SetDeadline, SetBlocking, MiscReturn, PollSetDeadline,
                    PollUnblock, SetBlockingStore, SetNonblock, Decref, Back
<1>5. CASE \/ Evict(g) \/ Destroy(g) \/ CloseFunc(g) \/ DestroySignal(g)
           \/ CloseBlocking(g) \/ CloseSleep(g) \/ CloseAwake(g)
  BY <1>0, <1>5 DEF Evict, Destroy, CloseFunc, DestroySignal, CloseBlocking, CloseSleep, CloseAwake, Back
<1>6. QED  BY <1>1, <1>2, <1>3, <1>4, <1>5 DEF Act, BeginCall, Step, Modes

\* When a goroutine calls Close with success, no earlier one is waking waiters.
LEMMA FirstClose ==
  ASSUME OpsByPC, OneCloser, CloseWakesAll, ~Closed, TypeOK
  PROVE  /\ \A h \in Goroutines : pc[h] \notin {"cwake_r", "cwake_w"}
         /\ \A m \in Modes : left[m] = 0
<1>1. \A h \in Goroutines : pc[h] \notin {"cwake_r", "cwake_w"}
  BY DEF OpsByPC, OneCloser
<1>2. QED  BY <1>1, Numbers DEF CloseWakesAll

\* In increfAndClose there is still a waiter to wake for each release.
LEMMA CloseWakesOne ==
  ASSUME TypeOK, CloseWakesAll, NEW g \in Goroutines, NEW n \in Modes, CloseWake(g, n), sst[g] = "running"
  PROVE  left[n] > 0
BY DEF CloseWake, CloseWakesAll, Modes

\* A count that leaves the word is one that a waker, Close or the semaphore has.
LEMMA StepSleepersCounted ==
  ASSUME TypeOK, OpsByPC, OneCloser, SemConsistent(Acquiring, Releasing),
         SleepersAreCounted, CloseWakesAll, NEW g \in Goroutines, Act(g), pc'[g] # "panic"
  PROVE  SleepersAreCounted'
<1> SUFFICES ASSUME NEW m \in Modes
             PROVE  Cardinality(Sleepers(m))' = waiters'[m] + Cardinality(Wakers(m))' + left'[m] + semval'[mutexSema(m)]
  BY DEF SleepersAreCounted, mutexSema
<1> DEFINE a == mutexSema(m)
           S == Cardinality(Sleepers(m))
           SS == Cardinality(Sleepers(m))'
           W == Cardinality(Wakers(m))
           WW == Cardinality(Wakers(m))'
<1>1. /\ S \in Nat /\ W \in Nat
      /\ SS = S - One(Sleeps(g, m)) + One(Sleeps(g, m)')
      /\ WW = W - One(Wakes(g, m)) + One(Wakes(g, m)')
      /\ S = waiters[m] + W + left[m] + semval[a]
  BY StepSleepers DEF SleepersAreCounted
<1>2. /\ a \in Addr /\ semval[a] \in Nat /\ waiters[m] \in Nat /\ left[m] \in Nat
      /\ \A n \in Modes : mutexSema(n) \in Addr /\ (mutexSema(n) = a => n = m)
      /\ SemTypeOK /\ waiters \in [Modes -> 0 .. MaxCount] /\ left \in [Modes -> 0 .. MaxCount]
  BY Numbers DEF TypeOK, MuTypeOK
<1> HIDE DEF S, SS, W, WW, a
<1>3. SUFFICES SS = waiters'[m] + WW + left'[m] + semval'[a]
  BY DEF SS, WW, a
<1>4. CASE NoCount(g)
  <2>1. /\ waiters' = waiters /\ left' = left /\ semval'[a] = semval[a]
        /\ One(Sleeps(g, m)') = One(Sleeps(g, m)) /\ One(Wakes(g, m)') = One(Wakes(g, m))
        /\ One(Sleeps(g, m)) \in Nat /\ One(Wakes(g, m)) \in Nat
    BY <1>4 DEF NoCount, One, a
  <2>2. QED  BY <1>1, <1>2, <2>1
<1>5. CASE Close(g)
  <2>1. pc \in [Goroutines -> PCs] /\ op \in [Goroutines -> Ops]
    BY DEF TypeOK
  <2>2. /\ pc[g] = "idle" /\ pc'[g] \in {"cwake_r", "cwake_w", "evict"}
        /\ waiters'[m] = 0 /\ left'[m] = waiters[m] /\ semval' = semval /\ ~Closed
    BY <1>5, <2>1 DEF Close, CloseLabel, increfAndClose, semvars
  <2>3. left[m] = 0
    BY <2>2, FirstClose
  <2>4. One(Sleeps(g, m)) = 0 /\ One(Sleeps(g, m)') = 0 /\ One(Wakes(g, m)) = 0 /\ One(Wakes(g, m)') = 0
    BY <2>2 DEF One, Sleeps, Wakes
  <2>5. QED  BY <1>1, <1>2, <2>2, <2>3, <2>4
<1>6. ASSUME NEW n \in Modes, CountStep(g, n)
      PROVE  SS = waiters'[m] + WW + left'[m] + semval'[a]
  <2> DEFINE e == IF n = m THEN 1 ELSE 0
             b == mutexSema(n)
  <2>0. /\ b \in Addr /\ (n = m <=> b = a)
        /\ SemInc(g, b) => sst[g] = "running" /\ sst'[g] = "xadded"
                            /\ semval'[b] = semval[b] + 1 /\ \A c \in Addr \ {b} : semval'[c] = semval[c]
        /\ SemTake(g, b) => semval'[b] = semval[b] - 1 /\ \A c \in Addr \ {b} : semval'[c] = semval[c]
    <3>1. b \in Addr /\ (n = m <=> b = a)
      BY <1>2 DEF a
    <3> HIDE DEF b
    <3>2. QED  BY <1>2, <3>1, SemEffects
  <2>1. CASE /\ rwlockWait(n) /\ pc[g] \notin SemPCs /\ pc'[g] = "sem" /\ op'[g] = n
             /\ left' = left /\ semval' = semval
    <3>1. One(Sleeps(g, m)) = 0 /\ One(Sleeps(g, m)') = e /\ One(Wakes(g, m)) = 0 /\ One(Wakes(g, m)') = 0
      BY <2>1 DEF One, Sleeps, Wakes, SemPCs
    <3>2. waiters'[m] = waiters[m] + e
      BY <1>2, <2>1 DEF rwlockWait
    <3>3. QED  BY <1>1, <1>2, <2>1, <3>1, <3>2
  <2>2. CASE /\ Unlock(g) /\ op'[g] = n /\ waiters[n] > 0 /\ pc'[g] \in {"wake", "wakelast"}
             /\ waiters' = [waiters EXCEPT ![n] = @ - 1] /\ sst'[g] = "running"
             /\ left' = left /\ semval' = semval
    <3>1. One(Sleeps(g, m)) = 0 /\ One(Sleeps(g, m)') = 0 /\ One(Wakes(g, m)) = 0 /\ One(Wakes(g, m)') = e
      BY <2>2 DEF One, Sleeps, Wakes, Unlock
    <3>2. waiters'[m] = waiters[m] - e
      BY <1>2, <2>2
    <3>3. QED  BY <1>1, <1>2, <2>2, <3>1, <3>2
  <2>3. CASE /\ op[g] = n /\ pc[g] = "sem" /\ pc'[g] = "lock" /\ SemTake(g, mutexSema(n))
             /\ waiters' = waiters /\ left' = left
    <3>1. One(Sleeps(g, m)) = e /\ One(Sleeps(g, m)') = 0 /\ One(Wakes(g, m)) = 0 /\ One(Wakes(g, m)') = 0
      BY <2>3 DEF One, Sleeps, Wakes
    <3>2. semval'[a] = semval[a] - e
      BY <1>2, <2>0, <2>3
    <3>3. QED  BY <1>1, <1>2, <2>3, <3>1, <3>2
  <2>4. CASE /\ op[g] = n /\ pc[g] \in {"wake", "wakelast"} /\ pc' = pc /\ op' = op
             /\ SemInc(g, mutexSema(n)) /\ waiters' = waiters /\ left' = left
    <3>1. sst[g] = "running" /\ sst'[g] = "xadded" /\ semval'[a] = semval[a] + e
      BY <1>2, <2>0, <2>4
    <3>2. One(Sleeps(g, m)) = 0 /\ One(Sleeps(g, m)') = 0 /\ One(Wakes(g, m)) = e /\ One(Wakes(g, m)') = 0
      BY <2>4, <3>1 DEF One, Sleeps, Wakes
    <3>3. QED  BY <1>1, <1>2, <2>4, <3>1, <3>2
  <2>5. CASE /\ CloseWake(g, n) /\ pc' = pc /\ op' = op /\ pc[g] \in {"cwake_r", "cwake_w"}
             /\ SemInc(g, mutexSema(n)) /\ waiters' = waiters /\ left' = [left EXCEPT ![n] = @ - 1]
    <3>1. sst[g] = "running" /\ semval'[a] = semval[a] + e
      BY <1>2, <2>0, <2>5
    <3>2. left[n] > 0
      BY <2>5, <3>1, CloseWakesOne
    <3>3. left'[m] = left[m] - e
      BY <1>2, <2>5, <3>2
    <3>4. One(Sleeps(g, m)) = 0 /\ One(Sleeps(g, m)') = 0 /\ One(Wakes(g, m)) = 0 /\ One(Wakes(g, m)') = 0
      BY <2>5 DEF One, Sleeps, Wakes
    <3>5. QED  BY <1>1, <1>2, <2>5, <3>1, <3>3, <3>4
  <2>6. QED  BY <1>6, <2>1, <2>2, <2>3, <2>4, <2>5 DEF CountStep
<1>7. QED  BY <1>4, <1>5, <1>6, StepCount

\* increfAndClose wakes each waiter that it has taken out of the word.
LEMMA StepCloseWakesAll ==
  ASSUME TypeOK, OpsByPC, RefsAreHeld, OneCloser, SemConsistent(Acquiring, Releasing), CloseWakesAll,
         NEW g \in Goroutines, Act(g), pc'[g] # "panic"
  PROVE  CloseWakesAll'
<1>0. /\ pc \in [Goroutines -> PCs] /\ op \in [Goroutines -> Ops] /\ SemTypeOK
      /\ waiters \in [Modes -> 0 .. MaxCount] /\ left \in [Modes -> 0 .. MaxCount]
  BY DEF TypeOK, MuTypeOK
<1>1. /\ \A h \in Goroutines \ {g} : pc'[h] = pc[h] /\ op'[h] = op[h]
      /\ \A h \in Goroutines \ {g} : sst'[h] = "running" <=> sst[h] = "running"
  BY StepMoves, NextSem
<1>2. Closed' => \A m \in Modes : waiters'[m] = 0
  <2> SUFFICES ASSUME Closed', NEW m \in Modes
               PROVE  waiters'[m] = 0
    OBVIOUS
  <2>1. CASE ~Closed
    <3>1. increfAndClose
      BY <2>1, StepWord, StepFlags
    <3>2. QED  BY <3>1 DEF increfAndClose
  <2>2. CASE Closed
    <3>1. \A n \in Modes : waiters[n] = 0
      BY <2>2 DEF CloseWakesAll
    <3>2. ~Close(g)
      BY <2>2 DEF Close, increfAndClose
    <3>3. waiters' = waiters
      BY <2>2, <3>1, <3>2, StepCount DEF NoCount, CountStep, rwlockWait
    <3>4. QED  BY <3>1, <3>3
  <2>3. QED  BY <2>1, <2>2
<1>3. CASE Close(g)
  <2>1. ~Closed /\ left' = waiters /\ pc'[g] = CloseLabel(waiters)
    BY <1>0, <1>3 DEF Close, increfAndClose
  <2>2. \A h \in Goroutines : pc[h] \notin {"cwake_r", "cwake_w"}
    BY <2>1, FirstClose
  <2>3. \A m \in Modes : left'[m] > 0 => pc'[g] \in {"cwake_r", "cwake_w"}
    BY <2>1 DEF CloseLabel, Modes
  <2>4. (pc'[g] = "cwake_r" => left'["r"] > 0) /\ (pc'[g] = "cwake_w" => left'["w"] > 0)
    BY <2>1 DEF CloseLabel
  <2>5. QED  BY <1>1, <1>2, <2>2, <2>3, <2>4 DEF CloseWakesAll
<1>4. ASSUME NEW n \in Modes, CloseWake(g, n)
      PROVE  CloseWakesAll'
  <2>1. /\ mutexSema(n) \in Addr /\ pc[g] \in {"cwake_r", "cwake_w"}
    BY <1>4, Numbers DEF CloseWake
  <2>2. \A h \in Goroutines \ {g} : pc'[h] \notin {"cwake_r", "cwake_w"}
    BY <1>1, <2>1 DEF OpsByPC, OneCloser
  <2>3. CASE SemInc(g, mutexSema(n)) /\ pc' = pc
    BY <1>0, <1>2, <2>1, <2>2, <2>3, SemEffects DEF CloseWakesAll
  <2>4. CASE SemDequeue(g, mutexSema(n)) /\ pc' = pc
    BY <1>0, <1>2, <2>1, <2>2, <2>4, SemEffects DEF CloseWakesAll
  <2>5. CASE pc'[g] = CloseLabel(left) /\ left' = left
    <3>1. \A m \in Modes : left'[m] > 0 => pc'[g] \in {"cwake_r", "cwake_w"}
      BY <2>5 DEF CloseLabel, Modes
    <3>2. (pc'[g] = "cwake_r" => left'["r"] > 0) /\ (pc'[g] = "cwake_w" => left'["w"] > 0)
      BY <2>5 DEF CloseLabel
    <3>3. QED  BY <1>2, <2>2, <3>1, <3>2 DEF CloseWakesAll
  <2>6. CloseLabel(left) # "idle"
    BY DEF CloseLabel
  <2>7. QED  BY <1>0, <1>4, <2>3, <2>4, <2>5, <2>6 DEF CloseWake
<1>5. CASE ~Close(g) /\ ~\E n \in Modes : CloseWake(g, n)
  <2>1. pc[g] \notin {"cwake_r", "cwake_w"} /\ pc'[g] \notin {"cwake_r", "cwake_w"} /\ left' = left
    BY <1>5, StepClosing
  <2>2. QED  BY <1>1, <1>2, <2>1 DEF CloseWakesAll
<1>6. QED  BY <1>3, <1>4, <1>5

\* Only Unlock clears a lock's bit, and its goroutine wakes a waiter if there is one.
LEMMA StepUnlocks ==
  ASSUME TypeOK, OpsByPC, SemConsistent(Acquiring, Releasing),
         NEW g \in Goroutines, Act(g), pc'[g] # "panic", NEW m \in Modes, m \in flags, m \notin flags', waiters'[m] > 0
  PROVE  Wakes(g, m)'
<1>0. /\ pc \in [Goroutines -> PCs] /\ op \in [Goroutines -> Ops] /\ waiters \in [Modes -> 0 .. MaxCount]
  BY DEF TypeOK, MuTypeOK
<1> USE DEF muvars
<1>1. CASE Unlock(g)
  <2>1. rwunlock(op[g]) /\ pc[g] = "unlock"
    BY <1>0, <1>1 DEF Unlock
  <2>2. op[g] = m /\ waiters[m] > 0
    BY <1>0, <2>1, Numbers DEF rwunlock
  <2>3. pc'[g] \in {"wake", "wakelast"} /\ op'[g] = op[g]
    BY <1>0, <1>1, <2>1, <2>2 DEF Unlock
  <2>4. sst'[g] = "running"
    BY <2>1, StepSem DEF SemPCs
  <2>5. QED  BY <2>2, <2>3, <2>4 DEF Wakes
<1>2. CASE Lock(g) \/ LockAgain(g)
  <2>1. flags \subseteq flags'
    BY <1>2 DEF Lock, LockAgain, TryLock, rwlock, rwlockWait, rwlockFails
  <2>2. QED  BY <2>1
<1>3. CASE LockSleep(g) \/ LockAwake(g) \/ UnlockWake(g) \/ Prepare(g) \/ Reset(g) \/ SysReturn(g) \/ PollWait(g)
  BY <1>3 DEF LockSleep, LockAwake, UnlockWake, Prepare, Reset, SysReturn, PollWait
<1>4. CASE Block(g) \/ Recheck(g) \/ Park(g) \/ Unpark(g)
  BY <1>4 DEF Block, Recheck, Park, Unpark
<1>5. CASE Incref(g) \/ SetDeadline(g) \/ SetBlocking(g) \/ Decref(g) \/ Close(g)
  BY <1>5 DEF Incref, SetDeadline, SetBlocking, incref, Decref, decref, Close, increfAndClose
<1>6. CASE MiscReturn(g) \/ PollSetDeadline(g) \/ PollUnblock(g) \/ SetBlockingStore(g) \/ SetNonblock(g)
  BY <1>6 DEF MiscReturn, PollSetDeadline, PollUnblock, SetBlockingStore, SetNonblock
<1>7. CASE \/ (\E n \in Modes : CloseWake(g, n)) \/ Evict(g) \/ Destroy(g) \/ CloseFunc(g) \/ DestroySignal(g)
           \/ CloseBlocking(g) \/ CloseSleep(g) \/ CloseAwake(g)
  BY <1>7 DEF CloseWake, Evict, Destroy, CloseFunc, DestroySignal, CloseBlocking, CloseSleep, CloseAwake
<1>8. QED  BY <1>1, <1>2, <1>3, <1>4, <1>5, <1>6, <1>7 DEF Act, BeginCall, Step, Modes

\* With a limit that the goroutines cannot reach, one that was woken takes the
\* lock, finds it taken, or finds the file closed.
LEMMA WokenTakesPart ==
  ASSUME TypeOK, OpsByPC, RefsAreHeld, CloseWakesAll, Cardinality(Goroutines) <= MaxCount,
         NEW g \in Goroutines, Act(g), pc[g] = "lock", NEW m \in Modes, op[g] = m, waiters'[m] > 0
  PROVE  m \in flags'
<1>1. TryLock(g, m) /\ pc \in [Goroutines -> PCs]
  <2>1. pc \in [Goroutines -> PCs]
    BY DEF TypeOK
  <2>2. LockAgain(g)
    <3>1. CASE Lock(g) \/ LockSleep(g) \/ LockAwake(g) \/ Unlock(g) \/ UnlockWake(g)
      BY <3>1 DEF Lock, LockSleep, LockAwake, Unlock, UnlockWake
    <3>2. CASE \/ Prepare(g) \/ Reset(g) \/ SysReturn(g) \/ PollWait(g)
               \/ Block(g) \/ Recheck(g) \/ Park(g) \/ Unpark(g)
      BY <3>2 DEF Prepare, Reset, SysReturn, PollWait, Block, Recheck, Park, Unpark
    <3>3. CASE \/ Incref(g) \/ SetDeadline(g) \/ SetBlocking(g) \/ MiscReturn(g) \/ PollSetDeadline(g)
               \/ PollUnblock(g) \/ SetBlockingStore(g) \/ SetNonblock(g) \/ Decref(g) \/ Close(g)
      BY <3>3 DEF Incref, SetDeadline, SetBlocking, MiscReturn, PollSetDeadline,
                  PollUnblock, SetBlockingStore, SetNonblock, Decref, Close
    <3>4. CASE \/ (\E n \in Modes : CloseWake(g, n)) \/ Evict(g) \/ Destroy(g) \/ CloseFunc(g)
               \/ DestroySignal(g) \/ CloseBlocking(g) \/ CloseSleep(g) \/ CloseAwake(g)
      BY <3>4 DEF CloseWake, Evict, Destroy, CloseFunc, DestroySignal, CloseBlocking, CloseSleep, CloseAwake
    <3>5. QED  BY <3>1, <3>2, <3>3, <3>4 DEF Act, BeginCall, Step, Modes
  <2>3. QED  BY <2>1, <2>2 DEF LockAgain
<1>2. refs < MaxCount
  <2>1. Users \subseteq Goroutines \ {g}
    BY DEF Users, Using, UsePCs, IOPCs
  <2>2. /\ IsFiniteSet(Goroutines \ {g}) /\ Cardinality(Goroutines \ {g}) = Cardinality(Goroutines) - 1
        /\ Cardinality(Goroutines) \in Nat
    BY FDAssumption, FS_RemoveElement, FS_CardinalityType
  <2>3. Cardinality(Users) <= Cardinality(Goroutines \ {g}) /\ Cardinality(Users) \in Nat
    <3>1. Cardinality(Users) <= Cardinality(Goroutines \ {g})
      BY <2>1, <2>2, FS_Subset
    <3>2. IsFiniteSet(Users)
      BY <2>1, <2>2, FS_Subset
    <3>3. QED  BY <3>1, <3>2, FS_CardinalityType
  <2>4. QED  BY <2>2, <2>3, FdMutexAssumption DEF RefsAreHeld
<1>3. Closed => waiters[m] = 0
  BY DEF CloseWakesAll
<1>4. MaxCount \in Nat /\ refs \in Nat /\ waiters[m] \in Nat
  BY Numbers, FdMutexAssumption DEF TypeOK, MuTypeOK
<1>5. CASE rwlock(m) \/ rwlockWait(m)
  BY <1>5 DEF rwlock, rwlockWait
<1>6. CASE rwlockFails(m)
  BY <1>2, <1>3, <1>4, <1>6 DEF rwlockFails, muvars
<1>7. QED  BY <1>1, <1>5, <1>6 DEF TryLock

\* Somebody is to wake the waiters in the word as long as there are any.
LEMMA StepWaitersAwaited ==
  ASSUME TypeOK, OpsByPC, RefsAreHeld, OneCloser, SemConsistent(Acquiring, Releasing), CloseWakesAll,
         WaitersAreAwaited, NEW g \in Goroutines, Act(g), pc'[g] # "panic"
  PROVE  WaitersAreAwaited'
<1> SUFFICES ASSUME Cardinality(Goroutines) <= MaxCount, NEW m \in Modes, waiters'[m] > 0
             PROVE  \/ m \in flags' \/ semval'[mutexSema(m)] > 0 \/ Wakers(m)' # {}
                    \/ \E h \in Goroutines : pc'[h] = "lock" /\ op'[h] = m
  BY DEF WaitersAreAwaited, mutexSema
<1> DEFINE a == mutexSema(m)
<1>0. /\ SemTypeOK /\ a \in Addr /\ semval[a] \in Nat /\ waiters[m] \in Nat /\ waiters \in [Modes -> 0 .. MaxCount]
      /\ \A n \in Modes : mutexSema(n) \in Addr /\ (mutexSema(n) = a => n = m)
  BY Numbers DEF TypeOK, MuTypeOK
<1>1. \A h \in Goroutines \ {g} :
        pc'[h] = pc[h] /\ op'[h] = op[h] /\ (sst'[h] = "running" <=> sst[h] = "running")
  BY StepMoves, NextSem
<1>2. ASSUME Wakes(g, m)'
      PROVE  Wakers(m)' # {}
  BY <1>2 DEF Wakes, Wakers
<1>3. CASE waiters[m] = 0
  <2>1. ~Close(g)
    BY DEF Close, increfAndClose
  <2>2. ~NoCount(g)
    BY <1>3 DEF NoCount
  <2>3. PICK n \in Modes : CountStep(g, n)
    BY <2>1, <2>2, StepCount
  <2>4. rwlockWait(n) /\ n = m
    BY <1>0, <1>3, <2>3 DEF CountStep, rwlockWait
  <2>5. QED  BY <2>4 DEF rwlockWait
<1>4. CASE waiters[m] > 0 /\ m \in flags
  BY <1>2, <1>4, StepUnlocks
<1>5. CASE semval[a] > 0
  <2>1. CASE NoCount(g)
    BY <1>5, <2>1 DEF NoCount
  <2>2. CASE Close(g)
    BY <2>2 DEF Close, increfAndClose
  <2>3. ASSUME NEW n \in Modes, CountStep(g, n)
        PROVE  semval'[a] > 0 \/ (pc'[g] = "lock" /\ op'[g] = m)
    <3> DEFINE b == mutexSema(n)
    <3>1. /\ b \in Addr /\ (n = m <=> b = a)
          /\ SemInc(g, b) => semval'[b] = semval[b] + 1 /\ \A c \in Addr \ {b} : semval'[c] = semval[c]
          /\ SemTake(g, b) => \A c \in Addr \ {b} : semval'[c] = semval[c]
      BY <1>0, SemEffects
    <3>2. \/ semval' = semval \/ SemInc(g, b)
          \/ SemTake(g, b) /\ pc'[g] = "lock" /\ op'[g] = n
      BY <2>3 DEF CountStep
    <3> HIDE DEF a, b
    <3>3. QED  BY <1>0, <1>5, <3>1, <3>2
  <2>4. QED  BY <2>1, <2>2, <2>3, StepCount
<1>6. ASSUME NEW h \in Goroutines, Wakes(h, m)
      PROVE  Wakers(m)' # {} \/ semval'[a] > 0
  <2>1. CASE h # g
    BY <1>1, <1>6, <2>1 DEF Wakes, Wakers
  <2>2. CASE h = g /\ NoCount(g)
    BY <1>2, <1>6, <2>2 DEF NoCount
  <2>3. CASE Close(g)
    BY <2>3 DEF Close, increfAndClose
  <2>4. ASSUME h = g, NEW n \in Modes, CountStep(g, n)
        PROVE  semval'[a] > 0
    <3>1. SemInc(g, mutexSema(n)) /\ n = m
      BY <1>6, <2>4 DEF CountStep, Wakes, SemPCs, Unlock
    <3>2. semval'[a] = semval[a] + 1
      BY <1>0, <3>1, SemEffects
    <3>3. QED  BY <1>0, <3>2
  <2>5. QED  BY <2>1, <2>2, <2>3, <2>4, StepCount
<1>7. ASSUME NEW h \in Goroutines, pc[h] = "lock", op[h] = m
      PROVE  m \in flags' \/ (pc'[h] = "lock" /\ op'[h] = m)
  <2>1. CASE h # g
    BY <1>1, <1>7, <2>1
  <2>2. CASE h = g
    BY <1>7, <2>2, WokenTakesPart
  <2>3. QED  BY <2>1, <2>2
<1>8. waiters[m] > 0 =>
        \/ m \in flags \/ semval[a] > 0 \/ (\E h \in Goroutines : Wakes(h, m))
        \/ \E h \in Goroutines : pc[h] = "lock" /\ op[h] = m
  BY DEF WaitersAreAwaited, Wakers, Wakes
<1>9. QED  BY <1>0, <1>3, <1>4, <1>5, <1>6, <1>7, <1>8

-----------------------------------------------------------------------------
(* The signal that Close waits for. *)

\* Only Close takes the count of csema.
LEMMA StepSignal ==
  ASSUME TypeOK, OpsByPC, SemConsistent(Acquiring, Releasing), NEW g \in Goroutines, Act(g)
  PROVE  /\ semval[CSema] > 0 => semval'[CSema] > 0 \/ CloseAwake(g)
         /\ pc[g] = "csignal" /\ sst[g] = "running" => semval'[CSema] > 0
         /\ pc[g] = "closefn" => pc'[g] = "csignal" /\ sst'[g] = "running"
<1>0. /\ SemTypeOK /\ CSema \in Addr /\ semval[CSema] \in Nat
      /\ \A n \in Modes : mutexSema(n) \in Addr \ {CSema}
      /\ pc \in [Goroutines -> PCs]
  BY Numbers DEF TypeOK, Modes
<1>1. ASSUME NEW b \in Addr \ {CSema},
             \/ SemInc(g, b) \/ SemDequeue(g, b) \/ SemNoWaiter(g, b) \/ SemReady(g, b, FALSE)
             \/ SemPark(g, b, FALSE) \/ SemTake(g, b)
      PROVE  semval'[CSema] = semval[CSema]
  BY <1>0, <1>1, SemEffects
<1>2. CASE LockSleep(g) \/ LockAwake(g) \/ UnlockWake(g)
  <2>1. op[g] \in Modes /\ pc[g] \notin {"csignal", "closefn"}
    BY <1>2 DEF LockSleep, LockAwake, UnlockWake, OpsByPC
  <2>2. semval'[CSema] = semval[CSema]
    BY <1>0, <1>1, <1>2, <2>1 DEF LockSleep, LockAwake, UnlockWake
  <2>3. QED  BY <2>1, <2>2
<1>3. ASSUME NEW n \in Modes, CloseWake(g, n)
      PROVE  semval'[CSema] = semval[CSema] /\ pc[g] \notin {"csignal", "closefn"}
  BY <1>0, <1>1, <1>3 DEF CloseWake
<1>4. CASE DestroySignal(g)
  <2>1. pc[g] = "csignal"
    BY <1>4 DEF DestroySignal
  <2>2. \/ SemInc(g, CSema) \/ SemDequeue(g, CSema) \/ SemNoWaiter(g, CSema) \/ SemReady(g, CSema, FALSE)
    BY <1>4 DEF DestroySignal
  <2>3. \/ sst[g] = "running" /\ semval'[CSema] = semval[CSema] + 1
        \/ sst[g] # "running" /\ semval'[CSema] = semval[CSema]
    BY <1>0, <2>2, SemEffects
  <2>4. QED  BY <1>0, <2>1, <2>3
<1>5. CASE CloseSleep(g)
  BY <1>0, <1>5, SemEffects DEF CloseSleep
<1>6. CASE CloseAwake(g)
  BY <1>6 DEF CloseAwake
<1>7. CASE ~SemAct(g)
  <2>1. semval' = semval /\ pc[g] \notin SemPCs
    BY <1>7, OutsideActs
  <2>2. pc[g] = "closefn" => pc'[g] = "csignal"
    <3>1. CASE Lock(g) \/ LockAgain(g) \/ Unlock(g)
      BY <3>1 DEF Lock, LockAgain, TryLock, Unlock
    <3>2. CASE \/ Prepare(g) \/ Reset(g) \/ SysReturn(g) \/ PollWait(g)
               \/ Block(g) \/ Recheck(g) \/ Park(g) \/ Unpark(g)
      BY <3>2 DEF Prepare, Reset, SysReturn, PollWait, Block, Recheck, Park, Unpark
    <3>3. CASE \/ Incref(g) \/ SetDeadline(g) \/ SetBlocking(g) \/ MiscReturn(g) \/ PollSetDeadline(g)
               \/ PollUnblock(g) \/ SetBlockingStore(g) \/ SetNonblock(g) \/ Decref(g)
      BY <3>3 DEF Incref, SetDeadline, SetBlocking, MiscReturn, PollSetDeadline,
                  PollUnblock, SetBlockingStore, SetNonblock, Decref
    <3>4. CASE Close(g) \/ Evict(g) \/ Destroy(g) \/ CloseBlocking(g)
      BY <3>4 DEF Close, Evict, Destroy, CloseBlocking
    <3>5. CASE CloseFunc(g)
      BY <1>0, <3>5 DEF CloseFunc
    <3>6. QED  BY <1>7, <3>1, <3>2, <3>3, <3>4, <3>5 DEF Act, BeginCall, Step, SemAct, Modes
  <2>3. sst'[g] = "running"
    BY <2>1, StepSem
  <2>4. QED  BY <2>1, <2>2, <2>3 DEF SemPCs
<1>8. QED  BY <1>2, <1>3, <1>4, <1>5, <1>6, <1>7 DEF SemAct

\* A destruction is signalled, once, to the Close that waits for it.
LEMMA StepSignalToCome ==
  ASSUME TypeOK, OpsByPC, RefsAreHeld, OneCloser, DestroyedOnce, SemConsistent(Acquiring, Releasing),
         SignalToCome, NEW g \in Goroutines, Act(g), pc'[g] # "panic"
  PROVE  SignalToCome'
<1> SUFFICES ASSUME NEW f \in Goroutines, op'[f] = "close", sysfd' = "closed"
             PROVE  semval'[CSema] > 0 \/ \E h \in Goroutines : pc'[h] = "csignal" /\ sst'[h] = "running"
  BY DEF SignalToCome
<1>1. \A h \in Goroutines \ {g} :
        pc'[h] = pc[h] /\ op'[h] = op[h] /\ (sst'[h] = "running" <=> sst[h] = "running")
  BY StepMoves, NextSem
<1>2. CASE pc[g] = "closefn"
  BY <1>2, StepSignal
<1>3. CASE pc[g] # "closefn"
  <2>1. sysfd = "closed"
    BY <1>3, StepDescriptor
  <2>2. Closed
    BY <2>1 DEF DestroyedOnce
  <2>3. op[f] = "close"
    <3>1. CASE f # g
      BY <1>1, <3>1
    <3>2. CASE f = g
      <4>1. op'[g] = "close" => op[g] = "close" \/ increfAndClose
        BY StepOpClose
      <4>2. QED  BY <2>2, <3>2, <4>1 DEF increfAndClose
    <3>3. QED  BY <3>1, <3>2
  <2>4. ~CloseAwake(g)
    <3> SUFFICES ASSUME CloseAwake(g)  PROVE  FALSE
      OBVIOUS
    <3>1. op[g] = "close" /\ op'[g] = "ref"
      BY DEF CloseAwake, OpsByPC, TypeOK
    <3>2. f = g
      BY <2>3, <3>1 DEF OneCloser
    <3>3. QED  BY <3>1, <3>2
  <2>5. semval[CSema] > 0 \/ \E h \in Goroutines : pc[h] = "csignal" /\ sst[h] = "running"
    BY <2>1, <2>3 DEF SignalToCome
  <2>6. QED  BY <1>1, <2>4, <2>5, StepSignal
<1>4. QED  BY <1>2, <1>3

-----------------------------------------------------------------------------
(* The invariant. *)

\* Close wakes no more waiters than it has found.
LEMMA StepLeft ==
  ASSUME TypeOK, CloseWakesAll, NEW g \in Goroutines, Act(g)
  PROVE  left' \in [Modes -> 0 .. MaxCount]
<1>0. left \in [Modes -> 0 .. MaxCount] /\ waiters \in [Modes -> 0 .. MaxCount] /\ SemTypeOK /\ MaxCount \in Nat
  BY FdMutexAssumption DEF TypeOK, MuTypeOK
<1>1. CASE Close(g)
  BY <1>0, <1>1 DEF Close
<1>2. ASSUME NEW n \in Modes, CloseWake(g, n)
      PROVE  left' \in [Modes -> 0 .. MaxCount]
  <2>1. CASE SemInc(g, mutexSema(n)) /\ left' = [left EXCEPT ![n] = @ - 1]
    <3>1. left[n] > 0
      BY <1>0, <1>2, <2>1, CloseWakesOne, SemEffects, Numbers
    <3>2. left[n] \in 0 .. MaxCount /\ left[n] - 1 \in 0 .. MaxCount
      BY <1>0, <3>1
    <3>3. QED  BY <1>0, <2>1, <3>2
  <2>2. QED  BY <1>0, <1>2, <2>1 DEF CloseWake
<1>3. CASE ~Close(g) /\ ~\E n \in Modes : CloseWake(g, n)
  BY <1>0, <1>3, StepClosing
<1>4. QED  BY <1>1, <1>2, <1>3

\* The counts of waiters stay below their limit.
LEMMA StepWaiters ==
  ASSUME TypeOK, OpsByPC, SemConsistent(Acquiring, Releasing), NEW g \in Goroutines, Act(g), pc'[g] # "panic"
  PROVE  waiters' \in [Modes -> 0 .. MaxCount]
<1>0. waiters \in [Modes -> 0 .. MaxCount] /\ MaxCount \in Nat
  BY FdMutexAssumption DEF TypeOK, MuTypeOK
<1>1. CASE NoCount(g)
  BY <1>0, <1>1 DEF NoCount
<1>2. CASE Close(g)
  BY <1>0, <1>2 DEF Close, increfAndClose
<1>3. ASSUME NEW n \in Modes, CountStep(g, n)
      PROVE  waiters' \in [Modes -> 0 .. MaxCount]
  <2>1. \/ waiters' = waiters
        \/ waiters[n] < MaxCount /\ waiters' = [waiters EXCEPT ![n] = @ + 1]
        \/ waiters' = [waiters EXCEPT ![n] = IF @ > 0 THEN @ - 1 ELSE 0]
    BY <1>3 DEF CountStep, rwlockWait, rwunlock
  <2>2. waiters[n] \in 0 .. MaxCount
    BY <1>0
  <2>3. (waiters[n] < MaxCount => waiters[n] + 1 \in 0 .. MaxCount)
        /\ (IF waiters[n] > 0 THEN waiters[n] - 1 ELSE 0) \in 0 .. MaxCount
    BY <1>0, <2>2
  <2>4. QED  BY <1>0, <2>1, <2>3
<1>4. QED  BY <1>1, <1>2, <1>3, StepCount

\* The types of the descriptor's modes.
LEMMA StepMode ==
  ASSUME TypeOK, NEW g \in Goroutines, Act(g)
  PROVE  isBlocking' \in BOOLEAN /\ kblock' \in BOOLEAN
<1> USE DEF fdvars
<1>0. isBlocking \in BOOLEAN /\ kblock \in BOOLEAN
  BY DEF TypeOK
<1>1. CASE Lock(g) \/ LockAgain(g) \/ LockSleep(g) \/ LockAwake(g) \/ Unlock(g) \/ UnlockWake(g)
  BY <1>0, <1>1 DEF Lock, LockAgain, TryLock, LockSleep, LockAwake, Unlock, UnlockWake
<1>2. CASE Prepare(g) \/ Reset(g) \/ SysReturn(g) \/ PollWait(g)
  BY <1>0, <1>2 DEF Prepare, Reset, SysReturn, PollWait
<1>3. CASE Block(g) \/ Recheck(g) \/ Park(g) \/ Unpark(g)
  BY <1>0, <1>3 DEF Block, Recheck, Park, Unpark
<1>4. CASE Incref(g) \/ SetDeadline(g) \/ SetBlocking(g) \/ MiscReturn(g) \/ PollSetDeadline(g)
  BY <1>0, <1>4 DEF Incref, SetDeadline, SetBlocking, MiscReturn, PollSetDeadline
<1>5. CASE PollUnblock(g) \/ SetBlockingStore(g) \/ SetNonblock(g) \/ Decref(g) \/ Close(g)
  BY <1>0, <1>5 DEF PollUnblock, SetBlockingStore, SetNonblock, Decref, Close
<1>6. CASE \/ (\E n \in Modes : CloseWake(g, n)) \/ Evict(g) \/ Destroy(g) \/ CloseFunc(g)
           \/ DestroySignal(g) \/ CloseBlocking(g) \/ CloseSleep(g) \/ CloseAwake(g)
  BY <1>0, <1>6 DEF CloseWake, Evict, Destroy, CloseFunc, DestroySignal, CloseBlocking, CloseSleep, CloseAwake
<1>7. QED  BY <1>1, <1>2, <1>3, <1>4, <1>5, <1>6 DEF Act, BeginCall, Step, Modes

\* Every step of a method preserves the invariant.
LEMMA StepInvariant ==
  ASSUME IInv, NEW g \in Goroutines, Act(g)
  PROVE  IInv'
<1>1. /\ TypeOK /\ pc[g] # "panic" /\ OpsByPC /\ RefsAreHeld /\ OneCloser /\ DestroyedOnce /\ PollerConsistent
      /\ SleepersAreCounted /\ CloseWakesAll /\ WaitersAreAwaited /\ SignalToCome
      /\ SemConsistent(Acquiring, Releasing)
  BY DEF IInv
<1>2. pc'[g] # "panic"
  BY <1>1, StepNoPanic
<1>3. WordStep(g)
  BY <1>1, <1>2, StepWord
<1>4. TypeOK'
  <2>1. SemTypeOK'
    BY <1>1, NextSem
  <2>2. MuTypeOK'
    BY <1>1, <1>2, <1>3, StepFlags, StepUsers, StepWaiters DEF MuTypeOK
  <2>3. PdTypeOK'
    BY <1>1, StepPdTypes
  <2>4. pd' \in {"none", "open", "closed"} /\ sysfd' \in {"open", "closed"}
    BY <1>1, <1>2, StepDescriptor DEF TypeOK
  <2>5. QED  BY <1>1, <2>1, <2>2, <2>3, <2>4, StepMode, StepMoves, StepLeft DEF TypeOK
<1>5. \A h \in Goroutines : pc'[h] # "panic"
  BY <1>1, <1>2, StepMoves DEF IInv
<1>6. OpsByPC' /\ RefsAreHeld' /\ OneCloser' /\ DestroyedOnce'
  BY <1>1, <1>2, <1>3, StepOps, StepRefs, StepCloser, StepDestroyed
<1>7. PollerConsistent'
  BY <1>1, <1>2, StepPoller, StepUsedIfPollable DEF PollerConsistent, PollerParts
<1>8. SleepersAreCounted' /\ CloseWakesAll' /\ WaitersAreAwaited' /\ SignalToCome'
  BY <1>1, <1>2, StepSleepersCounted, StepCloseWakesAll, StepWaitersAwaited, StepSignalToCome
<1>9. SemConsistent(Acquiring, Releasing)'
  BY <1>1, NextSem
<1>10. QED  BY <1>4, <1>5, <1>6, <1>7, <1>8, <1>9 DEF IInv


\* A step that only the poller sees.
LEMMA Unmoved ==
  ASSUME IInv, UNCHANGED <<semvars, muvars, fdvars, pc, op, left, closing>>, PdTypeOK', PollerParts'
  PROVE  IInv'
<1> USE DEF semvars, muvars, fdvars
<1>1. TypeOK'
  BY DEF IInv, TypeOK, SemTypeOK, MuTypeOK
<1>2. /\ \A g \in Goroutines : pc'[g] # "panic"
      /\ OpsByPC' /\ OneCloser'
  BY DEF IInv, OpsByPC, OneCloser, Closed
<1>3. RefsAreHeld'
  <2>1. Users' = Users /\ \A g \in Goroutines, m \in Modes : Locks(g, m)' <=> Locks(g, m)
    BY DEF Users, Using, Locks
  <2>2. QED  BY <2>1 DEF IInv, RefsAreHeld
<1>4. DestroyedOnce'
  BY DEF IInv, DestroyedOnce, Destroying, Closed
<1>5. PollerConsistent'
  BY DEF IInv, PollerConsistent, PollerParts, UsedIfPollable
<1>6. SleepersAreCounted' /\ WaitersAreAwaited'
  <2>1. \A m \in Modes : Sleepers(m)' = Sleepers(m) /\ Wakers(m)' = Wakers(m)
    BY DEF Sleepers, Wakers
  <2>2. QED  BY <2>1 DEF IInv, SleepersAreCounted, WaitersAreAwaited, mutexSema
<1>7. CloseWakesAll' /\ SignalToCome'
  BY DEF IInv, CloseWakesAll, SignalToCome, Closed
<1>8. SemConsistent(Acquiring, Releasing)'
  <2>1. Acquiring' = Acquiring /\ Releasing' = Releasing
    BY DEF Acquiring, Releasing, mutexSema
  <2>2. QED  BY <2>1 DEF IInv, SemConsistent, RolesConsistent, WakeesConsistent, QueuesConsistent,
                         CountsMoving, Bringing
<1>9. QED  BY <1>1, <1>2, <1>3, <1>4, <1>5, <1>6, <1>7, <1>8 DEF IInv

\* An event, a deadline that passes, or the timer's netpollunblock.
LEMMA OutsideInvariant ==
  ASSUME IInv, Event \/ TimerUnblock
  PROVE  IInv'
<1>1. TypeOK /\ PollerConsistent
  BY DEF IInv
<1>2. UNCHANGED <<semvars, muvars, fdvars, pc, op, left, closing>>
  BY DEF Event, TimerUnblock, KernelReady, netpollready, Expire, Unblock
<1>3. WaitersStay
  BY <1>2 DEF WaitersStay
<1>4. \/ Unblock("timer") \/ (\E ms \in (SUBSET Modes) \ {{}} : Expire(ms))
      \/ (\E m \in Modes : netpollready(m)) \/ (\E m \in Modes : KernelReady(m))
  BY FDAssumption DEF Event, TimerUnblock
<1>5. "timer" # None /\ "timer" \in Goroutines \cup {"timer"}
  BY NetpollAssumption
<1>6. PollerParts'
  BY <1>1, <1>3, <1>4, <1>5, PollerNews
<1>7. PdTypeOK'
  BY <1>1, <1>4, <1>5, NewsTypes
<1>8. QED  BY <1>2, <1>6, <1>7, Unmoved

\* The descriptor that FD.Init leaves satisfies the invariant.
LEMMA InitIInv == Init => IInv
<1> SUFFICES ASSUME Init  PROVE  IInv
  OBVIOUS
<1>0. /\ \A g \in Goroutines : pc[g] = "idle" /\ op[g] = "ref" /\ sst[g] = "running"
      /\ flags = {} /\ refs = 0 /\ sysfd = "open" /\ pd \in {"none", "open"}
      /\ \A m \in Modes : waiters[m] = 0 /\ left[m] = 0 /\ gpp[m] = "nil"
      /\ lock = None /\ unblocking = {} /\ ready = {}
      /\ \A a \in Addr : semval[a] = 0 /\ waitq[a] = <<>>
  BY DEF Init, SemInit, MuInit, PdInit
<1>1. TypeOK
  <2>1. SemTypeOK
    BY DEF Init, SemInit, SemTypeOK, SemStates
  <2>2. MuTypeOK /\ 0 \in 0 .. MaxCount
    BY FdMutexAssumption DEF Init, MuInit, MuTypeOK
  <2>3. PdTypeOK
    BY DEF Init, PdInit, PdTypeOK
  <2>4. QED  BY <2>1, <2>2, <2>3 DEF Init, TypeOK, PCs, Ops
<1>2. (\A g \in Goroutines : pc[g] # "panic") /\ OpsByPC /\ OneCloser
  BY <1>0 DEF OpsByPC, OneCloser, IOPCs
<1>3. RefsAreHeld
  <2>1. Users = {} /\ \A g \in Goroutines, m \in Modes : ~Locks(g, m)
    BY <1>0 DEF Users, Using, UsePCs, Locks, IOPCs
  <2>2. QED  BY <1>0, <2>1, FS_EmptySet DEF RefsAreHeld
<1>4. DestroyedOnce
  BY <1>0 DEF DestroyedOnce, Destroying, Closed
<1>5. PollerConsistent
  BY <1>0 DEF PollerConsistent, UnblockingLocked, UsedIfPollable, SemaphoreHeld, ErrorsAreTold, EventsAreToCome
<1>6. SleepersAreCounted /\ WaitersAreAwaited
  <2>1. \A m \in Modes : Sleepers(m) = {} /\ Wakers(m) = {} /\ mutexSema(m) \in Addr
    BY <1>0, <1>1, Numbers DEF Sleepers, Wakers
  <2>2. Cardinality({}) = 0
    BY FS_EmptySet
  <2>3. \A m \in Modes : Cardinality(Sleepers(m)) = 0 /\ Cardinality(Wakers(m)) = 0 /\ semval[mutexSema(m)] = 0
    BY <1>0, <2>1, <2>2
  <2>4. QED  BY <1>0, <2>3 DEF SleepersAreCounted, WaitersAreAwaited
<1>7. CloseWakesAll /\ SignalToCome
  BY <1>0 DEF CloseWakesAll, SignalToCome, Closed
<1>8. SemConsistent(Acquiring, Releasing)
  <2>1. RolesConsistent(Acquiring, Releasing) /\ WakeesConsistent
    BY <1>0, NoneAssumption DEF RolesConsistent, WakeesConsistent, Init, SemInit
  <2>2. QueuesConsistent(Acquiring) /\ CountsMoving(Acquiring, Releasing)
    BY <1>0 DEF QueuesConsistent, CountsMoving, Range, IsInjective
  <2>3. QED  BY <2>1, <2>2 DEF SemConsistent
<1>9. QED  BY <1>1, <1>2, <1>3, <1>4, <1>5, <1>6, <1>7, <1>8 DEF IInv

\* Every step preserves the invariant.
LEMMA NextIInv == IInv /\ [Next]_vars => IInv'
<1> SUFFICES ASSUME IInv, [Next]_vars  PROVE  IInv'
  OBVIOUS
<1>1. CASE UNCHANGED vars
  <2>1. UNCHANGED <<semvars, muvars, fdvars, pc, op, left, closing>>
    BY <1>1 DEF vars, pdvars
  <2>2. PdTypeOK'
    BY <1>1 DEF vars, pdvars, IInv, TypeOK, PdTypeOK
  <2>3. PollerParts'
    BY <1>1 DEF vars, pdvars, fdvars, IInv, PollerConsistent, PollerParts, UnblockingLocked, SemaphoreHeld,
                ErrorsAreTold, EventsAreToCome, netpollcheckerr
  <2>4. QED  BY <2>1, <2>2, <2>3, Unmoved
<1>2. ASSUME NEW g \in Goroutines, Act(g)
      PROVE  IInv'
  BY <1>2, StepInvariant
<1>3. CASE Event \/ TimerUnblock
  BY <1>3, OutsideInvariant
<1>4. QED  BY <1>1, <1>2, <1>3 DEF Next, Act

-----------------------------------------------------------------------------
(* The theorems. *)

\* The inductive invariant: the word counts the users, one goroutine destroys the
\* descriptor, who waits in the poller is told, and every sleeper is owed a count.
THEOREM Invariance == Spec => []IInv
BY InitIInv, NextIInv, PTL DEF Spec

\* Nobody destroys the descriptor under the feet of somebody who uses it, it is
\* destroyed once, and no method panics, with any number of goroutines and any
\* limit of the counters.
THEOREM DescriptorIsSafe == Spec => []NotUnderTheirFeet
<1>1. IInv => NotUnderTheirFeet
  <2> SUFFICES ASSUME IInv, NEW g \in Goroutines, Destroying(g)
               PROVE  sysfd = "open" /\ \A h \in Goroutines \ {g} : ~Using(h) /\ ~Destroying(h)
    BY DEF IInv, NotUnderTheirFeet
  <2>1. sysfd = "open" /\ refs = 0 /\ \A h \in Goroutines : Destroying(h) => g = h
    BY DEF IInv, DestroyedOnce
  <2>2. \A h \in Goroutines : ~Using(h)
    BY <2>1, NoReferences DEF IInv
  <2>3. QED  BY <2>1, <2>2
<1>2. QED  BY <1>1, Invariance, PTL

\* A goroutine is parked in the poller only while somebody is to tell it of every
\* error and every event that it has missed.
THEOREM NoWaiterOverlooked == Spec => []NobodyOverlooked
<1>1. IInv => NobodyOverlooked
  <2> SUFFICES ASSUME IInv, NEW m \in Modes, NEW g \in Goroutines, Parked(g, m)
               PROVE  /\ pc[g] = "park" /\ op[g] = m /\ pd = "open"
                      /\ netpollcheckerr(m) => m \in unblocking
                      /\ m \in ready => m \in edge
    BY DEF NobodyOverlooked
  <2>1. gpp[m] = g /\ gpp[m] \notin {"nil", "ready", "wait"}
    BY NetpollAssumption DEF Parked
  <2>2. PICK h \in Goroutines : Locks(h, m) /\ Using(h) /\ gpp[m] = h /\ pc[h] = "park"
    BY <2>1, SemaphoreHolder DEF IInv
  <2>3. h = g /\ pc[g] = "park" /\ op[g] = m /\ Using(g)
    BY <2>1, <2>2 DEF Locks
  <2>4. pd = "open"
    <3>1. pd # "none" /\ refs > 0
      BY <2>3, HolderCounted DEF IInv, PollerConsistent, UsedIfPollable
    <3>2. pd # "closed"
      <4> SUFFICES ASSUME pd = "closed"  PROVE  refs = 0
        BY <3>1
      <4>1. sysfd = "closed" \/ \E f \in Goroutines : Destroying(f)
        BY DEF IInv, DestroyedOnce, Destroying
      <4>2. QED  BY <4>1 DEF IInv, DestroyedOnce
    <3>3. QED  BY <3>1, <3>2 DEF IInv, TypeOK
  <2>5. QED  BY <2>1, <2>3, <2>4 DEF IInv, PollerConsistent, ErrorsAreTold, EventsAreToCome
<1>2. QED  BY <1>1, Invariance, PTL

\* When everybody is idle or asleep, nobody sleeps, the word is clean, and a closed
\* descriptor is destroyed: no wakeup is lost or left over.  A counter must
\* not reach its limit: a woken waiter that finds it full gives up, and wakes
\* nobody in its place (fd_mutex.go, rwlock).
THEOREM Quiescence == Cardinality(Goroutines) <= MaxCount => (Spec => []CleanWhenQuiescent)
<1> SUFFICES ASSUME Cardinality(Goroutines) <= MaxCount
             PROVE  Spec => []CleanWhenQuiescent
  OBVIOUS
<1>1. IInv => CleanWhenQuiescent
  <2> SUFFICES ASSUME IInv, Quiescent
               PROVE  /\ \A g \in Goroutines : pc[g] = "idle"
                      /\ flags \subseteq {"closed"} /\ refs = 0 /\ \A m \in Modes : waiters[m] = 0
                      /\ semval[RSema] = 0 /\ semval[WSema] = 0
                      /\ Closed => sysfd = "closed"
    BY DEF CleanWhenQuiescent
  <2>1. TypeOK /\ SemTypeOK /\ SemConsistent(Acquiring, Releasing) /\ None \notin Addr
    BY NoneAssumption DEF IInv, TypeOK
  <2>2. \A g \in Goroutines : sst[g] \in {"running", "parked", "dequeued"}
    <3>1. \A g \in Goroutines : pc[g] = "idle" => Acquiring[g] = None /\ Releasing[g] = None
      BY DEF Acquiring, Releasing
    <3>2. \A g \in Goroutines : pc[g] = "idle" => sst[g] = "running"
      BY <2>1, <3>1, OutsideSem
    <3>3. QED  BY <3>2 DEF Quiescent, Asleep
  <2>3. \A g \in Goroutines :
          sst[g] = "running" \/ (sst[g] = "parked" /\ Acquiring[g] \in Addr /\ semval[Acquiring[g]] = 0)
    BY <2>1, <2>2, AllAsleep
  <2>4. \A g \in Goroutines :
          \/ pc[g] = "idle"
          \/ pc[g] = "sem" /\ op[g] \in Modes /\ semval[mutexSema(op[g])] = 0
          \/ pc[g] = "csem" /\ semval[CSema] = 0
    <3> SUFFICES ASSUME NEW g \in Goroutines, pc[g] # "idle"
                 PROVE  \/ pc[g] = "sem" /\ op[g] \in Modes /\ semval[mutexSema(op[g])] = 0
                        \/ pc[g] = "csem" /\ semval[CSema] = 0
      OBVIOUS
    <3>1. Acquiring[g] # None /\ semval[Acquiring[g]] = 0
      BY <2>1, <2>3 DEF Quiescent, Asleep
    <3>2. \/ pc[g] = "sem" /\ Acquiring[g] = mutexSema(op[g])
          \/ pc[g] = "csem" /\ Acquiring[g] = CSema
      BY <3>1 DEF Acquiring
    <3>3. pc[g] = "sem" => op[g] \in Modes
      BY DEF IInv, OpsByPC
    <3>4. QED  BY <3>1, <3>2, <3>3
  <2>5. /\ refs = 0 /\ flags \subseteq {"closed"}
        /\ \A g \in Goroutines : ~Destroying(g)
    <3>1. Users = {} /\ \A g \in Goroutines, m \in Modes : ~Locks(g, m) /\ ~Destroying(g)
      BY <2>4 DEF Users, Using, UsePCs, Locks, IOPCs, Destroying
    <3>2. QED  BY <3>1, FS_EmptySet DEF IInv, RefsAreHeld, TypeOK, MuTypeOK, Modes
  <2>6. \A m \in Modes : /\ Wakers(m) = {} /\ Cardinality(Wakers(m)) = 0 /\ left[m] = 0
                         /\ semval[mutexSema(m)] \in Nat /\ waiters[m] \in Nat
    <3>1. \A m \in Modes : Wakers(m) = {} /\ ~(left[m] > 0)
      BY <2>4 DEF Wakers, IInv, CloseWakesAll
    <3>2. QED  BY <2>1, <3>1, Numbers, FS_EmptySet
  <2>7. \A m \in Modes : waiters[m] > 0 => semval[mutexSema(m)] > 0
    BY <2>4, <2>5, <2>6 DEF IInv, WaitersAreAwaited, Modes
  <2>8. ASSUME NEW m \in Modes
        PROVE  semval[mutexSema(m)] = 0 /\ waiters[m] = 0 /\ Sleepers(m) = {}
    <3>1. Sleepers(m) # {} => semval[mutexSema(m)] = 0
      BY <2>4 DEF Sleepers
    <3>2. Cardinality(Sleepers(m)) = waiters[m] + semval[mutexSema(m)]
      BY <2>6 DEF IInv, SleepersAreCounted
    <3>3. Sleepers(m) = {} => waiters[m] = 0 /\ semval[mutexSema(m)] = 0
      BY <2>6, <3>2, FS_EmptySet
    <3>4. semval[mutexSema(m)] = 0
      BY <3>1, <3>3
    <3>5. waiters[m] = 0
      BY <2>6, <2>7, <3>4
    <3>6. IsFiniteSet(Sleepers(m))
      BY FDAssumption, FS_Subset DEF Sleepers
    <3>7. QED  BY <3>2, <3>4, <3>5, <3>6, FS_EmptySet
  <2>9. Closed => sysfd = "closed"
    BY <2>5 DEF IInv, DestroyedOnce
  <2>10. \A g \in Goroutines : pc[g] # "csem"
    <3> SUFFICES ASSUME NEW g \in Goroutines, pc[g] = "csem"  PROVE  FALSE
      OBVIOUS
    <3>1. op[g] = "close" /\ Closed
      BY DEF IInv, OpsByPC, OneCloser
    <3>2. semval[CSema] > 0
      BY <2>4, <2>9, <3>1 DEF IInv, SignalToCome
    <3>3. QED  BY <2>4, <3>2
  <2>11. \A g \in Goroutines : pc[g] = "idle"
    BY <2>4, <2>8, <2>10 DEF Sleepers
  <2>12. semval[RSema] = 0 /\ semval[WSema] = 0
    BY <2>8 DEF mutexSema, Modes
  <2>13. QED  BY <2>5, <2>8, <2>9, <2>11, <2>12
<1>2. QED  BY <1>1, Invariance, PTL


-----------------------------------------------------------------------------
(* The descriptor's life. *)

Life == IF sysfd = "closed" THEN "destroyed" ELSE IF Closed THEN "closing" ELSE "open"
Locked == [m \in Modes |-> {g \in Goroutines : Locks(g, m)}]

\* A step makes its goroutine a user or not, a holder of a lock or not.
LEMMA StepSets ==
  ASSUME TypeOK, NEW g \in Goroutines, Act(g)
  PROVE  /\ Using(g)' => Users' = Users \cup {g}
         /\ ~Using(g)' => Users' = Users \ {g}
         /\ g \in Users <=> Using(g)
         /\ \A m \in Modes : /\ Locks(g, m)' => Locked'[m] = Locked[m] \cup {g}
                             /\ ~Locks(g, m)' => Locked'[m] = Locked[m] \ {g}
                             /\ g \in Locked[m] <=> Locks(g, m)
<1>1. \A h \in Goroutines \ {g} :
        (Using(h)' <=> Using(h)) /\ \A m \in Modes : Locks(h, m)' <=> Locks(h, m)
  BY StepMoves DEF Using, Locks
<1>2. QED  BY <1>1 DEF Users, Locked

\* Each step of a method is one of the descriptor's life, or is not seen in it.
LEMMA StepLife ==
  ASSUME IInv, NEW g \in Goroutines, Act(g)
  PROVE  Abstract!Next \/ (Life' = Life /\ Users' = Users /\ Locked' = Locked)
<1>0. /\ TypeOK /\ OpsByPC /\ RefsAreHeld /\ DestroyedOnce /\ SemConsistent(Acquiring, Releasing)
      /\ pc'[g] # "panic"
  BY StepNoPanic DEF IInv
<1>1. WordStep(g)
  BY <1>0, StepWord DEF IInv
<1>2. /\ Users = {h \in Goroutines : Using(h)}
      /\ Locked = [m \in Modes |-> {h \in Goroutines : Locks(h, m)}]
      /\ Locked \in [Modes -> SUBSET Goroutines] /\ Locked' \in [Modes -> SUBSET Goroutines]
  BY DEF Users, Locked
<1>3. /\ Using(g)' => Users' = Users \cup {g}
      /\ ~Using(g)' => Users' = Users \ {g}
      /\ g \in Users <=> Using(g)
      /\ \A m \in Modes : /\ Locks(g, m)' => Locked'[m] = Locked[m] \cup {g}
                          /\ ~Locks(g, m)' => Locked'[m] = Locked[m] \ {g}
                          /\ g \in Locked[m] <=> Locks(g, m)
  BY <1>0, StepSets
<1>4. sysfd = "closed" => Closed
  BY <1>0 DEF DestroyedOnce
<1>5. \A m \in Modes : (Locks(g, m) => Using(g)) /\ (Locks(g, m)' => Using(g)')
  BY DEF Locks, Using, UsePCs
<1>6. ASSUME Using(g)' <=> Using(g), \A m \in Modes : Locks(g, m)' <=> Locks(g, m)
      PROVE  Users' = Users /\ Locked' = Locked
  <2>1. Users' = Users
    BY <1>3, <1>6
  <2>2. \A m \in Modes : Locked'[m] = Locked[m]
    BY <1>3, <1>6
  <2>3. QED  BY <1>2, <2>1, <2>2
<1>7. CASE pc[g] = "closefn"
  <2>1. Closed /\ refs = 0 /\ sysfd = "open" /\ sysfd' = "closed" /\ pc'[g] = "csignal"
    BY <1>0, <1>7, StepDescriptor, StepSignal DEF DestroyedOnce, Destroying
  <2>2. Life = "closing" /\ Life' = "destroyed"
    BY <2>1 DEF Life
  <2>3. ~Using(g) /\ ~Using(g)' /\ \A m \in Modes : ~Locks(g, m) /\ ~Locks(g, m)'
    BY <1>7, <2>1 DEF Using, Locks, UsePCs, IOPCs
  <2>4. Users' = Users /\ Locked' = Locked
    BY <1>6, <2>3
  <2>5. Users = {}
    BY <1>0, <1>2, <2>1, NoReferences
  <2>6. Abstract!Destroy
    BY <2>2, <2>4, <2>5 DEF Abstract!Destroy, Life, Users, Locked
  <2>7. QED  BY <2>6 DEF Abstract!Next
<1>8. CASE pc[g] # "closefn"
  <2>1. sysfd' = sysfd
    BY <1>0, <1>8, StepDescriptor
  <2>2. ASSUME NEW m \in Modes, ~Using(g), rwlock(m), pc'[g] \in IOPCs, op'[g] = m
        PROVE  Abstract!Next
    <3>1. Life = "open" /\ Life' = Life
      BY <1>4, <2>1, <2>2 DEF Life, rwlock, Closed, Modes
    <3>2. Locked[m] = {}
      BY <1>0, <1>2, <2>2 DEF RefsAreHeld, rwlock
    <3>3. Using(g)' /\ \A n \in Modes : Locks(g, n)' <=> n = m
      BY <2>2 DEF Using, UsePCs, Locks
    <3>4. Users' = Users \cup {g} /\ g \notin Users
      BY <1>3, <2>2, <3>3
    <3>5. Locked' = [Locked EXCEPT ![m] = {g}]
      <4>1. Locked'[m] = {g}
        BY <1>3, <3>2, <3>3
      <4>2. ASSUME NEW n \in Modes, n # m
            PROVE  Locked'[n] = Locked[n]
        <5>1. ~Locks(g, n)' /\ ~Locks(g, n)
          BY <1>5, <2>2, <3>3, <4>2
        <5>2. Locked'[n] = Locked[n] \ {g} /\ g \notin Locked[n]
          BY <1>3, <5>1
        <5>3. QED  BY <5>2
      <4>3. QED  BY <1>2, <4>1, <4>2
    <3>6. Abstract!Lock(g, m)
      BY <3>1, <3>2, <3>4, <3>5 DEF Abstract!Lock, Life, Users, Locked
    <3>7. QED  BY <3>6 DEF Abstract!Next, Modes
  <2>3. CASE ~Using(g) /\ (incref \/ increfAndClose) /\ pc'[g] \in UsePCs \ IOPCs
    <3>1. Using(g)' /\ \A m \in Modes : ~Locks(g, m)' /\ ~Locks(g, m)
      BY <1>5, <2>3 DEF Using, Locks
    <3>2. Users' = Users \cup {g} /\ g \notin Users
      BY <1>3, <2>3, <3>1
    <3>3. Locked' = Locked
      <4>1. \A m \in Modes : Locked'[m] = Locked[m]
        BY <1>3, <3>1
      <4>2. QED  BY <1>2, <4>1
    <3>4. Life = "open" /\ (incref => Life' = Life) /\ (increfAndClose => Life' = "closing")
      BY <1>4, <2>1, <2>3 DEF Life, incref, increfAndClose, Closed
    <3>5. Abstract!Use(g) \/ Abstract!Close(g)
      BY <2>3, <3>2, <3>3, <3>4 DEF Abstract!Use, Abstract!Close, Life, Users, Locked
    <3>6. QED  BY <3>5 DEF Abstract!Next
  <2>4. ASSUME Using(g), pc'[g] \notin UsePCs, Closed' <=> Closed
        PROVE  Abstract!Next
    <3>1. ~Using(g)' /\ \A m \in Modes : ~Locks(g, m)'
      BY <1>5, <2>4 DEF Using
    <3>2. Life' = Life /\ Users' = Users \ {g} /\ g \in Users
      BY <1>3, <2>1, <2>4, <3>1 DEF Life
    <3>3. Locked' = [m \in Modes |-> Locked[m] \ {g}]
      BY <1>2, <1>3, <3>1
    <3>4. Abstract!Leave(g)
      BY <3>2, <3>3 DEF Abstract!Leave, Life, Users, Locked, Modes
    <3>5. QED  BY <3>4 DEF Abstract!Next
  <2>5. ASSUME NEW m \in Modes, rwunlock(m)
        PROVE  Closed' <=> Closed
    BY <2>5 DEF rwunlock, Closed, Modes
  <2>6. decref => (Closed' <=> Closed)
    BY DEF decref, Closed
  <2>7. CASE /\ UNCHANGED <<flags, refs>>
             /\ Using(g)' <=> Using(g)
             /\ \A m \in Modes : Locks(g, m)' <=> Locks(g, m)
    BY <1>6, <2>1, <2>7 DEF Life, Closed
  <2>8. QED  BY <1>1, <1>5, <2>2, <2>3, <2>4, <2>5, <2>6, <2>7 DEF WordStep
<1>9. QED  BY <1>7, <1>8

\* poll.FD is a descriptor that is locked, used, closed and destroyed in this order.
THEOREM Refinement == Spec => ImplementsFDLife
<1>1. Init => Abstract!Init
  <2> SUFFICES ASSUME Init  PROVE  Abstract!Init
    OBVIOUS
  <2>1. \A g \in Goroutines : pc[g] = "idle"
    BY DEF Init
  <2>2. sysfd = "open" /\ ~Closed
    BY DEF Init, MuInit, Closed
  <2>3. QED  BY <2>1, <2>2 DEF Abstract!Init, Using, UsePCs, IOPCs, Locks, Modes
<1>2. IInv /\ [Next]_vars => [Abstract!Next]_(Abstract!vars)
  <2> SUFFICES ASSUME IInv, [Next]_vars
               PROVE  Abstract!Next \/ UNCHANGED Abstract!vars
    OBVIOUS
  <2>1. ASSUME NEW g \in Goroutines, Act(g)
        PROVE  Abstract!Next \/ UNCHANGED Abstract!vars
    BY <2>1, StepLife DEF Abstract!vars, Life, Users, Locked
  <2>2. CASE Event \/ TimerUnblock \/ UNCHANGED vars
    <3>1. UNCHANGED <<flags, sysfd, pc, op>>
      BY <2>2 DEF Event, TimerUnblock, vars, muvars, fdvars
    <3>2. QED  BY <3>1 DEF Abstract!vars, Using, Locks, Closed
  <2>3. QED  BY <2>1, <2>2 DEF Next, Act
<1>3. QED  BY <1>1, <1>2, Invariance, PTL DEF Spec, ImplementsFDLife, Abstract!Spec

==============================================================================
