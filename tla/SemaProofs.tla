------------------------------ MODULE SemaProofs ------------------------------
(***************************************************************************)
(* Proofs about Sema, for every finite set of goroutines, any set of       *)
(* addresses that share the root and every bound on the words.             *)
(***************************************************************************)
EXTENDS Sema, SequenceTheorems, FiniteSetTheorems, TLAPS

USE DEF Step, Lock, Unlock, Return, CanSemacquire, Decrement

-----------------------------------------------------------------------------
(* Facts about queues and finite sets. *)

\* Parking at the tail adds one goroutine to the queue.
LEMMA QueueAppend ==
  ASSUME NEW S, NEW q \in Seq(S), NEW e \in S, e \notin Range(q), IsInjective(q)
  PROVE  /\ Append(q, e) \in Seq(S)
         /\ Range(Append(q, e)) = Range(q) \cup {e}
         /\ IsInjective(Append(q, e))
<1> DEFINE p == Append(q, e)
<1>1. /\ p \in Seq(S) /\ Len(p) = Len(q) + 1 /\ Len(q) \in Nat
      /\ DOMAIN q = 1 .. Len(q) /\ DOMAIN p = 1 .. Len(q) + 1
      /\ p[Len(q) + 1] = e
      /\ \A i \in 1 .. Len(q) : p[i] = q[i]
  BY AppendProperties
<1> HIDE DEF p
<1>2. \A i \in 1 .. Len(q) : i \in 1 .. Len(q) + 1 /\ i # Len(q) + 1 /\ q[i] # e
  BY <1>1 DEF Range
<1>3. \A i \in 1 .. Len(q) + 1 : i = Len(q) + 1 \/ i \in 1 .. Len(q)
  BY <1>1
<1>4. Range(p) = Range(q) \cup {e}
  <2>1. Len(q) + 1 \in 1 .. Len(q) + 1
    BY <1>1
  <2>2. QED  BY <1>1, <1>2, <1>3, <2>1 DEF Range
<1>5. IsInjective(p)
  BY <1>1, <1>2, <1>3 DEF IsInjective
<1>6. QED  BY <1>1, <1>4, <1>5 DEF p

\* Parking at the head adds one goroutine to the queue.
LEMMA QueuePush ==
  ASSUME NEW S, NEW q \in Seq(S), NEW e \in S, e \notin Range(q), IsInjective(q)
  PROVE  /\ <<e>> \o q \in Seq(S)
         /\ Range(<<e>> \o q) = Range(q) \cup {e}
         /\ IsInjective(<<e>> \o q)
<1> DEFINE p == <<e>> \o q
<1>1. /\ p \in Seq(S) /\ Len(p) = Len(q) + 1 /\ Len(q) \in Nat
      /\ DOMAIN q = 1 .. Len(q) /\ DOMAIN p = 1 .. Len(q) + 1
      /\ p[1] = e
      /\ \A i \in 2 .. Len(q) + 1 : p[i] = q[i-1]
  <2>1. <<e>> \in Seq(S) /\ Len(<<e>>) = 1 /\ <<e>>[1] = e
    OBVIOUS
  <2>2. QED  BY <2>1, ConcatProperties
<1> HIDE DEF p
<1>2. \A i \in 1 .. Len(q) : i + 1 \in 2 .. Len(q) + 1 /\ p[i+1] = q[i] /\ q[i] # e
  BY <1>1 DEF Range
<1>3. \A i \in 1 .. Len(q) + 1 : i = 1 \/ (i \in 2 .. Len(q) + 1 /\ i-1 \in 1 .. Len(q))
  BY <1>1
<1>4. Range(p) = Range(q) \cup {e}
  <2>1. 1 \in 1 .. Len(q) + 1
    BY <1>1
  <2>2. ASSUME NEW x \in Range(p)
        PROVE  x \in Range(q) \cup {e}
    <3>1. PICK i \in 1 .. Len(q) + 1 : x = p[i]
      BY <1>1 DEF Range
    <3>2. i = 1 \/ (i - 1 \in DOMAIN q /\ x = q[i-1])
      BY <1>1, <1>3, <3>1
    <3>3. QED  BY <1>1, <3>1, <3>2 DEF Range
  <2>3. ASSUME NEW x \in Range(q)
        PROVE  x \in Range(p)
    <3>1. PICK i \in 1 .. Len(q) : x = q[i]
      BY <1>1 DEF Range
    <3>2. i + 1 \in DOMAIN p /\ p[i+1] = x
      BY <1>1, <1>2, <3>1
    <3>3. QED  BY <3>2 DEF Range
  <2>4. e \in Range(p)
    BY <1>1, <2>1 DEF Range
  <2>5. QED  BY <2>2, <2>3, <2>4
<1>5. IsInjective(p)
  <2>1. SUFFICES ASSUME NEW i \in 1 .. Len(q) + 1, NEW j \in 1 .. Len(q) + 1, p[i] = p[j]
                 PROVE  i = j
    BY <1>1 DEF IsInjective
  <2>2. CASE i = 1 \/ j = 1
    BY <1>1, <1>2, <1>3, <2>1, <2>2
  <2>3. CASE i # 1 /\ j # 1
    <3>1. i - 1 \in DOMAIN q /\ j - 1 \in DOMAIN q /\ q[i-1] = q[j-1]
      BY <1>1, <1>3, <2>1, <2>3
    <3>2. QED  BY <3>1 DEF IsInjective
  <2>4. QED  BY <2>2, <2>3
<1>6. QED  BY <1>1, <1>4, <1>5 DEF p

\* Taking the first of the queue removes it and nobody else.
LEMMA QueueTail ==
  ASSUME NEW S, NEW q \in Seq(S), q # <<>>, IsInjective(q)
  PROVE  /\ Head(q) \in S /\ Head(q) \in Range(q)
         /\ Tail(q) \in Seq(S)
         /\ Range(Tail(q)) = Range(q) \ {Head(q)}
         /\ IsInjective(Tail(q))
<1> DEFINE p == Tail(q)
<1>1. /\ p \in Seq(S) /\ Len(q) \in Nat /\ Len(q) >= 1
      /\ DOMAIN q = 1 .. Len(q) /\ DOMAIN p = 1 .. Len(q) - 1
      /\ Head(q) = q[1] /\ q[1] \in S
      /\ \A i \in 1 .. Len(q) - 1 : p[i] = q[i+1]
  BY HeadTailProperties
<1> HIDE DEF p
<1>2. \A i \in 1 .. Len(q) - 1 : i + 1 \in 1 .. Len(q) /\ i + 1 # 1
  BY <1>1
<1>3. \A i \in 1 .. Len(q) : i = 1 \/ (i - 1 \in 1 .. Len(q) - 1 /\ (i - 1) + 1 = i)
  BY <1>1
<1>4. Head(q) \in Range(q)
  <2>1. 1 \in DOMAIN q
    BY <1>1
  <2>2. QED  BY <1>1, <2>1 DEF Range
<1>5. \A i \in 1 .. Len(q) - 1 : q[i+1] # q[1]
  <2>1. 1 \in 1 .. Len(q)
    BY <1>1
  <2>2. QED  BY <1>1, <1>2, <2>1 DEF IsInjective
<1>6. Range(p) = Range(q) \ {Head(q)}
  <2>1. ASSUME NEW x \in Range(p)
        PROVE  x \in Range(q) \ {Head(q)}
    <3>1. PICK i \in 1 .. Len(q) - 1 : x = p[i]
      BY <1>1 DEF Range
    <3>2. QED  BY <1>1, <1>2, <1>5, <3>1 DEF Range
  <2>2. ASSUME NEW x \in Range(q), x # Head(q)
        PROVE  x \in Range(p)
    <3>1. PICK i \in 1 .. Len(q) : x = q[i]
      BY <1>1 DEF Range
    <3>2. i - 1 \in DOMAIN p /\ p[i-1] = x
      BY <1>1, <1>3, <2>2, <3>1
    <3>3. QED  BY <3>2 DEF Range
  <2>3. QED  BY <2>1, <2>2
<1>7. IsInjective(p)
  BY <1>1, <1>2 DEF IsInjective
<1>8. QED  BY <1>1, <1>4, <1>6, <1>7 DEF p

\* A set that gains or loses one element at most.
LEMMA OneMoves ==
  ASSUME NEW S, NEW T, NEW g, IsFiniteSet(S), \A h : h # g => (h \in T <=> h \in S)
  PROVE  /\ Cardinality(S) \in Nat
         /\ Cardinality(T) = Cardinality(S) - (IF g \in S THEN 1 ELSE 0) + (IF g \in T THEN 1 ELSE 0)
<1>1. /\ g \in T /\ g \notin S => T = S \cup {g}
      /\ g \notin T /\ g \in S => T = S \ {g}
      /\ (g \in T <=> g \in S) => T = S
  OBVIOUS
<1>2. /\ Cardinality(S) \in Nat
      /\ Cardinality(S \ {g}) = IF g \in S THEN Cardinality(S) - 1 ELSE Cardinality(S)
      /\ Cardinality(S \cup {g}) = IF g \in S THEN Cardinality(S) ELSE Cardinality(S) + 1
  BY FS_CardinalityType, FS_RemoveElement, FS_AddElement
<1>3. CASE g \in T /\ g \notin S
  <2>1. Cardinality(T) = Cardinality(S \cup {g})
    BY <1>1, <1>3
  <2>2. QED  BY <1>2, <1>3, <2>1
<1>4. CASE g \notin T /\ g \in S
  <2>1. Cardinality(T) = Cardinality(S \ {g})
    BY <1>1, <1>4
  <2>2. QED  BY <1>2, <1>4, <2>1
<1>5. CASE g \in T <=> g \in S
  <2>1. Cardinality(T) = Cardinality(S)
    BY <1>1, <1>5
  <2>2. QED  BY <1>2, <1>5, <2>1
<1>6. QED  BY <1>3, <1>4, <1>5

-----------------------------------------------------------------------------
(* The invariant. *)

\* A step of the goroutine g.
StepOf(g) == Acquire(g) \/ Release(g) \/ InCall(g)

\* A goroutine in a call has an address and a flag.
LEMMA CallFacts ==
  ASSUME TypeOK, CallsFit, NEW g \in Goroutines, pc[g] # "idle"
  PROVE  /\ call[g] # NoCall /\ call[g] \in [op : {"acquire", "release"}, addr : Addr, flag : BOOLEAN]
         /\ call[g].addr \in Addr /\ call[g].flag \in BOOLEAN
BY DEF TypeOK, CallsFit, Calls

\* A goroutine that a releaser holds is asleep and on no list.
LEMMA WakeeFacts ==
  ASSUME TypeOK, WakeesFit, NEW g \in Goroutines, s[g] # None
  PROVE  /\ s[g] \in Goroutines /\ s[g] # g
         /\ pc[s[g]] = "parked" /\ ~Queued(s[g]) /\ call[s[g]].addr = call[g].addr
         /\ pc[g] \in {"count", "runlock", "grant", "goready"}
         /\ pc[g] # "goready" => ~ticket[s[g]]
         /\ \A h \in Goroutines : s[h] = s[g] => h = g
BY DEF TypeOK, WakeesFit

\* Whoever is on a list is so once, on the one of its address, asleep.
LEMMA QueuedFacts ==
  ASSUME TypeOK, ListsFit, NEW g \in Goroutines
  PROVE  /\ Queued(g) => pc[g] = "parked" /\ call[g].addr \in Addr /\ g \in Range(list[call[g].addr])
         /\ \A a \in Addr : g \in Range(list[a]) => Queued(g) /\ call[g].addr = a
BY DEF ListsFit, Queued

\* The first of a list.
LEMMA HeadFacts ==
  ASSUME TypeOK, ListsFit, NEW a \in Addr, list[a] # <<>>
  PROVE  /\ Head(list[a]) \in Goroutines /\ Head(list[a]) \in Range(list[a])
         /\ Queued(Head(list[a])) /\ pc[Head(list[a])] = "parked" /\ call[Head(list[a])].addr = a
         /\ Tail(list[a]) \in Seq(Goroutines)
         /\ Range(Tail(list[a])) = Range(list[a]) \ {Head(list[a])}
         /\ IsInjective(Tail(list[a]))
<1>1. list[a] \in Seq(Goroutines) /\ IsInjective(list[a])
  BY DEF TypeOK, ListsFit
<1>2. QED  BY <1>1, QueueTail DEF ListsFit, Queued

\* A word that has been decremented.
LEMMA Decremented ==
  ASSUME TypeOK, NEW a \in Addr, val[a] > 0, val' = [val EXCEPT ![a] = @ - 1]
  PROVE  /\ val' \in [Addr -> 0 .. MaxVal + Cardinality(Goroutines)]
         /\ val'[a] = val[a] - 1 /\ \A b \in Addr : b # a => val'[b] = val[b]
<1>1. Cardinality(Goroutines) \in Nat /\ MaxVal \in Nat
  BY SemaAssumption, FS_CardinalityType
<1>2. QED  BY <1>1 DEF TypeOK

\* The types, but for that of nwait.
TypesBut ==
  /\ val \in [Addr -> 0 .. MaxVal + Cardinality(Goroutines)]
  /\ lock \in Goroutines \cup {None}
  /\ list \in [Addr -> Seq(Goroutines)]
  /\ ticket \in [Goroutines -> BOOLEAN]
  /\ pc \in [Goroutines -> PCs]
  /\ call \in [Goroutines -> Calls]
  /\ slept \in [Goroutines -> BOOLEAN]
  /\ s \in [Goroutines -> Goroutines \cup {None}]

\* A step keeps the types.
LEMMA NextTypes ==
  ASSUME TypeOK, CallsFit, ListsFit, WakeesFit, NEW g \in Goroutines, StepOf(g)
  PROVE  TypesBut'
<1> USE DEF TypeOK, TypesBut
<1>n. NoCall \in Calls
  BY DEF Calls
<1>l. pc[g] # "idle" => call[g].addr \in Addr /\ call[g].flag \in BOOLEAN
  BY CallFacts
<1>1. CASE Acquire(g)
  BY <1>1 DEF Acquire, Calls, PCs
<1>2. CASE AcquireEasy(g)
  <2>1. val' \in [Addr -> 0 .. MaxVal + Cardinality(Goroutines)]
    BY <1>2, <1>l, Decremented DEF AcquireEasy
  <2>2. QED  BY <1>2, <1>n, <2>1 DEF AcquireEasy, PCs
<1>3. CASE AcquireAgain(g)
  <2>1. val' \in [Addr -> 0 .. MaxVal + Cardinality(Goroutines)]
    BY <1>3, <1>l, Decremented DEF AcquireAgain
  <2>2. QED  BY <1>3, <2>1 DEF AcquireAgain, PCs
<1>4. CASE AcquireAwake(g)
  <2>1. val' \in [Addr -> 0 .. MaxVal + Cardinality(Goroutines)]
    BY <1>4, <1>l, Decremented DEF AcquireAwake
  <2>2. QED  BY <1>4, <1>n, <2>1 DEF AcquireAwake, PCs
<1>5. CASE AcquireLock(g) \/ AcquireCount(g) \/ AcquireUndo(g) \/ AcquireUnlock(g)
  BY <1>5, <1>n DEF AcquireLock, AcquireCount, AcquireUndo, AcquireUnlock, PCs
<1>6. CASE AcquireSleep(g)
  <2>1. call[g].addr \in Addr /\ list[call[g].addr] \in Seq(Goroutines)
    BY <1>6, <1>l DEF AcquireSleep
  <2>2. <<g>> \o list[call[g].addr] \in Seq(Goroutines) /\ Append(list[call[g].addr], g) \in Seq(Goroutines)
    BY <2>1
  <2>3. list' \in [Addr -> Seq(Goroutines)]
    BY <1>6, <2>1, <2>2 DEF AcquireSleep
  <2>4. call[g].flag \in BOOLEAN /\ ticket' = [ticket EXCEPT ![g] = call[g].flag \/ list[call[g].addr] = <<>>]
    BY <1>6, <1>l DEF AcquireSleep
  <2>5. ticket' \in [Goroutines -> BOOLEAN]
    BY <2>4
  <2>6. QED  BY <1>6, <2>3, <2>5 DEF AcquireSleep, PCs
<1>7. CASE Release(g)
  <2>1. Cardinality(Goroutines) \in Nat /\ MaxVal \in Nat
    BY SemaAssumption, FS_CardinalityType
  <2>2. PICK a \in Addr, handoff \in BOOLEAN :
          /\ val[a] < MaxVal /\ val' = [val EXCEPT ![a] = @ + 1]
          /\ call' = [call EXCEPT ![g] = [op |-> "release", addr |-> a, flag |-> handoff]]
    BY <1>7 DEF Release
  <2>3. val' \in [Addr -> 0 .. MaxVal + Cardinality(Goroutines)]
    BY <2>1, <2>2
  <2>4. QED  BY <1>7, <2>2, <2>3 DEF Release, Calls, PCs
<1>8. CASE ReleaseCheck(g) \/ ReleaseLock(g) \/ ReleaseRecheck(g) \/ ReleaseCount(g) \/ ReleaseUnlock(g)
  BY <1>8, <1>n DEF ReleaseCheck, ReleaseLock, ReleaseRecheck, ReleaseCount, ReleaseUnlock, PCs
<1>9. CASE ReleaseDequeue(g)
  <2>1. CASE list[call[g].addr] = <<>>
    BY <1>9, <2>1 DEF ReleaseDequeue, PCs
  <2>2. CASE list[call[g].addr] # <<>>
    <3>1. call[g].addr \in Addr
      BY <1>9, <1>l DEF ReleaseDequeue
    <3>2. Head(list[call[g].addr]) \in Goroutines /\ Tail(list[call[g].addr]) \in Seq(Goroutines)
      BY <2>2, <3>1, HeadFacts
    <3>3. ticket' \in [Goroutines -> BOOLEAN]
      BY <1>9, <2>2 DEF ReleaseDequeue, Promote
    <3>4. QED  BY <1>9, <2>2, <3>1, <3>2, <3>3 DEF ReleaseDequeue, PCs
  <2>3. QED  BY <2>1, <2>2
<1>10. CASE ReleaseGrant(g)
  <2>1. s[g] # None
    BY <1>10 DEF ReleaseGrant, WakeesFit
  <2>2. val' \in [Addr -> 0 .. MaxVal + Cardinality(Goroutines)]
    BY <1>10, <1>l, Decremented DEF ReleaseGrant
  <2>3. ticket' \in [Goroutines -> BOOLEAN]
    BY <1>10, <2>1 DEF ReleaseGrant
  <2>4. QED  BY <1>10, <2>2, <2>3 DEF ReleaseGrant, PCs
<1>11. CASE ReleaseReady(g)
  <2>1. s[g] \in Goroutines
    BY <1>11 DEF ReleaseReady, WakeesFit
  <2>2. QED  BY <1>11, <1>n, <2>1 DEF ReleaseReady, PCs
<1>12. QED  BY <1>1, <1>2, <1>3, <1>4, <1>5, <1>6, <1>7, <1>8, <1>9, <1>10, <1>11 DEF StepOf, InCall

\* A step leaves everybody where its call takes it, and never throws.
LEMMA NextCallsFit ==
  ASSUME TypeOK, CallsFit, WakeesFit, NEW g \in Goroutines, StepOf(g)
  PROVE  CallsFit'
<1> USE DEF TypeOK, CallsFit, AcquirePCs, ReleasePCs, NoCall
<1>1. CASE Acquire(g)
  BY <1>1 DEF Acquire
<1>2. CASE AcquireEasy(g) \/ AcquireAgain(g) \/ AcquireAwake(g)
  BY <1>2 DEF AcquireEasy, AcquireAgain, AcquireAwake
<1>3. CASE AcquireLock(g) \/ AcquireCount(g) \/ AcquireUndo(g) \/ AcquireUnlock(g) \/ AcquireSleep(g)
  BY <1>3 DEF AcquireLock, AcquireCount, AcquireUndo, AcquireUnlock, AcquireSleep
<1>4. CASE Release(g)
  BY <1>4 DEF Release
<1>5. CASE ReleaseCheck(g) \/ ReleaseLock(g) \/ ReleaseRecheck(g) \/ ReleaseCount(g) \/ ReleaseUnlock(g)
  BY <1>5 DEF ReleaseCheck, ReleaseLock, ReleaseRecheck, ReleaseCount, ReleaseUnlock
<1>6. CASE ReleaseDequeue(g)
  BY <1>6 DEF ReleaseDequeue
<1>7. CASE ReleaseGrant(g)
  <2>1. ~ticket[s[g]]
    BY <1>7, WakeeFacts DEF ReleaseGrant, WakeesFit
  <2>2. QED  BY <1>7, <2>1 DEF ReleaseGrant
<1>8. CASE ReleaseReady(g)
  <2>1. s[g] \in Goroutines /\ s[g] # g /\ pc[s[g]] = "parked"
    BY <1>8, WakeeFacts DEF ReleaseReady, WakeesFit
  <2>2. QED  BY <1>8, <2>1 DEF ReleaseReady
<1>9. QED  BY <1>1, <1>2, <1>3, <1>4, <1>5, <1>6, <1>7, <1>8 DEF StepOf, InCall

\* The root lock excludes.
LEMMA NextLockIsHeld ==
  ASSUME TypeOK, LockIsHeld, WakeesFit, NEW g \in Goroutines, StepOf(g)
  PROVE  LockIsHeld'
<1> USE SemaAssumption DEF TypeOK, LockIsHeld, LockedPCs
<1>1. CASE Acquire(g) \/ AcquireEasy(g) \/ AcquireAgain(g) \/ AcquireAwake(g) \/ AcquireCount(g) \/ AcquireUndo(g)
  BY <1>1 DEF Acquire, AcquireEasy, AcquireAgain, AcquireAwake, AcquireCount, AcquireUndo
<1>2. CASE AcquireLock(g) \/ AcquireUnlock(g) \/ AcquireSleep(g)
  BY <1>2 DEF AcquireLock, AcquireUnlock, AcquireSleep
<1>3. CASE Release(g) \/ ReleaseCheck(g) \/ ReleaseRecheck(g) \/ ReleaseDequeue(g) \/ ReleaseCount(g) \/ ReleaseGrant(g)
  BY <1>3 DEF Release, ReleaseCheck, ReleaseRecheck, ReleaseDequeue, ReleaseCount, ReleaseGrant
<1>4. CASE ReleaseLock(g) \/ ReleaseUnlock(g)
  BY <1>4 DEF ReleaseLock, ReleaseUnlock
<1>5. CASE ReleaseReady(g)
  <2>1. s[g] \in Goroutines /\ s[g] # g /\ pc[s[g]] = "parked"
    BY <1>5, WakeeFacts DEF ReleaseReady, WakeesFit
  <2>2. QED  BY <1>5, <2>1 DEF ReleaseReady
<1>6. QED  BY <1>1, <1>2, <1>3, <1>4, <1>5 DEF StepOf, InCall

\* A step that leaves the lists alone.
LEMMA SameQueued ==
  ASSUME UNCHANGED list
  PROVE  \A h \in Goroutines : Queued(h)' <=> Queued(h)
BY DEF Queued

\* goparkunlock leaves one goroutine more on the list of its address.
LEMMA SleepQueues ==
  ASSUME TypeOK, CallsFit, ListsFit, NEW g \in Goroutines, AcquireSleep(g), NEW a, a = call[g].addr
  PROVE  /\ a \in Addr /\ g \notin Range(list[a]) /\ ~Queued(g)
         /\ list'[a] # <<>>
         /\ Range(list'[a]) = Range(list[a]) \cup {g} /\ IsInjective(list'[a])
         /\ \A b \in Addr : b # a => list'[b] = list[b]
         /\ \A h \in Goroutines : Queued(h)' <=> Queued(h) \/ h = g
<1>1. pc[g] = "enqueue" /\ a \in Addr /\ list[a] \in Seq(Goroutines) /\ IsInjective(list[a])
  BY CallFacts DEF AcquireSleep, ListsFit, TypeOK
<1>2. ~Queued(g) /\ g \notin Range(list[a])
  BY <1>1, QueuedFacts
<1>3. /\ list'[a] = IF call[g].flag THEN <<g>> \o list[a] ELSE Append(list[a], g)
      /\ \A b \in Addr : b # a => list'[b] = list[b]
  BY <1>1 DEF AcquireSleep, TypeOK
<1>4. Range(list'[a]) = Range(list[a]) \cup {g} /\ IsInjective(list'[a])
  BY <1>1, <1>2, <1>3, QueueAppend, QueuePush
<1>5. list'[a] # <<>>
  <2>1. <<g>> \o list[a] # <<>> /\ Append(list[a], g) # <<>>
    BY <1>1
  <2>2. QED  BY <1>3, <2>1
<1>6. \A h \in Goroutines : Queued(h)' <=> Queued(h) \/ h = g
  BY <1>1, <1>3, <1>4 DEF Queued
<1>7. QED  BY <1>1, <1>2, <1>3, <1>4, <1>5, <1>6

\* dequeue takes the first one off the list of the address.
LEMMA DequeueUnqueues ==
  ASSUME TypeOK, CallsFit, ListsFit, NEW g \in Goroutines, ReleaseDequeue(g),
         list[call[g].addr] # <<>>
  PROVE  \E a \in Addr, h \in Goroutines :
         /\ a = call[g].addr /\ h = Head(list[a]) /\ h # g
         /\ Queued(h) /\ pc[h] = "parked" /\ call[h].addr = a
         /\ pc' = [pc EXCEPT ![g] = "count"] /\ s' = [s EXCEPT ![g] = h]
         /\ ticket'[h] = FALSE
         /\ \A f \in Goroutines : ~Queued(f) => ticket'[f] = ticket[f]
         /\ Range(list'[a]) = Range(list[a]) \ {h} /\ IsInjective(list'[a])
         /\ \A b \in Addr : b # a => list'[b] = list[b]
         /\ \A f \in Goroutines : Queued(f)' <=> Queued(f) /\ f # h
<1>0. pc[g] = "dequeue" /\ call[g].addr \in Addr
  BY CallFacts DEF ReleaseDequeue
<1>h. PICK a \in Addr : a = call[g].addr
  BY <1>0
<1>1. pc[g] = "dequeue" /\ a \in Addr /\ list[a] \in Seq(Goroutines) /\ list[a] # <<>>
  BY <1>0, <1>h DEF TypeOK
<1>k. PICK h \in Goroutines : h = Head(list[a])
  BY <1>1, HeadFacts
<1>2. /\ h \in Goroutines /\ Queued(h) /\ pc[h] = "parked" /\ call[h].addr = a
      /\ Range(Tail(list[a])) = Range(list[a]) \ {h} /\ IsInjective(Tail(list[a]))
  BY <1>1, <1>k, HeadFacts
<1>3. /\ pc' = [pc EXCEPT ![g] = "count"] /\ s' = [s EXCEPT ![g] = h]
      /\ list' = [list EXCEPT ![a] = Tail(list[a])]
      /\ ticket' = Promote(list[a])
  BY <1>1, <1>h, <1>k DEF ReleaseDequeue
<1>4. list'[a] = Tail(list[a]) /\ \A b \in Addr : b # a => list'[b] = list[b]
  BY <1>1, <1>3 DEF TypeOK
<1>5. \A f \in Goroutines : Queued(f)' <=> Queued(f) /\ f # h
  <2>1. \A b \in Addr : b # a => h \notin Range(list[b])
    BY <1>2, QueuedFacts
  <2>2. QED  BY <1>1, <1>2, <1>4, <2>1 DEF Queued
<1>6. ticket'[h] = FALSE
  BY <1>2, <1>3, <1>k DEF Promote
<1>7. \A f \in Goroutines : ~Queued(f) => ticket'[f] = ticket[f]
  <2> SUFFICES ASSUME NEW f \in Goroutines, ~Queued(f)  PROVE  ticket'[f] = ticket[f]
    OBVIOUS
  <2>1. f \notin Range(list[a])
    BY <1>1 DEF Queued
  <2>2. Len(list[a]) > 1 => list[a][2] \in Range(list[a])
    <3>1. Len(list[a]) > 1 => 2 \in DOMAIN list[a]
      BY <1>1
    <3>2. QED  BY <3>1 DEF Range
  <2>3. f # Head(list[a]) /\ ~(Len(list[a]) > 1 /\ f = list[a][2])
    BY <1>1, <1>2, <1>k, <2>1, <2>2
  <2>4. ticket[f] \in BOOLEAN
    BY DEF TypeOK
  <2>5. QED  BY <1>3, <2>3, <2>4 DEF Promote
<1>8. QED
  <2>1. h # g
    BY <1>1, <1>2
  <2> WITNESS a \in Addr, h \in Goroutines
  <2>2. QED  BY <1>h, <1>k, <2>1, <1>2, <1>3, <1>4, <1>5, <1>6, <1>7

\* A step leaves on the lists who sleeps, on the address of its call, once.
LEMMA NextListsFit ==
  ASSUME TypeOK, CallsFit, ListsFit, WakeesFit, NEW g \in Goroutines, StepOf(g)
  PROVE  ListsFit'
<1>1. CASE AcquireSleep(g)
  <2> DEFINE a == call[g].addr
  <2>1. /\ a \in Addr /\ Range(list'[a]) = Range(list[a]) \cup {g} /\ IsInjective(list'[a])
        /\ \A b \in Addr : b # a => list'[b] = list[b]
        /\ ~Queued(g)
    BY <1>1, SleepQueues
  <2>2. pc' = [pc EXCEPT ![g] = "parked"] /\ call' = call
    BY <1>1 DEF AcquireSleep
  <2>3. \A b \in Addr : \A h \in Range(list[b]) : pc'[h] = "parked" /\ call'[h].addr = b
    BY <2>2 DEF ListsFit, TypeOK
  <2>4. \A h \in Range(list'[a]) : pc'[h] = "parked" /\ call'[h].addr = a
    BY <2>1, <2>2, <2>3 DEF TypeOK
  <2>5. QED  BY <2>1, <2>3, <2>4 DEF ListsFit
<1>2. CASE ReleaseDequeue(g) /\ list[call[g].addr] # <<>>
  <2>1. PICK a \in Addr, h \in Goroutines :
        /\ Range(list'[a]) = Range(list[a]) \ {h} /\ IsInjective(list'[a])
        /\ \A b \in Addr : b # a => list'[b] = list[b]
        /\ pc' = [pc EXCEPT ![g] = "count"]
    BY <1>2, DequeueUnqueues
  <2>2. pc[g] = "dequeue" /\ call' = call
    BY <1>2 DEF ReleaseDequeue
  <2>3. \A b \in Addr : \A f \in Range(list[b]) : pc'[f] = "parked" /\ call'[f].addr = b
    BY <2>1, <2>2 DEF ListsFit, TypeOK
  <2>4. QED  BY <2>1, <2>3 DEF ListsFit
<1>3. ASSUME UNCHANGED list,
             \A h \in Goroutines : pc[h] = "parked" /\ Queued(h) => pc'[h] = "parked" /\ call'[h] = call[h]
      PROVE  ListsFit'
  <2>1. \A a \in Addr : \A h \in Range(list[a]) : h \in Goroutines
    BY DEF TypeOK, Range
  <2>2. QED  BY <1>3, <2>1, QueuedFacts DEF ListsFit
<1>4. CASE ReleaseReady(g)
  <2>1. /\ s[g] \in Goroutines /\ s[g] # g /\ ~Queued(s[g]) /\ pc[g] = "goready"
    BY <1>4, WakeeFacts DEF ReleaseReady, WakeesFit
  <2>2. UNCHANGED list /\ pc' = [pc EXCEPT ![g] = "idle", ![s[g]] = "awake"] /\ call' = [call EXCEPT ![g] = NoCall]
    BY <1>4 DEF ReleaseReady
  <2>3. \A h \in Goroutines : pc[h] = "parked" /\ Queued(h) => pc'[h] = "parked" /\ call'[h] = call[h]
    BY <2>1, <2>2 DEF TypeOK
  <2>4. QED  BY <1>3, <2>2, <2>3
<1>5. CASE \/ Acquire(g) \/ AcquireEasy(g) \/ AcquireAgain(g) \/ AcquireAwake(g)
           \/ AcquireLock(g) \/ AcquireCount(g) \/ AcquireUndo(g) \/ AcquireUnlock(g)
  BY <1>3, <1>5 DEF Acquire, AcquireEasy, AcquireAgain, AcquireAwake,
                    AcquireLock, AcquireCount, AcquireUndo, AcquireUnlock, TypeOK
<1>6. CASE \/ Release(g) \/ ReleaseCheck(g) \/ ReleaseLock(g) \/ ReleaseRecheck(g)
           \/ ReleaseCount(g) \/ ReleaseUnlock(g) \/ ReleaseGrant(g)
           \/ (ReleaseDequeue(g) /\ list[call[g].addr] = <<>>)
  BY <1>3, <1>6 DEF Release, ReleaseCheck, ReleaseLock, ReleaseRecheck,
                    ReleaseCount, ReleaseUnlock, ReleaseGrant, ReleaseDequeue, TypeOK
<1>7. QED  BY <1>1, <1>2, <1>4, <1>5, <1>6 DEF StepOf, InCall

\* A step leaves each waiter that is off the lists to one releaser.
LEMMA NextWakeesFit ==
  ASSUME TypeOK, CallsFit, ListsFit, WakeesFit, NEW g \in Goroutines, StepOf(g)
  PROVE  WakeesFit'
<1> USE SemaAssumption
<1>s. \A h \in Goroutines : s[h] # None =>
        /\ s[h] \in Goroutines /\ s[h] # h
        /\ pc[s[h]] = "parked" /\ ~Queued(s[h]) /\ call[s[h]].addr = call[h].addr
        /\ pc[h] \in {"count", "runlock", "grant", "goready"}
        /\ pc[h] # "goready" => ~ticket[s[h]]
        /\ \A f \in Goroutines : s[f] = s[h] => f = h
  BY WakeeFacts
<1>r. \A h \in Goroutines : /\ pc[h] \in {"count", "grant", "goready"} => s[h] # None
                            /\ pc[h] = "parked" /\ ~Queued(h) => \E f \in Goroutines : s[f] = h
  BY DEF WakeesFit
<1>1. CASE AcquireSleep(g)
  <2>1. \A h \in Goroutines : Queued(h)' <=> Queued(h) \/ h = g
    BY <1>1, SleepQueues
  <2>2. /\ pc[g] = "enqueue" /\ pc' = [pc EXCEPT ![g] = "parked"] /\ UNCHANGED <<call, s>>
        /\ \A h \in Goroutines : h # g => ticket'[h] = ticket[h]
    BY <1>1 DEF AcquireSleep, TypeOK
  <2>3. QED  BY <1>s, <1>r, <2>1, <2>2 DEF WakeesFit, TypeOK
<1>2. CASE ReleaseDequeue(g) /\ list[call[g].addr] # <<>>
  <2>1. PICK a \in Addr, h \in Goroutines :
        /\ a = call[g].addr /\ h # g
        /\ Queued(h) /\ pc[h] = "parked" /\ call[h].addr = a
        /\ pc' = [pc EXCEPT ![g] = "count"] /\ s' = [s EXCEPT ![g] = h]
        /\ ticket'[h] = FALSE
        /\ \A f \in Goroutines : ~Queued(f) => ticket'[f] = ticket[f]
        /\ \A f \in Goroutines : Queued(f)' <=> Queued(f) /\ f # h
    BY <1>2, DequeueUnqueues
  <2>2. pc[g] = "dequeue" /\ call' = call
    BY <1>2 DEF ReleaseDequeue
  <2>3. \A f \in Goroutines : s[f] # h
    BY <1>s, <2>1
  <2>4. /\ pc'[g] = "count" /\ s'[g] = h /\ s[g] = None
        /\ \A f \in Goroutines : f # g => pc'[f] = pc[f] /\ s'[f] = s[f]
    <3>1. pc' = [pc EXCEPT ![g] = "count"] /\ s' = [s EXCEPT ![g] = h]
      BY <2>1
    <3>2. s[g] = None
      BY <1>s, <2>2
    <3>3. QED  BY <3>1, <3>2 DEF TypeOK
  <2>5. ASSUME NEW f \in Goroutines, s'[f] # None
        PROVE  /\ pc'[f] \in {"count", "runlock", "grant", "goready"}
               /\ pc'[s'[f]] = "parked" /\ call'[s'[f]].addr = call'[f].addr
               /\ s'[f] \in Goroutines /\ \A e \in Goroutines : e = s'[f] => ~Queued(e)'
               /\ pc'[f] # "goready" => ~ticket'[s'[f]]
               /\ \A e \in Goroutines : s'[e] = s'[f] => e = f
    <3>1. CASE f = g
      BY <2>1, <2>2, <2>3, <2>4, <3>1 DEF TypeOK
    <3>2. CASE f # g
      <4>1. s[f] # None /\ s'[f] = s[f] /\ s[f] # h /\ s[f] \in Goroutines /\ ~Queued(s[f]) /\ pc[s[f]] = "parked"
        BY <1>s, <2>3, <2>4, <2>5, <3>2
      <4>2. s[f] # g
        BY <2>2, <4>1
      <4>3. QED  BY <1>s, <2>1, <2>2, <2>4, <3>2, <4>1, <4>2
    <3>3. QED  BY <3>1, <3>2
  <2>6. \A f \in Goroutines : /\ pc'[f] \in {"count", "grant", "goready"} => s'[f] # None
                              /\ pc'[f] = "parked" /\ ~Queued(f)' => \E e \in Goroutines : s'[e] = f
    <3>1. ASSUME NEW f \in Goroutines, pc'[f] = "parked", ~Queued(f)'
          PROVE  \E e \in Goroutines : s'[e] = f
      <4>1. CASE f = h
        BY <2>4, <4>1
      <4>2. CASE f # h
        <5>1. f # g /\ pc[f] = "parked" /\ ~Queued(f)
          BY <2>1, <2>4, <3>1, <4>2
        <5>2. PICK e \in Goroutines : s[e] = f
          BY <1>r, <5>1
        <5>3. s[e] # None
          BY <5>2
        <5>4. e # g
          BY <2>4, <5>3
        <5>5. QED  BY <2>4, <5>2, <5>4
      <4>3. QED  BY <4>1, <4>2
    <3>2. \A f \in Goroutines : pc'[f] \in {"count", "grant", "goready"} => s'[f] # None
      BY <1>r, <2>1, <2>4
    <3>3. QED  BY <3>1, <3>2
  <2>7. QED  BY <2>5, <2>6 DEF WakeesFit
<1>3. CASE ReleaseGrant(g)
  <2>1. /\ pc[g] = "grant" /\ pc' = [pc EXCEPT ![g] = IF ticket[s[g]] THEN "throw" ELSE "goready"] /\ UNCHANGED <<list, call, s>>
        /\ \A h \in Goroutines : h # s[g] => ticket'[h] = ticket[h]
    BY <1>3 DEF ReleaseGrant, TypeOK
  <2>2. s[g] # None /\ ~ticket[s[g]]
    BY <1>s, <1>r, <2>1
  <2>3. \A h \in Goroutines : Queued(h)' <=> Queued(h)
    BY <2>1, SameQueued
  <2>4. QED  BY <1>s, <1>r, <2>1, <2>2, <2>3 DEF WakeesFit, TypeOK
<1>4. CASE ReleaseReady(g)
  <2>1. s[g] \in Goroutines /\ s[g] # g /\ pc[g] = "goready"
    BY <1>s, <1>r, <1>4 DEF ReleaseReady
  <2>2. /\ UNCHANGED <<list, ticket>> /\ pc' = [pc EXCEPT ![g] = "idle", ![s[g]] = "awake"]
        /\ call' = [call EXCEPT ![g] = NoCall] /\ s' = [s EXCEPT ![g] = None]
    BY <1>4 DEF ReleaseReady
  <2>3. \A h \in Goroutines : Queued(h)' <=> Queued(h)
    BY <2>2, SameQueued
  <2>4. /\ \A h \in Goroutines : h # g => s'[h] = s[h] /\ call'[h] = call[h]
        /\ \A h \in Goroutines : h # g /\ h # s[g] => pc'[h] = pc[h]
        /\ s'[g] = None /\ pc'[g] = "idle" /\ pc'[s[g]] = "awake"
    BY <2>1, <2>2 DEF TypeOK
  <2>5. ASSUME NEW f \in Goroutines, s'[f] # None
        PROVE  /\ pc'[f] \in {"count", "runlock", "grant", "goready"}
               /\ pc'[s'[f]] = "parked" /\ call'[s'[f]].addr = call'[f].addr
               /\ s'[f] \in Goroutines /\ \A e \in Goroutines : e = s'[f] => ~Queued(e)'
               /\ pc'[f] # "goready" => ~ticket'[s'[f]]
               /\ \A e \in Goroutines : s'[e] = s'[f] => e = f
    <3>1. f # g /\ s'[f] = s[f] /\ s[f] # None /\ s[f] # s[g]
      BY <1>s, <2>1, <2>4, <2>5
    <3>2. s[f] \in Goroutines /\ pc[s[f]] = "parked" /\ s[f] # g /\ f # s[g]
      BY <1>s, <2>1, <3>1
    <3>3. pc'[f] = pc[f] /\ pc'[s[f]] = pc[s[f]] /\ call'[f] = call[f] /\ call'[s[f]] = call[s[f]]
      BY <2>4, <3>1, <3>2
    <3>4. \A e \in Goroutines : s'[e] = s'[f] => e = f
      BY <1>s, <2>4, <3>1, <3>2
    <3>5. \A e \in Goroutines : e = s'[f] => ~Queued(e)'
      BY <1>s, <2>3, <3>1
    <3>6. QED  BY <1>s, <2>2, <3>1, <3>2, <3>3, <3>4, <3>5
  <2>6. \A f \in Goroutines : /\ pc'[f] \in {"count", "grant", "goready"} => s'[f] # None
                              /\ pc'[f] = "parked" /\ ~Queued(f)' => \E e \in Goroutines : s'[e] = f
    <3>1. ASSUME NEW f \in Goroutines, pc'[f] = "parked", ~Queued(f)'
          PROVE  \E e \in Goroutines : s'[e] = f
      <4>1. f # g /\ f # s[g]
        BY <2>4, <3>1
      <4>2. PICK e \in Goroutines : s[e] = f
        BY <1>r, <2>3, <2>4, <3>1, <4>1
      <4>3. QED  BY <2>4, <4>1, <4>2
    <3>2. \A f \in Goroutines : pc'[f] \in {"count", "grant", "goready"} => s'[f] # None
      BY <1>r, <2>4
    <3>3. QED  BY <3>1, <3>2
  <2>7. QED  BY <2>5, <2>6 DEF WakeesFit
<1>5. ASSUME UNCHANGED <<list, s>>, NEW to \in PCs, pc' = [pc EXCEPT ![g] = to], pc[g] # "parked", to # "parked",
             \A h \in Goroutines : h # g => call'[h] = call[h] /\ ticket'[h] = ticket[h],
             s[g] # None => call'[g] = call[g] /\ to \in {"runlock", "grant"} /\ pc[g] # "goready",
             s[g] = None => to \notin {"count", "grant", "goready"}
      PROVE  WakeesFit'
  <2>1. \A h \in Goroutines : Queued(h)' <=> Queued(h)
    BY <1>5, SameQueued
  <2>2. QED  BY <1>s, <1>r, <1>5, <2>1 DEF WakeesFit, TypeOK
<1>6. CASE \/ Acquire(g) \/ AcquireEasy(g) \/ AcquireAgain(g) \/ AcquireAwake(g)
           \/ AcquireLock(g) \/ AcquireCount(g) \/ AcquireUndo(g) \/ AcquireUnlock(g)
  <2>1. PICK to \in {"idle", "easy", "alock", "nwait", "again", "undo", "aunlock", "enqueue"} :
          pc' = [pc EXCEPT ![g] = to]
    BY <1>6 DEF Acquire, AcquireEasy, AcquireAgain, AcquireAwake, AcquireLock, AcquireCount, AcquireUndo, AcquireUnlock
  <2>2. /\ pc[g] \in {"idle", "easy", "awake", "alock", "nwait", "again", "undo", "aunlock"}
        /\ UNCHANGED <<list, s>>
        /\ \A h \in Goroutines : h # g => call'[h] = call[h] /\ ticket'[h] = ticket[h]
    BY <1>6 DEF Acquire, AcquireEasy, AcquireAgain, AcquireAwake, AcquireLock, AcquireCount, AcquireUndo, AcquireUnlock, TypeOK
  <2>3. s[g] = None /\ to \in PCs
    BY <1>s, <2>2 DEF PCs
  <2>4. QED  BY <1>5, <2>1, <2>2, <2>3
<1>7. CASE Release(g) \/ ReleaseCheck(g) \/ ReleaseLock(g) \/ ReleaseRecheck(g)
           \/ (ReleaseDequeue(g) /\ list[call[g].addr] = <<>>)
  <2>1. PICK to \in {"check", "idle", "rlock", "recheck", "runlock", "dequeue"} : pc' = [pc EXCEPT ![g] = to]
    BY <1>7 DEF Release, ReleaseCheck, ReleaseLock, ReleaseRecheck, ReleaseDequeue
  <2>2. /\ pc[g] \in {"idle", "check", "rlock", "recheck", "dequeue"}
        /\ UNCHANGED <<list, s>>
        /\ \A h \in Goroutines : h # g => call'[h] = call[h] /\ ticket'[h] = ticket[h]
    BY <1>7 DEF Release, ReleaseCheck, ReleaseLock, ReleaseRecheck, ReleaseDequeue, TypeOK
  <2>3. s[g] = None /\ to \in PCs
    BY <1>s, <2>2 DEF PCs
  <2>4. QED  BY <1>5, <2>1, <2>2, <2>3
<1>8. CASE ReleaseCount(g) \/ ReleaseUnlock(g)
  <2>1. PICK to \in {"runlock", "idle", "grant"} :
          /\ pc' = [pc EXCEPT ![g] = to]
          /\ s[g] # None => to # "idle" /\ call' = call
          /\ s[g] = None => to \in {"runlock", "idle"}
    BY <1>8 DEF ReleaseCount, ReleaseUnlock
  <2>2. /\ pc[g] \in {"count", "runlock"}
        /\ UNCHANGED <<list, s>>
        /\ \A h \in Goroutines : h # g => call'[h] = call[h] /\ ticket'[h] = ticket[h]
    BY <1>8 DEF ReleaseCount, ReleaseUnlock, TypeOK
  <2>3. to \in PCs
    BY DEF PCs
  <2>4. QED  BY <1>5, <2>1, <2>2, <2>3
<1>9. QED  BY <1>1, <1>2, <1>3, <1>4, <1>6, <1>7, <1>8 DEF StepOf, InCall

\* One element that takes the place of another.
LEMMA OneForAnother ==
  ASSUME NEW S, NEW T, NEW g, NEW h, IsFiniteSet(S), h \in S, g \notin S,
         \A e : e \in T <=> (e \in S /\ e # h) \/ e = g
  PROVE  Cardinality(T) = Cardinality(S) /\ Cardinality(S) \in Nat
<1>1. T = (S \ {h}) \cup {g} /\ IsFiniteSet(S \ {h}) /\ g \notin S \ {h}
  BY FS_Subset
<1>2. Cardinality(S) \in Nat /\ Cardinality(S \ {h}) = Cardinality(S) - 1
  BY FS_CardinalityType, FS_RemoveElement
<1>3. Cardinality((S \ {h}) \cup {g}) = Cardinality(S \ {h}) + 1
  BY <1>1, FS_AddElement
<1>4. QED  BY <1>1, <1>2, <1>3

\* The counted goroutines are finitely many, at most all.
LEMMA CountedFinite ==
  /\ IsFiniteSet(Counted) /\ Cardinality(Counted) \in Nat
  /\ Cardinality(Counted) <= Cardinality(Goroutines) /\ Cardinality(Goroutines) \in Nat
<1>1. Counted \subseteq Goroutines
  BY DEF Counted
<1>2. QED  BY <1>1, SemaAssumption, FS_Subset, FS_CardinalityType

\* nwait counts the same goroutines after a step, or the one that comes or goes.
LEMMA NextNwaitIsExact ==
  ASSUME TypeOK, CallsFit, LockIsHeld, ListsFit, WakeesFit, NwaitIsExact, NEW g \in Goroutines, StepOf(g)
  PROVE  NwaitIsExact'
<1>0. IsFiniteSet(Counted) /\ nwait = Cardinality(Counted) /\ Cardinality(Counted) \in Nat
  BY CountedFinite DEF NwaitIsExact
<1>1. ASSUME nwait' = nwait, \A h \in Goroutines : h \in Counted' <=> h \in Counted
      PROVE  NwaitIsExact'
  <2>1. Counted' = Counted
    BY <1>1 DEF Counted
  <2>2. QED  BY <1>0, <1>1, <2>1 DEF NwaitIsExact
<1>2. CASE AcquireCount(g)
  <2>1. /\ pc[g] = "nwait" /\ pc' = [pc EXCEPT ![g] = "again"] /\ UNCHANGED list /\ nwait' = nwait + 1
    BY <1>2 DEF AcquireCount
  <2>2. \A h \in Goroutines : Queued(h)' <=> Queued(h)
    BY <2>1, SameQueued
  <2>3. ~Queued(g)
    BY <2>1, QueuedFacts
  <2>4. g \in Counted' /\ g \notin Counted /\ \A h : h # g => (h \in Counted' <=> h \in Counted)
    BY <2>1, <2>2, <2>3 DEF Counted, TypeOK
  <2>5. Cardinality(Counted') = Cardinality(Counted) - 0 + 1
    BY <1>0, <2>4, OneMoves
  <2>6. QED  BY <1>0, <2>1, <2>5 DEF NwaitIsExact
<1>3. CASE AcquireUndo(g) \/ ReleaseCount(g)
  <2>1. /\ pc[g] \in {"undo", "count"} /\ UNCHANGED list /\ nwait' = nwait - 1
        /\ pc' = [pc EXCEPT ![g] = "aunlock"] \/ pc' = [pc EXCEPT ![g] = "runlock"]
    BY <1>3 DEF AcquireUndo, ReleaseCount
  <2>2. \A h \in Goroutines : Queued(h)' <=> Queued(h)
    BY <2>1, SameQueued
  <2>3. ~Queued(g)
    BY <2>1, QueuedFacts
  <2>4. g \notin Counted' /\ g \in Counted /\ \A h : h # g => (h \in Counted' <=> h \in Counted)
    BY <2>1, <2>2, <2>3 DEF Counted, TypeOK
  <2>5. Cardinality(Counted') = Cardinality(Counted) - 1 + 0
    BY <1>0, <2>4, OneMoves
  <2>6. QED  BY <1>0, <2>1, <2>5 DEF NwaitIsExact
<1>4. CASE AcquireSleep(g)
  <2>1. pc[g] = "enqueue" /\ pc' = [pc EXCEPT ![g] = "parked"] /\ nwait' = nwait
    BY <1>4 DEF AcquireSleep
  <2>2. \A h \in Goroutines : Queued(h)' <=> Queued(h) \/ h = g
    BY <1>4, SleepQueues
  <2>3. \A h \in Goroutines : h \in Counted' <=> h \in Counted
    BY <2>1, <2>2 DEF Counted, TypeOK
  <2>4. QED  BY <1>1, <2>1, <2>3
<1>5. CASE ReleaseDequeue(g) /\ list[call[g].addr] # <<>>
  <2>1. PICK a \in Addr, h \in Goroutines :
        /\ h # g /\ Queued(h) /\ pc[h] = "parked"
        /\ pc' = [pc EXCEPT ![g] = "count"]
        /\ \A f \in Goroutines : Queued(f)' <=> Queued(f) /\ f # h
    BY <1>5, DequeueUnqueues
  <2>2. pc[g] = "dequeue" /\ nwait' = nwait
    BY <1>5 DEF ReleaseDequeue
  <2>3. ~Queued(g)
    BY <2>2, QueuedFacts
  <2>4. h \in Counted /\ g \notin Counted /\ \A e : e \in Counted' <=> (e \in Counted /\ e # h) \/ e = g
    BY <2>1, <2>2, <2>3 DEF Counted, TypeOK
  <2>5. Cardinality(Counted') = Cardinality(Counted)
    BY <1>0, <2>4, OneForAnother
  <2>6. QED  BY <1>0, <2>2, <2>5 DEF NwaitIsExact
<1>6. CASE ReleaseReady(g)
  <2>1. s[g] \in Goroutines /\ s[g] # g /\ pc[s[g]] = "parked" /\ ~Queued(s[g])
    BY <1>6, WakeeFacts DEF ReleaseReady, WakeesFit
  <2>2. /\ UNCHANGED list /\ pc[g] = "goready" /\ pc' = [pc EXCEPT ![g] = "idle", ![s[g]] = "awake"]
        /\ nwait' = nwait
    BY <1>6 DEF ReleaseReady
  <2>3. \A h \in Goroutines : Queued(h)' <=> Queued(h)
    BY <2>2, SameQueued
  <2>4. \A h \in Goroutines : h \in Counted' <=> h \in Counted
    BY <2>1, <2>2, <2>3 DEF Counted, TypeOK
  <2>5. QED  BY <1>1, <2>2, <2>4
<1>7. ASSUME nwait' = nwait, UNCHANGED list, NEW to, pc' = [pc EXCEPT ![g] = to],
             to \in {"again", "undo", "enqueue", "count"} <=> pc[g] \in {"again", "undo", "enqueue", "count"}
      PROVE  NwaitIsExact'
  <2>1. \A h \in Goroutines : Queued(h)' <=> Queued(h)
    BY <1>7, SameQueued
  <2>2. \A h \in Goroutines : h \in Counted' <=> h \in Counted
    BY <1>7, <2>1 DEF Counted, TypeOK
  <2>3. QED  BY <1>1, <1>7, <2>2
<1>8. CASE \/ Acquire(g) \/ AcquireEasy(g) \/ AcquireAwake(g) \/ AcquireLock(g) \/ AcquireUnlock(g)
           \/ Release(g) \/ ReleaseCheck(g) \/ ReleaseLock(g) \/ ReleaseRecheck(g) \/ ReleaseUnlock(g) \/ ReleaseGrant(g)
           \/ (ReleaseDequeue(g) /\ list[call[g].addr] = <<>>)
  <2>1. PICK to \in {"easy", "idle", "alock", "nwait", "check", "rlock", "recheck", "runlock", "dequeue", "grant", "throw", "goready"} :
          pc' = [pc EXCEPT ![g] = to]
    BY <1>8 DEF Acquire, AcquireEasy, AcquireAwake, AcquireLock, AcquireUnlock,
                Release, ReleaseCheck, ReleaseLock, ReleaseRecheck, ReleaseUnlock, ReleaseGrant, ReleaseDequeue
  <2>2. /\ pc[g] \in {"idle", "easy", "awake", "alock", "aunlock", "check", "rlock", "recheck", "runlock", "grant", "dequeue"}
        /\ nwait' = nwait /\ UNCHANGED list
    BY <1>8 DEF Acquire, AcquireEasy, AcquireAwake, AcquireLock, AcquireUnlock,
                Release, ReleaseCheck, ReleaseLock, ReleaseRecheck, ReleaseUnlock, ReleaseGrant, ReleaseDequeue
  <2>3. QED  BY <1>7, <2>1, <2>2
<1>9. CASE AcquireAgain(g)
  <2>1. PICK to \in {"undo", "enqueue"} : pc' = [pc EXCEPT ![g] = to]
    BY <1>9 DEF AcquireAgain
  <2>2. pc[g] = "again" /\ nwait' = nwait /\ UNCHANGED list
    BY <1>9 DEF AcquireAgain
  <2>3. QED  BY <1>7, <2>1, <2>2
<1>10. QED  BY <1>2, <1>3, <1>4, <1>5, <1>6, <1>8, <1>9 DEF StepOf, InCall

\* So nwait keeps its type, and with it all the variables do.
LEMMA NextTypeOK ==
  ASSUME TypesBut', NwaitIsExact'
  PROVE  TypeOK'
<1>1. /\ Cardinality(Counted') \in Nat /\ Cardinality(Goroutines) \in Nat
      /\ Cardinality(Counted') <= Cardinality(Goroutines)
  <2>1. Counted' \subseteq Goroutines
    BY DEF Counted
  <2>2. QED  BY <2>1, SemaAssumption, FS_Subset, FS_CardinalityType
<1>2. nwait' \in 0 .. Cardinality(Goroutines)
  BY <1>1 DEF NwaitIsExact
<1>3. QED  BY <1>2 DEF TypesBut, TypeOK

-----------------------------------------------------------------------------
(* No missed wakeup. *)

\* Wakeups that stay, come with a count or go with one, or change hands.
LEMMA WakeupsSuffice ==
  ASSUME NEW W, NEW W2, IsFiniteSet(W), NEW v \in Nat, NEW v2 \in Nat,
         \/ v2 = 0
         \/ /\ v <= Cardinality(W)
            /\ \/ v2 <= v /\ W2 = W
               \/ v2 = v + 1 /\ \E g : g \notin W /\ W2 = W \cup {g}
               \/ v2 = v - 1 /\ \E g : g \in W /\ W2 = W \ {g}
               \/ v2 = v /\ \E g, h : g \in W /\ h \notin W /\ \A e : e \in W2 <=> (e \in W /\ e # g) \/ e = h,
         IsFiniteSet(W2)
  PROVE  v2 <= Cardinality(W2)
<1>1. Cardinality(W) \in Nat /\ Cardinality(W2) \in Nat
  BY FS_CardinalityType
<1>2. CASE v2 = 0
  BY <1>1, <1>2
<1>3. CASE v <= Cardinality(W) /\ v2 <= v /\ W2 = W
  BY <1>1, <1>3
<1>4. ASSUME v <= Cardinality(W), v2 = v + 1, NEW g, g \notin W, W2 = W \cup {g}
      PROVE  v2 <= Cardinality(W2)
  BY <1>1, <1>4, FS_AddElement
<1>5. ASSUME v <= Cardinality(W), v2 = v - 1, NEW g, g \in W, W2 = W \ {g}
      PROVE  v2 <= Cardinality(W2)
  BY <1>1, <1>5, FS_RemoveElement
<1>6. ASSUME v <= Cardinality(W), v2 = v, NEW g, NEW h, g \in W, h \notin W,
             \A e : e \in W2 <=> (e \in W /\ e # g) \/ e = h
      PROVE  v2 <= Cardinality(W2)
  BY <1>1, <1>6, OneForAnother
<1>7. QED  BY <1>2, <1>3, <1>4, <1>5, <1>6

\* nwait is read 0 only when nobody waits.
LEMMA NobodyCounted ==
  ASSUME TypeOK, ListsFit, NwaitIsExact, nwait = 0
  PROVE  \A a \in Addr : ~WaitedFor(a)
<1>1. Counted = {}
  BY CountedFinite, FS_EmptySet DEF NwaitIsExact
<1>2. \A a \in Addr : list[a] # <<>> => Queued(Head(list[a])) /\ Head(list[a]) \in Goroutines
  BY HeadFacts
<1>3. QED  BY <1>1, <1>2 DEF WaitedFor, Counted

\* Each count that is waited for keeps a wakeup of its own.
LEMMA NextCountsMove ==
  ASSUME TypeOK, TypesBut', CallsFit, LockIsHeld, ListsFit, WakeesFit, NwaitIsExact, CountsMove,
         NEW g \in Goroutines, StepOf(g)
  PROVE  CountsMove'
<1> SUFFICES ASSUME NEW a \in Addr, WaitedFor(a)'
             PROVE  val'[a] <= Cardinality(WakeupsFor(a)')
  BY DEF CountsMove
<1>v. val[a] \in Nat /\ val'[a] \in Nat /\ MaxVal + Cardinality(Goroutines) \in Nat
  <2>1. MaxVal + Cardinality(Goroutines) \in Nat
    BY SemaAssumption, FS_CardinalityType
  <2>2. QED  BY <2>1 DEF TypeOK, TypesBut
<1>f. IsFiniteSet(WakeupsFor(a)) /\ IsFiniteSet(WakeupsFor(a)')
  <2>1. WakeupsFor(a) \subseteq Goroutines /\ WakeupsFor(a)' \subseteq Goroutines
    BY DEF WakeupsFor
  <2>2. QED  BY <2>1, SemaAssumption, FS_Subset
<1>w. WaitedFor(a) => val[a] <= Cardinality(WakeupsFor(a))
  BY DEF CountsMove
<1>c. pc[g] # "idle" => call[g] # NoCall /\ call[g].addr \in Addr
  BY CallFacts
<1> DEFINE W == WakeupsFor(a)
           W2 == WakeupsFor(a)'
<1> HIDE DEF W, W2
<1>W. W = WakeupsFor(a) /\ W2 = WakeupsFor(a)'
  BY DEF W, W2
<1>0. \/ val'[a] = 0
      \/ /\ val[a] <= Cardinality(W)
         /\ \/ val'[a] <= val[a] /\ W2 = W
            \/ val'[a] = val[a] + 1 /\ \E h : h \notin W /\ W2 = W \cup {h}
            \/ val'[a] = val[a] - 1 /\ \E h : h \in W /\ W2 = W \ {h}
            \/ val'[a] = val[a] /\ \E f, h : f \in W /\ h \notin W /\ \A e : e \in W2 <=> (e \in W /\ e # f) \/ e = h
  <2>1. ASSUME UNCHANGED list, NEW to, pc' = [pc EXCEPT ![g] = to],
               \A h \in Goroutines : h # g => call'[h] = call[h] /\ ticket'[h] = ticket[h]
        PROVE  /\ \A h : h # g => (h \in W2 <=> h \in W)
               /\ g \in W2 => W2 = W \cup {g}
               /\ g \notin W2 => W2 = W \ {g}
    <3>1. \A h \in Goroutines : Queued(h)' <=> Queued(h)
      BY <2>1, SameQueued
    <3>2. \A h : h # g => (h \in W2 <=> h \in W)
      BY <2>1, <3>1, <1>W DEF WakeupsFor, TypeOK
    <3>3. QED  BY <3>2
  <2>2. ASSUME UNCHANGED list, NEW to, pc' = [pc EXCEPT ![g] = to], to # "enqueue",
               \A h \in Goroutines : h # g => call'[h] = call[h]
        PROVE  WaitedFor(a)
    BY <2>2 DEF WaitedFor, TypeOK
  <2>3. CASE Acquire(g)
    <3>1. /\ pc' = [pc EXCEPT ![g] = "easy"] /\ pc[g] = "idle" /\ UNCHANGED <<list, val, ticket>>
          /\ \A h \in Goroutines : h # g => call'[h] = call[h]
      BY <2>3 DEF Acquire, TypeOK
    <3>2. g \notin W /\ g \notin W2
      BY <3>1, <1>W DEF WakeupsFor, TypeOK
    <3>3. WaitedFor(a)
      BY <2>2, <3>1
    <3>4. W2 = W
      BY <2>1, <3>1, <3>2
    <3>5. QED  BY <3>1, <3>3, <3>4, <1>w, <1>v, <1>W
  <2>4. CASE AcquireEasy(g)
    <3>1. PICK to \in {"idle", "alock"} : pc' = [pc EXCEPT ![g] = to]
      BY <2>4 DEF AcquireEasy
    <3>2. /\ pc[g] = "easy" /\ UNCHANGED list
          /\ \A h \in Goroutines : h # g => call'[h] = call[h] /\ ticket'[h] = ticket[h]
      BY <2>4 DEF AcquireEasy, TypeOK
    <3>3. g \notin W /\ g \notin W2
      BY <3>1, <3>2, <1>W DEF WakeupsFor, TypeOK
    <3>4. WaitedFor(a) /\ W2 = W
      BY <2>1, <2>2, <3>1, <3>2, <3>3
    <3>5. val'[a] <= val[a]
      BY <2>4, <1>v, <1>c, Decremented DEF AcquireEasy
    <3>6. QED  BY <3>4, <3>5, <1>w, <1>W
  <2>5. CASE AcquireAgain(g)
    <3>1. PICK to \in {"undo", "enqueue"} : pc' = [pc EXCEPT ![g] = to]
      BY <2>5 DEF AcquireAgain
    <3>2. pc[g] = "again" /\ UNCHANGED <<list, call, ticket>>
      BY <2>5 DEF AcquireAgain
    <3>3. g \notin W /\ g \notin W2
      BY <3>1, <3>2, <1>W DEF WakeupsFor, TypeOK
    <3>4. W2 = W
      BY <2>1, <3>1, <3>2, <3>3
    <3>5. val'[a] <= val[a]
      BY <2>5, <1>v, <1>c, <3>2, Decremented DEF AcquireAgain
    <3>6. CASE WaitedFor(a)
      BY <3>4, <3>5, <3>6, <1>w, <1>W
    <3>7. CASE ~WaitedFor(a)
      <4>1. call[g].addr = a /\ pc'[g] = "enqueue"
        BY <3>1, <3>2, <3>7 DEF WaitedFor, TypeOK
      <4>2. ~(val[a] > 0) /\ val' = val
        BY <2>5, <4>1 DEF AcquireAgain, TypeOK
      <4>3. QED  BY <4>2, <1>v
    <3>8. QED  BY <3>6, <3>7
  <2>6. CASE AcquireAwake(g)
    <3>1. PICK to \in {"idle", "alock"} : pc' = [pc EXCEPT ![g] = to]
      BY <2>6 DEF AcquireAwake
    <3>2. /\ pc[g] = "awake" /\ UNCHANGED <<list, ticket>>
          /\ \A h \in Goroutines : h # g => call'[h] = call[h]
      BY <2>6 DEF AcquireAwake, TypeOK
    <3>3. /\ g \notin W2
          /\ g \in W <=> ~ticket[g] /\ call[g].addr = a
      BY <3>1, <3>2, <1>c, <1>W DEF WakeupsFor, TypeOK
    <3>4. WaitedFor(a) /\ W2 = W \ {g}
      BY <2>1, <2>2, <3>1, <3>2, <3>3
    <3>5. CASE g \notin W
      <4>1. val'[a] <= val[a]
        BY <2>6, <1>v, <1>c, <3>2, Decremented DEF AcquireAwake
      <4>2. QED  BY <3>4, <3>5, <4>1, <1>w, <1>W
    <3>6. CASE g \in W
      <4>1. val'[a] = 0 \/ val'[a] = val[a] - 1
        BY <2>6, <1>v, <3>3, <3>6, Decremented DEF AcquireAwake
      <4>2. QED  BY <3>4, <3>6, <4>1, <1>w, <1>W
    <3>7. QED  BY <3>5, <3>6
  <2>7. CASE AcquireLock(g) \/ AcquireCount(g) \/ AcquireUndo(g) \/ AcquireUnlock(g)
    <3>1. PICK to \in {"nwait", "again", "aunlock", "idle"} : pc' = [pc EXCEPT ![g] = to]
      BY <2>7 DEF AcquireLock, AcquireCount, AcquireUndo, AcquireUnlock
    <3>2. /\ pc[g] \in {"alock", "nwait", "undo", "aunlock"} /\ UNCHANGED <<list, val, ticket>>
          /\ \A h \in Goroutines : h # g => call'[h] = call[h]
      BY <2>7 DEF AcquireLock, AcquireCount, AcquireUndo, AcquireUnlock, TypeOK
    <3>3. g \notin W /\ g \notin W2
      BY <3>1, <3>2, <1>W DEF WakeupsFor, TypeOK
    <3>4. WaitedFor(a) /\ W2 = W
      BY <2>1, <2>2, <3>1, <3>2, <3>3
    <3>5. QED  BY <3>2, <3>4, <1>w, <1>v, <1>W
  <2>8. CASE AcquireSleep(g)
    <3>1. /\ pc[g] = "enqueue" /\ pc' = [pc EXCEPT ![g] = "parked"] /\ UNCHANGED <<val, call>>
          /\ \A h \in Goroutines : h # g => ticket'[h] = ticket[h]
      BY <2>8 DEF AcquireSleep, TypeOK
    <3>2. /\ \A h \in Goroutines : Queued(h)' <=> Queued(h) \/ h = g
          /\ \A b \in Addr : b # call[g].addr => list'[b] = list[b]
      BY <2>8, SleepQueues
    <3>3. W2 = W
      BY <3>1, <3>2, <1>W DEF WakeupsFor, TypeOK
    <3>4. WaitedFor(a)
      <4>1. CASE a = call[g].addr
        BY <3>1, <4>1 DEF WaitedFor
      <4>2. CASE a # call[g].addr
        BY <3>1, <3>2, <4>2 DEF WaitedFor, TypeOK
      <4>3. QED  BY <4>1, <4>2
    <3>5. QED  BY <3>1, <3>3, <3>4, <1>w, <1>v, <1>W
  <2>9. CASE Release(g)
    <3>1. PICK b \in Addr, handoff \in BOOLEAN :
            /\ val' = [val EXCEPT ![b] = @ + 1]
            /\ call' = [call EXCEPT ![g] = [op |-> "release", addr |-> b, flag |-> handoff]]
      BY <2>9 DEF Release
    <3>2. pc' = [pc EXCEPT ![g] = "check"] /\ pc[g] = "idle" /\ UNCHANGED <<list, ticket>>
      BY <2>9 DEF Release
    <3>3. g \notin W
      BY <3>2, <1>W DEF WakeupsFor
    <3>4. g \in W2 <=> b = a
      <4>1. call'[g].addr = b /\ call'[g] # NoCall /\ pc'[g] = "check"
        BY <3>1, <3>2 DEF TypeOK, NoCall
      <4>2. QED  BY <4>1, <1>W DEF WakeupsFor
    <3>5. WaitedFor(a)
      BY <2>2, <3>1, <3>2 DEF TypeOK
    <3>6. g \in W2 => W2 = W \cup {g}
      BY <2>1, <3>1, <3>2 DEF TypeOK
    <3>7. g \notin W2 => W2 = W
      BY <2>1, <3>1, <3>2, <3>3 DEF TypeOK
    <3>8. CASE b = a
      <4>1. val'[a] = val[a] + 1
        BY <3>1, <3>8 DEF TypeOK
      <4>2. QED  BY <3>3, <3>4, <3>5, <3>6, <3>8, <4>1, <1>w, <1>W
    <3>9. CASE b # a
      <4>1. val'[a] = val[a]
        BY <3>1, <3>9 DEF TypeOK
      <4>2. QED  BY <3>4, <3>5, <3>7, <3>9, <4>1, <1>w, <1>v, <1>W
    <3>10. QED  BY <3>8, <3>9
  <2>10. CASE ReleaseCheck(g) \/ ReleaseRecheck(g)
    <3>1. PICK to \in {"idle", "rlock", "runlock", "dequeue"} :
            pc' = [pc EXCEPT ![g] = to] /\ (to \in {"idle", "runlock"} => nwait = 0)
      BY <2>10 DEF ReleaseCheck, ReleaseRecheck
    <3>2. /\ pc[g] \in {"check", "recheck"} /\ UNCHANGED <<list, val, ticket>>
          /\ to \notin {"idle", "runlock"} => call' = call
          /\ \A h \in Goroutines : h # g => call'[h] = call[h]
      BY <2>10, <3>1 DEF ReleaseCheck, ReleaseRecheck, TypeOK
    <3>3. WaitedFor(a)
      BY <2>2, <3>1, <3>2
    <3>4. nwait # 0
      BY <3>3, NobodyCounted
    <3>5. to \in {"rlock", "dequeue"}
      BY <3>1, <3>4
    <3>6. g \in W <=> g \in W2
      BY <3>1, <3>2, <3>5, <1>W DEF WakeupsFor, TypeOK
    <3>7. W2 = W
      BY <2>1, <3>1, <3>2, <3>6
    <3>8. QED  BY <3>2, <3>3, <3>7, <1>w, <1>v, <1>W
  <2>11. CASE ReleaseLock(g)
    <3>1. /\ pc' = [pc EXCEPT ![g] = "recheck"] /\ pc[g] = "rlock" /\ UNCHANGED <<list, val, ticket, call>>
      BY <2>11 DEF ReleaseLock
    <3>2. g \in W <=> g \in W2
      BY <3>1, <1>W DEF WakeupsFor, TypeOK
    <3>3. WaitedFor(a) /\ W2 = W
      BY <2>1, <2>2, <3>1, <3>2
    <3>4. QED  BY <3>1, <3>3, <1>w, <1>v, <1>W
  <2>12. CASE ReleaseDequeue(g) /\ list[call[g].addr] = <<>>
    <3>1. /\ pc' = [pc EXCEPT ![g] = "runlock"] /\ pc[g] = "dequeue" /\ UNCHANGED <<list, val, ticket, call>>
      BY <2>12 DEF ReleaseDequeue
    <3>2. WaitedFor(a)
      BY <2>2, <3>1
    <3>3. call[g].addr # a
      <4>1. \A h \in Goroutines : pc[h] = "enqueue" => h = g
        BY <3>1 DEF LockIsHeld, LockedPCs
      <4>2. QED  BY <2>12, <3>1, <3>2, <4>1 DEF WaitedFor
    <3>4. g \notin W /\ g \notin W2
      BY <3>1, <3>3, <1>W DEF WakeupsFor
    <3>5. W2 = W
      BY <2>1, <3>1, <3>4
    <3>6. QED  BY <3>1, <3>2, <3>5, <1>w, <1>v, <1>W
  <2>13. CASE ReleaseDequeue(g) /\ list[call[g].addr] # <<>>
    <3>1. PICK b \in Addr, h \in Goroutines :
          /\ b = call[g].addr /\ h # g
          /\ Queued(h) /\ pc[h] = "parked" /\ call[h].addr = b
          /\ pc' = [pc EXCEPT ![g] = "count"]
          /\ ticket'[h] = FALSE
          /\ \A f \in Goroutines : ~Queued(f) => ticket'[f] = ticket[f]
          /\ \A c \in Addr : c # b => list'[c] = list[c]
          /\ \A f \in Goroutines : Queued(f)' <=> Queued(f) /\ f # h
      BY <2>13, DequeueUnqueues
    <3>2. pc[g] = "dequeue" /\ UNCHANGED <<val, call>>
      BY <2>13 DEF ReleaseDequeue
    <3>3. pc'[h] = "parked" /\ pc'[g] = "count" /\ \A f \in Goroutines : f # g => pc'[f] = pc[f]
      BY <3>1 DEF TypeOK
    <3>4. \A f \in Goroutines : Queued(f) => pc[f] = "parked"
      BY QueuedFacts
    <3>5. ASSUME NEW f \in Goroutines, f # g, f # h
          PROVE  f \in W2 <=> f \in W
      <4>1. pc'[f] = pc[f] /\ (Queued(f)' <=> Queued(f)) /\ call' = call
        BY <3>1, <3>2, <3>3, <3>5
      <4>2. CASE Queued(f)
        BY <3>4, <4>1, <4>2, <1>W DEF WakeupsFor
      <4>3. CASE ~Queued(f)
        <5>1. ticket'[f] = ticket[f]
          BY <3>1, <4>3
        <5>2. QED  BY <4>1, <4>3, <5>1, <1>W DEF WakeupsFor
      <4>4. QED  BY <4>2, <4>3
    <3>6. call[g] # NoCall /\ call[h] # NoCall
      BY <3>1, <3>2, CallFacts
    <3>7. /\ g \notin W2
          /\ g \in W <=> b = a
      BY <3>1, <3>2, <3>3, <3>6, <1>W DEF WakeupsFor
    <3>8. h \notin W /\ (h \in W2 <=> b = a)
      BY <3>1, <3>2, <3>3, <3>6, <1>W DEF WakeupsFor
    <3>9. W \subseteq Goroutines /\ W2 \subseteq Goroutines
      BY <1>W DEF WakeupsFor
    <3>10. CASE b = a
      <4>1. WaitedFor(a)
        BY <2>13, <3>1, <3>10 DEF WaitedFor
      <4>2. \A e : e \in W2 <=> (e \in W /\ e # g) \/ e = h
        BY <3>5, <3>7, <3>8, <3>9, <3>10
      <4>3. QED  BY <3>2, <3>7, <3>8, <3>10, <4>1, <4>2, <1>w, <1>v, <1>W
    <3>11. CASE b # a
      <4>1. W2 = W
        BY <3>5, <3>7, <3>8, <3>9, <3>11
      <4>2. WaitedFor(a)
        <5>1. list'[a] = list[a]
          BY <3>1, <3>11
        <5>2. QED  BY <3>2, <3>3, <5>1 DEF WaitedFor
      <4>3. QED  BY <3>2, <4>1, <4>2, <1>w, <1>v, <1>W
    <3>12. QED  BY <3>10, <3>11
  <2>14. CASE ReleaseCount(g) \/ ReleaseUnlock(g)
    <3>1. PICK to \in {"runlock", "idle", "grant"} : pc' = [pc EXCEPT ![g] = to]
      BY <2>14 DEF ReleaseCount, ReleaseUnlock
    <3>2. /\ pc[g] \in {"count", "runlock"} /\ UNCHANGED <<list, val, ticket>>
          /\ \A h \in Goroutines : h # g => call'[h] = call[h]
      BY <2>14 DEF ReleaseCount, ReleaseUnlock, TypeOK
    <3>3. g \notin W /\ g \notin W2
      BY <3>1, <3>2, <1>W DEF WakeupsFor, TypeOK
    <3>4. WaitedFor(a) /\ W2 = W
      BY <2>1, <2>2, <3>1, <3>2, <3>3
    <3>5. QED  BY <3>2, <3>4, <1>w, <1>v, <1>W
  <2>15. CASE ReleaseGrant(g)
    <3>1. pc[g] = "grant" /\ s[g] # None
      BY <2>15 DEF ReleaseGrant, WakeesFit
    <3>2. PICK h \in Goroutines :
          /\ h = s[g] /\ h # g /\ pc[h] = "parked" /\ ~Queued(h) /\ call[h].addr = call[g].addr /\ ~ticket[h]
      BY <3>1, WakeeFacts
    <3>3. pc' = [pc EXCEPT ![g] = "goready"] /\ UNCHANGED <<list, call>>
      BY <2>15, <3>2 DEF ReleaseGrant
    <3>4. WaitedFor(a)
      BY <2>2, <3>3
    <3>5. \A f \in Goroutines : Queued(f)' <=> Queued(f)
      BY <3>3, SameQueued
    <3>6. call[g] # NoCall /\ call[h] # NoCall /\ call[g].addr \in Addr
      BY <3>1, <3>2, CallFacts
    <3>7. CASE call[g].flag /\ val[call[g].addr] > 0
      <4>1. ticket' = [ticket EXCEPT ![h] = TRUE] /\ val' = [val EXCEPT ![call[g].addr] = @ - 1]
        BY <2>15, <3>2, <3>7 DEF ReleaseGrant
      <4>2. \A f \in Goroutines : f # h => (f \in W2 <=> f \in W)
        BY <3>1, <3>3, <3>5, <4>1, <1>W DEF WakeupsFor, TypeOK
      <4>3. /\ h \notin W2
            /\ h \in W <=> call[g].addr = a
        BY <3>1, <3>2, <3>3, <3>6, <4>1, <1>W DEF WakeupsFor, TypeOK
      <4>4. W2 = W \ {h}
        BY <4>2, <4>3, <1>W DEF WakeupsFor
      <4>5. /\ call[g].addr = a => val'[a] = val[a] - 1
            /\ call[g].addr # a => val'[a] = val[a]
        BY <3>6, <4>1 DEF TypeOK
      <4>6. CASE call[g].addr = a
        BY <3>4, <4>3, <4>4, <4>5, <4>6, <1>w, <1>W
      <4>7. CASE call[g].addr # a
        <5>1. W2 = W /\ val'[a] <= val[a]
          BY <4>3, <4>4, <4>5, <4>7, <1>v
        <5>2. QED  BY <3>4, <5>1, <1>w, <1>W
      <4>8. QED  BY <4>6, <4>7
    <3>8. CASE ~(call[g].flag /\ val[call[g].addr] > 0)
      <4>1. UNCHANGED <<ticket, val>>
        BY <2>15, <3>2, <3>8 DEF ReleaseGrant
      <4>2. W2 = W
        BY <3>1, <3>3, <3>5, <4>1, <1>W DEF WakeupsFor, TypeOK
      <4>3. QED  BY <3>4, <4>1, <4>2, <1>w, <1>v, <1>W
    <3>9. QED  BY <3>7, <3>8
  <2>16. CASE ReleaseReady(g)
    <3>1. pc[g] = "goready" /\ s[g] # None
      BY <2>16 DEF ReleaseReady, WakeesFit
    <3>2. PICK h \in Goroutines : h = s[g] /\ h # g /\ pc[h] = "parked" /\ ~Queued(h)
      BY <3>1, WakeeFacts
    <3>3. /\ pc' = [pc EXCEPT ![g] = "idle", ![h] = "awake"] /\ UNCHANGED <<list, ticket, val>>
          /\ call' = [call EXCEPT ![g] = NoCall]
      BY <2>16, <3>2 DEF ReleaseReady
    <3>4. WaitedFor(a)
      BY <3>2, <3>3 DEF WaitedFor, TypeOK
    <3>5. \A f \in Goroutines : Queued(f)' <=> Queued(f)
      BY <3>3, SameQueued
    <3>6. W2 = W
      BY <3>1, <3>2, <3>3, <3>5, <1>W DEF WakeupsFor, TypeOK
    <3>7. QED  BY <3>3, <3>4, <3>6, <1>w, <1>v, <1>W
  <2>17. QED  BY <2>3, <2>4, <2>5, <2>6, <2>7, <2>8, <2>9, <2>10, <2>11, <2>12, <2>13, <2>14, <2>15, <2>16 DEF StepOf, InCall
<1>1. IsFiniteSet(W) /\ IsFiniteSet(W2)
  BY <1>f, <1>W
<1>2. val'[a] <= Cardinality(W2)
  BY <1>0, <1>1, <1>v, WakeupsSuffice
<1>3. QED  BY <1>2, <1>W

-----------------------------------------------------------------------------
(* The theorems about the code's own state. *)

\* Nobody uses the semaphores at first.
LEMMA InitIInv == Init => IInv
<1> SUFFICES ASSUME Init PROVE IInv
  OBVIOUS
<1> USE SemaAssumption DEF Init
<1>0. Cardinality(Goroutines) \in Nat
  BY FS_CardinalityType
<1>1. TypeOK
  <2>1. <<>> \in Seq(Goroutines)
    OBVIOUS
  <2>2. QED  BY <1>0, <2>1 DEF TypeOK, PCs, Calls
<1>2. \A a \in Addr : list[a] = <<>> /\ Range(list[a]) = {} /\ IsInjective(list[a])
  BY DEF Range, IsInjective
<1>3. \A g \in Goroutines : ~Queued(g)
  BY <1>2 DEF Queued
<1>4. CallsFit /\ LockIsHeld
  BY DEF CallsFit, AcquirePCs, ReleasePCs, LockIsHeld, LockedPCs
<1>5. ListsFit
  BY <1>2 DEF ListsFit
<1>6. WakeesFit
  BY <1>3 DEF WakeesFit
<1>7. Counted = {}
  BY <1>3 DEF Counted
<1>8. NwaitIsExact
  BY <1>7, FS_EmptySet DEF NwaitIsExact
<1>9. CountsMove
  BY <1>2 DEF CountsMove, WaitedFor
<1>10. QED  BY <1>1, <1>4, <1>5, <1>6, <1>8, <1>9 DEF IInv

\* A step keeps the invariant.
LEMMA StepIInv ==
  ASSUME IInv, NEW g \in Goroutines, StepOf(g)
  PROVE  IInv'
<1> USE DEF IInv
<1>1. TypesBut' /\ CallsFit' /\ LockIsHeld' /\ ListsFit' /\ WakeesFit' /\ NwaitIsExact'
  BY NextTypes, NextCallsFit, NextLockIsHeld, NextListsFit, NextWakeesFit, NextNwaitIsExact
<1>2. TypeOK' /\ CountsMove'
  BY <1>1, NextTypeOK, NextCountsMove
<1>3. QED  BY <1>1, <1>2

\* So does a step that changes nothing.
LEMMA NextIInv == IInv /\ [Next]_vars => IInv'
<1> SUFFICES ASSUME IInv, [Next]_vars PROVE IInv'
  OBVIOUS
<1>1. CASE Next
  BY <1>1, StepIInv DEF Next, StepOf
<1>2. CASE UNCHANGED vars
  BY <1>2 DEF vars, IInv, TypeOK, CallsFit, LockIsHeld, ListsFit, WakeesFit, NwaitIsExact, Counted,
              CountsMove, WaitedFor, WakeupsFor, Queued
<1>3. QED  BY <1>1, <1>2

\* The lock, the lists, nwait and the local variables agree, and while somebody waits
\* for a word each count in it has a wakeup of its own.
THEOREM Invariance == Spec => []IInv
BY InitIInv, NextIInv, PTL DEF Spec

\* A semaphore never misses a wakeup: a count that stays while goroutines are queued
\* for it is being brought to one of them, for any number of words on one root.
THEOREM NoMissedWakeup == Spec => []EveryCountIsMoving
<1>1. IInv => EveryCountIsMoving
  <2> SUFFICES ASSUME IInv, NEW a \in Addr
               PROVE  Min({val[a], Len(list[a])}) <= Cardinality(WakeupsFor(a))
    BY DEF EveryCountIsMoving
  <2>1. Cardinality(WakeupsFor(a)) \in Nat
    <3>1. WakeupsFor(a) \subseteq Goroutines
      BY DEF WakeupsFor
    <3>2. QED  BY <3>1, SemaAssumption, FS_Subset, FS_CardinalityType
  <2>2. val[a] \in Nat /\ Len(list[a]) \in Nat /\ (list[a] = <<>> => Len(list[a]) = 0)
    <3>1. MaxVal + Cardinality(Goroutines) \in Nat
      BY SemaAssumption, FS_CardinalityType
    <3>2. QED  BY <3>1 DEF IInv, TypeOK
  <2> DEFINE v == val[a]
             l == Len(list[a])
  <2>3. Min({v, l}) \in {v, l} /\ Min({v, l}) <= v /\ Min({v, l}) <= l
    <3>1. \E m \in {v, l} : \A n \in {v, l} : m <= n
      BY <2>2
    <3>2. QED  BY <3>1 DEF Min
  <2>4. CASE list[a] = <<>>
    BY <2>1, <2>2, <2>3, <2>4
  <2>5. CASE list[a] # <<>>
    <3>1. val[a] <= Cardinality(WakeupsFor(a))
      BY <2>5 DEF IInv, CountsMove, WaitedFor
    <3>2. QED  BY <2>1, <2>2, <2>3, <3>1
  <2>6. QED  BY <2>4, <2>5
<1>2. QED  BY <1>1, Invariance, PTL

\* nwait is the number of queued goroutines whenever the root lock is free and never
\* below it, nobody is queued twice, and no ticket is left over from an earlier wait.
THEOREM RootIsConsistent == Spec => []RootConsistent
<1>1. IInv => RootConsistent
  <2> SUFFICES ASSUME IInv PROVE RootConsistent
    OBVIOUS
  <2> DEFINE Q == {g \in Goroutines : Queued(g)}
  <2>1. Q \subseteq Counted
    BY DEF Counted
  <2>2. Cardinality(Q) <= nwait
    BY <2>1, CountedFinite, FS_Subset DEF IInv, NwaitIsExact
  <2>3. ASSUME lock = None
        PROVE  nwait = Cardinality(Q)
    <3>1. \A g \in Goroutines : pc[g] \notin LockedPCs
      BY <2>3, SemaAssumption DEF IInv, LockIsHeld
    <3>2. Counted = Q
      BY <3>1 DEF Counted, LockedPCs
    <3>3. QED  BY <3>2 DEF IInv, NwaitIsExact
  <2>4. \A a, b \in Addr : IsInjective(list[a]) /\ (a # b => Range(list[a]) \cap Range(list[b]) = {})
    BY DEF IInv, ListsFit
  <2>5. Cardinality(Q) \in Nat /\ nwait \in Nat
    BY <2>1, CountedFinite, FS_Subset, FS_CardinalityType DEF IInv, NwaitIsExact
  <2>6. QED  BY <2>2, <2>3, <2>4, <2>5 DEF RootConsistent, IInv, CallsFit
<1>2. QED  BY <1>1, Invariance, PTL

-----------------------------------------------------------------------------
(* The refinement of module Semaphore. *)

\* What the semaphore looks like from outside, by where each goroutine is in the code.
SstFits ==
  /\ AbsSst = [g \in Goroutines |-> AbsSst[g]]
  /\ \A g \in Goroutines :
     /\ pc[g] \in {"idle", "easy", "undo", "aunlock", "goready"} => AbsSst[g] = "running"
     /\ pc[g] \in {"alock", "nwait", "again"} => AbsSst[g] = IF slept[g] THEN "ready" ELSE "running"
     /\ pc[g] = "enqueue" => AbsSst[g] = "parked"
     /\ pc[g] = "parked" /\ Queued(g) => AbsSst[g] = "parked"
     /\ pc[g] = "parked" /\ ~Queued(g) /\ ~Granted(g) => AbsSst[g] = "dequeued"
     /\ pc[g] = "parked" /\ ~Queued(g) /\ Granted(g) => AbsSst[g] = IF ticket[g] THEN "ticket" ELSE "ready"
     /\ pc[g] = "awake" => AbsSst[g] = IF ticket[g] THEN "ticket" ELSE "ready"
     /\ pc[g] \in {"check", "rlock", "recheck", "dequeue"} => AbsSst[g] = "xadded"
     /\ pc[g] \in {"count", "grant"} => AbsSst[g] = "waking"
     /\ pc[g] = "runlock" => AbsSst[g] = IF s[g] # None THEN "waking" ELSE "running"

WakeeFits == AbsWakee = [g \in Goroutines |-> IF pc[g] \in {"count", "runlock", "grant"} THEN s[g] ELSE None]

\* The one goroutine that is about to be queued counts as queued.
WaitqFits ==
  /\ AbsWaitq = [a \in Addr |-> AbsWaitq[a]]
  /\ \A a \in Addr : (\A g \in Goroutines : pc[g] = "enqueue" => call[g].addr # a) => AbsWaitq[a] = list[a]
  /\ \A g \in Goroutines : pc[g] = "enqueue" =>
       AbsWaitq[call[g].addr] =
         IF call[g].flag THEN <<g>> \o list[call[g].addr] ELSE Append(list[call[g].addr], g)

View == SstFits /\ WakeeFits /\ WaitqFits

\* The view is what the refinement mapping defines.
LEMMA ViewHolds == IInv => View
<1> SUFFICES ASSUME IInv PROVE View
  OBVIOUS
<1>1. SstFits
  <2>1. AbsSst = [g \in Goroutines |-> AbsSst[g]]
    BY DEF AbsSst
  <2>2. SUFFICES ASSUME NEW g \in Goroutines PROVE SstFits!2!(g)
    BY <2>1 DEF SstFits
  <2> DEFINE p == pc[g]
             q == Queued(g)
             d == Granted(g)
  <2>3. AbsSst[g] =
          CASE p \in {"check", "rlock", "recheck", "dequeue"} -> "xadded"
            [] p \in {"count", "grant"} \/ (p = "runlock" /\ s[g] # None) -> "waking"
            [] p = "enqueue" \/ (p = "parked" /\ q) -> "parked"
            [] p = "parked" /\ ~q /\ ~d -> "dequeued"
            [] p = "awake" \/ (p = "parked" /\ ~q /\ d)
                 -> IF ticket[g] THEN "ticket" ELSE "ready"
            [] p \in {"alock", "nwait", "again"} /\ slept[g] -> "ready"
            [] OTHER -> "running"
    BY DEF AbsSst
  <2> HIDE DEF p, q, d
  <2>a. p \in {"idle", "easy", "undo", "aunlock", "goready"} => AbsSst[g] = "running"
    BY <2>3
  <2>b. p \in {"alock", "nwait", "again"} => AbsSst[g] = IF slept[g] THEN "ready" ELSE "running"
    BY <2>3
  <2>c. p = "enqueue" => AbsSst[g] = "parked"
    BY <2>3
  <2>d. p = "parked" /\ q => AbsSst[g] = "parked"
    BY <2>3
  <2>e. p = "parked" /\ ~q /\ ~d => AbsSst[g] = "dequeued"
    BY <2>3
  <2>f. p = "parked" /\ ~q /\ d => AbsSst[g] = IF ticket[g] THEN "ticket" ELSE "ready"
    BY <2>3
  <2>g. p = "awake" => AbsSst[g] = IF ticket[g] THEN "ticket" ELSE "ready"
    BY <2>3
  <2>h. p \in {"check", "rlock", "recheck", "dequeue"} => AbsSst[g] = "xadded"
    BY <2>3
  <2>i. p \in {"count", "grant"} => AbsSst[g] = "waking"
    BY <2>3
  <2>j. p = "runlock" => AbsSst[g] = IF s[g] # None THEN "waking" ELSE "running"
    BY <2>3
  <2>4. QED  BY <2>a, <2>b, <2>c, <2>d, <2>e, <2>f, <2>g, <2>h, <2>i, <2>j DEF p, q, d
<1>2. WakeeFits
  <2>1. ASSUME NEW g \in Goroutines
        PROVE  AbsWakee[g] = IF pc[g] \in {"count", "runlock", "grant"} THEN s[g] ELSE None
    <3>1. pc[g] \in PCs \ {"throw"}
      BY DEF IInv, TypeOK, CallsFit
    <3>2. AbsWakee[g] = IF AbsSst[g] = "waking" THEN s[g] ELSE None
      BY DEF AbsWakee
    <3>3. CASE pc[g] \in {"count", "runlock", "grant"}
      BY <1>1, <3>2, <3>3 DEF SstFits
    <3>4. CASE pc[g] \notin {"count", "runlock", "grant"}
      <4>1. CASE pc[g] \in {"parked", "awake"}
        BY <1>1, <3>2, <4>1 DEF SstFits
      <4>2. CASE pc[g] \in {"idle", "easy", "undo", "aunlock", "goready", "alock", "nwait", "again"}
        BY <1>1, <3>2, <4>2 DEF SstFits
      <4>3. CASE pc[g] \in {"enqueue", "check", "rlock", "recheck", "dequeue"}
        BY <1>1, <3>2, <4>3 DEF SstFits
      <4>4. QED  BY <3>1, <3>4, <4>1, <4>2, <4>3 DEF PCs
    <3>5. QED  BY <3>3, <3>4
  <2>2. AbsWakee = [g \in Goroutines |-> AbsWakee[g]]
    BY DEF AbsWakee
  <2>3. QED  BY <2>1, <2>2 DEF WakeeFits
<1>3. WaitqFits
  <2> DEFINE late(a) == {g \in Goroutines : pc[g] = "enqueue" /\ call[g].addr = a}
             f(a) == CHOOSE g \in late(a) : TRUE
  <2>1. \A a \in Addr : AbsWaitq[a] = IF late(a) = {} THEN list[a]
                                      ELSE IF call[f(a)].flag THEN <<f(a)>> \o list[a] ELSE Append(list[a], f(a))
    BY DEF AbsWaitq
  <2>2. ASSUME NEW g \in Goroutines, pc[g] = "enqueue"
        PROVE  AbsWaitq[call[g].addr] =
                 IF call[g].flag THEN <<g>> \o list[call[g].addr] ELSE Append(list[call[g].addr], g)
    <3>1. call[g].addr \in Addr
      BY <2>2, CallFacts DEF IInv
    <3>2. g \in late(call[g].addr)
      BY <2>2
    <3>3. \A h \in late(call[g].addr) : h = g
      BY <2>2 DEF IInv, LockIsHeld, LockedPCs
    <3>4. f(call[g].addr) = g
      BY <3>2, <3>3
    <3> HIDE DEF late, f
    <3>5. QED  BY <2>1, <3>1, <3>2, <3>4
  <2>3. AbsWaitq = [a \in Addr |-> AbsWaitq[a]]
    BY DEF AbsWaitq
  <2>4. QED  BY <2>1, <2>2, <2>3 DEF WaitqFits
<1>4. QED  BY <1>1, <1>2, <1>3 DEF View

\* And it is after a step.
LEMMA ViewWillHold == IInv' => View'
BY ViewHolds, PTL

\* A goroutine that a step does not touch stays where it is in the semaphore.
LEMMA SameSst ==
  ASSUME IInv, View, View', NEW h \in Goroutines, pc'[h] = pc[h], slept'[h] = slept[h],
         s'[h] = s[h], Queued(h)' <=> Queued(h), Granted(h)' <=> Granted(h),
         ticket'[h] = ticket[h] \/ Queued(h)
  PROVE  AbsSst'[h] = AbsSst[h]
<1>1. pc[h] \in PCs \ {"throw"}
  BY DEF IInv, TypeOK, CallsFit
<1>2. SstFits /\ SstFits'
  BY DEF View
<1>3. CASE pc[h] = "parked"
  <2>1. CASE Queued(h)
    BY <1>2, <1>3, <2>1 DEF SstFits
  <2>2. CASE ~Queued(h) /\ Granted(h)
    <3>1. AbsSst[h] = IF ticket[h] THEN "ticket" ELSE "ready"
      BY <1>2, <1>3, <2>2 DEF SstFits
    <3>2. AbsSst'[h] = IF ticket'[h] THEN "ticket" ELSE "ready"
      BY <1>2, <1>3, <2>2 DEF SstFits
    <3>3. QED  BY <2>2, <3>1, <3>2
  <2>3. CASE ~Queued(h) /\ ~Granted(h)
    BY <1>2, <1>3, <2>3 DEF SstFits
  <2>4. QED  BY <2>1, <2>2, <2>3
<1>4. CASE pc[h] = "awake"
  <2>1. ~Queued(h)
    BY <1>4, QueuedFacts DEF IInv
  <2>2. QED  BY <1>2, <1>4, <2>1 DEF SstFits
<1>5. CASE pc[h] \in {"idle", "easy", "undo", "aunlock", "goready"}
  BY <1>2, <1>5 DEF SstFits
<1>6. CASE pc[h] \in {"alock", "nwait", "again"}
  BY <1>2, <1>6 DEF SstFits
<1>7. CASE pc[h] \in {"enqueue", "check", "rlock", "recheck", "dequeue", "count", "grant"}
  BY <1>2, <1>7 DEF SstFits
<1>8. CASE pc[h] = "runlock"
  BY <1>2, <1>8 DEF SstFits
<1>9. QED  BY <1>1, <1>3, <1>4, <1>5, <1>6, <1>7, <1>8 DEF PCs

\* A step that leaves the lists alone and readies nobody moves one goroutine only.
LEMMA OneMove ==
  ASSUME IInv, View, View', NEW g \in Goroutines, NEW to, pc' = [pc EXCEPT ![g] = to],
         pc[g] # "goready", to # "goready", UNCHANGED list,
         \A h \in Goroutines : h # g => slept'[h] = slept[h] /\ ticket'[h] = ticket[h] /\ s'[h] = s[h]
  PROVE  /\ AbsSst' = [AbsSst EXCEPT ![g] = AbsSst'[g]]
         /\ AbsWakee' = [AbsWakee EXCEPT ![g] = AbsWakee'[g]]
<1>1. pc \in [Goroutines -> PCs]
  BY DEF IInv, TypeOK
<1>2. ASSUME NEW h \in Goroutines, h # g
      PROVE  AbsSst'[h] = AbsSst[h] /\ AbsWakee'[h] = AbsWakee[h]
  <2>1. pc'[h] = pc[h]
    BY <1>1, <1>2
  <2>2. Queued(h)' <=> Queued(h)
    BY SameQueued
  <2>3. Granted(h)' <=> Granted(h)
    BY <1>1 DEF Granted
  <2>4. ticket[h] \in BOOLEAN /\ (Queued(h) => pc[h] = "parked")
    BY QueuedFacts DEF IInv, TypeOK
  <2>5. AbsSst'[h] = AbsSst[h]
    <3>1. CASE Queued(h)
      BY <2>1, <2>2, <2>4, <3>1 DEF View, SstFits
    <3>2. CASE ~Queued(h)
      BY <1>2, <2>1, <2>2, <2>3, <2>4, <3>2, SameSst
    <3>3. QED  BY <3>1, <3>2
  <2>6. AbsWakee'[h] = AbsWakee[h]
    BY <1>2, <2>1 DEF View, WakeeFits
  <2>7. QED  BY <2>5, <2>6
<1>3. /\ AbsSst = [h \in Goroutines |-> AbsSst[h]] /\ AbsSst' = [h \in Goroutines |-> AbsSst'[h]]
      /\ AbsWakee = [h \in Goroutines |-> AbsWakee[h]] /\ AbsWakee' = [h \in Goroutines |-> AbsWakee'[h]]
  BY DEF View, SstFits, AbsWakee
<1>4. QED  BY <1>2, <1>3

\* The queues look the same when nobody joins or leaves them.
LEMMA SameWaitq ==
  ASSUME IInv, View, View', NEW g \in Goroutines, UNCHANGED list, pc'[g] # "enqueue",
         pc[g] # "enqueue",
         \A h \in Goroutines : h # g => /\ pc'[h] = "enqueue" <=> pc[h] = "enqueue"
                                        /\ call'[h] = call[h]
  PROVE  UNCHANGED AbsWaitq
<1>1. ASSUME NEW a \in Addr
      PROVE  AbsWaitq'[a] = AbsWaitq[a]
  <2>1. CASE \E h \in Goroutines : pc[h] = "enqueue" /\ call[h].addr = a
    <3>1. PICK h \in Goroutines : pc[h] = "enqueue" /\ call[h].addr = a
      BY <2>1
    <3>2. h # g /\ pc'[h] = "enqueue" /\ call'[h] = call[h]
      BY <3>1
    <3>3. AbsWaitq[a] = IF call[h].flag THEN <<h>> \o list[a] ELSE Append(list[a], h)
      BY <3>1 DEF View, WaitqFits
    <3>4. AbsWaitq'[a] = IF call'[h].flag THEN <<h>> \o list'[a] ELSE Append(list'[a], h)
      <4>1. call'[h].addr = a
        BY <3>1, <3>2
      <4>2. QED  BY <3>2, <4>1 DEF View, WaitqFits
    <3>5. QED  BY <3>2, <3>3, <3>4
  <2>2. CASE \A h \in Goroutines : pc[h] = "enqueue" => call[h].addr # a
    <3>1. \A h \in Goroutines : pc'[h] = "enqueue" => call'[h].addr # a
      BY <2>2
    <3>2. QED  BY <2>2, <3>1 DEF View, WaitqFits
  <2>3. QED  BY <2>1, <2>2
<1>2. QED  BY <1>1 DEF View, WaitqFits

\* A step changes one call at most, seen from outside too.
LEMMA SameCalls ==
  ASSUME IInv, NEW g \in Goroutines, NEW to \in PCs, pc' = [pc EXCEPT ![g] = to],
         \A h \in Goroutines : h # g => s'[h] = s[h] /\ call'[h] = call[h]
  PROVE  AbsCall' = [AbsCall EXCEPT ![g] = AbsCall'[g]]
<1>1. ASSUME NEW h \in Goroutines, h # g
      PROVE  AbsCall'[h] = AbsCall[h]
  <2>1. pc'[h] = pc[h]
    BY <1>1 DEF IInv, TypeOK
  <2>2. QED  BY <1>1, <2>1 DEF AbsCall
<1>2. AbsCall = [h \in Goroutines |-> AbsCall[h]] /\ AbsCall' = [h \in Goroutines |-> AbsCall'[h]]
  BY DEF AbsCall
<1>3. QED  BY <1>1, <1>2

\* A step that neither queues nor readies anybody changes the view of one goroutine only.
LEMMA PlainStep ==
  ASSUME IInv, View, View', NEW g \in Goroutines, NEW to \in PCs, pc' = [pc EXCEPT ![g] = to],
         pc[g] \notin {"goready", "enqueue"}, to \notin {"goready", "enqueue"}, UNCHANGED list,
         \A h \in Goroutines : h # g => /\ slept'[h] = slept[h] /\ ticket'[h] = ticket[h]
                                        /\ s'[h] = s[h] /\ call'[h] = call[h]
  PROVE  /\ pc'[g] = to
         /\ AbsSst' = [AbsSst EXCEPT ![g] = AbsSst'[g]]
         /\ AbsWakee' = [AbsWakee EXCEPT ![g] = AbsWakee'[g]]
         /\ AbsCall' = [AbsCall EXCEPT ![g] = AbsCall'[g]]
         /\ AbsSst'[g] = AbsSst[g] => UNCHANGED AbsSst
         /\ AbsWakee'[g] = AbsWakee[g] => UNCHANGED AbsWakee
         /\ AbsCall'[g] = AbsCall[g] => UNCHANGED AbsCall
         /\ UNCHANGED AbsWaitq
<1>1. /\ AbsSst' = [AbsSst EXCEPT ![g] = AbsSst'[g]]
      /\ AbsWakee' = [AbsWakee EXCEPT ![g] = AbsWakee'[g]]
  BY OneMove
<1>2. AbsCall' = [AbsCall EXCEPT ![g] = AbsCall'[g]]
  BY SameCalls
<1>3. pc'[g] = to /\ \A h \in Goroutines : h # g => pc'[h] = pc[h]
  BY DEF IInv, TypeOK
<1>4. UNCHANGED AbsWaitq
  BY <1>3, SameWaitq
<1>5. /\ AbsSst = [h \in Goroutines |-> AbsSst[h]]
      /\ AbsWakee = [h \in Goroutines |-> AbsWakee[h]]
      /\ AbsCall = [h \in Goroutines |-> AbsCall[h]]
  BY DEF AbsSst, AbsWakee, AbsCall
<1>6. QED  BY <1>1, <1>2, <1>3, <1>4, <1>5

\* The words are natural numbers.
LEMMA WordsAreNat == IInv => \A a \in Addr : val[a] \in Nat
<1>1. MaxVal + Cardinality(Goroutines) \in Nat
  BY SemaAssumption, FS_CardinalityType
<1>2. QED  BY <1>1 DEF IInv, TypeOK

\* While nwait is 0 nobody waits, and nobody is about to.
LEMMA NobodyWaits ==
  ASSUME IInv, View, NEW a \in Addr, nwait = 0
  PROVE  AbsWaitq[a] = <<>>
<1>1. list[a] = <<>> /\ \A g \in Goroutines : pc[g] = "enqueue" => call[g].addr # a
  BY NobodyCounted DEF IInv, WaitedFor
<1>2. QED  BY <1>1 DEF View, WaitqFits

\* Whoever holds the lock and queues nobody sees the lists as they are.
LEMMA ListsAreSeen ==
  ASSUME IInv, View, NEW g \in Goroutines, pc[g] \in LockedPCs, pc[g] # "enqueue"
  PROVE  \A a \in Addr : AbsWaitq[a] = list[a]
<1>1. \A h \in Goroutines : pc[h] # "enqueue"
  BY DEF IInv, LockIsHeld, LockedPCs
<1>2. QED  BY <1>1 DEF View, WaitqFits

\* semacquire1 is called.
LEMMA AcquireMaps ==
  ASSUME IInv, View, View', NEW g \in Goroutines, Acquire(g)
  PROVE  Abstract!Acquire(g)
<1>1. /\ pc[g] = "idle" /\ pc' = [pc EXCEPT ![g] = "easy"]
      /\ UNCHANGED <<val, list, ticket, slept, s>>
  BY DEF Acquire
<1>2. PICK a \in Addr, lifo \in BOOLEAN :
        call' = [call EXCEPT ![g] = [op |-> "acquire", addr |-> a, flag |-> lifo]]
  BY DEF Acquire
<1>3. /\ call'[g] = [op |-> "acquire", addr |-> a, flag |-> lifo] /\ call[g] = NoCall
      /\ \A h \in Goroutines : h # g => call'[h] = call[h]
  BY <1>1, <1>2 DEF IInv, TypeOK, CallsFit
<1> DEFINE to == "easy"
<1>4. to \in PCs
  BY DEF PCs
<1> HIDE DEF to
<1>5. /\ pc'[g] = to
      /\ AbsCall' = [AbsCall EXCEPT ![g] = AbsCall'[g]]
      /\ AbsSst'[g] = AbsSst[g] => UNCHANGED AbsSst
      /\ AbsWakee'[g] = AbsWakee[g] => UNCHANGED AbsWakee
      /\ UNCHANGED AbsWaitq
  BY <1>1, <1>3, <1>4, PlainStep DEF to
<1>6. AbsSst[g] = "running" /\ AbsSst'[g] = "running" /\ AbsWakee'[g] = AbsWakee[g]
  BY <1>1, <1>5 DEF View, SstFits, WakeeFits, to
<1>7. AbsCall[g] = NoCall /\ AbsCall'[g] = call'[g]
  BY <1>1, <1>3, <1>5 DEF AbsCall, to
<1>8. QED
  BY <1>1, <1>3, <1>5, <1>6, <1>7 DEF Abstract!Acquire, Abstract!NoCall, Abstract!semvars, NoCall

\* semacquire1: the easy case.
LEMMA AcquireEasyMaps ==
  ASSUME IInv, View, View', NEW g \in Goroutines, AcquireEasy(g)
  PROVE  Abstract!Take(g) \/ UNCHANGED Abstract!vars
<1>1. pc[g] = "easy" /\ UNCHANGED <<list, s>> /\ call[g].op = "acquire" /\ ~slept[g]
  BY DEF AcquireEasy, IInv, CallsFit, AcquirePCs
<1>2. call[g].addr \in Addr /\ call[g] # NoCall
  BY <1>1, CallFacts DEF IInv
<1>3. CASE val[call[g].addr] > 0
  <2>1. /\ pc' = [pc EXCEPT ![g] = "idle"] /\ UNCHANGED ticket
        /\ val' = [val EXCEPT ![call[g].addr] = @ - 1]
        /\ call' = [call EXCEPT ![g] = NoCall] /\ slept' = [slept EXCEPT ![g] = FALSE]
    BY <1>3 DEF AcquireEasy
  <2>2. /\ pc'[g] = "idle"
        /\ AbsSst' = [AbsSst EXCEPT ![g] = AbsSst'[g]]
        /\ AbsCall' = [AbsCall EXCEPT ![g] = AbsCall'[g]]
        /\ AbsWakee'[g] = AbsWakee[g] => UNCHANGED AbsWakee
        /\ UNCHANGED AbsWaitq
    <3>1. "idle" \in PCs
      BY DEF PCs
    <3>2. \A h \in Goroutines : h # g => call'[h] = call[h] /\ slept'[h] = slept[h]
      BY <2>1 DEF IInv, TypeOK
    <3>3. QED  BY <1>1, <2>1, <3>1, <3>2, PlainStep
  <2>3. AbsSst[g] = "running" /\ AbsSst'[g] = "running" /\ AbsWakee'[g] = AbsWakee[g]
    BY <1>1, <2>2 DEF View, SstFits, WakeeFits
  <2>4. AbsCall[g] = call[g] /\ AbsCall'[g] = NoCall
    BY <1>1, <2>1, <2>2 DEF AbsCall, IInv, TypeOK
  <2>5. QED
    BY <1>1, <1>3, <2>1, <2>2, <2>3, <2>4
    DEF Abstract!Take, Abstract!SemTake, Abstract!Return, Abstract!NoCall, NoCall
<1>4. CASE ~(val[call[g].addr] > 0)
  <2>1. /\ pc' = [pc EXCEPT ![g] = "alock"] /\ ticket' = [ticket EXCEPT ![g] = FALSE]
        /\ UNCHANGED <<val, call, slept>>
    BY <1>4 DEF AcquireEasy
  <2>2. /\ pc'[g] = "alock"
        /\ AbsSst'[g] = AbsSst[g] => UNCHANGED AbsSst
        /\ AbsWakee'[g] = AbsWakee[g] => UNCHANGED AbsWakee
        /\ AbsCall'[g] = AbsCall[g] => UNCHANGED AbsCall
        /\ UNCHANGED AbsWaitq
    <3>1. "alock" \in PCs
      BY DEF PCs
    <3>2. \A h \in Goroutines : h # g => ticket'[h] = ticket[h]
      BY <2>1 DEF IInv, TypeOK
    <3>3. QED  BY <1>1, <2>1, <3>1, <3>2, PlainStep
  <2>3. AbsSst[g] = "running" /\ AbsSst'[g] = "running" /\ AbsWakee'[g] = AbsWakee[g]
    BY <1>1, <2>1, <2>2 DEF View, SstFits, WakeeFits
  <2>4. AbsCall'[g] = AbsCall[g]
    BY <1>1, <2>1, <2>2 DEF AbsCall
  <2>5. QED  BY <2>1, <2>2, <2>3, <2>4 DEF Abstract!vars, Abstract!semvars
<1>5. QED  BY <1>3, <1>4

\* semacquire1: the second look at the word, under the lock.
LEMMA AcquireAgainMaps ==
  ASSUME IInv, View, View', NEW g \in Goroutines, AcquireAgain(g)
  PROVE  Abstract!Take(g) \/ Abstract!Park(g)
<1>1. pc[g] = "again" /\ UNCHANGED <<list, s, ticket, call, slept>> /\ call[g].op = "acquire"
  BY DEF AcquireAgain, IInv, CallsFit, AcquirePCs
<1>2. call[g].addr \in Addr /\ call[g].flag \in BOOLEAN
  BY <1>1, CallFacts DEF IInv
<1>3. AbsSst[g] \in {"running", "ready"}
  BY <1>1 DEF View, SstFits
<1>4. CASE val[call[g].addr] > 0
  <2>1. /\ pc' = [pc EXCEPT ![g] = "undo"]
        /\ val' = [val EXCEPT ![call[g].addr] = @ - 1]
    BY <1>4 DEF AcquireAgain
  <2>2. /\ pc'[g] = "undo"
        /\ AbsSst' = [AbsSst EXCEPT ![g] = AbsSst'[g]]
        /\ AbsCall' = [AbsCall EXCEPT ![g] = AbsCall'[g]]
        /\ AbsWakee'[g] = AbsWakee[g] => UNCHANGED AbsWakee
        /\ UNCHANGED AbsWaitq
    <3>1. "undo" \in PCs
      BY DEF PCs
    <3>2. QED  BY <1>1, <2>1, <3>1, PlainStep
  <2>3. AbsSst'[g] = "running" /\ AbsWakee'[g] = AbsWakee[g]
    BY <1>1, <2>2 DEF View, SstFits, WakeeFits
  <2>4. AbsCall[g] = call[g] /\ AbsCall'[g] = NoCall
    BY <1>1, <2>1, <2>2 DEF AbsCall
  <2>5. Abstract!Take(g)
    BY <1>1, <1>3, <1>4, <2>1, <2>2, <2>3, <2>4
    DEF Abstract!Take, Abstract!SemTake, Abstract!Return, Abstract!NoCall, NoCall
  <2>6. QED  BY <2>5
<1>5. CASE ~(val[call[g].addr] > 0)
  <2> DEFINE a == call[g].addr
  <2>1. pc' = [pc EXCEPT ![g] = "enqueue"] /\ UNCHANGED val /\ val[a] = 0
    <3>1. val[a] \in Nat
      BY <1>2, WordsAreNat
    <3>2. QED  BY <1>5, <3>1 DEF AcquireAgain
  <2>2. pc'[g] = "enqueue" /\ \A h \in Goroutines : h # g => pc'[h] = pc[h]
    BY <2>1 DEF IInv, TypeOK
  <2>3. /\ AbsSst' = [AbsSst EXCEPT ![g] = AbsSst'[g]]
        /\ AbsWakee' = [AbsWakee EXCEPT ![g] = AbsWakee'[g]]
    BY <1>1, <2>1, OneMove
  <2>4. AbsSst'[g] = "parked" /\ AbsWakee'[g] = AbsWakee[g]
    BY <1>1, <2>2 DEF View, SstFits, WakeeFits
  <2>5. UNCHANGED AbsWakee
    BY <2>3, <2>4 DEF AbsWakee
  <2>6. UNCHANGED AbsCall
    BY <1>1, <2>1, <2>2 DEF AbsCall
  <2>7. AbsCall[g] = call[g]
    BY <1>1 DEF AbsCall
  <2>8. AbsWaitq' = [AbsWaitq EXCEPT ![a] = IF call[g].flag THEN <<g>> \o @ ELSE Append(@, g)]
    <3>1. \A b \in Addr : AbsWaitq[b] = list[b]
      BY <1>1, ListsAreSeen DEF LockedPCs
    <3>2. AbsWaitq'[a] = IF call[g].flag THEN <<g>> \o list[a] ELSE Append(list[a], g)
      BY <1>1, <2>2 DEF View, WaitqFits
    <3>3. ASSUME NEW b \in Addr, b # a
          PROVE  AbsWaitq'[b] = list[b]
      <4>1. \A h \in Goroutines : h # g => pc'[h] # "enqueue"
        BY <1>1, <2>2 DEF IInv, LockIsHeld, LockedPCs
      <4>2. \A h \in Goroutines : pc'[h] = "enqueue" => call'[h].addr # b
        BY <1>1, <3>3, <4>1
      <4>3. QED  BY <1>1, <4>2 DEF View, WaitqFits
    <3>4. AbsWaitq = [b \in Addr |-> AbsWaitq[b]] /\ AbsWaitq' = [b \in Addr |-> AbsWaitq'[b]]
      BY DEF AbsWaitq
    <3>5. QED  BY <1>2, <3>1, <3>2, <3>3, <3>4
  <2>9. Abstract!Park(g)
    BY <1>1, <1>3, <2>1, <2>3, <2>4, <2>5, <2>6, <2>7, <2>8
    DEF Abstract!Park, Abstract!SemPark
  <2>10. QED  BY <2>9
<1>6. QED  BY <1>4, <1>5

\* semacquire1: joining the list is not seen, the goroutine was as good as queued.
LEMMA AcquireSleepMaps ==
  ASSUME IInv, IInv', View, View', NEW g \in Goroutines, AcquireSleep(g)
  PROVE  UNCHANGED Abstract!vars
<1> DEFINE a == call[g].addr
<1>1. /\ pc[g] = "enqueue" /\ pc' = [pc EXCEPT ![g] = "parked"]
      /\ UNCHANGED <<val, call, slept, s>>
      /\ list' = [list EXCEPT ![a] = IF call[g].flag THEN <<g>> \o @ ELSE Append(@, g)]
      /\ ticket' = [ticket EXCEPT ![g] = call[g].flag \/ list[a] = <<>>]
  BY DEF AcquireSleep
<1>2. pc'[g] = "parked" /\ \A h \in Goroutines : h # g => pc'[h] = pc[h] /\ ticket'[h] = ticket[h]
  BY <1>1 DEF IInv, TypeOK
<1>3. a \in Addr /\ \A h \in Goroutines : Queued(h)' <=> Queued(h) \/ h = g
  BY SleepQueues DEF IInv
<1>4. UNCHANGED AbsSst
  <2>1. AbsSst[g] = "parked" /\ AbsSst'[g] = "parked"
    BY <1>1, <1>2, <1>3 DEF View, SstFits
  <2>2. ASSUME NEW h \in Goroutines, h # g
        PROVE  AbsSst'[h] = AbsSst[h]
    <3>1. Granted(h)' <=> Granted(h)
      BY <1>1, <1>2 DEF Granted
    <3>2. CASE Queued(h)
      <4>1. pc[h] = "parked"
        BY <3>2, QueuedFacts DEF IInv
      <4>2. QED  BY <1>2, <1>3, <2>2, <3>2, <4>1 DEF View, SstFits
    <3>3. CASE ~Queued(h)
      <4>1. ticket[h] \in BOOLEAN
        BY DEF IInv, TypeOK
      <4>2. QED  BY <1>1, <1>2, <1>3, <2>2, <3>1, <3>3, <4>1, SameSst
    <3>4. QED  BY <3>2, <3>3
  <2>3. AbsSst = [h \in Goroutines |-> AbsSst[h]] /\ AbsSst' = [h \in Goroutines |-> AbsSst'[h]]
    BY DEF AbsSst
  <2>4. QED  BY <2>1, <2>2, <2>3
<1>5. UNCHANGED AbsWakee
  BY <1>1, <1>2 DEF View, WakeeFits
<1>6. UNCHANGED AbsCall
  BY <1>1, <1>2 DEF AbsCall
<1>7. UNCHANGED AbsWaitq
  <2>1. \A h \in Goroutines : pc'[h] # "enqueue"
    BY <1>1, <1>2 DEF IInv, LockIsHeld, LockedPCs
  <2>2. \A b \in Addr : AbsWaitq'[b] = list'[b]
    BY <2>1 DEF View, WaitqFits
  <2>3. AbsWaitq[a] = IF call[g].flag THEN <<g>> \o list[a] ELSE Append(list[a], g)
    BY <1>1 DEF View, WaitqFits
  <2>4. ASSUME NEW b \in Addr, b # a
        PROVE  AbsWaitq[b] = list[b]
    <3>1. \A h \in Goroutines : pc[h] = "enqueue" => call[h].addr # b
      BY <1>1, <2>4 DEF IInv, LockIsHeld, LockedPCs
    <3>2. QED  BY <3>1 DEF View, WaitqFits
  <2>5. \A b \in Addr : AbsWaitq'[b] = AbsWaitq[b]
    BY <1>1, <1>3, <2>2, <2>3, <2>4 DEF IInv, TypeOK
  <2>6. AbsWaitq = [b \in Addr |-> AbsWaitq[b]] /\ AbsWaitq' = [b \in Addr |-> AbsWaitq'[b]]
    BY DEF AbsWaitq
  <2>7. QED  BY <2>5, <2>6
<1>8. QED  BY <1>1, <1>4, <1>5, <1>6, <1>7 DEF Abstract!vars, Abstract!semvars

\* semacquire1: after the sleep.
LEMMA AcquireAwakeMaps ==
  ASSUME IInv, View, View', NEW g \in Goroutines, AcquireAwake(g)
  PROVE  Abstract!Ticket(g) \/ Abstract!Take(g) \/ UNCHANGED Abstract!vars
<1>1. pc[g] = "awake" /\ UNCHANGED <<list, s, ticket>> /\ call[g].op = "acquire"
  BY DEF AcquireAwake, IInv, CallsFit, AcquirePCs
<1>2. call[g].addr \in Addr /\ "idle" \in PCs /\ "alock" \in PCs
  BY <1>1, CallFacts DEF IInv, PCs
<1>3. AbsSst[g] = IF ticket[g] THEN "ticket" ELSE "ready"
  BY <1>1 DEF View, SstFits
<1>4. CASE pc' = [pc EXCEPT ![g] = "idle"] /\ call' = [call EXCEPT ![g] = NoCall]
           /\ slept' = [slept EXCEPT ![g] = FALSE]
  <2>1. \A h \in Goroutines : h # g => call'[h] = call[h] /\ slept'[h] = slept[h]
    BY <1>4 DEF IInv, TypeOK
  <2>2. /\ pc'[g] = "idle"
        /\ AbsSst' = [AbsSst EXCEPT ![g] = AbsSst'[g]]
        /\ AbsCall' = [AbsCall EXCEPT ![g] = AbsCall'[g]]
        /\ AbsWakee'[g] = AbsWakee[g] => UNCHANGED AbsWakee
        /\ UNCHANGED AbsWaitq
    BY <1>1, <1>2, <1>4, <2>1, PlainStep
  <2>3. AbsSst'[g] = "running" /\ AbsWakee'[g] = AbsWakee[g]
    BY <1>1, <2>2 DEF View, SstFits, WakeeFits
  <2>4. AbsCall[g] = call[g] /\ AbsCall'[g] = NoCall
    BY <1>1, <1>4, <2>2 DEF AbsCall, IInv, TypeOK
  <2>5. CASE ticket[g]
    <3>1. UNCHANGED val
      BY <2>5 DEF AcquireAwake
    <3>2. QED
      BY <1>1, <1>3, <2>2, <2>3, <2>4, <2>5, <3>1
      DEF Abstract!Ticket, Abstract!SemTicket, Abstract!Return, Abstract!NoCall, NoCall
  <2>6. CASE ~ticket[g]
    <3>1. val[call[g].addr] > 0 /\ val' = [val EXCEPT ![call[g].addr] = @ - 1]
      BY <2>2, <2>6 DEF AcquireAwake, IInv, TypeOK
    <3>2. QED
      BY <1>1, <1>3, <2>2, <2>3, <2>4, <2>6, <3>1
      DEF Abstract!Take, Abstract!SemTake, Abstract!Return, Abstract!NoCall, NoCall
  <2>7. QED  BY <2>5, <2>6
<1>5. CASE /\ ~ticket[g] /\ pc' = [pc EXCEPT ![g] = "alock"]
           /\ slept' = [slept EXCEPT ![g] = TRUE] /\ UNCHANGED <<val, call>>
  <2>1. slept'[g] /\ \A h \in Goroutines : h # g => slept'[h] = slept[h]
    BY <1>5 DEF IInv, TypeOK
  <2>2. /\ pc'[g] = "alock"
        /\ AbsSst'[g] = AbsSst[g] => UNCHANGED AbsSst
        /\ AbsWakee'[g] = AbsWakee[g] => UNCHANGED AbsWakee
        /\ AbsCall'[g] = AbsCall[g] => UNCHANGED AbsCall
        /\ UNCHANGED AbsWaitq
    BY <1>1, <1>2, <1>5, <2>1, PlainStep
  <2>3. AbsSst'[g] = AbsSst[g] /\ AbsWakee'[g] = AbsWakee[g]
    BY <1>1, <1>3, <1>5, <2>1, <2>2 DEF View, SstFits, WakeeFits
  <2>4. AbsCall'[g] = AbsCall[g]
    BY <1>1, <1>5, <2>2 DEF AbsCall
  <2>5. QED  BY <1>5, <2>2, <2>3, <2>4 DEF Abstract!vars, Abstract!semvars
<1>6. QED  BY <1>4, <1>5 DEF AcquireAwake

\* The steps of semacquire1 that only take or drop the lock or touch nwait are not seen.
LEMMA AcquireStutters ==
  ASSUME IInv, View, View', NEW g \in Goroutines,
         AcquireLock(g) \/ AcquireCount(g) \/ AcquireUndo(g) \/ AcquireUnlock(g)
  PROVE  UNCHANGED Abstract!vars
<1>1. UNCHANGED <<val, list, ticket, s>>
  BY DEF AcquireLock, AcquireCount, AcquireUndo, AcquireUnlock
<1>2. CASE AcquireLock(g) \/ AcquireCount(g) \/ AcquireUndo(g)
  <2>1. UNCHANGED <<call, slept>>
    BY <1>2 DEF AcquireLock, AcquireCount, AcquireUndo
  <2>2. PICK to \in {"nwait", "again", "aunlock"} :
          /\ pc' = [pc EXCEPT ![g] = to]
          /\ \/ to \in {"nwait", "again"} /\ pc[g] \in {"alock", "nwait"}
             \/ to = "aunlock" /\ pc[g] = "undo"
    BY <1>2 DEF AcquireLock, AcquireCount, AcquireUndo
  <2>3. to \in PCs
    BY DEF PCs
  <2>4. /\ pc'[g] = to
        /\ AbsSst'[g] = AbsSst[g] => UNCHANGED AbsSst
        /\ AbsWakee'[g] = AbsWakee[g] => UNCHANGED AbsWakee
        /\ AbsCall'[g] = AbsCall[g] => UNCHANGED AbsCall
        /\ UNCHANGED AbsWaitq
    BY <1>1, <2>1, <2>2, <2>3, PlainStep
  <2>5. AbsSst'[g] = AbsSst[g]
    BY <2>1, <2>2, <2>4 DEF View, SstFits
  <2>6. AbsWakee'[g] = AbsWakee[g]
    BY <2>2, <2>4 DEF View, WakeeFits
  <2>7. AbsCall'[g] = AbsCall[g]
    BY <2>1, <2>2, <2>4 DEF AbsCall
  <2>8. QED  BY <1>1, <2>4, <2>5, <2>6, <2>7 DEF Abstract!vars, Abstract!semvars
<1>3. CASE AcquireUnlock(g)
  <2>1. /\ pc[g] = "aunlock" /\ pc' = [pc EXCEPT ![g] = "idle"]
        /\ call' = [call EXCEPT ![g] = NoCall] /\ slept' = [slept EXCEPT ![g] = FALSE]
    BY <1>3 DEF AcquireUnlock
  <2>2. call'[g] = NoCall /\ \A h \in Goroutines : h # g => call'[h] = call[h] /\ slept'[h] = slept[h]
    BY <2>1 DEF IInv, TypeOK
  <2>3. "idle" \in PCs
    BY DEF PCs
  <2>4. /\ pc'[g] = "idle"
        /\ AbsSst'[g] = AbsSst[g] => UNCHANGED AbsSst
        /\ AbsWakee'[g] = AbsWakee[g] => UNCHANGED AbsWakee
        /\ AbsCall'[g] = AbsCall[g] => UNCHANGED AbsCall
        /\ UNCHANGED AbsWaitq
    BY <1>1, <2>1, <2>2, <2>3, PlainStep
  <2>5. AbsSst'[g] = AbsSst[g] /\ AbsWakee'[g] = AbsWakee[g]
    BY <2>1, <2>4 DEF View, SstFits, WakeeFits
  <2>6. AbsCall'[g] = AbsCall[g]
    BY <2>1, <2>2, <2>4 DEF AbsCall
  <2>7. QED  BY <1>1, <2>4, <2>5, <2>6 DEF Abstract!vars, Abstract!semvars
<1>4. QED  BY <1>2, <1>3

\* semrelease1 is called.
LEMMA ReleaseMaps ==
  ASSUME IInv, View, View', NEW g \in Goroutines, Release(g)
  PROVE  Abstract!Release(g)
<1>1. /\ pc[g] = "idle" /\ pc' = [pc EXCEPT ![g] = "check"]
      /\ UNCHANGED <<list, ticket, slept, s>>
  BY DEF Release
<1>2. PICK a \in Addr, handoff \in BOOLEAN :
        /\ val' = [val EXCEPT ![a] = @ + 1]
        /\ call' = [call EXCEPT ![g] = [op |-> "release", addr |-> a, flag |-> handoff]]
  BY DEF Release
<1>3. /\ call'[g] = [op |-> "release", addr |-> a, flag |-> handoff] /\ call[g] = NoCall
      /\ \A h \in Goroutines : h # g => call'[h] = call[h]
  BY <1>1, <1>2 DEF IInv, TypeOK, CallsFit
<1>4. "check" \in PCs
  BY DEF PCs
<1>5. /\ pc'[g] = "check"
      /\ AbsSst' = [AbsSst EXCEPT ![g] = AbsSst'[g]]
      /\ AbsCall' = [AbsCall EXCEPT ![g] = AbsCall'[g]]
      /\ AbsWakee'[g] = AbsWakee[g] => UNCHANGED AbsWakee
      /\ UNCHANGED AbsWaitq
  BY <1>1, <1>3, <1>4, PlainStep
<1>6. AbsSst[g] = "running" /\ AbsSst'[g] = "xadded" /\ AbsWakee'[g] = AbsWakee[g]
  BY <1>1, <1>5 DEF View, SstFits, WakeeFits
<1>7. AbsCall[g] = NoCall /\ AbsCall'[g] = call'[g]
  BY <1>1, <1>3, <1>5 DEF AbsCall
<1>8. QED
  <2>1. Abstract!SemInc(g, a)
    BY <1>2, <1>5, <1>6 DEF Abstract!SemInc
  <2>2. AbsCall' = [AbsCall EXCEPT ![g] = [op |-> "release", addr |-> a, flag |-> handoff]]
    BY <1>3, <1>5, <1>7
  <2>3. QED  BY <1>7, <2>1, <2>2 DEF Abstract!Release, Abstract!NoCall, NoCall

\* semrelease1 reads nwait, before it takes the lock and after.
LEMMA ReleaseLooksMap ==
  ASSUME IInv, View, View', NEW g \in Goroutines, ReleaseCheck(g) \/ ReleaseRecheck(g)
  PROVE  Abstract!NoWaiter(g) \/ UNCHANGED Abstract!vars
<1>1. /\ pc[g] \in {"check", "recheck"} /\ UNCHANGED <<val, list, ticket, s>>
      /\ call[g].op = "release" /\ s[g] = None
  BY DEF ReleaseCheck, ReleaseRecheck, IInv, CallsFit, ReleasePCs, WakeesFit
<1>2. call[g].addr \in Addr
  BY <1>1, CallFacts DEF IInv
<1>3. \A h \in Goroutines : h # g => call'[h] = call[h] /\ slept'[h] = slept[h]
  BY DEF ReleaseCheck, ReleaseRecheck, IInv, TypeOK
<1>4. CASE nwait = 0
  <2>1. PICK to \in {"idle", "runlock"} :
          pc' = [pc EXCEPT ![g] = to] /\ (to = "idle" => call' = [call EXCEPT ![g] = NoCall])
    BY <1>4 DEF ReleaseCheck, ReleaseRecheck
  <2>2. to \in PCs
    BY DEF PCs
  <2>3. /\ pc'[g] = to
        /\ AbsSst' = [AbsSst EXCEPT ![g] = AbsSst'[g]]
        /\ AbsCall' = [AbsCall EXCEPT ![g] = AbsCall'[g]]
        /\ AbsWakee'[g] = AbsWakee[g] => UNCHANGED AbsWakee
        /\ UNCHANGED AbsWaitq
    BY <1>1, <1>3, <2>1, <2>2, PlainStep
  <2>4. AbsSst[g] = "xadded" /\ AbsSst'[g] = "running" /\ AbsWakee'[g] = AbsWakee[g]
    BY <1>1, <2>3 DEF View, SstFits, WakeeFits
  <2>5. AbsCall[g] = call[g] /\ AbsCall'[g] = NoCall
    BY <1>1, <2>1, <2>3 DEF AbsCall, IInv, TypeOK
  <2>6. AbsWaitq[call[g].addr] = <<>>
    BY <1>2, <1>4, NobodyWaits
  <2>7. Abstract!NoWaiter(g)
    BY <1>1, <2>3, <2>4, <2>5, <2>6
    DEF Abstract!NoWaiter, Abstract!SemNoWaiter, Abstract!Return, Abstract!NoCall, NoCall
  <2>8. QED  BY <2>7
<1>5. CASE nwait # 0
  <2>1. PICK to \in {"rlock", "dequeue"} : pc' = [pc EXCEPT ![g] = to] /\ UNCHANGED call
    BY <1>5 DEF ReleaseCheck, ReleaseRecheck
  <2>2. to \in PCs
    BY DEF PCs
  <2>3. /\ pc'[g] = to
        /\ AbsSst'[g] = AbsSst[g] => UNCHANGED AbsSst
        /\ AbsWakee'[g] = AbsWakee[g] => UNCHANGED AbsWakee
        /\ AbsCall'[g] = AbsCall[g] => UNCHANGED AbsCall
        /\ UNCHANGED AbsWaitq
    BY <1>1, <1>3, <2>1, <2>2, PlainStep
  <2>4. AbsSst'[g] = AbsSst[g] /\ AbsWakee'[g] = AbsWakee[g]
    BY <1>1, <2>3 DEF View, SstFits, WakeeFits
  <2>5. AbsCall'[g] = AbsCall[g]
    BY <1>1, <2>1, <2>3 DEF AbsCall
  <2>6. QED  BY <1>1, <2>3, <2>4, <2>5 DEF Abstract!vars, Abstract!semvars
<1>6. QED  BY <1>4, <1>5

\* semrelease1: root.dequeue.
LEMMA ReleaseDequeueMaps ==
  ASSUME IInv, View, View', NEW g \in Goroutines, ReleaseDequeue(g)
  PROVE  Abstract!NoWaiter(g) \/ Abstract!Dequeue(g)
<1> DEFINE a == call[g].addr
<1>1. /\ pc[g] = "dequeue" /\ UNCHANGED <<val, call, slept>>
      /\ call[g].op = "release" /\ s[g] = None
  BY DEF ReleaseDequeue, IInv, CallsFit, ReleasePCs, WakeesFit
<1>2. a \in Addr
  BY <1>1, CallFacts DEF IInv
<1>3. \A b \in Addr : AbsWaitq[b] = list[b]
  BY <1>1, ListsAreSeen DEF LockedPCs
<1>4. AbsSst[g] = "xadded" /\ AbsCall[g] = call[g]
  BY <1>1 DEF View, SstFits, AbsCall
<1>5. CASE list[a] = <<>>
  <2>1. pc' = [pc EXCEPT ![g] = "runlock"] /\ UNCHANGED <<list, ticket, s>>
    BY <1>5 DEF ReleaseDequeue
  <2>2. "runlock" \in PCs
    BY DEF PCs
  <2>3. /\ pc'[g] = "runlock"
        /\ AbsSst' = [AbsSst EXCEPT ![g] = AbsSst'[g]]
        /\ AbsCall' = [AbsCall EXCEPT ![g] = AbsCall'[g]]
        /\ AbsWakee'[g] = AbsWakee[g] => UNCHANGED AbsWakee
        /\ UNCHANGED AbsWaitq
    BY <1>1, <2>1, <2>2, PlainStep
  <2>4. AbsSst'[g] = "running" /\ AbsWakee'[g] = AbsWakee[g] /\ AbsCall'[g] = NoCall
    BY <1>1, <2>1, <2>3 DEF View, SstFits, WakeeFits, AbsCall
  <2>5. Abstract!NoWaiter(g)
    BY <1>1, <1>2, <1>3, <1>4, <1>5, <2>3, <2>4
    DEF Abstract!NoWaiter, Abstract!SemNoWaiter, Abstract!Return, Abstract!NoCall, NoCall
  <2>6. QED  BY <2>5
<1>6. CASE list[a] # <<>>
  <2>0. PICK f : f = Head(list[a])
    OBVIOUS
  <2>1. /\ pc' = [pc EXCEPT ![g] = "count"]
        /\ list' = [list EXCEPT ![a] = Tail(@)]
        /\ ticket' = Promote(list[a])
        /\ s' = [s EXCEPT ![g] = f]
    BY <1>6, <2>0 DEF ReleaseDequeue
  <2>2. f \in Goroutines /\ Queued(f) /\ pc[f] = "parked" /\ f # g
    BY <1>1, <1>2, <1>6, <2>0, HeadFacts DEF IInv
  <2>3. /\ pc'[g] = "count" /\ s'[g] = f
        /\ \A h \in Goroutines : h # g => pc'[h] = pc[h] /\ s'[h] = s[h]
    BY <2>1 DEF IInv, TypeOK
  <2>4. \A h \in Goroutines : Queued(h)' <=> Queued(h) /\ h # f
    BY <1>2, <1>6, <2>0, DequeueUnqueues DEF IInv
  <2>5. AbsSst' = [AbsSst EXCEPT ![g] = "waking", ![f] = "dequeued"]
    <3>1. AbsSst'[g] = "waking"
      BY <2>3 DEF View, SstFits
    <3>2. AbsSst'[f] = "dequeued"
      <4>1. ~Granted(f)'
        <5>1. ~Granted(f)
          BY <2>2 DEF Granted, IInv, WakeesFit
        <5>2. QED  BY <2>3, <5>1 DEF Granted
      <4>2. pc'[f] = "parked" /\ ~Queued(f)'
        BY <2>2, <2>3, <2>4
      <4>3. QED  BY <2>2, <4>1, <4>2 DEF View, SstFits
    <3>3. ASSUME NEW h \in Goroutines, h # g, h # f
          PROVE  AbsSst'[h] = AbsSst[h]
      <4>1. CASE Queued(h)
        <5>1. pc[h] = "parked"
          BY <4>1, QueuedFacts DEF IInv
        <5>2. QED  BY <2>3, <2>4, <3>3, <4>1, <5>1 DEF View, SstFits
      <4>2. CASE ~Queued(h)
        <5>1. Granted(h)' <=> Granted(h)
          BY <1>1, <2>3 DEF Granted
        <5>2. ticket'[h] = ticket[h]
          BY <1>6, <4>2, DequeueUnqueues DEF IInv
        <5>3. ticket[h] \in BOOLEAN
          BY DEF IInv, TypeOK
        <5>4. QED  BY <1>1, <2>3, <2>4, <3>3, <4>2, <5>1, <5>2, <5>3, SameSst
      <4>3. QED  BY <4>1, <4>2
    <3>4. AbsSst = [h \in Goroutines |-> AbsSst[h]] /\ AbsSst' = [h \in Goroutines |-> AbsSst'[h]]
      BY DEF AbsSst
    <3>5. QED  BY <2>2, <3>1, <3>2, <3>3, <3>4
  <2>6. AbsWakee' = [AbsWakee EXCEPT ![g] = f]
    <3>1. AbsWakee'[g] = f
      BY <2>3 DEF View, WakeeFits
    <3>2. \A h \in Goroutines : h # g => AbsWakee'[h] = AbsWakee[h]
      BY <2>3 DEF View, WakeeFits
    <3>3. AbsWakee = [h \in Goroutines |-> AbsWakee[h]] /\ AbsWakee' = [h \in Goroutines |-> AbsWakee'[h]]
      BY DEF AbsWakee
    <3>4. QED  BY <3>1, <3>2, <3>3
  <2>7. UNCHANGED AbsCall
    BY <1>1, <2>1, <2>3 DEF AbsCall
  <2>8. AbsWaitq' = [AbsWaitq EXCEPT ![a] = Tail(@)]
    <3>1. \A h \in Goroutines : pc'[h] # "enqueue"
      BY <1>1, <2>3 DEF IInv, LockIsHeld, LockedPCs
    <3>2. \A b \in Addr : AbsWaitq'[b] = list'[b]
      BY <3>1 DEF View, WaitqFits
    <3>3. AbsWaitq = [b \in Addr |-> AbsWaitq[b]] /\ AbsWaitq' = [b \in Addr |-> AbsWaitq'[b]]
      BY DEF AbsWaitq
    <3>4. QED  BY <1>2, <1>3, <2>1, <3>2, <3>3 DEF IInv, TypeOK
  <2>9. Abstract!Dequeue(g)
    BY <1>1, <1>2, <1>3, <1>4, <1>6, <2>0, <2>5, <2>6, <2>7, <2>8
    DEF Abstract!Dequeue, Abstract!SemDequeue
  <2>10. QED  BY <2>9
<1>7. QED  BY <1>5, <1>6

\* The steps of semrelease1 that only take or drop the lock or touch nwait are not seen.
LEMMA ReleaseStutters ==
  ASSUME IInv, View, View', NEW g \in Goroutines,
         ReleaseLock(g) \/ ReleaseCount(g) \/ ReleaseUnlock(g)
  PROVE  UNCHANGED Abstract!vars
<1>1. UNCHANGED <<val, list, ticket, s>>
  BY DEF ReleaseLock, ReleaseCount, ReleaseUnlock
<1>2. PICK to \in {"recheck", "runlock", "idle", "grant"} :
        /\ pc' = [pc EXCEPT ![g] = to]
        /\ \/ pc[g] = "rlock" /\ to = "recheck" /\ UNCHANGED <<call, slept>>
           \/ pc[g] = "count" /\ to = "runlock" /\ UNCHANGED <<call, slept>>
           \/ pc[g] = "runlock" /\ to = "grant" /\ s[g] # None /\ UNCHANGED <<call, slept>>
           \/ /\ pc[g] = "runlock" /\ to = "idle" /\ s[g] = None
              /\ call' = [call EXCEPT ![g] = NoCall] /\ slept' = [slept EXCEPT ![g] = FALSE]
  <2>1. CASE ReleaseLock(g)
    BY <2>1 DEF ReleaseLock
  <2>2. CASE ReleaseCount(g)
    BY <2>2 DEF ReleaseCount
  <2>3. CASE ReleaseUnlock(g)
    BY <2>3 DEF ReleaseUnlock
  <2>4. QED  BY <2>1, <2>2, <2>3
<1>3. \A h \in Goroutines : h # g => call'[h] = call[h] /\ slept'[h] = slept[h]
  BY <1>2 DEF IInv, TypeOK
<1>4. to \in PCs
  BY DEF PCs
<1>5. /\ pc'[g] = to
      /\ AbsSst'[g] = AbsSst[g] => UNCHANGED AbsSst
      /\ AbsWakee'[g] = AbsWakee[g] => UNCHANGED AbsWakee
      /\ AbsCall'[g] = AbsCall[g] => UNCHANGED AbsCall
      /\ UNCHANGED AbsWaitq
  BY <1>1, <1>2, <1>3, <1>4, PlainStep
<1>6. pc[g] = "count" => s[g] # None
  BY DEF IInv, WakeesFit
<1>7. AbsSst'[g] = AbsSst[g] /\ AbsWakee'[g] = AbsWakee[g]
  <2>1. CASE pc[g] = "rlock" /\ to = "recheck"
    <3>1. s[g] = None
      BY <2>1 DEF IInv, WakeesFit
    <3>2. QED  BY <1>1, <1>5, <2>1, <3>1 DEF View, SstFits, WakeeFits
  <2>2. CASE pc[g] = "count" /\ to = "runlock"
    BY <1>1, <1>5, <1>6, <2>2 DEF View, SstFits, WakeeFits
  <2>3. CASE pc[g] = "runlock" /\ to = "grant" /\ s[g] # None
    BY <1>1, <1>5, <2>3 DEF View, SstFits, WakeeFits
  <2>4. CASE pc[g] = "runlock" /\ to = "idle" /\ s[g] = None
    BY <1>1, <1>5, <2>4 DEF View, SstFits, WakeeFits
  <2>5. QED  BY <1>2, <2>1, <2>2, <2>3, <2>4
<1>8. AbsCall'[g] = AbsCall[g]
  <2>1. CASE UNCHANGED call /\ to # "idle"
    BY <1>1, <1>2, <1>5, <1>6, <2>1 DEF AbsCall
  <2>2. CASE pc[g] = "runlock" /\ to = "idle" /\ s[g] = None /\ call' = [call EXCEPT ![g] = NoCall]
    <3>1. call'[g] = NoCall
      BY <2>2 DEF IInv, TypeOK
    <3>2. QED  BY <1>1, <1>5, <2>2, <3>1 DEF AbsCall
  <2>3. QED  BY <1>2, <2>1, <2>2
<1>9. QED  BY <1>1, <1>5, <1>7, <1>8 DEF Abstract!vars, Abstract!semvars

\* semrelease1: the decision about the waiter, which is when it counts as readied.
LEMMA ReleaseGrantMaps ==
  ASSUME IInv, IInv', View, View', NEW g \in Goroutines, ReleaseGrant(g)
  PROVE  Abstract!Ready(g)
<1>1. /\ pc[g] = "grant" /\ UNCHANGED <<list, call, slept, s>>
      /\ call[g].op = "release" /\ s[g] # None
  BY DEF ReleaseGrant, IInv, CallsFit, ReleasePCs, WakeesFit
<1>2. PICK f : f = s[g]
  OBVIOUS
<1>3. /\ f \in Goroutines /\ f # g /\ pc[f] = "parked" /\ ~Queued(f) /\ ~ticket[f]
      /\ \A h \in Goroutines : s[h] = f => h = g
  BY <1>1, <1>2, WakeeFacts DEF IInv
<1>4. call[g].addr \in Addr
  BY <1>1, CallFacts DEF IInv
<1> DEFINE granted == call[g].flag /\ val[call[g].addr] > 0
<1>5. /\ pc' = [pc EXCEPT ![g] = "goready"]
      /\ IF granted THEN /\ val' = [val EXCEPT ![call[g].addr] = @ - 1]
                         /\ ticket' = [ticket EXCEPT ![f] = TRUE]
         ELSE UNCHANGED <<val, ticket>>
  BY <1>2, <1>3 DEF ReleaseGrant
<1>6. /\ pc'[g] = "goready" /\ \A h \in Goroutines : h # g => pc'[h] = pc[h]
      /\ ticket'[f] = granted /\ \A h \in Goroutines : h # f => ticket'[h] = ticket[h]
  <2>1. CASE granted
    BY <1>3, <1>5, <2>1 DEF IInv, TypeOK
  <2>2. CASE ~granted
    BY <1>3, <1>5, <2>2 DEF IInv, TypeOK
  <2>3. QED  BY <2>1, <2>2
<1>7. \A h \in Goroutines : Queued(h)' <=> Queued(h)
  BY <1>1, SameQueued
<1>8. AbsSst' = [AbsSst EXCEPT ![g] = "running", ![f] = IF granted THEN "ticket" ELSE "ready"]
  <2>1. AbsSst'[g] = "running"
    BY <1>6 DEF View, SstFits
  <2>2. AbsSst'[f] = IF granted THEN "ticket" ELSE "ready"
    <3>1. Granted(f)'
      BY <1>1, <1>2, <1>6 DEF Granted
    <3>2. pc'[f] = "parked" /\ ~Queued(f)'
      BY <1>3, <1>6, <1>7
    <3>3. QED  BY <1>3, <1>6, <3>1, <3>2 DEF View, SstFits
  <2>3. ASSUME NEW h \in Goroutines, h # g, h # f
        PROVE  AbsSst'[h] = AbsSst[h]
    <3>1. Granted(h)' <=> Granted(h)
      BY <1>1, <1>2, <1>6, <2>3 DEF Granted
    <3>2. ticket'[h] = ticket[h] /\ ticket[h] \in BOOLEAN
      BY <1>6, <2>3 DEF IInv, TypeOK
    <3>3. CASE Queued(h)
      <4>1. pc[h] = "parked"
        BY <3>3, QueuedFacts DEF IInv
      <4>2. QED  BY <1>6, <1>7, <2>3, <3>3, <4>1 DEF View, SstFits
    <3>4. CASE ~Queued(h)
      BY <1>1, <1>6, <1>7, <2>3, <3>1, <3>2, <3>4, SameSst
    <3>5. QED  BY <3>3, <3>4
  <2>4. AbsSst = [h \in Goroutines |-> AbsSst[h]] /\ AbsSst' = [h \in Goroutines |-> AbsSst'[h]]
    BY DEF AbsSst
  <2> HIDE DEF granted
  <2>5. QED  BY <1>3, <2>1, <2>2, <2>3, <2>4
<1>9. AbsWakee' = [AbsWakee EXCEPT ![g] = None] /\ AbsWakee[g] = f
  BY <1>1, <1>2, <1>6 DEF View, WakeeFits
<1>10. UNCHANGED AbsWaitq
  BY <1>1, <1>6, SameWaitq
<1>11. AbsCall[g] = call[g] /\ AbsCall' = [AbsCall EXCEPT ![g] = NoCall]
  BY <1>1, <1>6 DEF AbsCall
<1>12. AbsSst[g] = "waking"
  BY <1>1 DEF View, SstFits
<1>13. Abstract!SemReady(g, call[g].addr, call[g].flag)
  <2>1. val' = IF granted THEN [val EXCEPT ![call[g].addr] = @ - 1] ELSE val
    BY <1>5
  <2>2. QED  BY <1>8, <1>9, <1>10, <1>12, <2>1 DEF Abstract!SemReady
<1>14. QED
  BY <1>1, <1>11, <1>13 DEF Abstract!Ready, Abstract!Return, Abstract!NoCall, NoCall

\* semrelease1: readyWithTime is not seen, the waiter counts as readied already.
LEMMA ReleaseReadyStutters ==
  ASSUME IInv, View, View', NEW g \in Goroutines, ReleaseReady(g)
  PROVE  UNCHANGED Abstract!vars
<1>1. /\ pc[g] = "goready" /\ UNCHANGED <<val, list, ticket>> /\ s[g] # None
      /\ pc' = [pc EXCEPT ![g] = "idle", ![s[g]] = "awake"]
      /\ s' = [s EXCEPT ![g] = None]
      /\ call' = [call EXCEPT ![g] = NoCall] /\ slept' = [slept EXCEPT ![g] = FALSE]
  BY DEF ReleaseReady, IInv, WakeesFit
<1>2. PICK f : f = s[g]
  OBVIOUS
<1>3. /\ f \in Goroutines /\ f # g /\ pc[f] = "parked" /\ ~Queued(f)
      /\ \A h \in Goroutines : s[h] = f => h = g
  BY <1>1, <1>2, WakeeFacts DEF IInv
<1>4. /\ pc'[g] = "idle" /\ pc'[f] = "awake" /\ s'[g] = None /\ call'[g] = NoCall
      /\ \A h \in Goroutines : h # g => s'[h] = s[h] /\ call'[h] = call[h] /\ slept'[h] = slept[h]
      /\ \A h \in Goroutines : h # g /\ h # f => pc'[h] = pc[h]
  BY <1>1, <1>2, <1>3 DEF IInv, TypeOK
<1>5. \A h \in Goroutines : Queued(h)' <=> Queued(h)
  BY <1>1, SameQueued
<1>6. UNCHANGED AbsSst
  <2>1. AbsSst[g] = "running" /\ AbsSst'[g] = "running"
    BY <1>1, <1>4 DEF View, SstFits
  <2>2. AbsSst[f] = AbsSst'[f]
    <3>1. Granted(f)
      BY <1>1, <1>2 DEF Granted
    <3>2. AbsSst[f] = IF ticket[f] THEN "ticket" ELSE "ready"
      BY <1>3, <3>1 DEF View, SstFits
    <3>3. AbsSst'[f] = IF ticket'[f] THEN "ticket" ELSE "ready"
      BY <1>3, <1>4 DEF View, SstFits
    <3>4. QED  BY <1>1, <3>2, <3>3
  <2>3. ASSUME NEW h \in Goroutines, h # g, h # f
        PROVE  AbsSst'[h] = AbsSst[h]
    <3>1. Granted(h)' <=> Granted(h)
      BY <1>2, <1>3, <1>4, <2>3 DEF Granted
    <3>2. ticket'[h] = ticket[h] /\ ticket[h] \in BOOLEAN
      BY <1>1, <2>3 DEF IInv, TypeOK
    <3>3. CASE Queued(h)
      <4>1. pc[h] = "parked"
        BY <3>3, QueuedFacts DEF IInv
      <4>2. QED  BY <1>4, <1>5, <2>3, <3>3, <4>1 DEF View, SstFits
    <3>4. CASE ~Queued(h)
      BY <1>4, <1>5, <2>3, <3>1, <3>2, <3>4, SameSst
    <3>5. QED  BY <3>3, <3>4
  <2>4. AbsSst = [h \in Goroutines |-> AbsSst[h]] /\ AbsSst' = [h \in Goroutines |-> AbsSst'[h]]
    BY DEF AbsSst
  <2>5. QED  BY <2>1, <2>2, <2>3, <2>4
<1>7. UNCHANGED AbsWakee
  <2>1. ASSUME NEW h \in Goroutines
        PROVE  AbsWakee'[h] = AbsWakee[h]
    BY <1>1, <1>3, <1>4, <2>1 DEF View, WakeeFits
  <2>2. AbsWakee = [h \in Goroutines |-> AbsWakee[h]] /\ AbsWakee' = [h \in Goroutines |-> AbsWakee'[h]]
    BY DEF AbsWakee
  <2>3. QED  BY <2>1, <2>2
<1>8. UNCHANGED AbsWaitq
  <2>1. \A h \in Goroutines : h # g => /\ pc'[h] = "enqueue" <=> pc[h] = "enqueue"
                                       /\ call'[h] = call[h]
    BY <1>3, <1>4
  <2>2. QED  BY <1>1, <1>4, <2>1, SameWaitq
<1>9. UNCHANGED AbsCall
  <2>1. ASSUME NEW h \in Goroutines
        PROVE  AbsCall'[h] = AbsCall[h]
    BY <1>1, <1>3, <1>4, <2>1 DEF AbsCall
  <2>2. AbsCall = [h \in Goroutines |-> AbsCall[h]] /\ AbsCall' = [h \in Goroutines |-> AbsCall'[h]]
    BY DEF AbsCall
  <2>3. QED  BY <2>1, <2>2
<1>10. QED  BY <1>1, <1>6, <1>7, <1>8, <1>9 DEF Abstract!vars, Abstract!semvars

\* At first the semaphore looks unused.
LEMMA InitMaps == Init => Abstract!Init
<1> SUFFICES ASSUME Init PROVE Abstract!Init
  OBVIOUS
<1>1. View /\ \A g \in Goroutines : pc[g] = "idle"
  BY InitIInv, ViewHolds DEF Init
<1>2. AbsSst = [g \in Goroutines |-> "running"]
  BY <1>1 DEF View, SstFits
<1>3. AbsWakee = [g \in Goroutines |-> None]
  BY <1>1 DEF View, WakeeFits
<1>4. AbsWaitq = [a \in Addr |-> <<>>]
  BY <1>1 DEF View, WaitqFits, Init
<1>5. AbsCall = [g \in Goroutines |-> NoCall]
  BY <1>1 DEF AbsCall, Init
<1>6. QED  BY <1>2, <1>3, <1>4, <1>5 DEF Abstract!Init, Abstract!SemInit, Abstract!NoCall, NoCall, Init

\* A step of the code is a step of the semaphore, or is not seen.
LEMMA StepMaps ==
  ASSUME IInv, IInv', View, View', NEW g \in Goroutines, StepOf(g)
  PROVE  Abstract!Next \/ UNCHANGED Abstract!vars
<1> USE DEF Abstract!Next
<1>1. CASE Acquire(g)
  BY <1>1, AcquireMaps
<1>2. CASE AcquireEasy(g)
  BY <1>2, AcquireEasyMaps
<1>3. CASE AcquireAgain(g)
  BY <1>3, AcquireAgainMaps
<1>4. CASE AcquireSleep(g)
  BY <1>4, AcquireSleepMaps
<1>5. CASE AcquireAwake(g)
  BY <1>5, AcquireAwakeMaps
<1>6. CASE AcquireLock(g) \/ AcquireCount(g) \/ AcquireUndo(g) \/ AcquireUnlock(g)
  BY <1>6, AcquireStutters
<1>7. CASE Release(g)
  BY <1>7, ReleaseMaps
<1>8. CASE ReleaseCheck(g) \/ ReleaseRecheck(g)
  BY <1>8, ReleaseLooksMap
<1>9. CASE ReleaseDequeue(g)
  BY <1>9, ReleaseDequeueMaps
<1>10. CASE ReleaseLock(g) \/ ReleaseCount(g) \/ ReleaseUnlock(g)
  BY <1>10, ReleaseStutters
<1>11. CASE ReleaseGrant(g)
  BY <1>11, ReleaseGrantMaps
<1>12. CASE ReleaseReady(g)
  BY <1>12, ReleaseReadyStutters
<1>13. QED
  BY <1>1, <1>2, <1>3, <1>4, <1>5, <1>6, <1>7, <1>8, <1>9, <1>10, <1>11, <1>12 DEF StepOf, InCall

\* The code of runtime/sema.go, with its root lock, its counter nwait and the looks at it
\* without the lock, is the semaphore on which the models of sync and internal/poll rest.
THEOREM Refinement == Spec => ImplementsSemaphore
<1>1. IInv /\ IInv' /\ View /\ View' /\ [Next]_vars => [Abstract!Next]_(Abstract!vars)
  <2> SUFFICES ASSUME IInv, IInv', View, View', [Next]_vars
               PROVE  Abstract!Next \/ UNCHANGED Abstract!vars
    OBVIOUS
  <2>1. CASE Next
    BY <2>1, StepMaps DEF Next, StepOf
  <2>2. CASE UNCHANGED vars
    <3>1. UNCHANGED <<AbsSst, AbsWaitq, AbsCall>>
      BY <2>2 DEF vars, AbsSst, AbsWaitq, AbsCall, Queued, Granted
    <3>2. UNCHANGED AbsWakee
      BY <2>2, <3>1 DEF vars, AbsWakee
    <3>3. QED  BY <2>2, <3>1, <3>2 DEF vars, Abstract!vars, Abstract!semvars
  <2>3. QED  BY <2>1, <2>2
<1>2. QED
  BY <1>1, InitMaps, Invariance, ViewHolds, PTL DEF Spec, ImplementsSemaphore, Abstract!Spec
=============================================================================
