--------------------------- MODULE SemaphoreProofs ---------------------------
(***************************************************************************)
(* Lemmas about the wait queue and the steps of Semaphore, for the proofs  *)
(* about its clients.                                                      *)
(***************************************************************************)
EXTENDS Semaphore, SequenceTheorems, FiniteSetTheorems, TLAPS

\* Parking at the tail adds one goroutine to the queue.
LEMMA QueueAppend ==
  ASSUME NEW S, NEW q \in Seq(S), NEW e \in S, e \notin Range(q), IsInjective(q)
  PROVE  /\ Append(q, e) \in Seq(S)
         /\ Range(Append(q, e)) = Range(q) \cup {e}
         /\ IsInjective(Append(q, e))
<1> DEFINE p == Append(q, e)
<1>1. /\ p \in Seq(S) /\ Len(p) = Len(q) + 1 /\ Len(q) \in Nat
      /\ DOMAIN q = 1 .. Len(q) /\ DOMAIN p = 1 .. Len(q) + 1
      /\ p[Len(q) + 1] = e
      /\ \A i \in 1 .. Len(q) : p[i] = q[i]
  BY AppendProperties
<1> HIDE DEF p
<1>2. \A i \in 1 .. Len(q) : i \in 1 .. Len(q) + 1 /\ i # Len(q) + 1 /\ q[i] # e
  BY <1>1 DEF Range
<1>3. \A i \in 1 .. Len(q) + 1 : i = Len(q) + 1 \/ i \in 1 .. Len(q)
  BY <1>1
<1>4. Range(p) = Range(q) \cup {e}
  <2>1. Len(q) + 1 \in 1 .. Len(q) + 1
    BY <1>1
  <2>2. QED  BY <1>1, <1>2, <1>3, <2>1 DEF Range
<1>5. IsInjective(p)
  BY <1>1, <1>2, <1>3 DEF IsInjective
<1>6. QED  BY <1>1, <1>4, <1>5 DEF p

\* Parking at the head adds one goroutine to the queue.
LEMMA QueuePush ==
  ASSUME NEW S, NEW q \in Seq(S), NEW e \in S, e \notin Range(q), IsInjective(q)
  PROVE  /\ <<e>> \o q \in Seq(S)
         /\ Range(<<e>> \o q) = Range(q) \cup {e}
         /\ IsInjective(<<e>> \o q)
<1> DEFINE p == <<e>> \o q
<1>1. /\ p \in Seq(S) /\ Len(p) = Len(q) + 1 /\ Len(q) \in Nat
      /\ DOMAIN q = 1 .. Len(q) /\ DOMAIN p = 1 .. Len(q) + 1
      /\ p[1] = e
      /\ \A i \in 2 .. Len(q) + 1 : p[i] = q[i-1]
  <2>1. <<e>> \in Seq(S) /\ Len(<<e>>) = 1 /\ <<e>>[1] = e
    OBVIOUS
  <2>2. QED  BY <2>1, ConcatProperties
<1> HIDE DEF p
<1>2. \A i \in 1 .. Len(q) : i + 1 \in 2 .. Len(q) + 1 /\ p[i+1] = q[i] /\ q[i] # e
  BY <1>1 DEF Range
<1>3. \A i \in 1 .. Len(q) + 1 : i = 1 \/ (i \in 2 .. Len(q) + 1 /\ i-1 \in 1 .. Len(q))
  BY <1>1
<1>4. Range(p) = Range(q) \cup {e}
  <2>1. 1 \in 1 .. Len(q) + 1
    BY <1>1
  <2>2. ASSUME NEW x \in Range(p)
        PROVE  x \in Range(q) \cup {e}
    <3>1. PICK i \in 1 .. Len(q) + 1 : x = p[i]
      BY <1>1 DEF Range
    <3>2. i = 1 \/ (i - 1 \in DOMAIN q /\ x = q[i-1])
      BY <1>1, <1>3, <3>1
    <3>3. QED  BY <1>1, <3>1, <3>2 DEF Range
  <2>3. ASSUME NEW x \in Range(q)
        PROVE  x \in Range(p)
    <3>1. PICK i \in 1 .. Len(q) : x = q[i]
      BY <1>1 DEF Range
    <3>2. i + 1 \in DOMAIN p /\ p[i+1] = x
      BY <1>1, <1>2, <3>1
    <3>3. QED  BY <3>2 DEF Range
  <2>4. e \in Range(p)
    BY <1>1, <2>1 DEF Range
  <2>5. QED  BY <2>2, <2>3, <2>4
<1>5. IsInjective(p)
  <2>1. SUFFICES ASSUME NEW i \in 1 .. Len(q) + 1, NEW j \in 1 .. Len(q) + 1, p[i] = p[j]
                 PROVE  i = j
    BY <1>1 DEF IsInjective
  <2>2. CASE i = 1 \/ j = 1
    BY <1>1, <1>2, <1>3, <2>1, <2>2
  <2>3. CASE i # 1 /\ j # 1
    <3>1. i - 1 \in DOMAIN q /\ j - 1 \in DOMAIN q /\ q[i-1] = q[j-1]
      BY <1>1, <1>3, <2>1, <2>3
    <3>2. QED  BY <3>1 DEF IsInjective
  <2>4. QED  BY <2>2, <2>3
<1>6. QED  BY <1>1, <1>4, <1>5 DEF p

\* Taking the first of the queue removes it and nobody else.
LEMMA QueueTail ==
  ASSUME NEW S, NEW q \in Seq(S), q # <<>>, IsInjective(q)
  PROVE  /\ Head(q) \in S /\ Head(q) \in Range(q)
         /\ Tail(q) \in Seq(S)
         /\ Range(Tail(q)) = Range(q) \ {Head(q)}
         /\ IsInjective(Tail(q))
<1> DEFINE p == Tail(q)
<1>1. /\ p \in Seq(S) /\ Len(q) \in Nat /\ Len(q) >= 1
      /\ DOMAIN q = 1 .. Len(q) /\ DOMAIN p = 1 .. Len(q) - 1
      /\ Head(q) = q[1] /\ q[1] \in S
      /\ \A i \in 1 .. Len(q) - 1 : p[i] = q[i+1]
  BY HeadTailProperties
<1> HIDE DEF p
<1>2. \A i \in 1 .. Len(q) - 1 : i + 1 \in 1 .. Len(q) /\ i + 1 # 1
  BY <1>1
<1>3. \A i \in 1 .. Len(q) : i = 1 \/ (i - 1 \in 1 .. Len(q) - 1 /\ (i - 1) + 1 = i)
  BY <1>1
<1>4. Head(q) \in Range(q)
  <2>1. 1 \in DOMAIN q
    BY <1>1
  <2>2. QED  BY <1>1, <2>1 DEF Range
<1>5. \A i \in 1 .. Len(q) - 1 : q[i+1] # q[1]
  <2>1. 1 \in 1 .. Len(q)
    BY <1>1
  <2>2. QED  BY <1>1, <1>2, <2>1 DEF IsInjective
<1>6. Range(p) = Range(q) \ {Head(q)}
  <2>1. ASSUME NEW x \in Range(p)
        PROVE  x \in Range(q) \ {Head(q)}
    <3>1. PICK i \in 1 .. Len(q) - 1 : x = p[i]
      BY <1>1 DEF Range
    <3>2. QED  BY <1>1, <1>2, <1>5, <3>1 DEF Range
  <2>2. ASSUME NEW x \in Range(q), x # Head(q)
        PROVE  x \in Range(p)
    <3>1. PICK i \in 1 .. Len(q) : x = q[i]
      BY <1>1 DEF Range
    <3>2. i - 1 \in DOMAIN p /\ p[i-1] = x
      BY <1>1, <1>3, <2>2, <3>1
    <3>3. QED  BY <3>2 DEF Range
  <2>3. QED  BY <2>1, <2>2
<1>7. IsInjective(p)
  BY <1>1, <1>2 DEF IsInjective
<1>8. QED  BY <1>1, <1>4, <1>6, <1>7 DEF p

\* The types of the semaphore's variables survive each of its steps.
LEMMA SemTypes ==
  ASSUME SemTypeOK, NEW a \in Addr, NEW g \in Goroutines,
         \/ \E lifo \in BOOLEAN : SemPark(g, a, lifo)
         \/ SemTake(g, a) \/ SemTicket(g) \/ SemInc(g, a)
         \/ SemNoWaiter(g, a) \/ SemDequeue(g, a)
         \/ (wakee[g] \in Goroutines /\ \E handoff \in BOOLEAN : SemReady(g, a, handoff))
         \/ UNCHANGED semvars
  PROVE  SemTypeOK'
<1>1. ASSUME NEW lifo \in BOOLEAN, SemPark(g, a, lifo)
      PROVE  SemTypeOK'
  <2>1. <<g>> \o waitq[a] \in Seq(Goroutines) /\ Append(waitq[a], g) \in Seq(Goroutines)
    <3>1. waitq[a] \in Seq(Goroutines)
      BY DEF SemTypeOK
    <3>2. <<g>> \in Seq(Goroutines)
      OBVIOUS
    <3>3. QED  BY <3>1, <3>2, ConcatProperties, AppendProperties
  <2>2. QED  BY <1>1, <2>1 DEF SemPark, SemTypeOK, SemStates
<1>2. CASE SemTake(g, a)
  BY <1>2 DEF SemTake, SemTypeOK, SemStates
<1>3. CASE SemTicket(g)
  BY <1>3 DEF SemTicket, SemTypeOK, SemStates
<1>4. CASE SemInc(g, a)
  BY <1>4 DEF SemInc, SemTypeOK, SemStates
<1>5. CASE SemNoWaiter(g, a)
  BY <1>5 DEF SemNoWaiter, SemTypeOK, SemStates
<1>6. CASE SemDequeue(g, a)
  <2>1. waitq[a] \in Seq(Goroutines) /\ waitq[a] # <<>>
    BY <1>6 DEF SemDequeue, SemTypeOK
  <2>2. Head(waitq[a]) \in Goroutines /\ Tail(waitq[a]) \in Seq(Goroutines)
    BY <2>1, HeadTailProperties
  <2>3. QED  BY <1>6, <2>2 DEF SemDequeue, SemTypeOK, SemStates
<1>7. ASSUME wakee[g] \in Goroutines, NEW handoff \in BOOLEAN, SemReady(g, a, handoff)
      PROVE  SemTypeOK'
  <2>1. semval' \in [Addr -> Nat]
    BY <1>7 DEF SemReady, SemTypeOK
  <2>2. sst' \in [Goroutines -> SemStates]
    BY <1>7 DEF SemReady, SemTypeOK, SemStates
  <2>3. QED  BY <1>7, <2>1, <2>2 DEF SemReady, SemTypeOK
<1>8. CASE UNCHANGED semvars
  BY <1>8 DEF semvars, SemTypeOK
<1>9. QED  BY <1>1, <1>2, <1>3, <1>4, <1>5, <1>6, <1>7, <1>8

-----------------------------------------------------------------------------
\* A set that gains or loses one element at most.
LEMMA OneMoves ==
  ASSUME NEW S, NEW T, NEW g, IsFiniteSet(S), \A h : h # g => (h \in T <=> h \in S)
  PROVE  /\ Cardinality(S) \in Nat
         /\ Cardinality(T) = Cardinality(S) - (IF g \in S THEN 1 ELSE 0) + (IF g \in T THEN 1 ELSE 0)
<1>1. /\ g \in T /\ g \notin S => T = S \cup {g}
      /\ g \notin T /\ g \in S => T = S \ {g}
      /\ (g \in T <=> g \in S) => T = S
  OBVIOUS
<1>2. /\ Cardinality(S) \in Nat
      /\ Cardinality(S \ {g}) = IF g \in S THEN Cardinality(S) - 1 ELSE Cardinality(S)
      /\ Cardinality(S \cup {g}) = IF g \in S THEN Cardinality(S) ELSE Cardinality(S) + 1
  BY FS_CardinalityType, FS_RemoveElement, FS_AddElement
<1>3. CASE g \in T /\ g \notin S
  <2>1. Cardinality(T) = Cardinality(S \cup {g})
    BY <1>1, <1>3
  <2>2. QED  BY <1>2, <1>3, <2>1
<1>4. CASE g \notin T /\ g \in S
  <2>1. Cardinality(T) = Cardinality(S \ {g})
    BY <1>1, <1>4
  <2>2. QED  BY <1>2, <1>4, <2>1
<1>5. CASE g \in T <=> g \in S
  <2>1. Cardinality(T) = Cardinality(S)
    BY <1>1, <1>5
  <2>2. QED  BY <1>2, <1>5, <2>1
<1>6. QED  BY <1>3, <1>4, <1>5

\* The cardinality of a disjoint union.
LEMMA DisjointUnion ==
  ASSUME NEW S, NEW T, IsFiniteSet(S), IsFiniteSet(T), S \cap T = {}
  PROVE  /\ IsFiniteSet(S \cup T)
         /\ Cardinality(S \cup T) = Cardinality(S) + Cardinality(T)
         /\ Cardinality(S) \in Nat /\ Cardinality(T) \in Nat
<1>1. Cardinality(S) \in Nat /\ Cardinality(T) \in Nat
  BY FS_CardinalityType
<1>2. /\ IsFiniteSet(S \cup T)
      /\ Cardinality(S \cup T) = Cardinality(S) + Cardinality(T) - Cardinality(S \cap T)
  BY FS_Union
<1>3. Cardinality(S \cap T) = 0
  BY FS_EmptySet
<1>4. QED  BY <1>1, <1>2, <1>3

-----------------------------------------------------------------------------
(***************************************************************************)
(* SemConsistent survives each step of the semaphore that a client without *)
(* handoff takes in the role it is in, and each change of the roles of     *)
(* goroutines that are not inside the semaphore.                           *)
(***************************************************************************)
SemStep(g, a, acq, rel) ==
  \/ UNCHANGED semvars
  \/ acq[g] = a /\ (SemPark(g, a, FALSE) \/ SemTake(g, a))
  \/ rel[g] = a /\ (SemInc(g, a) \/ SemNoWaiter(g, a) \/ SemDequeue(g, a) \/ SemReady(g, a, FALSE))

KeepsRoles(acq, rel, acq2, rel2) ==
  \A h \in Goroutines : sst'[h] # "running" => acq2[h] = acq[h] /\ rel2[h] = rel[h]

\* The first of a queue is a goroutine that is parked on its address.
LEMMA FirstIsParked ==
  ASSUME SemTypeOK, NEW acq, QueuesConsistent(acq), NEW a \in Addr, waitq[a] # <<>>
  PROVE  /\ Head(waitq[a]) \in Goroutines
         /\ sst[Head(waitq[a])] = "parked" /\ acq[Head(waitq[a])] = a
<1>1. waitq[a] \in Seq(Goroutines)
  BY DEF SemTypeOK
<1>2. QED  BY <1>1, QueueTail DEF QueuesConsistent

\* The goroutine that a releaser holds is asleep, and no other releaser holds it.
LEMMA WakeeIsDequeued ==
  ASSUME SemTypeOK, WakeesConsistent, NEW g \in Goroutines, sst[g] = "waking"
  PROVE  /\ wakee[g] \in Goroutines /\ sst[wakee[g]] = "dequeued" /\ wakee[g] # g
         /\ \A f \in Goroutines : wakee[f] = wakee[g] => f = g
BY DEF SemTypeOK, WakeesConsistent

\* Every step leaves the types of the variables alone.
LEMMA SemStepTypes ==
  ASSUME SemTypeOK, NEW acq, NEW rel, WakeesConsistent,
         NEW g \in Goroutines, NEW a \in Addr, SemStep(g, a, acq, rel)
  PROVE  SemTypeOK'
<1>1. SemReady(g, a, FALSE) => wakee[g] \in Goroutines
  BY WakeeIsDequeued DEF SemReady
<1>2. QED  BY <1>1, SemTypes DEF SemStep

\* Every step leaves the roles consistent.
LEMMA SemStepRoles ==
  ASSUME SemTypeOK, NEW acq, NEW rel, NEW acq2, NEW rel2,
         RolesConsistent(acq, rel), WakeesConsistent, QueuesConsistent(acq),
         NEW g \in Goroutines, NEW a \in Addr, SemStep(g, a, acq, rel),
         KeepsRoles(acq, rel, acq2, rel2)
  PROVE  RolesConsistent(acq2, rel2)'
<1> SUFFICES ASSUME NEW f \in Goroutines
             PROVE  /\ sst'[f] # "ticket"
                    /\ sst'[f] \in {"xadded", "waking"} => rel[f] \in Addr
                    /\ sst'[f] \in {"parked", "dequeued", "ready"} => acq[f] \in Addr
  BY DEF RolesConsistent, KeepsRoles
<1> USE DEF SemTypeOK, RolesConsistent
<1>1. CASE UNCHANGED semvars
  BY <1>1 DEF semvars
<1>2. CASE acq[g] = a /\ (SemPark(g, a, FALSE) \/ SemTake(g, a))
  BY <1>2 DEF SemPark, SemTake
<1>3. CASE rel[g] = a /\ (SemInc(g, a) \/ SemNoWaiter(g, a))
  BY <1>3 DEF SemInc, SemNoWaiter
<1>4. CASE rel[g] = a /\ SemDequeue(g, a)
  BY <1>4, FirstIsParked DEF SemDequeue
<1>5. CASE rel[g] = a /\ SemReady(g, a, FALSE)
  BY <1>5, WakeeIsDequeued DEF SemReady
<1>6. QED  BY <1>1, <1>2, <1>3, <1>4, <1>5 DEF SemStep

\* Every step leaves it to one releaser to wake a dequeued goroutine.
LEMMA SemStepWakees ==
  ASSUME SemTypeOK, NEW acq, NEW rel, WakeesConsistent, QueuesConsistent(acq),
         NEW g \in Goroutines, NEW a \in Addr, SemStep(g, a, acq, rel)
  PROVE  WakeesConsistent'
<1> USE NoneAssumption DEF SemTypeOK, WakeesConsistent
<1>1. CASE UNCHANGED semvars
  BY <1>1 DEF semvars
<1>2. CASE SemPark(g, a, FALSE) \/ SemTake(g, a)
  BY <1>2 DEF SemPark, SemTake
<1>3. CASE SemInc(g, a) \/ SemNoWaiter(g, a)
  BY <1>3 DEF SemInc, SemNoWaiter
<1>4. CASE SemDequeue(g, a)
  <2> DEFINE h == Head(waitq[a])
  <2>1. /\ sst[g] = "xadded" /\ h \in Goroutines /\ sst[h] = "parked"
        /\ sst' = [sst EXCEPT ![g] = "waking", ![h] = "dequeued"]
        /\ wakee' = [wakee EXCEPT ![g] = h]
    BY <1>4, FirstIsParked DEF SemDequeue
  <2> HIDE DEF h
  <2>2. \A f \in Goroutines : wakee[f] # h
    BY <2>1
  <2>3. QED  BY <2>1, <2>2
<1>5. CASE SemReady(g, a, FALSE)
  <2> DEFINE h == wakee[g]
  <2>1. /\ sst[g] = "waking" /\ h \in Goroutines /\ sst[h] = "dequeued" /\ h # g
        /\ \A f \in Goroutines : wakee[f] = h => f = g
        /\ sst' = [sst EXCEPT ![g] = "running", ![h] = "ready"]
        /\ wakee' = [wakee EXCEPT ![g] = None]
    BY <1>5, WakeeIsDequeued DEF SemReady
  <2>2. wakee[g] = h
    OBVIOUS
  <2> HIDE DEF h
  <2>3. QED  BY <2>1, <2>2
<1>6. QED  BY <1>1, <1>2, <1>3, <1>4, <1>5 DEF SemStep

\* Every step leaves the queues consistent.
LEMMA SemStepQueues ==
  ASSUME SemTypeOK, NEW acq, NEW rel, NEW acq2, NEW rel2,
         RolesConsistent(acq, rel), WakeesConsistent, QueuesConsistent(acq),
         NEW g \in Goroutines, NEW a \in Addr, SemStep(g, a, acq, rel),
         KeepsRoles(acq, rel, acq2, rel2)
  PROVE  QueuesConsistent(acq2)'
<1> USE DEF KeepsRoles, SemTypeOK
<1>1. CASE /\ waitq' = waitq
           /\ \A h \in Goroutines : sst'[h] = "parked" <=> sst[h] = "parked"
  BY <1>1 DEF QueuesConsistent
<1>2. CASE acq[g] = a /\ SemPark(g, a, FALSE)
  <2> DEFINE q == waitq[a]
  <2>1. q \in Seq(Goroutines) /\ g \notin Range(q) /\ IsInjective(q)
    BY <1>2 DEF SemPark, QueuesConsistent
  <2>2. Range(Append(q, g)) = Range(q) \cup {g} /\ IsInjective(Append(q, g))
    BY <2>1, QueueAppend
  <2>3. waitq' = [waitq EXCEPT ![a] = Append(q, g)] /\ sst' = [sst EXCEPT ![g] = "parked"]
    BY <1>2 DEF SemPark
  <2> HIDE DEF q
  <2>4. Range(q) = {h \in Goroutines : sst[h] = "parked" /\ acq[h] = a}
    BY DEF q, QueuesConsistent
  <2>5. Range(waitq'[a]) = {h \in Goroutines : sst'[h] = "parked" /\ acq2[h] = a} /\ IsInjective(waitq'[a])
    BY <1>2, <2>2, <2>3, <2>4
  <2>6. ASSUME NEW b \in Addr, b # a
        PROVE  Range(waitq'[b]) = {h \in Goroutines : sst'[h] = "parked" /\ acq2[h] = b} /\ IsInjective(waitq'[b])
    BY <1>2, <2>3, <2>6 DEF QueuesConsistent
  <2>7. QED  BY <2>5, <2>6 DEF QueuesConsistent
<1>3. CASE rel[g] = a /\ SemDequeue(g, a)
  <2> DEFINE q == waitq[a]
             h == Head(q)
  <2>1. q \in Seq(Goroutines) /\ q # <<>> /\ IsInjective(q)
    BY <1>3 DEF SemDequeue, QueuesConsistent
  <2>2. Range(Tail(q)) = Range(q) \ {h} /\ IsInjective(Tail(q))
    BY <2>1, QueueTail
  <2>3. /\ waitq' = [waitq EXCEPT ![a] = Tail(q)] /\ sst[g] = "xadded"
        /\ sst' = [sst EXCEPT ![g] = "waking", ![h] = "dequeued"]
    BY <1>3 DEF SemDequeue
  <2>4. h \in Goroutines /\ sst[h] = "parked" /\ acq[h] = a
    BY <2>1, FirstIsParked
  <2>5. Range(q) = {f \in Goroutines : sst[f] = "parked" /\ acq[f] = a}
    BY DEF QueuesConsistent
  <2> HIDE DEF q, h
  <2>6. Range(waitq'[a]) = {f \in Goroutines : sst'[f] = "parked" /\ acq2[f] = a} /\ IsInjective(waitq'[a])
    BY <2>2, <2>3, <2>4, <2>5
  <2>7. ASSUME NEW b \in Addr, b # a
        PROVE  Range(waitq'[b]) = {f \in Goroutines : sst'[f] = "parked" /\ acq2[f] = b} /\ IsInjective(waitq'[b])
    BY <2>3, <2>4, <2>7 DEF QueuesConsistent
  <2>8. QED  BY <2>6, <2>7 DEF QueuesConsistent
<1>4. CASE UNCHANGED semvars
  BY <1>1, <1>4 DEF semvars
<1>5. CASE SemTake(g, a) \/ SemInc(g, a) \/ SemNoWaiter(g, a)
  BY <1>1, <1>5 DEF SemTake, SemInc, SemNoWaiter
<1>6. CASE SemReady(g, a, FALSE)
  <2>1. wakee[g] \in Goroutines /\ sst[wakee[g]] = "dequeued" /\ sst[g] = "waking"
    BY <1>6, WakeeIsDequeued DEF SemReady
  <2>2. waitq' = waitq /\ sst' = [sst EXCEPT ![g] = "running", ![wakee[g]] = "ready"]
    BY <1>6 DEF SemReady
  <2>3. QED  BY <1>1, <2>1, <2>2
<1>7. QED  BY <1>2, <1>3, <1>4, <1>5, <1>6 DEF SemStep

\* The goroutines that bring a count to a sleeper can be counted.
LEMMA BringingFinite ==
  ASSUME IsFiniteSet(Goroutines), NEW acq, NEW rel, NEW b
  PROVE  IsFiniteSet(Bringing(acq, rel, b)) /\ Cardinality(Bringing(acq, rel, b)) \in Nat
BY FS_Subset, FS_CardinalityType DEF Bringing

\* Every step leaves a count that sleepers wait for with somebody who brings it.
LEMMA SemStepCounts ==
  ASSUME SemTypeOK, NEW acq, NEW rel, NEW acq2, NEW rel2, IsFiniteSet(Goroutines),
         RolesConsistent(acq, rel), WakeesConsistent, QueuesConsistent(acq), CountsMoving(acq, rel),
         NEW g \in Goroutines, NEW a \in Addr, SemStep(g, a, acq, rel),
         KeepsRoles(acq, rel, acq2, rel2)
  PROVE  CountsMoving(acq2, rel2)'
<1> DEFINE B(b)  == Bringing(acq, rel, b)
           BB(b) == Bringing(acq2, rel2, b)'
<1> SUFFICES ASSUME NEW b \in Addr, waitq'[b] # <<>>
             PROVE  semval'[b] <= Cardinality(BB(b))
  BY DEF CountsMoving
<1> USE DEF SemTypeOK
<1>1. IsFiniteSet(B(b)) /\ Cardinality(B(b)) \in Nat
  BY BringingFinite
<1>2. BB(b) = {f \in Goroutines : \/ rel[f] = b /\ sst'[f] = "xadded"
                                  \/ acq[f] = b /\ sst'[f] \in {"dequeued", "ready"}}
  BY DEF KeepsRoles, Bringing
<1>3. B(b) = {f \in Goroutines : \/ rel[f] = b /\ sst[f] = "xadded"
                                 \/ acq[f] = b /\ sst[f] \in {"dequeued", "ready"}}
  BY DEF Bringing
<1>4. waitq[b] # <<>> => semval[b] <= Cardinality(B(b))
  BY DEF CountsMoving
<1> HIDE DEF B, BB
<1>5. CASE UNCHANGED semvars
  BY <1>2, <1>3, <1>4, <1>5 DEF semvars
<1>6. CASE acq[g] = a /\ SemPark(g, a, FALSE)
  <2>1. CASE b = a
    <3>1. semval'[b] = 0 /\ BB(b) \subseteq Goroutines
      BY <1>2, <1>6, <2>1 DEF SemPark
    <3>2. QED  BY <3>1, FS_Subset, FS_CardinalityType
  <2>2. CASE b # a
    <3>1. BB(b) = B(b)
      BY <1>2, <1>3, <1>6, <2>2 DEF SemPark
    <3>2. QED  BY <1>4, <1>6, <2>2, <3>1 DEF SemPark
  <2>3. QED  BY <2>1, <2>2
<1>7. CASE acq[g] = a /\ SemTake(g, a)
  <2>1. BB(b) = IF b = a THEN B(b) \ {g} ELSE B(b)
    BY <1>2, <1>3, <1>7 DEF SemTake
  <2>2. Cardinality(B(b) \ {g}) = IF g \in B(b) THEN Cardinality(B(b)) - 1 ELSE Cardinality(B(b))
    BY <1>1, FS_RemoveElement
  <2>3. QED  BY <1>1, <1>4, <1>7, <2>1, <2>2 DEF SemTake
<1>8. CASE rel[g] = a /\ SemInc(g, a)
  <2>1. BB(b) = (IF b = a THEN B(b) \cup {g} ELSE B(b)) /\ g \notin B(b)
    BY <1>2, <1>3, <1>8 DEF SemInc
  <2>2. Cardinality(B(b) \cup {g}) = Cardinality(B(b)) + 1
    BY <1>1, <2>1, FS_AddElement
  <2>3. QED  BY <1>1, <1>4, <1>8, <2>1, <2>2 DEF SemInc
<1>9. CASE rel[g] = a /\ SemNoWaiter(g, a)
  <2>1. b # a
    BY <1>9 DEF SemNoWaiter
  <2>2. BB(b) = B(b)
    BY <1>2, <1>3, <1>9, <2>1 DEF SemNoWaiter
  <2>3. QED  BY <1>4, <1>9, <2>2 DEF SemNoWaiter
<1>10. CASE rel[g] = a /\ SemDequeue(g, a)
  <2> DEFINE h == Head(waitq[a])
  <2>1. /\ sst[g] = "xadded" /\ h \in Goroutines /\ sst[h] = "parked" /\ acq[h] = a
        /\ sst' = [sst EXCEPT ![g] = "waking", ![h] = "dequeued"]
        /\ semval' = semval /\ waitq[a] # <<>> /\ (b # a => waitq'[b] = waitq[b])
    BY <1>10, FirstIsParked DEF SemDequeue
  <2> HIDE DEF h
  <2>2. BB(b) = (IF b = a THEN (B(b) \ {g}) \cup {h} ELSE B(b)) /\ h \notin B(b) /\ (b = a => g \in B(b))
    BY <1>2, <1>3, <1>10, <2>1
  <2>3. b = a => Cardinality((B(b) \ {g}) \cup {h}) = Cardinality(B(b))
    <3> SUFFICES ASSUME b = a  PROVE  Cardinality((B(b) \ {g}) \cup {h}) = Cardinality(B(b))
      OBVIOUS
    <3> DEFINE C == B(b) \ {g}
    <3>1. IsFiniteSet(C) /\ Cardinality(C) = Cardinality(B(b)) - 1 /\ h \notin C
      BY <1>1, <2>2, FS_RemoveElement
    <3> HIDE DEF C
    <3>2. Cardinality(C \cup {h}) = Cardinality(C) + 1
      BY <3>1, FS_AddElement
    <3>3. QED  BY <1>1, <3>1, <3>2 DEF C
  <2>4. QED  BY <1>4, <2>1, <2>2, <2>3
<1>11. CASE rel[g] = a /\ SemReady(g, a, FALSE)
  <2>1. /\ sst[g] = "waking" /\ wakee[g] \in Goroutines /\ sst[wakee[g]] = "dequeued"
        /\ sst' = [sst EXCEPT ![g] = "running", ![wakee[g]] = "ready"]
        /\ semval' = semval /\ waitq' = waitq
    BY <1>11, WakeeIsDequeued DEF SemReady
  <2>2. BB(b) = B(b)
    BY <1>2, <1>3, <2>1
  <2>3. QED  BY <1>4, <2>1, <2>2
<1>12. QED  BY <1>5, <1>6, <1>7, <1>8, <1>9, <1>10, <1>11 DEF SemStep

\* SemConsistent survives each step of a client.
LEMMA SemStepConsistent ==
  ASSUME SemTypeOK, NEW acq, NEW rel, NEW acq2, NEW rel2, IsFiniteSet(Goroutines),
         SemConsistent(acq, rel),
         NEW g \in Goroutines, NEW a \in Addr, SemStep(g, a, acq, rel),
         KeepsRoles(acq, rel, acq2, rel2)
  PROVE  SemTypeOK' /\ SemConsistent(acq2, rel2)'
BY SemStepTypes, SemStepRoles, SemStepWakees, SemStepQueues, SemStepCounts DEF SemConsistent

\* A step changes for no other goroutine whether it is outside the semaphores.
LEMMA OthersKeepRunning ==
  ASSUME SemTypeOK, NEW acq, NEW rel, SemConsistent(acq, rel),
         NEW g \in Goroutines, NEW a \in Addr, SemStep(g, a, acq, rel),
         NEW f \in Goroutines, f # g
  PROVE  sst'[f] = "running" <=> sst[f] = "running"
<1>1. CASE SemDequeue(g, a)
  <2>1. Head(waitq[a]) \in Goroutines /\ sst[Head(waitq[a])] = "parked"
    BY <1>1, FirstIsParked DEF SemDequeue, SemConsistent
  <2>2. QED  BY <1>1, <2>1 DEF SemDequeue, SemTypeOK
<1>2. CASE SemReady(g, a, FALSE)
  <2>1. wakee[g] \in Goroutines /\ sst[wakee[g]] = "dequeued"
    BY <1>2, WakeeIsDequeued DEF SemReady, SemConsistent
  <2>2. QED  BY <1>2, <2>1 DEF SemReady, SemTypeOK
<1>3. CASE \/ UNCHANGED semvars \/ SemTake(g, a) \/ \E lifo \in BOOLEAN : SemPark(g, a, lifo)
           \/ SemInc(g, a) \/ SemNoWaiter(g, a)
  BY <1>3 DEF semvars, SemTake, SemPark, SemInc, SemNoWaiter, SemTypeOK
<1>4. QED  BY <1>1, <1>2, <1>3 DEF SemStep

\* A goroutine in neither role is outside the semaphores.
LEMMA OutsideSem ==
  ASSUME SemTypeOK, NEW acq, NEW rel, SemConsistent(acq, rel), NEW g \in Goroutines
  PROVE  /\ acq[g] \notin Addr /\ rel[g] \notin Addr => sst[g] = "running"
         /\ acq[g] \notin Addr => sst[g] \in {"running", "xadded", "waking"}
         /\ rel[g] \notin Addr => sst[g] \in {"running", "parked", "dequeued", "ready"}
BY DEF SemTypeOK, SemStates, SemConsistent, RolesConsistent

\* When all are asleep that are inside the semaphores, no count lies beside a sleeper.
LEMMA AllAsleep ==
  ASSUME SemTypeOK, NEW acq, NEW rel, SemConsistent(acq, rel),
         \A g \in Goroutines : sst[g] \in {"running", "parked", "dequeued"}
  PROVE  \A g \in Goroutines :
           \/ sst[g] = "running"
           \/ sst[g] = "parked" /\ acq[g] \in Addr /\ semval[acq[g]] = 0
<1> SUFFICES ASSUME NEW g \in Goroutines, sst[g] # "running"
             PROVE  sst[g] = "parked" /\ acq[g] \in Addr /\ semval[acq[g]] = 0
  OBVIOUS
<1>1. \A f \in Goroutines : sst[f] # "dequeued"
  <2> SUFFICES ASSUME NEW f \in Goroutines, sst[f] = "dequeued"  PROVE  FALSE
    OBVIOUS
  <2>1. PICK h \in Goroutines : wakee[h] = f
    BY DEF SemConsistent, WakeesConsistent
  <2>2. sst[h] = "waking"
    BY <2>1, NoneAssumption DEF SemConsistent, WakeesConsistent
  <2>3. QED  BY <2>2
<1>2. sst[g] = "parked" /\ acq[g] \in Addr
  BY <1>1 DEF SemConsistent, RolesConsistent
<1> DEFINE a == acq[g]
<1>3. g \in Range(waitq[a])
  BY <1>2 DEF SemConsistent, QueuesConsistent
<1>4. waitq[a] # <<>>
  <2>1. DOMAIN <<>> = {}
    OBVIOUS
  <2>2. QED  BY <1>3, <2>1 DEF Range
<1>5. Bringing(acq, rel, a) = {}
  BY <1>1 DEF Bringing
<1>6. semval[a] <= 0 /\ semval[a] \in Nat
  BY <1>2, <1>4, <1>5, FS_EmptySet DEF SemConsistent, CountsMoving, SemTypeOK
<1>7. QED  BY <1>2, <1>6

==============================================================================
