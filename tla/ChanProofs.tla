------------------------------ MODULE ChanProofs ------------------------------
(***************************************************************************)
(* Proofs about Chan, for every finite set of channels, any goroutines and *)
(* any calls: the order of the locks; the wait queues and the buffers; and *)
(* that channels behave as module Channels says.                           *)
(***************************************************************************)
EXTENDS Chan, FiniteSetTheorems, SequenceTheorems, TLAPS

\* A finite set of numbers has a least and a greatest one.
LEMMA Extremes ==
  ASSUME NEW S, IsFiniteSet(S), S \subseteq Nat, S # {}
  PROVE  /\ \E c \in S : \A d \in S : d <= c
         /\ \E c \in S : \A d \in S : c <= d
<1> DEFINE Great(M) == \E c \in M : \A d \in M : d <= c
           Least(M) == \E c \in M : \A d \in M : c <= d
           T == {M \in FiniteSubsetsOf(S) : M # {} /\ ~(Great(M) /\ Least(M))}
<1> SUFFICES ASSUME T # {}  PROVE  FALSE
  BY DEF FiniteSubsetsOf
<1>1. PICK M \in T : \A L \in T : ~(<<L, M>> \in StrictSubsetOrdering(S))
  <2>1. IsWellFoundedOn(StrictSubsetOrdering(S), FiniteSubsetsOf(S))
    BY FS_StrictSubsetOrderingWellFounded
  <2>2. T \subseteq FiniteSubsetsOf(S)
    OBVIOUS
  <2>3. QED  BY <2>1, <2>2, WFMin
<1>2. M \subseteq S /\ IsFiniteSet(M) /\ M # {} /\ ~(Great(M) /\ Least(M))
  BY DEF FiniteSubsetsOf
<1>3. PICK x \in M : x \in Nat
  BY <1>2
<1> DEFINE L == M \ {x}
<1>4. L = {} => Great(M) /\ Least(M)
  BY <1>2, <1>3
<1>5. L # {} => Great(L) /\ Least(L)
  <2>1. L \subseteq S /\ IsFiniteSet(L)
    BY <1>2, FS_Subset
  <2>2. <<L, M>> \in StrictSubsetOrdering(S)
    BY <1>2, <1>3 DEF StrictSubsetOrdering
  <2>3. L \notin T
    BY <1>1, <2>2
  <2>4. QED  BY <2>1, <2>3 DEF FiniteSubsetsOf
<1>6. Great(L) => Great(M)
  <2> SUFFICES ASSUME NEW c \in L, \A d \in L : d <= c  PROVE  Great(M)
    OBVIOUS
  <2>1. c \in Nat /\ \A d \in M : d \in Nat /\ (d = x \/ d <= c)
    BY <1>2
  <2>2. QED  BY <1>3, <2>1
<1>7. Least(L) => Least(M)
  <2> SUFFICES ASSUME NEW c \in L, \A d \in L : c <= d  PROVE  Least(M)
    OBVIOUS
  <2>1. c \in Nat /\ \A d \in M : d \in Nat /\ (d = x \/ c <= d)
    BY <1>2
  <2>2. QED  BY <1>3, <2>1
<1>8. QED  BY <1>2, <1>4, <1>5, <1>6, <1>7

-----------------------------------------------------------------------------
(* The locks. *)

LockTypeOK ==
  /\ lock \in [Channels -> Goroutines \cup {None}]
  /\ op \in [Goroutines -> Calls \cup {None}]
  /\ pc \in [Goroutines -> PCs]
  /\ \A g \in Goroutines : op[g] = None => pc[g] \in {"idle", "done", "throw"}

IInv == LockTypeOK /\ LocksInOrder

\* The channels of a call.
LEMMA CallChannels ==
  ASSUME NEW o \in Calls
  PROVE  ChansOf(o) \subseteq Channels
BY ChanAssumption DEF ChansOf, Cases

\* What a call does under its locks ends or parks it.
LEMMA LockedGoes ==
  ASSUME NEW g \in Goroutines, Locked(g)
  PROVE  op' = op /\ \E to \in PCs : pc' = [pc EXCEPT ![g] = to]
<1>1. ASSUME NEW k, NEW polled, Complete(g, k, polled) \/ Pair(g, k, polled)
      PROVE  pc' = [pc EXCEPT ![g] = "done"]
  BY <1>1 DEF Complete, Pair, Finish, Goto
<1>2. Block(g) => pc' = [pc EXCEPT ![g] = "parked"] \/ pc' = [pc EXCEPT ![g] = "done"]
  BY DEF Block, Finish, Goto
<1>3. QED  BY <1>1, <1>2 DEF Locked, PCs

\* A step that takes and releases no lock, and that no goroutine takes which holds one.
LEMMA OtherSteps ==
  ASSUME IInv, NEW g \in Goroutines,
         \/ \E o \in Calls : Call(g, o)
         \/ \E c \in Channels : FastSend(g, c) \/ FastRecv(g, c) \/ Close(g, c)
         \/ SendRecv(g) \/ Awake(g) \/ Wake(g) \/ Return(g)
  PROVE  IInv'
<1>0. LockTypeOK /\ LocksInOrder
  BY DEF IInv
<1>1. ASSUME lock' = lock, LockTypeOK',
             \A h \in Goroutines : pc[h] \in {"lock", "awake", "throw"} /\ op[h] # None /\ IsSelect(op[h])
               => op'[h] = op[h] /\ pc'[h] \in {"lock", "awake", "throw"}
      PROVE  IInv'
  <2> SUFFICES ASSUME NEW c \in Channels, NEW h \in Goroutines, lock[c] = h
               PROVE  /\ op'[h] # None /\ IsSelect(op'[h])
                      /\ pc'[h] \in {"lock", "awake", "throw"}
                      /\ c \in ChansOf(op'[h]) /\ \A d \in ChansOf(op'[h]) : d < c => lock[d] = h
    BY <1>1 DEF IInv, LocksInOrder
  <2>1. QED  BY <1>0, <1>1 DEF LocksInOrder
<1>2. ASSUME NEW o \in Calls, Call(g, o)  PROVE  IInv'
  <2>1. LockTypeOK'
    <3>1. op' = [op EXCEPT ![g] = o] /\ lock' = lock /\ o # None
          /\ \E to \in PCs : pc' = [pc EXCEPT ![g] = to]
      BY <1>2, ChanAssumption DEF Call, Goto, PCs
    <3>2. QED  BY <1>0, <3>1 DEF LockTypeOK
  <2>2. QED  BY <1>0, <1>1, <1>2, <2>1 DEF Call, Goto, LockTypeOK
<1>3. ASSUME NEW c \in Channels, FastSend(g, c) \/ FastRecv(g, c)  PROVE  IInv'
  <2>1. /\ pc[g] \in {"fast", "sawOpen", "sawFull", "sawEmpty", "sawClosed"}
        /\ op' = op /\ lock' = lock /\ \E to \in PCs : pc' = [pc EXCEPT ![g] = to]
    BY <1>3 DEF FastSend, FastRecv, FastRead, FastFail, Finish, Goto, PCs
  <2>2. LockTypeOK'
    BY <1>0, <2>1 DEF LockTypeOK
  <2>3. QED  BY <1>0, <1>1, <2>1, <2>2 DEF LockTypeOK
<1>4. ASSUME NEW c \in Channels, Close(g, c)  PROVE  IInv'
  <2>1. pc[g] = "idle" /\ op' = op /\ lock' = lock /\ pc' = [pc EXCEPT ![g] = "done"]
    BY <1>4 DEF Close, Goto
  <2>2. LockTypeOK'
    BY <1>0, <2>1 DEF LockTypeOK, PCs
  <2>3. QED  BY <1>0, <1>1, <2>1, <2>2 DEF LockTypeOK
<1>5. CASE SendRecv(g) \/ Awake(g)
  <2>1. /\ ~IsSelect(op[g]) /\ pc[g] \in {"lock", "awake"}
        /\ op' = op /\ lock' = lock /\ \E to \in PCs : pc' = [pc EXCEPT ![g] = to]
    BY <1>5, LockedGoes DEF SendRecv, Awake, Goto, PCs
  <2>2. LockTypeOK'
    BY <1>0, <2>1 DEF LockTypeOK
  <2>3. QED  BY <1>0, <1>1, <2>1, <2>2 DEF LockTypeOK
<1>6. CASE Wake(g)
  <2> DEFINE h == Head(wake[g])
  <2>1. /\ op' = op /\ lock' = lock
        /\ pc' = [pc EXCEPT ![h] = IF pc[h] = "parked" THEN "awake" ELSE "throw"]
    BY <1>6 DEF Wake, Goto
  <2>2. LockTypeOK'
    BY <1>0, <2>1 DEF LockTypeOK, PCs
  <2>3. QED  BY <1>0, <1>1, <2>1, <2>2 DEF LockTypeOK
<1>7. CASE Return(g)
  <2>1. /\ pc[g] = "done" /\ lock' = lock
        /\ op' = [op EXCEPT ![g] = None] /\ pc' = [pc EXCEPT ![g] = "idle"]
    BY <1>7 DEF Return, Goto
  <2>2. LockTypeOK'
    BY <1>0, <2>1 DEF LockTypeOK, PCs
  <2>3. QED  BY <1>0, <1>1, <2>1, <2>2 DEF LockTypeOK
<1>8. QED  BY <1>2, <1>3, <1>4, <1>5, <1>6, <1>7

\* sellock takes the first of its channels that it does not hold.
LEMMA LockStep ==
  ASSUME IInv, NEW g \in Goroutines, SelLock(g)
  PROVE  IInv'
<1>0. LockTypeOK /\ LocksInOrder
  BY DEF IInv
<1>1. pc[g] \in {"lock", "awake"} /\ IsSelect(op[g]) /\ op' = op /\ pc' = pc
  BY DEF SelLock
<1>2. PICK c \in ToLock(g) : lock[c] = None /\ lock' = [lock EXCEPT ![c] = g]
  BY DEF SelLock
<1>3. c \in ChansOf(op[g]) /\ c \notin Held(g) /\ \A d \in ChansOf(op[g]) : d \in Held(g) \/ c <= d
  BY DEF ToLock
<1>4. op[g] # None
  BY <1>0, <1>1 DEF LockTypeOK
<1>5. ChansOf(op[g]) \subseteq Channels
  BY <1>0, <1>4, CallChannels DEF LockTypeOK
<1>6. LockTypeOK'
  BY <1>0, <1>1, <1>2, <1>3, <1>5 DEF LockTypeOK
<1>7. LocksInOrder'
  <2> SUFFICES ASSUME NEW e \in Channels, NEW h \in Goroutines, lock'[e] = h
               PROVE  /\ op[h] # None /\ IsSelect(op[h])
                      /\ pc[h] \in {"lock", "awake", "throw"}
                      /\ e \in ChansOf(op[h]) /\ \A d \in ChansOf(op[h]) : d < e => lock'[d] = h
    BY <1>1 DEF LocksInOrder
  <2>1. c \in Channels /\ c \in Nat /\ e \in Nat /\ \A d \in Channels : d \in Nat
    BY <1>3, <1>5, ChanAssumption
  <2>2. CASE e = c
    <3>1. h = g
      BY <1>0, <1>2, <2>1, <2>2 DEF LockTypeOK
    <3>2. \A d \in ChansOf(op[g]) : d < c => lock[d] = g
      BY <1>3, <1>5, <2>1 DEF Held
    <3>3. \A d \in ChansOf(op[g]) : d < c => lock'[d] = g
      BY <1>0, <1>2, <1>5, <2>1, <3>2 DEF LockTypeOK
    <3>4. QED  BY <1>1, <1>3, <1>4, <2>2, <3>1, <3>3
  <2>3. CASE e # c
    <3>1. lock[e] = h
      BY <1>0, <1>2, <2>1, <2>3 DEF LockTypeOK
    <3>2. /\ op[h] # None /\ IsSelect(op[h])
          /\ pc[h] \in {"lock", "awake", "throw"}
          /\ e \in ChansOf(op[h]) /\ \A d \in ChansOf(op[h]) : d < e => lock[d] = h
      BY <1>0, <3>1 DEF LocksInOrder
    <3>3. ChansOf(op[h]) \subseteq Channels
      BY <1>0, <3>2, CallChannels DEF LockTypeOK
    <3>4. \A d \in ChansOf(op[h]) : lock[d] = h => lock'[d] = h
      BY <1>0, <1>2, <3>3, ChanAssumption DEF LockTypeOK
    <3>5. QED  BY <3>2, <3>4
  <2>4. QED  BY <2>2, <2>3
<1>8. QED  BY <1>6, <1>7 DEF IInv

\* selunlock releases all of them.
LEMMA UnlockStep ==
  ASSUME IInv, NEW g \in Goroutines, Select(g) \/ Pass3(g)
  PROVE  IInv'
<1>0. LockTypeOK /\ LocksInOrder
  BY DEF IInv
<1>1. pc[g] \in {"lock", "awake"} /\ op' = op /\ \E to \in PCs : pc' = [pc EXCEPT ![g] = to]
  BY LockedGoes DEF Select, Pass3, Goto, PCs
<1>2. lock' = [c \in Channels |-> IF lock[c] = g THEN None ELSE lock[c]]
  BY DEF Select, Pass3, SelUnlock
<1>3. LockTypeOK'
  BY <1>0, <1>1, <1>2 DEF LockTypeOK
<1>4. LocksInOrder'
  <2> SUFFICES ASSUME NEW c \in Channels, NEW h \in Goroutines, lock'[c] = h
               PROVE  /\ op'[h] # None /\ IsSelect(op'[h])
                      /\ pc'[h] \in {"lock", "awake", "throw"}
                      /\ c \in ChansOf(op'[h]) /\ \A d \in ChansOf(op'[h]) : d < c => lock'[d] = h
    BY DEF LocksInOrder
  <2>1. lock[c] = h /\ h # g
    BY <1>2, ChanAssumption
  <2>2. op'[h] = op[h] /\ pc'[h] = pc[h]
    BY <1>0, <1>1, <2>1 DEF LockTypeOK
  <2>3. ChansOf(op[h]) \subseteq Channels
    <3>1. op[h] # None
      BY <1>0, <2>1 DEF LocksInOrder
    <3>2. op[h] \in Calls
      BY <1>0, <3>1 DEF LockTypeOK
    <3>3. QED  BY <3>2, CallChannels
  <2>4. QED  BY <1>0, <1>2, <2>1, <2>2, <2>3 DEF LocksInOrder
<1>5. QED  BY <1>3, <1>4 DEF IInv

\* Nobody holds a lock at first.
LEMMA InitIInv == Init => IInv
BY ChanAssumption DEF Init, IInv, LockTypeOK, LocksInOrder, PCs

\* Every step keeps the locks in order.
LEMMA NextIInv == IInv /\ [Next]_vars => IInv'
<1> SUFFICES ASSUME IInv, [Next]_vars  PROVE  IInv'
  OBVIOUS
<1>1. CASE UNCHANGED vars
  <2>1. lock' = lock /\ op' = op /\ pc' = pc
    BY <1>1 DEF vars
  <2>2. QED  BY <2>1 DEF IInv, LockTypeOK, LocksInOrder
<1>2. ASSUME NEW g \in Goroutines, Step(g)
      PROVE  IInv'
  BY <1>2, OtherSteps, LockStep, UnlockStep DEF Step
<1>3. QED  BY <1>1, <1>2 DEF Next

\* sellock locks the channels of a select in the order of their addresses.
THEOREM Invariance == Spec => []IInv
BY InitIInv, NextIInv, PTL DEF Spec

\* Selects that lock several channels never wait for each other in a circle, however
\* many there are: whoever holds the greatest of the locks can go on.
THEOREM NoCircle == Spec => []LocksMoveOn
<1>1. IInv => LocksMoveOn
  <2> SUFFICES ASSUME IInv, NEW b \in Channels, lock[b] # None
               PROVE  \E g \in Goroutines :
                        /\ Held(g) # {}
                        /\ Held(g) = ChansOf(op[g]) \/ \E c \in ToLock(g) : lock[c] = None
    BY DEF LocksMoveOn
  <2> DEFINE S == {c \in Channels : lock[c] # None}
  <2>1. PICK c \in S : \A d \in S : d <= c
    <3>1. IsFiniteSet(S) /\ S \subseteq Nat /\ S # {}
      BY ChanAssumption, FS_Subset
    <3>2. QED  BY <3>1, Extremes
  <2>2. PICK g \in Goroutines : lock[c] = g
    BY DEF IInv, LockTypeOK
  <2>3. /\ op[g] # None /\ c \in Held(g) /\ Held(g) \subseteq ChansOf(op[g])
        /\ \A d \in ChansOf(op[g]) : d < c => lock[d] = g
    BY <2>2 DEF IInv, LocksInOrder, Held
  <2>4. ChansOf(op[g]) \subseteq Channels
    BY <2>3, CallChannels DEF IInv, LockTypeOK
  <2>5. CASE Held(g) # ChansOf(op[g])
    <3> DEFINE left == ChansOf(op[g]) \ Held(g)
    <3>1. PICK d \in left : \A e \in left : d <= e
      <4>1. left # {} /\ left \subseteq Channels
        BY <2>3, <2>4, <2>5
      <4>2. IsFiniteSet(left) /\ left \subseteq Nat
        BY <4>1, ChanAssumption, FS_Subset
      <4>3. QED  BY <4>1, <4>2, Extremes
    <3>2. d \in ToLock(g)
      BY <3>1 DEF ToLock
    <3>3. d \in Channels /\ lock[d] # g /\ d \in Nat /\ c \in Nat
      BY <2>4, <3>1, ChanAssumption DEF Held
    <3>4. ~(d < c) /\ d # c
      BY <2>2, <2>3, <3>1, <3>3
    <3>5. d \notin S
      BY <2>1, <3>3, <3>4
    <3>6. QED  BY <2>3, <3>2, <3>3, <3>5
  <2>6. QED  BY <2>3, <2>5
<1>2. QED  BY <1>1, Invariance, PTL

-----------------------------------------------------------------------------
(* Queues without duplicates. *)

\* The range of a sequence, and its length.
LEMMA RangeIs ==
  ASSUME NEW S, NEW s \in Seq(S)
  PROVE  /\ Range(s) = {s[i] : i \in 1 .. Len(s)} /\ Range(s) \subseteq S
         /\ Len(s) \in Nat /\ DOMAIN s = 1 .. Len(s)
         /\ s = <<>> <=> Range(s) = {}
         /\ s = <<>> <=> Len(s) = 0
<1>1. Len(s) \in Nat /\ DOMAIN s = 1 .. Len(s) /\ \A i \in 1 .. Len(s) : s[i] \in S
  OBVIOUS
<1>2. Range(s) = {s[i] : i \in 1 .. Len(s)} /\ Range(s) \subseteq S
  BY <1>1 DEF Range
<1>3. s = <<>> <=> Len(s) = 0
  BY EmptySeq
<1>4. Len(s) # 0 => s[1] \in Range(s)
  BY <1>1, <1>2
<1>5. Len(s) = 0 => Range(s) = {}
  BY <1>1, <1>2
<1>6. QED  BY <1>1, <1>2, <1>3, <1>4, <1>5

\* The empty sequence.
LEMMA EmptyOnce == IsInjective(<<>>) /\ Range(<<>>) = {} /\ \A S : <<>> \in Seq(S)
BY DEF IsInjective, Range

\* What follows the n-th element.
LEMMA SuffixOnce ==
  ASSUME NEW S, NEW s \in Seq(S), IsInjective(s), NEW n \in 1 .. Len(s)
  PROVE  LET t == SubSeq(s, n + 1, Len(s)) IN
           /\ t \in Seq(S) /\ IsInjective(t) /\ Range(t) = {s[i] : i \in n + 1 .. Len(s)}
           /\ Range(t) \subseteq Range(s) \ {s[n]}
<1> DEFINE t == SubSeq(s, n + 1, Len(s))
<1>1. \A i \in 1 .. Len(s) : s[i] \in S
  OBVIOUS
<1>2. t \in Seq(S) /\ Len(t) = Len(s) - n /\ \A i \in 1 .. Len(s) - n : t[i] = s[n + i]
  BY <1>1, SubSeqProperties
<1> HIDE DEF t
<1>3. DOMAIN s = 1 .. Len(s) /\ DOMAIN t = 1 .. Len(s) - n /\ Len(s) \in Nat
  BY <1>2
<1>4. IsInjective(t)
  <2> SUFFICES ASSUME NEW i \in 1 .. Len(s) - n, NEW j \in 1 .. Len(s) - n, t[i] = t[j]
               PROVE  i = j
    BY <1>3 DEF IsInjective
  <2>1. s[n + i] = s[n + j] /\ n + i \in DOMAIN s /\ n + j \in DOMAIN s
    BY <1>2, <1>3
  <2>2. n + i = n + j
    BY <2>1 DEF IsInjective
  <2>3. QED  BY <2>2
<1>5. Range(t) = {s[i] : i \in n + 1 .. Len(s)}
  <2>1. ASSUME NEW i \in n + 1 .. Len(s)
        PROVE  s[i] = t[i - n] /\ i - n \in 1 .. Len(s) - n
    BY <1>2, <1>3
  <2>2. ASSUME NEW i \in 1 .. Len(s) - n
        PROVE  t[i] = s[n + i] /\ n + i \in n + 1 .. Len(s)
    BY <1>2, <1>3
  <2>3. Range(t) = {t[i] : i \in 1 .. Len(s) - n}
    BY <1>3 DEF Range
  <2>4. {t[i] : i \in 1 .. Len(s) - n} \subseteq {s[i] : i \in n + 1 .. Len(s)}
    BY <2>2
  <2>5. {s[i] : i \in n + 1 .. Len(s)} \subseteq {t[i] : i \in 1 .. Len(s) - n}
    BY <2>1
  <2>6. QED  BY <2>3, <2>4, <2>5
<1>6. \A i \in n + 1 .. Len(s) : s[i] # s[n] /\ s[i] \in Range(s)
  BY <1>3 DEF IsInjective, Range
<1>7. QED  BY <1>2, <1>4, <1>5, <1>6 DEF t

\* A new element at the tail.
LEMMA AppendOnce ==
  ASSUME NEW S, NEW s \in Seq(S), IsInjective(s), NEW e \in S, e \notin Range(s)
  PROVE  /\ Append(s, e) \in Seq(S) /\ IsInjective(Append(s, e))
         /\ Range(Append(s, e)) = Range(s) \cup {e}
<1> DEFINE t == Append(s, e)
<1>1. /\ t \in Seq(S) /\ Len(t) = Len(s) + 1 /\ Len(s) \in Nat
      /\ \A i \in 1 .. Len(s) : t[i] = s[i]
      /\ t[Len(s) + 1] = e
  BY AppendProperties
<1> HIDE DEF t
<1>2. DOMAIN s = 1 .. Len(s) /\ DOMAIN t = 1 .. Len(s) + 1
  BY <1>1
<1>3. \A i \in 1 .. Len(s) : s[i] # e
  BY <1>2 DEF Range
<1>4. \A i \in DOMAIN t : i \in 1 .. Len(s) \/ i = Len(s) + 1
  BY <1>1, <1>2
<1>5. IsInjective(t)
  BY <1>1, <1>2, <1>3, <1>4 DEF IsInjective
<1>6. Range(t) = Range(s) \cup {e}
  BY <1>1, <1>2, <1>4 DEF Range
<1>7. QED  BY <1>1, <1>5, <1>6 DEF t

\* pass 3 takes one element out.
LEMMA RemoveOnce ==
  ASSUME NEW S, NEW s \in Seq(S), IsInjective(s), NEW e \in Range(s)
  PROVE  LET t == RemoveAt(s, Index(s, e)) IN
           t \in Seq(S) /\ IsInjective(t) /\ Range(t) = Range(s) \ {e}
<1> DEFINE n == Index(s, e)
           a == SubSeq(s, 1, n - 1)
           z == SubSeq(s, n + 1, Len(s))
           t == a \o z
<1>1. n \in 1 .. Len(s) /\ s[n] = e /\ Len(s) \in Nat /\ DOMAIN s = 1 .. Len(s)
  BY DEF Range, Index
<1> HIDE DEF n
<1>2. \A i \in 1 .. Len(s) : s[i] \in S
  OBVIOUS
<1>3. a \in Seq(S) /\ Len(a) = n - 1 /\ \A i \in 1 .. n - 1 : a[i] = s[i]
  <2>1. \A i \in 1 .. n - 1 : s[i] \in S
    BY <1>1, <1>2
  <2>2. /\ SubSeq(s, 1, n - 1) \in Seq(S) /\ Len(SubSeq(s, 1, n - 1)) = IF 1 <= n - 1 THEN n - 1 - 1 + 1 ELSE 0
        /\ \A i \in 1 .. n - 1 - 1 + 1 : SubSeq(s, 1, n - 1)[i] = s[1 + i - 1]
    BY <1>1, <2>1, SubSeqProperties
  <2>3. \A i \in 1 .. n - 1 : i \in 1 .. n - 1 - 1 + 1 /\ 1 + i - 1 = i
    BY <1>1
  <2>4. (IF 1 <= n - 1 THEN n - 1 - 1 + 1 ELSE 0) = n - 1
    BY <1>1
  <2>5. QED  BY <2>2, <2>3, <2>4
<1>4. z \in Seq(S) /\ Len(z) = Len(s) - n /\ \A i \in 1 .. Len(s) - n : z[i] = s[n + i]
  <2>1. \A i \in n + 1 .. Len(s) : s[i] \in S
    BY <1>1, <1>2
  <2>2. /\ z \in Seq(S) /\ Len(z) = IF n + 1 <= Len(s) THEN Len(s) - (n + 1) + 1 ELSE 0
        /\ \A i \in 1 .. Len(s) - (n + 1) + 1 : z[i] = s[n + 1 + i - 1]
    BY <1>1, <2>1, SubSeqProperties
  <2>3. \A i \in 1 .. Len(s) - n : i \in 1 .. Len(s) - (n + 1) + 1 /\ n + 1 + i - 1 = n + i
    BY <1>1
  <2>4. (IF n + 1 <= Len(s) THEN Len(s) - (n + 1) + 1 ELSE 0) = Len(s) - n
    <3>1. n + 1 <= Len(s) => Len(s) - (n + 1) + 1 = Len(s) - n
      BY <1>1
    <3>2. ~(n + 1 <= Len(s)) => Len(s) - n = 0
      <4>1. n \in Int /\ Len(s) \in Int /\ n <= Len(s)
        BY <1>1
      <4>2. \A x, y \in Int : x <= y /\ ~(x + 1 <= y) => y - x = 0
        OBVIOUS
      <4>3. QED  BY <4>1, <4>2
    <3>3. QED  BY <3>1, <3>2
  <2>5. QED  BY <2>2, <2>3, <2>4
<1> HIDE DEF a, z
<1>5. /\ t \in Seq(S) /\ Len(t) = Len(s) - 1
      /\ \A i \in 1 .. Len(a) + Len(z) : t[i] = IF i <= Len(a) THEN a[i] ELSE z[i - Len(a)]
  <2>1. /\ t \in Seq(S) /\ Len(t) = Len(a) + Len(z)
        /\ \A i \in 1 .. Len(a) + Len(z) : t[i] = IF i <= Len(a) THEN a[i] ELSE z[i - Len(a)]
    BY <1>3, <1>4, ConcatProperties
  <2>2. QED  BY <1>1, <1>3, <1>4, <2>1
<1>6. \A i \in 1 .. Len(s) - 1 : t[i] = IF i < n THEN s[i] ELSE s[i + 1]
  <2> SUFFICES ASSUME NEW i \in 1 .. Len(s) - 1
               PROVE  t[i] = IF i < n THEN s[i] ELSE s[i + 1]
    OBVIOUS
  <2>1. t[i] = IF i <= n - 1 THEN a[i] ELSE z[i - (n - 1)]
    BY <1>1, <1>3, <1>4, <1>5
  <2>2. CASE i < n
    BY <1>1, <1>3, <2>1, <2>2
  <2>3. CASE ~(i < n)
    <3>1. i - (n - 1) \in 1 .. Len(s) - n /\ n + (i - (n - 1)) = i + 1
      BY <1>1, <2>3
    <3>2. QED  BY <1>1, <1>4, <2>1, <2>3, <3>1
  <2>4. QED  BY <2>2, <2>3
<1> HIDE DEF t
<1>7. DOMAIN t = 1 .. Len(s) - 1
  BY <1>1, <1>5
<1>8. IsInjective(t)
  BY <1>1, <1>6, <1>7 DEF IsInjective
<1>9. Range(t) = Range(s) \ {e}
  <2>1. ASSUME NEW i \in 1 .. Len(s) - 1
        PROVE  t[i] \in Range(s) /\ t[i] # e
    BY <1>1, <1>6 DEF IsInjective, Range
  <2>2. ASSUME NEW i \in 1 .. Len(s), s[i] # e
        PROVE  \E j \in 1 .. Len(s) - 1 : t[j] = s[i]
    <3>1. CASE i < n
      BY <1>1, <1>6, <3>1
    <3>2. CASE i > n
      <4>1. i - 1 \in 1 .. Len(s) - 1 /\ ~(i - 1 < n) /\ (i - 1) + 1 = i
        BY <1>1, <3>2
      <4>2. QED  BY <1>6, <4>1
    <3>3. QED  BY <1>1, <2>2, <3>1, <3>2
  <2>3. Range(t) = {t[j] : j \in 1 .. Len(s) - 1} /\ Range(s) = {s[i] : i \in 1 .. Len(s)}
    BY <1>1, <1>7 DEF Range
  <2>4. Range(t) \subseteq Range(s) \ {e}
    BY <2>1, <2>3
  <2>5. Range(s) \ {e} \subseteq Range(t)
    BY <2>2, <2>3
  <2>6. QED  BY <2>4, <2>5
<1>10. QED  BY <1>5, <1>8, <1>9 DEF t, a, z, n, RemoveAt

-----------------------------------------------------------------------------
(* Who waits on a queue. *)

On(k) == Range(waitq[k])

\* Two different elements.
LEMMA Doubleton ==
  ASSUME NEW x, NEW y, x # y
  PROVE  IsFiniteSet({x, y}) /\ Cardinality({x, y}) = 2
<1>1. IsFiniteSet({x}) /\ Cardinality({x}) = 1 /\ y \notin {x}
  BY FS_Singleton
<1>2. IsFiniteSet({x} \cup {y}) /\ Cardinality({x} \cup {y}) = 1 + 1
  BY <1>1, FS_AddElement
<1>3. {x} \cup {y} = {x, y} /\ 1 + 1 = 2
  OBVIOUS
<1>4. QED  BY <1>2, <1>3

\* A call that is no select has one case.
LEMMA OneCase ==
  ASSUME NEW o \in Calls, ~IsSelect(o), NEW j \in o.cases, NEW k \in o.cases
  PROVE  j = k
<1> SUFFICES ASSUME j # k PROVE FALSE
  OBVIOUS
<1>1. IsFiniteSet({"send", "recv"} \X Channels)
  <2>1. IsFiniteSet({"send", "recv"}) /\ IsFiniteSet(Channels)
    BY ChanAssumption, Doubleton
  <2>2. QED  BY <2>1, FS_Product
<1>2. o.cases \subseteq Cases
  BY ChanAssumption
<1>3. IsFiniteSet(o.cases)
  BY <1>1, <1>2, FS_Subset DEF Cases
<1>4. Cardinality({j, k}) = 2 /\ Cardinality({j, k}) <= Cardinality(o.cases) /\ Cardinality(o.cases) \in Nat
  BY <1>3, FS_Subset, FS_CardinalityType, Doubleton
<1>5. QED  BY <1>4 DEF IsSelect

\* A case and the one that it can meet.
LEMMA CasesOf ==
  ASSUME NEW k \in Cases
  PROVE  /\ k[2] \in Channels /\ (k = Send(k[2]) \/ k = Recv(k[2])) /\ (k[1] = "send" <=> k = Send(k[2]))
         /\ Peer(k) \in Cases /\ Peer(Peer(k)) = k /\ Peer(k) # k /\ Peer(k)[2] = k[2]
         /\ Peer(k) = (IF k[1] = "send" THEN Recv(k[2]) ELSE Send(k[2]))
BY DEF Cases, Peer, Send, Recv

\* The two cases of a channel.
LEMMA SidesOf ==
  ASSUME NEW c \in Channels
  PROVE  /\ Send(c) \in Cases /\ Recv(c) \in Cases /\ Peer(Send(c)) = Recv(c) /\ Peer(Recv(c)) = Send(c)
         /\ Send(c) # Recv(c) /\ Send(c)[2] = c /\ Recv(c)[2] = c /\ Send(c)[1] = "send" /\ Recv(c)[1] = "recv"
BY DEF Cases, Peer, Send, Recv

\* The fields of the calls.
LEMMA CallsAre ==
  ASSUME NEW o \in Calls
  PROVE  o # None /\ o.cases \subseteq Cases /\ o.cases # {} /\ o.block \in BOOLEAN
BY ChanAssumption

\* What is left of the invariant when nobody looks at its history.
NowFits ==
  /\ TypeOK /\ QueuesFit /\ WakesFit
  /\ \A c \in Channels : ChannelFits(c)
  /\ \A g \in Goroutines : CallFits(g)

\* Who can be dequeued is who waits for the case.
LEMMA WaitersAre ==
  ASSUME TypeOK, QueuesFit, \A g \in Goroutines : CallFits(g), NEW k \in Cases
  PROVE  /\ Waiters(k) = {g \in Goroutines : Waiting(g) /\ k \in op[g].cases}
         /\ Waiters(k) = On(k) \ selectDone
         /\ Live(k) = {} <=> Waiters(k) = {}
<1>1. waitq[k] \in Seq(Goroutines)
  BY DEF TypeOK
<1>2. On(k) = {waitq[k][i] : i \in 1 .. Len(waitq[k])} /\ On(k) \subseteq Goroutines /\ DOMAIN waitq[k] = 1 .. Len(waitq[k])
  BY <1>1, RangeIs DEF On
<1>3. Waiters(k) = On(k) \ selectDone
  BY <1>2 DEF Waiters, Live
<1>4. ASSUME NEW g \in On(k) \ selectDone
      PROVE  Waiting(g) /\ k \in op[g].cases
  <2>1. g \in Goroutines /\ pc[g] \in {"parked", "awake"} /\ k \in op[g].cases /\ res[g] = None
    BY <1>2 DEF QueuesFit, On
  <2>2. QED  BY <2>1 DEF CallFits, Waiting
<1>5. ASSUME NEW g \in Goroutines, Waiting(g), k \in op[g].cases
      PROVE  g \in On(k) \ selectDone
  BY <1>5 DEF QueuesFit, On, Waiting
<1>6. Waiters(k) = {g \in Goroutines : Waiting(g) /\ k \in op[g].cases}
  BY <1>2, <1>3, <1>4, <1>5
<1>7. Live(k) = {} <=> Waiters(k) = {}
  BY DEF Waiters
<1>8. QED  BY <1>3, <1>6, <1>7

\* The first of them leaves the queue, and some whose select is over.
LEMMA DequeueDoes ==
  ASSUME TypeOK, QueuesFit, NEW k \in Cases, Live(k) # {}
  PROVE  LET h == waitq[k][First(k)] IN
           /\ h \in Goroutines /\ h \in On(k) \ selectDone
           /\ Dequeued(k) \in Seq(Goroutines) /\ IsInjective(Dequeued(k))
           /\ Range(Dequeued(k)) \subseteq On(k) \ {h}
           /\ On(k) \ Range(Dequeued(k)) \subseteq selectDone \cup {h}
<1> DEFINE s == waitq[k]
           n == First(k)
<1>1. s \in Seq(Goroutines) /\ IsInjective(s)
  BY DEF TypeOK, QueuesFit
<1>2. On(k) = {s[i] : i \in 1 .. Len(s)} /\ Len(s) \in Nat /\ DOMAIN s = 1 .. Len(s)
  BY <1>1, RangeIs DEF On
<1>3. n \in Live(k) /\ \A j \in Live(k) : n <= j
  <2>1. Live(k) \subseteq 1 .. Len(s) /\ Live(k) \subseteq Nat
    BY <1>2 DEF Live
  <2>2. IsFiniteSet(Live(k))
    <3>1. IsFiniteSet(1 .. Len(s))
      BY <1>2, FS_Interval
    <3>2. QED  BY <2>1, <3>1, FS_Subset
  <2>3. \E c \in Live(k) : \A d \in Live(k) : c <= d
    BY <2>1, <2>2, Extremes
  <2>4. QED  BY <2>3 DEF First
<1>4. n \in 1 .. Len(s) /\ s[n] \notin selectDone /\ \A j \in 1 .. Len(s) : s[j] \notin selectDone => n <= j
  BY <1>2, <1>3 DEF Live
<1> HIDE DEF n
<1>5. LET t == SubSeq(s, n + 1, Len(s)) IN
        /\ t \in Seq(Goroutines) /\ IsInjective(t) /\ Range(t) = {s[i] : i \in n + 1 .. Len(s)}
        /\ Range(t) \subseteq Range(s) \ {s[n]}
  BY <1>1, <1>4, SuffixOnce
<1>6. Dequeued(k) = SubSeq(s, n + 1, Len(s))
  BY DEF Dequeued, n
<1>7. On(k) \ Range(Dequeued(k)) \subseteq selectDone \cup {s[n]}
  <2> SUFFICES ASSUME NEW i \in 1 .. Len(s), s[i] \notin selectDone, i # n
               PROVE  s[i] \in Range(Dequeued(k))
    BY <1>2
  <2>1. i \in n + 1 .. Len(s)
    BY <1>2, <1>4
  <2>2. QED  BY <1>5, <1>6, <2>1
<1>8. s[n] \in Goroutines /\ s[n] \in On(k)
  BY <1>1, <1>2, <1>4
<1>9. QED  BY <1>4, <1>5, <1>6, <1>7, <1>8 DEF On, n

-----------------------------------------------------------------------------
(* The steps that serve nobody else. *)

\* Others stay as they are, on the queues too, but for sudogs of selects that are over.
Shrinks(g) ==
  /\ \A h \in Goroutines \ {g} : pc'[h] = pc[h] /\ op'[h] = op[h] /\ res'[h] = res[h]
  /\ closed' = closed /\ wake' = wake /\ selectDone' = selectDone \ {g}
  /\ \A k \in Cases :
       /\ waitq'[k] \in Seq(Goroutines) /\ IsInjective(waitq'[k])
       /\ On(k)' \subseteq On(k) \ {g}
       /\ On(k) \ On(k)' \subseteq selectDone \cup {g}
  /\ pc[g] # "parked" /\ pc'[g] # "parked" /\ (wake[g] = <<>> \/ pc'[g] = "done")

\* Such a step keeps what is known of queues and wakeups.
LEMMA ShrinkKeeps ==
  ASSUME NowFits, NEW g \in Goroutines, Shrinks(g), CallFits(g)'
  PROVE  QueuesFit' /\ WakesFit' /\ \A h \in Goroutines : CallFits(h)'
<1> USE DEF Shrinks
<1>1. TypeOK /\ QueuesFit /\ WakesFit
  BY DEF NowFits
<1>2. \A h \in Goroutines : CallFits(h)'
  BY DEF NowFits, CallFits
<1>3. \A k \in Cases : On(k) \subseteq Goroutines /\ On(k)' \subseteq Goroutines
  BY <1>1, RangeIs DEF On, TypeOK
<1>4. QueuesFit'
  <2>1. \A k \in Cases : IsInjective(waitq'[k])
    OBVIOUS
  <2>2. ASSUME NEW k \in Cases, NEW h \in On(k)'
        PROVE  pc'[h] \in {"parked", "awake"} /\ k \in op'[h].cases /\ (res'[h] # None => h \in selectDone')
    <3>1. h \in On(k) /\ h # g /\ h \in Goroutines
      BY <1>3
    <3>2. pc[h] \in {"parked", "awake"} /\ k \in op[h].cases /\ (res[h] # None => h \in selectDone)
      BY <1>1, <3>1 DEF QueuesFit, On
    <3>3. QED  BY <3>1, <3>2
  <2>3. ASSUME NEW h \in Goroutines, Waiting(h)', NEW k \in op'[h].cases
        PROVE  h \in On(k)'
    <3>1. h # g /\ Waiting(h) /\ k \in op[h].cases
      BY <2>3 DEF Waiting
    <3>2. k \in Cases
      BY <1>1, <3>1, CallsAre DEF NowFits, CallFits, TypeOK, Waiting
    <3>3. h \in On(k) /\ h \notin selectDone
      BY <1>1, <3>1 DEF QueuesFit, On, Waiting
    <3>4. QED  BY <3>1, <3>2, <3>3
  <2>4. ASSUME NEW h \in selectDone'
        PROVE  pc'[h] \in {"parked", "awake"} /\ res'[h] # None /\ IsSelect(op'[h])
    <3>1. h \in selectDone /\ h # g /\ h \in Goroutines
      BY <1>1 DEF TypeOK
    <3>2. QED  BY <1>1, <3>1 DEF QueuesFit
  <2>5. QED  BY <2>1, <2>2, <2>3, <2>4 DEF QueuesFit, On
<1>5. WakesFit'
  <2>1. ASSUME NEW x \in Goroutines, NEW i \in DOMAIN wake[x]
        PROVE  pc'[wake[x][i]] = "parked" /\ res'[wake[x][i]] # None
    <3>1. wake[x][i] \in Goroutines /\ pc[wake[x][i]] = "parked" /\ res[wake[x][i]] # None
      BY <1>1 DEF WakesFit, TypeOK
    <3>2. QED  BY <3>1
  <2>2. QED  BY <1>1, <2>1 DEF WakesFit
<1>6. QED  BY <1>2, <1>4, <1>5

\* The condition of a channel stays when its queues shrink.
LEMMA ShrinkFits ==
  ASSUME TypeOK, NEW c \in Channels, ChannelFits(c), closed'[c] = closed[c],
         buf'[c] \in Seq(Goroutines), Len(buf'[c]) = Len(buf[c]),
         \A k \in {Send(c), Recv(c)} : waitq'[k] \in Seq(Goroutines) /\ On(k)' \subseteq On(k)
  PROVE  ChannelFits(c)'
<1>1. \A k \in {Send(c), Recv(c)} : waitq[k] \in Seq(Goroutines) /\ waitq'[k] \in Seq(Goroutines)
  BY SidesOf DEF TypeOK
<1>2. \A k \in {Send(c), Recv(c)} : (waitq[k] = <<>> <=> On(k) = {}) /\ (waitq'[k] = <<>> <=> On(k)' = {})
  BY <1>1, RangeIs DEF On
<1>3. \A k \in {Send(c), Recv(c)} : waitq[k] = <<>> => waitq'[k] = <<>>
  BY <1>2
<1>4. buf[c] \in Seq(Goroutines) /\ (buf[c] = <<>> <=> buf'[c] = <<>>)
  <2>1. buf[c] \in Seq(Goroutines)
    BY DEF TypeOK
  <2>2. (buf[c] = <<>> <=> Len(buf[c]) = 0) /\ (buf'[c] = <<>> <=> Len(buf'[c]) = 0)
    BY <2>1, RangeIs
  <2>3. QED  BY <2>1, <2>2
<1>5. \/ waitq'[Send(c)] = <<>>
      \/ waitq'[Recv(c)] = <<>>
      \/ Cap[c] = 0 /\ \E g \in Goroutines : On(Send(c))' \cup On(Recv(c))' = {g}
  <2> SUFFICES ASSUME waitq'[Send(c)] # <<>>, waitq'[Recv(c)] # <<>>
               PROVE  Cap[c] = 0 /\ \E g \in Goroutines : On(Send(c))' \cup On(Recv(c))' = {g}
    OBVIOUS
  <2>1. waitq[Send(c)] # <<>> /\ waitq[Recv(c)] # <<>>
    BY <1>3
  <2>2. Cap[c] = 0 /\ \E g \in Goroutines : On(Send(c)) \cup On(Recv(c)) = {g}
    BY <2>1 DEF ChannelFits, On
  <2>3. PICK g \in Goroutines : On(Send(c)) \cup On(Recv(c)) = {g}
    BY <2>2
  <2>4. On(Send(c))' # {} /\ On(Send(c))' \subseteq {g} /\ On(Recv(c))' \subseteq {g}
    BY <1>2, <2>3
  <2>5. QED  BY <2>2, <2>4
<1>6. QED  BY <1>3, <1>4, <1>5 DEF ChannelFits, On

\* A goroutine that does not wait is on no queue and in no one's list.
LEMMA NotThere ==
  ASSUME TypeOK, QueuesFit, NEW g \in Goroutines, pc[g] \notin {"parked", "awake"}
  PROVE  g \notin selectDone /\ \A k \in Cases : g \notin On(k)
BY DEF QueuesFit, On

\* A queue is a sequence without duplicates.
LEMMA QueuesType ==
  ASSUME TypeOK, QueuesFit, NEW k \in Cases
  PROVE  waitq[k] \in Seq(Goroutines) /\ IsInjective(waitq[k]) /\ (waitq[k] = <<>> <=> On(k) = {})
BY RangeIs DEF TypeOK, QueuesFit, On

\* The steps without the channels.
QuietStep(g) ==
  \/ \E o \in Calls : Call(g, o)
  \/ \E c \in Channels : FastSend(g, c) \/ FastRecv(g, c)
  \/ Awake(g) \/ Return(g)

QuietEffect(g) ==
  /\ UNCHANGED chans /\ wake' = wake
  /\ pc' = [pc EXCEPT ![g] = pc'[g]] /\ op' = [op EXCEPT ![g] = op'[g]] /\ res' = [res EXCEPT ![g] = res'[g]]
  /\ pc[g] # "parked" /\ pc'[g] # "parked" /\ wake[g] = <<>>
  /\ res'[g] \in Results \cup {None} /\ CallFits(g)'
  /\ g \notin selectDone /\ \A k \in Cases : g \notin On(k)

\* They change nothing but what their goroutine knows.
LEMMA QuietDoes ==
  ASSUME NowFits, NEW g \in Goroutines, QuietStep(g)
  PROVE  QuietEffect(g)
<1> USE DEF QuietEffect
<1>0. TypeOK /\ QueuesFit /\ CallFits(g) /\ WakesFit
  BY DEF NowFits
<1>1. ASSUME NEW o \in Calls, Call(g, o)
      PROVE  QuietEffect(g)
  <2>1. /\ pc[g] = "idle" /\ op' = [op EXCEPT ![g] = o] /\ UNCHANGED chans /\ wake' = wake /\ res' = res
        /\ pc' = [pc EXCEPT ![g] = IF o.block \/ IsSelect(o) THEN "lock" ELSE "fast"]
    BY <1>1 DEF Call, Goto
  <2>2. op'[g] = o /\ pc'[g] = (IF o.block \/ IsSelect(o) THEN "lock" ELSE "fast") /\ res'[g] = res[g]
    BY <1>0, <2>1 DEF TypeOK
  <2>3. res[g] = None /\ o # None /\ wake[g] = <<>>
    BY <1>0, <2>1, CallsAre DEF CallFits, WakesFit
  <2>4. CallFits(g)'
    BY <2>2, <2>3 DEF CallFits, FastPath
  <2>5. g \notin selectDone /\ \A k \in Cases : g \notin On(k)
    BY <1>0, <2>1, NotThere
  <2>6. pc'[g] # "parked" /\ res'[g] \in Results \cup {None} /\ res' = [res EXCEPT ![g] = res'[g]]
    BY <1>0, <2>1, <2>2 DEF TypeOK
  <2>7. pc' = [pc EXCEPT ![g] = pc'[g]] /\ op' = [op EXCEPT ![g] = op'[g]]
    BY <2>1, <2>2
  <2>8. QED  BY <2>1, <2>3, <2>4, <2>5, <2>6, <2>7
<1>2. ASSUME NEW c \in Channels, FastSend(g, c) \/ FastRecv(g, c)
      PROVE  QuietEffect(g)
  <2>1. /\ UNCHANGED <<chans, op, wake>> /\ pc[g] \in FastPath /\ pc' = [pc EXCEPT ![g] = pc'[g]]
        /\ res' = [res EXCEPT ![g] = res'[g]]
        /\ \/ pc'[g] \in FastPath \cup {"lock"} /\ res'[g] = res[g]
           \/ pc'[g] = "done" /\ res'[g] \in {NotSelected, <<Recv(c), FALSE, None>>}
    BY <1>0, <1>2 DEF FastSend, FastRecv, FastRead, FastFail, Finish, Goto, FastPath, TypeOK, chans
  <2>2. op'[g] = op[g] /\ op' = [op EXCEPT ![g] = op'[g]]
    BY <1>0, <2>1 DEF TypeOK
  <2>3. op[g] # None /\ res[g] = None /\ ~op[g].block /\ wake[g] = <<>>
    BY <1>0, <2>1 DEF CallFits, WakesFit, FastPath
  <2>4. {NotSelected, <<Recv(c), FALSE, None>>} \subseteq Results
    <3>1. Recv(c) \in Cases
      BY SidesOf
    <3>2. <<Recv(c), FALSE, None>> \in Cases \X BOOLEAN \X (Goroutines \cup {None})
      BY <3>1
    <3>3. QED  BY <3>2 DEF Results
  <2>5. res'[g] \in Results \cup {None} /\ (pc'[g] = "done" => res'[g] # None)
    BY <2>1, <2>3, <2>4, ChanAssumption DEF FastPath
  <2>6. CallFits(g)'
    BY <2>1, <2>2, <2>3, <2>5 DEF CallFits, FastPath
  <2>7. g \notin selectDone /\ \A k \in Cases : g \notin On(k)
    BY <1>0, <2>1, NotThere DEF FastPath
  <2>8. pc[g] # "parked" /\ pc'[g] # "parked"
    BY <2>1 DEF FastPath
  <2>9. QED  BY <2>1, <2>2, <2>3, <2>5, <2>6, <2>7, <2>8
<1>3. CASE Return(g)
  <2>1. /\ pc[g] = "done" /\ wake[g] = <<>> /\ pc' = [pc EXCEPT ![g] = "idle"] /\ op' = [op EXCEPT ![g] = None]
        /\ res' = [res EXCEPT ![g] = None] /\ UNCHANGED <<chans, wake>>
    BY <1>3 DEF Return, Goto
  <2>2. pc'[g] = "idle" /\ op'[g] = None /\ res'[g] = None
    BY <1>0, <2>1 DEF TypeOK
  <2>3. CallFits(g)'
    BY <2>2 DEF CallFits, FastPath
  <2>4. g \notin selectDone /\ \A k \in Cases : g \notin On(k)
    BY <1>0, <2>1, NotThere
  <2>5. QED  BY <2>1, <2>2, <2>3, <2>4
<1>4. CASE Awake(g)
  <2> DEFINE k == TheCase(g)
  <2>1. /\ pc[g] = "awake" /\ ~IsSelect(op[g]) /\ UNCHANGED <<chans, op, res, wake>>
        /\ pc' = [pc EXCEPT ![g] = IF res[g] = None \/ (k[1] = "send" /\ ~res[g][2] /\ ~closed[k[2]])
                                    THEN "throw" ELSE "done"]
    BY <1>4 DEF Awake, Goto
  <2>2. /\ op[g] \in Calls /\ res[g] # None /\ res[g][1] \in op[g].cases /\ wake[g] = <<>>
        /\ res[g][1][1] = "send" /\ ~res[g][2] => closed[res[g][1][2]]
    BY <1>0, <2>1 DEF CallFits, WakesFit, TypeOK
  <2>3. k = res[g][1]
    <3>1. k \in op[g].cases
      BY <2>2 DEF TheCase
    <3>2. QED  BY <2>1, <2>2, <3>1, OneCase
  <2>4. pc' = [pc EXCEPT ![g] = "done"] /\ pc'[g] = "done"
    BY <1>0, <2>1, <2>2, <2>3 DEF TypeOK
  <2>5. op'[g] = op[g] /\ res'[g] = res[g]
    BY <2>1
  <2>6. CallFits(g)'
    BY <2>2, <2>4, <2>5, CallsAre DEF CallFits, FastPath
  <2>7. g \notin selectDone /\ \A j \in Cases : g \notin On(j)
    BY <1>0, <2>1, <2>2 DEF QueuesFit, On
  <2>8. op' = [op EXCEPT ![g] = op'[g]] /\ res' = [res EXCEPT ![g] = res'[g]] /\ res'[g] \in Results \cup {None}
    BY <1>0, <2>1, <2>5 DEF TypeOK
  <2>9. QED  BY <2>1, <2>2, <2>4, <2>6, <2>7, <2>8
<1>5. QED  BY <1>1, <1>2, <1>3, <1>4 DEF QuietStep

\* The types of what the locks have nothing to do with.
DataOK ==
  /\ buf \in [Channels -> Seq(Goroutines)]
  /\ closed \in [Channels -> BOOLEAN]
  /\ waitq \in [Cases -> Seq(Goroutines)]
  /\ selectDone \subseteq Goroutines
  /\ res \in [Goroutines -> Results \cup {None}]
  /\ wake \in [Goroutines -> Seq(Goroutines)]

StillFits ==
  /\ DataOK' /\ QueuesFit' /\ WakesFit'
  /\ \A c \in Channels : ChannelFits(c)'
  /\ \A h \in Goroutines : CallFits(h)'

\* So they keep the invariant.
LEMMA QuietKeeps ==
  ASSUME NowFits, NEW g \in Goroutines, QuietStep(g)
  PROVE  StillFits
<1>1. QuietEffect(g)
  BY QuietDoes
<1>2. TypeOK /\ QueuesFit
  BY DEF NowFits
<1>3. /\ UNCHANGED <<buf, closed, waitq, selectDone, wake>>
      /\ res' = [res EXCEPT ![g] = res'[g]] /\ res'[g] \in Results \cup {None}
  BY <1>1 DEF QuietEffect, chans
<1>4. DataOK'
  BY <1>2, <1>3 DEF DataOK, TypeOK
<1>5. \A c \in Channels : ChannelFits(c)'
  BY <1>3 DEF NowFits, ChannelFits
<1>6. Shrinks(g)
  <2>1. \A h \in Goroutines \ {g} : pc'[h] = pc[h] /\ op'[h] = op[h] /\ res'[h] = res[h]
    BY <1>1, <1>2 DEF QuietEffect, TypeOK
  <2>2. \A k \in Cases : waitq'[k] \in Seq(Goroutines) /\ IsInjective(waitq'[k]) /\ On(k)' = On(k)
    BY <1>2, <1>3, QueuesType DEF On
  <2>3. QED  BY <1>1, <1>3, <2>1, <2>2 DEF Shrinks, QuietEffect
<1>7. QED  BY <1>1, <1>4, <1>5, <1>6, ShrinkKeeps DEF QuietEffect, StillFits

-----------------------------------------------------------------------------
(* What a call does with its channels locked. *)

\* It is in no queue, and its cases are those of channels.
LEMMA LockedStarts ==
  ASSUME NowFits, NEW g \in Goroutines, pc[g] = "lock"
  PROVE  /\ op[g] \in Calls /\ op[g].cases \subseteq Cases /\ op[g].cases # {} /\ res[g] = None
         /\ wake[g] = <<>> /\ g \notin selectDone /\ \A k \in Cases : g \notin On(k)
         /\ \A h \in Goroutines : \A i \in DOMAIN wake[h] : wake[h][i] # g
<1>1. TypeOK /\ QueuesFit /\ CallFits(g) /\ WakesFit
  BY DEF NowFits
<1>2. op[g] \in Calls /\ res[g] = None
  BY <1>1 DEF CallFits, TypeOK
<1>3. g \notin selectDone /\ \A k \in Cases : g \notin On(k)
  BY <1>1, NotThere
<1>4. wake[g] = <<>> /\ \A h \in Goroutines : \A i \in DOMAIN wake[h] : wake[h][i] # g
  BY <1>1 DEF WakesFit
<1>5. QED  BY <1>2, <1>3, <1>4, CallsAre

\* Looking at a case that cannot proceed drops the sudogs that are still queued there.
LEMMA CleanedDoes ==
  ASSUME NowFits, NEW polled \in SUBSET Cases, \A k \in polled : Live(Peer(k)) = {}, NEW k \in Cases
  PROVE  /\ Cleaned(polled)[k] \in Seq(Goroutines) /\ IsInjective(Cleaned(polled)[k])
         /\ Range(Cleaned(polled)[k]) \subseteq On(k)
         /\ On(k) \ Range(Cleaned(polled)[k]) \subseteq selectDone
         /\ Peer(k) \in polled => Cleaned(polled)[k] = <<>>
         /\ Peer(k) \notin polled => Cleaned(polled)[k] = waitq[k]
         /\ waitq[k] = <<>> => Cleaned(polled)[k] = <<>>
<1>1. TypeOK /\ QueuesFit /\ \A g \in Goroutines : CallFits(g)
  BY DEF NowFits
<1>2. Cleaned(polled)[k] = IF Peer(k) \in polled THEN <<>> ELSE waitq[k]
  BY DEF Cleaned
<1>3. CASE Peer(k) \in polled
  <2>1. Live(k) = {}
    BY <1>3, CasesOf
  <2>2. On(k) \subseteq selectDone
    BY <1>1, <2>1, WaitersAre
  <2>3. QED  BY <1>2, <1>3, <2>2, EmptyOnce
<1>4. CASE Peer(k) \notin polled
  BY <1>1, <1>2, <1>4, QueuesType DEF On
<1>5. QED  BY <1>3, <1>4

\* A case that cannot proceed.
LEMMA ReadyIs ==
  ASSUME NowFits, NEW k \in Cases, ~Ready(k)
  PROVE  /\ ~closed[k[2]] /\ Live(Peer(k)) = {}
         /\ k[1] = "send" => ~(Len(buf[k[2]]) < Cap[k[2]])
         /\ k[1] # "send" => buf[k[2]] = <<>>
BY DEF Ready

\* A case that completes by itself.
LEMMA CompleteDoes ==
  ASSUME NowFits, NEW g \in Goroutines, pc[g] = "lock", NEW k \in op[g].cases,
         NEW polled \in SUBSET {j \in op[g].cases : ~Ready(j)}, Ready(k), Complete(g, k, polled)
  PROVE  LET c == k[2] IN
         /\ c \in Channels /\ k \in Cases
         /\ \/ /\ k[1] = "recv" /\ buf[c] # <<>> /\ Live(Peer(k)) = {}
               /\ res' = [res EXCEPT ![g] = <<k, TRUE, Head(buf[c])>>] /\ buf' = [buf EXCEPT ![c] = Tail(@)]
            \/ /\ closed[c] /\ (k[1] = "recv" => buf[c] = <<>>)
               /\ res' = [res EXCEPT ![g] = <<k, FALSE, None>>] /\ buf' = buf
            \/ /\ ~closed[c] /\ k[1] = "send" /\ Len(buf[c]) < Cap[c] /\ Live(Peer(k)) = {}
               /\ res' = [res EXCEPT ![g] = <<k, TRUE, None>>] /\ buf' = [buf EXCEPT ![c] = Append(@, g)]
         /\ pc' = [pc EXCEPT ![g] = "done"] /\ UNCHANGED <<selectDone, wake>>
         /\ \E looked \in SUBSET Cases :
              /\ \A j \in looked : Live(Peer(j)) = {}
              /\ ~closed[c] => k \in looked
              /\ waitq' = Cleaned(looked)
<1>1. op[g].cases \subseteq Cases
  BY LockedStarts
<1>2. k \in Cases /\ k[2] \in Channels /\ (k[1] = "send" \/ k[1] = "recv")
  BY <1>1 DEF Cases
<1>3. \A j \in polled : j \in Cases /\ Live(Peer(j)) = {}
  BY <1>1, ReadyIs
<1>4. pc' = [pc EXCEPT ![g] = "done"] /\ UNCHANGED <<selectDone, wake>>
  BY DEF Complete, Finish, Goto
<1>5. \E looked \in SUBSET Cases :
              /\ \A j \in looked : Live(Peer(j)) = {}
              /\ ~closed[k[2]] => k \in looked
              /\ waitq' = Cleaned(looked)
  <2>1. CASE closed[k[2]]
    <3>1. waitq' = Cleaned(polled)
      BY <2>1 DEF Complete
    <3>2. QED  BY <1>3, <2>1, <3>1
  <2>2. CASE ~closed[k[2]]
    <3>1. waitq' = Cleaned(polled \cup {k}) /\ Live(Peer(k)) = {}
      BY <2>2 DEF Complete
    <3>2. QED  BY <1>2, <1>3, <2>2, <3>1
  <2>3. QED  BY <2>1, <2>2
<1>6. (k[1] = "send" /\ closed[k[2]]) \/ Live(Peer(k)) = {}
  BY DEF Complete
<1>7. CASE k[1] = "recv" /\ buf[k[2]] # <<>>
  BY <1>2, <1>4, <1>5, <1>6, <1>7 DEF Complete, Finish
<1>8. CASE ~(k[1] = "recv" /\ buf[k[2]] # <<>>) /\ closed[k[2]]
  BY <1>2, <1>4, <1>5, <1>8 DEF Complete, Finish
<1>9. CASE ~(k[1] = "recv" /\ buf[k[2]] # <<>>) /\ ~closed[k[2]]
  <2>1. k[1] = "send" /\ Len(buf[k[2]]) < Cap[k[2]]
    BY <1>2, <1>6, <1>9 DEF Ready
  <2>2. QED  BY <1>2, <1>4, <1>5, <1>6, <1>9, <2>1 DEF Complete, Finish
<1>10. QED  BY <1>7, <1>8, <1>9

\* Complete, or a call that gives up, leaves the queues shorter.
LEMMA CleanedShrinks ==
  ASSUME NowFits, NEW g \in Goroutines, pc[g] = "lock", NEW looked \in SUBSET Cases,
         \A j \in looked : Live(Peer(j)) = {}, waitq' = Cleaned(looked),
         UNCHANGED <<selectDone, wake, op, closed>>, pc' = [pc EXCEPT ![g] = "done"],
         NEW r, res' = [res EXCEPT ![g] = r]
  PROVE  Shrinks(g)
<1>1. TypeOK /\ QueuesFit
  BY DEF NowFits
<1>2. wake[g] = <<>> /\ g \notin selectDone /\ \A k \in Cases : g \notin On(k)
  BY LockedStarts
<1>3. \A h \in Goroutines \ {g} : pc'[h] = pc[h] /\ op'[h] = op[h] /\ res'[h] = res[h]
  BY <1>1 DEF TypeOK
<1>4. ASSUME NEW k \in Cases
      PROVE  /\ waitq'[k] \in Seq(Goroutines) /\ IsInjective(waitq'[k])
             /\ On(k)' \subseteq On(k) \ {g} /\ On(k) \ On(k)' \subseteq selectDone \cup {g}
  BY <1>2, CleanedDoes DEF On
<1>5. pc'[g] = "done"
  BY <1>1 DEF TypeOK
<1>6. QED  BY <1>2, <1>3, <1>4, <1>5 DEF Shrinks

\* A channel on which nobody waits.
LEMMA NobodyFits ==
  ASSUME NEW c \in Channels, waitq'[Send(c)] = <<>>, waitq'[Recv(c)] = <<>>, Len(buf'[c]) <= Cap[c]
  PROVE  ChannelFits(c)'
BY DEF ChannelFits

\* It keeps the invariant: a value enters or leaves the buffer, which nobody waits for.
LEMMA CompleteKeeps ==
  ASSUME NowFits, NEW g \in Goroutines, pc[g] = "lock", NEW k \in op[g].cases,
         NEW polled \in SUBSET {j \in op[g].cases : ~Ready(j)}, Ready(k), Complete(g, k, polled),
         UNCHANGED <<op, closed>>
  PROVE  StillFits
<1> DEFINE c == k[2]
           line == buf[c]
<1>0. TypeOK /\ QueuesFit
  BY DEF NowFits
<1>1. /\ c \in Channels /\ k \in Cases
      /\ \/ /\ k[1] = "recv" /\ line # <<>> /\ Live(Peer(k)) = {}
            /\ res' = [res EXCEPT ![g] = <<k, TRUE, Head(line)>>] /\ buf' = [buf EXCEPT ![c] = Tail(line)]
         \/ /\ closed[c] /\ (k[1] = "recv" => line = <<>>)
            /\ res' = [res EXCEPT ![g] = <<k, FALSE, None>>] /\ buf' = buf
         \/ /\ ~closed[c] /\ k[1] = "send" /\ Len(line) < Cap[c] /\ Live(Peer(k)) = {}
            /\ res' = [res EXCEPT ![g] = <<k, TRUE, None>>] /\ buf' = [buf EXCEPT ![c] = Append(line, g)]
      /\ pc' = [pc EXCEPT ![g] = "done"] /\ UNCHANGED <<selectDone, wake>>
      /\ \E looked \in SUBSET Cases :
           /\ \A j \in looked : Live(Peer(j)) = {}
           /\ ~closed[c] => k \in looked
           /\ waitq' = Cleaned(looked)
  BY CompleteDoes
<1>2. PICK looked \in SUBSET Cases :
        /\ \A j \in looked : Live(Peer(j)) = {}
        /\ ~closed[c] => k \in looked
        /\ waitq' = Cleaned(looked)
  BY <1>1
<1>3. line \in Seq(Goroutines) /\ Len(line) \in Nat /\ Cap[c] \in Nat /\ Len(line) <= Cap[c]
  <2>1. ChannelFits(c)
    BY <1>1 DEF NowFits
  <2>2. line \in Seq(Goroutines) /\ Cap[c] \in Nat
    BY <1>0, <1>1, ChanAssumption DEF TypeOK
  <2>3. QED  BY <2>1, <2>2, RangeIs DEF ChannelFits
<1> HIDE DEF c, line
<1>4. line # <<>> => /\ Head(line) \in Goroutines /\ Tail(line) \in Seq(Goroutines) /\ Len(Tail(line)) = Len(line) - 1
                     /\ Len(line) > 0
  BY <1>3, HeadTailProperties, EmptySeq
<1>5. /\ Append(line, g) \in Seq(Goroutines) /\ Len(Append(line, g)) = Len(line) + 1
  BY <1>3, AppendProperties
<1>6. \E r \in Results : res' = [res EXCEPT ![g] = r]
  <2>1. \A b \in BOOLEAN, v \in Goroutines \cup {None} : <<k, b, v>> \in Results
    BY <1>1 DEF Results
  <2>2. QED  BY <1>1, <1>4, <2>1
<1>7. PICK r \in Results : res' = [res EXCEPT ![g] = r]
  BY <1>6
<1>8. r # None
  BY ChanAssumption
<1>9. Shrinks(g)
  BY <1>1, <1>2, <1>7, CleanedShrinks
<1>10. pc'[g] = "done" /\ op'[g] = op[g] /\ res'[g] = r /\ op[g] # None
  BY <1>0, <1>1, <1>7, LockedStarts, CallsAre DEF TypeOK
<1>11. CallFits(g)'
  BY <1>8, <1>10 DEF CallFits, FastPath
<1>12. QueuesFit' /\ WakesFit' /\ \A h \in Goroutines : CallFits(h)'
  BY <1>9, <1>11, ShrinkKeeps
<1>13. waitq' \in [Cases -> Seq(Goroutines)]
  <2>1. \A j \in Cases : waitq'[j] \in Seq(Goroutines)
    BY <1>9 DEF Shrinks
  <2>2. QED  BY <1>2, <2>1 DEF Cleaned
<1>14. buf' \in [Channels -> Seq(Goroutines)]
  BY <1>0, <1>1, <1>4, <1>5 DEF TypeOK
<1>15. DataOK'
  BY <1>0, <1>1, <1>7, <1>13, <1>14 DEF DataOK, TypeOK
<1>16. ASSUME NEW d \in Channels  PROVE  ChannelFits(d)'
  <2>1. ChannelFits(d)
    BY DEF NowFits
  <2>2. \A j \in {Send(d), Recv(d)} : waitq'[j] \in Seq(Goroutines) /\ On(j)' \subseteq On(j)
    BY <1>9, SidesOf DEF Shrinks
  <2>3. \A j \in Cases : waitq[j] = <<>> => waitq'[j] = <<>>
    BY <1>2, CleanedDoes
  <2>4. CASE buf'[d] = buf[d]
    BY <1>0, <1>14, <2>1, <2>2, <2>4, ShrinkFits
  <2>5. CASE buf'[d] # buf[d]
    <3>1. d = c
      BY <1>0, <1>1, <2>5 DEF TypeOK
    <3>2. ~closed[c] => waitq'[Peer(k)] = <<>>
      <4> SUFFICES ASSUME ~closed[c]  PROVE  waitq'[Peer(k)] = <<>>
        OBVIOUS
      <4>1. Peer(k) \in Cases /\ Peer(Peer(k)) \in looked
        BY <1>1, <1>2, CasesOf
      <4>2. QED  BY <1>2, <4>1, CleanedDoes
    <3>3. /\ Send(c) \in Cases /\ Recv(c) \in Cases /\ (k = Send(c) \/ k = Recv(c)) /\ (k[1] = "send" <=> k = Send(c))
          /\ Peer(Send(c)) = Recv(c) /\ Peer(Recv(c)) = Send(c) /\ Send(c)[1] = "send" /\ Recv(c)[1] = "recv"
      BY <1>1, CasesOf, SidesOf DEF c
    <3>4. closed[c] => waitq[Send(c)] = <<>> /\ waitq[Recv(c)] = <<>>
      BY <2>1, <3>1 DEF ChannelFits
    <3>5. CASE k = Recv(c)
      <4>1. line # <<>> /\ buf' = [buf EXCEPT ![c] = Tail(line)]
        BY <1>1, <2>5, <3>3, <3>5
      <4>2. waitq[Recv(c)] = <<>>
        BY <2>1, <3>1, <4>1 DEF ChannelFits, line
      <4>3. waitq'[Recv(c)] = <<>> /\ waitq'[Send(c)] = <<>>
        BY <2>3, <3>2, <3>3, <3>4, <3>5, <4>2
      <4>4. Len(buf'[c]) <= Cap[c]
        BY <1>0, <1>1, <1>3, <1>4, <4>1 DEF TypeOK
      <4>5. QED  BY <1>1, <3>1, <4>3, <4>4, NobodyFits
    <3>6. CASE k = Send(c)
      <4>1. ~closed[c] /\ Len(line) < Cap[c] /\ buf' = [buf EXCEPT ![c] = Append(line, g)]
        BY <1>1, <2>5, <3>3, <3>6
      <4>2. waitq[Send(c)] = <<>>
        BY <2>1, <3>1, <4>1 DEF ChannelFits, line
      <4>3. waitq'[Recv(c)] = <<>> /\ waitq'[Send(c)] = <<>>
        BY <2>3, <3>2, <3>3, <3>6, <4>1, <4>2
      <4>4. Len(buf'[c]) <= Cap[c]
        BY <1>0, <1>1, <1>3, <1>5, <4>1 DEF TypeOK
      <4>5. QED  BY <1>1, <3>1, <4>3, <4>4, NobodyFits
    <3>7. QED  BY <3>3, <3>5, <3>6
  <2>6. QED  BY <2>4, <2>5
<1>17. QED  BY <1>12, <1>15, <1>16 DEF StillFits

\* No case can proceed and the call gives up.
LEMMA GiveUpKeeps ==
  ASSUME NowFits, NEW g \in Goroutines, pc[g] = "lock", Block(g), ~op[g].block, UNCHANGED <<op, closed>>
  PROVE  StillFits
<1>0. TypeOK /\ QueuesFit
  BY DEF NowFits
<1>1. /\ \A k \in op[g].cases : ~Ready(k)
      /\ waitq' = Cleaned(op[g].cases) /\ UNCHANGED <<buf, selectDone, wake>>
      /\ res' = [res EXCEPT ![g] = NotSelected] /\ pc' = [pc EXCEPT ![g] = "done"]
  BY DEF Block, Finish, Goto
<1>2. op[g].cases \in SUBSET Cases /\ \A j \in op[g].cases : Live(Peer(j)) = {}
  BY <1>1, LockedStarts, ReadyIs
<1>3. NotSelected \in Results /\ NotSelected # None
  BY ChanAssumption DEF Results
<1>4. Shrinks(g)
  BY <1>1, <1>2, CleanedShrinks
<1>5. pc'[g] = "done" /\ op'[g] = op[g] /\ res'[g] = NotSelected /\ op[g] # None
  BY <1>0, <1>1, LockedStarts, CallsAre DEF TypeOK
<1>6. CallFits(g)'
  BY <1>3, <1>5 DEF CallFits, FastPath
<1>7. waitq' \in [Cases -> Seq(Goroutines)]
  <2>1. \A j \in Cases : waitq'[j] \in Seq(Goroutines)
    BY <1>4 DEF Shrinks
  <2>2. QED  BY <1>1, <2>1 DEF Cleaned
<1>8. DataOK'
  BY <1>0, <1>1, <1>3, <1>7 DEF DataOK, TypeOK
<1>9. ASSUME NEW d \in Channels  PROVE  ChannelFits(d)'
  <2>1. ChannelFits(d)
    BY DEF NowFits
  <2>2. \A j \in {Send(d), Recv(d)} : waitq'[j] \in Seq(Goroutines) /\ On(j)' \subseteq On(j)
    BY <1>4, SidesOf DEF Shrinks
  <2>3. QED  BY <1>0, <1>1, <1>8, <2>1, <2>2, ShrinkFits DEF DataOK
<1>10. QED  BY <1>4, <1>6, <1>8, <1>9, ShrinkKeeps DEF StillFits

\* No case can proceed and the call parks.
LEMMA ParkDoes ==
  ASSUME NowFits, NEW g \in Goroutines, pc[g] = "lock", Block(g), op[g].block
  PROVE  /\ \A k \in op[g].cases : ~Ready(k) /\ Live(Peer(k)) = {}
         /\ UNCHANGED <<buf, selectDone, wake, res>> /\ pc' = [pc EXCEPT ![g] = "parked"]
         /\ waitq' \in [Cases -> Seq(Goroutines)]
         /\ \A k \in Cases :
              /\ IsInjective(waitq'[k])
              /\ k \in op[g].cases => g \in On(k)' /\ On(k)' \subseteq On(k) \cup {g}
              /\ k \notin op[g].cases => On(k)' \subseteq On(k)
              /\ On(k) \ On(k)' \subseteq selectDone
              /\ Peer(k) \in op[g].cases => On(k)' \subseteq {g}
              /\ Peer(k) \in op[g].cases /\ k \notin op[g].cases => waitq'[k] = <<>>
<1> DEFINE cleaned == Cleaned(op[g].cases)
<1>0. TypeOK /\ QueuesFit
  BY DEF NowFits
<1>1. /\ \A k \in op[g].cases : ~Ready(k)
      /\ waitq' = [k \in Cases |-> IF k \in op[g].cases THEN Append(cleaned[k], g) ELSE cleaned[k]]
      /\ pc' = [pc EXCEPT ![g] = "parked"] /\ UNCHANGED <<buf, selectDone, wake, res>>
  BY DEF Block, Goto
<1>2. op[g].cases \in SUBSET Cases /\ \A j \in op[g].cases : Live(Peer(j)) = {}
  BY <1>1, LockedStarts, ReadyIs
<1>3. ASSUME NEW k \in Cases
      PROVE  /\ waitq'[k] \in Seq(Goroutines) /\ IsInjective(waitq'[k])
             /\ k \in op[g].cases => g \in On(k)' /\ On(k)' \subseteq On(k) \cup {g}
             /\ k \notin op[g].cases => On(k)' \subseteq On(k)
             /\ On(k) \ On(k)' \subseteq selectDone
             /\ Peer(k) \in op[g].cases => On(k)' \subseteq {g}
             /\ Peer(k) \in op[g].cases /\ k \notin op[g].cases => waitq'[k] = <<>>
  <2>1. /\ cleaned[k] \in Seq(Goroutines) /\ IsInjective(cleaned[k]) /\ Range(cleaned[k]) \subseteq On(k)
        /\ On(k) \ Range(cleaned[k]) \subseteq selectDone
        /\ Peer(k) \in op[g].cases => cleaned[k] = <<>>
    BY <1>2, CleanedDoes
  <2>2. g \notin On(k)
    BY LockedStarts
  <2> HIDE DEF cleaned
  <2>3. CASE k \in op[g].cases
    <3>1. waitq'[k] = Append(cleaned[k], g)
      BY <1>1, <2>3
    <3>2. /\ Append(cleaned[k], g) \in Seq(Goroutines) /\ IsInjective(Append(cleaned[k], g))
          /\ Range(Append(cleaned[k], g)) = Range(cleaned[k]) \cup {g}
      BY <2>1, <2>2, AppendOnce
    <3>3. On(k)' = Range(cleaned[k]) \cup {g}
      BY <3>1, <3>2 DEF On
    <3>4. QED  BY <2>1, <2>3, <3>1, <3>2, <3>3, EmptyOnce
  <2>4. CASE k \notin op[g].cases
    <3>1. waitq'[k] = cleaned[k]
      BY <1>1, <2>4
    <3>2. On(k)' = Range(cleaned[k])
      BY <3>1 DEF On
    <3>3. QED  BY <2>1, <2>4, <3>1, <3>2, EmptyOnce
  <2>5. QED  BY <2>3, <2>4
<1>4. waitq' \in [Cases -> Seq(Goroutines)]
  BY <1>1, <1>3
<1>5. QED  BY <1>1, <1>2, <1>3, <1>4

\* It keeps the invariant: the caller is on the queue of each of its cases.
LEMMA ParkKeeps ==
  ASSUME NowFits, NEW g \in Goroutines, pc[g] = "lock", Block(g), op[g].block, UNCHANGED <<op, closed>>
  PROVE  StillFits
<1>0. TypeOK /\ QueuesFit /\ WakesFit /\ \A h \in Goroutines : CallFits(h)
  BY DEF NowFits
<1>1. /\ \A k \in op[g].cases : ~Ready(k) /\ Live(Peer(k)) = {}
      /\ UNCHANGED <<buf, selectDone, wake, res>> /\ pc' = [pc EXCEPT ![g] = "parked"]
      /\ waitq' \in [Cases -> Seq(Goroutines)]
      /\ \A k \in Cases :
           /\ IsInjective(waitq'[k])
           /\ k \in op[g].cases => g \in On(k)' /\ On(k)' \subseteq On(k) \cup {g}
           /\ k \notin op[g].cases => On(k)' \subseteq On(k)
           /\ On(k) \ On(k)' \subseteq selectDone
           /\ Peer(k) \in op[g].cases => On(k)' \subseteq {g}
           /\ Peer(k) \in op[g].cases /\ k \notin op[g].cases => waitq'[k] = <<>>
  BY ParkDoes
<1>2. /\ op[g] \in Calls /\ op[g].cases \subseteq Cases /\ op[g] # None /\ res[g] = None
      /\ wake[g] = <<>> /\ g \notin selectDone /\ \A k \in Cases : g \notin On(k)
      /\ \A h \in Goroutines : \A i \in DOMAIN wake[h] : wake[h][i] # g
  BY LockedStarts, CallsAre
<1>3. pc'[g] = "parked" /\ \A h \in Goroutines \ {g} : pc'[h] = pc[h]
  BY <1>0, <1>1 DEF TypeOK
<1>4. DataOK'
  BY <1>0, <1>1 DEF DataOK, TypeOK
<1>5. \A h \in Goroutines : CallFits(h)'
  <2>1. CallFits(g)'
    BY <1>1, <1>2, <1>3 DEF CallFits, FastPath
  <2>2. ASSUME NEW h \in Goroutines \ {g}  PROVE  CallFits(h)'
    BY <1>0, <1>1, <1>3 DEF CallFits
  <2>3. QED  BY <2>1, <2>2
<1>6. QueuesFit'
  <2>1. \A k \in Cases : On(k) \subseteq Goroutines
    BY <1>0, RangeIs DEF On, TypeOK
  <2>2. ASSUME NEW k \in Cases, NEW h \in On(k)'
        PROVE  pc'[h] \in {"parked", "awake"} /\ k \in op'[h].cases /\ (res'[h] # None => h \in selectDone')
    <3>1. CASE h = g
      BY <1>1, <1>2, <1>3, <2>2, <3>1
    <3>2. CASE h # g
      <4>1. h \in On(k) /\ h \in Goroutines
        BY <1>1, <2>1, <2>2, <3>2
      <4>2. pc[h] \in {"parked", "awake"} /\ k \in op[h].cases /\ (res[h] # None => h \in selectDone)
        BY <1>0, <4>1 DEF QueuesFit, On
      <4>3. QED  BY <1>1, <1>3, <3>2, <4>1, <4>2
    <3>3. QED  BY <3>1, <3>2
  <2>3. ASSUME NEW h \in Goroutines, Waiting(h)', NEW k \in op'[h].cases
        PROVE  h \in On(k)'
    <3>1. CASE h = g
      BY <1>1, <1>2, <3>1, <2>3
    <3>2. CASE h # g
      <4>1. Waiting(h) /\ k \in op[h].cases /\ op[h] # None
        BY <1>0, <1>1, <1>3, <2>3, <3>2 DEF Waiting, CallFits
      <4>2. k \in Cases
        BY <1>0, <4>1, CallsAre DEF TypeOK
      <4>3. h \in On(k) /\ h \notin selectDone
        BY <1>0, <4>1 DEF QueuesFit, On, Waiting
      <4>4. QED  BY <1>1, <4>2, <4>3
    <3>3. QED  BY <3>1, <3>2
  <2>4. ASSUME NEW h \in selectDone'
        PROVE  pc'[h] \in {"parked", "awake"} /\ res'[h] # None /\ IsSelect(op'[h])
    <3>1. h \in selectDone /\ h \in Goroutines \ {g}
      BY <1>0, <1>1, <1>2, <2>4 DEF TypeOK
    <3>2. QED  BY <1>0, <1>1, <1>3, <3>1 DEF QueuesFit
  <2>5. QED  BY <1>1, <2>2, <2>3, <2>4 DEF QueuesFit, On
<1>7. WakesFit'
  <2>1. ASSUME NEW x \in Goroutines, NEW i \in DOMAIN wake[x]
        PROVE  pc'[wake[x][i]] = "parked" /\ res'[wake[x][i]] # None
    <3>1. wake[x][i] \in Goroutines /\ pc[wake[x][i]] = "parked" /\ res[wake[x][i]] # None
      BY <1>0 DEF WakesFit, TypeOK
    <3>2. QED  BY <1>1, <1>2, <1>3, <3>1
  <2>2. \A x \in Goroutines : wake[x] # <<>> => pc'[x] = "done"
    BY <1>0, <1>2, <1>3 DEF WakesFit
  <2>3. QED  BY <1>0, <1>1, <2>1, <2>2 DEF WakesFit
<1>8. ASSUME NEW c \in Channels  PROVE  ChannelFits(c)'
  <2> DEFINE s == Send(c)
             r == Recv(c)
  <2>0. s \in Cases /\ r \in Cases /\ Peer(s) = r /\ Peer(r) = s /\ s[2] = c /\ r[2] = c /\ s[1] = "send" /\ r[1] = "recv"
    BY SidesOf
  <2>1. ChannelFits(c) /\ buf[c] \in Seq(Goroutines) /\ Cap[c] \in Nat /\ Len(buf[c]) \in Nat
    BY <1>0, ChanAssumption, RangeIs DEF NowFits, TypeOK
  <2>2. (buf[c] = <<>> <=> Len(buf[c]) = 0) /\ Len(buf[c]) <= Cap[c] /\ buf'[c] = buf[c] /\ closed'[c] = closed[c]
    BY <1>1, <2>1, RangeIs DEF ChannelFits
  <2>3. s \in op[g].cases => ~closed[c] /\ ~(Len(buf[c]) < Cap[c])
    BY <1>1, <2>0, ReadyIs
  <2>4. r \in op[g].cases => ~closed[c] /\ buf[c] = <<>>
    <3>1. r \in op[g].cases => ~Ready(r)
      BY <1>1
    <3>2. r[1] # "send"
      BY <2>0
    <3>3. QED  BY <2>0, <3>1, <3>2, ReadyIs
  <2> HIDE DEF s, r
  <2>5. CASE s \notin op[g].cases /\ r \notin op[g].cases
    <3>1. \A k \in {s, r} : waitq'[k] \in Seq(Goroutines) /\ On(k)' \subseteq On(k)
      BY <1>1, <2>0, <2>5
    <3>2. QED  BY <1>0, <2>1, <2>2, <3>1, ShrinkFits DEF s, r
  <2>6. CASE s \in op[g].cases /\ r \notin op[g].cases
    <3>1. waitq'[r] = <<>>
      BY <1>1, <2>0, <2>6
    <3>2. QED  BY <2>2, <2>3, <2>6, <3>1 DEF ChannelFits, s, r
  <2>7. CASE s \notin op[g].cases /\ r \in op[g].cases
    <3>1. waitq'[s] = <<>>
      BY <1>1, <2>0, <2>7
    <3>2. QED  BY <2>2, <2>4, <2>7, <3>1 DEF ChannelFits, s, r
  <2>8. CASE s \in op[g].cases /\ r \in op[g].cases
    <3>1. On(s)' \cup On(r)' = {g}
      BY <1>1, <2>0, <2>8
    <3>2. Cap[c] = 0 /\ buf[c] = <<>>
      BY <2>1, <2>2, <2>3, <2>4, <2>8
    <3>3. QED  BY <2>2, <2>3, <2>8, <3>1, <3>2 DEF ChannelFits, On, s, r
  <2>9. QED  BY <2>5, <2>6, <2>7, <2>8
<1>9. QED  BY <1>4, <1>5, <1>6, <1>7, <1>8 DEF StillFits

\* Two cases complete together: h no longer waits for its case.
LEMMA PairDoes ==
  ASSUME NowFits, NEW g \in Goroutines, pc[g] = "lock", NEW k \in op[g].cases,
         NEW polled \in SUBSET {j \in op[g].cases : ~Ready(j)}, Pair(g, k, polled)
  PROVE  LET c == k[2]
             p == Peer(k)
             h == waitq[p][First(p)]
             line == Append(buf[c], IF k[1] = "send" THEN g ELSE h)
             result(dir) == IF dir = "recv" THEN Head(line) ELSE None
         IN /\ c \in Channels /\ k \in Cases /\ p \in Cases /\ ~closed[c]
            /\ h \in Goroutines \ {g} /\ Waiting(h) /\ p \in op[h].cases /\ h \in On(p)
            /\ res' = [res EXCEPT ![g] = <<k, TRUE, result(k[1])>>, ![h] = <<p, TRUE, result(p[1])>>]
            /\ pc' = [pc EXCEPT ![g] = "done"] /\ wake' = [wake EXCEPT ![g] = <<h>>]
            /\ buf' = [buf EXCEPT ![c] = Tail(line)]
            /\ selectDone' = IF IsSelect(op[h]) THEN selectDone \cup {h} ELSE selectDone
            /\ waitq' \in [Cases -> Seq(Goroutines)]
            /\ \A j \in Cases : /\ IsInjective(waitq'[j]) /\ On(j)' \subseteq On(j)
                                /\ On(j) \ On(j)' \subseteq selectDone \cup {h}
                                /\ h \in On(j)' => j # p /\ IsSelect(op[h])
<1> DEFINE c == k[2]
           p == Peer(k)
           h == waitq[p][First(p)]
           line == Append(buf[c], IF k[1] = "send" THEN g ELSE h)
           result(dir) == IF dir = "recv" THEN Head(line) ELSE None
<1>0. TypeOK /\ QueuesFit /\ \A x \in Goroutines : CallFits(x)
  BY DEF NowFits
<1>1. op[g].cases \in SUBSET Cases
  BY LockedStarts
<1>2. /\ c \in Channels /\ k \in Cases /\ p \in Cases /\ (p = Send(c) \/ p = Recv(c))
  BY <1>1, CasesOf
<1>3. /\ Live(p) # {}
      /\ res' = [res EXCEPT ![g] = <<k, TRUE, result(k[1])>>, ![h] = <<p, TRUE, result(p[1])>>]
      /\ pc' = [pc EXCEPT ![g] = "done"] /\ wake' = [wake EXCEPT ![g] = <<h>>]
      /\ buf' = [buf EXCEPT ![c] = Tail(line)]
      /\ selectDone' = IF IsSelect(op[h]) THEN selectDone \cup {h} ELSE selectDone
      /\ waitq' = [Cleaned(polled) EXCEPT ![p] = Dequeued(p)]
  BY DEF Pair, Goto
<1>4. /\ h \in Goroutines /\ h \in On(p) \ selectDone
      /\ Dequeued(p) \in Seq(Goroutines) /\ IsInjective(Dequeued(p))
      /\ Range(Dequeued(p)) \subseteq On(p) \ {h}
      /\ On(p) \ Range(Dequeued(p)) \subseteq selectDone \cup {h}
  BY <1>0, <1>2, <1>3, DequeueDoes
<1>5. Waiting(h) /\ p \in op[h].cases
  BY <1>0, <1>2, <1>4, WaitersAre
<1>6. h # g
  BY <1>5 DEF Waiting
<1>7. ~closed[c]
  <2>1. waitq[p] # <<>>
    BY <1>0, <1>2, <1>4, QueuesType
  <2>2. ChannelFits(c)
    BY <1>2 DEF NowFits
  <2>3. QED  BY <1>2, <2>1, <2>2 DEF ChannelFits
<1> HIDE DEF c, p, h, line, result
<1>8. polled \in SUBSET Cases /\ \A j \in polled : Live(Peer(j)) = {}
  BY <1>1, ReadyIs
<1>9. ASSUME NEW j \in Cases
      PROVE  /\ waitq'[j] \in Seq(Goroutines) /\ IsInjective(waitq'[j]) /\ On(j)' \subseteq On(j)
             /\ On(j) \ On(j)' \subseteq selectDone \cup {h}
             /\ h \in On(j)' => j # p /\ IsSelect(op[h])
  <2>1. CASE j = p
    <3>1. waitq'[j] = Dequeued(p)
      BY <1>2, <1>3, <2>1 DEF Cleaned
    <3>2. On(j)' = Range(Dequeued(p))
      BY <3>1 DEF On
    <3>3. QED  BY <1>4, <2>1, <3>1, <3>2
  <2>2. CASE j # p
    <3>1. waitq'[j] = Cleaned(polled)[j]
      BY <1>3, <2>2 DEF Cleaned
    <3>2. On(j)' = Range(Cleaned(polled)[j])
      BY <3>1 DEF On
    <3>3. /\ Cleaned(polled)[j] \in Seq(Goroutines) /\ IsInjective(Cleaned(polled)[j])
          /\ Range(Cleaned(polled)[j]) \subseteq On(j)
          /\ On(j) \ Range(Cleaned(polled)[j]) \subseteq selectDone
      BY <1>8, CleanedDoes
    <3>4. h \in On(j) => IsSelect(op[h])
      <4> SUFFICES ASSUME h \in On(j), ~IsSelect(op[h])  PROVE  FALSE
        OBVIOUS
      <4>1. j \in op[h].cases
        BY <1>0 DEF QueuesFit, On
      <4>2. op[h] \in Calls
        BY <1>0, <1>4, <1>5 DEF TypeOK, CallFits, Waiting
      <4>3. QED  BY <1>5, <2>2, <4>1, <4>2, OneCase
    <3>5. QED  BY <2>2, <3>1, <3>2, <3>3, <3>4
  <2>3. QED  BY <2>1, <2>2
<1>10. waitq' \in [Cases -> Seq(Goroutines)]
  BY <1>3, <1>9 DEF Cleaned
<1>11. QED  BY <1>2, <1>3, <1>4, <1>5, <1>6, <1>7, <1>9, <1>10 DEF c, p, h, line, result

\* They keep the invariant: h is served, and g readies it, alone and once.
LEMMA PairKeeps ==
  ASSUME NowFits, NEW g \in Goroutines, pc[g] = "lock", NEW k \in op[g].cases,
         NEW polled \in SUBSET {j \in op[g].cases : ~Ready(j)}, Pair(g, k, polled),
         UNCHANGED <<op, closed>>
  PROVE  StillFits
<1> DEFINE c == k[2]
           p == Peer(k)
           first == waitq[p][First(p)]
           line == Append(buf[c], IF k[1] = "send" THEN g ELSE first)
           result(dir) == IF dir = "recv" THEN Head(line) ELSE None
<1>0. TypeOK /\ QueuesFit /\ WakesFit /\ \A x \in Goroutines : CallFits(x)
  BY DEF NowFits
<1>1. PICK h \in Goroutines \ {g} :
      /\ c \in Channels /\ k \in Cases /\ p \in Cases /\ ~closed[c]
      /\ h = first /\ Waiting(h) /\ p \in op[h].cases /\ h \in On(p)
      /\ res' = [res EXCEPT ![g] = <<k, TRUE, result(k[1])>>, ![h] = <<p, TRUE, result(p[1])>>]
      /\ pc' = [pc EXCEPT ![g] = "done"] /\ wake' = [wake EXCEPT ![g] = <<h>>]
      /\ buf' = [buf EXCEPT ![c] = Tail(line)]
      /\ selectDone' = IF IsSelect(op[h]) THEN selectDone \cup {h} ELSE selectDone
      /\ waitq' \in [Cases -> Seq(Goroutines)]
      /\ \A j \in Cases : /\ IsInjective(waitq'[j]) /\ On(j)' \subseteq On(j)
                          /\ On(j) \ On(j)' \subseteq selectDone \cup {h}
                          /\ h \in On(j)' => j # p /\ IsSelect(op[h])
  BY PairDoes
<1>2. /\ op[g] \in Calls /\ op[g] # None /\ res[g] = None
      /\ wake[g] = <<>> /\ g \notin selectDone /\ \A j \in Cases : g \notin On(j)
      /\ \A x \in Goroutines : \A i \in DOMAIN wake[x] : wake[x][i] # g
  BY LockedStarts, CallsAre
<1>3. /\ Tail(line) \in Seq(Goroutines) /\ Len(Tail(line)) = Len(buf[c]) /\ Head(line) \in Goroutines
  <2>1. buf[c] \in Seq(Goroutines) /\ (IF k[1] = "send" THEN g ELSE first) \in Goroutines
    BY <1>0, <1>1 DEF TypeOK
  <2>2. line \in Seq(Goroutines) /\ Len(line) = Len(buf[c]) + 1 /\ Len(buf[c]) \in Nat
    BY <2>1, AppendProperties
  <2> HIDE DEF line
  <2>3. line # <<>>
    <3>1. Len(line) # 0
      BY <2>2
    <3>2. QED  BY <2>2, <3>1, RangeIs
  <2>4. Tail(line) \in Seq(Goroutines) /\ Len(Tail(line)) = Len(line) - 1 /\ Head(line) \in Goroutines
    BY <2>2, <2>3, HeadTailProperties
  <2>5. QED  BY <2>2, <2>4
<1>4. \A dir : result(dir) \in Goroutines \cup {None}
  BY <1>3
<1> HIDE DEF c, p, first, line, result
<1>5. PICK r \in Results, q \in Results :
        /\ res' = [res EXCEPT ![g] = r, ![h] = q] /\ q[1] = p /\ q[2] = TRUE
  <2>1. <<k, TRUE, result(k[1])>> \in Results /\ <<p, TRUE, result(p[1])>> \in Results
    BY <1>1, <1>4 DEF Results
  <2>2. <<p, TRUE, result(p[1])>>[1] = p /\ <<p, TRUE, result(p[1])>>[2] = TRUE
    OBVIOUS
  <2>3. QED  BY <1>1, <2>1, <2>2
<1>6. r # None /\ q # None
  BY ChanAssumption
<1>7. /\ pc'[g] = "done" /\ \A x \in Goroutines \ {g} : pc'[x] = pc[x]
      /\ res'[g] = r /\ res'[h] = q /\ \A x \in Goroutines \ {g, h} : res'[x] = res[x]
      /\ wake'[g] = <<h>> /\ \A x \in Goroutines \ {g} : wake'[x] = wake[x]
  <2>1. pc'[g] = "done" /\ \A x \in Goroutines \ {g} : pc'[x] = pc[x]
    BY <1>0, <1>1 DEF TypeOK
  <2>2. res'[g] = r /\ res'[h] = q /\ \A x \in Goroutines \ {g, h} : res'[x] = res[x]
    BY <1>0, <1>5 DEF TypeOK
  <2>3. wake'[g] = <<h>> /\ \A x \in Goroutines \ {g} : wake'[x] = wake[x]
    BY <1>0, <1>1 DEF TypeOK
  <2>4. QED  BY <2>1, <2>2, <2>3
<1>8. pc[h] = "parked" /\ res[h] = None /\ h \in Goroutines /\ h # g
  BY <1>1 DEF Waiting
<1>9. DataOK'
  <2>1. buf' \in [Channels -> Seq(Goroutines)]
    BY <1>0, <1>1, <1>3 DEF TypeOK
  <2>2. res' \in [Goroutines -> Results \cup {None}]
    BY <1>0, <1>5 DEF TypeOK
  <2>3. wake' \in [Goroutines -> Seq(Goroutines)]
    <3>1. <<h>> \in Seq(Goroutines)
      BY <1>8
    <3>2. QED  BY <1>0, <1>1, <3>1 DEF TypeOK
  <2>4. selectDone' \subseteq Goroutines
    BY <1>0, <1>1, <1>8 DEF TypeOK
  <2>5. QED  BY <1>0, <1>1, <2>1, <2>2, <2>3, <2>4 DEF DataOK, TypeOK
<1>10. \A x \in Goroutines : CallFits(x)'
  <2>1. CallFits(g)'
    BY <1>2, <1>6, <1>7 DEF CallFits, FastPath
  <2>2. CallFits(h)'
    <3>1. CallFits(h)
      BY <1>0, <1>8
    <3>2. pc'[h] = "parked" /\ res'[h] = q
      BY <1>7, <1>8
    <3>3. QED  BY <1>1, <1>5, <1>8, <3>1, <3>2 DEF CallFits, FastPath
  <2>3. ASSUME NEW x \in Goroutines \ {g, h}  PROVE  CallFits(x)'
    BY <1>0, <1>7 DEF CallFits
  <2>4. QED  BY <2>1, <2>2, <2>3
<1>11. QueuesFit'
  <2>1. \A j \in Cases : On(j) \subseteq Goroutines
    BY <1>0, RangeIs DEF On, TypeOK
  <2>2. ASSUME NEW j \in Cases, NEW x \in On(j)'
        PROVE  pc'[x] \in {"parked", "awake"} /\ j \in op'[x].cases /\ (res'[x] # None => x \in selectDone')
    <3>1. x \in On(j) /\ x \in Goroutines /\ x # g
      BY <1>1, <1>2, <2>1
    <3>2. pc[x] \in {"parked", "awake"} /\ j \in op[x].cases /\ (res[x] # None => x \in selectDone)
      BY <1>0, <3>1 DEF QueuesFit, On
    <3>3. x = h => x \in selectDone'
      BY <1>1, <2>2
    <3>4. x # h => res'[x] = res[x]
      BY <1>7, <3>1
    <3>5. QED  BY <1>1, <1>7, <3>1, <3>2, <3>3, <3>4
  <2>3. ASSUME NEW x \in Goroutines, Waiting(x)', NEW j \in op'[x].cases
        PROVE  x \in On(j)'
    <3>1. x # g /\ x # h
      BY <1>6, <1>7, <2>3 DEF Waiting
    <3>2. Waiting(x) /\ j \in op[x].cases
      BY <1>7, <2>3, <3>1 DEF Waiting
    <3>3. op[x] # None
      BY <1>0, <3>2 DEF Waiting, CallFits
    <3>4. j \in Cases
      BY <1>0, <3>2, <3>3, CallsAre DEF TypeOK
    <3>5. x \in On(j) /\ x \notin selectDone
      BY <1>0, <3>2 DEF QueuesFit, On, Waiting
    <3>6. QED  BY <1>1, <3>1, <3>4, <3>5
  <2>4. ASSUME NEW x \in selectDone'
        PROVE  pc'[x] \in {"parked", "awake"} /\ res'[x] # None /\ IsSelect(op'[x])
    <3>1. CASE x = h /\ x \notin selectDone
      BY <1>1, <1>6, <1>7, <1>8, <2>4, <3>1
    <3>2. CASE x \in selectDone
      <4>1. x \in Goroutines /\ x # g
        BY <1>0, <1>2, <3>2 DEF TypeOK
      <4>2. pc[x] \in {"parked", "awake"} /\ res[x] # None /\ IsSelect(op[x])
        BY <1>0, <3>2 DEF QueuesFit
      <4>3. QED  BY <1>7, <1>8, <4>1, <4>2
    <3>3. QED  BY <1>1, <2>4, <3>1, <3>2
  <2>5. QED  BY <1>1, <2>2, <2>3, <2>4 DEF QueuesFit, On
<1>12. WakesFit'
  <2>1. \A x \in Goroutines : wake'[x] # <<>> => pc'[x] = "done"
    BY <1>0, <1>7 DEF WakesFit
  <2>2. DOMAIN <<h>> = {1} /\ <<h>>[1] = h
    OBVIOUS
  <2>3. ASSUME NEW x \in Goroutines \ {g}, NEW i \in DOMAIN wake[x]
        PROVE  wake[x][i] \in Goroutines \ {g, h} /\ pc[wake[x][i]] = "parked" /\ res[wake[x][i]] # None
    <3>1. wake[x][i] \in Goroutines /\ pc[wake[x][i]] = "parked" /\ res[wake[x][i]] # None /\ wake[x][i] # g
      BY <1>0, <1>2 DEF WakesFit, TypeOK
    <3>2. QED  BY <1>8, <3>1
  <2>4. ASSUME NEW x \in Goroutines, NEW i \in DOMAIN wake'[x]
        PROVE  pc'[wake'[x][i]] = "parked" /\ res'[wake'[x][i]] # None
    <3>1. CASE x = g
      BY <1>6, <1>7, <1>8, <2>2, <2>4, <3>1
    <3>2. CASE x # g
      <4>1. x \in Goroutines \ {g} /\ i \in DOMAIN wake[x] /\ wake'[x][i] = wake[x][i]
        BY <1>7, <2>4, <3>2
      <4>2. QED  BY <1>7, <2>3, <4>1
    <3>3. QED  BY <3>1, <3>2
  <2>5. ASSUME NEW x \in Goroutines, NEW y \in Goroutines, NEW i \in DOMAIN wake'[x], NEW j \in DOMAIN wake'[y],
               wake'[x][i] = wake'[y][j]
        PROVE  x = y /\ i = j
    <3>1. CASE x = g /\ y = g
      BY <1>7, <2>2, <2>5, <3>1
    <3>2. CASE x = g /\ y # g
      <4>1. y \in Goroutines \ {g} /\ j \in DOMAIN wake[y] /\ wake'[y][j] = wake[y][j]
        BY <1>7, <2>5, <3>2
      <4>2. wake'[x][i] = h
        BY <1>7, <2>2, <2>5, <3>2
      <4>3. wake[y][j] # h
        BY <2>3, <4>1
      <4>4. QED  BY <2>5, <4>1, <4>2, <4>3
    <3>3. CASE x # g /\ y = g
      <4>1. x \in Goroutines \ {g} /\ i \in DOMAIN wake[x] /\ wake'[x][i] = wake[x][i]
        BY <1>7, <2>5, <3>3
      <4>2. wake'[y][j] = h
        BY <1>7, <2>2, <2>5, <3>3
      <4>3. wake[x][i] # h
        BY <2>3, <4>1
      <4>4. QED  BY <2>5, <4>1, <4>2, <4>3
    <3>4. CASE x # g /\ y # g
      <4>1. wake'[x] = wake[x] /\ wake'[y] = wake[y]
        BY <1>7, <3>4
      <4>2. QED  BY <1>0, <2>5, <4>1 DEF WakesFit
    <3>5. QED  BY <3>1, <3>2, <3>3, <3>4
  <2>6. QED  BY <2>1, <2>4, <2>5 DEF WakesFit
<1>13. ASSUME NEW d \in Channels  PROVE  ChannelFits(d)'
  <2>1. ChannelFits(d)
    BY DEF NowFits
  <2>2. \A j \in {Send(d), Recv(d)} : waitq'[j] \in Seq(Goroutines) /\ On(j)' \subseteq On(j)
    BY <1>1, SidesOf
  <2>3. buf'[d] \in Seq(Goroutines) /\ Len(buf'[d]) = Len(buf[d])
    <3>1. CASE d = c
      BY <1>0, <1>1, <1>3, <3>1 DEF TypeOK
    <3>2. CASE d # c
      BY <1>0, <1>1, <3>2 DEF TypeOK
    <3>3. QED  BY <3>1, <3>2
  <2>4. QED  BY <1>0, <2>1, <2>2, <2>3, ShrinkFits
<1>14. QED  BY <1>9, <1>10, <1>11, <1>12, <1>13 DEF StillFits

\* chansend, chanrecv and selectgo under their locks.
LEMMA LockedKeeps ==
  ASSUME NowFits, NEW g \in Goroutines, pc[g] = "lock", Locked(g)
  PROVE  StillFits
<1>1. UNCHANGED <<op, closed>>
  BY DEF Locked
<1>2. Block(g) \/ \E k \in op[g].cases : \E polled \in SUBSET {j \in op[g].cases : ~Ready(j)} :
                    Ready(k) /\ (Complete(g, k, polled) \/ Pair(g, k, polled))
  BY DEF Locked
<1>3. QED  BY <1>1, <1>2, GiveUpKeeps, ParkKeeps, CompleteKeeps, PairKeeps

\* Pass 3: a select that has been served leaves the queues of its other cases.
LEMMA Pass3Keeps ==
  ASSUME NowFits, NEW g \in Goroutines, Pass3(g)
  PROVE  StillFits
<1>0. TypeOK /\ QueuesFit /\ WakesFit /\ CallFits(g)
  BY DEF NowFits
<1>1. /\ pc[g] = "awake" /\ selectDone' = selectDone \ {g} /\ waitq' = Unqueued(g)
      /\ pc' = [pc EXCEPT ![g] = IF res[g] = None \/ res[g][1] \notin op[g].cases THEN "throw" ELSE "done"]
      /\ UNCHANGED <<buf, closed, op, res, wake>>
  BY DEF Pass3, Goto
<1>2. /\ op[g] \in Calls /\ op[g] # None /\ res[g] # None /\ res[g][1] \in op[g].cases /\ wake[g] = <<>>
  BY <1>0, <1>1 DEF CallFits, WakesFit, TypeOK
<1>3. pc'[g] = "done" /\ \A h \in Goroutines \ {g} : pc'[h] = pc[h]
  BY <1>0, <1>1, <1>2 DEF TypeOK
<1>4. ASSUME NEW k \in Cases
      PROVE  waitq'[k] \in Seq(Goroutines) /\ IsInjective(waitq'[k]) /\ On(k)' = On(k) \ {g}
  <2>1. waitq[k] \in Seq(Goroutines) /\ IsInjective(waitq[k])
    BY <1>0, QueuesType
  <2>2. waitq'[k] = IF k \in op[g].cases /\ g \in On(k) THEN RemoveAt(waitq[k], Index(waitq[k], g)) ELSE waitq[k]
    BY <1>1 DEF Unqueued, On
  <2>3. g \in On(k) => k \in op[g].cases
    BY <1>0 DEF QueuesFit, On
  <2>4. CASE g \in On(k)
    <3>1. LET t == RemoveAt(waitq[k], Index(waitq[k], g)) IN
            t \in Seq(Goroutines) /\ IsInjective(t) /\ Range(t) = Range(waitq[k]) \ {g}
      BY <2>1, <2>4, RemoveOnce DEF On
    <3>2. QED  BY <2>2, <2>3, <2>4, <3>1 DEF On
  <2>5. CASE g \notin On(k)
    BY <2>1, <2>2, <2>5 DEF On
  <2>6. QED  BY <2>4, <2>5
<1>5. Shrinks(g)
  BY <1>1, <1>2, <1>3, <1>4 DEF Shrinks
<1>6. CallFits(g)'
  BY <1>1, <1>2, <1>3 DEF CallFits, FastPath
<1>7. waitq' \in [Cases -> Seq(Goroutines)]
  BY <1>1, <1>4 DEF Unqueued
<1>8. DataOK'
  BY <1>0, <1>1, <1>7 DEF DataOK, TypeOK
<1>9. ASSUME NEW d \in Channels  PROVE  ChannelFits(d)'
  <2>1. ChannelFits(d)
    BY DEF NowFits
  <2>2. \A j \in {Send(d), Recv(d)} : waitq'[j] \in Seq(Goroutines) /\ On(j)' \subseteq On(j)
    BY <1>4, SidesOf
  <2>3. QED  BY <1>0, <1>1, <2>1, <2>2, ShrinkFits DEF TypeOK
<1>10. QED  BY <1>5, <1>6, <1>8, <1>9, ShrinkKeeps DEF StillFits

\* sellock changes no channel.
LEMMA SelLockKeeps ==
  ASSUME NowFits, NEW g \in Goroutines, SelLock(g)
  PROVE  StillFits
<1>1. UNCHANGED <<chans, op, pc, res, wake>>
  BY DEF SelLock
<1>2. DataOK'
  BY <1>1 DEF NowFits, TypeOK, DataOK, chans
<1>3. QueuesFit' /\ WakesFit'
  BY <1>1 DEF NowFits, QueuesFit, WakesFit, Waiting, chans
<1>4. (\A c \in Channels : ChannelFits(c)') /\ \A h \in Goroutines : CallFits(h)'
  BY <1>1 DEF NowFits, ChannelFits, CallFits, chans
<1>5. QED  BY <1>2, <1>3, <1>4 DEF StillFits

\* goready: who is readied was served and waits to be readied, and is in no other list.
LEMMA WakeKeeps ==
  ASSUME NowFits, NEW g \in Goroutines, Wake(g)
  PROVE  StillFits
<1>0. TypeOK /\ QueuesFit /\ WakesFit /\ \A h \in Goroutines : CallFits(h)
  BY DEF NowFits
<1>1. wake[g] \in Seq(Goroutines) /\ wake[g] # <<>> /\ pc[g] = "done"
  BY <1>0 DEF Wake, TypeOK
<1>2. /\ Head(wake[g]) = wake[g][1] /\ 1 \in DOMAIN wake[g]
      /\ Tail(wake[g]) \in Seq(Goroutines)
      /\ \A i \in DOMAIN Tail(wake[g]) :
           Tail(wake[g])[i] = wake[g][i + 1] /\ i + 1 \in DOMAIN wake[g] /\ i + 1 # 1
  <2>1. Len(wake[g]) \in Nat /\ Len(wake[g]) # 0 /\ DOMAIN wake[g] = 1 .. Len(wake[g])
    BY <1>1, RangeIs
  <2>2. /\ Head(wake[g]) = wake[g][1] /\ Tail(wake[g]) \in Seq(Goroutines) /\ Len(Tail(wake[g])) = Len(wake[g]) - 1
        /\ \A i \in 1 .. Len(Tail(wake[g])) : Tail(wake[g])[i] = wake[g][i + 1]
    BY <1>1, HeadTailProperties
  <2>3. DOMAIN Tail(wake[g]) = 1 .. Len(wake[g]) - 1
    BY <2>2, RangeIs
  <2>4. QED  BY <2>1, <2>2, <2>3
<1>3. PICK h \in Goroutines : h = Head(wake[g])
  BY <1>1, <1>2
<1>4. pc[h] = "parked" /\ res[h] # None /\ h # g
  BY <1>0, <1>1, <1>2, <1>3 DEF WakesFit
<1>5. /\ pc' = [pc EXCEPT ![h] = "awake"] /\ wake' = [wake EXCEPT ![g] = Tail(wake[g])]
      /\ UNCHANGED <<buf, closed, waitq, selectDone, op, res>>
  BY <1>3, <1>4 DEF Wake, Goto, chans
<1>6. pc'[h] = "awake" /\ \A x \in Goroutines \ {h} : pc'[x] = pc[x]
  BY <1>0, <1>5 DEF TypeOK
<1>7. wake'[g] = Tail(wake[g]) /\ \A x \in Goroutines \ {g} : wake'[x] = wake[x]
  BY <1>0, <1>5 DEF TypeOK
<1>8. DataOK'
  BY <1>0, <1>2, <1>5 DEF DataOK, TypeOK
<1>9. \A c \in Channels : ChannelFits(c)'
  BY <1>5 DEF NowFits, ChannelFits
<1>10. \A x \in Goroutines : CallFits(x)'
  <2>1. CallFits(h)'
    BY <1>0, <1>4, <1>5, <1>6 DEF CallFits, FastPath
  <2>2. ASSUME NEW x \in Goroutines \ {h}  PROVE  CallFits(x)'
    BY <1>0, <1>5, <1>6 DEF CallFits
  <2>3. QED  BY <2>1, <2>2
<1>11. QueuesFit'
  <2>1. ASSUME NEW k \in Cases, NEW x \in On(k)'
        PROVE  pc'[x] \in {"parked", "awake"} /\ k \in op'[x].cases /\ (res'[x] # None => x \in selectDone')
    <3>1. x \in On(k) /\ x \in Goroutines
      BY <1>0, <1>5, <2>1, RangeIs DEF On, TypeOK
    <3>2. pc[x] \in {"parked", "awake"} /\ k \in op[x].cases /\ (res[x] # None => x \in selectDone)
      BY <1>0, <3>1 DEF QueuesFit, On
    <3>3. QED  BY <1>5, <1>6, <3>1, <3>2
  <2>2. ASSUME NEW x \in Goroutines, Waiting(x)'  PROVE  \A k \in op'[x].cases : x \in On(k)'
    <3>1. Waiting(x)
      BY <1>5, <1>6, <2>2 DEF Waiting
    <3>2. QED  BY <1>0, <1>5, <3>1 DEF QueuesFit, On
  <2>3. ASSUME NEW x \in selectDone'
        PROVE  pc'[x] \in {"parked", "awake"} /\ res'[x] # None /\ IsSelect(op'[x])
    <3>1. x \in Goroutines /\ pc[x] \in {"parked", "awake"} /\ res[x] # None /\ IsSelect(op[x])
      BY <1>0, <1>5 DEF QueuesFit, TypeOK
    <3>2. QED  BY <1>5, <1>6, <3>1
  <2>4. \A k \in Cases : IsInjective(waitq'[k])
    BY <1>0, <1>5 DEF QueuesFit
  <2>5. QED  BY <2>1, <2>2, <2>3, <2>4 DEF QueuesFit, On
<1>12. WakesFit'
  <2>1. ASSUME NEW x \in Goroutines, NEW i \in DOMAIN wake'[x]
        PROVE  \E j \in DOMAIN wake[x] : /\ wake'[x][i] = wake[x][j] /\ wake[x][j] # h
                                         /\ j = (IF x = g THEN i + 1 ELSE i)
    <3>1. CASE x = g
      <4>1. i + 1 \in DOMAIN wake[x] /\ wake'[x][i] = wake[x][i + 1] /\ i + 1 # 1
        BY <1>2, <1>7, <2>1, <3>1
      <4>2. wake[x][i + 1] # h
        BY <1>0, <1>2, <1>3, <3>1, <4>1 DEF WakesFit
      <4>3. QED  BY <3>1, <4>1, <4>2
    <3>2. CASE x # g
      <4>1. i \in DOMAIN wake[x] /\ wake'[x][i] = wake[x][i]
        BY <1>7, <2>1, <3>2
      <4>2. wake[x][i] # h
        BY <1>0, <1>2, <1>3, <3>2, <4>1 DEF WakesFit
      <4>3. QED  BY <3>2, <4>1, <4>2
    <3>3. QED  BY <3>1, <3>2
  <2>2. \A x \in Goroutines : wake'[x] # <<>> => pc'[x] = "done"
    <3>1. wake[h] = <<>>
      BY <1>0, <1>4 DEF WakesFit
    <3>2. QED  BY <1>0, <1>1, <1>4, <1>6, <1>7, <3>1 DEF WakesFit
  <2>3. ASSUME NEW x \in Goroutines, NEW i \in DOMAIN wake'[x]
        PROVE  pc'[wake'[x][i]] = "parked" /\ res'[wake'[x][i]] # None
    <3>1. PICK j \in DOMAIN wake[x] : wake'[x][i] = wake[x][j] /\ wake[x][j] # h
      BY <2>1
    <3>2. wake[x][j] \in Goroutines /\ pc[wake[x][j]] = "parked" /\ res[wake[x][j]] # None
      BY <1>0 DEF WakesFit, TypeOK
    <3>3. QED  BY <1>5, <1>6, <3>1, <3>2
  <2>4. ASSUME NEW x \in Goroutines, NEW y \in Goroutines, NEW i \in DOMAIN wake'[x], NEW j \in DOMAIN wake'[y],
               wake'[x][i] = wake'[y][j]
        PROVE  x = y /\ i = j
    <3>1. PICK a \in DOMAIN wake[x] : wake'[x][i] = wake[x][a] /\ a = (IF x = g THEN i + 1 ELSE i)
      BY <2>1
    <3>2. PICK b \in DOMAIN wake[y] : wake'[y][j] = wake[y][b] /\ b = (IF y = g THEN j + 1 ELSE j)
      BY <2>1
    <3>3. x = y /\ a = b
      <4>1. wake[x][a] = wake[y][b]
        BY <2>4, <3>1, <3>2
      <4>2. \A v, w \in Goroutines : \A m \in DOMAIN wake[v], n \in DOMAIN wake[w] :
              wake[v][m] = wake[w][n] => v = w /\ m = n
        BY <1>0 DEF WakesFit
      <4>3. QED  BY ONLY <4>1, <4>2, a \in DOMAIN wake[x], b \in DOMAIN wake[y], x \in Goroutines, y \in Goroutines
    <3>4. i \in Nat /\ j \in Nat
      <4>1. \A z \in Goroutines : DOMAIN wake'[z] \subseteq Nat
        <5>1. \A z \in Goroutines : wake'[z] \in Seq(Goroutines)
          BY <1>8 DEF DataOK
        <5>2. QED  BY <5>1, RangeIs
      <4>2. QED  BY <4>1
    <3>5. QED  BY <3>1, <3>2, <3>3, <3>4
  <2>5. QED  BY <2>2, <2>3, <2>4 DEF WakesFit
<1>13. QED  BY <1>8, <1>9, <1>10, <1>11, <1>12 DEF StillFits

\* closechan: who waits on the channel is told that it has been closed.
LEMMA CloseDoes ==
  ASSUME NowFits, NEW g \in Goroutines, NEW c \in Channels, Close(g, c)
  PROVE  /\ pc[g] = "idle" /\ ~closed[c] /\ closed' = [closed EXCEPT ![c] = TRUE]
         /\ waitq' = [waitq EXCEPT ![Recv(c)] = <<>>, ![Send(c)] = <<>>]
         /\ Released(c) = {h \in Goroutines : Waiting(h) /\ (Send(c) \in op[h].cases \/ Recv(c) \in op[h].cases)}
         /\ g \notin Released(c)
         /\ \E side \in [Goroutines -> {Send(c), Recv(c)}] :
              /\ \A h \in Released(c) : side[h] \in op[h].cases
              /\ res' = [h \in Goroutines |-> IF h \in Released(c) THEN <<side[h], FALSE, None>> ELSE res[h]]
         /\ selectDone' = selectDone \cup {h \in Released(c) : IsSelect(op[h])}
         /\ pc' = [pc EXCEPT ![g] = "done"] /\ UNCHANGED <<buf, op>>
         /\ \E glist \in Seq(Goroutines) :
              /\ IsInjective(glist) /\ Range(glist) = Released(c) /\ wake' = [wake EXCEPT ![g] = glist]
<1>0. TypeOK /\ QueuesFit /\ \A h \in Goroutines : CallFits(h)
  BY DEF NowFits
<1>1. /\ pc[g] = "idle" /\ ~closed[c] /\ closed' = [closed EXCEPT ![c] = TRUE]
      /\ waitq' = [waitq EXCEPT ![Recv(c)] = <<>>, ![Send(c)] = <<>>]
      /\ selectDone' = selectDone \cup {h \in Released(c) : IsSelect(op[h])}
      /\ pc' = [pc EXCEPT ![g] = "done"] /\ UNCHANGED <<buf, op>>
  BY DEF Close, Goto
<1>2. Send(c) \in Cases /\ Recv(c) \in Cases
  BY SidesOf
<1>3. \A k \in {Send(c), Recv(c)} : /\ Waiters(k) = {h \in Goroutines : Waiting(h) /\ k \in op[h].cases}
                                    /\ Waiters(k) = On(k) \ selectDone
  BY <1>0, <1>2, WaitersAre
<1>4. Released(c) = {h \in Goroutines : Waiting(h) /\ (Send(c) \in op[h].cases \/ Recv(c) \in op[h].cases)}
  BY <1>3 DEF Released
<1>5. g \notin Released(c)
  BY <1>1, <1>4 DEF Waiting
<1>6. \E side \in [Goroutines -> {Send(c), Recv(c)}] :
         /\ \A h \in Released(c) : side[h] \in op[h].cases
         /\ res' = [h \in Goroutines |-> IF h \in Released(c) THEN <<side[h], FALSE, None>> ELSE res[h]]
  <2> DEFINE s == [h \in Goroutines |-> IF h \in Waiters(Recv(c)) THEN Recv(c) ELSE Send(c)]
  <2>1. res' = [h \in Goroutines |-> IF h \in Released(c) THEN <<s[h], FALSE, None>> ELSE res[h]]
    BY <1>4 DEF Close
  <2>2. s \in [Goroutines -> {Send(c), Recv(c)}]
    OBVIOUS
  <2>3. \A h \in Released(c) : s[h] \in op[h].cases
    BY <1>3, <1>4
  <2> HIDE DEF s
  <2>4. QED  BY <2>1, <2>2, <2>3
<1>7. \E glist \in Seq(Goroutines) :
         /\ IsInjective(glist) /\ Range(glist) = Released(c) /\ wake' = [wake EXCEPT ![g] = glist]
  <2>1. PICK len \in 0 .. Len(waitq[Recv(c)]) + Len(waitq[Send(c)]) :
          \E glist \in [1 .. len -> Released(c)] :
            /\ Range(glist) = Released(c)
            /\ \A i, j \in 1 .. len : i < j => Place(c, glist[j]) < Place(c, glist[i])
            /\ wake' = [wake EXCEPT ![g] = glist]
    BY DEF Close
  <2>2. PICK glist \in [1 .. len -> Released(c)] :
            /\ Range(glist) = Released(c)
            /\ \A i, j \in 1 .. len : i < j => Place(c, glist[j]) < Place(c, glist[i])
            /\ wake' = [wake EXCEPT ![g] = glist]
    BY <2>1
  <2>3. waitq[Recv(c)] \in Seq(Goroutines) /\ waitq[Send(c)] \in Seq(Goroutines)
    BY <1>0, <1>2, QueuesType
  <2>4. Len(waitq[Recv(c)]) \in Nat /\ Len(waitq[Send(c)]) \in Nat
    BY <2>3, RangeIs
  <2>5. len \in Nat
    BY <2>1, <2>4
  <2>6. Released(c) \subseteq Goroutines
    BY <1>4
  <2>7. glist \in Seq(Goroutines)
    BY <2>2, <2>5, <2>6
  <2>8. \A s \in Seq(Goroutines) : \A h \in Range(s) : Index(s, h) \in Nat
    <3> SUFFICES ASSUME NEW s \in Seq(Goroutines), NEW h \in Range(s)  PROVE  Index(s, h) \in Nat
      OBVIOUS
    <3>1. DOMAIN s = 1 .. Len(s)
      BY RangeIs
    <3>2. \E i \in DOMAIN s : s[i] = h
      BY DEF Range
    <3>3. Index(s, h) \in DOMAIN s
      BY <3>2 DEF Index
    <3>4. QED  BY <3>1, <3>3
  <2>9. \A h \in Released(c) : Place(c, h) \in Nat
    <3> SUFFICES ASSUME NEW h \in Released(c)  PROVE  Place(c, h) \in Nat
      OBVIOUS
    <3>1. CASE h \in Waiters(Recv(c))
      <4>1. h \in Range(waitq[Recv(c)])
        BY <1>3, <3>1 DEF On
      <4>2. Index(waitq[Recv(c)], h) \in Nat
        BY <2>3, <2>8, <4>1
      <4>3. QED  BY <3>1, <4>2 DEF Place
    <3>2. CASE h \notin Waiters(Recv(c))
      <4>1. h \in Range(waitq[Send(c)])
        BY <1>3, <3>2 DEF On, Released
      <4>2. Index(waitq[Send(c)], h) \in Nat
        BY <2>3, <2>8, <4>1
      <4>3. QED  BY <2>4, <3>2, <4>2 DEF Place
    <3>3. QED  BY <3>1, <3>2
  <2>10. IsInjective(glist)
    <3> SUFFICES ASSUME NEW i \in 1 .. len, NEW j \in 1 .. len, glist[i] = glist[j], i # j  PROVE  FALSE
      BY <2>2 DEF IsInjective
    <3>1. Place(c, glist[i]) \in Nat
      BY <2>2, <2>9
    <3>2. Place(c, glist[i]) < Place(c, glist[i])
      <4>1. i < j \/ j < i
        BY <2>5
      <4>2. i < j => Place(c, glist[j]) < Place(c, glist[i])
        BY <2>2
      <4>3. j < i => Place(c, glist[i]) < Place(c, glist[j])
        BY <2>2
      <4>4. QED  BY <4>1, <4>2, <4>3
    <3>3. QED  BY <3>1, <3>2
  <2>11. QED  BY <2>2, <2>7, <2>10
<1>8. QED  BY <1>1, <1>4, <1>5, <1>6, <1>7

\* It keeps the invariant: who waited has been served, and g readies each once.
LEMMA CloseKeeps ==
  ASSUME NowFits, NEW g \in Goroutines, NEW c \in Channels, Close(g, c)
  PROVE  StillFits
<1> DEFINE R == Released(c)
<1>0. TypeOK /\ QueuesFit /\ WakesFit /\ \A x \in Goroutines : CallFits(x)
  BY DEF NowFits
<1>1. /\ pc[g] = "idle" /\ ~closed[c] /\ closed' = [closed EXCEPT ![c] = TRUE]
      /\ waitq' = [waitq EXCEPT ![Recv(c)] = <<>>, ![Send(c)] = <<>>]
      /\ R = {h \in Goroutines : Waiting(h) /\ (Send(c) \in op[h].cases \/ Recv(c) \in op[h].cases)}
      /\ g \notin R
      /\ selectDone' = selectDone \cup {h \in R : IsSelect(op[h])}
      /\ pc' = [pc EXCEPT ![g] = "done"] /\ UNCHANGED <<buf, op>>
  BY CloseDoes
<1>2. PICK side \in [Goroutines -> {Send(c), Recv(c)}] :
         /\ \A h \in R : side[h] \in op[h].cases
         /\ res' = [h \in Goroutines |-> IF h \in R THEN <<side[h], FALSE, None>> ELSE res[h]]
  BY CloseDoes
<1>3. PICK glist \in Seq(Goroutines) :
         IsInjective(glist) /\ Range(glist) = R /\ wake' = [wake EXCEPT ![g] = glist]
  BY CloseDoes
<1> HIDE DEF R
<1>4. /\ Send(c) \in Cases /\ Recv(c) \in Cases /\ Send(c)[2] = c /\ Recv(c)[2] = c
      /\ \A k \in Cases : k[2] = c => k = Send(c) \/ k = Recv(c)
  BY SidesOf, CasesOf
<1>5. ASSUME NEW h \in R
      PROVE  /\ res'[h] \in Results /\ res'[h] # None /\ res'[h][1] = side[h] /\ res'[h][2] = FALSE
             /\ side[h][2] = c /\ h \in Goroutines /\ h # g /\ pc[h] = "parked" /\ res[h] = None /\ op[h] \in Calls
  <2>1. h \in Goroutines /\ h # g /\ pc[h] = "parked" /\ res[h] = None
    BY <1>1 DEF Waiting
  <2>2. res'[h] = <<side[h], FALSE, None>> /\ side[h] \in Cases /\ side[h][2] = c
    BY <1>2, <1>4, <2>1
  <2>3. res'[h] \in Results
    <3>1. \A k \in Cases : <<k, FALSE, None>> \in Results
      BY DEF Results
    <3>2. QED  BY <2>2, <3>1
  <2>4. op[h] \in Calls
    BY <1>0, <2>1 DEF TypeOK, CallFits
  <2>5. res'[h] # None
    BY <2>3, ChanAssumption
  <2>6. res'[h][1] = side[h] /\ res'[h][2] = FALSE
    BY <2>2
  <2>7. QED  BY <2>1, <2>2, <2>3, <2>4, <2>5, <2>6
<1>6. \A x \in Goroutines \ R : res'[x] = res[x]
  BY <1>2
<1>7. /\ pc'[g] = "done" /\ \A x \in Goroutines \ {g} : pc'[x] = pc[x]
      /\ wake'[g] = glist /\ \A x \in Goroutines \ {g} : wake'[x] = wake[x]
      /\ closed'[c] = TRUE /\ \A d \in Channels \ {c} : closed'[d] = closed[d]
      /\ waitq'[Send(c)] = <<>> /\ waitq'[Recv(c)] = <<>>
      /\ \A k \in Cases \ {Send(c), Recv(c)} : waitq'[k] = waitq[k]
  BY <1>0, <1>1, <1>3, <1>4 DEF TypeOK
<1>8. op[g] = None /\ res[g] = None /\ wake[g] = <<>> /\ g \notin selectDone /\ \A k \in Cases : g \notin On(k)
  BY <1>0, <1>1, NotThere DEF CallFits, WakesFit
<1>9. R \subseteq Goroutines /\ R \cap selectDone = {}
  <2>1. \A h \in R : h \in Goroutines /\ h \notin selectDone
    BY <1>0, <1>5 DEF QueuesFit
  <2>2. QED  BY <2>1
<1>10. DataOK'
  <2>1. res' \in [Goroutines -> Results \cup {None}]
    BY <1>0, <1>2, <1>5 DEF TypeOK
  <2>2. waitq' \in [Cases -> Seq(Goroutines)]
    BY <1>0, <1>1, EmptyOnce DEF TypeOK
  <2>3. wake' \in [Goroutines -> Seq(Goroutines)] /\ closed' \in [Channels -> BOOLEAN] /\ selectDone' \subseteq Goroutines
    BY <1>0, <1>1, <1>3, <1>9 DEF TypeOK
  <2>4. QED  BY <1>0, <1>1, <2>1, <2>2, <2>3 DEF DataOK, TypeOK
<1>11. ASSUME NEW x \in Goroutines  PROVE  CallFits(x)'
  <2>1. CallFits(x) /\ op'[x] = op[x]
    BY <1>0, <1>1
  <2>2. CASE x = g
    <3>1. res'[g] = None /\ op'[g] = None /\ pc'[g] = "done"
      BY <1>1, <1>6, <1>7, <1>8
    <3>2. QED  BY <2>2, <3>1 DEF CallFits, FastPath
  <2>3. CASE x \in R
    <3>1. pc'[x] = "parked" /\ op'[x] = op[x] /\ op[x] # None /\ op[x].block
      BY <1>5, <1>7, <2>1, <2>3, CallsAre DEF CallFits
    <3>2. res'[x] # None /\ res'[x][1] \in op'[x].cases /\ closed'[res'[x][1][2]]
      BY <1>2, <1>5, <1>7, <2>1, <2>3
    <3>3. QED  BY <3>1, <3>2 DEF CallFits, FastPath
  <2>4. CASE x \in Goroutines \ (R \cup {g})
    <3>1. pc'[x] = pc[x] /\ res'[x] = res[x]
      BY <1>6, <1>7, <2>4
    <3>2. \A d : closed[d] /\ d \in Channels => closed'[d]
      BY <1>7
    <3>3. pc[x] \in {"parked", "awake"} /\ res[x] # None => res[x][1][2] \in Channels
      <4> SUFFICES ASSUME pc[x] \in {"parked", "awake"}, res[x] # None  PROVE  res[x][1][2] \in Channels
        OBVIOUS
      <4>1. op[x] \in Calls /\ res[x][1] \in op[x].cases
        BY <1>0, <2>1 DEF TypeOK, CallFits
      <4>2. res[x][1] \in Cases
        BY <4>1, CallsAre
      <4>3. QED  BY <4>2 DEF Cases
    <3>4. QED  BY <2>1, <3>1, <3>2, <3>3 DEF CallFits
  <2>5. QED  BY <2>2, <2>3, <2>4
<1>12. QueuesFit'
  <2>1. \A k \in Cases : IsInjective(waitq'[k])
    BY <1>0, <1>7, EmptyOnce DEF QueuesFit
  <2>2. ASSUME NEW k \in Cases, NEW x \in On(k)'
        PROVE  pc'[x] \in {"parked", "awake"} /\ k \in op'[x].cases /\ (res'[x] # None => x \in selectDone')
    <3>1. k \notin {Send(c), Recv(c)}
      BY <1>7, <2>2, EmptyOnce DEF On
    <3>2. x \in On(k)
      BY <1>7, <2>2, <3>1 DEF On
    <3>3. x \in Goroutines /\ x # g
      BY <1>0, <1>8, <3>2, RangeIs DEF On, TypeOK
    <3>4. pc[x] \in {"parked", "awake"} /\ k \in op[x].cases /\ (res[x] # None => x \in selectDone)
      BY <1>0, <3>2 DEF QueuesFit, On
    <3>5. x \in R => x \in selectDone'
      <4> SUFFICES ASSUME x \in R  PROVE  IsSelect(op[x])
        BY <1>1
      <4>1. side[x] \in op[x].cases /\ side[x] # k /\ op[x] \in Calls
        BY <1>2, <1>4, <1>5, <3>1
      <4>2. QED  BY <3>4, <4>1, OneCase
    <3>6. QED  BY <1>1, <1>6, <1>7, <3>3, <3>4, <3>5
  <2>3. ASSUME NEW x \in Goroutines, Waiting(x)', NEW k \in op'[x].cases
        PROVE  x \in On(k)'
    <3>1. x # g /\ x \notin R
      BY <1>5, <1>7, <2>3 DEF Waiting
    <3>2. Waiting(x) /\ k \in op[x].cases
      BY <1>1, <1>6, <1>7, <2>3, <3>1 DEF Waiting
    <3>3. k \in Cases
      <4>1. op[x] \in Calls
        BY <1>0, <3>2 DEF TypeOK, CallFits, Waiting
      <4>2. QED  BY <3>2, <4>1, CallsAre
    <3>4. k # Send(c) /\ k # Recv(c)
      BY <1>1, <3>1, <3>2
    <3>5. x \in On(k)
      BY <1>0, <3>2 DEF QueuesFit, On
    <3>6. QED  BY <1>7, <3>3, <3>4, <3>5 DEF On
  <2>4. ASSUME NEW x \in selectDone'
        PROVE  pc'[x] \in {"parked", "awake"} /\ res'[x] # None /\ IsSelect(op'[x])
    <3>1. CASE x \in selectDone
      <4>1. x \in Goroutines /\ x # g /\ x \notin R
        BY <1>0, <1>8, <1>9, <3>1 DEF TypeOK
      <4>2. pc[x] \in {"parked", "awake"} /\ res[x] # None /\ IsSelect(op[x])
        BY <1>0, <3>1 DEF QueuesFit
      <4>3. QED  BY <1>1, <1>6, <1>7, <4>1, <4>2
    <3>2. CASE x \notin selectDone
      <4>1. x \in R /\ IsSelect(op[x])
        BY <1>1, <2>4, <3>2
      <4>2. res'[x] # None /\ pc[x] = "parked" /\ x \in Goroutines \ {g}
        BY <1>5, <4>1
      <4>3. pc'[x] = "parked" /\ op'[x] = op[x]
        BY <1>1, <1>7, <4>2
      <4>4. QED  BY <4>1, <4>2, <4>3
    <3>3. QED  BY <3>1, <3>2
  <2>5. QED  BY <2>1, <2>2, <2>3, <2>4 DEF QueuesFit, On
<1>13. WakesFit'
  <2>1. \A x \in Goroutines : wake'[x] # <<>> => pc'[x] = "done"
    BY <1>0, <1>7 DEF WakesFit
  <2>2. \A i \in DOMAIN glist : glist[i] \in R
    BY <1>3 DEF Range
  <2>3. ASSUME NEW x \in Goroutines \ {g}, NEW i \in DOMAIN wake[x]
        PROVE  wake[x][i] \in Goroutines \ (R \cup {g}) /\ pc[wake[x][i]] = "parked" /\ res[wake[x][i]] # None
    <3>1. wake[x][i] \in Goroutines /\ pc[wake[x][i]] = "parked" /\ res[wake[x][i]] # None
      BY <1>0 DEF WakesFit, TypeOK
    <3>2. QED  BY <1>5, <1>8, <3>1
  <2>4. ASSUME NEW x \in Goroutines, NEW i \in DOMAIN wake'[x]
        PROVE  pc'[wake'[x][i]] = "parked" /\ res'[wake'[x][i]] # None
    <3>1. CASE x = g
      <4>1. wake'[x][i] \in R
        BY <1>7, <2>2, <2>4, <3>1
      <4>2. \A y \in R : pc'[y] = "parked" /\ res'[y] # None
        BY <1>5, <1>7
      <4>3. QED  BY <4>1, <4>2
    <3>2. CASE x # g
      <4>1. x \in Goroutines \ {g} /\ i \in DOMAIN wake[x] /\ wake'[x][i] = wake[x][i]
        BY <1>7, <2>4, <3>2
      <4>2. QED  BY <1>6, <1>7, <2>3, <4>1
    <3>3. QED  BY <3>1, <3>2
  <2>5. ASSUME NEW x \in Goroutines, NEW y \in Goroutines, NEW i \in DOMAIN wake'[x], NEW j \in DOMAIN wake'[y],
               wake'[x][i] = wake'[y][j]
        PROVE  x = y /\ i = j
    <3>1. CASE x = g /\ y = g
      <4>1. i \in DOMAIN glist /\ j \in DOMAIN glist /\ glist[i] = glist[j]
        BY <1>7, <2>5, <3>1
      <4>2. i = j
        BY <1>3, <4>1 DEF IsInjective
      <4>3. QED  BY <3>1, <4>2
    <3>2. CASE x = g /\ y # g
      <4>1. y \in Goroutines \ {g} /\ j \in DOMAIN wake[y] /\ wake'[y][j] = wake[y][j]
        BY <1>7, <2>5, <3>2
      <4>2. wake'[x][i] \in R
        BY <1>7, <2>2, <2>5, <3>2
      <4>3. wake[y][j] \notin R
        BY <2>3, <4>1
      <4>4. QED  BY <2>5, <4>1, <4>2, <4>3
    <3>3. CASE x # g /\ y = g
      <4>1. x \in Goroutines \ {g} /\ i \in DOMAIN wake[x] /\ wake'[x][i] = wake[x][i]
        BY <1>7, <2>5, <3>3
      <4>2. wake'[y][j] \in R
        BY <1>7, <2>2, <2>5, <3>3
      <4>3. wake[x][i] \notin R
        BY <2>3, <4>1
      <4>4. QED  BY <2>5, <4>1, <4>2, <4>3
    <3>4. CASE x # g /\ y # g
      <4>1. wake'[x] = wake[x] /\ wake'[y] = wake[y]
        BY <1>7, <3>4
      <4>2. QED  BY <1>0, <2>5, <4>1 DEF WakesFit
    <3>5. QED  BY <3>1, <3>2, <3>3, <3>4
  <2>6. QED  BY <2>1, <2>4, <2>5 DEF WakesFit
<1>14. ASSUME NEW d \in Channels  PROVE  ChannelFits(d)'
  <2>1. ChannelFits(d)
    BY DEF NowFits
  <2>2. CASE d = c
    BY <1>1, <1>7, <2>1, <2>2, NobodyFits DEF ChannelFits
  <2>3. CASE d # c
    <3>1. closed'[d] = closed[d] /\ buf'[d] \in Seq(Goroutines) /\ Len(buf'[d]) = Len(buf[d])
      BY <1>0, <1>1, <1>7, <2>3 DEF TypeOK
    <3>2. \A j \in {Send(d), Recv(d)} : waitq'[j] \in Seq(Goroutines) /\ On(j)' \subseteq On(j)
      <4>1. \A j \in {Send(d), Recv(d)} : j \in Cases \ {Send(c), Recv(c)}
        BY <1>4, <2>3, SidesOf
      <4>2. QED  BY <1>0, <1>7, <4>1 DEF On, TypeOK
    <3>3. QED  BY <1>0, <2>1, <3>1, <3>2, ShrinkFits
  <2>4. QED  BY <2>2, <2>3
<1>15. QED  BY <1>10, <1>11, <1>12, <1>13, <1>14 DEF StillFits

\* Every step keeps what does not depend on the history.
LEMMA StepKeeps ==
  ASSUME NowFits, NEW g \in Goroutines, Step(g)
  PROVE  StillFits
<1>1. CASE SendRecv(g) \/ Select(g)
  <2>1. pc[g] = "lock" /\ Locked(g)
    BY <1>1 DEF SendRecv, Select
  <2>2. QED  BY <2>1, LockedKeeps
<1>2. CASE QuietStep(g)
  BY <1>2, QuietKeeps
<1>3. QED  BY <1>1, <1>2, CloseKeeps, SelLockKeeps, Pass3Keeps, WakeKeeps DEF Step, QuietStep

-----------------------------------------------------------------------------
(* What the calls that give up have seen. *)

\* A channel stays closed, and nothing is added to its buffer once it is.
LEMMA BufferMoves ==
  ASSUME NowFits, NEW g \in Goroutines, Step(g), NEW c \in Channels
  PROVE  /\ closed[c] => closed'[c] /\ Len(buf'[c]) <= Len(buf[c])
         /\ ~closed[c] /\ closed'[c] => buf'[c] = buf[c]
<1>0. TypeOK /\ Len(buf[c]) \in Nat
  BY RangeIs DEF NowFits, TypeOK
<1>1. CASE \E d \in Channels : Close(g, d)
  <2>1. PICK d \in Channels : Close(g, d)
    BY <1>1
  <2>2. buf' = buf /\ closed' = [closed EXCEPT ![d] = TRUE]
    BY <2>1 DEF Close
  <2>3. QED  BY <1>0, <2>2 DEF TypeOK
<1>2. CASE SendRecv(g) \/ Select(g)
  <2>1. pc[g] = "lock" /\ Locked(g) /\ closed' = closed
    BY <1>2 DEF SendRecv, Select, Locked
  <2>2. CASE Block(g)
    BY <1>0, <2>1, <2>2 DEF Block
  <2>3. CASE \E k \in op[g].cases : \E polled \in SUBSET {j \in op[g].cases : ~Ready(j)} :
               Ready(k) /\ Complete(g, k, polled)
    <3>1. PICK k \in op[g].cases, polled \in SUBSET {j \in op[g].cases : ~Ready(j)} : Ready(k) /\ Complete(g, k, polled)
      BY <2>3
    <3>2. \/ k[1] = "recv" /\ buf[k[2]] # <<>> /\ buf' = [buf EXCEPT ![k[2]] = Tail(@)]
          \/ buf' = buf
          \/ ~closed[k[2]] /\ buf' = [buf EXCEPT ![k[2]] = Append(@, g)]
      BY <2>1, <3>1, CompleteDoes
    <3>3. buf[c] # <<>> => Len(Tail(buf[c])) <= Len(buf[c])
      <4> SUFFICES ASSUME buf[c] # <<>>  PROVE  Len(Tail(buf[c])) <= Len(buf[c])
        OBVIOUS
      <4>1. buf[c] \in Seq(Goroutines)
        BY <1>0 DEF TypeOK
      <4>2. Len(Tail(buf[c])) = Len(buf[c]) - 1
        BY <4>1, HeadTailProperties
      <4>3. QED  BY <1>0, <4>2
    <3>4. CASE c = k[2]
      <4>1. \/ buf[c] # <<>> /\ buf'[c] = Tail(buf[c])
            \/ buf'[c] = buf[c]
            \/ ~closed[c]
        BY <1>0, <3>2, <3>4 DEF TypeOK
      <4>2. Len(buf[c]) <= Len(buf[c])
        BY <1>0
      <4>3. closed'[c] = closed[c]
        BY <2>1
      <4>4. QED  BY <3>3, <4>1, <4>2, <4>3, Zenon
    <3>5. CASE c # k[2]
      BY <1>0, <2>1, <3>2, <3>5 DEF TypeOK
    <3>6. QED  BY <3>4, <3>5
  <2>4. CASE \E k \in op[g].cases : \E polled \in SUBSET {j \in op[g].cases : ~Ready(j)} : Pair(g, k, polled)
    <3>1. PICK k \in op[g].cases, polled \in SUBSET {j \in op[g].cases : ~Ready(j)} : Pair(g, k, polled)
      BY <2>4
    <3>2. k[2] \in Channels /\ ~closed[k[2]] /\ \E s : buf' = [buf EXCEPT ![k[2]] = s]
      <4>1. k[2] \in Channels /\ ~closed[k[2]]
        BY <2>1, <3>1, PairDoes
      <4>2. \E s : buf' = [buf EXCEPT ![k[2]] = s]
        BY <3>1 DEF Pair
      <4>3. QED  BY <4>1, <4>2
    <3>3. CASE c = k[2]
      BY <2>1, <3>2, <3>3
    <3>4. CASE c # k[2]
      BY <1>0, <2>1, <3>2, <3>4 DEF TypeOK
    <3>5. QED  BY <3>3, <3>4
  <2>5. QED  BY <2>1, <2>2, <2>3, <2>4 DEF Locked
<1>3. CASE QuietStep(g)
  <2>1. UNCHANGED chans
    BY <1>3, QuietDoes DEF QuietEffect
  <2>2. QED  BY <1>0, <2>1 DEF chans
<1>4. CASE SelLock(g) \/ Pass3(g) \/ Wake(g)
  <2>1. buf' = buf /\ closed' = closed
    BY <1>4 DEF SelLock, Pass3, Wake, chans
  <2>2. QED  BY <1>0, <2>1
<1>5. QED  BY <1>1, <1>2, <1>3, <1>4 DEF Step, QuietStep

\* An open channel that full or empty call unusable is not ready.
LEMMA UnusableIs ==
  ASSUME NowFits, NEW c \in Channels, ~closed[c]
  PROVE  /\ Full(c) => ~Ready(Send(c))
         /\ Empty(c) => ~Ready(Recv(c))
<1>1. \A k : waitq[k] = <<>> => Live(k) = {}
  BY DEF Live
<1>2. buf[c] \in Seq(Goroutines) /\ Cap[c] \in Nat /\ ChannelFits(c)
  BY ChanAssumption DEF NowFits, TypeOK
<1>3. Len(buf[c]) \in Nat /\ (buf[c] = <<>> <=> Len(buf[c]) = 0)
  BY <1>2, RangeIs
<1>4. /\ Peer(Send(c)) = Recv(c) /\ Peer(Recv(c)) = Send(c) /\ Send(c)[2] = c /\ Recv(c)[2] = c
      /\ Send(c)[1] = "send" /\ Recv(c)[1] = "recv" /\ "recv" # "send"
  BY SidesOf
<1>5. ASSUME Full(c)  PROVE  ~Ready(Send(c))
  <2>1. waitq[Recv(c)] = <<>> /\ ~(Len(buf[c]) < Cap[c])
    BY <1>2, <1>3, <1>5 DEF Full, ChannelFits
  <2>2. QED  BY <1>1, <1>4, <2>1 DEF Ready
<1>6. ASSUME Empty(c)  PROVE  ~Ready(Recv(c))
  <2>1. waitq[Send(c)] = <<>> /\ buf[c] = <<>>
    <3>1. CASE Cap[c] = 0
      BY <1>2, <1>3, <1>6, <3>1 DEF Empty, ChannelFits
    <3>2. CASE Cap[c] # 0
      BY <1>2, <1>3, <1>6, <3>2 DEF Empty, ChannelFits
    <3>3. QED  BY <3>1, <3>2
  <2>2. QED  BY <1>1, <1>4, <2>1 DEF Ready
<1>7. QED  BY <1>5, <1>6

\* How a call comes to the middle of its fast path.
LEMMA FastMoves ==
  ASSUME NowFits, NEW g \in Goroutines, Step(g), NEW h \in Goroutines, pc'[h] \in FastPath \ {"fast"}
  PROVE  /\ op'[h] = op[h] /\ op[h] # None /\ pc[h] \in FastPath
         /\ \/ pc'[h] = pc[h]
            \/ UNCHANGED chans /\ \E c \in Channels :
                 \/ /\ op[h].cases = {Send(c)}
                    /\ (pc'[h] = "sawOpen" /\ ~closed[c]) \/ (pc'[h] = "sawFull" /\ Full(c))
                 \/ /\ op[h].cases = {Recv(c)}
                    /\ (pc'[h] = "sawEmpty" /\ Empty(c)) \/ (pc'[h] = "sawClosed" /\ closed[c])
<1> DEFINE Goal == /\ op'[h] = op[h] /\ op[h] # None /\ pc[h] \in FastPath
                   /\ \/ pc'[h] = pc[h]
                      \/ UNCHANGED chans /\ \E c \in Channels :
                           \/ /\ op[h].cases = {Send(c)}
                              /\ (pc'[h] = "sawOpen" /\ ~closed[c]) \/ (pc'[h] = "sawFull" /\ Full(c))
                           \/ /\ op[h].cases = {Recv(c)}
                              /\ (pc'[h] = "sawEmpty" /\ Empty(c)) \/ (pc'[h] = "sawClosed" /\ closed[c])
<1>0. TypeOK /\ CallFits(h) /\ CallFits(g)
  BY DEF NowFits
<1>1. pc'[h] = pc[h] /\ op'[h] = op[h] => Goal
  BY <1>0 DEF CallFits, FastPath
<1>2. CASE \E o \in Calls : Call(g, o)
  <2>1. PICK o \in Calls : Call(g, o)
    BY <1>2
  <2>2. pc' = [pc EXCEPT ![g] = IF o.block \/ IsSelect(o) THEN "lock" ELSE "fast"] /\ op' = [op EXCEPT ![g] = o]
    BY <2>1 DEF Call, Goto
  <2>3. h # g
    BY <1>0, <2>2 DEF TypeOK, FastPath
  <2>4. QED  BY <1>0, <1>1, <2>2, <2>3 DEF TypeOK
<1>3. CASE \E c \in Channels : FastSend(g, c) \/ FastRecv(g, c)
  <2>1. PICK c \in Channels : FastSend(g, c) \/ FastRecv(g, c)
    BY <1>3
  <2>2. op' = op /\ UNCHANGED chans /\ \E l : pc' = [pc EXCEPT ![g] = l]
    BY <2>1 DEF FastSend, FastRecv, FastRead, FastFail, Finish, Goto
  <2>3. CASE h # g
    BY <1>0, <1>1, <2>2, <2>3 DEF TypeOK
  <2>4. CASE h = g
    <3>1. op[h] # None
      BY <2>1, <2>4 DEF FastSend, FastRecv
    <3>2. CASE FastSend(g, c)
      <4>1. /\ op[h].cases = {Send(c)} /\ pc[h] \in FastPath
            /\ (pc'[h] = "sawOpen" /\ ~closed[c]) \/ (pc'[h] = "sawFull" /\ Full(c))
        BY <1>0, <2>4, <3>2 DEF FastSend, FastRead, FastFail, Finish, Goto, FastPath, TypeOK
      <4>2. QED  BY <2>2, <3>1, <4>1
    <3>3. CASE FastRecv(g, c)
      <4>1. /\ op[h].cases = {Recv(c)} /\ pc[h] \in FastPath
            /\ (pc'[h] = "sawEmpty" /\ Empty(c)) \/ (pc'[h] = "sawClosed" /\ closed[c])
        BY <1>0, <2>4, <3>3 DEF FastRecv, FastRead, FastFail, Finish, Goto, FastPath, TypeOK
      <4>2. QED  BY <2>2, <3>1, <4>1
    <3>4. QED  BY <2>1, <3>2, <3>3
  <2>5. QED  BY <2>3, <2>4
<1>4. CASE SendRecv(g) \/ Select(g)
  <2>1. op' = op /\ (pc' = [pc EXCEPT ![g] = "done"] \/ pc' = [pc EXCEPT ![g] = "parked"])
    BY <1>4 DEF SendRecv, Select, Locked, Complete, Pair, Block, Finish, Goto
  <2>2. QED  BY <1>0, <1>1, <2>1 DEF TypeOK, FastPath
<1>5. CASE (\E c \in Channels : Close(g, c)) \/ Awake(g) \/ Pass3(g)
  <2>1. op' = op /\ (pc' = [pc EXCEPT ![g] = "done"] \/ pc' = [pc EXCEPT ![g] = "throw"])
    BY <1>5 DEF Close, Awake, Pass3, Goto
  <2>2. QED  BY <1>0, <1>1, <2>1 DEF TypeOK, FastPath
<1>6. CASE SelLock(g)
  BY <1>1, <1>6 DEF SelLock
<1>7. CASE Wake(g)
  <2>1. op' = op /\ \E x : pc' = [pc EXCEPT ![x] = "awake"] \/ pc' = [pc EXCEPT ![x] = "throw"]
    BY <1>7 DEF Wake, Goto
  <2>2. QED  BY <1>0, <1>1, <2>1 DEF TypeOK, FastPath
<1>8. CASE Return(g)
  <2>1. op' = [op EXCEPT ![g] = None] /\ pc' = [pc EXCEPT ![g] = "idle"]
    BY <1>8 DEF Return, Goto
  <2>2. QED  BY <1>0, <1>1, <2>1 DEF TypeOK, FastPath
<1>9. QED  BY <1>2, <1>3, <1>4, <1>5, <1>6, <1>7, <1>8 DEF Step

\* A call that gives up saw its channel at a moment when it could not be used.
LEMMA HistoryKeeps ==
  ASSUME QueueIInv, NEW g \in Goroutines, Step(g), Remember, StillFits, NEW h \in Goroutines
  PROVE  HistoryFits(h)'
<1>0. NowFits /\ TypeOK /\ HistoryFits(h) /\ CallFits(h)
  BY DEF QueueIInv, NowFits
<1>1. blocked' = {x \in Goroutines :
                    /\ op'[x] # None /\ res'[x] = None /\ ~op'[x].block
                    /\ x \in blocked \/ (\A k \in op[x].cases : ~Ready(k))' \/ LosesReceivers(x)}
  BY DEF Remember
<1>2. h \in blocked' => op'[h] # None /\ res'[h] = None /\ ~op'[h].block
  BY <1>1
<1>3. op'[h] # None /\ res'[h] = None /\ ~op'[h].block /\ (\A k \in op[h].cases : ~Ready(k))' => h \in blocked'
  BY <1>1
<1>4. ASSUME NEW c \in Channels
      PROVE  /\ pc'[h] = "sawOpen" /\ op'[h].cases = {Send(c)} /\ closed'[c] /\ (Cap[c] = 0 \/ Full(c)')
                  => h \in blocked'
             /\ pc'[h] = "sawFull" /\ op'[h].cases = {Send(c)} /\ ~closed'[c] => h \in blocked'
             /\ pc'[h] = "sawEmpty" /\ op'[h].cases = {Recv(c)} /\ ~closed'[c] => h \in blocked'
             /\ pc'[h] = "sawClosed" /\ op'[h].cases = {Recv(c)} => closed'[c]
  <2> SUFFICES ASSUME pc'[h] \in FastPath \ {"fast"}
               PROVE  /\ pc'[h] = "sawOpen" /\ op'[h].cases = {Send(c)} /\ closed'[c] /\ (Cap[c] = 0 \/ Full(c)')
                           => h \in blocked'
                      /\ pc'[h] = "sawFull" /\ op'[h].cases = {Send(c)} /\ ~closed'[c] => h \in blocked'
                      /\ pc'[h] = "sawEmpty" /\ op'[h].cases = {Recv(c)} /\ ~closed'[c] => h \in blocked'
                      /\ pc'[h] = "sawClosed" /\ op'[h].cases = {Recv(c)} => closed'[c]
    BY DEF FastPath
  <2>1. /\ op'[h] = op[h] /\ op[h] # None /\ pc[h] \in FastPath
        /\ \/ pc'[h] = pc[h]
           \/ UNCHANGED chans /\ \E d \in Channels :
                \/ /\ op[h].cases = {Send(d)}
                   /\ (pc'[h] = "sawOpen" /\ ~closed[d]) \/ (pc'[h] = "sawFull" /\ Full(d))
                \/ /\ op[h].cases = {Recv(d)}
                   /\ (pc'[h] = "sawEmpty" /\ Empty(d)) \/ (pc'[h] = "sawClosed" /\ closed[d])
    BY <1>0, FastMoves
  <2>2. res[h] = None /\ ~op[h].block /\ res'[h] = None
    <3>1. CallFits(h)'
      BY DEF StillFits
    <3>2. QED  BY <1>0, <2>1, <3>1 DEF CallFits
  <2>3. h \in blocked => h \in blocked'
    BY <1>1, <2>1, <2>2
  <2>4. (\A k \in op[h].cases : ~Ready(k)) => h \in blocked
    BY <1>0, <2>1, <2>2 DEF HistoryFits
  <2>5. /\ closed[c] => closed'[c] /\ Len(buf'[c]) <= Len(buf[c])
        /\ ~closed[c] /\ closed'[c] => buf'[c] = buf[c]
    BY <1>0, BufferMoves
  <2>6. ~closed[c] => (Full(c) => ~Ready(Send(c))) /\ (Empty(c) => ~Ready(Recv(c)))
    BY <1>0, UnusableIs
  <2>7. CASE pc'[h] = pc[h]
    <3>0. ASSUME pc[h] = "sawOpen", op[h].cases = {Send(c)}, closed'[c], Cap[c] = 0
          PROVE  h \in blocked'
      <4>1. CASE closed[c]
        BY <1>0, <2>3, <3>0, <4>1 DEF HistoryFits
      <4>2. CASE ~closed[c]
        <5>1. LosesReceivers(h)
          BY <2>1, <3>0, <4>2 DEF LosesReceivers
        <5>2. QED  BY <1>1, <2>1, <2>2, <5>1
      <4>3. QED  BY <4>1, <4>2
    <3>1. ASSUME pc[h] = "sawOpen", op[h].cases = {Send(c)}, closed'[c], Cap[c] # 0, Full(c)'
          PROVE  h \in blocked'
      <4>1. Cap[c] \in Nat /\ Len(buf'[c]) = Cap[c]
        BY <3>1, ChanAssumption DEF Full
      <4>2. Len(buf[c]) \in Nat /\ Len(buf[c]) <= Cap[c]
        <5>1. ChannelFits(c) /\ buf[c] \in Seq(Goroutines)
          BY <1>0 DEF NowFits, TypeOK
        <5>2. QED  BY <5>1, RangeIs DEF ChannelFits
      <4>3. Len(buf[c]) = Cap[c]
        BY <2>5, <3>1, <4>1, <4>2
      <4>4. Full(c)
        BY <3>1, <4>1, <4>3 DEF Full
      <4>5. CASE closed[c]
        BY <1>0, <2>3, <3>1, <4>4, <4>5 DEF HistoryFits
      <4>6. CASE ~closed[c]
        BY <2>3, <2>4, <2>6, <3>1, <4>4, <4>6
      <4>7. QED  BY <4>5, <4>6
    <3>2. pc[h] = "sawFull" /\ op[h].cases = {Send(c)} /\ ~closed'[c] => h \in blocked'
      BY <1>0, <2>3, <2>5 DEF HistoryFits
    <3>3. pc[h] = "sawEmpty" /\ op[h].cases = {Recv(c)} /\ ~closed'[c] => h \in blocked'
      BY <1>0, <2>3, <2>5 DEF HistoryFits
    <3>4. pc[h] = "sawClosed" /\ op[h].cases = {Recv(c)} => closed'[c]
      BY <1>0, <2>5 DEF HistoryFits
    <3>5. QED  BY <2>1, <2>7, <3>0, <3>1, <3>2, <3>3, <3>4
  <2>8. CASE pc'[h] # pc[h]
    <3>1. PICK d \in Channels :
                \/ /\ op[h].cases = {Send(d)}
                   /\ (pc'[h] = "sawOpen" /\ ~closed[d]) \/ (pc'[h] = "sawFull" /\ Full(d))
                \/ /\ op[h].cases = {Recv(d)}
                   /\ (pc'[h] = "sawEmpty" /\ Empty(d)) \/ (pc'[h] = "sawClosed" /\ closed[d])
      BY <2>1, <2>8
    <3>2. closed' = closed
      BY <2>1, <2>8 DEF chans
    <3>3. /\ {Send(c)} = {Send(d)} => c = d
          /\ {Recv(c)} = {Recv(d)} => c = d
          /\ {Send(c)} # {Recv(d)} /\ {Recv(c)} # {Send(d)}
      <4>1. Send(c)[2] = c /\ Send(d)[2] = d /\ Recv(c)[2] = c /\ Recv(d)[2] = d
            /\ Send(c)[1] = "send" /\ Recv(c)[1] = "recv" /\ Send(d)[1] = "send" /\ Recv(d)[1] = "recv"
        BY SidesOf
      <4>2. "send" # "recv"
        OBVIOUS
      <4>3. \A x, y : {x} = {y} => x = y
        OBVIOUS
      <4>4. QED  BY <4>1, <4>2, <4>3
    <3>4. pc'[h] = "sawOpen" /\ op[h].cases = {Send(c)} => ~closed'[c]
      BY <3>1, <3>2, <3>3
    <3>5. pc'[h] = "sawFull" /\ op[h].cases = {Send(c)} /\ ~closed'[c] => h \in blocked'
      <4> SUFFICES ASSUME pc'[h] = "sawFull", op[h].cases = {Send(c)}, ~closed[c]  PROVE  h \in blocked'
        BY <3>2
      <4>1. Full(c)
        BY <3>1, <3>3
      <4>2. QED  BY <2>3, <2>4, <2>6, <4>1
    <3>6. pc'[h] = "sawEmpty" /\ op[h].cases = {Recv(c)} /\ ~closed'[c] => h \in blocked'
      <4> SUFFICES ASSUME pc'[h] = "sawEmpty", op[h].cases = {Recv(c)}, ~closed[c]  PROVE  h \in blocked'
        BY <3>2
      <4>1. Empty(c)
        BY <3>1, <3>3
      <4>2. QED  BY <2>3, <2>4, <2>6, <4>1
    <3>7. pc'[h] = "sawClosed" /\ op[h].cases = {Recv(c)} => closed'[c]
      BY <3>1, <3>2, <3>3
    <3>8. QED  BY <2>1, <3>4, <3>5, <3>6, <3>7
  <2>9. QED  BY <2>7, <2>8
<1>5. QED  BY <1>2, <1>3, <1>4 DEF HistoryFits

-----------------------------------------------------------------------------
(* The queues. *)

\* At first nobody calls, and the channels are open and empty.
LEMMA InitQueueIInv == Init => QueueIInv
<1> SUFFICES ASSUME Init  PROVE  QueueIInv
  OBVIOUS
<1> USE DEF Init
<1>1. TypeOK
  BY EmptyOnce DEF TypeOK, PCs
<1>2. QueuesFit
  <2>1. \A k \in Cases : waitq[k] = <<>> /\ IsInjective(waitq[k]) /\ Range(waitq[k]) = {}
    BY EmptyOnce
  <2>2. \A g \in Goroutines : ~Waiting(g)
    BY DEF Waiting
  <2>3. QED  BY <2>1, <2>2 DEF QueuesFit
<1>3. WakesFit
  <2>1. \A g \in Goroutines : wake[g] = <<>> /\ DOMAIN wake[g] = {}
    OBVIOUS
  <2>2. QED  BY <2>1 DEF WakesFit
<1>4. \A c \in Channels : ChannelFits(c)
  <2> SUFFICES ASSUME NEW c \in Channels  PROVE  ChannelFits(c)
    OBVIOUS
  <2>1. Cap[c] \in Nat /\ buf[c] = <<>> /\ ~closed[c]
    BY ChanAssumption
  <2>2. waitq[Send(c)] = <<>> /\ waitq[Recv(c)] = <<>>
    BY SidesOf
  <2>3. Len(<<>>) = 0
    OBVIOUS
  <2>4. QED  BY <2>1, <2>2, <2>3 DEF ChannelFits
<1>5. \A g \in Goroutines : CallFits(g) /\ HistoryFits(g)
  BY DEF CallFits, HistoryFits, FastPath
<1>6. QED  BY <1>1, <1>2, <1>3, <1>4, <1>5 DEF QueueIInv

\* Every step keeps the queues in order.
LEMMA NextQueueIInv == QueueIInv /\ IInv /\ [Next]_vars => QueueIInv'
<1> SUFFICES ASSUME QueueIInv, IInv, [Next]_vars  PROVE  QueueIInv'
  OBVIOUS
<1>0. IInv' /\ NowFits
  BY NextIInv DEF QueueIInv, NowFits
<1>1. CASE UNCHANGED vars
  <2>1. UNCHANGED <<buf, closed, waitq, selectDone, lock, op, pc, res, wake, blocked>>
    BY <1>1 DEF vars, chans
  <2>2. TypeOK' /\ QueuesFit' /\ WakesFit'
    BY <2>1 DEF QueueIInv, TypeOK, QueuesFit, WakesFit, Waiting
  <2>3. (\A c \in Channels : ChannelFits(c)') /\ \A g \in Goroutines : CallFits(g)'
    BY <2>1 DEF QueueIInv, ChannelFits, CallFits
  <2>4. \A k : Ready(k)' = Ready(k)
    BY <2>1 DEF Ready, Live
  <2>5. \A c : Full(c)' = Full(c)
    BY <2>1 DEF Full
  <2>6. \A g \in Goroutines : HistoryFits(g)'
    BY <2>1, <2>4, <2>5 DEF QueueIInv, HistoryFits
  <2>7. QED  BY <2>2, <2>3, <2>6 DEF QueueIInv
<1>2. ASSUME NEW g \in Goroutines, Step(g), Remember
      PROVE  QueueIInv'
  <2>1. StillFits
    BY <1>0, <1>2, StepKeeps
  <2>2. \A h \in Goroutines : HistoryFits(h)'
    BY <1>2, <2>1, HistoryKeeps
  <2>3. blocked' \subseteq Goroutines
    BY <1>2 DEF Remember
  <2>4. TypeOK'
    BY <1>0, <2>1, <2>3 DEF StillFits, DataOK, IInv, LockTypeOK, TypeOK
  <2>5. QED  BY <2>1, <2>2, <2>4 DEF QueueIInv, StillFits
<1>3. QED  BY <1>1, <1>2 DEF Next

\* Who waits is on the queues of its cases, who has been served is readied once,
\* and who gives up has seen a channel that it could not use.
THEOREM QueueInvariance == Spec => []QueueIInv
BY InitQueueIInv, NextQueueIInv, Invariance, PTL DEF Spec

\* The invariants that chan.go states hold, and no call throws.
THEOREM Queues == Spec => []QueueInvariant
<1>1. QueueIInv => QueueInvariant
  <2> SUFFICES ASSUME QueueIInv  PROVE  QueueInvariant
    OBVIOUS
  <2>1. TypeOK /\ QueuesFit /\ (\A c \in Channels : ChannelFits(c)) /\ \A g \in Goroutines : CallFits(g)
    BY DEF QueueIInv
  <2>2. \A g \in Goroutines : pc[g] # "throw"
    BY <2>1 DEF CallFits
  <2>3. ASSUME NEW k \in Cases, NEW g \in Goroutines
        PROVE  /\ g \in Range(waitq[k]) => pc[g] \in {"parked", "awake"} /\ k \in op[g].cases
               /\ pc[g] = "parked" /\ res[g] = None /\ k \in op[g].cases => g \in Range(waitq[k])
    BY <2>1 DEF QueuesFit, Waiting
  <2>4. QED  BY <2>1, <2>2, <2>3 DEF QueueInvariant
<1>2. QED  BY <1>1, QueueInvariance, PTL

-----------------------------------------------------------------------------
(* The calls, as Channels has them. *)

\* Who waits for a case, and whether it can proceed.
View ==
  /\ \A c \in Channels : /\ Promise!Waiters("send", c) = Waiters(Send(c))
                         /\ Promise!Waiters("recv", c) = Waiters(Recv(c))
  /\ \A k \in Cases : Promise!Ready(k) <=> Ready(k)

\* The invariant makes the two agree on them.
LEMMA ViewHolds == QueueIInv => View
<1> SUFFICES ASSUME QueueIInv  PROVE  View
  OBVIOUS
<1>0. TypeOK /\ QueuesFit /\ \A g \in Goroutines : CallFits(g)
  BY DEF QueueIInv
<1>1. ASSUME NEW c \in Channels
      PROVE  /\ Promise!Waiters("send", c) = Waiters(Send(c))
             /\ Promise!Waiters("recv", c) = Waiters(Recv(c))
  <2>1. \A k \in {Send(c), Recv(c)} : Waiters(k) = {g \in Goroutines : Waiting(g) /\ k \in op[g].cases}
    BY <1>0, SidesOf, WaitersAre
  <2>2. Promise!Waiters("send", c) = {g \in Goroutines : Waiting(g) /\ Send(c) \in op[g].cases}
    BY DEF Promise!Waiters, Waiting, Send
  <2>3. Promise!Waiters("recv", c) = {g \in Goroutines : Waiting(g) /\ Recv(c) \in op[g].cases}
    BY DEF Promise!Waiters, Waiting, Recv
  <2>4. QED  BY <2>1, <2>2, <2>3
<1>2. ASSUME NEW k \in Cases
      PROVE  Promise!Ready(k) <=> Ready(k)
  <2>1. k[2] \in Channels /\ (k[1] = "send" \/ k[1] = "recv") /\ "send" # "recv"
    BY DEF Cases
  <2>2. Live(Peer(k)) = {} <=> Waiters(Peer(k)) = {}
    BY <1>0, CasesOf, WaitersAre
  <2>3. Peer(k) = (IF k[1] = "send" THEN Recv(k[2]) ELSE Send(k[2]))
    BY CasesOf
  <2>4. CASE k[1] = "send"
    <3>1. Live(Peer(k)) = {} <=> Promise!Waiters("recv", k[2]) = {}
      BY <1>1, <2>1, <2>2, <2>3, <2>4
    <3>2. QED  BY <2>1, <2>4, <3>1 DEF Ready, Promise!Ready
  <2>5. CASE k[1] = "recv"
    <3>1. Live(Peer(k)) = {} <=> Promise!Waiters("send", k[2]) = {}
      BY <1>1, <2>1, <2>2, <2>3, <2>5
    <3>2. QED  BY <2>1, <2>5, <3>1 DEF Ready, Promise!Ready
  <2>6. QED  BY <2>1, <2>4, <2>5
<1>3. QED  BY <1>1, <1>2 DEF View

\* The same, of the next state.
LEMMA ViewHoldsNext == QueueIInv' => View'
BY ViewHolds, PTL

\* The history is the same one.
LEMMA RememberMaps ==
  ASSUME QueueIInv', Remember
  PROVE  Promise!Remember
<1>1. View'
  BY ViewHoldsNext
<1>2. \A g \in Goroutines : op'[g] # None => \A k \in op'[g].cases : Ready(k)' <=> Promise!Ready(k)'
  <2> SUFFICES ASSUME NEW g \in Goroutines, op'[g] # None, NEW k \in op'[g].cases
               PROVE  Ready(k)' <=> Promise!Ready(k)'
    OBVIOUS
  <2>1. op'[g] \in Calls
    BY DEF QueueIInv, TypeOK
  <2>2. k \in Cases
    BY <2>1, CallsAre
  <2>3. QED  BY <1>1, <2>2 DEF View
<1>3. \A g \in Goroutines : LosesReceivers(g) <=> Promise!LosesReceivers(g)
  BY DEF LosesReceivers, Promise!LosesReceivers, Send
<1>4. QED  BY <1>2, <1>3 DEF Remember, Promise!Remember, Promise!CannotProceed

\* What the abstract module sees of a step.
Refines == Promise!Next \/ UNCHANGED Promise!vars

\* A step that the abstract module takes.
LEMMA StepMaps ==
  ASSUME QueueIInv', Remember, Promise!Step
  PROVE  Refines
BY RememberMaps DEF Refines, Promise!Next

\* A step that the abstract module does not see leaves its history alone.
LEMMA Stutters ==
  ASSUME QueueIInv, QueueIInv', Remember, UNCHANGED <<buf, closed, op, res>>,
         \A g \in Goroutines : Waiting(g)' <=> Waiting(g)
  PROVE  Refines
<1> DEFINE W == {g \in Goroutines : pc[g] = "parked" /\ res[g] = None}
<1>1. W' = W
  BY DEF Waiting
<1>2. View /\ View'
  BY ViewHolds, ViewHoldsNext
<1>3. \A dir, c : Promise!Waiters(dir, c)' = Promise!Waiters(dir, c)
  BY <1>1 DEF Promise!Waiters
<1>4. \A k \in Cases : Ready(k)' <=> Ready(k)
  <2>1. \A k : Promise!Ready(k)' <=> Promise!Ready(k)
    BY <1>3 DEF Promise!Ready
  <2>2. QED  BY <1>2, <2>1 DEF View
<1>5. blocked' = blocked
  <2>1. \A g \in Goroutines : op[g] # None => op[g].cases \subseteq Cases
    BY CallsAre DEF QueueIInv, TypeOK
  <2>2. \A g \in Goroutines : op[g] # None => ((\A k \in op[g].cases : ~Ready(k))' <=> \A k \in op[g].cases : ~Ready(k))
    BY <1>4, <2>1
  <2>3. \A g \in Goroutines : HistoryFits(g)
    BY DEF QueueIInv
  <2>4. blocked \subseteq Goroutines
    BY DEF QueueIInv, TypeOK
  <2>5. \A g \in Goroutines : g \in blocked' <=> g \in blocked
    <3>1. \A g \in Goroutines : ~LosesReceivers(g)
      BY DEF LosesReceivers
    <3>2. QED  BY <2>2, <2>3, <3>1 DEF Remember, HistoryFits
  <2>6. blocked' \subseteq Goroutines
    BY DEF Remember
  <2>7. QED  BY <2>4, <2>5, <2>6
<1>6. QED  BY <1>1, <1>5 DEF Refines, Promise!vars

\* A call begins, or returns.
LEMMA CallRefines ==
  ASSUME QueueIInv, QueueIInv', Remember, NEW g \in Goroutines, NEW o \in Calls, Call(g, o)
  PROVE  Refines
<1>0. TypeOK /\ CallFits(g)
  BY DEF QueueIInv
<1>1. /\ pc[g] = "idle" /\ op' = [op EXCEPT ![g] = o] /\ UNCHANGED <<buf, closed, res>>
      /\ pc' = [pc EXCEPT ![g] = IF o.block \/ IsSelect(o) THEN "lock" ELSE "fast"]
  BY DEF Call, Goto, chans
<1>2. op[g] = None
  BY <1>0, <1>1 DEF CallFits
<1>3. \A h \in Goroutines : pc'[h] = "parked" <=> pc[h] = "parked"
  BY <1>0, <1>1 DEF TypeOK
<1>4. Promise!Call(g, o)
  BY <1>1, <1>2, <1>3 DEF Promise!Call
<1>5. Promise!Step
  BY <1>4 DEF Promise!Step
<1>6. QED  BY <1>5, StepMaps

\* A call returns; a close does so unseen.
LEMMA ReturnRefines ==
  ASSUME QueueIInv, QueueIInv', Remember, NEW g \in Goroutines, Return(g)
  PROVE  Refines
<1>0. TypeOK /\ CallFits(g)
  BY DEF QueueIInv
<1>1. /\ pc[g] = "done" /\ pc' = [pc EXCEPT ![g] = "idle"] /\ op' = [op EXCEPT ![g] = None]
      /\ res' = [res EXCEPT ![g] = None] /\ UNCHANGED <<buf, closed>>
  BY DEF Return, Goto, chans
<1>2. \A h \in Goroutines : (pc'[h] = "parked" /\ res'[h] = None) <=> (pc[h] = "parked" /\ res[h] = None)
  BY <1>0, <1>1 DEF TypeOK
<1>3. CASE op[g] = None
  <2>1. res[g] = None
    BY <1>0, <1>3 DEF CallFits
  <2>2. op' = op /\ res' = res
    BY <1>0, <1>1, <1>3, <2>1 DEF TypeOK
  <2>3. QED  BY <1>1, <1>2, <2>2, Stutters DEF Waiting
<1>4. CASE op[g] # None
  <2>1. res[g] # None
    BY <1>0, <1>1, <1>4 DEF CallFits
  <2>2. Promise!Return(g)
    BY <1>1, <1>2, <2>1 DEF Promise!Return
  <2>3. Promise!Step
    BY <2>2 DEF Promise!Step
  <2>4. QED  BY <2>3, StepMaps
<1>5. QED  BY <1>3, <1>4

\* A call with no result yet that does not wait, and then has one.
Decides(g, r) ==
  /\ op[g] # None /\ res[g] = None /\ pc[g] # "parked"
  /\ res' = [res EXCEPT ![g] = r] /\ r # None /\ UNCHANGED <<closed, op>>
  /\ pc' = [pc EXCEPT ![g] = "done"]

\* It can decide, and others wait as before.
LEMMA Undecided ==
  ASSUME TypeOK, NEW g \in Goroutines, NEW r, Decides(g, r)
  PROVE  /\ Promise!Undecided(g)
         /\ \A h \in Goroutines : (pc'[h] = "parked" /\ res'[h] = None) <=> (pc[h] = "parked" /\ res[h] = None)
BY DEF Decides, Promise!Undecided, TypeOK

\* It gives up, rightly.
LEMMA GiveUpRefines ==
  ASSUME QueueIInv, QueueIInv', Remember, NEW g \in Goroutines, Decides(g, NotSelected), buf' = buf,
         ~op[g].block, g \in blocked
  PROVE  Refines
<1>0. TypeOK
  BY DEF QueueIInv
<1>1. /\ Promise!Undecided(g)
      /\ \A h \in Goroutines : (pc'[h] = "parked" /\ res'[h] = None) <=> (pc[h] = "parked" /\ res[h] = None)
  BY <1>0, Undecided
<1>2. Promise!GiveUp(g)
  BY <1>1 DEF Promise!GiveUp, Decides, NotSelected, Promise!NotSelected
<1>3. Promise!Step
  BY <1>2 DEF Promise!Step
<1>4. QED  BY <1>3, StepMaps

\* It learns that the channel is closed.
LEMMA ClosedRefines ==
  ASSUME QueueIInv, QueueIInv', Remember, NEW g \in Goroutines, NEW k \in op[g].cases,
         Decides(g, <<k, FALSE, None>>), buf' = buf, closed[k[2]], k[1] = "recv" => buf[k[2]] = <<>>
  PROVE  Refines
<1>0. TypeOK
  BY DEF QueueIInv
<1>1. /\ Promise!Undecided(g)
      /\ \A h \in Goroutines : (pc'[h] = "parked" /\ res'[h] = None) <=> (pc[h] = "parked" /\ res[h] = None)
  BY <1>0, Undecided
<1>2. k \in {"send", "recv"} \X Channels
  <2>1. op[g] \in Calls
    BY <1>0 DEF TypeOK, Decides
  <2>2. QED  BY <2>1, CallsAre DEF Cases
<1>3. Promise!Closed(g, k)
  BY <1>1 DEF Promise!Closed, Decides
<1>4. Promise!Step
  BY <1>2, <1>3 DEF Promise!Step
<1>5. QED  BY <1>4, StepMaps

\* The fast paths.
LEMMA FastReadRefines ==
  ASSUME QueueIInv, QueueIInv', Remember, NEW g \in Goroutines,
         NEW from \in FastPath, NEW to \in FastPath \cup {"lock"}, FastRead(g, from, to)
  PROVE  Refines
<1>1. pc[g] = from /\ pc' = [pc EXCEPT ![g] = to] /\ UNCHANGED <<buf, closed, op, res>>
  BY DEF FastRead, Goto, chans
<1>2. \A h \in Goroutines : pc'[h] = "parked" <=> pc[h] = "parked"
  BY <1>1 DEF QueueIInv, TypeOK, FastPath
<1>3. QED  BY <1>1, <1>2, Stutters DEF Waiting

\* A fast path that ends a call.
LEMMA FastFailDecides ==
  ASSUME QueueIInv, NEW g \in Goroutines, NEW from \in FastPath, NEW r \in Results, FastFail(g, from, r)
  PROVE  Decides(g, r) /\ buf' = buf /\ ~op[g].block /\ pc[g] = from
<1>1. pc[g] = from /\ res' = [res EXCEPT ![g] = r] /\ pc' = [pc EXCEPT ![g] = "done"] /\ UNCHANGED <<buf, closed, op>>
  BY DEF FastFail, Finish, Goto, chans
<1>2. op[g] # None /\ res[g] = None /\ ~op[g].block
  BY <1>1 DEF QueueIInv, CallFits, FastPath
<1>3. r # None /\ pc[g] # "parked"
  BY <1>1, ChanAssumption DEF FastPath
<1>4. QED  BY <1>1, <1>2, <1>3 DEF Decides

\* chansend: the reads of closed and full justify giving up together, not alone.
LEMMA FastSendRefines ==
  ASSUME QueueIInv, QueueIInv', Remember, NEW g \in Goroutines, NEW c \in Channels, FastSend(g, c)
  PROVE  Refines
<1>0. NowFits /\ HistoryFits(g) /\ NotSelected \in Results
  BY DEF QueueIInv, NowFits, Results
<1>1. op[g] # None /\ op[g].cases = {Send(c)}
  BY DEF FastSend
<1>2. CASE \E from \in FastPath, to \in FastPath \cup {"lock"} : FastRead(g, from, to)
  BY <1>2, FastReadRefines
<1>3. CASE Full(c) /\ FastFail(g, "sawOpen", NotSelected)
  <2>1. Decides(g, NotSelected) /\ buf' = buf /\ ~op[g].block /\ pc[g] = "sawOpen"
    BY <1>0, <1>3, FastFailDecides DEF FastPath
  <2>2. res[g] = None
    BY <2>1 DEF Decides
  <2>3. CASE ~closed[c]
    <3>1. ~Ready(Send(c))
      BY <1>0, <1>3, <2>3, UnusableIs
    <3>2. g \in blocked
      BY <1>0, <1>1, <2>1, <2>2, <3>1 DEF HistoryFits
    <3>3. QED  BY <2>1, <3>2, GiveUpRefines
  <2>4. CASE closed[c]
    <3>1. g \in blocked
      BY <1>0, <1>1, <1>3, <2>1, <2>4 DEF HistoryFits
    <3>2. QED  BY <2>1, <3>1, GiveUpRefines
  <2>5. QED  BY <2>3, <2>4
<1>4. CASE ~closed[c] /\ FastFail(g, "sawFull", NotSelected)
  <2>1. Decides(g, NotSelected) /\ buf' = buf /\ ~op[g].block /\ pc[g] = "sawFull"
    BY <1>0, <1>4, FastFailDecides DEF FastPath
  <2>2. g \in blocked
    BY <1>0, <1>1, <1>4, <2>1 DEF HistoryFits
  <2>3. QED  BY <2>1, <2>2, GiveUpRefines
<1>5. \/ \E from \in FastPath, to \in FastPath \cup {"lock"} : FastRead(g, from, to)
      \/ Full(c) /\ FastFail(g, "sawOpen", NotSelected)
      \/ ~closed[c] /\ FastFail(g, "sawFull", NotSelected)
  BY DEF FastSend, FastPath
<1>6. QED  BY <1>2, <1>3, <1>4, <1>5

\* chanrecv: empty, closed, and empty once more.
LEMMA FastRecvRefines ==
  ASSUME QueueIInv, QueueIInv', Remember, NEW g \in Goroutines, NEW c \in Channels, FastRecv(g, c)
  PROVE  Refines
<1>0. NowFits /\ HistoryFits(g) /\ NotSelected \in Results
  BY DEF QueueIInv, NowFits, Results
<1>1. op[g] # None /\ op[g].cases = {Recv(c)}
  BY DEF FastRecv
<1>2. CASE \E from \in FastPath, to \in FastPath \cup {"lock"} : FastRead(g, from, to)
  BY <1>2, FastReadRefines
<1>3. CASE ~closed[c] /\ FastFail(g, "sawEmpty", NotSelected)
  <2>1. Decides(g, NotSelected) /\ buf' = buf /\ ~op[g].block /\ pc[g] = "sawEmpty"
    BY <1>0, <1>3, FastFailDecides DEF FastPath
  <2>2. g \in blocked
    BY <1>0, <1>1, <1>3, <2>1 DEF HistoryFits
  <2>3. QED  BY <2>1, <2>2, GiveUpRefines
<1>4. CASE Empty(c) /\ FastFail(g, "sawClosed", <<Recv(c), FALSE, None>>)
  <2>1. <<Recv(c), FALSE, None>> \in Results
    <3>1. \A k \in Cases : <<k, FALSE, None>> \in Results
      BY DEF Results
    <3>2. QED  BY <3>1, SidesOf
  <2>2. Decides(g, <<Recv(c), FALSE, None>>) /\ buf' = buf /\ ~op[g].block /\ pc[g] = "sawClosed"
    BY <1>0, <1>4, <2>1, FastFailDecides DEF FastPath
  <2>3. closed[c]
    BY <1>0, <1>1, <2>2 DEF HistoryFits
  <2>4. buf[c] = <<>>
    <3>1. CASE Cap[c] = 0
      <4>1. ChannelFits(c) /\ buf[c] \in Seq(Goroutines)
        BY <1>0 DEF NowFits, TypeOK
      <4>2. QED  BY <3>1, <4>1, RangeIs DEF ChannelFits
    <3>2. CASE Cap[c] # 0
      BY <1>4, <3>2 DEF Empty
    <3>3. QED  BY <3>1, <3>2
  <2>5. Recv(c) \in op[g].cases /\ Recv(c)[2] = c
    BY <1>1, SidesOf
  <2>6. QED  BY <2>2, <2>3, <2>4, <2>5, ClosedRefines
<1>5. \/ \E from \in FastPath, to \in FastPath \cup {"lock"} : FastRead(g, from, to)
      \/ ~closed[c] /\ FastFail(g, "sawEmpty", NotSelected)
      \/ Empty(c) /\ FastFail(g, "sawClosed", <<Recv(c), FALSE, None>>)
  BY DEF FastRecv, FastPath
<1>6. QED  BY <1>2, <1>3, <1>4, <1>5

\* A case that completes by itself: Take, Put or Closed.
LEMMA CompleteRefines ==
  ASSUME QueueIInv, QueueIInv', Remember, NEW g \in Goroutines, pc[g] = "lock", NEW k \in op[g].cases,
         NEW polled \in SUBSET {j \in op[g].cases : ~Ready(j)}, Ready(k), Complete(g, k, polled),
         UNCHANGED <<op, closed>>
  PROVE  Refines
<1> DEFINE c == k[2]
<1>0. NowFits /\ TypeOK /\ View
  BY ViewHolds DEF QueueIInv, NowFits
<1>1. /\ c \in Channels /\ k \in Cases
      /\ \/ /\ k[1] = "recv" /\ buf[c] # <<>> /\ Live(Peer(k)) = {}
            /\ res' = [res EXCEPT ![g] = <<k, TRUE, Head(buf[c])>>] /\ buf' = [buf EXCEPT ![c] = Tail(@)]
         \/ /\ closed[c] /\ (k[1] = "recv" => buf[c] = <<>>)
            /\ res' = [res EXCEPT ![g] = <<k, FALSE, None>>] /\ buf' = buf
         \/ /\ ~closed[c] /\ k[1] = "send" /\ Len(buf[c]) < Cap[c] /\ Live(Peer(k)) = {}
            /\ res' = [res EXCEPT ![g] = <<k, TRUE, None>>] /\ buf' = [buf EXCEPT ![c] = Append(@, g)]
      /\ pc' = [pc EXCEPT ![g] = "done"]
  BY <1>0, CompleteDoes
<1>2. op[g] # None /\ res[g] = None /\ pc[g] # "parked"
  BY <1>0, LockedStarts, CallsAre
<1> HIDE DEF c
<1>3. /\ k = Send(c) \/ k = Recv(c)
      /\ k[1] = "send" <=> k = Send(c)
      /\ k[1] = "recv" => k = Recv(c)
      /\ Peer(k) = (IF k[1] = "send" THEN Recv(c) ELSE Send(c)) /\ Peer(k) \in Cases
  BY <1>1, CasesOf DEF c, Send, Recv
<1>4. Live(Peer(k)) = {} => Waiters(Peer(k)) = {}
  BY DEF Waiters
<1>5. CASE k[1] = "recv" /\ buf[c] # <<>> /\ Live(Peer(k)) = {}
           /\ res' = [res EXCEPT ![g] = <<k, TRUE, Head(buf[c])>>] /\ buf' = [buf EXCEPT ![c] = Tail(@)]
  <2>1. <<k, TRUE, Head(buf[c])>> # None
    <3>1. Head(buf[c]) \in Goroutines
      BY <1>0, <1>1, <1>5, HeadTailProperties DEF TypeOK
    <3>2. \A v \in Goroutines : <<k, TRUE, v>> \in Results
      BY <1>1 DEF Results
    <3>3. <<k, TRUE, Head(buf[c])>> \in Results
      BY <3>1, <3>2
    <3>4. QED  BY <3>3, ChanAssumption
  <2>2. Decides(g, <<k, TRUE, Head(buf[c])>>)
    BY <1>1, <1>2, <1>5, <2>1 DEF Decides
  <2>3. /\ Promise!Undecided(g)
        /\ \A h \in Goroutines : (pc'[h] = "parked" /\ res'[h] = None) <=> (pc[h] = "parked" /\ res[h] = None)
    BY <1>0, <2>2, Undecided
  <2>4. k = Recv(c) /\ Promise!Waiters("send", c) = {}
    <3>1. k = Recv(c) /\ Peer(k) = Send(c)
      BY <1>3, <1>5
    <3>2. QED  BY <1>0, <1>1, <1>4, <1>5, <3>1 DEF View
  <2>5. k = <<"recv", c>>
    BY <2>4 DEF Recv
  <2>6. Promise!Take(g, c)
    BY <1>5, <2>3, <2>4, <2>5 DEF Promise!Take
  <2>7. Promise!Step
    BY <1>1, <2>6 DEF Promise!Step
  <2>8. QED  BY <2>7, StepMaps
<1>6. CASE closed[c] /\ (k[1] = "recv" => buf[c] = <<>>)
           /\ res' = [res EXCEPT ![g] = <<k, FALSE, None>>] /\ buf' = buf
  <2>1. <<k, FALSE, None>> # None
    <3>1. <<k, FALSE, None>> \in Results
      BY <1>1 DEF Results
    <3>2. QED  BY <3>1, ChanAssumption
  <2>2. Decides(g, <<k, FALSE, None>>)
    BY <1>1, <1>2, <1>6, <2>1 DEF Decides
  <2>3. QED  BY <1>6, <2>2, ClosedRefines DEF c
<1>7. CASE ~closed[c] /\ k[1] = "send" /\ Len(buf[c]) < Cap[c] /\ Live(Peer(k)) = {}
           /\ res' = [res EXCEPT ![g] = <<k, TRUE, None>>] /\ buf' = [buf EXCEPT ![c] = Append(@, g)]
  <2>1. <<k, TRUE, None>> # None
    <3>1. <<k, TRUE, None>> \in Results
      BY <1>1 DEF Results
    <3>2. QED  BY <3>1, ChanAssumption
  <2>2. Decides(g, <<k, TRUE, None>>)
    BY <1>1, <1>2, <1>7, <2>1 DEF Decides
  <2>3. /\ Promise!Undecided(g)
        /\ \A h \in Goroutines : (pc'[h] = "parked" /\ res'[h] = None) <=> (pc[h] = "parked" /\ res[h] = None)
    BY <1>0, <2>2, Undecided
  <2>4. k = Send(c) /\ Promise!Waiters("recv", c) = {}
    <3>1. k = Send(c) /\ Peer(k) = Recv(c)
      BY <1>3, <1>7
    <3>2. QED  BY <1>0, <1>1, <1>4, <1>7, <3>1 DEF View
  <2>5. k = <<"send", c>>
    BY <2>4 DEF Send
  <2>6. Promise!Put(g, c)
    BY <1>7, <2>3, <2>4, <2>5 DEF Promise!Put
  <2>7. Promise!Step
    BY <1>1, <2>6 DEF Promise!Step
  <2>8. QED  BY <2>7, StepMaps
<1>8. QED  BY <1>1, <1>5, <1>6, <1>7 DEF c

\* Two cases that complete together: Exchange.
LEMMA PairRefines ==
  ASSUME QueueIInv, QueueIInv', Remember, NEW g \in Goroutines, pc[g] = "lock", NEW k \in op[g].cases,
         NEW polled \in SUBSET {j \in op[g].cases : ~Ready(j)}, Pair(g, k, polled), UNCHANGED <<op, closed>>
  PROVE  Refines
<1> DEFINE c == k[2]
           p == Peer(k)
           first == waitq[p][First(p)]
           line == Append(buf[c], IF k[1] = "send" THEN g ELSE first)
           result(dir) == IF dir = "recv" THEN Head(line) ELSE None
           W == {x \in Goroutines : pc[x] = "parked" /\ res[x] = None}
<1>0. NowFits /\ TypeOK /\ View
  BY ViewHolds DEF QueueIInv, NowFits
<1>1. PICK h \in Goroutines \ {g} :
      /\ c \in Channels /\ k \in Cases /\ p \in Cases /\ ~closed[c]
      /\ h = first /\ Waiting(h) /\ p \in op[h].cases
      /\ res' = [res EXCEPT ![g] = <<k, TRUE, result(k[1])>>, ![h] = <<p, TRUE, result(p[1])>>]
      /\ pc' = [pc EXCEPT ![g] = "done"]
      /\ buf' = [buf EXCEPT ![c] = Tail(line)]
  BY <1>0, PairDoes
<1>2. op[g] # None /\ res[g] = None /\ pc[g] # "parked"
  BY <1>0, LockedStarts, CallsAre
<1>3. pc[h] = "parked" /\ res[h] = None /\ h \in W /\ g \notin W
  BY <1>1, <1>2 DEF Waiting
<1>4. res'[g] # None /\ res'[h] # None
  <2>1. Head(line) \in Goroutines
    <3>1. buf[c] \in Seq(Goroutines) /\ (IF k[1] = "send" THEN g ELSE first) \in Goroutines
      BY <1>0, <1>1 DEF TypeOK
    <3>2. line \in Seq(Goroutines) /\ Len(line) = Len(buf[c]) + 1 /\ Len(buf[c]) \in Nat
      BY <3>1, AppendProperties
    <3> HIDE DEF line
    <3>3. Len(line) # 0
      BY <3>2
    <3>4. line # <<>>
      BY <3>2, <3>3, RangeIs
    <3>5. QED  BY <3>2, <3>4, HeadTailProperties
  <2>2. \A dir : result(dir) \in Goroutines \cup {None}
    BY <2>1
  <2> HIDE DEF result, line, c, p
  <2>3. \A j \in Cases, v \in Goroutines \cup {None} : <<j, TRUE, v>> \in Results
    BY DEF Results
  <2>4. <<k, TRUE, result(k[1])>> \in Results /\ <<p, TRUE, result(p[1])>> \in Results
    BY <1>1, <2>2, <2>3
  <2>5. res'[g] \in Results /\ res'[h] \in Results
    BY <1>0, <1>1, <2>4 DEF TypeOK
  <2>6. QED  BY <2>5, ChanAssumption
<1>5. {x \in Goroutines : pc'[x] = "parked" /\ res'[x] = None} = W \ {g, h}
  <2> HIDE DEF result, line, c, p
  <2>1. \A x \in Goroutines \ {g, h} : pc'[x] = pc[x] /\ res'[x] = res[x]
    BY <1>0, <1>1 DEF TypeOK
  <2>2. QED  BY <1>4, <2>1
<1>6. Promise!Undecided(g)
  BY <1>2 DEF Promise!Undecided
<1>7. CASE k[1] = "send"
  <2>1. k = <<"send", c>> /\ p = <<"recv", c>> /\ p[1] = "recv" /\ line = Append(buf[c], g)
    BY <1>1, <1>7, CasesOf DEF Send, Recv
  <2>2. h \in Promise!Waiters("recv", c)
    BY <1>1, <1>3, <2>1 DEF Promise!Waiters
  <2>3. /\ res' = [res EXCEPT ![g] = <<<<"send", c>>, TRUE, None>>, ![h] = <<<<"recv", c>>, TRUE, Head(Append(buf[c], g))>>]
        /\ buf' = [buf EXCEPT ![c] = Tail(Append(buf[c], g))]
    BY <1>1, <1>7, <2>1
  <2> HIDE DEF result, line, p, c
  <2>4. Promise!Exchange(g, h, c)
    BY <1>1, <1>5, <1>6, <2>1, <2>2, <2>3 DEF Promise!Exchange
  <2>5. Promise!Step
    BY <1>1, <2>4 DEF Promise!Step
  <2>6. QED  BY <2>5, StepMaps
<1>8. CASE k[1] # "send"
  <2>1. k = <<"recv", c>> /\ p = <<"send", c>> /\ k[1] = "recv" /\ p[1] = "send" /\ line = Append(buf[c], h)
    BY <1>1, <1>8, CasesOf DEF Send, Recv
  <2>2. h \in Promise!Waiters("send", c)
    BY <1>1, <1>3, <2>1 DEF Promise!Waiters
  <2>3. /\ res' = [res EXCEPT ![g] = <<<<"recv", c>>, TRUE, Head(Append(buf[c], h))>>, ![h] = <<<<"send", c>>, TRUE, None>>]
        /\ buf' = [buf EXCEPT ![c] = Tail(Append(buf[c], h))]
    BY <1>1, <1>8, <2>1
  <2> HIDE DEF result, line, p, c
  <2>4. res' = [res EXCEPT ![h] = <<<<"send", c>>, TRUE, None>>, ![g] = <<<<"recv", c>>, TRUE, Head(Append(buf[c], h))>>]
    BY <1>0, <1>1, <2>3 DEF TypeOK
  <2>5. Promise!Exchange(h, g, c)
    BY <1>1, <1>5, <1>6, <2>1, <2>2, <2>3, <2>4 DEF Promise!Exchange
  <2>6. Promise!Step
    BY <1>1, <2>5 DEF Promise!Step
  <2>7. QED  BY <2>6, StepMaps
<1>9. QED  BY <1>7, <1>8

\* No case can proceed: Wait or GiveUp.
LEMMA BlockRefines ==
  ASSUME QueueIInv, QueueIInv', Remember, NEW g \in Goroutines, pc[g] = "lock", Block(g), UNCHANGED <<op, closed>>
  PROVE  Refines
<1>0. NowFits /\ TypeOK /\ View /\ HistoryFits(g)
  BY ViewHolds DEF QueueIInv, NowFits
<1>1. op[g] # None /\ op[g].cases \subseteq Cases /\ res[g] = None /\ pc[g] # "parked"
  BY <1>0, LockedStarts, CallsAre
<1>2. \A k \in op[g].cases : ~Ready(k)
  BY DEF Block
<1>3. CASE op[g].block
  <2>1. pc' = [pc EXCEPT ![g] = "parked"] /\ res' = res /\ buf' = buf
    BY <1>3 DEF Block, Goto
  <2>2. {x \in Goroutines : pc'[x] = "parked" /\ res'[x] = None}
          = {x \in Goroutines : pc[x] = "parked" /\ res[x] = None} \cup {g}
    BY <1>0, <1>1, <2>1 DEF TypeOK
  <2>3. Promise!CannotProceed(g)
    BY <1>0, <1>1, <1>2 DEF Promise!CannotProceed, View
  <2>4. Promise!Undecided(g)
    BY <1>1 DEF Promise!Undecided
  <2>5. Promise!Wait(g)
    BY <1>3, <2>1, <2>2, <2>3, <2>4 DEF Promise!Wait
  <2>6. Promise!Step
    BY <2>5 DEF Promise!Step
  <2>7. QED  BY <2>6, StepMaps
<1>4. CASE ~op[g].block
  <2>1. pc' = [pc EXCEPT ![g] = "done"] /\ res' = [res EXCEPT ![g] = NotSelected] /\ buf' = buf
    BY <1>4 DEF Block, Finish, Goto
  <2>2. NotSelected # None
    BY ChanAssumption DEF Results
  <2>3. Decides(g, NotSelected)
    BY <1>1, <2>1, <2>2 DEF Decides
  <2>4. g \in blocked
    BY <1>0, <1>1, <1>2, <1>4 DEF HistoryFits
  <2>5. QED  BY <1>4, <2>1, <2>3, <2>4, GiveUpRefines
<1>5. QED  BY <1>3, <1>4

\* What chansend, chanrecv and selectgo do under their locks.
LEMMA LockedRefines ==
  ASSUME QueueIInv, QueueIInv', Remember, NEW g \in Goroutines, pc[g] = "lock", Locked(g)
  PROVE  Refines
<1>1. UNCHANGED <<op, closed>>
  BY DEF Locked
<1>2. Block(g) \/ \E k \in op[g].cases : \E polled \in SUBSET {j \in op[g].cases : ~Ready(j)} :
                    Ready(k) /\ (Complete(g, k, polled) \/ Pair(g, k, polled))
  BY DEF Locked
<1>3. QED  BY <1>1, <1>2, BlockRefines, CompleteRefines, PairRefines

\* closechan: Close.
LEMMA CloseRefines ==
  ASSUME QueueIInv, QueueIInv', Remember, NEW g \in Goroutines, NEW c \in Channels, Close(g, c)
  PROVE  Refines
<1> DEFINE R == Released(c)
           W == {x \in Goroutines : pc[x] = "parked" /\ res[x] = None}
<1>0. NowFits /\ TypeOK /\ View
  BY ViewHolds DEF QueueIInv, NowFits
<1>1. /\ pc[g] = "idle" /\ ~closed[c] /\ closed' = [closed EXCEPT ![c] = TRUE]
      /\ R = {h \in Goroutines : Waiting(h) /\ (Send(c) \in op[h].cases \/ Recv(c) \in op[h].cases)}
      /\ pc' = [pc EXCEPT ![g] = "done"] /\ UNCHANGED <<buf, op>>
  BY <1>0, CloseDoes
<1>2. PICK side \in [Goroutines -> {Send(c), Recv(c)}] :
         /\ \A h \in R : side[h] \in op[h].cases
         /\ res' = [h \in Goroutines |-> IF h \in R THEN <<side[h], FALSE, None>> ELSE res[h]]
  BY <1>0, CloseDoes
<1>3. R = Promise!Waiters("send", c) \cup Promise!Waiters("recv", c) /\ R \subseteq Goroutines
  BY <1>0, <1>1 DEF View, Released
<1> HIDE DEF R
<1>4. \A h \in R : res'[h] # None
  <2>1. \A k \in Cases : <<k, FALSE, None>> \in Results
    BY DEF Results
  <2>2. \A h \in R : <<side[h], FALSE, None>> \in Results
    <3>1. \A h \in R : side[h] \in Cases
      BY <1>2, <1>3, SidesOf
    <3>2. QED  BY <2>1, <3>1
  <2>3. \A h \in R : res'[h] \in Results
    BY <1>2, <1>3, <2>2
  <2>4. QED  BY <2>3, ChanAssumption
<1>5. {x \in Goroutines : pc'[x] = "parked" /\ res'[x] = None} = W \ R
  <2>1. \A x \in Goroutines \ R : res'[x] = res[x]
    BY <1>2
  <2>2. \A x \in Goroutines : pc'[x] = "parked" <=> pc[x] = "parked"
    BY <1>0, <1>1 DEF TypeOK
  <2>3. QED  BY <1>4, <2>1, <2>2
<1> DEFINE dir == [h \in R |-> side[h][1]]
<1>6. /\ dir \in [R -> {"send", "recv"}]
      /\ \A h \in R : <<dir[h], c>> = side[h]
  <2>1. \A h \in R : side[h] = Send(c) \/ side[h] = Recv(c)
    BY <1>2, <1>3
  <2>2. \A h \in R : dir[h] = side[h][1]
    OBVIOUS
  <2>3. \A h \in R : dir[h] \in {"send", "recv"} /\ <<dir[h], c>> = side[h]
    BY <2>1, <2>2 DEF Send, Recv
  <2>4. QED  BY <2>3
<1> HIDE DEF dir
<1>7. res' = [h \in Goroutines |-> IF h \in R THEN <<<<dir[h], c>>, FALSE, None>> ELSE res[h]]
  BY <1>2, <1>6
<1>8. \A h \in R : <<dir[h], c>> \in op[h].cases
  BY <1>2, <1>6
<1>9. Promise!Close(c)
  BY <1>1, <1>3, <1>5, <1>6, <1>7, <1>8 DEF Promise!Close
<1>10. Promise!Step
  BY <1>9 DEF Promise!Step
<1>11. QED  BY <1>10, StepMaps

\* The other steps under a lock, and goready: nothing.
LEMMA OthersRefine ==
  ASSUME QueueIInv, QueueIInv', Remember, NEW g \in Goroutines,
         SelLock(g) \/ Awake(g) \/ Pass3(g) \/ Wake(g)
  PROVE  Refines
<1>0. TypeOK /\ WakesFit
  BY DEF QueueIInv
<1>1. UNCHANGED <<buf, closed, op, res>>
  BY DEF SelLock, Awake, Pass3, Wake, chans
<1>2. \A h \in Goroutines : Waiting(h)' <=> Waiting(h)
  <2>1. CASE SelLock(g)
    BY <2>1 DEF SelLock, Waiting
  <2>2. CASE Awake(g) \/ Pass3(g)
    <3>1. pc[g] = "awake" /\ \E to \in {"throw", "done"} : pc' = [pc EXCEPT ![g] = to]
      BY <2>2 DEF Awake, Pass3, Goto
    <3>2. QED  BY <1>0, <1>1, <3>1 DEF TypeOK, Waiting
  <2>3. CASE Wake(g)
    <3>1. PICK h \in Goroutines : h = Head(wake[g]) /\ res[h] # None
      <4>1. wake[g] \in Seq(Goroutines) /\ wake[g] # <<>>
        BY <1>0, <2>3 DEF Wake, TypeOK
      <4>2. Head(wake[g]) \in Goroutines /\ Head(wake[g]) = wake[g][1]
        BY <4>1, HeadTailProperties
      <4>3. 1 \in DOMAIN wake[g]
        BY <4>1, RangeIs
      <4>4. QED  BY <1>0, <4>2, <4>3 DEF WakesFit
    <3>2. \E to : pc' = [pc EXCEPT ![h] = to]
      BY <2>3, <3>1 DEF Wake, Goto
    <3>3. QED  BY <1>0, <1>1, <3>1, <3>2 DEF TypeOK, Waiting
  <2>4. QED  BY <2>1, <2>2, <2>3
<1>3. QED  BY <1>1, <1>2, Stutters

\* Every step is one of Channels, or none.
LEMMA NextRefines == QueueIInv /\ QueueIInv' /\ [Next]_vars => [Promise!Next]_(Promise!vars)
<1> SUFFICES ASSUME QueueIInv, QueueIInv', [Next]_vars  PROVE  Refines
  BY DEF Refines
<1>1. CASE UNCHANGED vars
  <2>1. UNCHANGED <<buf, closed, op, pc, res, blocked>>
    BY <1>1 DEF vars, chans
  <2>2. QED  BY <2>1 DEF Refines, Promise!vars
<1>2. ASSUME NEW g \in Goroutines, Step(g), Remember
      PROVE  Refines
  <2>1. CASE SendRecv(g) \/ Select(g)
    <3>1. pc[g] = "lock" /\ Locked(g)
      BY <2>1 DEF SendRecv, Select
    <3>2. QED  BY <1>2, <3>1, LockedRefines
  <2>2. QED  BY <1>2, <2>1, CallRefines, FastSendRefines, FastRecvRefines, CloseRefines, OthersRefine, ReturnRefines DEF Step
<1>3. QED  BY <1>1, <1>2 DEF Next

\* At first nobody calls.
LEMMA InitRefines == Init => Promise!Init
BY DEF Init, Promise!Init

\* Channels behave as Channels says: each call takes effect at once, values stay in
\* order and are neither lost nor duplicated, select does exactly one of its cases,
\* and a call gives up or waits only when it may.
THEOREM Refinement == Spec => ImplementsChannels
BY InitRefines, NextRefines, QueueInvariance, PTL DEF Spec, ImplementsChannels, Promise!Spec
==============================================================================
