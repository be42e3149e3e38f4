------------------------------ MODULE PoolChain -------------------------------
(***************************************************************************)
(* poolChain (sync/poolqueue.go): a list of dequeues 1, 2, ... in order of *)
(* allocation, each twice the size of the one before it.  The producer     *)
(* pushes to the newest and pops from the newest that has anything;        *)
(* consumers pop from the oldest and drop it when it is drained.           *)
(***************************************************************************)
EXTENDS PoolDequeue

CONSTANT Consumers  \* the goroutines that call popTail; the producer may be one

nilElt == 0
Elts == Dequeues \cup {nilElt}

ASSUME PoolChainAssumption ==
  /\ Dequeues = 1 .. Cardinality(Dequeues)
  /\ Consumers \subseteq Goroutines

VARIABLES chead, ctail,  \* c.head, c.tail
          next, prev,    \* the links of each element
          pc,            \* pc[g]: where g is in a method of the chain
          cur,           \* local variable d
          nxt            \* local variable d2 of popTail

links == <<chead, ctail, next, prev>>
locals == <<pc, cur, nxt>>
vars == <<dqvars, links, locals>>

PCs == {"idle",
  "push", "grow", "pushnew",          \* in d.pushHead, to publish d2, in d2.pushHead
  "pophead", "backup",                \* in d.popHead, to load d.prev
  "poptail", "loadnext", "pop", "drop", "unlink"}

TypeOK ==
  /\ DqTypeOK
  /\ chead \in Elts /\ ctail \in Elts
  /\ next \in [Dequeues -> Elts] /\ prev \in [Dequeues -> Elts]
  /\ pc \in [Goroutines -> PCs]
  /\ cur \in [Goroutines -> Elts] /\ nxt \in [Goroutines -> Elts]

Init ==
  /\ DqInit
  /\ chead = nilElt /\ ctail = nilElt
  /\ next = [d \in Dequeues |-> nilElt] /\ prev = [d \in Dequeues |-> nilElt]
  /\ pc = [g \in Goroutines |-> "idle"]
  /\ cur = [g \in Goroutines |-> nilElt] /\ nxt = [g \in Goroutines |-> nilElt]

Goto(g, from, to) == pc[g] = from /\ pc' = [pc EXCEPT ![g] = to]
SetCur(g, d) == cur' = [cur EXCEPT ![g] = d]
SetNxt(g, d) == nxt' = [nxt EXCEPT ![g] = d]
\* Return from the method of the chain.
Finish(g, from) == Goto(g, from, "idle") /\ SetCur(g, nilElt) /\ SetNxt(g, nilElt)

\* Whether the method of the dequeue that g called has returned.
Returned(g) == st[g] = "out"

\* Bound: the newest dequeue is not outgrown once all of Dequeues are in use.
MayPush ==
  chead + 1 \notin Dequeues =>
    ~Full(chead, headTail[chead]) /\ ~SlotInUse(chead, headTail[chead])

-----------------------------------------------------------------------------
(* pushHead *)

\* Mutation: the chain's ends are mixed up, and the oldest dequeue is pushed to as
\* long as it has room, ahead of the items in newer ones.
PushTargetOldest == ctail

\* The dequeue that is pushed to.
PushTarget == chead

\* The first push allocates the first dequeue and publishes it as tail.
Push(g) ==
  /\ g = Producer /\ MayPush
  /\ Goto(g, "idle", "push")
  /\ item[g] = None /\ \E i \in Items : CallPush(g, i)
  /\ IF chead = nilElt
       THEN SetCur(g, 1) /\ chead' = 1 /\ ctail' = 1
       ELSE SetCur(g, PushTarget) /\ UNCHANGED <<chead, ctail>>
  /\ UNCHANGED <<next, prev, nxt>>

PushDone(g) ==
  /\ Finish(g, "push")
  /\ Returned(g) /\ item[g] = None
  /\ UNCHANGED <<dqvars, links>>

\* d is full: a new dequeue, linked back to d, becomes the head ...
Grow(g) ==
  /\ Goto(g, "push", "grow")
  /\ Returned(g) /\ item[g] # None
  /\ prev' = [prev EXCEPT ![cur[g] + 1] = cur[g]]
  /\ chead' = cur[g] + 1
  /\ UNCHANGED <<dqvars, ctail, next, cur, nxt>>

\* ... d is linked to it, and d2.pushHead is called.
GrowLink(g) ==
  /\ Goto(g, "grow", "pushnew")
  /\ next' = [next EXCEPT ![cur[g]] = chead]
  /\ SetCur(g, chead)
  /\ CallPush(g, item[g])
  /\ UNCHANGED <<chead, ctail, prev, nxt>>

\* What d2.pushHead returns is not looked at.
PushNewDone(g) ==
  /\ Finish(g, "pushnew")
  /\ Returned(g)
  /\ UNCHANGED <<dqvars, links>>

-----------------------------------------------------------------------------
(* popHead *)

PopHead(g) ==
  /\ g = Producer /\ item[g] = None
  /\ chead # nilElt
  /\ Goto(g, "idle", "pophead")
  /\ SetCur(g, chead)
  /\ CallPopHead(g)
  /\ UNCHANGED <<links, nxt>>

\* The dequeue was empty: back up to the previous one, which may be nil.
PopHeadBack(g) ==
  /\ pc[g] = "pophead" /\ Returned(g) /\ item[g] = None
  /\ IF prev[cur[g]] = nilElt
       THEN Finish(g, "pophead") /\ UNCHANGED dqvars
       ELSE Goto(g, "pophead", "pophead") /\ SetCur(g, prev[cur[g]]) /\ CallPopHead(g) /\ UNCHANGED nxt
  /\ UNCHANGED links

-----------------------------------------------------------------------------
(* popTail *)

PopTail(g) ==
  /\ g \in Consumers /\ item[g] = None
  /\ ctail # nilElt
  /\ Goto(g, "idle", "loadnext")
  /\ SetCur(g, ctail)
  /\ UNCHANGED <<dqvars, links, nxt>>

\* next is loaded before the pop.
PopTailNext(g) ==
  /\ Goto(g, "loadnext", "pop")
  /\ SetNxt(g, next[cur[g]])
  /\ CallPopTail(g)
  /\ UNCHANGED <<links, cur>>

\* Mutation: next is loaded after the pop has failed.
DrainedLoadsNext(g) ==
  /\ pc[g] = "pop" /\ Returned(g) /\ item[g] = None
  /\ IF next[cur[g]] = nilElt
       THEN Finish(g, "pop")
       ELSE Goto(g, "pop", "drop") /\ SetNxt(g, next[cur[g]]) /\ UNCHANGED cur
  /\ UNCHANGED <<dqvars, links>>

\* The dequeue was empty.
Drained(g) ==
  /\ pc[g] = "pop" /\ Returned(g) /\ item[g] = None
  /\ IF nxt[g] = nilElt
       THEN Finish(g, "pop")
       ELSE Goto(g, "pop", "drop") /\ UNCHANGED <<cur, nxt>>
  /\ UNCHANGED <<dqvars, links>>

\* CAS(&c.tail, d, d2); who loses it goes on with d2 all the same.
PopTailDrop(g) ==
  /\ IF ctail = cur[g]
       THEN Goto(g, "drop", "unlink") /\ ctail' = nxt[g] /\ UNCHANGED <<cur, nxt>>
       ELSE Goto(g, "drop", "loadnext") /\ SetCur(g, nxt[g]) /\ SetNxt(g, nilElt) /\ UNCHANGED ctail
  /\ UNCHANGED <<dqvars, chead, next, prev>>

\* d2.prev = nil.
PopTailUnlink(g) ==
  /\ Goto(g, "unlink", "loadnext")
  /\ prev' = [prev EXCEPT ![nxt[g]] = nilElt]
  /\ SetCur(g, nxt[g]) /\ SetNxt(g, nilElt)
  /\ UNCHANGED <<dqvars, chead, ctail, next>>

-----------------------------------------------------------------------------
\* A method of the chain returns the item that the dequeue's method returned.
PopDone(g) ==
  /\ Finish(g, "pophead") \/ Finish(g, "pop")
  /\ DqReturn(g)
  /\ UNCHANGED links

InDequeue(g) ==
  /\ ~Returned(g)
  /\ PushStep(g, cur[g]) \/ PushFails(g, cur[g]) \/ PopStep(g, cur[g]) \/ PopFails(g, cur[g])
  /\ UNCHANGED <<links, locals>>

Step(g) ==
  \/ Push(g) \/ PushDone(g) \/ Grow(g) \/ GrowLink(g) \/ PushNewDone(g)
  \/ PopHead(g) \/ PopHeadBack(g)
  \/ PopTail(g) \/ PopTailNext(g) \/ Drained(g) \/ PopTailDrop(g) \/ PopTailUnlink(g)
  \/ PopDone(g) \/ InDequeue(g)

Next == \E g \in Goroutines : Step(g)
Spec == Init /\ [][Next]_vars

-----------------------------------------------------------------------------
(* Properties. *)

\* The chain as one queue: its dequeues' items, oldest dequeue first.
ItemsUpTo[n \in Nat] == IF n = 0 THEN <<>> ELSE ItemsUpTo[n - 1] \o Contents(n)
AllItems == ItemsUpTo[Cardinality(Dequeues)]

\* What a push of the chain still has to bring into the queue.
InPush(g) == pc[g] \in {"push", "grow", "pushnew"}

\* Growing the chain and dropping drained dequeues, concurrently with everything
\* else, neither loses, duplicates nor reorders an item: the producer pops the
\* newest item, whoever pops at the tail the oldest, each the very value that was
\* pushed, and no push is dropped.  poolChain implements a Deque.
ChainAbstract == INSTANCE Deque WITH
                   queue <- AllItems,
                   pushing <- IF InPush(Producer) THEN item[Producer] ELSE None,
                   hand <- [g \in Goroutines |-> IF InPush(g) THEN None
                                                 ELSE IF cur[g] = nilElt THEN item[g]
                                                 ELSE InHand(g, cur[g])]
ImplementsDequeChain == ChainAbstract!Spec

\* From c.head back along prev there is a way to these dequeues.
ReachableBack[n \in Nat] == IF n = nilElt THEN {} ELSE {n} \cup ReachableBack[prev[n]]

\* "d is permanently empty, which is the only condition under which it's safe to
\* drop d from the chain": what is behind c.tail holds no item, and never will,
\* and popHead can still walk back to every dequeue that holds one.  Nor is an
\* item lost at the other end: pushHead ignores what the push to the dequeue it
\* has just allocated returns, which must have succeeded.
NothingIsDropped ==
  /\ TypeOK
  /\ \A d \in Dequeues : d < ctail => Count(d) = 0 /\ d # chead
  /\ \A d \in Dequeues : Count(d) > 0 => d \in ReachableBack[chead]
  /\ \A g \in Goroutines : pc[g] = "pushnew" /\ Returned(g) => item[g] = None

\* The owner of a slot is the pusher up to its AddUint64, and the popper from its
\* CAS until it has cleared the slot.
Owns(g, d, i) ==
  /\ cur[g] = d
  /\ \/ st[g] \in {"pushval", "pushadd"} /\ i = head(ptrs[g]) % Size[d]
     \/ st[g] \in {"headread", "headzero"} /\ i = PoppedHead(g) % Size[d]
     \/ st[g] \in {"tailread", "tailval", "tailtyp"} /\ i = tail(ptrs[g]) % Size[d]
Owners(d, i) == {g \in Goroutines : Owns(g, d, i)}
InQueue(d, i) == (i + Mod - tail(headTail[d])) % Size[d] < Count(d)

\* No two goroutines work on the same slot of a dequeue, and none on a slot that
\* is in the queue; and "we don't leave behind references that could keep this
\* object live longer than necessary": a slot that is neither is empty.
SlotsAreOwned ==
  \A d \in Dequeues : \A i \in 0 .. Size[d] - 1 :
    /\ Cardinality(Owners(d, i)) <= 1
    /\ InQueue(d, i) => Owners(d, i) = {}
    /\ vals[d][i] = EmptySlot \/ InQueue(d, i) \/ Owners(d, i) # {}
=============================================================================
