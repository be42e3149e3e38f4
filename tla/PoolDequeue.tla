----------------------------- MODULE PoolDequeue ------------------------------
(***************************************************************************)
(* poolDequeue (sync/poolqueue.go): ring buffers with a head and a tail    *)
(* index packed into one word.  pushHead and popHead are called by one     *)
(* producer, popTail by anybody.  The operators are the atomic steps of    *)
(* the three methods on dequeue d; a caller's module conjoins them with    *)
(* its own program counter.  Indices wrap at Mod = 1 << dequeueBits.       *)
(***************************************************************************)
EXTENDS Naturals, Sequences, FiniteSets

CONSTANTS Goroutines,
          Dequeues,  \* the ring buffers
          Producer,  \* the goroutine that may call pushHead and popHead
          Size,      \* Size[d]: len(d.vals)
          Mod,       \* 1 << dequeueBits
          Items,     \* the values pushed
          NilItem,   \* the value interface{}(nil), which may be among them
          None       \* no item

ASSUME PoolDequeueAssumption ==
  /\ Mod \in Nat
  /\ \A d \in Dequeues : Size[d] \in Nat \ {0} /\ 2 * Size[d] <= Mod /\ Mod % Size[d] = 0
  /\ None \notin Items
  /\ Producer \in Goroutines

VARIABLES headTail,  \* headTail[d] = <<head, tail>>
          vals,      \* vals[d]: the slots of d
          st,        \* st[g]: where g is in a method, "out" if in none
          ptrs,      \* local variable ptrs
          item       \* the argument of pushHead, or what popHead, popTail have read

dqvars == <<headTail, vals, st, ptrs, item>>

\* The words of a slot: typ is nil, a type, or the type dequeueNil of the
\* sentinel that stands for a nil item.
TypOf(i) == IF i = NilItem THEN "dequeueNil" ELSE "type"
ValOf(i) == IF i = NilItem THEN None ELSE i
EmptySlot == [typ |-> "nil", val |-> None]
ItemIn(slot) == IF slot.typ = "dequeueNil" THEN NilItem ELSE slot.val

DqStates == {"out",
  "push", "pushslot", "pushval", "pushadd",  \* about to load, to look at the slot, to
                                             \* write its second word, to increment head
  "headload", "headcas", "headread", "headzero",          \* popHead
  "tailload", "tailcas", "tailread", "tailval", "tailtyp"}  \* popTail

Index == 0 .. Mod - 1

DqTypeOK ==
  /\ headTail \in [Dequeues -> Index \X Index]
  /\ \A d \in Dequeues :
       vals[d] \in [0 .. Size[d] - 1 -> [typ : {"nil", "type", "dequeueNil"}, val : Items \cup {None}]]
  /\ st \in [Goroutines -> DqStates]
  /\ ptrs \in [Goroutines -> Index \X Index]
  /\ item \in [Goroutines -> Items \cup {None}]

DqInit ==
  /\ headTail = [d \in Dequeues |-> <<0, 0>>]
  /\ vals = [d \in Dequeues |-> [i \in 0 .. Size[d] - 1 |-> EmptySlot]]
  /\ st = [g \in Goroutines |-> "out"]
  /\ ptrs = [g \in Goroutines |-> <<0, 0>>]
  /\ item = [g \in Goroutines |-> None]

head(p) == p[1]
tail(p) == p[2]
Slot(d, i) == vals[d][i % Size[d]]
SetSlot(d, i, slot) == vals' = [vals EXCEPT ![d][i % Size[d]] = slot]

To(g, s) == st' = [st EXCEPT ![g] = s]
At(g, from, to) == st[g] = from /\ To(g, to)
Load(g, d) == ptrs' = [ptrs EXCEPT ![g] = headTail[d]]
\* Return from the method; the local variables are gone.
Leave(g, from) == At(g, from, "out") /\ ptrs' = [ptrs EXCEPT ![g] = <<0, 0>>]

\* CAS(&d.headTail, ptrs, new): on success on to state s, else load again.
CAS(g, d, new, s, again) ==
  IF headTail[d] = ptrs[g]
    THEN headTail' = [headTail EXCEPT ![d] = new] /\ To(g, s)
    ELSE UNCHANGED headTail /\ To(g, again)

-----------------------------------------------------------------------------
(* pushHead *)

Full(d, p) == (tail(p) + Size[d]) % Mod = head(p)

CallPush(g, i) ==
  /\ At(g, "out", "push")
  /\ item' = [item EXCEPT ![g] = i]
  /\ UNCHANGED <<headTail, vals, ptrs>>

PushLoad(g, d) ==
  /\ At(g, "push", "pushslot")
  /\ ~Full(d, headTail[d])
  /\ Load(g, d)
  /\ UNCHANGED <<headTail, vals, item>>

\* Another goroutine is still cleaning up the slot at head.
SlotInUse(d, p) == Slot(d, head(p)).typ # "nil"

\* pushHead returns false: the queue is full, or the slot is still in use.
PushFails(g, d) ==
  /\ \/ Leave(g, "push") /\ Full(d, headTail[d])
     \/ Leave(g, "pushslot") /\ SlotInUse(d, ptrs[g])
  /\ UNCHANGED <<headTail, vals, item>>

\* The slot is written one word after the other.
PushTyp(g, d) ==
  /\ At(g, "pushslot", "pushval")
  /\ ~SlotInUse(d, ptrs[g])
  /\ LET h == head(ptrs[g]) IN SetSlot(d, h, [Slot(d, h) EXCEPT !.typ = TypOf(item[g])])
  /\ UNCHANGED <<headTail, ptrs, item>>

PushVal(g, d) ==
  /\ At(g, "pushval", "pushadd")
  /\ LET h == head(ptrs[g]) IN SetSlot(d, h, [Slot(d, h) EXCEPT !.val = ValOf(item[g])])
  /\ UNCHANGED <<headTail, ptrs, item>>

\* Mutation: the load-and-store of a word that popTail changes concurrently.
PushStores(g, d) ==
  /\ Leave(g, "pushadd")
  /\ headTail' = [headTail EXCEPT ![d] = <<(head(ptrs[g]) + 1) % Mod, tail(ptrs[g])>>]
  /\ item' = [item EXCEPT ![g] = None]
  /\ UNCHANGED vals

\* Increment head, whatever tail is by now; pushHead returns true.
PushAdd(g, d) ==
  /\ Leave(g, "pushadd")
  /\ headTail' = [headTail EXCEPT ![d] = <<(head(@) + 1) % Mod, tail(@)>>]
  /\ item' = [item EXCEPT ![g] = None]
  /\ UNCHANGED vals

-----------------------------------------------------------------------------
(* popHead *)

IsEmpty(p) == head(p) = tail(p)

CallPopHead(g) == At(g, "out", "headload") /\ UNCHANGED <<headTail, vals, ptrs, item>>

PopHeadLoad(g, d) ==
  /\ At(g, "headload", "headcas")
  /\ ~IsEmpty(headTail[d])
  /\ Load(g, d)
  /\ UNCHANGED <<headTail, vals, item>>

\* Confirm tail and decrement head.
PopHeadCAS(g, d) ==
  /\ st[g] = "headcas"
  /\ CAS(g, d, <<(head(ptrs[g]) + Mod - 1) % Mod, tail(ptrs[g])>>, "headread", "headload")
  /\ UNCHANGED <<vals, ptrs, item>>

PoppedHead(g) == head(ptrs[g]) + Mod - 1

PopHeadRead(g, d) ==
  /\ At(g, "headread", "headzero")
  /\ item' = [item EXCEPT ![g] = ItemIn(Slot(d, PoppedHead(g)))]
  /\ UNCHANGED <<headTail, vals, ptrs>>

\* *slot = eface{}, and return.
PopHeadZero(g, d) ==
  /\ Leave(g, "headzero")
  /\ SetSlot(d, PoppedHead(g), EmptySlot)
  /\ UNCHANGED <<headTail, item>>

-----------------------------------------------------------------------------
(* popTail *)

CallPopTail(g) == At(g, "out", "tailload") /\ UNCHANGED <<headTail, vals, ptrs, item>>

PopTailLoad(g, d) ==
  /\ At(g, "tailload", "tailcas")
  /\ ~IsEmpty(headTail[d])
  /\ Load(g, d)
  /\ UNCHANGED <<headTail, vals, item>>

\* Confirm head and tail and increment tail.
PopTailCAS(g, d) ==
  /\ st[g] = "tailcas"
  /\ CAS(g, d, <<head(ptrs[g]), (tail(ptrs[g]) + 1) % Mod>>, "tailread", "tailload")
  /\ UNCHANGED <<vals, ptrs, item>>

PopTailRead(g, d) ==
  /\ At(g, "tailread", "tailval")
  /\ item' = [item EXCEPT ![g] = ItemIn(Slot(d, tail(ptrs[g])))]
  /\ UNCHANGED <<headTail, vals, ptrs>>

\* Mutation: the slot is published before its value is cleared.
PopTailValLate(g, d) ==
  /\ At(g, "tailval", "tailtyp")
  /\ LET t == tail(ptrs[g]) IN SetSlot(d, t, [Slot(d, t) EXCEPT !.typ = "nil"])
  /\ UNCHANGED <<headTail, ptrs, item>>

\* slot.val = nil, then slot.typ = nil, with which pushHead owns the slot.
PopTailVal(g, d) ==
  /\ At(g, "tailval", "tailtyp")
  /\ LET t == tail(ptrs[g]) IN SetSlot(d, t, [Slot(d, t) EXCEPT !.val = None])
  /\ UNCHANGED <<headTail, ptrs, item>>

PopTailTyp(g, d) ==
  /\ Leave(g, "tailtyp")
  /\ LET t == tail(ptrs[g]) IN SetSlot(d, t, [Slot(d, t) EXCEPT !.typ = "nil"])
  /\ UNCHANGED <<headTail, item>>

\* popHead and popTail return false: the queue is empty.
PopFails(g, d) ==
  /\ Leave(g, "headload") \/ Leave(g, "tailload")
  /\ IsEmpty(headTail[d])
  /\ UNCHANGED <<headTail, vals, item>>

-----------------------------------------------------------------------------
\* The items of d from tail to head.
Count(d) == (head(headTail[d]) + Mod - tail(headTail[d])) % Mod
Contents(d) == [k \in 1 .. Count(d) |-> ItemIn(Slot(d, tail(headTail[d]) + k - 1))]

\* What g has in its hand while it is in a method of d: popHead and popTail own
\* the item from their CAS on.
InHand(g, d) ==
  CASE st[g] = "headread" -> ItemIn(Slot(d, PoppedHead(g)))
    [] st[g] = "tailread" -> ItemIn(Slot(d, tail(ptrs[g])))
    [] OTHER -> item[g]

PushStep(g, d) == PushLoad(g, d) \/ PushTyp(g, d) \/ PushVal(g, d) \/ PushAdd(g, d)
PopStep(g, d) ==
  \/ PopHeadLoad(g, d) \/ PopHeadCAS(g, d) \/ PopHeadRead(g, d) \/ PopHeadZero(g, d)
  \/ PopTailLoad(g, d) \/ PopTailCAS(g, d) \/ PopTailRead(g, d) \/ PopTailVal(g, d) \/ PopTailTyp(g, d)

\* The caller gets the item.
DqReturn(g) ==
  /\ st[g] = "out" /\ item[g] # None
  /\ item' = [item EXCEPT ![g] = None]
  /\ UNCHANGED <<headTail, vals, st, ptrs>>
=============================================================================
