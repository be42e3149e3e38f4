-------------------------------- MODULE Deque --------------------------------
(***************************************************************************)
(* What poolDequeue and poolChain promise (comments of poolDequeue): a     *)
(* queue that one producer pushes to and pops from at the head while any   *)
(* number of consumers pop from the tail.  An item that is pushed gets     *)
(* into the queue, and leaves it at one of its ends, in one hand.          *)
(***************************************************************************)
EXTENDS Naturals, Sequences

CONSTANTS Goroutines, Producer, Items, None

VARIABLES queue,    \* the items, tail first
          pushing,  \* the item the producer is about to push, or None
          hand      \* hand[g]: the item g has popped, or None

vars == <<pushing, hand, queue>>

Init ==
  /\ queue = <<>>
  /\ pushing = None
  /\ hand = [g \in Goroutines |-> None]

\* The producer calls pushHead.
Offer ==
  /\ pushing = None /\ hand[Producer] = None
  /\ pushing' \in Items
  /\ UNCHANGED <<hand, queue>>

\* The one way for a call of pushHead to end.
Push ==
  /\ pushing # None /\ pushing' = None
  /\ queue' = Append(queue, pushing)
  /\ UNCHANGED hand

\* g has popped an item, hand'[g].
Gets(g) ==
  /\ hand[g] = None /\ hand'[g] \in Items
  /\ hand' = [hand EXCEPT ![g] = hand'[g]]

PopHead ==
  /\ pushing = None
  /\ Gets(Producer) /\ queue = Append(queue', hand'[Producer])
  /\ UNCHANGED pushing

PopTail(g) ==
  /\ Gets(g) /\ queue = <<hand'[g]>> \o queue'
  /\ UNCHANGED pushing

\* A pop returns its item.
Return(g) ==
  /\ hand[g] # None /\ hand'[g] = None
  /\ hand' = [hand EXCEPT ![g] = None]
  /\ UNCHANGED <<pushing, queue>>

Next == Offer \/ Push \/ PopHead \/ \E g \in Goroutines : PopTail(g) \/ Return(g)

Spec == Init /\ [][Next]_vars
=============================================================================
