----------------------------- MODULE MCPoolChain ------------------------------
(* A small instance of PoolChain for TLC. *)
EXTENDS PoolChain, TLC

CONSTANTS p, c1, c2, a, nil, Elements, Limit

MCGoroutines == {p, c1, c2}
MCDequeues == 1 .. Elements
\* The first dequeue has one slot, each further one twice as many up to
\* dequeueLimit, which is 1 or 2 here.
MCSize == [d \in MCDequeues |-> IF d = 1 THEN 1 ELSE Limit]
\* Two values, so that the order of the items in a queue can be seen, one of them
\* the nil that a slot cannot hold as it is.
MCItems == {a, nil}
MCConsumers == {c1, c2}
MCSymmetry == Permutations(MCConsumers)
=============================================================================
