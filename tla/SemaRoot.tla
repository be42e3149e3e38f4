------------------------------ MODULE SemaRoot -------------------------------
(***************************************************************************)
(* The treap of a semaRoot (runtime/sema.go): a binary search tree of      *)
(* sudogs with distinct addresses, heap-ordered by random tickets, each    *)
(* the head of a list of sudogs that wait for the same address.  queue,    *)
(* dequeue and the rotations run under the root lock: each is one step.    *)
(***************************************************************************)
EXTENDS Integers, Sequences, FiniteSets

CONSTANTS Sudogs,
          Addr,     \* addresses of words, ordered as integers
          Tickets,  \* values of fastrand() | 1
          Nil

ASSUME SemaRootAssumption ==
  /\ Nil \notin Sudogs
  /\ Addr \subseteq Nat
  /\ Tickets \subseteq Nat \ {0}

VARIABLES root,  \* the semaRoot's field treap
          node,  \* node[s]: the fields of sudog s that the treap uses
          got    \* what the last dequeue returned

vars == <<root, node, got>>

Ptr == Sudogs \cup {Nil}
SudogFields == [elem : Addr \cup {Nil}, prev : Ptr, next : Ptr, parent : Ptr,
                waitlink : Ptr, waittail : Ptr, ticket : Tickets \cup {0}]
Fresh == [elem |-> Nil, prev |-> Nil, next |-> Nil, parent |-> Nil,
          waitlink |-> Nil, waittail |-> Nil, ticket |-> 0]

Init ==
  /\ root = Nil
  /\ node = [s \in Sudogs |-> Fresh]
  /\ got = Nil

-----------------------------------------------------------------------------
(* The code works on t = [root, node], a treap being rearranged. *)

\* x.parent = p, if x is a node.
SetParent(t, x, p) == IF x = Nil THEN t ELSE [t EXCEPT !.node[x].parent = p]

\* The child pointer of p, or the root, that points to x is made to point to y.
Relink(t, p, x, y) ==
  IF p = Nil THEN [t EXCEPT !.root = y]
  ELSE IF t.node[p].prev = x THEN [t EXCEPT !.node[p].prev = y]
  ELSE [t EXCEPT !.node[p].next = y]

\* rotateLeft: (x a (y b c)) becomes (y (x a b) c).
RotateLeft(t, x) ==
  LET p == t.node[x].parent
      y == t.node[x].next
      b == t.node[y].prev
      turned == [t EXCEPT !.node[y].prev = x, !.node[x].parent = y,
                          !.node[x].next = b, !.node[y].parent = p]
  IN Relink(SetParent(turned, b, x), p, x, y)

\* rotateRight: (y (x a b) c) becomes (x a (y b c)).
RotateRight(t, y) ==
  LET p == t.node[y].parent
      x == t.node[y].prev
      b == t.node[x].next
      turned == [t EXCEPT !.node[x].next = y, !.node[y].parent = x,
                          !.node[y].prev = b, !.node[x].parent = p]
  IN Relink(SetParent(turned, b, y), p, y, x)

\* The search of queue and dequeue: the node of address a below x, or Nil, and
\* the last node passed.
RECURSIVE Search(_, _, _, _)
Search(t, a, x, last) ==
  IF x = Nil \/ t.node[x].elem = a THEN <<x, last>>
  ELSE Search(t, a, IF a < t.node[x].elem THEN t.node[x].prev ELSE t.node[x].next, x)

\* queue: rotate s up according to its ticket.
RECURSIVE SiftUp(_, _)
SiftUp(t, s) ==
  LET p == t.node[s].parent IN
  IF p = Nil \/ t.node[p].ticket <= t.node[s].ticket THEN t
  ELSE SiftUp(IF t.node[p].prev = s THEN RotateRight(t, p) ELSE RotateLeft(t, p), s)

\* Mutation: the lighter child goes down first.
GoesRightByHeavier(t, s) ==
  LET l == t.node[s].prev  r == t.node[s].next IN
    r = Nil \/ (l # Nil /\ t.node[l].ticket > t.node[r].ticket)

\* dequeue: s goes down to the right if its left child is the one to go up.
GoesRight(t, s) ==
  LET l == t.node[s].prev  r == t.node[s].next IN
    r = Nil \/ (l # Nil /\ t.node[l].ticket < t.node[r].ticket)

\* dequeue: rotate s down to be a leaf, respecting priorities.
RECURSIVE SiftDown(_, _)
SiftDown(t, s) ==
  IF t.node[s].prev = Nil /\ t.node[s].next = Nil THEN t
  ELSE SiftDown(IF GoesRight(t, s) THEN RotateRight(t, s) ELSE RotateLeft(t, s), s)

-----------------------------------------------------------------------------
\* queue: the address has a node x already; s takes its place in the treap and
\* puts x first in its wait list.
Substitute(t, s, x) ==
  LET o == t.node[x]
      t1 == [t EXCEPT
               !.node[s] = [@ EXCEPT !.ticket = o.ticket, !.parent = o.parent,
                                     !.prev = o.prev, !.next = o.next, !.waitlink = x,
                                     !.waittail = IF o.waittail = Nil THEN x ELSE o.waittail],
               !.node[x] = [@ EXCEPT !.parent = Nil, !.prev = Nil, !.next = Nil, !.waittail = Nil]]
  IN Relink(SetParent(SetParent(t1, o.prev, s), o.next, s), o.parent, x, s)

\* Mutation: the tail of the list is not moved.
AppendWaiterKeepsTail(t, s, x) ==
  LET last == IF t.node[x].waittail = Nil THEN x ELSE t.node[x].waittail IN
    [t EXCEPT !.node[last].waitlink = s,
              !.node[x].waittail = IF @ = Nil THEN s ELSE @,
              !.node[s].waitlink = Nil]

\* queue: s goes to the end of x's wait list.
AppendWaiter(t, s, x) ==
  LET last == IF t.node[x].waittail = Nil THEN x ELSE t.node[x].waittail IN
    [t EXCEPT !.node[last].waitlink = s, !.node[x].waittail = s, !.node[s].waitlink = Nil]

\* queue: s becomes a new leaf below last, and rises.
AddLeaf(t, s, last, ticket) ==
  LET t1 == [t EXCEPT !.node[s].ticket = ticket, !.node[s].parent = last]
      t2 == IF last = Nil THEN [t1 EXCEPT !.root = s]
            ELSE IF t.node[s].elem < t.node[last].elem THEN [t1 EXCEPT !.node[last].prev = s]
            ELSE [t1 EXCEPT !.node[last].next = s]
  IN SiftUp(t2, s)

\* dequeue: x, the next in the list, takes the place of s in the treap.
Succeed(t, s, x) ==
  LET o == t.node[s]
      t1 == [t EXCEPT
               !.node[x] = [@ EXCEPT !.ticket = o.ticket, !.parent = o.parent,
                                     !.prev = o.prev, !.next = o.next,
                                     !.waittail = IF t.node[x].waitlink # Nil THEN o.waittail ELSE Nil],
               !.node[s].waitlink = Nil, !.node[s].waittail = Nil]
  IN Relink(SetParent(SetParent(t1, o.prev, x), o.next, x), o.parent, s, x)

\* dequeue: the last waiter of its address leaves the treap.
RemoveLeaf(t, s) ==
  LET down == SiftDown(t, s) IN Relink(down, down.node[s].parent, s, Nil)

Install(t) == root' = t.root /\ node' = t.node

\* queue(addr, s, lifo), for a sudog that waits nowhere.
Queue(a, s, lifo) ==
  /\ node[s].elem = Nil
  /\ LET t == [root |-> root,
               node |-> [node EXCEPT ![s].elem = a, ![s].prev = Nil, ![s].next = Nil,
                                     ![s].ticket = 0]]  \* semacquire1: s.ticket = 0
         found == Search(t, a, root, Nil)
     IN IF found[1] # Nil
          THEN Install(IF lifo THEN Substitute(t, s, found[1]) ELSE AppendWaiter(t, s, found[1]))
          ELSE \E ticket \in Tickets : Install(AddLeaf(t, s, found[2], ticket))
  /\ got' = Nil

\* dequeue(addr): the first goroutine blocked on addr, or nil.
Dequeue(a) ==
  LET t == [root |-> root, node |-> node]
      s == Search(t, a, root, Nil)[1]
  IN IF s = Nil
       THEN got' = Nil /\ UNCHANGED <<root, node>>
       ELSE /\ LET x == node[s].waitlink
                   left == IF x # Nil THEN Succeed(t, s, x) ELSE RemoveLeaf(t, s)
               IN Install([left EXCEPT !.node[s].parent = Nil, !.node[s].elem = Nil,
                                       !.node[s].prev = Nil, !.node[s].next = Nil,
                                       !.node[s].ticket = 0])
            /\ got' = s

Next == \E a \in Addr : Dequeue(a) \/ \E s \in Sudogs, lifo \in BOOLEAN : Queue(a, s, lifo)

Spec == Init /\ [][Next]_vars

-----------------------------------------------------------------------------
(* Properties. *)

Treap == [root |-> root, node |-> node]

\* The treap nodes below x, and the wait list that starts at x, as far as
\* pointers lead in a well-formed structure of at most n sudogs.
RECURSIVE Below(_, _)
Below(x, n) ==
  IF x = Nil \/ n = 0 THEN {}
  ELSE {x} \cup Below(node[x].prev, n - 1) \cup Below(node[x].next, n - 1)
RECURSIVE WaitList(_, _)
WaitList(x, n) == IF x = Nil \/ n = 0 THEN <<>> ELSE <<x>> \o WaitList(node[x].waitlink, n - 1)

N == Cardinality(Sudogs)
Nodes == Below(root, N)

TypeOK == root \in Ptr /\ node \in [Sudogs -> SudogFields] /\ got \in Ptr

\* "It is a binary tree ordered according to the elem addresses" and "heap
\* ordering on the ticket" (queue), after any sequence of rotations and of
\* substitutions of one waiter for another.  A ticket "is compared with zero in
\* couple of places", so that of a sudog in the treap is never 0; and parent
\* pointers agree with child pointers, on which the rotations and the throws
\* "semaRoot rotateLeft" and "semaRoot rotateRight" rely.  releaseSudog throws
\* for a sudog with a non-nil elem, next, prev or waitlink, and semrelease1 for
\* one with a ticket: dequeue leaves none of them behind, nor a waittail that a
\* later wait would inherit.
TreapWellFormed ==
  /\ TypeOK
  /\ root # Nil => node[root].parent = Nil
  /\ \A x \in Nodes :
       /\ node[x].ticket # 0
       /\ \A c \in {node[x].prev, node[x].next} \ {Nil} : node[c].parent = x
       /\ \A y \in Below(node[x].prev, N) : node[y].elem < node[x].elem /\ node[y].ticket >= node[x].ticket
       /\ \A y \in Below(node[x].next, N) : node[y].elem > node[x].elem /\ node[y].ticket >= node[x].ticket
  /\ got # Nil => node[got] = Fresh

\* The treap implements one wait list per address: nobody is lost, skipped or
\* found under another address, whatever the order of arrivals and tickets.
Abstract == INSTANCE WaitLists WITH
              None <- Nil,
              list <- [a \in Addr |-> WaitList(Search(Treap, a, root, Nil)[1], N)]
ImplementsWaitLists == Abstract!Spec
=============================================================================
