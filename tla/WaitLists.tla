------------------------------ MODULE WaitLists ------------------------------
(***************************************************************************)
(* What a semaRoot promises semacquire1 and semrelease1: one wait list per *)
(* address, entered at the tail or the head and left at the head.          *)
(***************************************************************************)
EXTENDS Sequences

CONSTANTS Sudogs, Addr, None

VARIABLES list,  \* list[a]: the sudogs waiting on a, the next one to leave first
          got    \* what the last dequeue returned

vars == <<list, got>>

Init == list = [a \in Addr |-> <<>>] /\ got = None

Waiting == UNION {{list[a][i] : i \in DOMAIN list[a]} : a \in Addr}

Enqueue(a, s, lifo) ==
  /\ s \notin Waiting
  /\ list' = [list EXCEPT ![a] = IF lifo THEN <<s>> \o @ ELSE Append(@, s)]
  /\ got' = None

Dequeue(a) ==
  IF list[a] = <<>>
    THEN got' = None /\ UNCHANGED list
    ELSE got' = Head(list[a]) /\ list' = [list EXCEPT ![a] = Tail(@)]

Next == \E a \in Addr : Dequeue(a) \/ \E s \in Sudogs, lifo \in BOOLEAN : Enqueue(a, s, lifo)

Spec == Init /\ [][Next]_vars
=============================================================================
