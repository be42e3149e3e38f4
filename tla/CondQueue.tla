------------------------------ MODULE CondQueue ------------------------------
(***************************************************************************)
(* What a sync.Cond promises (sync/cond.go): goroutines wait in the order  *)
(* they arrive, a Signal wakes the first of them, a Broadcast all of them, *)
(* and Wait does not return unless woken by one of the two.                *)
(***************************************************************************)
EXTENDS Sequences

CONSTANTS Goroutines

VARIABLES queue,  \* goroutines that wait, in order of arrival
          woken   \* goroutines that have been woken and not yet returned

vars == <<queue, woken>>

Members == {queue[i] : i \in DOMAIN queue}

Init == queue = <<>> /\ woken = {}

Join(g) ==
  /\ g \notin Members \cup woken
  /\ queue' = Append(queue, g)
  /\ UNCHANGED woken

Signal ==
  /\ queue # <<>>
  /\ woken' = woken \cup {Head(queue)}
  /\ queue' = Tail(queue)

Broadcast ==
  /\ woken' = woken \cup Members
  /\ queue' = <<>>

Leave(g) ==
  /\ g \in woken
  /\ woken' = woken \ {g}
  /\ UNCHANGED queue

Next == Signal \/ Broadcast \/ \E g \in Goroutines : Join(g) \/ Leave(g)

Spec == Init /\ [][Next]_vars
=============================================================================
