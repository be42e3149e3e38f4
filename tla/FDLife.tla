------------------------------- MODULE FDLife --------------------------------
(***************************************************************************)
(* What poll.FD promises (comments of fd_mutex.go and of FD.Close): any    *)
(* number of operations use the descriptor, at most one of them reads and  *)
(* at most one writes; after Close no operation starts; the descriptor is  *)
(* destroyed once, when Close has been called and nobody uses it any more. *)
(***************************************************************************)
CONSTANTS Goroutines

VARIABLES status,  \* "open", "closing" or "destroyed"
          users,   \* goroutines that use the descriptor
          locked   \* locked[m]: the users that hold the read or write lock

vars == <<status, users, locked>>

Init ==
  /\ status = "open"
  /\ users = {}
  /\ locked = [m \in {"r", "w"} |-> {}]

Lock(g, m) ==
  /\ status = "open" /\ g \notin users /\ locked[m] = {}
  /\ users' = users \cup {g}
  /\ locked' = [locked EXCEPT ![m] = {g}]
  /\ UNCHANGED status

Use(g) ==
  /\ status = "open" /\ g \notin users
  /\ users' = users \cup {g}
  /\ UNCHANGED <<status, locked>>

Close(g) ==
  /\ status = "open" /\ g \notin users
  /\ status' = "closing"
  /\ users' = users \cup {g}
  /\ UNCHANGED locked

Leave(g) ==
  /\ g \in users
  /\ users' = users \ {g}
  /\ locked' = [m \in {"r", "w"} |-> locked[m] \ {g}]
  /\ UNCHANGED status

Destroy ==
  /\ status = "closing" /\ users = {}
  /\ status' = "destroyed"
  /\ UNCHANGED <<users, locked>>

Next ==
  \/ \E g \in Goroutines : Use(g) \/ Close(g) \/ Leave(g)
  \/ \E g \in Goroutines, m \in {"r", "w"} : Lock(g, m)
  \/ Destroy

Spec == Init /\ [][Next]_vars
=============================================================================
