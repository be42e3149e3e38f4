------------------------------ MODULE OnceCall -------------------------------
(***************************************************************************)
(* What sync.Once promises (comments of Once and Do): f is invoked by one  *)
(* call of Do at most, and no call of Do returns before that one has       *)
(* returned or panicked.                                                   *)
(***************************************************************************)
CONSTANTS Goroutines

VARIABLES action,  \* "new", "running" or "performed"
          callers  \* goroutines in Do

vars == <<action, callers>>

Init == action = "new" /\ callers = {}

Call(g) == g \notin callers /\ callers' = callers \cup {g} /\ UNCHANGED action
Perform(g) == g \in callers /\ action = "new" /\ action' = "running" /\ UNCHANGED callers
Performed(g) == g \in callers /\ action = "running" /\ action' = "performed" /\ UNCHANGED callers
Return(g) == g \in callers /\ action = "performed" /\ callers' = callers \ {g} /\ UNCHANGED action

Next == \E g \in Goroutines : Call(g) \/ Perform(g) \/ Performed(g) \/ Return(g)

Spec == Init /\ [][Next]_vars
=============================================================================
