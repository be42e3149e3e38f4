-------------------------------- MODULE Lock ---------------------------------
(***************************************************************************)
(* What the Locker interface of sync/mutex.go promises: a goroutine that   *)
(* has called Lock waits until it is the only holder, and keeps the lock   *)
(* until it calls Unlock.  Mutex implements it.                            *)
(***************************************************************************)
CONSTANTS Goroutines

VARIABLES waiting,  \* goroutines that are inside Lock
          holders   \* goroutines that hold the lock

vars == <<waiting, holders>>

TypeOK == waiting \subseteq Goroutines /\ holders \subseteq Goroutines

Init == waiting = {} /\ holders = {}

\* A goroutine calls Lock and has to wait.
Request(g) ==
  /\ g \notin waiting \cup holders
  /\ waiting' = waiting \cup {g}
  /\ UNCHANGED holders

\* Lock returns, at once or after waiting.
Acquire(g) ==
  /\ g \notin holders
  /\ holders = {}
  /\ holders' = {g}
  /\ waiting' = waiting \ {g}

\* Unlock.
Release(g) ==
  /\ g \in holders
  /\ holders' = holders \ {g}
  /\ UNCHANGED waiting

Next == \E g \in Goroutines : Request(g) \/ Acquire(g) \/ Release(g)

Spec == Init /\ [][Next]_vars
=============================================================================
