------------------------------- MODULE RWLock --------------------------------
(***************************************************************************)
(* What sync.RWMutex promises (comment of type RWMutex): the lock is held  *)
(* by any number of readers or by a single writer.  RWMutex implements it. *)
(***************************************************************************)
CONSTANTS Goroutines

VARIABLES readers,  \* goroutines that hold the lock for reading
          writers   \* goroutines that hold the lock for writing

vars == <<readers, writers>>

Init == readers = {} /\ writers = {}

RLock(g) ==
  /\ g \notin readers /\ writers = {}
  /\ readers' = readers \cup {g}
  /\ UNCHANGED writers

RUnlock(g) ==
  /\ g \in readers
  /\ readers' = readers \ {g}
  /\ UNCHANGED writers

Lock(g) ==
  /\ readers = {} /\ writers = {}
  /\ writers' = {g}
  /\ UNCHANGED readers

Unlock(g) ==
  /\ g \in writers
  /\ writers' = writers \ {g}
  /\ UNCHANGED readers

Next == \E g \in Goroutines : RLock(g) \/ RUnlock(g) \/ Lock(g) \/ Unlock(g)

Spec == Init /\ [][Next]_vars
=============================================================================
