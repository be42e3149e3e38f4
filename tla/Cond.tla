-------------------------------- MODULE Cond ---------------------------------
(***************************************************************************)
(* sync.Cond (sync/cond.go) in the use its comments prescribe: goroutines  *)
(* that hold c.L wait in a loop for a condition, here that there is an     *)
(* item to consume, and others make it true and call Signal or Broadcast,  *)
(* with or without holding c.L.  Wait, Signal and Broadcast are the code's *)
(* sequences of calls to the notifyList of module NotifyList; c.L is a     *)
(* lock as in module Lock.                                                 *)
(***************************************************************************)
EXTENDS NotifyList

CONSTANT MaxItems  \* bound: nobody produces while there are so many items

ASSUME CondAssumption == MaxItems \in Nat \ {0}

VARIABLES items,  \* the state the condition is about
          owner,  \* holder of c.L, or None
          pc      \* control point of each goroutine

condvars == <<items, owner, pc>>
vars == <<nlvars, condvars>>

PCs == {"idle",
        "test",     \* holds c.L, about to test the condition
        "unlock",   \* Wait: has its ticket, about to unlock c.L
        "wait",     \* Wait: in runtime_notifyListWait
        "relock",   \* Wait: about to lock c.L
        "put",      \* holds c.L, has made the condition true
        "notify",   \* has unlocked c.L, about to call Signal or Broadcast
        "held",     \* in Signal or Broadcast, holding c.L
        "free",     \* in Signal or Broadcast, not holding c.L
        "leave"}    \* about to unlock c.L

TypeOK ==
  /\ NLTypeOK
  /\ items \in 0 .. MaxItems
  /\ owner \in Goroutines \cup {None}
  /\ pc \in [Goroutines -> PCs]

Init ==
  /\ NLInit
  /\ items = 0
  /\ owner = None
  /\ pc = [g \in Goroutines |-> "idle"]

At(g, from, to) == pc[g] = from /\ pc' = [pc EXCEPT ![g] = to]
Acquire(g) == owner = None /\ owner' = g
Release(g) == owner' = None

\* A consumer locks c.L.
Enter(g) == At(g, "idle", "test") /\ Acquire(g) /\ UNCHANGED <<nlvars, items>>

\* The condition holds: the consumer takes an item.
Consume(g) ==
  /\ At(g, "test", "leave")
  /\ items > 0 /\ items' = items - 1
  /\ UNCHANGED <<nlvars, owner>>

\* Mutation: Wait unlocks c.L before it takes its ticket.
WaitBeginUnlocked(g) ==
  \/ /\ At(g, "test", "unlock") /\ items = 0
     /\ Release(g) /\ UNCHANGED <<nlvars, items>>
  \/ /\ At(g, "unlock", "wait")
     /\ Add(g) /\ UNCHANGED <<owner, items>>

\* The condition does not hold.  Wait: runtime_notifyListAdd, then c.L.Unlock.
WaitBegin(g) ==
  \/ /\ At(g, "test", "unlock") /\ items = 0
     /\ Add(g) /\ UNCHANGED <<owner, items>>
  \/ /\ At(g, "unlock", "wait")
     /\ Release(g) /\ UNCHANGED <<nlvars, items>>

\* Wait: runtime_notifyListWait, which parks or returns, and its return.
WaitPark(g) == pc[g] = "wait" /\ Wait(g) /\ UNCHANGED condvars
WaitReturn(g) == At(g, "wait", "relock") /\ st[g] = "out" /\ UNCHANGED <<nlvars, owner, items>>

\* Wait: c.L.Lock.
WaitLock(g) == At(g, "relock", "test") /\ Acquire(g) /\ UNCHANGED <<nlvars, items>>

\* A producer locks c.L and makes the condition true.
Produce(g) ==
  /\ At(g, "idle", "put") /\ Acquire(g)
  /\ items < MaxItems /\ items' = items + 1
  /\ UNCHANGED nlvars

ProduceUnlock(g) == At(g, "put", "notify") /\ Release(g) /\ UNCHANGED <<nlvars, items>>

\* Signal or Broadcast, after or before the producer has unlocked c.L.
Signal(g) ==
  /\ At(g, "notify", "free") \/ At(g, "put", "held")
  /\ NotifyOne(g)
  /\ UNCHANGED <<owner, items>>
Broadcast(g) ==
  /\ At(g, "notify", "free") \/ At(g, "put", "held")
  /\ NotifyAll(g)
  /\ UNCHANGED <<owner, items>>
Notify(g) == pc[g] \in {"free", "held"} /\ Notifying(g) /\ UNCHANGED condvars
Notified(g) ==
  /\ At(g, "free", "idle") \/ At(g, "held", "leave")
  /\ st[g] = "out"
  /\ UNCHANGED <<nlvars, owner, items>>

Leave(g) == At(g, "leave", "idle") /\ Release(g) /\ UNCHANGED <<nlvars, items>>

\* The steps a goroutine takes once it has begun.
Proceed(g) ==
  \/ Consume(g) \/ WaitBegin(g) \/ WaitPark(g) \/ WaitReturn(g)
  \/ ProduceUnlock(g) \/ Signal(g) \/ Broadcast(g) \/ Notify(g) \/ Notified(g) \/ Leave(g)

Next == \E g \in Goroutines : Enter(g) \/ Produce(g) \/ WaitLock(g) \/ Proceed(g)

Spec == Init /\ [][Next]_vars

\* Goroutines that have begun keep running; a waiter gets l.lock, which others
\* hold for a few instructions only.
Fairness == \A g \in Goroutines : WF_vars(Proceed(g)) /\ SF_vars(WaitPark(g))

FairSpec == Spec /\ Fairness

-----------------------------------------------------------------------------
(* Properties. *)

\* The tickets and counts of the notifyList stay consistent through every
\* interleaving of the steps of Wait, Signal and Broadcast, also when the counts
\* wrap around between a goroutine's notifyListAdd and its notifyListWait: they
\* say how many tickets are outstanding, and no ticket is passed over.
TicketsConsistent == TypeOK /\ NoneParkedTooLate /\ CountsAgree

\* No notification is lost between the test of the condition and the sleep, in
\* whatever order Add, Unlock, Wait and the notification run, and whichever
\* goroutine takes the item first: when nobody has anything left to do but
\* sleep, no goroutine sleeps while its condition holds.
NoStrandedItem ==
  (\A g \in Goroutines : pc[g] = "idle" \/ (pc[g] = "wait" /\ st[g] = "parked"))
    => items = 0 \/ \A g \in Goroutines : pc[g] = "idle"

\* Why it works.  Where a goroutine is in the functions of the notifyList.
StageFits ==
  \A g \in Goroutines :
    /\ pc[g] = "unlock" => st[g] = "ticket"
    /\ st[g] = "ticket" => pc[g] \in {"unlock", "wait"}
    /\ st[g] = "parked" => pc[g] = "wait"
    /\ st[g] \notin {"out", "ticket", "parked"} => pc[g] \in {"free", "held"}

\* Who will look at the condition again, or is sure to notify somebody who will:
\* a notifier, once it has loaded l.wait, only knows of the tickets before that.
Coming ==
  {g \in Goroutines :
     \/ pc[g] \in {"test", "relock", "put", "notify"}
     \/ pc[g] \in {"unlock", "wait"} /\ g \notin Range(order)
     \/ st[g] \in {"onelock", "alllock"}
     \/ st[g] \in {"one", "all"} /\ seen[g] = wait}

\* While a ticket is not notified, somebody is coming for each item: when the last
\* of these tickets was taken there was none.
ItemsAreAnnounced == order # <<>> => items <= Cardinality(Coming)

IInv == TypeOK /\ NLIInv /\ StageFits /\ ItemsAreAnnounced
=============================================================================
