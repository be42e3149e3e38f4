----------------------------- MODULE NotifyList ------------------------------
(***************************************************************************)
(* runtime/sema.go's notifyList, on which sync.Cond is built: two running  *)
(* counts that wrap around and a list of parked goroutines.  The actions   *)
(* are the atomic accesses of notifyListAdd, notifyListWait,               *)
(* notifyListNotifyOne and notifyListNotifyAll; what happens under l.lock  *)
(* and touches nothing that is read outside it is one step.                *)
(*                                                                         *)
(* The module of a user (Cond) EXTENDS this one, adds its own variables    *)
(* and the next-state relation.                                            *)
(***************************************************************************)
EXTENDS Integers, Sequences, FiniteSets, SequencesExt

CONSTANTS Goroutines,
          None,
          Modulus, \* the counts wrap here: 2^32 in the code
          MaxLag   \* bound: how far the counts run ahead of a goroutine that has
                   \* its ticket and has not returned from notifyListWait

\* The difference of two tickets is "always less than 2^31", if there are not
\* more goroutines than that and none lags behind so far.
ASSUME NotifyListAssumption ==
  /\ None \notin Goroutines
  /\ Modulus \in Nat \ {0} /\ Modulus % 2 = 0
  /\ MaxLag \in 1 .. Modulus \div 2
  /\ IsFiniteSet(Goroutines) /\ Cardinality(Goroutines) <= Modulus \div 2

VARIABLES wait,    \* l.wait
          notify,  \* l.notify
          lock,    \* holder of l.lock between two steps of NotifyAll, or None
          list,    \* the list from l.head to l.tail
          ticket,  \* ticket[g]: g's ticket, in notifyListWait
          st,      \* st[g]: control point of g in these functions
          seen,    \* seen[g]: the value of l.wait that g has loaded
          ready,   \* ready[g]: sudogs that g has taken off the list and not yet readied
          order    \* history: goroutines whose ticket is not yet notified, oldest first

nlvars == <<wait, notify, lock, list, ticket, st, seen, ready, order>>

Plus1(n) == (n + 1) % Modulus
Minus(a, b) == (a - b + Modulus) % Modulus

\* Mutation: the counts are compared as if they never wrapped.
LessUnwrapped(a, b) == a < b
\* less: int32(a-b) < 0.
Less(a, b) == Minus(a, b) >= Modulus \div 2

Stages == {"out",      \* in none of the functions
           "ticket",   \* between notifyListAdd and notifyListWait
           "parked",   \* notifyListWait: asleep
           "one",      \* notifyListNotifyOne: has loaded l.wait
           "onelock",  \* notifyListNotifyOne: about to lock
           "all",      \* notifyListNotifyAll: has loaded l.wait
           "alllock",  \* notifyListNotifyAll: about to lock
           "store",    \* notifyListNotifyAll: has l.lock, about to store l.notify
           "ready"}    \* has unlocked, readies what it took off the list

NLTypeOK ==
  /\ wait \in 0 .. Modulus - 1
  /\ notify \in 0 .. Modulus - 1
  /\ lock \in Goroutines \cup {None}
  /\ list \in Seq(Goroutines)
  /\ ticket \in [Goroutines -> 0 .. Modulus - 1]
  /\ st \in [Goroutines -> Stages]
  /\ seen \in [Goroutines -> 0 .. Modulus - 1]
  /\ ready \in [Goroutines -> Seq(Goroutines)]
  /\ order \in Seq(Goroutines)

NLInit ==
  /\ wait = 0 /\ notify = 0
  /\ lock = None
  /\ list = <<>>
  /\ ticket = [g \in Goroutines |-> 0]
  /\ st = [g \in Goroutines |-> "out"]
  /\ seen = [g \in Goroutines |-> 0]
  /\ ready = [g \in Goroutines |-> <<>>]
  /\ order = <<>>

Goto(g, stage) == st' = [st EXCEPT ![g] = stage]

\* The locals of a waiter and of a notifier are dead once they are done.
Forget(waiter, notifier) ==
  /\ ticket' = [ticket EXCEPT ![waiter] = 0]
  /\ seen' = [seen EXCEPT ![notifier] = 0]

-----------------------------------------------------------------------------
\* notifyListAdd.
Add(g) ==
  /\ st[g] = "out"
  /\ \A h \in Goroutines : st[h] = "ticket" => Minus(wait, ticket[h]) < MaxLag
  /\ Goto(g, "ticket")
  /\ wait' = Plus1(wait)
  /\ ticket' = [ticket EXCEPT ![g] = wait]
  /\ order' = Append(order, g)
  /\ UNCHANGED <<notify, lock, list, seen, ready>>

\* notifyListWait: return right away, or enqueue itself and park.
Wait(g) ==
  /\ st[g] = "ticket"
  /\ lock = None
  /\ IF Less(ticket[g], notify)
       THEN Goto(g, "out") /\ Forget(g, g) /\ list' = list
       ELSE Goto(g, "parked") /\ list' = Append(list, g) /\ UNCHANGED <<ticket, seen>>
  /\ UNCHANGED <<wait, notify, lock, ready, order>>

\* notifyListNotifyOne, fast path: load l.wait, then l.notify.
NotifyOne(g) ==
  /\ st[g] = "out"
  /\ Goto(g, "one")
  /\ seen' = [seen EXCEPT ![g] = wait]
  /\ UNCHANGED <<wait, notify, lock, list, ticket, ready, order>>

NotifyOneFast(g) ==
  /\ st[g] = "one"
  /\ Goto(g, IF seen[g] = notify THEN "out" ELSE "onelock")
  /\ Forget(g, g)
  /\ UNCHANGED <<wait, notify, lock, list, ready, order>>

\* Mutation: the waiter at the head is woken, whatever its ticket.
FoundHead(t) == {1} \cap DOMAIN list
\* notifyListNotifyOne: where on the list the goroutine with ticket t is, if it is.
Found(t) == {i \in DOMAIN list : ticket[list[i]] = t /\ \A j \in 1 .. i - 1 : ticket[list[j]] # t}

\* notifyListNotifyOne, under the lock: take the next ticket to be notified and
\* the goroutine that holds it off the list, if it has made it there.
NotifyOneLocked(g) ==
  /\ st[g] = "onelock"
  /\ lock = None
  /\ IF notify = wait
       THEN Goto(g, "out") /\ UNCHANGED <<notify, list, ready, order>>
       ELSE /\ notify' = Plus1(notify)
            /\ order' = Tail(order)
            /\ \/ /\ Found(notify) = {}
                  /\ Goto(g, "out") /\ UNCHANGED <<list, ready>>
               \/ \E i \in Found(notify) :
                    /\ Goto(g, "ready")
                    /\ list' = RemoveAt(list, i)
                    /\ ready' = [ready EXCEPT ![g] = <<list[i]>>]
  /\ UNCHANGED <<wait, lock, ticket, seen>>

\* notifyListNotifyAll, fast path: load l.wait, then l.notify.
NotifyAll(g) ==
  /\ st[g] = "out"
  /\ Goto(g, "all")
  /\ seen' = [seen EXCEPT ![g] = wait]
  /\ UNCHANGED <<wait, notify, lock, list, ticket, ready, order>>

NotifyAllFast(g) ==
  /\ st[g] = "all"
  /\ Goto(g, IF seen[g] = notify THEN "out" ELSE "alllock")
  /\ Forget(g, g)
  /\ UNCHANGED <<wait, notify, lock, list, ready, order>>

\* notifyListNotifyAll, under the lock: pull the list out and load l.wait.
NotifyAllLocked(g) ==
  /\ st[g] = "alllock"
  /\ lock = None /\ lock' = g
  /\ Goto(g, "store")
  /\ ready' = [ready EXCEPT ![g] = list]
  /\ list' = <<>>
  /\ seen' = [seen EXCEPT ![g] = wait]
  /\ order' = <<>>
  /\ UNCHANGED <<wait, notify, ticket>>

\* notifyListNotifyAll: store the value in l.notify and unlock.
NotifyAllStore(g) ==
  /\ st[g] = "store"
  /\ notify' = seen[g]
  /\ lock' = None
  /\ Goto(g, IF ready[g] = <<>> THEN "out" ELSE "ready")
  /\ Forget(g, g)
  /\ UNCHANGED <<wait, list, ready, order>>

\* readyWithTime, outside the lock, for each sudog taken off the list.
Ready(g) ==
  /\ st[g] = "ready"
  /\ LET s == Head(ready[g])  rest == Tail(ready[g]) IN
       /\ st' = [st EXCEPT ![g] = IF rest = <<>> THEN "out" ELSE "ready", ![s] = "out"]
       /\ ready' = [ready EXCEPT ![g] = rest]
       /\ Forget(s, g)
  /\ UNCHANGED <<wait, notify, lock, list, order>>

\* The steps inside Signal and Broadcast.
Notifying(g) ==
  \/ NotifyOneFast(g) \/ NotifyOneLocked(g)
  \/ NotifyAllFast(g) \/ NotifyAllLocked(g) \/ NotifyAllStore(g) \/ Ready(g)

-----------------------------------------------------------------------------
(* Properties. *)

\* Goroutines in Wait.
Waiting == {g \in Goroutines : st[g] \in {"ticket", "parked"}}

\* A goroutine on the list has not been notified, and one that has been notified
\* before it got there does not park: no ticket is passed over, not even when
\* the counts wrap around.
NoneParkedTooLate == Range(list) \subseteq Range(order)

\* The counts say how many tickets are outstanding, except while a NotifyAll is
\* between its load of l.wait and its store of l.notify.
CountsAgree ==
  /\ lock = None => Minus(wait, notify) = Len(order)
  /\ lock # None => Minus(wait, seen[lock]) = Len(order)

\* Why it works.  The tickets not yet notified are the last ones taken, in order,
\* and no ticket of a goroutine that is to look at it lags behind too far.
TicketsFit ==
  /\ IsInjective(order) /\ Range(order) \subseteq Waiting
  /\ \A i \in DOMAIN order : Minus(wait, ticket[order[i]]) = Len(order) - i + 1
  /\ \A g \in Goroutines : st[g] = "ticket" =>
       /\ Minus(wait, ticket[g]) <= MaxLag
       /\ g \in Range(order) \/ Minus(wait, ticket[g]) > Len(order)

\* The list holds who has parked and not been notified; nobody parks during a
\* NotifyAll.
ListFits ==
  /\ IsInjective(list)
  /\ Range(list) = {g \in Range(order) : st[g] = "parked"}
  /\ lock # None => list = <<>>
  /\ \A g \in Goroutines : st[g] = "store" <=> lock = g

\* Who has parked and been notified is about to be readied, by one goroutine, once.
ReadyFits ==
  /\ \A g \in Goroutines :
       /\ IsInjective(ready[g])
       /\ Range(ready[g]) \subseteq {f \in Goroutines : st[f] = "parked" /\ f \notin Range(order)}
       /\ ready[g] # <<>> => st[g] \in {"store", "ready"}
       /\ st[g] = "ready" => ready[g] # <<>>
  /\ \A g, h \in Goroutines : g # h => Range(ready[g]) \cap Range(ready[h]) = {}
  /\ \A f \in Goroutines : st[f] = "parked" /\ f \notin Range(order) => \E g \in Goroutines : f \in Range(ready[g])

\* While a NotifyAll is about to store l.notify, the counts differ by the tickets
\* it notifies, whose holders cannot all have returned, and by the new ones: they
\* are not equal for having wrapped around.
StoreFits ==
  lock # None =>
    \E old \in SUBSET (Waiting \ Range(order)) :
      /\ Minus(wait, notify) = Cardinality(old) + Len(order)
      /\ \A f \in old : st[f] = "parked" => f \in Range(ready[lock])

NLIInv == NLTypeOK /\ TicketsFit /\ CountsAgree /\ ListFits /\ ReadyFits /\ StoreFits

\* A goroutine whose ticket has been notified returns from notifyListWait.
NotifiedReturns ==
  \A g \in Goroutines :
    (st[g] \in {"ticket", "parked"} /\ g \notin Range(order)) ~> st[g] \notin {"ticket", "parked"}

\* The list implements the waiting room of a condition variable: tickets are
\* served in order and nobody returns unless woken.
Abstract == INSTANCE CondQueue WITH queue <- order, woken <- Waiting \ Range(order)
ImplementsCondQueue == Abstract!Spec
=============================================================================
