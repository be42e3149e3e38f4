--------------------------- MODULE SemaphoreClient ---------------------------
(***************************************************************************)
(* Goroutines that acquire and release the semaphores of module Semaphore  *)
(* in any order: the abstract specification that Sema, the code of         *)
(* runtime/sema.go with its root lock and waiter counter, implements.      *)
(***************************************************************************)
EXTENDS Semaphore

VARIABLE call  \* call[g]: the call of semacquire1 or semrelease1 g is in, or NoCall

vars == <<semvars, call>>

\* flag is lifo for an acquire, handoff for a release.
Calls == [op : {"acquire", "release"}, addr : Addr, flag : BOOLEAN]
NoCall == [op |-> "none"]

Init ==
  /\ SemInit
  /\ call = [g \in Goroutines |-> NoCall]

Return(g) == call' = [call EXCEPT ![g] = NoCall]

Acquire(g) ==
  /\ call[g] = NoCall
  /\ \E a \in Addr, lifo \in BOOLEAN :
       call' = [call EXCEPT ![g] = [op |-> "acquire", addr |-> a, flag |-> lifo]]
  /\ UNCHANGED semvars

Take(g) == call[g].op = "acquire" /\ SemTake(g, call[g].addr) /\ Return(g)
Park(g) == call[g].op = "acquire" /\ SemPark(g, call[g].addr, call[g].flag) /\ UNCHANGED call
Ticket(g) == call[g].op = "acquire" /\ SemTicket(g) /\ Return(g)

Release(g) ==
  /\ call[g] = NoCall
  /\ \E a \in Addr, handoff \in BOOLEAN :
       /\ SemInc(g, a)
       /\ call' = [call EXCEPT ![g] = [op |-> "release", addr |-> a, flag |-> handoff]]

NoWaiter(g) == call[g].op = "release" /\ SemNoWaiter(g, call[g].addr) /\ Return(g)
Dequeue(g) == call[g].op = "release" /\ SemDequeue(g, call[g].addr) /\ UNCHANGED call
Ready(g) == call[g].op = "release" /\ SemReady(g, call[g].addr, call[g].flag) /\ Return(g)

Next ==
  \E g \in Goroutines :
    \/ Acquire(g) \/ Take(g) \/ Park(g) \/ Ticket(g)
    \/ Release(g) \/ NoWaiter(g) \/ Dequeue(g) \/ Ready(g)

Spec == Init /\ [][Next]_vars
=============================================================================
