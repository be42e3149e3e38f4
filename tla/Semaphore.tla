------------------------------ MODULE Semaphore ------------------------------
(***************************************************************************)
(* The sleep/wakeup primitive of runtime/sema.go as its callers in sync    *)
(* and internal/poll see it: a word *addr, the goroutines parked on it in  *)
(* queue order, and the progress of each goroutine through semacquire1 or  *)
(* semrelease1.  What is hidden here - the root lock, the waiter counter   *)
(* nwait shared by all the addresses of a root, and the second look at the *)
(* word under the lock - is modelled in Sema, which implements this.       *)
(*                                                                         *)
(* The operators are the atomic steps of the two functions; a caller's     *)
(* module EXTENDS this one and conjoins them with its own program counter. *)
(***************************************************************************)
EXTENDS Naturals, Sequences, FiniteSets, Functions

CONSTANTS Goroutines,  \* the goroutines that use the semaphores
          Addr,        \* the semaphore words
          None         \* neither a goroutine nor an address

ASSUME NoneAssumption == None \notin Goroutines /\ None \notin Addr

VARIABLES semval,  \* semval[a]: the word *a
          waitq,   \* waitq[a]: goroutines parked on a, next to be woken first
          sst,     \* sst[g]: where g is in semacquire1 or semrelease1
          wakee    \* wakee[g]: the goroutine that releaser g took off the queue

semvars == <<semval, waitq, sst, wakee>>

(***************************************************************************)
(* "running" : not inside the semaphore code (or about to try the word)    *)
(* "parked"  : queued and asleep in goparkunlock                           *)
(* "dequeued": taken off the queue by a releaser, still asleep             *)
(* "ready"   : readied without a ticket, will try the word again           *)
(* "ticket"  : readied with s.ticket = 1, returns without trying the word  *)
(* "xadded"  : a releaser that has incremented the word                    *)
(* "waking"  : a releaser that holds a dequeued sudog                      *)
(***************************************************************************)
SemStates == {"running", "parked", "dequeued", "ready", "ticket", "xadded", "waking"}

SemTypeOK ==
  /\ semval \in [Addr -> Nat]
  /\ waitq \in [Addr -> Seq(Goroutines)]
  /\ sst \in [Goroutines -> SemStates]
  /\ wakee \in [Goroutines -> Goroutines \cup {None}]

SemInit ==
  /\ semval = [a \in Addr |-> 0]
  /\ waitq = [a \in Addr |-> <<>>]
  /\ sst = [g \in Goroutines |-> "running"]
  /\ wakee = [g \in Goroutines |-> None]

-----------------------------------------------------------------------------
\* semacquire1: cansemacquire succeeds, at the easy case or after a wakeup.
SemTake(g, a) ==
  /\ sst[g] \in {"running", "ready"}
  /\ semval[a] > 0
  /\ semval' = [semval EXCEPT ![a] = @ - 1]
  /\ sst' = [sst EXCEPT ![g] = "running"]
  /\ UNCHANGED <<waitq, wakee>>

\* semacquire1: cansemacquire fails under the root lock, the goroutine queues
\* itself at the tail, or at the head when lifo, and sleeps.
SemPark(g, a, lifo) ==
  /\ sst[g] \in {"running", "ready"}
  /\ semval[a] = 0
  /\ waitq' = [waitq EXCEPT ![a] = IF lifo THEN <<g>> \o @ ELSE Append(@, g)]
  /\ sst' = [sst EXCEPT ![g] = "parked"]
  /\ UNCHANGED <<semval, wakee>>

\* semacquire1: s.ticket # 0, the releaser passed the count directly.
SemTicket(g) ==
  /\ sst[g] = "ticket"
  /\ sst' = [sst EXCEPT ![g] = "running"]
  /\ UNCHANGED <<semval, waitq, wakee>>

\* semrelease1: atomic.Xadd(addr, 1).
SemInc(g, a) ==
  /\ sst[g] = "running"
  /\ semval' = [semval EXCEPT ![a] = @ + 1]
  /\ sst' = [sst EXCEPT ![g] = "xadded"]
  /\ UNCHANGED <<waitq, wakee>>

\* semrelease1 finds nobody parked on the address and returns.
SemNoWaiter(g, a) ==
  /\ sst[g] = "xadded"
  /\ waitq[a] = <<>>
  /\ sst' = [sst EXCEPT ![g] = "running"]
  /\ UNCHANGED <<semval, waitq, wakee>>

\* semrelease1 takes the first sudog parked on the address off the queue.
SemDequeue(g, a) ==
  /\ sst[g] = "xadded"
  /\ waitq[a] # <<>>
  /\ LET h == Head(waitq[a]) IN
       /\ waitq' = [waitq EXCEPT ![a] = Tail(@)]
       /\ sst' = [sst EXCEPT ![g] = "waking", ![h] = "dequeued"]
       /\ wakee' = [wakee EXCEPT ![g] = h]
  /\ UNCHANGED semval

\* semrelease1 readies the dequeued goroutine.  With handoff, the releaser
\* first tries to take the count for it; somebody else may have taken it.
SemReady(g, a, handoff) ==
  /\ sst[g] = "waking"
  /\ LET granted == handoff /\ semval[a] > 0 IN
       /\ semval' = IF granted THEN [semval EXCEPT ![a] = @ - 1] ELSE semval
       /\ sst' = [sst EXCEPT ![g] = "running",
                             ![wakee[g]] = IF granted THEN "ticket" ELSE "ready"]
  /\ wakee' = [wakee EXCEPT ![g] = None]
  /\ UNCHANGED waitq

\* A goroutine in one of these states is asleep: it takes no step of its own.
Asleep(g) == sst[g] \in {"parked", "dequeued"}

-----------------------------------------------------------------------------
(***************************************************************************)
(* What clients that release without handoff may rely on, whatever else    *)
(* they do.  acq[g] is the address that g is in semacquire1 of, rel[g] the *)
(* one it is in semrelease1 of; any other value says that it is in none.   *)
(***************************************************************************)

\* Who is inside the semaphores, and in which role; nothing is handed off.
RolesConsistent(acq, rel) ==
  \A g \in Goroutines :
    /\ sst[g] # "ticket"
    /\ sst[g] \in {"xadded", "waking"} => rel[g] \in Addr
    /\ sst[g] \in {"parked", "dequeued", "ready"} => acq[g] \in Addr

\* A releaser that holds a dequeued goroutine is the only one to hold it.
WakeesConsistent ==
  \A g \in Goroutines :
    /\ sst[g] = "waking" <=> wakee[g] # None
    /\ sst[g] = "waking" => sst[wakee[g]] = "dequeued"
    /\ sst[g] = "dequeued" => \E h \in Goroutines : wakee[h] = g
    /\ \A h \in Goroutines : wakee[g] = wakee[h] /\ wakee[g] # None => g = h

\* A queue holds the goroutines that are parked on its address, each once.
QueuesConsistent(acq) ==
  \A a \in Addr :
    /\ Range(waitq[a]) = {g \in Goroutines : sst[g] = "parked" /\ acq[g] = a}
    /\ IsInjective(waitq[a])

\* The goroutines that bring a count of a to a sleeper, or are one that was woken.
Bringing(acq, rel, a) ==
  {g \in Goroutines : \/ rel[g] = a /\ sst[g] = "xadded"
                      \/ acq[g] = a /\ sst[g] \in {"dequeued", "ready"}}

\* No count lies idle beside a sleeper: each is being brought to one.
CountsMoving(acq, rel) ==
  \A a \in Addr : waitq[a] # <<>> => semval[a] <= Cardinality(Bringing(acq, rel, a))

SemConsistent(acq, rel) ==
  /\ RolesConsistent(acq, rel) /\ WakeesConsistent
  /\ QueuesConsistent(acq) /\ CountsMoving(acq, rel)
=============================================================================
