-------------------------------- MODULE Sema ---------------------------------
(***************************************************************************)
(* The semaphores of runtime/sema.go: semacquire1 and semrelease1 on       *)
(* several addresses that hash to one semaRoot, whose lock, treap and      *)
(* waiter counter nwait they share.  The treap is seen here as one wait    *)
(* list per address; SemaRoot models its nodes and pointers.               *)
(***************************************************************************)
EXTENDS Naturals, Sequences, FiniteSets, FiniteSetsExt

CONSTANTS Goroutines,
          Addr,       \* addresses that share the root
          None,       \* not a goroutine
          MaxVal      \* bound: nobody releases a word that has reached MaxVal

ASSUME SemaAssumption ==
  /\ None \notin Goroutines /\ IsFiniteSet(Goroutines)
  /\ MaxVal \in Nat \ {0}

VARIABLES val,     \* val[a]: the word *a
          nwait,   \* root.nwait
          lock,    \* holder of root.lock, or None
          list,    \* list[a]: wait list of a in root.treap
          ticket,  \* ticket[g]: s.ticket # 0 for g's sudog s.  On the list it is a
                   \* treap priority; off the list, 1 means that g has the count
          pc,      \* control point of each goroutine
          call,    \* the arguments of the call g is in
          slept,   \* slept[g]: g has slept in this semacquire1 (loop went round)
          s        \* s[g]: local variable s of semrelease1

vars == <<val, nwait, lock, list, ticket, pc, call, slept, s>>

PCs == {"idle",
        "easy",     \* semacquire1: easy case
        "alock",    \* semacquire1: lock(&root.lock)
        "nwait",    \* semacquire1: Xadd(&root.nwait, 1)
        "again",    \* semacquire1: cansemacquire under the lock
        "undo",     \* semacquire1: Xadd(&root.nwait, -1)
        "aunlock",  \* semacquire1: unlock(&root.lock)
        "enqueue",  \* semacquire1: root.queue and goparkunlock
        "parked",   \* semacquire1: asleep
        "awake",    \* semacquire1: readied
        "check",    \* semrelease1: after Xadd(addr, 1), Load(&root.nwait) == 0
        "rlock",    \* semrelease1: lock(&root.lock)
        "recheck",  \* semrelease1: Load(&root.nwait) == 0 under the lock
        "dequeue",  \* semrelease1: root.dequeue
        "count",    \* semrelease1: Xadd(&root.nwait, -1)
        "runlock",  \* semrelease1: unlock(&root.lock)
        "grant",    \* semrelease1: handoff && cansemacquire(addr)
        "goready",  \* semrelease1: readyWithTime
        "throw"}    \* throw("corrupted semaphore ticket")

NoCall == [op |-> "none"]
Calls == [op : {"acquire", "release"}, addr : Addr, flag : BOOLEAN] \cup {NoCall}

TypeOK ==
  /\ val \in [Addr -> 0..MaxVal + Cardinality(Goroutines)]
  /\ nwait \in 0..Cardinality(Goroutines)
  /\ lock \in Goroutines \cup {None}
  /\ list \in [Addr -> Seq(Goroutines)]
  /\ ticket \in [Goroutines -> BOOLEAN]
  /\ pc \in [Goroutines -> PCs]
  /\ call \in [Goroutines -> Calls]
  /\ slept \in [Goroutines -> BOOLEAN]
  /\ s \in [Goroutines -> Goroutines \cup {None}]

Init ==
  /\ val = [a \in Addr |-> 0]
  /\ nwait = 0
  /\ lock = None
  /\ list = [a \in Addr |-> <<>>]
  /\ ticket = [g \in Goroutines |-> FALSE]
  /\ pc = [g \in Goroutines |-> "idle"]
  /\ call = [g \in Goroutines |-> NoCall]
  /\ slept = [g \in Goroutines |-> FALSE]
  /\ s = [g \in Goroutines |-> None]

\* g goes from one control point to another.
Step(g, from, to) == pc[g] = from /\ pc' = [pc EXCEPT ![g] = to]
Lock(g) == lock = None /\ lock' = g
Unlock(g) == lock' = None
Return(g) ==
  /\ call' = [call EXCEPT ![g] = NoCall]
  /\ slept' = [slept EXCEPT ![g] = FALSE]

\* cansemacquire: the CAS loop takes one count if there is one.
CanSemacquire(a) == val[a] > 0
Decrement(a) == val' = [val EXCEPT ![a] = @ - 1]

-----------------------------------------------------------------------------
\* A goroutine calls semacquire1.
Acquire(g) ==
  /\ Step(g, "idle", "easy")
  /\ \E a \in Addr, lifo \in BOOLEAN :
       call' = [call EXCEPT ![g] = [op |-> "acquire", addr |-> a, flag |-> lifo]]
  /\ UNCHANGED <<val, nwait, lock, list, ticket, slept, s>>

\* semacquire1: easy case.  acquireSudog and s.ticket = 0 otherwise.
AcquireEasy(g) ==
  /\ pc[g] = "easy"
  /\ LET a == call[g].addr IN
     IF CanSemacquire(a)
       THEN Step(g, "easy", "idle") /\ Decrement(a) /\ Return(g) /\ UNCHANGED ticket
       ELSE /\ Step(g, "easy", "alock")
            /\ ticket' = [ticket EXCEPT ![g] = FALSE]
            /\ UNCHANGED <<val, call, slept>>
  /\ UNCHANGED <<nwait, lock, list, s>>

AcquireLock(g) ==
  /\ Step(g, "alock", "nwait")
  /\ Lock(g)
  /\ UNCHANGED <<val, nwait, list, ticket, call, slept, s>>

\* semacquire1: add ourselves to nwait to disable the easy case of semrelease1.
AcquireCount(g) ==
  /\ Step(g, "nwait", "again")
  /\ nwait' = nwait + 1
  /\ UNCHANGED <<val, lock, list, ticket, call, slept, s>>

\* Mutation: semacquire1 goes to sleep without a second look at the word.
AcquireAgainBlind(g) ==
  /\ Step(g, "again", "enqueue")
  /\ UNCHANGED <<val, nwait, lock, list, ticket, call, slept, s>>

\* semacquire1: check cansemacquire to avoid a missed wakeup.
AcquireAgain(g) ==
  /\ pc[g] = "again"
  /\ LET a == call[g].addr IN
     IF CanSemacquire(a)
       THEN Step(g, "again", "undo") /\ Decrement(a)
       ELSE Step(g, "again", "enqueue") /\ UNCHANGED val
  /\ UNCHANGED <<nwait, lock, list, ticket, call, slept, s>>

\* Mutation: the acquirer leaves its mark in nwait.
AcquireUndoNothing(g) ==
  /\ Step(g, "undo", "aunlock")
  /\ UNCHANGED <<val, nwait, lock, list, ticket, call, slept, s>>

AcquireUndo(g) ==
  /\ Step(g, "undo", "aunlock")
  /\ nwait' = nwait - 1
  /\ UNCHANGED <<val, lock, list, ticket, call, slept, s>>

AcquireUnlock(g) ==
  /\ Step(g, "aunlock", "idle")
  /\ Unlock(g)
  /\ Return(g)
  /\ UNCHANGED <<val, nwait, list, ticket, s>>

\* semacquire1: root.queue(addr, s, lifo), then park and release the root lock.
AcquireSleep(g) ==
  /\ Step(g, "enqueue", "parked")
  /\ LET a == call[g].addr IN
     /\ list' = [list EXCEPT ![a] = IF call[g].flag THEN <<g>> \o @ ELSE Append(@, g)]
     /\ ticket' = [ticket EXCEPT ![g] = call[g].flag \/ list[a] = <<>>]
  /\ Unlock(g)
  /\ UNCHANGED <<val, nwait, call, slept, s>>

\* semacquire1: after the sleep, return with a ticket or with the count, or
\* go round the loop.
AcquireAwake(g) ==
  /\ pc[g] = "awake"
  /\ LET a == call[g].addr IN
     \/ /\ ticket[g]
        /\ Step(g, "awake", "idle") /\ Return(g) /\ UNCHANGED val
     \/ /\ ~ticket[g] /\ CanSemacquire(a)
        /\ Step(g, "awake", "idle") /\ Return(g) /\ Decrement(a)
     \/ /\ ~ticket[g] /\ ~CanSemacquire(a)
        /\ Step(g, "awake", "alock")
        /\ slept' = [slept EXCEPT ![g] = TRUE]
        /\ UNCHANGED <<val, call>>
  /\ UNCHANGED <<nwait, lock, list, ticket, s>>

-----------------------------------------------------------------------------
\* A goroutine calls semrelease1, which increments the word.
Release(g) ==
  /\ Step(g, "idle", "check")
  /\ \E a \in Addr, handoff \in BOOLEAN :
       /\ val[a] < MaxVal
       /\ val' = [val EXCEPT ![a] = @ + 1]
       /\ call' = [call EXCEPT ![g] = [op |-> "release", addr |-> a, flag |-> handoff]]
  /\ UNCHANGED <<nwait, lock, list, ticket, slept, s>>

\* semrelease1: easy case, no waiters.
ReleaseCheck(g) ==
  /\ IF nwait = 0
       THEN Step(g, "check", "idle") /\ Return(g)
       ELSE Step(g, "check", "rlock") /\ UNCHANGED <<call, slept>>
  /\ UNCHANGED <<val, nwait, lock, list, ticket, s>>

ReleaseLock(g) ==
  /\ Step(g, "rlock", "recheck")
  /\ Lock(g)
  /\ UNCHANGED <<val, nwait, list, ticket, call, slept, s>>

\* semrelease1: the count is already consumed by another goroutine.
ReleaseRecheck(g) ==
  /\ IF nwait = 0 THEN Step(g, "recheck", "runlock") ELSE Step(g, "recheck", "dequeue")
  /\ UNCHANGED <<val, nwait, lock, list, ticket, call, slept, s>>

\* root.dequeue: the next waiter of the list takes over the treap node, and the
\* ticket of the one that leaves is cleared.
Promote(q) ==
  [g \in Goroutines |-> IF g = Head(q) THEN FALSE
                         ELSE ticket[g] \/ (Len(q) > 1 /\ g = q[2])]

\* semrelease1: root.dequeue takes the first sudog blocked on the address, if
\* there is one: the waiters may all wait for other addresses of the root.
ReleaseDequeue(g) ==
  /\ pc[g] = "dequeue"
  /\ LET a == call[g].addr IN
     IF list[a] = <<>>
       THEN Step(g, "dequeue", "runlock") /\ UNCHANGED <<list, ticket, s>>
       ELSE /\ Step(g, "dequeue", "count")
            /\ list' = [list EXCEPT ![a] = Tail(@)]
            /\ ticket' = Promote(list[a])
            /\ s' = [s EXCEPT ![g] = Head(list[a])]
  /\ UNCHANGED <<val, nwait, lock, call, slept>>

ReleaseCount(g) ==
  /\ Step(g, "count", "runlock")
  /\ nwait' = nwait - 1
  /\ UNCHANGED <<val, lock, list, ticket, call, slept, s>>

ReleaseUnlock(g) ==
  /\ IF s[g] = None
       THEN Step(g, "runlock", "idle") /\ Return(g)
       ELSE Step(g, "runlock", "grant") /\ UNCHANGED <<call, slept>>
  /\ Unlock(g)
  /\ UNCHANGED <<val, nwait, list, ticket, s>>

\* Mutation: the ticket is handed out although cansemacquire has failed.
ReleaseGrantAlways(g) ==
  /\ pc[g] = "grant"
  /\ LET a == call[g].addr IN
     /\ Step(g, "grant", "goready")
     /\ val' = [val EXCEPT ![a] = IF call[g].flag /\ @ > 0 THEN @ - 1 ELSE @]
     /\ ticket' = [ticket EXCEPT ![s[g]] = call[g].flag]
  /\ UNCHANGED <<nwait, lock, list, call, slept, s>>

\* semrelease1: with handoff, try to take the count for the waiter.
ReleaseGrant(g) ==
  /\ pc[g] = "grant"
  /\ LET a == call[g].addr IN
     IF ticket[s[g]]
       THEN Step(g, "grant", "throw") /\ UNCHANGED <<val, ticket>>
     ELSE /\ Step(g, "grant", "goready")
          /\ IF call[g].flag /\ CanSemacquire(a)
               THEN Decrement(a) /\ ticket' = [ticket EXCEPT ![s[g]] = TRUE]
               ELSE UNCHANGED <<val, ticket>>
  /\ UNCHANGED <<nwait, lock, list, call, slept, s>>

\* semrelease1: readyWithTime(s).
ReleaseReady(g) ==
  /\ pc[g] = "goready"
  /\ pc' = [pc EXCEPT ![g] = "idle", ![s[g]] = "awake"]
  /\ s' = [s EXCEPT ![g] = None]
  /\ Return(g)
  /\ UNCHANGED <<val, nwait, lock, list, ticket>>

-----------------------------------------------------------------------------
\* The steps inside a call.
InCall(g) ==
  \/ AcquireEasy(g) \/ AcquireLock(g) \/ AcquireCount(g) \/ AcquireAgain(g)
  \/ AcquireUndo(g) \/ AcquireUnlock(g) \/ AcquireSleep(g) \/ AcquireAwake(g)
  \/ ReleaseCheck(g) \/ ReleaseLock(g) \/ ReleaseRecheck(g) \/ ReleaseDequeue(g)
  \/ ReleaseCount(g) \/ ReleaseUnlock(g) \/ ReleaseGrant(g) \/ ReleaseReady(g)

Next == \E g \in Goroutines : Acquire(g) \/ Release(g) \/ InCall(g)

Spec == Init /\ [][Next]_vars

-----------------------------------------------------------------------------
(* Properties. *)

Queued(g) == \E a \in Addr : g \in Range(list[a])

\* Wakeups of a under way: releasers that have incremented the word and not yet
\* taken a waiter off, waiters taken off that have not yet tried the word, and
\* those found out to be late, on their way back to a second look at the word.
WakeupsFor(a) ==
  {g \in Goroutines :
     /\ call[g] # NoCall /\ call[g].addr = a
     /\ \/ pc[g] \in {"check", "rlock", "recheck", "dequeue"}
        \/ pc[g] = "awake" /\ ~ticket[g]
        \/ pc[g] = "parked" /\ ~ticket[g] /\ ~Queued(g)}

\* No missed wakeup, the point of the second cansemacquire and of nwait: a
\* count that is left while goroutines are queued for it has a wakeup under
\* way, and so has the next one.
EveryCountIsMoving ==
  \A a \in Addr : Min({val[a], Len(list[a])}) <= Cardinality(WakeupsFor(a))

\* nwait, which releasers read without the lock, is never below the number of
\* queued goroutines, and equals it while nobody holds the lock; nobody is queued
\* twice; and a ticket is left over from no earlier wait, so that the throw
\* "corrupted semaphore ticket" is unreachable.
RootConsistent ==
  /\ TypeOK
  /\ LET queued == Cardinality({g \in Goroutines : Queued(g)}) IN
       /\ nwait >= queued
       /\ lock = None => nwait = queued
  /\ \A a, b \in Addr : IsInjective(list[a]) /\ (a # b => Range(list[a]) \cap Range(list[b]) = {})
  /\ \A g \in Goroutines : pc[g] # "throw"

(***************************************************************************)
(* The code implements the semaphore of module Semaphore, on which the     *)
(* models of sync and internal/poll are built.  A goroutine that has found *)
(* the word 0 under the lock is as good as queued.  A waiter counts as     *)
(* readied when the releaser has decided whether it gets a ticket.         *)
(***************************************************************************)
Granted(g) == \E r \in Goroutines : pc[r] = "goready" /\ s[r] = g

AbsWaitq ==
  [a \in Addr |->
     LET late == {g \in Goroutines : pc[g] = "enqueue" /\ call[g].addr = a} IN
     IF late = {} THEN list[a]
     ELSE LET g == CHOOSE g \in late : TRUE IN
          IF call[g].flag THEN <<g>> \o list[a] ELSE Append(list[a], g)]

AbsSst ==
  [g \in Goroutines |->
     CASE pc[g] \in {"check", "rlock", "recheck", "dequeue"} -> "xadded"
       [] pc[g] \in {"count", "grant"} \/ (pc[g] = "runlock" /\ s[g] # None) -> "waking"
       [] pc[g] = "enqueue" \/ (pc[g] = "parked" /\ Queued(g)) -> "parked"
       [] pc[g] = "parked" /\ ~Queued(g) /\ ~Granted(g) -> "dequeued"
       [] pc[g] = "awake" \/ (pc[g] = "parked" /\ ~Queued(g) /\ Granted(g))
            -> IF ticket[g] THEN "ticket" ELSE "ready"
       [] pc[g] \in {"alock", "nwait", "again"} /\ slept[g] -> "ready"
       [] OTHER -> "running"]

AbsCall ==
  [g \in Goroutines |->
     IF pc[g] \in {"undo", "aunlock", "goready"} \/ (pc[g] = "runlock" /\ s[g] = None)
       THEN NoCall ELSE call[g]]

AbsWakee == [g \in Goroutines |-> IF AbsSst[g] = "waking" THEN s[g] ELSE None]

Abstract == INSTANCE SemaphoreClient WITH
              semval <- val,
              waitq <- AbsWaitq,
              sst <- AbsSst,
              wakee <- AbsWakee,
              call <- AbsCall
ImplementsSemaphore == Abstract!Spec

-----------------------------------------------------------------------------
(***************************************************************************)
(* Why it works: an inductive invariant.  Each waiter that nwait counts is *)
(* queued, or somebody who holds the lock will queue it or uncount it.  So *)
(* a releaser that reads nwait = 0 can leave its count to those who have   *)
(* yet to look, and any other one passes its wakeup on.                    *)
(***************************************************************************)
AcquirePCs == {"easy", "alock", "nwait", "again", "undo", "aunlock", "enqueue", "parked", "awake"}
ReleasePCs == {"check", "rlock", "recheck", "dequeue", "count", "runlock", "grant", "goready"}
LockedPCs == {"nwait", "again", "undo", "aunlock", "enqueue", "recheck", "dequeue", "count", "runlock"}

\* A goroutine is where its call takes it.
CallsFit ==
  \A g \in Goroutines :
    /\ pc[g] = "idle" <=> call[g] = NoCall
    /\ pc[g] \in AcquirePCs => call[g].op = "acquire"
    /\ pc[g] \in ReleasePCs => call[g].op = "release"
    /\ pc[g] \in {"idle", "easy"} \cup ReleasePCs => ~slept[g]
    /\ pc[g] # "throw"

LockIsHeld == \A g \in Goroutines : pc[g] \in LockedPCs <=> lock = g

\* Who is on a list sleeps, on the address of its call, and is there once.
ListsFit ==
  \A a \in Addr :
    /\ IsInjective(list[a])
    /\ \A g \in Range(list[a]) : pc[g] = "parked" /\ call[g].addr = a

\* Whom a releaser has taken off the list nobody else has, and it is without a
\* ticket until the releaser decides; and somebody will ready it.
WakeesFit ==
  /\ \A g \in Goroutines :
       /\ pc[g] \in {"count", "grant", "goready"} => s[g] # None
       /\ s[g] # None =>
            /\ pc[g] \in {"count", "runlock", "grant", "goready"}
            /\ pc[s[g]] = "parked" /\ ~Queued(s[g]) /\ call[s[g]].addr = call[g].addr
            /\ pc[g] # "goready" => ~ticket[s[g]]
            /\ \A h \in Goroutines : s[h] = s[g] => h = g
  /\ \A g \in Goroutines : pc[g] = "parked" /\ ~Queued(g) => \E h \in Goroutines : s[h] = g

\* The goroutines that nwait counts, a releaser at "count" in place of its waiter.
Counted == {g \in Goroutines : Queued(g) \/ pc[g] \in {"again", "undo", "enqueue", "count"}}
NwaitIsExact == nwait = Cardinality(Counted)

\* While somebody is queued, or has found the word 0 and is about to be, each
\* count has a wakeup of its own.
WaitedFor(a) == list[a] # <<>> \/ \E g \in Goroutines : pc[g] = "enqueue" /\ call[g].addr = a
CountsMove == \A a \in Addr : WaitedFor(a) => val[a] <= Cardinality(WakeupsFor(a))

IInv ==
  /\ TypeOK /\ CallsFit /\ LockIsHeld /\ ListsFit /\ WakeesFit /\ NwaitIsExact /\ CountsMove
=============================================================================
