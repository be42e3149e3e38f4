-------------------------------- MODULE Chan --------------------------------
(***************************************************************************)
(* Channels and select (runtime/chan.go, runtime/select.go): buffers, wait *)
(* queues of sudogs, the lock of each channel, and the steps of chansend,  *)
(* chanrecv, closechan and selectgo.                                       *)
(*                                                                         *)
(* A case is <<direction, channel>>; channels are numbers, their order     *)
(* that of the addresses.  A call of one case is a chansend or a chanrecv, *)
(* one of several cases a selectgo.  The sudog that a goroutine queues for *)
(* a case is known by the goroutine, and the value it sends is its name.   *)
(*                                                                         *)
(* What runs under the lock of one channel is one step: only selectgo      *)
(* acquires a lock while it holds another.  The fast paths, which read     *)
(* without a lock, make one step of each read.                             *)
(***************************************************************************)
EXTENDS Naturals, Sequences, FiniteSets, SequencesExt

CONSTANTS Goroutines, Channels, None,
          Cap,    \* Cap[c]: c.dataqsiz
          Calls   \* the calls made: [cases, block]

Cases == {"send", "recv"} \X Channels
NotSelected == <<None, FALSE, None>>
Results == {NotSelected} \cup (Cases \X BOOLEAN \X (Goroutines \cup {None}))

ASSUME ChanAssumption ==
  /\ None \notin Goroutines \cup Channels /\ None \notin Calls /\ None \notin Results
  /\ Channels \subseteq Nat /\ IsFiniteSet(Channels)
  /\ Cap \in [Channels -> Nat]
  /\ Calls \subseteq [cases : (SUBSET Cases) \ {{}}, block : BOOLEAN]

VARIABLES buf,         \* buf[c]: values in the circular queue of c
          closed,      \* closed[c]: c.closed # 0
          waitq,       \* waitq[k]: c.sendq or c.recvq, for the case k on c
          lock,        \* lock[c]: the select that holds c.lock, or None
          selectDone,  \* goroutines whose gp.selectDone is 1
          op,          \* op[g]: the call of g, or None
          pc,          \* control point of each goroutine
          res,         \* res[g]: gp.param, sg.success and the element, or the return values
          wake,        \* wake[g]: goroutines that g has dequeued and will ready
          blocked      \* history: calls that could not proceed at some moment since they began

chans == <<buf, closed, waitq, selectDone>>
vars == <<chans, lock, op, pc, res, wake, blocked>>

PCs == {"idle",
        "fast",       \* fast path of a call that must not block: no read made yet
        "sawOpen",    \* chansend: has read closed == 0
        "sawFull",    \* chansend: has read full(c)
        "sawEmpty",   \* chanrecv: has read empty(c)
        "sawClosed",  \* chanrecv: has read empty(c), then closed != 0
        "lock",       \* about to lock; selectgo: in sellock
        "parked",     \* in gopark
        "awake",      \* readied; selectgo: in the second sellock
        "done",       \* has unlocked; goroutines to ready before it returns
        "throw"}

TypeOK ==
  /\ buf \in [Channels -> Seq(Goroutines)]
  /\ closed \in [Channels -> BOOLEAN]
  /\ waitq \in [Cases -> Seq(Goroutines)]
  /\ lock \in [Channels -> Goroutines \cup {None}]
  /\ selectDone \subseteq Goroutines
  /\ op \in [Goroutines -> Calls \cup {None}]
  /\ pc \in [Goroutines -> PCs]
  /\ res \in [Goroutines -> Results \cup {None}]
  /\ wake \in [Goroutines -> Seq(Goroutines)]
  /\ blocked \subseteq Goroutines

Init ==
  /\ buf = [c \in Channels |-> <<>>]
  /\ closed = [c \in Channels |-> FALSE]
  /\ waitq = [k \in Cases |-> <<>>]
  /\ lock = [c \in Channels |-> None]
  /\ selectDone = {}
  /\ op = [g \in Goroutines |-> None]
  /\ pc = [g \in Goroutines |-> "idle"]
  /\ res = [g \in Goroutines |-> None]
  /\ wake = [g \in Goroutines |-> <<>>]
  /\ blocked = {}

Goto(g, label) == pc' = [pc EXCEPT ![g] = label]

ChansOf(o) == {k[2] : k \in o.cases}
IsSelect(o) == Cardinality(o.cases) > 1
TheCase(g) == CHOOSE k \in op[g].cases : TRUE
Send(c) == <<"send", c>>
Recv(c) == <<"recv", c>>
Peer(k) == IF k[1] = "send" THEN Recv(k[2]) ELSE Send(k[2])

-----------------------------------------------------------------------------
\* A call: chansend, chanrecv or selectgo, up to its first access.
Call(g, o) ==
  /\ pc[g] = "idle"
  /\ op' = [op EXCEPT ![g] = o]
  /\ Goto(g, IF o.block \/ IsSelect(o) THEN "lock" ELSE "fast")
  /\ UNCHANGED <<chans, lock, res, wake>>

\* The call has its return values.
Finish(g, r) == res' = [res EXCEPT ![g] = r] /\ Goto(g, "done")

\* One read of the fast path, after which g goes to a label or gives up.
FastRead(g, from, label) ==
  /\ pc[g] = from
  /\ Goto(g, label)
  /\ UNCHANGED <<chans, lock, op, res, wake>>
FastFail(g, from, r) ==
  /\ pc[g] = from
  /\ Finish(g, r)
  /\ UNCHANGED <<chans, lock, op, wake>>

\* full, empty: whether the operation would block, as seen without the lock.
Full(c) == IF Cap[c] = 0 THEN waitq[Recv(c)] = <<>> ELSE Len(buf[c]) = Cap[c]
Empty(c) == IF Cap[c] = 0 THEN waitq[Send(c)] = <<>> ELSE buf[c] = <<>>

\* chansend: if !block && c.closed == 0 && full(c); the reads may be reordered.
FastSend(g, c) ==
  /\ op[g] # None /\ op[g].cases = {Send(c)}
  /\ \/ FastRead(g, "fast", IF closed[c] THEN "lock" ELSE "sawOpen")
     \/ FastRead(g, "fast", IF Full(c) THEN "sawFull" ELSE "lock")
     \/ IF Full(c) THEN FastFail(g, "sawOpen", NotSelected) ELSE FastRead(g, "sawOpen", "lock")
     \/ IF closed[c] THEN FastRead(g, "sawFull", "lock") ELSE FastFail(g, "sawFull", NotSelected)

\* Mutation: closed is read before empty(c).
FastRecvReordered(g, c) ==
  /\ op[g] # None /\ op[g].cases = {Recv(c)}
  /\ \/ FastRead(g, "fast", IF closed[c] THEN "lock" ELSE "sawEmpty")
     \/ IF Empty(c) THEN FastFail(g, "sawEmpty", NotSelected) ELSE FastRead(g, "sawEmpty", "lock")

\* chanrecv: empty(c), then c.closed, then empty(c) again.
FastRecv(g, c) ==
  /\ op[g] # None /\ op[g].cases = {Recv(c)}
  /\ \/ FastRead(g, "fast", IF Empty(c) THEN "sawEmpty" ELSE "lock")
     \/ IF closed[c] THEN FastRead(g, "sawEmpty", "sawClosed")
                     ELSE FastFail(g, "sawEmpty", NotSelected)
     \/ IF Empty(c) THEN FastFail(g, "sawClosed", <<Recv(c), FALSE, None>>)
                    ELSE FastRead(g, "sawClosed", "lock")

-----------------------------------------------------------------------------
\* waitq.dequeue: the first sudog that is not of a select which another case has
\* completed; the ones before it are dropped from the queue.
Live(k) == {i \in DOMAIN waitq[k] : waitq[k][i] \notin selectDone}
First(k) == CHOOSE i \in Live(k) : \A j \in Live(k) : i <= j
\* The queue after a dequeue.
Dequeued(k) == SubSeq(waitq[k], First(k) + 1, Len(waitq[k]))

\* Whether the case can proceed, seen under the lock.
Ready(k) ==
  LET c == k[2] IN
    \/ closed[c]
    \/ Live(Peer(k)) # {}
    \/ IF k[1] = "send" THEN Len(buf[c]) < Cap[c] ELSE buf[c] # <<>>

\* The queues after the cases in polled have been looked at in vain.
Cleaned(polled) == [k \in Cases |-> IF Peer(k) \in polled THEN <<>> ELSE waitq[k]]

\* Case k completes by itself: a buffered send or receive, or a closed channel.
Complete(g, k, polled) ==
  LET c == k[2] IN
    /\ (k[1] = "send" /\ closed[c]) \/ Live(Peer(k)) = {}
    /\ IF k[1] = "recv" /\ buf[c] # <<>>
         THEN /\ Finish(g, <<k, TRUE, Head(buf[c])>>)
              /\ buf' = [buf EXCEPT ![c] = Tail(@)]
       ELSE IF closed[c]
         THEN /\ Finish(g, <<k, FALSE, None>>)
              /\ buf' = buf
         ELSE /\ Finish(g, <<k, TRUE, None>>)
              /\ buf' = [buf EXCEPT ![c] = Append(@, g)]
    /\ waitq' = Cleaned(IF closed[c] THEN polled ELSE polled \cup {k})
    /\ UNCHANGED <<selectDone, wake>>

\* send, recv: case k completes together with the one that h waits for.  With a
\* full buffer a receiver takes its head and puts the sender's value at its
\* tail.  gp.param and sg.success are set after the unlock; only h reads
\* them, once it has been readied.
Pair(g, k, polled) ==
  LET c == k[2]
      h == waitq[Peer(k)][First(Peer(k))]
      line == Append(buf[c], IF k[1] = "send" THEN g ELSE h)
      result(dir) == IF dir = "recv" THEN Head(line) ELSE None
  IN /\ ~(k[1] = "send" /\ closed[c]) /\ Live(Peer(k)) # {}
     /\ res' = [res EXCEPT ![g] = <<k, TRUE, result(k[1])>>,
                           ![h] = <<Peer(k), TRUE, result(Peer(k)[1])>>]
     /\ Goto(g, "done")
     /\ buf' = [buf EXCEPT ![c] = Tail(line)]
     /\ waitq' = [Cleaned(polled) EXCEPT ![Peer(k)] = Dequeued(Peer(k))]
     /\ selectDone' = IF IsSelect(op[h]) THEN selectDone \cup {h} ELSE selectDone
     /\ wake' = [wake EXCEPT ![g] = <<h>>]

\* No case can proceed: give up, or queue for every case and park.
Block(g) ==
  /\ \A k \in op[g].cases : ~Ready(k)
  /\ LET cleaned == Cleaned(op[g].cases) IN
       IF op[g].block
         THEN /\ waitq' = [k \in Cases |-> IF k \in op[g].cases THEN Append(cleaned[k], g) ELSE cleaned[k]]
              /\ Goto(g, "parked")
              /\ res' = res
         ELSE /\ waitq' = cleaned
              /\ Finish(g, NotSelected)
  /\ UNCHANGED <<buf, selectDone, wake>>

\* What the call does with its channels locked.  selectgo looks at its cases in
\* any order until one can proceed.
Locked(g) ==
  /\ \/ \E k \in op[g].cases : \E polled \in SUBSET {j \in op[g].cases : ~Ready(j)} :
          Ready(k) /\ (Complete(g, k, polled) \/ Pair(g, k, polled))
     \/ Block(g)
  /\ UNCHANGED <<closed, op>>

\* chansend, chanrecv: what they do under the lock.
SendRecv(g) ==
  /\ pc[g] = "lock" /\ ~IsSelect(op[g])
  /\ lock[TheCase(g)[2]] = None
  /\ Locked(g)
  /\ UNCHANGED lock

-----------------------------------------------------------------------------
Held(g) == {c \in Channels : lock[c] = g}
\* Mutation: the locks are taken in the order the cases are polled.
ToLockAnyOrder(g) == ChansOf(op[g]) \ Held(g)

\* sellock: the channel to lock next, in the order of the addresses.
ToLock(g) == LET left == ChansOf(op[g]) \ Held(g) IN {c \in left : \A d \in left : c <= d}

\* sellock: lock(&c.lock).
SelLock(g) ==
  /\ pc[g] \in {"lock", "awake"} /\ IsSelect(op[g])
  /\ \E c \in ToLock(g) : lock[c] = None /\ lock' = [lock EXCEPT ![c] = g]
  /\ UNCHANGED <<chans, op, pc, res, wake>>

SelUnlock(g) == lock' = [c \in Channels |-> IF lock[c] = g THEN None ELSE lock[c]]

\* selectgo: passes 1 and 2, up to selunlock or gopark.
Select(g) ==
  /\ pc[g] = "lock" /\ IsSelect(op[g]) /\ Held(g) = ChansOf(op[g])
  /\ Locked(g)
  /\ SelUnlock(g)

\* Mutation: pass 3 only takes care of the case that was completed.
Pass3Remove(g) == waitq
Index(s, g) == CHOOSE i \in DOMAIN s : s[i] = g
Unqueued(g) ==
  [k \in Cases |-> IF k \in op[g].cases /\ g \in Range(waitq[k])
                    THEN RemoveAt(waitq[k], Index(waitq[k], g)) ELSE waitq[k]]

\* selectgo: pass 3 takes the sudogs of the other cases off their queues.
Pass3(g) ==
  /\ pc[g] = "awake" /\ IsSelect(op[g]) /\ Held(g) = ChansOf(op[g])
  /\ selectDone' = selectDone \ {g}
  /\ waitq' = Unqueued(g)
  /\ Goto(g, IF res[g] = None \/ res[g][1] \notin op[g].cases THEN "throw" ELSE "done")
  /\ SelUnlock(g)
  /\ UNCHANGED <<buf, closed, op, res, wake>>

\* chansend, chanrecv: after gopark.  A sender that was not served throws unless
\* the channel has been closed.
Awake(g) ==
  /\ pc[g] = "awake" /\ ~IsSelect(op[g])
  /\ LET k == TheCase(g) IN
       Goto(g, IF res[g] = None \/ (k[1] = "send" /\ ~res[g][2] /\ ~closed[k[2]])
                 THEN "throw" ELSE "done")
  /\ UNCHANGED <<chans, lock, op, res, wake>>

-----------------------------------------------------------------------------
\* closechan: everyone who waits on c, readers first; who waits for both is a
\* reader.
Waiters(k) == {waitq[k][i] : i \in Live(k)}
Released(c) == Waiters(Recv(c)) \cup Waiters(Send(c))
Place(c, g) ==
  IF g \in Waiters(Recv(c)) THEN Index(waitq[Recv(c)], g)
                            ELSE Len(waitq[Recv(c)]) + Index(waitq[Send(c)], g)

\* closechan.  Closing a closed channel panics and changes nothing.  The list
\* glist is a stack: who was dequeued last is readied first.
Close(g, c) ==
  /\ pc[g] = "idle" /\ lock[c] = None
  /\ ~closed[c]
  /\ closed' = [closed EXCEPT ![c] = TRUE]
  /\ waitq' = [waitq EXCEPT ![Recv(c)] = <<>>, ![Send(c)] = <<>>]
  /\ LET side(h) == IF h \in Waiters(Recv(c)) THEN Recv(c) ELSE Send(c) IN
       res' = [h \in Goroutines |-> IF h \in Released(c) THEN <<side(h), FALSE, None>> ELSE res[h]]
  /\ selectDone' = selectDone \cup {h \in Released(c) : IsSelect(op[h])}
  /\ \E len \in 0 .. Len(waitq[Recv(c)]) + Len(waitq[Send(c)]) :
       \E glist \in [1 .. len -> Released(c)] :
         /\ Range(glist) = Released(c)
         /\ \A i, j \in 1 .. len : i < j => Place(c, glist[j]) < Place(c, glist[i])
         /\ wake' = [wake EXCEPT ![g] = glist]
  /\ Goto(g, "done")
  /\ UNCHANGED <<buf, lock, op>>

\* goready, after the unlock.  It throws if the goroutine does not wait.
Wake(g) ==
  /\ pc[g] = "done" /\ wake[g] # <<>>
  /\ LET h == Head(wake[g]) IN Goto(h, IF pc[h] = "parked" THEN "awake" ELSE "throw")
  /\ wake' = [wake EXCEPT ![g] = Tail(@)]
  /\ UNCHANGED <<chans, lock, op, res>>

\* The call returns or panics.
Return(g) ==
  /\ pc[g] = "done" /\ wake[g] = <<>>
  /\ Goto(g, "idle")
  /\ op' = [op EXCEPT ![g] = None]
  /\ res' = [res EXCEPT ![g] = None]
  /\ UNCHANGED <<chans, lock, wake>>

\* History: the calls that must not block and for which there has been a moment
\* when every channel they name was open and not ready; for a send on an unbuffered
\* channel the moment when it is closed counts as one, too.
LosesReceivers(g) ==
  \E c \in Channels : op'[g].cases = {Send(c)} /\ Cap[c] = 0 /\ closed'[c] /\ ~closed[c]
Remember ==
  blocked' = {g \in Goroutines :
                /\ op'[g] # None /\ res'[g] = None /\ ~op'[g].block
                /\ g \in blocked \/ (\A k \in op[g].cases : ~Ready(k))' \/ LosesReceivers(g)}

Step(g) ==
  \/ \E o \in Calls : Call(g, o)
  \/ \E c \in Channels : FastSend(g, c) \/ FastRecv(g, c) \/ Close(g, c)
  \/ SendRecv(g) \/ SelLock(g) \/ Select(g) \/ Awake(g) \/ Pass3(g) \/ Wake(g) \/ Return(g)
Next == (\E g \in Goroutines : Step(g)) /\ Remember

Spec == Init /\ [][Next]_vars

-----------------------------------------------------------------------------
(* Properties. *)

\* "Invariants" of chan.go: one of sendq and recvq is empty, except when a single
\* goroutine waits on both; a buffer that is not empty has no receivers in
\* the queue, one that is not full no senders.  Moreover who waits is on the
\* queue of each of its cases, nobody waits on a closed channel, and nothing
\* throws: nobody is readied twice or without having been served, a sender that is
\* not served has seen the channel closed, and a select finds the case it was
\* woken for.
ChannelFits(c) ==
  /\ \/ waitq[Send(c)] = <<>>
     \/ waitq[Recv(c)] = <<>>
     \/ Cap[c] = 0 /\ \E g \in Goroutines : Range(waitq[Send(c)]) \cup Range(waitq[Recv(c)]) = {g}
  /\ buf[c] # <<>> => waitq[Recv(c)] = <<>>
  /\ Len(buf[c]) < Cap[c] => waitq[Send(c)] = <<>>
  /\ Len(buf[c]) <= Cap[c]
  /\ closed[c] => waitq[Send(c)] = <<>> /\ waitq[Recv(c)] = <<>>
QueueInvariant ==
  /\ TypeOK /\ \A g \in Goroutines : pc[g] # "throw"
  /\ \A c \in Channels : ChannelFits(c)
  /\ \A k \in Cases, g \in Goroutines :
       /\ g \in Range(waitq[k]) => pc[g] \in {"parked", "awake"} /\ k \in op[g].cases
       /\ pc[g] = "parked" /\ res[g] = None /\ k \in op[g].cases => g \in Range(waitq[k])

\* The locks that a select holds are the first ones of its channels.
LocksInOrder ==
  \A c \in Channels, g \in Goroutines : lock[c] = g =>
    /\ op[g] # None /\ IsSelect(op[g])
    /\ pc[g] \in {"lock", "awake", "throw"}
    /\ c \in ChansOf(op[g]) /\ \A d \in ChansOf(op[g]) : d < c => lock[d] = g

\* Selects that lock several channels never wait for each other in a circle: while
\* a channel is locked, some holder has all its locks or can take the next.
LocksMoveOn ==
  (\E c \in Channels : lock[c] # None) =>
     \E g \in Goroutines :
       /\ Held(g) # {}
       /\ Held(g) = ChansOf(op[g]) \/ \E c \in ToLock(g) : lock[c] = None

\* Channels behave as module Channels says: each call takes effect at once, values
\* stay in order and are neither lost nor duplicated, select does exactly one
\* of its cases, and a call gives up or waits only when it may.
Promise == INSTANCE Channels WITH
             waiting <- {g \in Goroutines : pc[g] = "parked" /\ res[g] = None},
             outcome <- res
ImplementsChannels == Promise!Spec
-----------------------------------------------------------------------------
(***************************************************************************)
(* Why it works: an inductive invariant.  Who waits is on the queues of    *)
(* all its cases; a select that has been served may still be on some, but  *)
(* then selectDone says so, and nobody takes it from there.  Who has been  *)
(* served is readied by one goroutine, once.  And a call that has seen, in *)
(* two reads, a channel that it could not use, gives up rightly: there was *)
(* a moment when it could not be used.                                     *)
(***************************************************************************)
FastPath == {"fast", "sawOpen", "sawFull", "sawEmpty", "sawClosed"}

\* What a goroutine has in its variables at each point of its call.
CallFits(g) ==
  /\ pc[g] # "throw"
  /\ op[g] = None => pc[g] \in {"idle", "done"} /\ res[g] = None
  /\ pc[g] = "idle" => op[g] = None
  /\ pc[g] \in FastPath \cup {"lock"} => res[g] = None
  /\ pc[g] = "awake" \/ (pc[g] = "done" /\ op[g] # None) => res[g] # None
  /\ pc[g] \in FastPath => ~op[g].block
  /\ pc[g] = "parked" => op[g].block
  /\ pc[g] \in {"parked", "awake"} /\ res[g] # None =>
       /\ res[g][1] \in op[g].cases
       /\ res[g][1][1] = "send" /\ ~res[g][2] => closed[res[g][1][2]]

Waiting(g) == pc[g] = "parked" /\ res[g] = None

QueuesFit ==
  /\ \A k \in Cases : IsInjective(waitq[k])
  /\ \A k \in Cases : \A g \in Range(waitq[k]) :
       /\ pc[g] \in {"parked", "awake"} /\ k \in op[g].cases
       /\ res[g] # None => g \in selectDone
  /\ \A g \in Goroutines : Waiting(g) => \A k \in op[g].cases : g \in Range(waitq[k])
  /\ \A g \in selectDone : pc[g] \in {"parked", "awake"} /\ res[g] # None /\ IsSelect(op[g])

WakesFit ==
  /\ \A g \in Goroutines : wake[g] # <<>> => pc[g] = "done"
  /\ \A g \in Goroutines : \A i \in DOMAIN wake[g] : pc[wake[g][i]] = "parked" /\ res[wake[g][i]] # None
  /\ \A g, h \in Goroutines : \A i \in DOMAIN wake[g], j \in DOMAIN wake[h] :
       wake[g][i] = wake[h][j] => g = h /\ i = j

\* What the calls that may give up have seen.
HistoryFits(g) ==
  /\ g \in blocked => op[g] # None /\ res[g] = None /\ ~op[g].block
  /\ op[g] # None /\ res[g] = None /\ ~op[g].block /\ (\A k \in op[g].cases : ~Ready(k)) => g \in blocked
  /\ \A c \in Channels :
       /\ pc[g] = "sawOpen" /\ op[g].cases = {Send(c)} /\ closed[c] /\ (Cap[c] = 0 \/ Full(c)) => g \in blocked
       /\ pc[g] = "sawFull" /\ op[g].cases = {Send(c)} /\ ~closed[c] => g \in blocked
       /\ pc[g] = "sawEmpty" /\ op[g].cases = {Recv(c)} /\ ~closed[c] => g \in blocked
       /\ pc[g] = "sawClosed" /\ op[g].cases = {Recv(c)} => closed[c]

QueueIInv ==
  /\ TypeOK /\ QueuesFit /\ WakesFit
  /\ \A c \in Channels : ChannelFits(c)
  /\ \A g \in Goroutines : CallFits(g) /\ HistoryFits(g)
=============================================================================
