------------------------------ MODULE Channels ------------------------------
(***************************************************************************)
(* What channels promise (the comments of chan.go and select.go): a call   *)
(* names a set of cases, each a send or a receive on a channel, and one of *)
(* them takes effect, at once; values leave a channel in the order they    *)
(* entered it, each once; a caller waits only while none of its cases can  *)
(* proceed; close ends every wait on the channel; a receive from a closed  *)
(* channel first gets what is buffered.  A sender's value is its name.     *)
(***************************************************************************)
EXTENDS Naturals, Sequences

CONSTANTS Goroutines, Channels, Cap, Calls, None

VARIABLES buf,      \* buf[c]: values in the buffer of c
          closed,   \* closed[c]
          op,       \* op[g]: the call g is in, or None
          waiting,  \* callers that wait
          outcome,  \* outcome[g]: what came of g's call, or None
          blocked   \* callers for whom no case could proceed at some moment of their call

vars == <<buf, closed, op, waiting, outcome, blocked>>

NotSelected == <<None, FALSE, None>>

Init ==
  /\ buf = [c \in Channels |-> <<>>]
  /\ closed = [c \in Channels |-> FALSE]
  /\ op = [g \in Goroutines |-> None]
  /\ waiting = {}
  /\ outcome = [g \in Goroutines |-> None]
  /\ blocked = {}

Waiters(dir, c) == {h \in waiting : <<dir, c>> \in op[h].cases}
Ready(k) ==
  LET c == k[2] IN
    \/ closed[c]
    \/ k[1] = "send" /\ (Waiters("recv", c) # {} \/ Len(buf[c]) < Cap[c])
    \/ k[1] = "recv" /\ (Waiters("send", c) # {} \/ buf[c] # <<>>)
CannotProceed(g) == \A k \in op[g].cases : ~Ready(k)

Undecided(g) == op[g] # None /\ outcome[g] = None /\ g \notin waiting

Call(g, o) ==
  /\ op[g] = None
  /\ op' = [op EXCEPT ![g] = o]
  /\ UNCHANGED <<buf, closed, waiting, outcome>>

Wait(g) ==
  /\ Undecided(g) /\ op[g].block /\ CannotProceed(g)
  /\ waiting' = waiting \cup {g}
  /\ UNCHANGED <<buf, closed, op, outcome>>

Put(g, c) ==
  /\ Undecided(g) /\ <<"send", c>> \in op[g].cases
  /\ ~closed[c] /\ Waiters("recv", c) = {} /\ Len(buf[c]) < Cap[c]
  /\ buf' = [buf EXCEPT ![c] = Append(@, g)]
  /\ outcome' = [outcome EXCEPT ![g] = <<<<"send", c>>, TRUE, None>>]
  /\ UNCHANGED <<closed, op, waiting>>

Take(g, c) ==
  /\ Undecided(g) /\ <<"recv", c>> \in op[g].cases
  /\ Waiters("send", c) = {} /\ buf[c] # <<>>
  /\ outcome' = [outcome EXCEPT ![g] = <<<<"recv", c>>, TRUE, Head(buf[c])>>]
  /\ buf' = [buf EXCEPT ![c] = Tail(@)]
  /\ UNCHANGED <<closed, op, waiting>>

\* s sends and r receives; one of them has waited for the other.
Exchange(s, r, c) ==
  /\ s # r
  /\ \/ Undecided(s) /\ r \in Waiters("recv", c)
     \/ s \in Waiters("send", c) /\ Undecided(r)
  /\ <<"send", c>> \in op[s].cases /\ <<"recv", c>> \in op[r].cases
  /\ ~closed[c]
  /\ LET line == Append(buf[c], s) IN
       /\ outcome' = [outcome EXCEPT ![s] = <<<<"send", c>>, TRUE, None>>,
                                     ![r] = <<<<"recv", c>>, TRUE, Head(line)>>]
       /\ buf' = [buf EXCEPT ![c] = Tail(line)]
  /\ waiting' = waiting \ {s, r}
  /\ UNCHANGED <<closed, op>>

\* Close ends every wait on c: receivers learn of it, senders panic.
Close(c) ==
  /\ ~closed[c]
  /\ closed' = [closed EXCEPT ![c] = TRUE]
  /\ LET ended == Waiters("send", c) \cup Waiters("recv", c) IN
       /\ \E dir \in [ended -> {"send", "recv"}] :
            /\ \A g \in ended : <<dir[g], c>> \in op[g].cases
            /\ outcome' = [g \in Goroutines |->
                             IF g \in ended THEN <<<<dir[g], c>>, FALSE, None>> ELSE outcome[g]]
       /\ waiting' = waiting \ ended
  /\ UNCHANGED <<buf, op>>

\* A case on a closed channel, with nothing left to receive from it.
Closed(g, k) ==
  /\ Undecided(g) /\ k \in op[g].cases
  /\ closed[k[2]] /\ (k[1] = "recv" => buf[k[2]] = <<>>)
  /\ outcome' = [outcome EXCEPT ![g] = <<k, FALSE, None>>]
  /\ UNCHANGED <<buf, closed, op, waiting>>

\* A call that must not block gives up if no case could proceed at some moment of it.
GiveUp(g) ==
  /\ Undecided(g) /\ ~op[g].block /\ g \in blocked
  /\ outcome' = [outcome EXCEPT ![g] = NotSelected]
  /\ UNCHANGED <<buf, closed, op, waiting>>

Return(g) ==
  /\ outcome[g] # None
  /\ outcome' = [outcome EXCEPT ![g] = None]
  /\ op' = [op EXCEPT ![g] = None]
  /\ UNCHANGED <<buf, closed, waiting>>

\* g sends on an unbuffered channel, which this step closes: the channel's receivers
\* are gone at once, and that counts as a moment when it could not be sent on.
LosesReceivers(g) ==
  \E c \in Channels : op'[g].cases = {<<"send", c>>} /\ Cap[c] = 0 /\ closed'[c] /\ ~closed[c]

Remember ==
  blocked' = {g \in Goroutines :
                /\ op'[g] # None /\ outcome'[g] = None
                /\ ~op'[g].block
                /\ g \in blocked \/ CannotProceed(g)' \/ LosesReceivers(g)}

Step ==
  \/ \E g \in Goroutines :
       \/ \E o \in Calls : Call(g, o)
       \/ Wait(g) \/ GiveUp(g) \/ Return(g)
       \/ \E c \in Channels : Put(g, c) \/ Take(g, c) \/ \E h \in Goroutines : Exchange(g, h, c)
       \/ \E k \in {"send", "recv"} \X Channels : Closed(g, k)
  \/ \E c \in Channels : Close(c)
Next == Step /\ Remember

Spec == Init /\ [][Next]_vars
=============================================================================
