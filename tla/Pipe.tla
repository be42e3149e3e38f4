--------------------------------- MODULE Pipe ---------------------------------
(***************************************************************************)
(* io.Pipe (io/pipe.go): Read and Write meet on two unbuffered channels,   *)
(* and CloseRead and CloseWrite close the channel done through sync.Once,  *)
(* which here is module Once, on module Mutex.  The mutex wrMu and those   *)
(* of the two onceErrors are locks as in module Lock, and the channels     *)
(* behave as in module Channels: a send on one without a buffer is one     *)
(* step with its receive, and a select takes any case that is ready.       *)
(***************************************************************************)
EXTENDS Once, Sequences

CONSTANTS Lens,           \* bound: the lengths of buffers
          ErrClosedPipe,
          Errors,         \* the errors that the ends are closed with, io.EOF and ErrClosedPipe among them
          Calls           \* Calls[g]: what g calls, <<"read", length>>, <<"closewrite", error>>, ...

ASSUME PipeAssumption ==
  /\ Lens \subseteq Nat
  /\ ErrClosedPipe \in Errors /\ Errors \cap {None, "none", "failing"} = {}
  /\ None \notin [kind : {"read", "write"}, len : Lens, data : Seq(Nat), served : BOOLEAN,
                  end : Errors \cup {"none", "failing"}]
  /\ Calls \in [Goroutines -> SUBSET (({"read", "write"} \X Lens) \cup ({"closeread", "closewrite"} \X Errors))]

VARIABLES iopc,       \* control point of each goroutine in a call
          kind,       \* its call
          len,        \* the length of its b at the call
          b,          \* Read: the bytes copied to b; Write: the rest of b
          n,          \* Write: the local variable n
          err,        \* the first error that it has loaded, or the one it returns
          wrMu,       \* who holds p.wrMu: None or a goroutine
          rerr, werr  \* p.rerr.err, p.werr.err

iovars == <<kind, len, b, n, err>>
pipevars == <<oncevars, iopc, iovars, wrMu, rerr, werr>>

\* iopc[g]: "idle",
\*          "poll"   - Read, Write: in the first select
\*          "mu"     - Write: in p.wrMu.Lock
\*          "select" - Read, Write: in the select
\*          "ack"    - Read: in p.rdCh <- nr; Write: in <-p.rdCh
\*          "err1"   - readCloseError, writeCloseError: about to load the own error
\*          "err2"   - about to load the other end's
\*          "return" - Read, Write: about to return n and err
\*          "store"  - CloseRead, CloseWrite: about to store the error
\*          "once"   - CloseRead, CloseWrite: in p.once.Do

\* p.done is closed by the function given to p.once.Do.
Done == finished

Bytes(k) == [i \in 1 .. k |-> i]

PipeInit ==
  /\ OnceInit
  /\ iopc = [g \in Goroutines |-> "idle"]
  /\ kind = [g \in Goroutines |-> "read"]
  /\ len = [g \in Goroutines |-> 0]
  /\ b = [g \in Goroutines |-> <<>>]
  /\ n = [g \in Goroutines |-> 0]
  /\ err = [g \in Goroutines |-> None]
  /\ wrMu = None /\ rerr = None /\ werr = None

Go(g, from, to) == iopc[g] = from /\ iopc' = [iopc EXCEPT ![g] = to]
Reading(g) == kind[g] = "read"
Writing(g) == kind[g] = "write"

-----------------------------------------------------------------------------
(* Read and Write. *)

Start(g, call) ==
  /\ call[1] \in {"read", "write"}
  /\ kind' = [kind EXCEPT ![g] = call[1]]
  /\ len' = [len EXCEPT ![g] = call[2]]
  /\ b' = [b EXCEPT ![g] = IF call[1] = "read" THEN <<>> ELSE Bytes(call[2])]
  /\ Go(g, "idle", "poll")
  /\ UNCHANGED <<oncevars, n, err, wrMu, rerr, werr>>

\* Mutation: Read does not look at done first.
PollWriteOnly(g) ==
  /\ Go(g, "poll", IF Writing(g) THEN (IF Done THEN "err1" ELSE "mu") ELSE "select")
  /\ UNCHANGED <<oncevars, iovars, wrMu, rerr, werr>>

\* The first select: done is closed, or not.
Poll(g) ==
  /\ Go(g, "poll", IF Done THEN "err1" ELSE IF Writing(g) THEN "mu" ELSE "select")
  /\ UNCHANGED <<oncevars, iovars, wrMu, rerr, werr>>

\* Write: p.wrMu.Lock.
WriteLock(g) ==
  /\ Go(g, "mu", "select")
  /\ wrMu = None /\ wrMu' = g
  /\ UNCHANGED <<oncevars, iovars, rerr, werr>>

\* wrCh: the Write's b is received and copied by the Read.
Transfer(r, w) ==
  /\ iopc[r] = "select" /\ Reading(r) /\ iopc[w] = "select" /\ Writing(w)
  /\ b' = [b EXCEPT ![r] = SubSeq(b[w], 1, IF len[r] < Len(b[w]) THEN len[r] ELSE Len(b[w]))]
  /\ iopc' = [iopc EXCEPT ![r] = "ack", ![w] = "ack"]
  /\ UNCHANGED <<oncevars, kind, len, n, err, wrMu, rerr, werr>>

\* rdCh: the number of bytes copied; the Write goes on until b is empty.
Ack(r, w) ==
  /\ iopc[r] = "ack" /\ Reading(r) /\ iopc[w] = "ack" /\ Writing(w)
  /\ LET nw   == Len(b[r])
         rest == SubSeq(b[w], nw + 1, Len(b[w]))
     IN  /\ b' = [b EXCEPT ![w] = rest]
         /\ n' = [n EXCEPT ![w] = @ + nw]
         /\ iopc' = [iopc EXCEPT ![r] = "return", ![w] = IF rest = <<>> THEN "return" ELSE "select"]
  /\ UNCHANGED <<oncevars, kind, len, err, wrMu, rerr, werr>>

\* Mutation: the Write's select does not look at done.
InterruptRead(g) ==
  /\ Done /\ Go(g, "select", "err1") /\ Reading(g)
  /\ UNCHANGED <<oncevars, iovars, wrMu, rerr, werr>>

\* The select: done is closed.
Interrupt(g) ==
  /\ Done /\ Go(g, "select", "err1")
  /\ UNCHANGED <<oncevars, iovars, wrMu, rerr, werr>>

\* readCloseError, writeCloseError.
CloseError1(g) ==
  /\ Go(g, "err1", "err2")
  /\ err' = [err EXCEPT ![g] = IF Reading(g) THEN rerr ELSE werr]
  /\ UNCHANGED <<oncevars, kind, len, b, n, wrMu, rerr, werr>>

Other(g) == IF Reading(g) THEN werr ELSE rerr
CloseError(g) == IF err[g] = None /\ Other(g) # None THEN Other(g) ELSE ErrClosedPipe

CloseError2(g) ==
  /\ Go(g, "err2", "return")
  /\ err' = [err EXCEPT ![g] = CloseError(g)]
  /\ UNCHANGED <<oncevars, kind, len, b, n, wrMu, rerr, werr>>

\* The call returns n and err; Write unlocks p.wrMu if it has locked it.
Return(g) ==
  /\ Go(g, "return", "idle")
  /\ wrMu' = IF wrMu = g THEN None ELSE wrMu
  /\ kind' = [kind EXCEPT ![g] = "read"] /\ len' = [len EXCEPT ![g] = 0]
  /\ b' = [b EXCEPT ![g] = <<>>] /\ n' = [n EXCEPT ![g] = 0] /\ err' = [err EXCEPT ![g] = None]
  /\ UNCHANGED <<oncevars, rerr, werr>>

-----------------------------------------------------------------------------
(* CloseRead and CloseWrite. *)

Close(g, call) ==
  /\ call[1] \in {"closeread", "closewrite"}
  /\ kind' = [kind EXCEPT ![g] = call[1]]
  /\ err' = [err EXCEPT ![g] = call[2]]
  /\ Go(g, "idle", "store")
  /\ UNCHANGED <<oncevars, len, b, n, wrMu, rerr, werr>>

\* onceError.Store, under its mutex; then p.once.Do is called.
Store(g) ==
  /\ Go(g, "store", "once")
  /\ IF kind[g] = "closeread"
       THEN rerr' = (IF rerr = None THEN err[g] ELSE rerr) /\ UNCHANGED werr
       ELSE werr' = (IF werr = None THEN err[g] ELSE werr) /\ UNCHANGED rerr
  /\ err' = [err EXCEPT ![g] = None]
  /\ Do(g)
  /\ UNCHANGED <<kind, len, b, n, wrMu>>

\* A step of p.once.Do; the last one returns from it.
OnceStep(g) ==
  /\ DoStep(g)
  /\ IF dopc'[g] = "idle"
       THEN Go(g, "once", "idle") /\ kind' = [kind EXCEPT ![g] = "read"]
       ELSE UNCHANGED <<iopc, kind>>
  /\ UNCHANGED <<len, b, n, err, wrMu, rerr, werr>>

-----------------------------------------------------------------------------
BeginCall(g) == \E call \in Calls[g] : Start(g, call) \/ Close(g, call)
PipeStep(g) ==
  \/ Poll(g) \/ WriteLock(g) \/ Interrupt(g) \/ CloseError1(g) \/ CloseError2(g) \/ Return(g)
  \/ Store(g) \/ OnceStep(g)
  \/ \E w \in Goroutines : Ack(g, w)

PipeNext ==
  \E g \in Goroutines : BeginCall(g) \/ PipeStep(g) \/ \E w \in Goroutines : Transfer(g, w)

\* A goroutine in a call keeps running, but whether readers and writers meet is up
\* to them.
PipeSpec ==
  /\ PipeInit /\ [][PipeNext]_pipevars
  /\ \A g \in Goroutines : WF_pipevars(PipeStep(g))

-----------------------------------------------------------------------------
(* Properties. *)

\* A CloseRead or CloseWrite ends every wait: it closes the pipe, which no other
\* call of Once.Do holds up, and then nobody stays in a select, in p.wrMu.Lock,
\* with half of a transfer on rdCh, or in the slow path of p.once.Do.  What is
\* left of each call has no wait in it.
Blocking(g) == iopc[g] \in {"mu", "select", "ack"} \/ dopc[g] \notin {"idle", "load"}
ClosingEndsWaits ==
  (\E g \in Goroutines : iopc[g] = "once") ~> Done /\ \A g \in Goroutines : ~Blocking(g)

\* The pipe keeps the promises of PipeCalls, where a transfer happens when wrCh is
\* received from and an error is chosen when the first of the two is loaded.
Receiver == CHOOSE r \in Goroutines : iopc[r] = "ack" /\ Reading(r)
Sent(g) == n[g] + IF iopc[g] = "ack" THEN Len(b[Receiver]) ELSE 0
Data(g) == IF Reading(g) THEN b[g] ELSE SubSeq(Bytes(len[g]), Sent(g) + 1, len[g])
Served(g) ==
  \/ iopc[g] = "ack" /\ (Reading(g) \/ Data(g) = <<>>)
  \/ iopc[g] = "return" /\ err[g] = None
End(g) == CASE iopc[g] = "err1" -> "failing"
            [] iopc[g] = "err2" -> CloseError(g)
            [] iopc[g] = "return" /\ err[g] # None -> err[g]
            [] OTHER -> "none"
AbstractCall(g) ==
  IF iopc[g] \in {"idle", "poll", "store", "once"} THEN None
  ELSE [kind |-> kind[g], len |-> len[g], data |-> Data(g), served |-> Served(g), end |-> End(g)]

Promise == INSTANCE PipeCalls WITH
             shut <- Done,
             call <- [g \in Goroutines |-> AbstractCall(g)]
ImplementsPipeCalls == Promise!Spec

-----------------------------------------------------------------------------
(***************************************************************************)
(* Why it works: an inductive invariant, beside that of the Once.  Whoever *)
(* is past the lock has wrMu, so that one Write at most is in the middle   *)
(* of its bytes, and a Read that has some of them still has to tell it how *)
(* many.  The pipe is closed after an error is stored, and stored errors   *)
(* stay: a call that finds it closed finds one of them.                    *)
(***************************************************************************)
IOPCs == {"idle", "poll", "mu", "select", "ack", "err1", "err2", "return", "store", "once"}

PipeTypeOK ==
  /\ iopc \in [Goroutines -> IOPCs]
  /\ kind \in [Goroutines -> {"read", "write", "closeread", "closewrite"}]
  /\ len \in [Goroutines -> Nat] /\ n \in [Goroutines -> Nat]
  /\ b \in [Goroutines -> Seq(Nat)]
  /\ err \in [Goroutines -> Errors \cup {None}]
  /\ wrMu \in Goroutines \cup {None}
  /\ rerr \in Errors \cup {None} /\ werr \in Errors \cup {None}

\* What a goroutine has in its variables at each point of its call.
LocalsFit(g) ==
  /\ iopc[g] \in {"store", "once"} <=> kind[g] \in {"closeread", "closewrite"}
  /\ iopc[g] \in {"idle", "store", "once"} => len[g] = 0 /\ b[g] = <<>>
  /\ iopc[g] = "idle" => Reading(g)
  /\ iopc[g] = "mu" => Writing(g)
  /\ iopc[g] = "store" => err[g] # None
  /\ iopc[g] \in {"idle", "poll", "mu", "select", "ack", "err1", "once"} => err[g] = None
  /\ iopc[g] \in {"idle", "poll", "mu", "store", "once"} => n[g] = 0
  /\ iopc[g] \in {"poll", "mu", "select"} /\ Reading(g) => b[g] = <<>>
  /\ Reading(g) => n[g] = 0
  /\ Writing(g) => len[g] \in Lens
  /\ iopc[g] \notin {"idle", "store", "once"} => len[g] \in Lens

\* A Write has before it the rest of its bytes, and holds wrMu meanwhile.
WriteFits(g) ==
  /\ Writing(g) => n[g] <= len[g] /\ b[g] = SubSeq(Bytes(len[g]), n[g] + 1, len[g])
  /\ Writing(g) /\ iopc[g] \in {"select", "ack"} => wrMu = g
  /\ wrMu = g => Writing(g) /\ iopc[g] \in {"select", "ack", "err1", "err2", "return"}

\* A Read and a Write are between the two channels together.
AcksFit ==
  /\ \A r, q \in Goroutines :
       iopc[r] = "ack" /\ iopc[q] = "ack" /\ Reading(r) /\ Reading(q) => r = q
  /\ \A r \in Goroutines : iopc[r] = "ack" /\ Reading(r) =>
       \E w \in Goroutines : iopc[w] = "ack" /\ Writing(w) /\ Len(b[r]) <= Len(b[w])
  /\ \A w \in Goroutines : iopc[w] = "ack" /\ Writing(w) =>
       \E r \in Goroutines : iopc[r] = "ack" /\ Reading(r)

\* The pipe is closed after an error has been stored.
ErrorsFit ==
  /\ Done => rerr # None \/ werr # None
  /\ \A g \in Goroutines :
       /\ dopc[g] # "idle" <=> iopc[g] = "once"
       /\ iopc[g] = "once" => (IF kind[g] = "closeread" THEN rerr # None ELSE werr # None)
       /\ iopc[g] \in {"err1", "err2"} => Done
       /\ iopc[g] = "err2" /\ err[g] = None => Other(g) # None

PipeIInv ==
  /\ OnceIInv /\ PipeTypeOK /\ AcksFit /\ ErrorsFit
  /\ \A g \in Goroutines : LocalsFit(g) /\ WriteFits(g)
=============================================================================
