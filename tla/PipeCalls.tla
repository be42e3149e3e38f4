------------------------------ MODULE PipeCalls ------------------------------
(***************************************************************************)
(* What io.Pipe promises (comments of Pipe, PipeReader and PipeWriter):    *)
(* each Write is matched by Reads that consume its bytes in order, one     *)
(* Write at a time; a call that the closing interrupts, or that comes      *)
(* after it, fails with the error of the other end, the first one given to *)
(* it; and a Write reports how many of its bytes were consumed, whatever   *)
(* ended it.                                                               *)
(***************************************************************************)
EXTENDS Naturals, Sequences

CONSTANTS Goroutines,
          None,         \* no call, no error
          Lens,         \* the lengths of buffers
          Errors,       \* what CloseWithError may store
          ErrClosedPipe

VARIABLES rerr, werr, \* the errors of the two ends
          shut,       \* the pipe is closed
          call        \* call[g]: None, or the Read or Write that g is in

vars == <<rerr, werr, shut, call>>

Bytes(n) == [i \in 1 .. n |-> i]

\* A Read with the bytes that it got, or a Write with the bytes that are left;
\* served if that is all it wants; end is "none", "failing" or an error.
Record(kind, len, data, served, end) ==
  [kind |-> kind, len |-> len, data |-> data, served |-> served, end |-> end]
Waits(g, kind) == call[g] # None /\ call[g].kind = kind /\ call[g].end = "none" /\ ~call[g].served
HalfDone(g) == Waits(g, "write") /\ Len(call[g].data) < call[g].len

Init ==
  /\ rerr = None /\ werr = None /\ shut = FALSE
  /\ call = [g \in Goroutines |-> None]

\* A call begins; on a closed pipe it fails.
Begin(g, kind, len) ==
  /\ call[g] = None
  /\ call' = [call EXCEPT ![g] = Record(kind, len, IF kind = "read" THEN <<>> ELSE Bytes(len), FALSE,
                                        IF shut THEN "failing" ELSE "none")]
  /\ UNCHANGED <<rerr, werr, shut>>

\* A Read consumes as many bytes of a Write as fit, when no other Write is half done.
Transfer(r, w) ==
  /\ Waits(r, "read") /\ Waits(w, "write")
  /\ \A v \in Goroutines \ {w} : ~HalfDone(v)
  /\ LET data == call[w].data
         k    == IF call[r].len < Len(data) THEN call[r].len ELSE Len(data)
         rest == SubSeq(data, k + 1, Len(data))
     IN  call' = [call EXCEPT ![r] = Record("read", @.len, SubSeq(data, 1, k), TRUE, "none"),
                              ![w] = Record("write", @.len, rest, rest = <<>>, "none")]
  /\ UNCHANGED <<rerr, werr, shut>>

\* The closing interrupts a call that is not served.
Interrupt(g, kind) ==
  /\ shut /\ Waits(g, kind)
  /\ call' = [call EXCEPT ![g] = [@ EXCEPT !.end = "failing"]]
  /\ UNCHANGED <<rerr, werr, shut>>

\* Its error is the other end's unless its own end has been closed as well.
CloseError(own, other) == IF own = None THEN other ELSE ErrClosedPipe

Fail(g) ==
  /\ call[g] # None /\ call[g].end = "failing"
  /\ LET error == IF call[g].kind = "read" THEN CloseError(rerr, werr) ELSE CloseError(werr, rerr) IN
       call' = [call EXCEPT ![g] = [@ EXCEPT !.end = error]]
  /\ UNCHANGED <<rerr, werr, shut>>

Return(g) ==
  /\ call[g] # None /\ (call[g].served \/ call[g].end \in Errors)
  /\ call' = [call EXCEPT ![g] = None]
  /\ UNCHANGED <<rerr, werr, shut>>

\* CloseWithError: the first error of each end stays, and the pipe is closed after.
CloseRead(error) == rerr = None /\ rerr' = error /\ UNCHANGED <<werr, shut, call>>
CloseWrite(error) == werr = None /\ werr' = error /\ UNCHANGED <<rerr, shut, call>>
Shut ==
  /\ rerr # None \/ werr # None
  /\ shut' = TRUE
  /\ UNCHANGED <<rerr, werr, call>>

Next ==
  \/ \E g \in Goroutines :
       \/ \E kind \in {"read", "write"} : Interrupt(g, kind) \/ \E len \in Lens : Begin(g, kind, len)
       \/ \E w \in Goroutines : Transfer(g, w)
       \/ Fail(g) \/ Return(g)
  \/ \E error \in Errors : CloseRead(error) \/ CloseWrite(error)
  \/ Shut

Spec == Init /\ [][Next]_vars
=============================================================================
