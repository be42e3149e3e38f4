-------------------------------- MODULE MCPipe -------------------------------
(* Small instance of Pipe for TLC. *)
EXTENDS Pipe

CONSTANTS g1, g2, g3, sema, EOF, e1

MCGoroutines == {g1, g2, g3}
MCAddr == {sema}
MCLens == 0 .. 2
MCErrors == {ErrClosedPipe, EOF, e1}

\* A reader, a writer and one of each kind, each with an error of its own.
MCCalls ==
  [g \in MCGoroutines |->
     CASE g = g1 -> {<<"read", 1>>, <<"read", 2>>, <<"closeread", ErrClosedPipe>>}
       [] g = g2 -> {<<"write", 0>>, <<"write", 2>>, <<"closewrite", EOF>>}
       [] g = g3 -> {<<"read", 1>>, <<"write", 1>>, <<"closewrite", e1>>}]
=============================================================================
