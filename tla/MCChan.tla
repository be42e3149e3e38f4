------------------------------- MODULE MCChan -------------------------------
(* An instance of Chan for TLC: channel 1 is unbuffered, channel 2 has one slot. *)
EXTENDS Chan, TLC

CONSTANTS g1, g2, g3

MCGoroutines == {g1, g2, g3}
MCSymmetry == Permutations(Goroutines)
MCChannels == 1..2
MCCap == <<0, 1>>

Blocking(ks) == [cases |-> ks, block |-> TRUE]
Trying(ks) == [cases |-> ks, block |-> FALSE]

\* Receives from 1 and sends to 2, which block; the opposite, which must not;
\* and selects on both channels, and on both directions of one.
MCCalls ==
  {Blocking({k}) : k \in {Recv(1), Send(2)}}
    \cup {Trying({k}) : k \in {Send(1), Recv(2)}}
    \cup {Blocking({Send(1), k}) : k \in {Recv(1), Recv(2)}}
    \cup {Trying({Recv(1), Send(2)})}
=============================================================================
