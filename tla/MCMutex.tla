------------------------------- MODULE MCMutex -------------------------------
(* A small instance of Mutex for TLC. *)
EXTENDS Mutex

CONSTANTS g1, g2, g3, sema

MCGoroutines == {g1, g2, g3}
MCAddr == {sema}
MCSpinners == {g1}
=============================================================================
