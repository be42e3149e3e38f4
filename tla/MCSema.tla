-------------------------------- MODULE MCSema -------------------------------
(* A small instance of Sema for TLC. *)
EXTENDS Sema, TLC

CONSTANTS g1, g2, g3, a1, a2

MCThree == {g1, g2, g3}
MCTwoAddr == {a1, a2}
MCSymmetry == Permutations(Goroutines) \cup Permutations(Addr)
=============================================================================
