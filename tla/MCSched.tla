------------------------------- MODULE MCSched -------------------------------
(* An instance of Sched for TLC. *)
EXTENDS Sched, TLC

CONSTANTS m1, m2, m3, p1, p2

MCMs == {m1, m2, m3}
MCPs == {p1, p2}
MCSymmetry == Permutations(MCMs) \cup Permutations(MCPs)
=============================================================================
