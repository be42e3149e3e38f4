----------------------------- MODULE MCSemaRoot ------------------------------
(* Small instances of SemaRoot for TLC. *)
EXTENDS SemaRoot, TLC

CONSTANTS s1, s2, s3, s4, s5

MCSudogs == {s1, s2, s3, s4, s5}
MCAddr == 1..4
MCTickets == {1, 3, 5}
MCSymmetry == Permutations(Sudogs)
=============================================================================
