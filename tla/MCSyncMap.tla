------------------------------ MODULE MCSyncMap ------------------------------
(* A small instance of SyncMap for TLC. *)
EXTENDS SyncMap

CONSTANTS k1, k2, v1, v2, g1, g2, g3

Of(ops, k, v) == [op : ops, key : {k}, val : {v}]

\* g1 changes k1; g2 adds and misses k2, so that the dirty map is made and
\* promoted over and over; g3 reads.
MCCalls ==
  [g \in Goroutines |->
     CASE g = g1 -> Of({"Store", "LoadAndDelete"}, k1, v1)
       [] g = g2 -> Of({"Store", "LoadAndDelete"}, k2, v1)
       [] g = g3 -> Of({"Load", "Range", "LoadOrStore"}, k1, v2)]
=============================================================================
