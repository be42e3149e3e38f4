--------------------------------- MODULE MCFD ---------------------------------
(* Small instances of FD for TLC. *)
EXTENDS FD

CONSTANTS g1, g2, g3, rsema, wsema, csema

MCThree == {g1, g2, g3}
MCAddr == {rsema, wsema, csema}

\* Two for the locks, one of which sets deadlines and the mode, and one that takes
\* references and closes.
MCMayCall ==
  [g \in MCThree |-> CASE g = g1 -> {"r", "w"}
                       [] g = g2 -> {"r", "w", "deadline", "blocking"}
                       [] g = g3 -> {"ref", "close"}]

MCMaySet == {<<Modes, "past">>, <<{"r"}, "later">>}
MCArrives == {"r"}
=============================================================================
