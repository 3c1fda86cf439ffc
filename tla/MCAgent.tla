-------------------------------- MODULE MCAgent --------------------------------
(* Values of the constants of Agent for TLC: the account whose bars are shared and another. *)
EXTENDS Agent

CONSTANTS src, acc

MCKindOf == [j \in Jobs |-> IF j \in {"analysis", "poll"} THEN j ELSE "trigger"]
MCTargetOf == [j \in Jobs |-> acc]
\* Two triggers; an analysis and a trigger that share an insight; an analysis, and a poll,
\* that a restart breaks off.
Scene(order, first, due, unlisted, attempts, time, restarts) ==
  [order |-> order, first |-> first, due |-> due, unlisted |-> unlisted, attempts |-> attempts,
   time |-> time, crashes |-> restarts]
MCScenes ==
  {Scene(<<acc>>, FALSE, {"now", "again"}, {acc}, 1, 3, 0),
   Scene(<<acc>>, TRUE, {"analysis", "now"}, {}, 1, 2, 0),
   Scene(<<acc>>, FALSE, {"analysis"}, {acc}, 4, 1, 1),
   Scene(<<src, acc>>, TRUE, {"poll"}, {}, 2, 1, 1)}
=============================================================================
