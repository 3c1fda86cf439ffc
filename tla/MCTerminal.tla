------------------------------ MODULE MCTerminal ------------------------------
(* A terminal with two strategies, one of them averaging down, one switched  *)
(* off strategy and the spread trade; limits are small enough to be reached. *)
EXTENDS Terminal, TLC

Base == [action |-> "SIGNAL", side |-> "BUY", sym |-> "gold", strategy |-> "pullback",
         sl |-> 5, tp1 |-> 14, tp2 |-> 17, entry |-> 8, split |-> FALSE,
         unified |-> 0, lots |-> 0, ticket |-> 0]

MCCommands ==
  {Base,
   [Base EXCEPT !.unified = 7],
   [Base EXCEPT !.split = TRUE],
   [Base EXCEPT !.strategy = "scale_in", !.split = TRUE, !.side = "SELL", !.sl = 15, !.tp1 = 6, !.tp2 = 3],
   [Base EXCEPT !.strategy = "scale_in", !.side = "SELL", !.sl = 15, !.tp1 = 6, !.tp2 = 3, !.unified = 13],
   [Base EXCEPT !.strategy = "range"],
   [Base EXCEPT !.action = "PENDING"],
   [Base EXCEPT !.action = "PENDING", !.split = TRUE],
   [Base EXCEPT !.action = "CANCEL_PENDING", !.ticket = 2],
   [Base EXCEPT !.action = "MODIFY", !.ticket = 1, !.sl = 6],
   [Base EXCEPT !.action = "CLOSE", !.ticket = 1, !.lots = 30],
   [Base EXCEPT !.action = "CLOSE", !.ticket = 2],
   [Base EXCEPT !.action = "OPEN", !.sym = "brent", !.lots = 30],
   [Base EXCEPT !.action = "CLOSE_PARTIAL", !.sym = "brent", !.lots = 50],
   [Base EXCEPT !.action = "CLOSE_ALL", !.sym = "brent"]}

Held(magic, side, sym, class, lots, sl, tp) ==
  [class |-> class, side |-> side, sym |-> sym, magic |-> magic, lots |-> lots,
   entry |-> IF class = "pending" THEN 8 ELSE 10, sl |-> sl, tp |-> tp]

MCBooks ==
  {1 :> Held("pullback", "BUY", "gold", "market", 50, 8, 14)
     @@ 2 :> Held("foreign", "BUY", "gold", "pending", 20, 0, 0),
   1 :> Held("foreign", "SELL", "gold", "market", 40, 0, 0)
     @@ 2 :> Held("scale_in", "SELL", "gold", "market", 20, 12, 6),
   1 :> Held("spread", "BUY", "brent", "market", 40, 0, 0)
     @@ 2 :> Held("spread", "BUY", "brent", "market", 30, 0, 0)}

MCStrategyLots == [pullback |-> 55, scale_in |-> 30, range |-> 20]
=============================================================================
