--------------------------- MODULE MCAIApproveRules ---------------------------
(* Values of the constants of AIApproveRules for TLC. *)
EXTENDS AIApproveRules, FiniteSets

\* Plans around a market at 20: entries from far below to far above, stops and
\* targets on either side, one to three targets.
MCPlans ==
  {[side |-> s, execution_type |-> i[1], requested_order_type |-> i[2],
    zone_min |-> z, zone_max |-> z + 4, stop_loss |-> sl, take_profit |-> tp, max_lots |-> 1] :
     s \in {"buy", "sell"},
     i \in {<<"market", "market">>, <<"limit", "BUY_LIMIT">>, <<"limit", "SELL_LIMIT">>,
            <<"stop", "STOP">>, <<"market", "BUY_LIMIT">>, <<"none", "market">>},
     z \in {14, 16, 18, 20, 22},
     sl \in {0, 8, 14, 18, 24},
     tp \in {T \in SUBSET {0, 10, 16, 24, 36} : Cardinality(T) \in 1 .. 3}}

MCTicks == {[bid |-> 18, ask |-> 20], [bid |-> 20, ask |-> 20], [bid |-> 0, ask |-> 22],
            [bid |-> 0, ask |-> 0]}

=============================================================================
