---------------------------- MODULE AIApproveRules ----------------------------
(***************************************************************************)
(* The price rules an AI trade plan must meet before it becomes an order:  *)
(* the entry picked from the zone, the kind of order the plan asks for and *)
(* whether the market allows it, the protection on the right side of the   *)
(* price, and the reward/risk ratio of the furthest executable target.     *)
(* The gate judges a plan with the market's price, then the command        *)
(* builder judges it again on its own.                                     *)
(*                                                                         *)
(* Prices are whole numbers of a price step, even ones where two are       *)
(* averaged; the order in which a plan lists its targets does not matter   *)
(* (they are sorted and duplicates dropped), so take_profit is a set.      *)
(* Trend, positions, queue, daily limit and cooldown stand between the     *)
(* rules here; they are in AIApproveGate.                                  *)
(***************************************************************************)
EXTENDS Integers

CONSTANTS
  Plans,  \* trade plans
  Ticks,  \* latest ticks, a price that is missing is 0
  Atrs    \* ATR of the H1 bars, 0 when unknown

Plan == [side : {"buy", "sell"}, execution_type : {"none", "market", "limit", "stop", "other"},
         requested_order_type : {"none", "market", "BUY_LIMIT", "SELL_LIMIT", "STOP", "other"},
         zone_min : Int, zone_max : Int, stop_loss : Int, take_profit : SUBSET Int,
         max_lots : Nat]
TickType == [bid : Nat, ask : Nat]

ASSUME RulesAssumption ==
  /\ Plans \subseteq Plan
  /\ Ticks \subseteq TickType
  /\ Atrs \subseteq Nat

VARIABLES
  plan, tick, atr,
  stage,      \* what became of the plan
  orderType,  \* the kind of order the gate resolved
  order       \* the candidate the command builder made

vars == <<plan, tick, atr, stage, orderType, order>>

Distance(a, b) == IF a > b THEN a - b ELSE b - a

\* How far v lies beyond the price in the direction of the trade.
Gain(side, price, v) == IF side = "buy" THEN v - price ELSE price - v

Targets(p) == {v \in p.take_profit : v > 0}

\* Targets are sorted in the direction of the trade: the nearest comes first.
Nearest(side, S) ==
  CHOOSE v \in S : \A w \in S : IF side = "buy" THEN v <= w ELSE w <= v

FirstTarget(p) == Nearest(p.side, Targets(p))
MoreTargets(p) == Targets(p) \ {FirstTarget(p)}
Split(p) == MoreTargets(p) # {}
LastTarget(p) == IF Split(p) THEN Nearest(p.side, MoreTargets(p)) ELSE FirstTarget(p)

\* A reward of at least 1.25 times the risk (AI_APPROVE_MIN_RR).
WorthTheRisk(reward, risk) == 4 * reward >= 5 * risk

\* Stop and targets lie on their sides of the price; mistake: only the last target
\* is looked at.
LastOnly(p, price) ==
  LET risk == -Gain(p.side, price, p.stop_loss) IN
    /\ price > 0 /\ p.stop_loss > 0 /\ risk > 0
    /\ Targets(p) # {}
    /\ Gain(p.side, price, LastTarget(p)) > 0
WellPlaced(p, price) ==
  LET risk == -Gain(p.side, price, p.stop_loss) IN
    /\ price > 0 /\ p.stop_loss > 0 /\ risk > 0
    /\ Targets(p) # {}
    /\ Gain(p.side, price, FirstTarget(p)) > 0
    /\ Gain(p.side, price, LastTarget(p)) > 0

\* resolveAIApproveExecutableTakeProfits accepts, with the default minimum.
Executable(p, price) ==
  /\ WellPlaced(p, price)
  /\ WorthTheRisk(Gain(p.side, price, LastTarget(p)),
                  -Gain(p.side, price, p.stop_loss))

PickEntry(p) ==
  IF p.zone_min <= 0 \/ p.zone_max <= 0 THEN 0 ELSE (p.zone_min + p.zone_max) \div 2

MidPrice(t) ==
  IF t.bid > 0 /\ t.ask > 0 THEN (t.bid + t.ask) \div 2
  ELSE IF t.ask > 0 THEN t.ask ELSE t.bid

ExecutionPrice(t, side) ==
  IF side = "buy" THEN (IF t.ask > 0 THEN t.ask ELSE t.bid)
                  ELSE (IF t.bid > 0 THEN t.bid ELSE t.ask)

IntentAgrees(p) ==
  /\ p.execution_type \in {"market", "limit"}
  /\ p.requested_order_type \in {"market", "BUY_LIMIT", "SELL_LIMIT"}
  /\ (p.execution_type = "market") = (p.requested_order_type = "market")
  /\ p.requested_order_type = "BUY_LIMIT" => p.side = "buy"
  /\ p.requested_order_type = "SELL_LIMIT" => p.side = "sell"

\* The market has not reached the limit price yet; mistake: the other way round.
Reached(p, price, entry) == Gain(p.side, entry, price) <= 0
StillAhead(p, price, entry) == Gain(p.side, entry, price) > 0

\* The kind of order: a market order near its entry, a limit order the market has
\* not reached, or a limit order it has reached whose protection still fits.
OrderIntent(p, price, entry, h1Atr) ==
  IF ~IntentAgrees(p) THEN "rejected"
  ELSE IF p.execution_type = "market"
    THEN IF h1Atr > 0 /\ 10 * Distance(price, entry) > 3 * h1Atr THEN "rejected" ELSE "market"
  ELSE IF StillAhead(p, price, entry) THEN p.requested_order_type
  ELSE IF WellPlaced(p, price) THEN "market" ELSE "rejected"

\* evaluateAIApprovePendingGate, as far as prices go.
GateAccepts(p, t, h1Atr) ==
  LET entry == PickEntry(p)
      price == ExecutionPrice(t, p.side)
      intent == OrderIntent(p, price, entry, h1Atr)
  IN /\ MidPrice(t) > 0
     /\ entry > 0
     /\ p.max_lots > 0
     /\ intent # "rejected"
     /\ WellPlaced(p, entry)
     /\ h1Atr > 0 => Distance(MidPrice(t), entry) <= 3 * h1Atr
     /\ Executable(p, IF intent = "market" THEN price ELSE entry)

NoOrder == [entry |-> 0, sl |-> 0, tp |-> 0, tp1 |-> 0, tp2 |-> 0]

\* tp is the last target for terminals that know nothing of split orders.
Candidate(p, entry) ==
  [entry |-> entry, sl |-> p.stop_loss, tp |-> LastTarget(p), tp1 |-> FirstTarget(p),
   tp2 |-> IF Split(p) THEN LastTarget(p) ELSE 0]

Init ==
  /\ plan \in Plans
  /\ tick \in Ticks
  /\ atr \in Atrs
  /\ stage = "received"
  /\ orderType = "none"
  /\ order = NoOrder

EvaluateGate ==
  /\ stage = "received"
  /\ IF GateAccepts(plan, tick, atr)
       THEN /\ stage' = "accepted"
            /\ orderType' = OrderIntent(plan, ExecutionPrice(tick, plan.side), PickEntry(plan), atr)
       ELSE /\ stage' = "rejected"
            /\ UNCHANGED orderType
  /\ UNCHANGED <<plan, tick, atr, order>>

\* The builder resolves the targets from the picked entry, whatever the kind of
\* order, and throws when they are not executable.
BuildCandidate ==
  /\ stage = "accepted"
  /\ LET entry == PickEntry(plan) IN
       IF Executable(plan, entry)
         THEN /\ stage' = "built"
              /\ order' = Candidate(plan, entry)
         ELSE /\ stage' = "failed"
              /\ UNCHANGED order
  /\ UNCHANGED <<plan, tick, atr, orderType>>

Next == EvaluateGate \/ BuildCandidate

Spec == Init /\ [][Next]_vars

-----------------------------------------------------------------------------
\* The price at which the order is expected to fill when it is sent.
FillPrice == IF orderType = "market" THEN ExecutionPrice(tick, plan.side) ELSE order.entry

\* What is sent to the terminal protects the trade and pays for it, at the entry it
\* names and at the price the market offers: the stop behind, the targets ahead, and
\* the last target worth 1.25 times the risk. And a limit order rests on the far side of
\* the market: the broker would fill it at once, or refuse it, otherwise.
BuiltOrderIsSound ==
  stage = "built" =>
    /\ \A price \in {order.entry, FillPrice} :
         LET risk == -Gain(plan.side, price, order.sl)
             last == Gain(plan.side, price, order.tp)
         IN /\ risk > 0
            /\ Gain(plan.side, price, order.tp1) > 0
            /\ 4 * last >= 5 * risk
    /\ orderType # "market" =>
         /\ orderType = IF plan.side = "buy" THEN "BUY_LIMIT" ELSE "SELL_LIMIT"
         /\ Gain(plan.side, order.entry, ExecutionPrice(tick, plan.side)) > 0

\* What the stages remember of the gate's verdict and of the builder's; the safety
\* theorems rest on it.
VerdictInv ==
  LET entry == PickEntry(plan)
      price == ExecutionPrice(tick, plan.side)
  IN /\ stage \in {"accepted", "built"} =>
          /\ GateAccepts(plan, tick, atr)
          /\ orderType = OrderIntent(plan, price, entry, atr)
     /\ stage = "built" =>
          /\ Executable(plan, entry)
          /\ order = Candidate(plan, entry)

=============================================================================
