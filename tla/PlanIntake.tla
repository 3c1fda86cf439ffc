------------------------------ MODULE PlanIntake ------------------------------
(***************************************************************************)
(* What the server makes of the body of an AI result: which of its trade   *)
(* plans are well formed, what the risk gate says of the single one, which *)
(* plans are tried, and which of them the approve gate lets become an      *)
(* order: the price rules are in AIApproveRules, the trend and the add-on  *)
(* rules are here. A risk alert closes instead of opening. The store and   *)
(* the memory that the last checks read are in AIApproveGate.              *)
(*                                                                         *)
(* A field that holds a plan or not is a set of one or none. Prices are    *)
(* points of gold's row in RiskGate, lots hundredths, times minutes; a     *)
(* missing number is 0. Positions are open ones, with lots and a price, as *)
(* terminals post them.                                                    *)
(***************************************************************************)
EXTENDS AIApproveRules, FiniteSetsExt

R == INSTANCE RiskGate

Here == "XAUUSD"  \* the symbol of the route

-----------------------------------------------------------------------------
(* The plans of a body. *)

Audited == {"observe", "veto"}

\* validateTradePlan; a plan is well formed when its version, its id, its reasons and its
\* narrative are there and no field has another type.
Valid(p) ==
  /\ p.wellFormed
  /\ p.account = "own" /\ p.symbol = Here
  /\ p.mode \in {"observe", "veto", "approve", "modify", "reduce", "close"}
  /\ p.side \in {"buy", "sell", "none"}
  /\ p.confidence \in 0 .. 100
  /\ p.expires # 0
  /\ p.mode \notin Audited =>
       /\ p.side # "none"
       /\ p.zone_min > 0 /\ p.zone_max >= p.zone_min
       /\ p.stop_loss > 0
       /\ p.take_profit # {} /\ Targets(p) = p.take_profit
       /\ p.max_lots > 0

\* parseTradePlanPayload.
Judged(body) == {p \in body.plan : Valid(p)}

\* parseDualTradePlanPayload: a leg that is not valid is dropped; nothing compares the side
\* of a leg with its field. Mistake: legs are taken as they come.
RawLegs(body) == body.buy \cup body.sell
Legs(body) == {p \in body.buy \cup body.sell : Valid(p)}

-----------------------------------------------------------------------------
(* The verdict of the risk gate, given of the single plan alone. *)

\* aiTradePlanRiskGate.
RiskInput(p, at) ==
  [runtime |-> [open |-> at.open, allowed |-> at.allowed, tickAt |-> at.tick.at],
   tick |-> at.tick,
   plan |-> [mode |-> p.mode, symbol |-> p.symbol, side |-> p.side, sl |-> p.stop_loss,
             lots |-> p.max_lots, expires |-> p.expires],
   equity |-> at.equity, freeMargin |-> at.freeMargin, leverage |-> at.leverage,
   positions |-> at.positions, strategy |-> "ai_signal",
   allowAdd |-> p.add_on, allowHedge |-> FALSE]

Verdict(body, at) ==
  IF Judged(body) = {} THEN [status |-> "none", audit |-> FALSE]
  ELSE LET p == CHOOSE p \in Judged(body) : TRUE
       IN [status |-> R!EvaluateRiskGate(RiskInput(p, at), at.now).status,
           audit |-> p.mode \in Audited]

-----------------------------------------------------------------------------
(* Alerts: a body may ask to close. *)

\* shouldQueueAIRiskCommand.
AsksToClose(body) == body.alert /\ body.exit \in {"close_all", "close_partial", "close_short"}

\* A body whose plan is not valid closes nothing; one without a plan needs no verdict.
MayClose(body, at) ==
  /\ AsksToClose(body)
  /\ body.plan # {} => Verdict(body, at).status \in {"accepted", "clamped"}

OfSide(at, side) == {q \in at.positions : q.symbol \in {Here, "none"} /\ q.side = side}

\* buildAIRiskCommandCandidates: the commands that close all or a half name no symbol.
Closes(body, at) ==
  IF ~MayClose(body, at) THEN {}
  ELSE IF body.exit = "close_short"
    THEN {[action |-> "CLOSE", ticket |-> q.ticket, percent |-> 100] : q \in OfSide(at, "sell")}
  ELSE IF body.exit = "close_all" THEN {[action |-> "CLOSE_ALL", ticket |-> 0, percent |-> 100]}
  ELSE {[action |-> "CLOSE_PARTIAL", ticket |-> 0, percent |-> 50]}

\* handleAIResultRoute: the plans that are tried. A dual plan without a valid leg takes the
\* place of the single plan as well.
PlansFor(body) ==
  IF AsksToClose(body) THEN {} ELSE IF body.dual THEN Legs(body) ELSE Judged(body)

\* aiApproveQueueSkipReason.
Skipped(p, verdict) ==
  \/ p.mode # "approve" \/ p.side = "none"
  \/ verdict.status = "rejected" \/ verdict.audit
  \/ p.confidence < 65

-----------------------------------------------------------------------------
(* The trend of four timeframes: its direction by weight, its strength by ADX. *)

Weights == [D1 |-> 1, H4 |-> 5, H1 |-> 7, M30 |-> 7]

Heading(f) ==
  CASE f.ema20 > f.ema50 /\ f.close > f.ema20 -> "buy"
    [] f.ema20 < f.ema50 /\ f.close < f.ema20 -> "sell"
    [] OTHER -> "none"

\* trendConfidence, in tenths.
Tenths(f) ==
  IF Heading(f) = "none" THEN 0 ELSE IF f.adx < 20 THEN 3 ELSE IF f.adx <= 30 THEN 6 ELSE 9

Vote(names, n, weight) == IF n \in names THEN weight[n] ELSE 0
Total(names, weight) ==
  Vote(names, "D1", weight) + Vote(names, "H4", weight) + Vote(names, "H1", weight) + Vote(names, "M30", weight)

\* A weak trend halves the lots, which leaves none: they are the terminal's to choose.
TrendAllows(p, frames) ==
  LET known == {n \in DOMAIN frames : 0 \notin {frames[n].ema20, frames[n].ema50, frames[n].close, frames[n].adx}}
      toward(side) == Total({n \in known : Heading(frames[n]) = side}, Weights)
      against == IF p.side = "sell" THEN toward("buy") > toward("sell") ELSE toward("sell") > toward("buy")
  IN known # {} =>
       /\ against => p.confidence >= 75
       /\ Total(known, [n \in DOMAIN Weights |-> Weights[n] * Tenths(frames[n])]) >= 3 * Total(known, Weights)

-----------------------------------------------------------------------------
(* Adding to open positions of the plan's side. *)

Lots(S) == MapThenSumSet(LAMBDA q : q.lots, S)
Cost(S) == MapThenSumSet(LAMBDA q : q.lots * q.open, S)

\* What the positions have won, times their lots.
Won(S, side, price) == Gain(side, Cost(S), Lots(S) * price)

\* In half ATRs.
Spacing(p) ==
  IF p.add_on_type # "adverse" THEN 2
  ELSE CASE p.add_on_level >= 3 -> 4 [] p.add_on_level = 2 -> 3 [] OTHER -> 2

FavorableAllowed(p, at, S) ==
  /\ Won(S, p.side, MidPrice(at.tick)) >= at.m30 * Lots(S)
  /\ 2 * p.max_lots <= Lots(S)

\* Levels 1, 2 and 3 are for losses from 1, 2 and 3.5 ATR; the positions remember how often
\* and when the group was added to. The sum of what was added is limited from the second time.
AdverseAllowed(p, at, S) ==
  LET lost == -Won(S, p.side, MidPrice(at.tick))
      unit == at.m30 * Lots(S)
      level == IF p.add_on_level = 0 THEN 1
               ELSE IF p.add_on_level <= 3 THEN p.add_on_level
               ELSE IF 2 * lost >= 7 * unit THEN 3 ELSE IF lost >= 2 * unit THEN 2 ELSE 1
      count == Max({s.count : s \in at.states} \cup {0})
      latest == Max({s.added : s \in at.states} \cup {0})
      first == Max({q.lots : q \in S})
  IN /\ 2 * lost >= (IF level = 3 THEN 7 ELSE 2 * level) * unit
     /\ latest # 0 => at.now.minute - latest \notin 0 .. (45 * (level - 1) - 1)
     /\ count < (IF p.max_add_count = 0 THEN 2 ELSE p.max_add_count)
     /\ 10 * p.max_lots <= 6 * Lots(S)
     /\ count > 0 => 2 * (Lots(S) - first + p.max_lots) <= 3 * first
     /\ p.max_total_lots > 0 => Lots(S) + p.max_lots <= p.max_total_lots
     /\ at.balance > 0 /\ at.equity > 0 => 100 * (at.balance - at.equity) < 5 * at.balance

\* Positions of other strategies do not make a plan an addition, but count in its sums.
AddOnAllowed(p, at) ==
  LET S == OfSide(at, p.side) IN
    (\E q \in S : q.strategy \in {"ai_signal", "none"}) =>
      /\ p.add_on
      /\ at.m30 > 0
      /\ 2 * Distance(Lots(S) * PickEntry(p), Cost(S)) >= Spacing(p) * at.m30 * Lots(S)
      /\ p.add_on_type = "favorable" => FavorableAllowed(p, at, S)
      /\ p.add_on_type = "adverse" => AdverseAllowed(p, at, S)

-----------------------------------------------------------------------------
(* The orders. *)

\* evaluateAIApprovePendingGate, without the pending command, the daily limit and the cooldown.
GatePasses(p, at) ==
  /\ at.loaded
  /\ GateAccepts(p, at.tick, at.h1)
  /\ TrendAllows(p, at.frames)
  /\ AddOnAllowed(p, at)

\* The group an addition joins: the newest ticket, and one stop for all, the best entry of
\* those that win and the worst of those that lose.
Group(p, at) ==
  LET S == OfSide(at, p.side)
      entries == {q.open : q \in S}
  IN IF p.add_on_type \notin {"favorable", "adverse"} \/ S = {} THEN [parent |-> 0, stop |-> 0, members |-> 0]
     ELSE [parent |-> Max({q.ticket : q \in S}),
           stop |-> IF (p.side = "buy") = (p.add_on_type = "favorable") THEN Max(entries) ELSE Min(entries),
           members |-> Cardinality(S)]

\* The plans of a body that the checks modelled here let become an order. Of two, one is
\* stored: they share an id.
Orders(body, at) ==
  {[plan |-> p, kind |-> OrderIntent(p, ExecutionPrice(at.tick, p.side), PickEntry(p), at.h1),
    order |-> Candidate(p, PickEntry(p)), group |-> Group(p, at)] :
     p \in {x \in PlansFor(body) : /\ ~Skipped(x, Verdict(body, at))
                                          /\ GatePasses(x, at)
                                          /\ Executable(x, PickEntry(x))}}
=============================================================================
