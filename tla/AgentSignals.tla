----------------------------- MODULE AgentSignals -----------------------------
(***************************************************************************)
(* How the agent turns what the model said into a signal: the answer is    *)
(* parsed or replaced, its prices and its recommended trade are validated, *)
(* the model's tool call becomes an order (against the account's own price *)
(* when the analysis of the market is shared), and composeFinalSignal      *)
(* decides whether a trade plan goes out with it.                          *)
(*                                                                         *)
(* Prices are small integers, 0 also for a missing one where the code puts *)
(* a zero; the second target of a call is a set, empty when there is none, *)
(* because a zero is another thing there. Lots are hundredths; a number    *)
(* that cannot be read is NaN. Texts, scores of theories and time stamps   *)
(* are left out.                                                           *)
(***************************************************************************)
EXTENDS Integers, FiniteSets

NaN == -1
TradeSides == {"buy", "sell"}
Placing == {"place_market_order", "place_pending_order"}
Critical == {"market.closed", "market.trade_not_allowed", "tick.missing", "tick.stale"}

Apart(a, b) == IF a < b THEN b - a ELSE a - b
Lower(a, b) == IF a < b THEN a ELSE b

\* How far level b lies ahead of level a for a trade of this side.
Forward(side, a, b) == IF side = "buy" THEN b - a ELSE a - b

Either(a, b) == IF a > 0 THEN a ELSE b

\* A part of a distance, which is not nothing unless the distance is.
RoundedUp(n, d) == (n + d - 1) \div d

-----------------------------------------------------------------------------
\* Validation of the recommended trade (utils/price-validator.ts).

WithinHalf(price, current) == price > 0 /\ (current > 0 => 2 * price \in current .. 3 * current)

Unprotected(trade) ==
  trade.direction \in TradeSides /\ trade.sl > 0 /\ Forward(trade.direction, trade.sl, trade.entry) <= 0
Unpaid(trade) ==
  trade.direction \in TradeSides /\ trade.tp1 > 0 /\ Forward(trade.direction, trade.entry, trade.tp1) <= 0

\* A level on the wrong side is zeroed.
Repaired(trade) ==
  [trade EXCEPT !.sl = IF Unprotected(trade) THEN 0 ELSE @, !.tp1 = IF Unpaid(trade) THEN 0 ELSE @]

TooLittle(trade) ==
  /\ trade.sl > 0 /\ trade.tp1 > 0 /\ trade.sl # trade.entry
  /\ 10 * Apart(Either(trade.tp2, trade.tp1), trade.entry) < 4 * Apart(trade.entry, trade.sl)

Warned(trade, current) ==
  \/ \E p \in {trade.entry, trade.sl, trade.tp1, trade.tp2} : p > 0 /\ ~WithinHalf(p, current)
  \/ Repaired(trade) # trade
  \/ TooLittle(Repaired(trade))

\* validateTradeRecommendation: a trade left without stop or target is not to be made.
ValidateTrade(trade, current) ==
  LET kept == Repaired(trade)
      sound == kept.direction \notin TradeSides \/ (kept.sl > 0 /\ kept.tp1 > 0)
      held == [kept EXCEPT !.direction = "hold"]
  IN IF trade.entry <= 0 THEN [valid |-> FALSE, trade |-> [trade EXCEPT !.direction = "hold"]]
     ELSE [valid |-> sound /\ ~Warned(trade, current), trade |-> IF sound THEN kept ELSE held]

\* An arbitration whose trade is invalid holds, with little confidence.
Downgraded(arb) ==
  [arb EXCEPT !.direction = "hold", !.action = "hold", !.confidence = Lower(@, 20)]

\* validateArbitrationResult, as far as its caller takes it over.
ValidateArbitration(arb, current) ==
  LET v == ValidateTrade(arb.trade, current) IN
    IF arb.trade.direction = "none" \/ (arb.trade.direction = "hold" /\ arb.trade.entry <= 0) \/ v.valid
      THEN arb
    ELSE IF arb.trade.direction = "hold" THEN [arb EXCEPT !.trade = v.trade]
    ELSE [Downgraded(arb) EXCEPT !.trade = v.trade]

\* The trade first, then the arbitration with the trade it got. Mistake: a trade with
\* warnings is used as it was repaired.
RepairedOnly(arb, current) ==
  IF arb.trade.direction = "none" THEN arb
  ELSE [arb EXCEPT !.trade = ValidateTrade(arb.trade, current).trade]
ValidateDecision(arb, current) ==
  LET v == ValidateTrade(arb.trade, current)
      first == IF v.valid THEN arb
               ELSE IF v.trade.direction = "hold" THEN [Downgraded(arb) EXCEPT !.trade = v.trade]
               ELSE [arb EXCEPT !.trade = v.trade]
  IN IF arb.trade.direction = "none" THEN arb ELSE ValidateArbitration(first, current)

-----------------------------------------------------------------------------
\* The analysis (agents/comprehensive-analyst.ts).

NoTrade == [direction |-> "none", entry |-> 0, sl |-> 0, tp1 |-> 0, tp2 |-> 0]

\* Nothing usable: neutral, high risk, hold.
Fallback ==
  [arb |-> [direction |-> "hold", action |-> "hold", confidence |-> 0, aligned |-> FALSE,
            trade |-> [NoTrade EXCEPT !.direction = "hold"]],
   risk |-> [level |-> "high", sl |-> 0, lots |-> 0],
   technical |-> [bias |-> "neutral", exit |-> "none", supports |-> {}, resistances |-> {}],
   wave |-> [strength |-> "weak", confirmed |-> FALSE],
   chan |-> "hold"]

\* The text of the streamed answer, else of the plain one, and the format it parses in.
Text(call) == IF call.stream = "text" THEN "text" ELSE call.invoke
ReadAs(call, format) == Text(call) = "text" /\ call.format = format

\* ComprehensiveAnalysisDataSchema, as far as its fields are modelled.
SchemaAllows(said) == said.arb.trade.direction # "dual" /\ said.risk.sl > 0

\* What cannot be parsed in either format is asked for once more as a tool call; all but
\* Markdown goes through the schema.
Understood(call, said) ==
  /\ Text(call) # "error"
  /\ \/ ReadAs(call, "markdown")
     \/ (ReadAs(call, "json") \/ call.retries) /\ SchemaAllows(said)

\* In Markdown a trade is recommended only with all of its prices, and a dual one is a buy.
Recommended(trade) ==
  IF trade.entry > 0 /\ trade.sl > 0 /\ trade.tp1 > 0
    THEN [trade EXCEPT !.direction = IF @ = "dual" THEN "buy" ELSE @]
    ELSE NoTrade

\* detectCrossInstrumentPrice: near another instrument's price and not near the own one.
OtherInstrument(price, current, others) ==
  \E o \in others : /\ 100 * Apart(price, o) < 8 * o
                    /\ 100 * Apart(price, o) < 33 * Apart(price, current)

\* A price of another magnitude or another instrument is refused.
SanePrice(price, current, others) ==
  IF current > 0 /\ (10 * price < 3 * current \/ price > 2 * current \/ OtherInstrument(price, current, others))
    THEN 0 ELSE price

Analysed(call, said, current, others) ==
  LET arb == [said.arb EXCEPT !.trade = IF ReadAs(call, "markdown") THEN Recommended(@) ELSE @] IN
    IF ~Understood(call, said) THEN Fallback
    ELSE [said EXCEPT !.risk.sl = SanePrice(said.risk.sl, current, others), !.arb = ValidateDecision(arb, current)]

-----------------------------------------------------------------------------
\* The model's tool call as an action (agents/trade-action-converter.ts).

DoNothing(account) ==
  [type |-> "do_nothing", account |-> account, symbol |-> "none", side |-> "none", entry |-> 0,
   sl |-> 0, tp1 |-> 0, tp2 |-> {}, lots |-> 0, order |-> "none", ticket |-> 0]
NoAction == [DoNothing("none") EXCEPT !.type = "none"]

LotsAllowed(lots, minLots) == lots \in minLots .. 50

\* A limit order rests behind the market.
Resting(use, current) ==
  use.order = "limit" /\ current > 0 => Forward(use.side, use.entry, current) > 0

PlaceableUse(use, current, minLots) ==
  /\ use.side \in TradeSides
  /\ NaN \notin {use.sl, use.tp1, use.lots} \cup use.tp2
  /\ LotsAllowed(use.lots, minLots)
  /\ use.name = "place_pending_order" => use.entry # NaN /\ Resting(use, current)

OrderOf(use, account, symbol) ==
  [type |-> use.name, account |-> account, symbol |-> symbol, side |-> use.side,
   entry |-> IF use.name = "place_pending_order" THEN use.entry ELSE 0,
   sl |-> use.sl, tp1 |-> use.tp1, tp2 |-> use.tp2, lots |-> use.lots,
   order |-> IF use.name = "place_pending_order" THEN use.order ELSE "none", ticket |-> 0]

\* Without accounts: an order, nothing, or no decision for another tool.
LegacyAction(use, current, minLots) ==
  IF use.name \in Placing
    THEN IF PlaceableUse(use, current, minLots) THEN OrderOf(use, "none", "none") ELSE DoNothing("none")
  ELSE IF use.name = "do_nothing" THEN DoNothing("none") ELSE NoAction

\* With the account the model named, and the symbol it named or the account's.
AccountActionOf(use, current, minLots, symbol) ==
  IF use.account = "none" THEN NoAction
  ELSE IF use.name \in Placing
    THEN IF PlaceableUse(use, current, minLots)
           THEN OrderOf(use, use.account, IF use.symbol = "none" THEN symbol ELSE use.symbol)
           ELSE DoNothing(use.account)
  ELSE IF use.name \in {"modify_order", "close_order"}
    THEN IF use.symbol # "none" /\ use.ticket # NaN
           THEN [DoNothing(use.account) EXCEPT !.type = use.name, !.symbol = use.symbol, !.ticket = use.ticket]
           ELSE DoNothing(use.account)
  ELSE IF use.name = "do_nothing" THEN DoNothing(use.account) ELSE NoAction

-----------------------------------------------------------------------------
\* The account's decision on a shared insight.

\* validateTradeActionForAccount: the account itself, its symbol, its own position.
Guarded(action, view) ==
  /\ action.account = view.account
  /\ action.type \in Placing => action.symbol = view.symbol
  /\ view.loaded
  /\ action.type \in {"modify_order", "close_order"} =>
       action.symbol = view.symbol /\ <<action.ticket, action.symbol>> \in view.positions

Middle(tick) == (tick.bid + tick.ask) \div 2
ExecutedAt(tick, side) == IF side = "buy" THEN tick.ask ELSE tick.bid

\* buildTradeIntent: the recommended trade as distances, to be scaled by ATR.
TradeIntent(trade, current, atr) ==
  IF trade.direction \notin TradeSides \/ atr <= 0 \/ current <= 0
    THEN [trigger |-> "none", offset |-> 0, sl |-> 0, tp1 |-> 0, tp2 |-> 0, atr |-> 1]
    ELSE LET offset == Apart(trade.entry, current) IN
           [trigger |-> IF 20 * offset <= atr THEN "market"
                        ELSE IF Forward(trade.direction, current, trade.entry) < 0 THEN "pullback" ELSE "breakout",
            offset |-> offset, sl |-> Apart(trade.entry, trade.sl), tp1 |-> Apart(trade.tp1, trade.entry),
            tp2 |-> IF trade.tp2 > 0 THEN Apart(trade.tp2, trade.entry) ELSE 0, atr |-> atr]

\* resolveAccountEntryPrice
RestingEntry(side, intent, current, offset) ==
  IF offset <= 0 \/ intent.trigger \in {"market", "none"} THEN current
  ELSE IF (intent.trigger = "pullback") = (side = "buy") THEN current - offset ELSE current + offset

\* rebuildAccountOrderFromInsight: the model's order keeps its side and its lots and gets
\* the insight's distances around the account's own price, or those of the prices it was
\* given: a price of zero is a whole price away.
RebuiltOrder(action, intent, tick, atr) ==
  LET scaled(d) == RoundedUp(d * atr, intent.atr)
      market == action.type = "place_market_order"
      price == IF market THEN ExecutedAt(tick, action.side) ELSE Middle(tick)
      anchor == IF market THEN price
                ELSE RestingEntry(action.side, intent, price, scaled(intent.offset))
      ahead(d) == IF action.side = "buy" THEN anchor + d ELSE anchor - d
      stop == IF intent.sl > 0 THEN scaled(intent.sl) ELSE Either(Apart(anchor, action.sl), (3 * atr) \div 2)
      near == IF intent.tp1 > 0 THEN scaled(intent.tp1) ELSE Either(Apart(action.tp1, anchor), 3 * atr)
      far == IF intent.tp2 > 0 THEN {scaled(intent.tp2)} ELSE {Apart(t, anchor) : t \in action.tp2}
  IN IF price <= 0 THEN action
     ELSE [action EXCEPT !.entry = IF market THEN @ ELSE anchor, !.sl = ahead(-stop), !.tp1 = ahead(near),
                         !.tp2 = {ahead(d) : d \in far}]

\* The price moved too far since the insight was made, in quarters of ATR.
TooFarAway(bench, view, atr, quarters) == 4 * Apart(bench, Middle(view.tick)) > quarters * atr

\* decideAccountAction; the model's call may fail or come without a tool.
DecideAccountAction(intent, bench, benchAtr, view, use, quarters) ==
  LET atr == Either(benchAtr, view.atr)
      action == AccountActionOf(use, Middle(view.tick), view.minLots, view.symbol)
  IN IF \/ ~view.loaded \/ atr <= 0 \/ TooFarAway(bench, view, atr, quarters)
        \/ use.name = "none" \/ action.type = "none" \/ ~Guarded(action, view)
       THEN DoNothing(view.account)
     ELSE IF action.type \in Placing
       THEN [RebuiltOrder(action, intent, view.tick, Either(view.atr, atr)) EXCEPT
               !.account = view.account, !.symbol = view.symbol]
     ELSE action

\* decideTradeAction, where every account makes its own analysis.
DecideTradeAction(arb, use, current, minLots) ==
  IF arb.trade.direction = "none" THEN NoAction
  ELSE IF arb.trade.direction = "hold" /\ arb.action = "hold" THEN DoNothing("none")
  ELSE IF use.name = "none" THEN NoAction
  ELSE LegacyAction(use, current, minLots)

-----------------------------------------------------------------------------
\* The signal (graph/compose.ts).

NoPlan == [mode |-> "none"]
PlanOf(mode, side, execution, low, high, sl, tps, lots) ==
  [mode |-> mode, side |-> side, execution |-> execution, low |-> low, high |-> high,
   sl |-> sl, tps |-> tps, lots |-> lots]

\* modeFromState: only what closes the market vetoes a plan.
PlanMode(st) ==
  LET exit == st.found.technical.exit
      action == st.arb.action
  IN IF st.blocking \cap Critical # {} THEN "veto"
     ELSE IF exit = "partial_close" THEN "reduce"
     ELSE IF exit = "close" \/ action = "close" THEN "close"
     ELSE IF action = "modify" THEN "modify"
     ELSE IF action = "open" \/ st.arb.direction = "dual" THEN "approve"
     ELSE "observe"

TakeProfits(st, side) ==
  {p \in IF side = "sell" THEN st.found.technical.supports ELSE st.found.technical.resistances : p > 0}

\* A plan made of the analysis is executable with all of its fields and an observation
\* without them.
FilledPlan(st, side, mode) ==
  LET tps == TakeProfits(st, side)
      low == Lower(st.tick.bid, st.tick.ask)
      high == st.tick.bid + st.tick.ask - low
      complete == /\ side # "none" /\ low > 0 /\ st.found.risk.sl > 0
                  /\ tps # {} /\ st.found.risk.lots > 0
      active == mode \notin {"observe", "veto"}
  IN IF active /\ complete
       THEN PlanOf(mode, side, IF mode = "approve" THEN "market" ELSE "none", low, high,
                   st.found.risk.sl, tps, st.found.risk.lots)
       ELSE PlanOf(IF active THEN "observe" ELSE mode, IF active \/ mode = "veto" THEN "none" ELSE side,
                   "none", 0, 0, 0, {}, 0)

BuildTradePlan(st) ==
  LET mode == PlanMode(st)
      side == IF mode = "veto" \/ st.arb.direction \notin TradeSides \cup {"dual"}
                THEN "none" ELSE st.arb.direction
  IN IF side = "dual" THEN NoPlan ELSE FilledPlan(st, side, mode)

\* buildDualTradePlan: a plan for each side, with the one stop of the analysis; a leg that
\* is not executable keeps its side.
BuildDualTradePlan(st) ==
  IF st.arb.direction # "dual" THEN {}
  ELSE {[FilledPlan(st, side, PlanMode(st)) EXCEPT !.side = side] : side \in TradeSides}

\* buildTradePlanFromTradeAction: no stop orders, nothing for another account or symbol.
PlanFromAction(st, action) ==
  LET market == action.type = "place_market_order" IN
    IF \/ action.account \notin {"none", st.account}
       \/ action.symbol \notin {"none", st.symbol}
       \/ ~market /\ action.order = "stop"
      THEN NoPlan
      ELSE PlanOf("approve", action.side, IF market THEN "market" ELSE "limit",
                  IF market THEN st.tick.bid ELSE action.entry,
                  IF market THEN st.tick.ask ELSE action.entry,
                  action.sl, {action.tp1} \cup (action.tp2 \ {0}), action.lots)

\* getDynamicConfidenceThreshold
Threshold(found, arb) ==
  LET base == 58 + (IF found.wave.strength = "strong" THEN -8
                    ELSE IF found.wave.strength = "weak" THEN 6 ELSE 0)
                 - (IF arb.aligned THEN 5 ELSE 0)
  IN IF base < 35 THEN 35 ELSE Lower(base, 75)

Confidence(found) ==
  IF found.wave.strength = "strong" /\ found.wave.confirmed
    THEN Lower(100, found.arb.confidence + 10) ELSE found.arb.confidence

\* An opening without confidence holds.
GatedArb(found) ==
  LET floor == Threshold(found, found.arb)
      conf == Confidence(found)
  IN IF conf < floor /\ found.arb.action = "open"
       THEN [found.arb EXCEPT !.action = "hold", !.confidence = Lower(conf, floor - 5)]
       ELSE found.arb

Vetoed(arb) == [arb EXCEPT !.action = "hold", !.direction = "hold"]

Bias(found) ==
  IF found.chan \in TradeSides THEN IF found.chan = "buy" THEN "bullish" ELSE "bearish"
  ELSE IF found.arb.direction \in TradeSides THEN IF found.arb.direction = "buy" THEN "bullish" ELSE "bearish"
  ELSE found.technical.bias

\* composeFinalSignal. Where the insight is shared only the account's own order opens.
ComposeFinalSignal(st0, action, marketFirst) ==
  LET found == st0.found
      gated == GatedArb(found)
      own == action.type \in Placing /\ action.account = st0.account /\ action.symbol = st0.symbol
      arb1 == IF marketFirst /\ gated.action = "open" /\ ~own THEN Vetoed(gated) ELSE gated
      st == [st0 EXCEPT !.arb = arb1]
      ordered == arb1.action = "open" /\ action.type \in Placing /\ (marketFirst => own)
      plan == IF ordered THEN PlanFromAction(st, action)
              ELSE IF marketFirst THEN NoPlan ELSE BuildTradePlan(st)
      arb == IF marketFirst /\ arb1.action = "open" /\ plan = NoPlan THEN Vetoed(arb1) ELSE arb1
      blocked == IF action.type = "place_pending_order" THEN st.blocking \cap Critical ELSE st.blocking
  IN [bias |-> Bias(found), action |-> arb.action, direction |-> arb.direction,
      confidence |-> IF gated = found.arb THEN Confidence(found) ELSE gated.confidence,
      alert |-> blocked # {} \/ found.risk.level \in {"high", "extreme"},
      maxLots |-> IF st.blocking # {} THEN 0 ELSE found.risk.lots,
      plan |-> plan,
      legs |-> IF marketFirst \/ arb.action # "open" THEN {} ELSE BuildDualTradePlan(st)]

-----------------------------------------------------------------------------
\* One account and symbol, from what was said to the signal. A shared insight was made at
\* the price and ATR of its own time, in.tick and in.madeAtr.
AgentSignal(in) ==
  LET current == Either(in.tick.bid, in.tick.ask)
      found == Analysed(in.call, in.said, current, in.others)
      intent == TradeIntent(found.arb.trade, Middle(in.tick), in.madeAtr)
      action == IF in.first
                  THEN DecideAccountAction(intent, Middle(in.tick), in.atr, in.view, in.use, in.quarters)
                  ELSE DecideTradeAction(found.arb, in.use, current, in.view.minLots)
      st == [account |-> in.view.account, symbol |-> in.view.symbol, found |-> found, arb |-> found.arb,
             tick |-> IF in.first THEN in.view.tick ELSE in.tick, blocking |-> in.blocking]
  IN ComposeFinalSignal(st, action, in.first)
=============================================================================
