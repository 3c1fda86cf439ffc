------------------------------- MODULE RiskGate -------------------------------
(***************************************************************************)
(* The two judgements of riskgate.ts: whether the market may be traded now *)
(* (evaluateMarketFilters), and how many lots a plan may have              *)
(* (evaluateRiskGate).                                                     *)
(*                                                                         *)
(* Units: prices in the points of the symbol's row of Metadata, lots in    *)
(* hundredths (the smallest lot and the lot step of every symbol are 1),   *)
(* money in hundredths, a row's "value" being what one hundredth of a lot  *)
(* gains per point. Times are minutes; a missing field is 0, as the code   *)
(* reads it.                                                               *)
(***************************************************************************)
EXTENDS Integers, Sequences, SequencesExt, FiniteSetsExt

-----------------------------------------------------------------------------
(* Symbols. *)

\* baseSymbol: brokers' names of the same market; the suffixes m# and # are cut.
Aliases ==
  [XAUUSD    |-> {"XAUUSD", "GOLD", "GOLDm#", "GOLD#", "XAUUSDm#"},
   US100CASH |-> {"US100CASH", "US100", "NAS100", "US100#"},
   USOILCASH |-> {"USOILCASH", "USOIL", "WTI"},
   UKOILCASH |-> {"UKOILCASH", "UKOIL", "BRENT"},
   GBPJPY    |-> {"GBPJPY", "GBPJPYm#", "GBPJPY#"}]
BaseSymbol(name) ==
  IF \E s \in DOMAIN Aliases : name \in Aliases[s]
    THEN CHOOSE s \in DOMAIN Aliases : name \in Aliases[s] ELSE name

\* metadataFor: what is not listed is traded like gold.
Metadata ==
  [GBPUSD    |-> [value |-> 10,   maxLot |-> 3000, minStop |-> 5,  maxStop |-> 500],
   USDCAD    |-> [value |-> 10,   maxLot |-> 3000, minStop |-> 5,  maxStop |-> 500],
   EURJPY    |-> [value |-> 1000, maxLot |-> 2000, minStop |-> 3,  maxStop |-> 700],
   GBPJPY    |-> [value |-> 1000, maxLot |-> 2000, minStop |-> 3,  maxStop |-> 800],
   USDJPY    |-> [value |-> 1000, maxLot |-> 3000, minStop |-> 2,  maxStop |-> 600],
   US100CASH |-> [value |-> 1,    maxLot |-> 2000, minStop |-> 10, maxStop |-> 3000],
   USOILCASH |-> [value |-> 1,    maxLot |-> 3000, minStop |-> 5,  maxStop |-> 1000],
   UKOILCASH |-> [value |-> 1,    maxLot |-> 3000, minStop |-> 5,  maxStop |-> 1000],
   XAUUSD    |-> [value |-> 10,   maxLot |-> 5000, minStop |-> 5,  maxStop |-> 1000]]
MetadataFor(name) ==
  LET s == BaseSymbol(name) IN Metadata[IF s \in DOMAIN Metadata THEN s ELSE "XAUUSD"]

PlanMaxSpread == 80
FilterMaxSpread(name) ==
  CASE BaseSymbol(name) = "GBPJPY" -> 6
    [] BaseSymbol(name) \in {"GBPUSD", "USDCAD"} -> 4
    [] OTHER -> 5

\* maxSpreadLimit: a configured limit replaces the built-in one, also by a larger one.
SpreadLimit(configured, builtIn) == IF configured > 0 THEN configured ELSE builtIn

-----------------------------------------------------------------------------
(* Market filters: the clock, the tick and the volatility. *)

MaxTickAge == 2

\* isSymbolCloseWindow; day 0 is Sunday.
CloseWindow(name, day, minute) ==
  IF BaseSymbol(name) = "US100CASH"
    THEN day \in {0, 6} \/ minute >= 4 * 60
    ELSE day = 5 /\ minute >= 20 * 60

RolloverWindow(name, minute) ==
  BaseSymbol(name) # "US100CASH" /\ minute \in (21 * 60 + 55) .. (22 * 60 + 10)

\* isSymbolLowLiquiditySession; the windows of US100 together leave no minute out.
LowLiquidity(name, minute) ==
  \/ /\ BaseSymbol(name) = "US100CASH"
     /\ \/ minute \in (21 * 60) .. (21 * 60 + 49)
        \/ minute \in (4 * 60 - 15) .. (4 * 60 - 1)
        \/ minute < 21 * 60
        \/ minute >= 4 * 60
  \/ BaseSymbol(name) # "US100CASH" /\ (minute > 22 * 60 + 10 \/ minute < 60)

\* hasAtrExpansion: the last of at least eleven bars is twice the average of those
\* that have a value.
AtrExpansion(atrs) ==
  /\ Len(atrs) >= 11
  /\ Last(atrs) > 0
  /\ LET known == SelectSeq(Front(atrs), LAMBDA a : a > 0) IN
     /\ Len(known) >= 10
     /\ Last(atrs) * Len(known) >= 2 * FoldLeft(LAMBDA x, y : x + y, 0, known)

\* A tick without a time, or with an old one. A time of the day alone, -1 here and what the
\* terminals send, is no date: its age is not a number, and no tick is too old by it.
Stale(rt, now) == rt.tickAt = 0 \/ (rt.tickAt > 0 /\ now.minute - rt.tickAt > MaxTickAge)

\* Mistake: the filter is as patient with the spread as the gate.
LenientBlocking(name, now, rt, tick) ==
  {r \in {"closed", "not_allowed", "tick", "close_window"} :
     \/ r = "closed" /\ ~rt.open
     \/ r = "not_allowed" /\ ~rt.allowed
     \/ r = "tick" /\ Stale(rt, now)
     \/ r = "close_window" /\ CloseWindow(name, now.day, now.minute)}
\* evaluateMarketFilters: what stops a signal, and what is only told.
Blocking(name, now, rt, tick) ==
  {r \in {"closed", "not_allowed", "tick", "spread", "close_window"} :
     \/ r = "closed" /\ ~rt.open
     \/ r = "not_allowed" /\ ~rt.allowed
     \/ r = "tick" /\ Stale(rt, now)
     \/ r = "spread" /\ tick.spread > SpreadLimit(tick.maxSpread, FilterMaxSpread(name))
     \/ r = "close_window" /\ CloseWindow(name, now.day, now.minute)}
Warnings(name, now, atrs) ==
  {w \in {"rollover", "low_liquidity", "atr_expansion"} :
     \/ w = "rollover" /\ RolloverWindow(name, now.minute)
     \/ w = "low_liquidity" /\ LowLiquidity(name, now.minute)
     \/ w = "atr_expansion" /\ AtrExpansion(atrs)}

-----------------------------------------------------------------------------
(* The gate of a plan. *)

\* collectTradeabilityRejects.
TradeabilityRejects(in, now) ==
  LET rt == in.runtime
      t == in.tick
  IN {r \in {"closed", "not_allowed", "tick", "missing_price", "spread", "expired"} :
        \/ r = "closed" /\ ~rt.open
        \/ r = "not_allowed" /\ ~rt.allowed
        \/ r = "tick" /\ Stale(rt, now)
        \/ r = "missing_price" /\ (t.bid <= 0 \/ t.ask <= 0)
        \/ r = "spread" /\ t.spread > SpreadLimit(t.maxSpread, PlanMaxSpread)
        \/ r = "expired" /\ in.plan.expires # 0 /\ now.minute > in.plan.expires}

EntryPrice(t, side) ==
  CASE side = "buy" -> t.ask
    [] side = "sell" -> t.bid
    [] OTHER -> IF t.bid > 0 /\ t.ask > 0 THEN (t.bid + t.ask) \div 2 ELSE 0

Gap(a, b) == IF a > b THEN a - b ELSE b - a

\* What 2% of the equity allows to lose at the stop. A stop at the entry has no limit
\* and is rejected as too close.
RiskLots(in, meta) ==
  LET gap == Gap(EntryPrice(in.tick, in.plan.side), in.plan.sl)
  IN IF gap = 0 \/ in.equity <= 0 THEN 0 ELSE (2 * in.equity) \div (100 * gap * meta.value)

\* What half of the free margin can carry.
MarginLots(in, meta) ==
  IF in.freeMargin <= 0 \/ EntryPrice(in.tick, in.plan.side) <= 0 THEN 0
  ELSE ((IF in.leverage > 0 THEN in.leverage ELSE 1) * in.freeMargin)
         \div (2 * EntryPrice(in.tick, in.plan.side) * meta.value)

\* The rejects of validateExpandableRisk that look at the plan alone.
PlanRejects(in, meta) ==
  LET entry == EntryPrice(in.tick, in.plan.side)
      sl == in.plan.sl
      priced == entry > 0 /\ sl > 0
  IN {r \in {"entry.missing", "sl.missing", "sl.wrong_side", "sl.too_close", "sl.too_far",
             "lots.missing", "margin.missing"} :
        \/ r = "entry.missing" /\ entry <= 0
        \/ r = "sl.missing" /\ sl <= 0
        \/ /\ r = "sl.wrong_side" /\ priced
           /\ \/ in.plan.side = "buy" /\ sl >= entry
              \/ in.plan.side = "sell" /\ sl <= entry
        \/ r = "sl.too_close" /\ priced /\ Gap(entry, sl) < meta.minStop
        \/ r = "sl.too_far" /\ priced /\ Gap(entry, sl) > meta.maxStop
        \/ r = "lots.missing" /\ in.plan.lots <= 0
        \/ r = "margin.missing" /\ in.freeMargin <= 0}

\* The open positions a plan is compared with: those of its symbol and, when both say
\* whose they are, of its strategy. Mistake: a position without a symbol is skipped.
NamedCompetitors(in) ==
  {p \in in.positions :
     /\ p.lots > 0 /\ p.side \in {"buy", "sell"} /\ in.plan.side # "none"
     /\ p.symbol # "none" /\ BaseSymbol(p.symbol) = BaseSymbol(in.plan.symbol)
     /\ in.strategy = "none" \/ p.strategy = "none" \/ p.strategy = in.strategy}
Competitors(in) ==
  {p \in in.positions :
     /\ p.lots > 0 /\ p.side \in {"buy", "sell"} /\ in.plan.side # "none"
     /\ p.symbol = "none" \/ BaseSymbol(p.symbol) = BaseSymbol(in.plan.symbol)
     /\ in.strategy = "none" \/ p.strategy = "none" \/ p.strategy = in.strategy}
PositionConflicts(in) ==
  {c \in {"add", "hedge"} :
     \/ c = "add" /\ ~in.allowAdd /\ \E p \in Competitors(in) : p.side = in.plan.side
     \/ c = "hedge" /\ ~in.allowHedge /\ \E p \in Competitors(in) : p.side # in.plan.side}

\* minPositive: what is not positive is no limit.
MinPositive(values) ==
  LET positive == {v \in values : v > 0} IN IF positive = {} THEN 0 ELSE Min(positive)

\* evaluateRiskGate. Only approve and modify are sized; reduce and close pass once the
\* market can be traded.
EvaluateRiskGate(in, now) ==
  LET meta == MetadataFor(in.plan.symbol)
      verdict(status, reasons, lots) == [status |-> status, reasons |-> reasons, lots |-> lots]
      lots == MinPositive({in.plan.lots, meta.maxLot, RiskLots(in, meta), MarginLots(in, meta)})
  IN IF in.plan.mode \notin {"approve", "modify", "reduce", "close"}
       THEN verdict("accepted", {"non_executable"}, 0)
     ELSE IF TradeabilityRejects(in, now) # {}
       THEN verdict("rejected", TradeabilityRejects(in, now), 0)
     ELSE IF in.plan.mode \in {"reduce", "close"} THEN verdict("accepted", {"audit_safe"}, 0)
     ELSE IF PlanRejects(in, meta) # {} THEN verdict("rejected", PlanRejects(in, meta), 0)
     ELSE IF PositionConflicts(in) # {} THEN verdict("rejected", PositionConflicts(in), 0)
     ELSE IF lots < 1 THEN verdict("rejected", {"below_min"}, lots)
     ELSE verdict(IF lots < in.plan.lots THEN "clamped" ELSE "accepted", {"lots"}, lots)
=============================================================================
