------------------------------- MODULE Signals -------------------------------
(***************************************************************************)
(* The technical signal of one symbol (replay.ts): five strategies propose *)
(* trades, the trend of H4 and the structure of the market filter and rate *)
(* them, the best is compared with the open positions and published with   *)
(* its stop and targets.                                                   *)
(*                                                                         *)
(* Prices and the ATR are integers on the grid of the symbol's precision,  *)
(* and the ATR is a multiple of 10, so that every distance of the          *)
(* configuration (tenths of the ATR) lies on the grid and rounding to the  *)
(* precision changes nothing. A timeframe is [len, bars]: how many bars    *)
(* there are, and the last of them, as many as the windows look at.        *)
(* Indicators arrive with the bars, as EA or enrichBars has filled them;   *)
(* "volume" is the volume compared with its average.                       *)
(***************************************************************************)
EXTENDS Integers, Sequences, FiniteSets, FiniteSetsExt, SequencesExt, MarketStructure

Dir(side) == IF side = "BUY" THEN 1 ELSE -1
Ahead(side, from, to) == Dir(side) * (to - from)
Dist(a, b) == IF a > b THEN a - b ELSE b - a
Tenths(atr, n) == (atr * n) \div 10
LastBar(tf) == Last(tf.bars)
LastBars(tf, n) == SubSeq(tf.bars, Len(tf.bars) - n + 1, Len(tf.bars))

\* A score is a base and one point for each condition that holds, ten at most.
AtMostTen(n) == IF n > 10 THEN 10 ELSE n
Score(base, conditions) ==
  AtMostTen(base + Cardinality({i \in DOMAIN conditions : conditions[i]}))

ProposalType ==
  [strategy : {"pullback", "breakout_retest", "divergence", "counter_pullback", "breakout_pyramid"},
   side : {"BUY", "SELL"}, entry : Int, sl : Int, tp1 : Int, tp2 : Int, score : Int, atr : Nat \ {0}]
Proposal(strategy, side, price, atr, sl, tp1, tp2, score) ==
  [strategy |-> strategy, side |-> side, entry |-> price, sl |-> sl, tp1 |-> tp1, tp2 |-> tp2,
   score |-> score, atr |-> atr]

-----------------------------------------------------------------------------
(* Stops and targets at levels of the market. *)

\* closestLevel: 0 when none of them lies on the wanted side of the price at a
\* distance from min to max.
ClosestLevel(levels, price, dir, min, max) ==
  LET fit == {l \in levels : l > 0 /\ dir * (l - price) > 0 /\ Dist(l, price) \in min .. max}
  IN IF fit = {} THEN 0 ELSE CHOOSE l \in fit : \A k \in fit : Dist(l, price) <= Dist(k, price)

\* The first of the levels that lies below the target at such a distance, or the target.
FirstDeeper(levels, target, price, min, max) ==
  LET deeper == {i \in DOMAIN levels : levels[i] > 0 /\ levels[i] < target /\ Dist(levels[i], price) \in min .. max}
  IN IF deeper = {} THEN target ELSE levels[Min(deeper)]

\* The stop a buffer beyond the level.
BufferedStop(side, level, buffer) == level - Dir(side) * buffer

\* pickSLTP: the stop beyond the nearest level behind the price, the targets at levels
\* ahead of it; a proposal keeps its own when either is missing or the stop too near.
AtLevels(p, bar, config) ==
  LET buy == p.side = "BUY"
      min == Tenths(p.atr, config.srMin)
      max == Tenths(p.atr, config.srMax)
      outer == {bar.bbUp, bar.fib382, bar.r1}
      above == outer \cup {bar.ema20}
      below == {bar.ema20, bar.bbLow, bar.fib618, bar.fib786, bar.s1}
      behind == IF buy THEN below \cup {bar.ema50} ELSE above
      level == ClosestLevel(behind, p.entry, -Dir(p.side), min, max)
      target == ClosestLevel(IF buy THEN above ELSE below, p.entry, Dir(p.side), min, max)
      sl == BufferedStop(p.side, level, Tenths(p.atr, config.srBuffer))
      second == IF buy THEN ClosestLevel(outer, p.entry, 1, min, max)
                ELSE FirstDeeper(<<bar.bbLow, bar.fib618, bar.fib786, bar.s1>>, target, p.entry, min, max)
  IN IF level = 0 \/ target = 0 \/ Ahead(p.side, sl, p.entry) <= 0 \/ Dist(sl, p.entry) < min
       THEN p
       ELSE [p EXCEPT !.sl = sl, !.tp1 = target,
                      !.tp2 = IF Ahead(p.side, target, second) > 0 THEN second ELSE target]

-----------------------------------------------------------------------------
(* Pullback: the trend of the averages, and the price back at the 20-bar one. *)

NearEma20(h1, reach) ==
  \A i \in 0 .. 1 : LET bar == h1.bars[Len(h1.bars) - i] IN Dist(bar.close, bar.ema20) < reach

PullbackScore(side, bar, near, config) ==
  Score(5, <<Dir(side) * bar.macd > 0, Dir(side) * (50 - bar.rsi) > 0,
             bar.adx > config.pullback.adxBonus, near>>)

\* evaluatePullbackFibGate: no bonus and no word when the symbol does not use it.
FibGate(side, bar, h4, price, config) ==
  LET half == Tenths(bar.atr, 5)
      sl == bar.fib786 - Dir(side) * half
      low == IF bar.fib382 < bar.fib618 THEN bar.fib382 ELSE bar.fib618
      high == IF bar.fib382 < bar.fib618 THEN bar.fib618 ELSE bar.fib382
      against == h4.len > 0 /\ (side = "SELL") # (LastBar(h4).ema20 < LastBar(h4).ema50)
  IN IF ~config.fib THEN [verdict |-> "pass", sl |-> 0]
     ELSE IF h4.len = 0 \/ against \/ price \notin (low - half) .. (high + half)
       THEN [verdict |-> "reject", sl |-> 0]
     ELSE [verdict |-> "bonus",
           sl |-> IF Dist(price, sl) > Tenths(bar.atr, config.fibMaxStop) THEN 0 ELSE sl]

\* pullbackFibLiftedTakeProfit: the reward the stop asks for, if it is nearer than the
\* next level and improves the target; 0 otherwise.
LiftedTarget(side, price, sl, tp, bar, minRR) ==
  LET risk == Ahead(side, sl, price)
      levels == IF side = "BUY" THEN {bar.ema20, bar.bbUp, bar.fib382, bar.r1}
                ELSE {bar.ema20, bar.bbLow, bar.fib618, bar.fib786, bar.s1}
      ahead == {l \in levels : l > 0 /\ Ahead(side, price, l) > 0}
      least == (risk * minRR + (IF side = "BUY" THEN 50 ELSE 49)) \div 100  \* Math.round
      lifted == price + Dir(side) * Min({least} \cup {Ahead(side, price, l) : l \in ahead})
  IN IF /\ risk > 0 /\ sl > 0 /\ ahead # {} /\ Ahead(side, tp, lifted) > 0
        /\ 100 * Ahead(side, price, lifted) >= minRR * risk
       THEN lifted ELSE 0

\* applyPullbackFibGateToSignal: the level of the retracement becomes the stop when the
\* first target pays for it, as it is or lifted.
WithFib(p, gate, bar, config) ==
  LET paid == 100 * Ahead(p.side, p.entry, p.tp1) >= config.fibMinRR * Ahead(p.side, gate.sl, p.entry)
      lifted == LiftedTarget(p.side, p.entry, gate.sl, p.tp1, bar, config.fibMinRR)
      scored == [p EXCEPT !.score = AtMostTen(@ + 1)]
  IN IF gate.verdict = "pass" THEN {p}
     ELSE IF gate.verdict = "reject" THEN {}
     ELSE IF gate.sl <= 0 THEN {scored}
     ELSE IF Ahead(p.side, gate.sl, p.entry) > 0 /\ paid THEN {[scored EXCEPT !.sl = gate.sl]}
     ELSE IF lifted = 0 THEN {scored}
     ELSE {[scored EXCEPT !.sl = gate.sl, !.tp1 = lifted,
              !.tp2 = IF Ahead(p.side, @, lifted) > 0 THEN lifted ELSE @]}

Pullback(in, config) ==
  LET bar == LastBar(in.h1)
      reach == Tenths(bar.atr, config.pullback.dist)
      near == NearEma20(in.h1, reach)
      c == config.pullback
      side == IF bar.ema20 > bar.ema50 THEN "BUY" ELSE "SELL"
      proposal == Proposal("pullback", side, in.price, bar.atr,
                           in.price - Dir(side) * Tenths(bar.atr, c.sl),
                           in.price + Dir(side) * Tenths(bar.atr, c.tp1),
                           in.price + Dir(side) * Tenths(bar.atr, c.tp2),
                           PullbackScore(side, bar, near, config))
  IN IF /\ in.h1.len >= 50 /\ in.price > 0 /\ bar.atr > 0 /\ bar.adx >= c.minAdx
        /\ bar.ema20 # bar.ema50 /\ Ahead(side, bar.ema50, in.price) > 0
        /\ near \/ Dist(in.price, bar.ema20) < reach
        /\ IF side = "BUY" THEN bar.rsi < c.overbought ELSE bar.rsi > c.oversold
       THEN WithFib(AtLevels(proposal, bar, config), FibGate(side, bar, in.h4, in.price, config),
                    bar, config)
       ELSE {}

-----------------------------------------------------------------------------
(* Breakout and retest: the last five bars left the range before them. *)

BrokenRange(h1, config) ==
  LET n == Len(h1.bars)
      before == {i \in 1 .. n - 5 : i > n - 5 - config.retest.lookback}
  IN [resistance |-> Max({h1.bars[i].high : i \in before}),
      support |-> Min({h1.bars[i].low : i \in before}),
      high5 |-> Max({h1.bars[i].high : i \in n - 4 .. n}),
      low5 |-> Min({h1.bars[i].low : i \in n - 4 .. n})]

\* Bars of the confirmation window that came back to the broken level.
Touches(h1, side, level, reach, config) ==
  LET n == Len(h1.bars)
      edge(bar) == IF side = "BUY" THEN bar.low ELSE bar.high
  IN Cardinality({i \in 1 .. n : i > n - config.retest.confirm
                                 /\ Dist(edge(h1.bars[i]), level) < reach})

RetestScore(side, bar, touches) ==
  Score(5, <<bar.volume = "high", Dir(side) * bar.macd > 0, bar.adx > 20,
             Dir(side) * (bar.rsi - 50) > 0, side = "BUY" /\ touches >= 2>>)

\* The stop is measured from the broken level.
BreakoutRetestSignal(side, price, atr, level, score, c) ==
  Proposal("breakout_retest", side, price, atr, level - Dir(side) * Tenths(atr, c.sl),
           price + Dir(side) * Tenths(atr, c.tp1), price + Dir(side) * Tenths(atr, c.tp2), score)

\* When both edges are broken the touches of the upper one are counted, for both sides.
BreakoutRetest(in, config) ==
  LET bar == LastBar(in.h1)
      c == config.retest
      r == BrokenRange(in.h1, config)
      reach == Tenths(bar.atr, c.dist)
      up == r.high5 > r.resistance
      down == r.low5 < r.support
      touches == IF up THEN Touches(in.h1, "BUY", r.resistance, reach, config)
                 ELSE Touches(in.h1, "SELL", r.support, reach, config)
      fits(side, level) == Dist(in.price, level) < reach /\ touches >= 1
      made(side, level) ==
        AtLevels(BreakoutRetestSignal(side, in.price, bar.atr, level, RetestScore(side, bar, touches), c), bar, config)
  IN IF in.h1.len < c.lookback + 5 \/ in.price <= 0 \/ bar.atr <= 0 THEN {}
     ELSE IF up /\ fits("BUY", r.resistance) THEN {made("BUY", r.resistance)}
     ELSE IF down /\ fits("SELL", r.support) THEN {made("SELL", r.support)}
     ELSE {}

-----------------------------------------------------------------------------
(* Divergence: closes go further than before, the RSI does not. *)

\* divergenceStats: the extremes of the recent and of the previous window.
Extremes(h1, config) ==
  LET n == Len(h1.bars)
      r == config.divergence.recent
      recent == {i \in 1 .. n : i > n - r}
      previous == {i \in 1 .. n : i <= n - r /\ i > n - r - config.divergence.previous}
      all(window, field) == {h1.bars[i][field] : i \in window}
  IN [low |-> Min(all(recent, "close")), lowBefore |-> Min(all(previous, "close")),
      high |-> Max(all(recent, "close")), highBefore |-> Max(all(previous, "close")),
      rsiLow |-> Min(all(recent, "rsi")), rsiLowBefore |-> Min(all(previous, "rsi")),
      rsiHigh |-> Max(all(recent, "rsi")), rsiHighBefore |-> Max(all(previous, "rsi")),
      macdLow |-> Min(all(recent, "macd")), macdLowBefore |-> Min(all(previous, "macd")),
      macdHigh |-> Max(all(recent, "macd")), macdHighBefore |-> Max(all(previous, "macd"))]

DivergenceScore(side, h1, x) ==
  LET bar == LastBar(h1)
      before == h1.bars[Len(h1.bars) - 1]
  IN Score(6, <<\/ side = "BUY" /\ x.macdLow > x.macdLowBefore
                \/ side = "SELL" /\ x.macdHigh < x.macdHighBefore
                \/ Dir(side) * (bar.macd - before.macd) > 0,
                bar.volume = "low",
                IF side = "BUY" THEN bar.stoch < 20 ELSE bar.stoch > 80>>)

\* The stop is measured from the extreme close, not from the price.
DivergenceSignal(side, price, atr, extreme, score, c) ==
  Proposal("divergence", side, price, atr, extreme - Dir(side) * Tenths(atr, c.sl),
           price + Dir(side) * Tenths(atr, c.tp1), price + Dir(side) * Tenths(atr, c.tp2), score)

Divergence(in, config) ==
  LET bar == LastBar(in.h1)
      c == config.divergence
      x == Extremes(in.h1, config)
      bull == x.low < x.lowBefore /\ x.rsiLow > x.rsiLowBefore /\ bar.rsi < c.bull
      bear == x.high > x.highBefore /\ x.rsiHigh < x.rsiHighBefore /\ bar.rsi > c.bear
      made(side, extreme) ==
        AtLevels(DivergenceSignal(side, in.price, bar.atr, extreme, DivergenceScore(side, in.h1, x), c), bar, config)
  IN IF in.h1.len < 30 \/ in.h1.len < c.recent + c.previous \/ in.price <= 0 \/ bar.atr <= 0 THEN {}
     ELSE IF bull THEN {made("BUY", x.low)} ELSE IF bear THEN {made("SELL", x.high)} ELSE {}

-----------------------------------------------------------------------------
(* Counter-trend pullback: a change of character on M30, or on M15 when there is no *)
(* M30, after a sweep of the other side.                                            *)

SignalFrame(in) ==
  IF in.m30.len >= 20 THEN "m30" ELSE IF in.m15.len >= 20 THEN "m15" ELSE "none"

InReach(low, high, price, reach) == high >= price - reach /\ low <= price + reach

CounterScore(side, bar, s, price, atr) ==
  Score(5, <<Dir(side) * ((50 - Dir(side) * 5) - bar.rsi) > 0,
             \E b \in ToSet(s.blocks) : b.side = side /\ b.valid /\ InReach(b.low, b.high, price, atr),
             Dir(side) * bar.macd > 0,
             \E g \in ToSet(s.gaps) : ~g.filled /\ InReach(g.low, g.high, price, atr)>>)

\* The stop is half an ATR behind the swept level, or one and a half behind the price.
CounterPullbackSignal(side, price, atr, level, score) ==
  LET stop == level - Dir(side) * Tenths(atr, 5)
      sl == IF Ahead(side, stop, price) > 0 THEN stop ELSE price - Dir(side) * Tenths(atr, 15)
  IN Proposal("counter_pullback", side, price, atr, sl, price + Dir(side) * 2 * atr, price + Dir(side) * 4 * atr, score)

\* The last change of character at most ten bars ago and the last sweep of its side,
\* however old, whichever came first.
CounterPullback(in, config) ==
  LET frame == SignalFrame(in)
      s == in.smc[frame]
      tf == in[frame]
      atr == LastBar(in.h1).atr
      chochs == {i \in DOMAIN s.breaks : s.breaks[i].type = "CHoCH"}
      choch == s.breaks[Max(chochs)]
      side == IF choch.direction = "UP" THEN "BUY" ELSE "SELL"
      sweeps == {i \in DOMAIN s.sweeps : s.sweeps[i].side = side}
      level == s.sweeps[Max(sweeps)].level
  IN IF frame = "none" \/ in.h1.len = 0 \/ in.price <= 0 THEN {}
     ELSE IF atr <= 0 \/ chochs = {} THEN {}
     ELSE IF choch.age > 10 \/ sweeps = {} THEN {}
     ELSE IF Ahead(side, level + Dir(side) * Tenths(atr, 5), in.price) > 0 THEN {}
     ELSE {AtLevels(CounterPullbackSignal(side, in.price, atr, level, CounterScore(side, LastBar(tf), s, in.price, atr)),
                    LastBar(tf), config)}

-----------------------------------------------------------------------------
(* Breakout and pyramid: a close outside the Bollinger band, in a trend. *)

PyramidScore(side, bar) ==
  Score(6, <<bar.volume = "high", bar.adx > 30,
             IF side = "BUY" THEN bar.rsi > 55 /\ bar.rsi < 80 ELSE bar.rsi < 45 /\ bar.rsi > 20,
             Dir(side) * bar.macd > 0>>)

\* breakoutPyramidBlockingOrderBlock: a block of the other side, still valid, within two
\* ATR beyond the band.
Blocked(side, in) ==
  LET bar == LastBar(in.h1)
      blocks == {b \in ToSet(in.smc.h1.short) : b.side # side}
                \cup ContinuationBlocks(in.h1.bars, side)
  IN \E b \in blocks :
       b.valid /\ IF side = "BUY" THEN b.high - bar.bbUp \in 1 .. 2 * bar.atr - 1
                  ELSE bar.bbLow - b.low \in 1 .. 2 * bar.atr - 1

\* The stop is measured from the average.
BreakoutPyramidSignal(side, price, bar, score, config) ==
  Proposal("breakout_pyramid", side, price, bar.atr, bar.ema20 - Dir(side) * Tenths(bar.atr, config.pyramid.sl),
           price + Dir(side) * 2 * bar.atr, price + Dir(side) * 5 * bar.atr, score)

\* The second look, at M30, is BreakoutCache's; here in.confirmed is what it answers.
BreakoutPyramid(in, config) ==
  LET bar == LastBar(in.h1)
      side == IF bar.close > bar.bbUp /\ bar.ema20 > bar.ema50 THEN "BUY"
              ELSE IF bar.close < bar.bbLow /\ bar.ema20 < bar.ema50 THEN "SELL" ELSE "none"
  IN IF in.h1.len < 30 \/ in.price <= 0 \/ bar.adx < config.pyramid.minAdx \/ bar.atr <= 0 THEN {}
     ELSE IF side = "none" THEN {}
     ELSE IF Blocked(side, in) \/ (in.m30.len > 0 /\ ~in.confirmed) THEN {}
     ELSE {BreakoutPyramidSignal(side, in.price, bar, PyramidScore(side, bar), config)}

-----------------------------------------------------------------------------
(* Filters and ratings. *)

\* timeframeDirection of one bar.
Direction(bar) ==
  IF bar.ema20 > bar.ema50 /\ bar.close > bar.ema20 THEN "BUY"
  ELSE IF bar.ema20 < bar.ema50 /\ bar.close < bar.ema20 THEN "SELL" ELSE "none"
FrameDirection(tf) == IF tf.len = 0 THEN "none" ELSE Direction(LastBar(tf))

\* h4FilterDecision: nothing is said of fewer than 50 bars; a weak trend blocks, and the
\* last bars of one direction keep only the proposals of it.
H4Verdict(h4, config) ==
  LET bars == LastBars(h4, config.h4Bars)
      all(side) == \A i \in DOMAIN bars : Direction(bars[i]) = side
  IN IF h4.len < 50 THEN "none"
     ELSE IF LastBar(h4).adx < config.h4Adx THEN "block"
     ELSE IF all("BUY") THEN "BUY" ELSE IF all("SELL") THEN "SELL" ELSE "none"

\* applyH4FilterToCandidates; GB_H4_ADX_FILTER_MODE=soft only warns of a weak trend.
H4Filter(proposals, h4, config, soft) ==
  LET verdict == H4Verdict(h4, config)
  IN IF verdict = "none" \/ (verdict = "block" /\ soft) THEN proposals
     ELSE [i \in DOMAIN proposals |-> {p \in proposals[i] : p.side = verdict}]

\* trendConfidence, in tenths.
Confidence(tf) ==
  IF FrameDirection(tf) = "none" THEN 0
  ELSE IF LastBar(tf).adx < 20 THEN 3 ELSE IF LastBar(tf).adx <= 30 THEN 6 ELSE 9

\* applyTrendRatingPenalty: H4, H1 and M30 vote with 15, 35 and 50 hundredths.
TrendPenalty(side, in) ==
  LET frames == <<in.h4, in.h1, in.m30>>
      weight == <<15, 35, 50>>
      sum(f(_)) == f(1) + f(2) + f(3)
      vote(s) == sum(LAMBDA i : IF FrameDirection(frames[i]) = s THEN weight[i] ELSE 0)
      strength == sum(LAMBDA i : weight[i] * Confidence(frames[i]))
      opposed == vote(Other(side)) > vote(side)
      h4 == FrameDirection(in.h4)
  IN IF in.h4.len = 0 /\ in.m30.len = 0 THEN 0
     ELSE IF strength >= 300 THEN IF opposed THEN 2 ELSE 0
     ELSE IF h4 # "none" /\ h4 # side THEN 2 ELSE 1

\* applyM15ConfirmationBoost: the RSI of M15 stretched against the trade.
M15Boost(side, m15) ==
  LET rsi == LastBar(m15).rsi IN
    IF m15.len >= 14 /\ rsi > 0 /\ (IF side = "BUY" THEN rsi < 40 ELSE rsi > 60) THEN 1 ELSE 0

HarmonicBonus(side, pattern) ==
  IF pattern.side # side \/ pattern.score < 30 THEN 0 ELSE IF pattern.score >= 70 THEN 2 ELSE 1

\* calculateSMCBonus of H1: a change of character, however old; a sweep of at most ten
\* bars ago within two ATR; a block of H1 or H4 within 1.5 ATR.
SMCBonus(side, smc, price, atr) ==
  Cardinality({i \in 1 .. 3 :
    CASE i = 1 -> \E b \in ToSet(smc.h1.breaks) : b.type = "CHoCH" /\ Side(b.direction) = side
      [] i = 2 -> \E w \in ToSet(smc.h1.sweeps) :
                    w.side = side /\ w.age <= 10 /\ Dist(price, w.level) <= 2 * atr
      [] i = 3 -> \E b \in ToSet(smc.h1.blocks) \cup ToSet(smc.h4.blocks) :
                    b.side = side /\ b.valid /\ InReach(b.low, b.high, price, Tenths(atr, 15))})

\* The penalty, then the bonuses, each capped on its own.
Rated(p, in) ==
  LET penalised == p.score - TrendPenalty(p.side, in)
      boosted == IF M15Boost(p.side, in.m15) = 1 THEN AtMostTen(penalised + 1) ELSE penalised
      harmonic == HarmonicBonus(p.side, in.harmonic)
      shaped == IF harmonic > 0 THEN AtMostTen(boosted + harmonic) ELSE boosted
      smc == SMCBonus(p.side, in.smc, in.price, p.atr)
  IN [p EXCEPT !.score = IF smc > 0 THEN AtMostTen(shaped + smc) ELSE shaped]

\* selectHighestScore: the first of the best, if there is one.
Best(proposals) ==
  LET beats(p, i, q, j) == p.score > q.score \/ (p.score = q.score /\ i <= j)
  IN UNION {{p \in proposals[i] : \A j \in DOMAIN proposals : \A q \in proposals[j] : beats(p, i, q, j)} :
              i \in DOMAIN proposals}

\* applyPositionConflictFilter.
Conflicts(p, positions) ==
  \E q \in positions :
    /\ q.open > 0 /\ q.side \in {"BUY", "SELL"}
    /\ q.strategy \in {p.strategy, "none"}
    /\ Dist(p.entry, q.open) < (IF q.side = p.side THEN 1 ELSE 2) * p.atr

\* applyAIStopLossOverride and applyAITakeProfitOverride: 0 is no suggestion; both targets
\* become the suggested one.
WithAI(p, ai) ==
  LET risk == Ahead(p.side, ai.sl, p.entry)
      gain == Ahead(p.side, p.entry, ai.tp)
      stop == ai.sl > 0 /\ risk > 0 /\ 10 * risk >= 3 * p.atr /\ risk <= 3 * p.atr
      target == ai.tp > 0 /\ gain > 0 /\ 10 * gain >= 3 * p.atr /\ gain <= 5 * p.atr
  IN [p EXCEPT !.sl = IF stop THEN ai.sl ELSE @,
               !.tp1 = IF target THEN ai.tp ELSE @,
               !.tp2 = IF target THEN ai.tp ELSE @]

\* primarySignalTakeProfit: the farther target when it is ahead of the entry.
FarTarget(p) ==
  IF p.tp2 > 0 /\ Ahead(p.side, p.entry, p.tp2) > 0 /\ Ahead(p.side, p.tp1, p.tp2) > 0
    THEN p.tp2 ELSE p.tp1

\* applyMinRRFilter. Mistake: the sum is made without looking at the signs.
AbsolutePays(p, config) ==
  100 * Dist(p.entry, FarTarget(p)) >= config.minRR * Dist(p.entry, p.sl)
Pays(p, config) ==
  LET risk == Ahead(p.side, p.sl, p.entry)
      reward == Ahead(p.side, p.entry, FarTarget(p))
  IN /\ p.entry > 0 /\ p.sl > 0 /\ FarTarget(p) > 0
     /\ risk > 0 /\ reward > 0
     /\ 100 * reward >= config.minRR * risk

\* collectReplayCandidates: what each strategy proposes, in the order of the code.
Proposals(in, config) ==
  <<Pullback(in, config), BreakoutRetest(in, config), Divergence(in, config),
    CounterPullback(in, config), BreakoutPyramid(in, config)>>

\* runReplay: at most one signal.
Signal(in, config, soft) ==
  LET kept == H4Filter(Proposals(in, config), in.h4, config, soft)
      rated == [i \in DOMAIN kept |-> {Rated(p, in) : p \in kept[i]}]
      chosen == {p \in Best(rated) : p.score >= config.minScore /\ ~Conflicts(p, in.positions)}
  IN {p \in {WithAI(c, in.ai) : c \in chosen} : Pays(p, config)}
=============================================================================
