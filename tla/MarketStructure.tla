--------------------------- MODULE MarketStructure ---------------------------
(***************************************************************************)
(* What a series of bars says of the market's structure (smc/detector.ts): *)
(* swing points, breaks of them, fair value gaps, liquidity sweeps and     *)
(* order blocks; and the order blocks breakout_pyramid looks for itself    *)
(* (replay.ts).                                                            *)
(*                                                                         *)
(* A bar is [open, high, low, close]; positions in a series count from 1.  *)
(* Everything is computed again from all bars each time bars arrive.       *)
(***************************************************************************)
EXTENDS Integers, Sequences, FiniteSets, FiniteSetsExt, SequencesExt

CONSTANTS
  Wing,       \* bars on either side that make a bar a swing point
  Recent,     \* bars whose extremes stand in for swing points
  Reversal    \* bars after a swing point within which a sweep reverses

Side(direction) == IF direction = "UP" THEN "BUY" ELSE "SELL"
Other(side) == IF side = "BUY" THEN "SELL" ELSE "BUY"

\* findSwingPoints: strictly beyond every bar of both wings.
Swings(bars, first, high) ==
  {i \in first + Wing .. Len(bars) - Wing :
     \A j \in (i - Wing .. i + Wing) \ {i} :
       IF high THEN bars[j].high < bars[i].high ELSE bars[j].low > bars[i].low}

\* determineTrendDirection: the last two highs and the last two lows agree.
Trend(bars) ==
  LET highs == Swings(bars, 1, TRUE)
      lows == Swings(bars, 1, FALSE)
      rises(S, field) == bars[Max(S)][field] > bars[Max(S \ {Max(S)})][field]
      falls(S, field) == bars[Max(S)][field] < bars[Max(S \ {Max(S)})][field]
  IN IF Cardinality(highs) < 2 \/ Cardinality(lows) < 2 THEN "NEUTRAL"
     ELSE IF rises(highs, "high") /\ rises(lows, "low") THEN "BULL"
     ELSE IF falls(highs, "high") /\ falls(lows, "low") THEN "BEAR"
     ELSE "NEUTRAL"

\* classifyBreak: against the trend a break is a change of character.
Classify(direction, trend) ==
  IF <<trend, direction>> \in {<<"BULL", "DOWN">>, <<"BEAR", "UP">>}
    THEN "CHoCH" ELSE "BOS"

\* The close at i is the first beyond the level.
Crosses(bars, i, direction, level) ==
  IF direction = "UP"
    THEN bars[i].close > level /\ (i = 1 \/ bars[i - 1].close <= level)
    ELSE bars[i].close < level /\ (i = 1 \/ bars[i - 1].close >= level)

Break(i, direction, level, trend) ==
  [index |-> i, direction |-> direction, level |-> level, type |-> Classify(direction, trend)]

\* detectBreaksFromSwings: the level of the last swing point before the bar.
SwingBreaks(bars, first, trend) ==
  LET highs == Swings(bars, first, TRUE)
      lows == Swings(bars, first, FALSE)
      before(S, i) == {j \in S : j < i}
      up == {Break(i, "UP", bars[Max(before(highs, i))].high, trend) :
               i \in {i \in first .. Len(bars) : before(highs, i) # {}}}
      down == {Break(i, "DOWN", bars[Max(before(lows, i))].low, trend) :
                 i \in {i \in first .. Len(bars) : before(lows, i) # {}}}
  IN {e \in up \cup down : Crosses(bars, e.index, e.direction, e.level)}

\* detectBreaksFromRecentExtremes.
ExtremeBreaks(bars, first, trend) ==
  LET at == first + Recent .. Len(bars)
      up == {Break(i, "UP", Max({bars[j].high : j \in i - Recent .. i - 1}), trend) : i \in at}
      down == {Break(i, "DOWN", Min({bars[j].low : j \in i - Recent .. i - 1}), trend) : i \in at}
  IN {e \in up \cup down : Crosses(bars, e.index, e.direction, e.level)}

\* detectStructureBreaks: with swing points of one kind only, the extremes add what the
\* swing points did not find.
FirstOf(bars, lookback) == IF lookback > Len(bars) THEN 1 ELSE Len(bars) - lookback + 1
FoundBreaks(bars, lookback, trend) ==
  LET first == FirstOf(bars, lookback)
      highs == Swings(bars, first, TRUE)
      lows == Swings(bars, first, FALSE)
      swing == SwingBreaks(bars, first, trend)
      extreme == ExtremeBreaks(bars, first, trend)
      unseen == {e \in extreme : ~\E k \in swing : k.index = e.index /\ k.direction = e.direction}
  IN [swing |-> IF Len(bars) < 3 THEN {} ELSE swing,
      extreme |-> IF Len(bars) < 3 \/ (highs # {} /\ lows # {}) THEN {} ELSE unseen]
BreaksOf(bars, lookback, trend) ==
  LET found == FoundBreaks(bars, lookback, trend) IN found.swing \cup found.extreme

\* A series of events in the order they are found: by bar, upward first.
InOrder(events) ==
  SetToSortSeq(events, LAMBDA a, b : a.index < b.index
                                     \/ (a.index = b.index /\ a.direction = "UP"))

\* What the extremes add is at the end of the list.
Breaks(bars, lookback, trend) ==
  LET found == FoundBreaks(bars, lookback, trend) IN InOrder(found.swing) \o InOrder(found.extreme)

\* detectFVGs and checkFVGFill: the first later bar that reaches the far bound fills it.
\* Mistake: reaching the near bound fills it, and the third bar is looked at too.
NearFill(bars, g) ==
  LET hit == {j \in g.start + 3 .. Len(bars) :
                IF g.side = "BUY" THEN bars[j].low <= g.upper ELSE bars[j].low <= g.lower}
  IN IF hit = {} THEN 0 ELSE Max(hit)
FilledAt(bars, g) ==
  LET hit == {j \in g.start + 3 .. Len(bars) :
                IF g.side = "BUY" THEN bars[j].low <= g.lower ELSE bars[j].high >= g.upper}
  IN IF hit = {} THEN 0 ELSE Min(hit)
Gaps(bars, lookback) ==
  LET first == FirstOf(bars, lookback)
      up == {[start |-> i, side |-> "BUY", upper |-> bars[i + 2].low, lower |-> bars[i].high] :
               i \in {i \in first .. Len(bars) - 2 : bars[i + 2].low > bars[i].high}}
      down == {[start |-> i, side |-> "SELL", upper |-> bars[i].low, lower |-> bars[i + 2].high] :
                 i \in {i \in first .. Len(bars) - 2 : bars[i + 2].high < bars[i].low}}
  IN {[gap |-> g, filled |-> FilledAt(bars, g)] : g \in up \cup down}

\* detectLiquiditySweeps: soon after a swing point a bar goes beyond it and closes back;
\* the first such bar of each swing point counts.
Sweeps(bars) ==
  LET back(i, high) ==
        {j \in i + 1 .. i + Reversal :
           /\ j <= Len(bars)
           /\ IF high THEN bars[j].high > bars[i].high /\ bars[j].close < bars[i].high
                      ELSE bars[j].low < bars[i].low /\ bars[j].close > bars[i].low}
      swept(high, side) ==
        {[index |-> Min(back(i, high)), side |-> side,
          level |-> IF high THEN bars[i].high ELSE bars[i].low] :
           i \in {i \in Swings(bars, 1, high) : back(i, high) # {}}}
  IN swept(TRUE, "SELL") \cup swept(FALSE, "BUY")

\* checkOrderBlockValidity: no bar closed beyond the far end of the block since.
Intact(bars, i, side) ==
  \A j \in i + 1 .. Len(bars) :
    IF side = "BUY" THEN bars[j].close >= bars[i].low ELSE bars[j].close <= bars[i].high

Rises(bar) == bar.close > bar.open
Falls(bar) == bar.close < bar.open
Body(bar) == IF Rises(bar) THEN bar.close - bar.open ELSE bar.open - bar.close

\* findLastOrderBlockCandle: the last strong candle of the direction before the break,
\* or the last of any strength; 0 when there is none.
BlockCandle(bars, before, rising) ==
  LET way(i) == IF rising THEN Rises(bars[i]) ELSE Falls(bars[i])
      any == {i \in 1 .. before - 1 : way(i)}
      strong == {i \in any : 10 * Body(bars[i]) > 3 * (bars[i].high - bars[i].low)}
  IN IF strong # {} THEN Max(strong) ELSE IF any # {} THEN Max(any) ELSE 0

BlockAt(bars, i, side) ==
  [index |-> i, side |-> side, high |-> bars[i].high, low |-> bars[i].low,
   valid |-> Intact(bars, i, side)]

\* detectOrderBlocks: the last candle against a break of the side's direction.
OrderBlocks(bars, side, lookback, trend) ==
  LET breaks == {e \in BreaksOf(bars, lookback, trend) : Side(e.direction) = side}
      candles == {BlockCandle(bars, e.index, side = "SELL") : e \in breaks}
  IN {BlockAt(bars, i, side) : i \in candles \ {0}}

\* breakoutPyramidDirectionalCandle: only strong candles, and none before the window.
PyramidCandle(bars, before, first, rising) ==
  LET fit == {i \in first .. before - 1 :
                /\ 10 * Body(bars[i]) > 6 * (bars[i].high - bars[i].low)
                /\ IF rising THEN Rises(bars[i]) ELSE Falls(bars[i])}
  IN IF fit = {} THEN 0 ELSE Max(fit)

\* The breaks of the last 20 bars that continue the trend they break out of.
ContinuationBreaks(bars, trend) == {e \in BreaksOf(bars, 20, trend) : e.type = "BOS"}

\* breakoutPyramidContinuationOrderBlocks: what may stop a breakout to `side`.
ContinuationBlocks(bars, side) ==
  LET first == IF Len(bars) > 20 THEN Len(bars) - 19 ELSE 1
      trend == IF side = "BUY" THEN "BULL" ELSE "BEAR"
      candles == {PyramidCandle(bars, e.index, first, side = "BUY") : e \in ContinuationBreaks(bars, trend)}
  IN {BlockAt(bars, i, Other(side)) : i \in candles \ {0}}

\* buildSMCContext, for one timeframe; lookback is 50, on M15 30, for the short blocks 20.
Context(bars, lookback) ==
  LET trend == Trend(bars) IN
    [trend |-> trend,
     breaks |-> Breaks(bars, lookback, trend),
     blocks |-> OrderBlocks(bars, "BUY", lookback, trend) \cup OrderBlocks(bars, "SELL", lookback, trend),
     gaps |-> Gaps(bars, lookback),
     sweeps |-> Sweeps(bars)]
=============================================================================
