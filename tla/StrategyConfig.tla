---------------------------- MODULE StrategyConfig ----------------------------
(***************************************************************************)
(* The parameters of the technical strategies, by symbol (engine/config.ts *)
(* and the part of it that replay.ts uses).                                *)
(*                                                                         *)
(* Distances are tenths of the ATR, ratios hundredths; the windows of a    *)
(* strategy are counts of bars.                                            *)
(***************************************************************************)
LOCAL INSTANCE Integers

DefaultConfig ==
  [pullback |-> [minAdx |-> 25, oversold |-> 30, overbought |-> 70, dist |-> 5, adxBonus |-> 30,
                 sl |-> 15, tp1 |-> 15, tp2 |-> 30],
   retest |-> [lookback |-> 50, confirm |-> 3, dist |-> 5, sl |-> 15, tp1 |-> 20, tp2 |-> 40],
   divergence |-> [recent |-> 15, previous |-> 15, bull |-> 40, bear |-> 60,
                   sl |-> 10, tp1 |-> 20, tp2 |-> 40],
   pyramid |-> [minAdx |-> 30, sl |-> 15],
   srMin |-> 3, srMax |-> 30, srBuffer |-> 5,
   fib |-> FALSE, fibMaxStop |-> 15, fibMinRR |-> 125,
   minRR |-> 125, minScore |-> 5, h4Adx |-> 30, h4Bars |-> 3]

Targets(sl, tp1, tp2, rest) == [rest EXCEPT !.sl = sl, !.tp1 = tp1, !.tp2 = tp2]

GoldConfig == [DefaultConfig EXCEPT !.fib = TRUE]

SilverConfig ==
  [DefaultConfig EXCEPT !.pullback = Targets(20, 30, 50, @), !.minScore = 6, !.h4Adx = 22]

\* GBPJPY, and the other crosses with the yen.
YenConfig ==
  [DefaultConfig EXCEPT
     !.h4Adx = 22, !.h4Bars = 2, !.fib = TRUE,
     !.pullback = [minAdx |-> 20, oversold |-> 35, overbought |-> 65, dist |-> 6, adxBonus |-> 25,
                   sl |-> 18, tp1 |-> 20, tp2 |-> 35],
     !.retest = [lookback |-> 40, confirm |-> 2, dist |-> 7, sl |-> 20, tp1 |-> 25, tp2 |-> 45],
     !.divergence = [recent |-> 12, previous |-> 12, bull |-> 45, bear |-> 55,
                     sl |-> 15, tp1 |-> 25, tp2 |-> 45],
     !.pyramid = [minAdx |-> 25, sl |-> 20]]

EuroConfig ==
  [DefaultConfig EXCEPT
     !.h4Adx = 20, !.h4Bars = 2, !.pullback.minAdx = 20, !.pullback.dist = 4,
     !.pullback.sl = 10, !.pullback.tp2 = 25,
     !.retest = Targets(12, 18, 35, @), !.divergence = Targets(8, 15, 30, @),
     !.pyramid.minAdx = 25]

PoundConfig ==
  [DefaultConfig EXCEPT
     !.h4Adx = 22, !.h4Bars = 2, !.pullback.minAdx = 20,
     !.pullback.sl = 13, !.pullback.tp1 = 18, !.divergence.tp2 = 35, !.pyramid.minAdx = 28]

CanadaConfig ==
  [DefaultConfig EXCEPT
     !.h4Adx = 25, !.h4Bars = 2, !.pullback.minAdx = 22, !.pullback.sl = 12,
     !.retest = Targets(13, 20, 35, @), !.divergence = Targets(8, 18, 30, @),
     !.pyramid.minAdx = 28]

NasdaqConfig ==
  [DefaultConfig EXCEPT
     !.h4Adx = 25, !.pullback.minAdx = 22, !.pullback.dist = 6,
     !.pullback.sl = 10, !.pullback.tp1 = 20, !.pullback.tp2 = 35,
     !.retest = [Targets(10, 25, 50, @) EXCEPT !.lookback = 45, !.dist = 6],
     !.divergence.sl = 6, !.pyramid = [minAdx |-> 25, sl |-> 10]]

OilConfig ==
  [DefaultConfig EXCEPT
     !.h4Adx = 22, !.h4Bars = 2, !.fib = TRUE, !.pullback.minAdx = 20, !.pullback.dist = 8,
     !.pullback.sl = 20, !.pullback.tp1 = 25, !.pullback.tp2 = 40,
     !.retest = [Targets(20, 25, 45, @) EXCEPT !.lookback = 45, !.dist = 7],
     !.divergence = Targets(15, 25, 45, @), !.pyramid = [minAdx |-> 28, sl |-> 20]]

\* getStrategyConfigBySymbol.
ConfigOf(symbol) ==
  CASE symbol = "XAUUSD" -> GoldConfig
    [] symbol = "XAGUSD" -> SilverConfig
    [] symbol \in {"GBPJPY", "EURJPY", "USDJPY"} -> YenConfig
    [] symbol = "EURUSD" -> EuroConfig
    [] symbol = "GBPUSD" -> PoundConfig
    [] symbol = "USDCAD" -> CanadaConfig
    [] symbol = "US100CASH" -> NasdaqConfig
    [] symbol \in {"USOILCASH", "UKOILCASH"} -> OilConfig
    [] OTHER -> DefaultConfig
=============================================================================
