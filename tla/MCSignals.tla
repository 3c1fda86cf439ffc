------------------------------- MODULE MCSignals -------------------------------
(***************************************************************************)
(* Markets for Signals: an ATR of 10, prices around 200, and the last      *)
(* eight bars of H1, with windows short enough to lie within them.         *)
(***************************************************************************)
EXTENDS StrategyConfig, Integers, Sequences

Windows(c) ==
  [c EXCEPT !.retest.lookback = 3, !.retest.confirm = 2,
            !.divergence.recent = 1, !.divergence.previous = 2]
MCConfigs == {Windows(ConfigOf(s)) : s \in {"XAUUSD", "XAGUSD", "US100CASH"}}

Quiet ==
  [open |-> 200, high |-> 203, low |-> 197, close |-> 200, ema20 |-> 200, ema50 |-> 190, atr |-> 10,
   rsi |-> 45, adx |-> 32, macd |-> 1, stoch |-> 50, volume |-> "normal",
   bbUp |-> 225, bbLow |-> 180, fib382 |-> 207, fib618 |-> 195, fib786 |-> 190, r1 |-> 212, s1 |-> 186]
Series(n, older, last) == [len |-> n, bars |-> [i \in 1 .. 7 |-> older] \o <<last>>]
H1(older, last) == Series(60, older, last)
NoFrame == [len |-> 0, bars |-> <<>>]

NoStructure == [breaks |-> <<>>, sweeps |-> <<>>, blocks |-> <<>>, gaps |-> <<>>, short |-> <<>>]
Turned(direction, side, level) ==
  [NoStructure EXCEPT
     !.breaks = <<[type |-> "CHoCH", direction |-> direction, age |-> 4]>>,
     !.sweeps = <<[side |-> side, level |-> level, age |-> 6]>>,
     !.blocks = <<[side |-> side, valid |-> TRUE, high |-> 204, low |-> 196]>>]

Plain ==
  [price |-> 200, h1 |-> H1(Quiet, Quiet), h4 |-> NoFrame, m30 |-> NoFrame, m15 |-> NoFrame,
   smc |-> [h4 |-> NoStructure, h1 |-> NoStructure, m30 |-> NoStructure, m15 |-> NoStructure],
   harmonic |-> [side |-> "none", score |-> 0], confirmed |-> FALSE,
   ai |-> [sl |-> 0, tp |-> 0], positions |-> {}]

\* What surrounds the bars of H1.
Trending(bar, adx) == Series(60, [bar EXCEPT !.adx = adx], [bar EXCEPT !.adx = adx])
Rising == [Quiet EXCEPT !.close = 205]
Sinking == [Quiet EXCEPT !.ema50 = 210, !.close = 195]
Surroundings(in) ==
  <<in,
   [in EXCEPT !.h4 = Trending(Rising, 35), !.harmonic = [side |-> "BUY", score |-> 70]],
   [in EXCEPT !.h4 = Trending(Sinking, 35), !.ai = [sl |-> 190, tp |-> 230]],
   [in EXCEPT !.h4 = Trending(Rising, 15)],
   [in EXCEPT !.h4 = Trending(Rising, 35), !.ai = [sl |-> 171, tp |-> 203]],
   [in EXCEPT !.m30 = Trending(Sinking, 25), !.m15 = Trending([Quiet EXCEPT !.rsi = 65], 25),
              !.harmonic = [side |-> "SELL", score |-> 40]],
   [in EXCEPT !.m30 = Trending(Rising, 25), !.confirmed = TRUE,
              !.smc.h1 = Turned("UP", "BUY", 190),
              !.positions = {[open |-> 208, side |-> "BUY", strategy |-> "pullback"]}],
   [in EXCEPT !.ai = [sl |-> 212, tp |-> 180],
              !.positions = {[open |-> 185, side |-> "BUY", strategy |-> "none"]}]>>

Pullbacks ==
  {[Plain EXCEPT !.price = p, !.h1 = H1([Quiet EXCEPT !.close = c],
      [Quiet EXCEPT !.ema50 = e, !.rsi = r, !.macd = n, !.adx = x, !.fib786 = f, !.bbUp = u])] :
     p \in {193, 200, 204}, c \in {200, 240}, e \in {190, 210}, r \in {25, 45, 75},
     n \in {-1, 1}, x \in {22, 35}, f \in {192, 209}, u \in {206, 225}}
Retests ==
  {[Plain EXCEPT !.price = p, !.h1 = H1([Quiet EXCEPT !.high = h, !.low = l],
      [Quiet EXCEPT !.high = e[2], !.low = e[1], !.ema50 = 200, !.macd = n, !.rsi = r,
                    !.volume = v, !.r1 = t, !.fib382 = t, !.bbLow = 400 - t, !.fib786 = 400 - t,
                    !.s1 = 400 - t])] :
     t \in {215, 230},
     p \in {191, 200, 208}, h \in {206, 214}, l \in {186, 194}, n \in {-1, 1}, r \in {30, 60},
     v \in {"high"}, e \in {<<190, 196>>, <<190, 210>>, <<203, 210>>}}
Divergences ==
  {[Plain EXCEPT !.price = p, !.h1 = H1([Quiet EXCEPT !.close = 205 - d, !.rsi = r + d, !.macd = 0],
      [Quiet EXCEPT !.close = 200 + d, !.rsi = r, !.macd = n, !.stoch = s, !.volume = v,
                    !.ema50 = 200])] :
     p \in {165, 186, 200, 214}, d \in {-20, 0, 20}, r \in {15, 35, 64, 75}, n \in {-1, 1},
     s \in {10, 90}, v \in {"low", "normal"}}
Counters ==
  {[Plain EXCEPT !.price = p, !.m30 = Trending([Quiet EXCEPT !.rsi = r, !.macd = n], 25),
                 !.smc.m30 = Turned(d, s, l), !.h1 = H1(Quiet, [Quiet EXCEPT !.ema50 = 200])] :
     p \in {190, 200, 206}, r \in {30, 60}, n \in {-1, 1}, d \in {"UP", "DOWN"},
     s \in {"BUY", "SELL"}, l \in {188, 198, 210}}
Pyramids ==
  {[Plain EXCEPT !.price = p, !.h1 = H1([Quiet EXCEPT !.high = h],
      [Quiet EXCEPT !.close = c, !.ema20 = 200 - (200 - e) \div 2, !.ema50 = e, !.bbUp = 206,
                    !.bbLow = 194, !.rsi = r, !.macd = n])] :
     p \in {185, 200, 209}, h \in {203, 215}, c \in {190, 200, 210}, e \in {180, 220},
     r \in {40, 60}, n \in {-1, 1}}

MCMarketInputs ==
  {Surroundings(in)[k] : k \in 1 .. 8,
                         in \in Pullbacks \cup Retests \cup Divergences \cup Counters \cup Pyramids}
=============================================================================
