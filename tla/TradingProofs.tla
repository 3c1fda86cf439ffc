---------------------------- MODULE TradingProofs ----------------------------
(***************************************************************************)
(* The technical signal is protected and pays, for every market, every     *)
(* configuration within the ranges of the shipped ones and every           *)
(* suggestion of the AI. A proposal of each strategy is Promising: it has  *)
(* its first target ahead, none beyond five ATR and a score of ten at      *)
(* most. Every later filter keeps that, and with the ratio it bounds the   *)
(* stop.                                                                   *)
(*                                                                         *)
(* The rules for open positions say nothing that contradicts itself, for   *)
(* all positions, states and markets. What one position gets is Kept       *)
(* through the six passes of an evaluation: its stops lead forward, no     *)
(* target is closed twice, and a flag is set exactly when its target is    *)
(* closed.                                                                 *)
(*                                                                         *)
(* The loop around them keeps its promises for every interleaving of       *)
(* posts, reviews, polls, ticks and faults. Its orders are those of the    *)
(* evaluation, in that order (FlattenSeq), thinned out by what can be made *)
(* and what is known (Queued); the invariant ReviewInv relates the orders  *)
(* under way to the positions at the broker, the stored states and the ids *)
(* of the minute.                                                          *)
(***************************************************************************)
EXTENDS DecisionsProofs, PositionReview

-----------------------------------------------------------------------------
(* The technical signal. *)

TradeSides == {"BUY", "SELL"}

\* What every proposal keeps whatever is done to it: the first target is ahead of the entry, and
\* no target is farther than five ATR. A reward of at most five and a ratio of at least
\* 1.25 leave a risk of at most four.
Promising(p) ==
  /\ p \in S!ProposalType
  /\ p.score <= 10
  /\ S!Ahead(p.side, p.entry, p.tp1) \in 1 .. 5 * p.atr
  /\ S!Ahead(p.side, p.entry, p.tp2) <= 5 * p.atr

\* A number of tenths of the ATR, from ten to fifty of them.
LEMMA TenthsAreBounded ==
  ASSUME NEW atr1 \in Nat \ {0}, NEW n \in 0 .. 50
  PROVE  /\ S!Tenths(atr1, n) \in 0 .. 5 * atr1
         /\ n >= 10 => S!Tenths(atr1, n) >= 1
         /\ n <= 40 => S!Tenths(atr1, n) <= 4 * atr1
<1>1. atr1 * n \in Nat /\ atr1 * n <= 50 * atr1
  <2>1. atr1 * (50 - n) \in Nat
    OBVIOUS
  <2>2. atr1 * (50 - n) = 50 * atr1 - atr1 * n
    OBVIOUS
  <2> QED
    BY <2>1, <2>2
<1>2. n <= 40 => atr1 * n <= 40 * atr1
  <2> SUFFICES ASSUME n <= 40 PROVE atr1 * n <= 40 * atr1
    OBVIOUS
  <2>1. atr1 * (40 - n) \in Nat
    OBVIOUS
  <2>2. atr1 * (40 - n) = 40 * atr1 - atr1 * n
    OBVIOUS
  <2> QED
    BY <2>1, <2>2
<1>3. n >= 10 => atr1 * n >= 10
  <2> SUFFICES ASSUME n >= 10 PROVE atr1 * n >= 10
    OBVIOUS
  <2>1. (atr1 - 1) * n \in Nat
    OBVIOUS
  <2>2. (atr1 - 1) * n = atr1 * n - n
    OBVIOUS
  <2> QED
    BY <2>1, <2>2
<1> DEFINE m == atr1 * n
<1>4. S!Tenths(atr1, n) = m \div 10
  BY DEF S!Tenths
<1> HIDE DEF m
<1> QED
  BY <1>1, <1>2, <1>3, <1>4 DEF m

\* Distances are natural numbers, whichever way they are taken.
LEMMA DistIsNat ==
  ASSUME NEW a \in Int, NEW b \in Int
  PROVE  S!Dist(a, b) \in Nat /\ S!Dist(a, b) >= a - b /\ S!Dist(a, b) >= b - a
BY DEF S!Dist

\* None, or one of the levels on the wanted side and within the distance.
IsFit(l, levels, current, dir, most) ==
  l = 0 \/ (l \in levels /\ l > 0 /\ dir * (l - current) > 0 /\ S!Dist(l, current) <= most)

\* The closest level is such a one.
LEMMA ClosestIsLevel ==
  ASSUME NEW levels, levels \subseteq Int, NEW current \in Int, NEW dir \in {-1, 1},
         NEW least \in Int, NEW most \in Int
  PROVE  IsFit(S!ClosestLevel(levels, current, dir, least, most), levels, current, dir, most)
<1> DEFINE fit == {l \in levels : l > 0 /\ dir * (l - current) > 0 /\ S!Dist(l, current) \in least .. most}
           gaps == {S!Dist(l, current) : l \in fit}
<1>1. CASE fit = {}
  BY <1>1 DEF S!ClosestLevel, IsFit
<1>2. CASE fit # {}
  <2>1. gaps \subseteq Nat
    <3>1. ASSUME NEW l \in fit PROVE S!Dist(l, current) \in Nat
      BY DistIsNat
    <3> QED
      BY <3>1
  <2>2. gaps # {}
    <3>1. PICK l : l \in fit
      BY <1>2
    <3>2. S!Dist(l, current) \in gaps
      BY <3>1
    <3> QED
      BY <3>2
  <2> HIDE DEF gaps
  <2>3. Min(gaps) \in gaps /\ \A g \in gaps : Min(gaps) <= g
    BY <2>1, <2>2, LeastOfSome
  <2>4. PICK l \in fit : S!Dist(l, current) = Min(gaps)
    BY <2>3 DEF gaps
  <2>5. \A k \in fit : S!Dist(l, current) <= S!Dist(k, current)
    BY <2>3, <2>4 DEF gaps
  <2>6. S!ClosestLevel(levels, current, dir, least, most) \in fit
    <3>1. S!ClosestLevel(levels, current, dir, least, most)
            = CHOOSE k \in fit : \A j \in fit : S!Dist(k, current) <= S!Dist(j, current)
      BY <1>2 DEF S!ClosestLevel
    <3> HIDE DEF fit
    <3> QED
      BY <2>5, <3>1
  <2>7. ASSUME NEW v \in fit PROVE IsFit(v, levels, current, dir, most)
    <3>1. S!Dist(v, current) \in least .. most /\ v \in Int
      OBVIOUS
    <3> QED
      BY <3>1 DEF IsFit
  <2> HIDE DEF fit
  <2> QED
    BY <2>6, <2>7
<1> QED
  BY <1>1, <1>2

\* The deeper of four levels is one of them within the distance, or the target itself.
LEMMA DeeperIsLevel ==
  ASSUME NEW a \in Int, NEW b \in Int, NEW c \in Int, NEW d \in Int, NEW target \in Int,
         NEW current \in Int, NEW least \in Int, NEW most \in Int
  PROVE  LET l == S!FirstDeeper(<<a, b, c, d>>, target, current, least, most) IN
         l = target \/ (l \in Int /\ S!Dist(l, current) <= most)
<1> DEFINE levels == <<a, b, c, d>>
           deeper == {i \in DOMAIN levels : levels[i] > 0 /\ levels[i] < target /\ S!Dist(levels[i], current) \in least .. most}
<1>1. DOMAIN levels = 1 .. 4 /\ \A i \in 1 .. 4 : levels[i] \in Int
  OBVIOUS
<1>2. S!FirstDeeper(levels, target, current, least, most) = IF deeper = {} THEN target ELSE levels[S!Min(deeper)]
  BY DEF S!FirstDeeper
<1>3. ASSUME deeper # {} PROVE S!Min(deeper) \in deeper
  <2>1. deeper \subseteq Nat
    BY <1>1
  <2> HIDE DEF deeper
  <2>2. Min(deeper) \in deeper
    BY <1>3, <2>1, LeastOfSome
  <2> QED
    BY <2>2 DEF S!Min, Min
<1>4. ASSUME NEW i \in deeper PROVE levels[i] \in Int /\ S!Dist(levels[i], current) <= most
  <2> HIDE DEF levels
  <2>1. i \in 1 .. 4
    BY <1>1
  <2>2. levels[i] \in Int
    BY <1>1, <2>1
  <2>3. S!Dist(levels[i], current) \in Nat
    BY <2>2, DistIsNat
  <2> QED
    BY <2>2, <2>3
<1> HIDE DEF deeper, levels
<1>5. S!FirstDeeper(levels, target, current, least, most) = target \/
      (S!FirstDeeper(levels, target, current, least, most) \in Int
       /\ S!Dist(S!FirstDeeper(levels, target, current, least, most), current) <= most)
  BY <1>2, <1>3, <1>4
<1> QED
  BY <1>5 DEF levels

\* New levels make a promising proposal of one, if the targets are where they should be.
LEMMA StillPromising ==
  ASSUME NEW p, Promising(p), NEW sl \in Int, NEW tp1 \in Int, NEW tp2 \in Int,
         S!Ahead(p.side, p.entry, tp1) \in 1 .. 5 * p.atr,
         S!Ahead(p.side, p.entry, tp2) <= 5 * p.atr
  PROVE  Promising([p EXCEPT !.sl = sl, !.tp1 = tp1, !.tp2 = tp2])
<1> DEFINE q == [p EXCEPT !.sl = sl, !.tp1 = tp1, !.tp2 = tp2]
<1>1. q \in S!ProposalType
  BY DEF Promising, S!ProposalType
<1>2. q.side = p.side /\ q.entry = p.entry /\ q.atr = p.atr /\ q.score = p.score /\ q.tp1 = tp1 /\ q.tp2 = tp2
  BY DEF Promising, S!ProposalType
<1> HIDE DEF q
<1>3. Promising(q)
  BY <1>1, <1>2 DEF Promising
<1> QED
  BY <1>3 DEF q

\* Stops and targets at levels of the market keep a proposal promising.
LEMMA LevelsArePromising ==
  ASSUME NEW p, Promising(p), NEW bar \in MarketBar, NEW config \in ConfigType
  PROVE  LET q == S!AtLevels(p, bar, config) IN
         Promising(q) /\ q.side = p.side /\ q.entry = p.entry /\ q.atr = p.atr
<1> DEFINE buy == p.side = "BUY"
           least == S!Tenths(p.atr, config.srMin)
           most == S!Tenths(p.atr, config.srMax)
           outer == {bar.bbUp, bar.fib382, bar.r1}
           above == outer \cup {bar.ema20}
           below == {bar.ema20, bar.bbLow, bar.fib618, bar.fib786, bar.s1}
           behind == IF buy THEN below \cup {bar.ema50} ELSE above
           dir == S!Dir(p.side)
           level == S!ClosestLevel(behind, p.entry, -dir, least, most)
           front == IF buy THEN above ELSE below
           target == S!ClosestLevel(front, p.entry, dir, least, most)
           sl == S!BufferedStop(p.side, level, S!Tenths(p.atr, config.srBuffer))
           far == S!ClosestLevel(outer, p.entry, 1, least, most)
           deep == S!FirstDeeper(<<bar.bbLow, bar.fib618, bar.fib786, bar.s1>>, target, p.entry, least, most)
           second == IF buy THEN far ELSE deep
           tp2 == IF S!Ahead(p.side, target, second) > 0 THEN second ELSE target
<1>1. /\ p.side \in {"BUY", "SELL"} /\ p.entry \in Int /\ p.atr \in Nat \ {0}
      /\ (buy => dir = 1) /\ (~buy => dir = -1)
  BY DEF Promising, S!ProposalType, S!Dir
<1>1a. dir \in {-1, 1} /\ -dir \in {-1, 1} /\ 1 \in {-1, 1}
  <2> HIDE DEF dir
  <2> QED
    BY <1>1
<1>2. config.srMin \in Nat /\ config.srMax \in 0 .. 50 /\ config.srBuffer \in Nat
  BY DEF ConfigType
<1>3. /\ bar.bbUp \in Int /\ bar.fib382 \in Int /\ bar.r1 \in Int /\ bar.ema20 \in Int /\ bar.bbLow \in Int
      /\ bar.fib618 \in Int /\ bar.fib786 \in Int /\ bar.s1 \in Int /\ bar.ema50 \in Int
  BY DEF MarketBar
<1>4. outer \subseteq Int /\ front \subseteq Int /\ behind \subseteq Int
  BY <1>3
<1>5. most \in 0 .. 5 * p.atr
  BY <1>1, <1>2, TenthsAreBounded
<1>6. least \in Int /\ S!Tenths(p.atr, config.srBuffer) \in Int
  <2>1. p.atr * config.srMin \in Int /\ p.atr * config.srBuffer \in Int
    BY <1>1, <1>2
  <2> QED
    BY <2>1 DEF S!Tenths
<1>7. S!AtLevels(p, bar, config) =
        IF level = 0 \/ target = 0 \/ S!Ahead(p.side, sl, p.entry) <= 0 \/ S!Dist(sl, p.entry) < least
        THEN p ELSE [p EXCEPT !.sl = sl, !.tp1 = target, !.tp2 = tp2]
  BY DEF S!AtLevels
<1> HIDE DEF least, most, outer, front, behind, dir
<1>7a. most \in Int
  BY <1>1, <1>5
<1>7b. /\ IsFit(level, behind, p.entry, -dir, most)
       /\ IsFit(target, front, p.entry, dir, most)
       /\ IsFit(far, outer, p.entry, 1, most)
  BY <1>1, <1>1a, <1>4, <1>6, <1>7a, ClosestIsLevel
<1> HIDE DEF level, target, far
<1>8. level = 0 \/ level \in Int
  BY <1>4, <1>7b DEF IsFit
<1>9. target = 0 \/ (target \in Int /\ target > 0 /\ dir * (target - p.entry) > 0 /\ S!Dist(target, p.entry) <= most)
  BY <1>4, <1>7b DEF IsFit
<1>10. far = 0 \/ (far \in Int /\ S!Dist(far, p.entry) <= most)
  BY <1>4, <1>7b DEF IsFit
<1> HIDE DEF level, target, far
<1>11. CASE level = 0 \/ target = 0 \/ S!Ahead(p.side, sl, p.entry) <= 0 \/ S!Dist(sl, p.entry) < least
  BY <1>7, <1>11
<1>12. CASE ~(level = 0 \/ target = 0 \/ S!Ahead(p.side, sl, p.entry) <= 0 \/ S!Dist(sl, p.entry) < least)
  <2>1. target \in Int /\ target > 0 /\ level \in Int /\ dir * (target - p.entry) > 0 /\ S!Dist(target, p.entry) <= most
    BY <1>8, <1>9, <1>12
  <2>2. deep = target \/ (deep \in Int /\ S!Dist(deep, p.entry) <= most)
    <3>1. least \in Int /\ most \in Int
      BY <1>5, <1>6
    <3> QED
      BY <1>1, <1>3, <2>1, <3>1, DeeperIsLevel
  <2> HIDE DEF deep
  <2>3. sl \in Int
    <3>1. S!Dir(p.side) \in Int
      BY <1>1a DEF dir
    <3> DEFINE b == S!Tenths(p.atr, config.srBuffer)
    <3> HIDE DEF b
    <3>2. sl = level - S!Dir(p.side) * b /\ b \in Int
      BY <1>6 DEF S!BufferedStop, b
    <3> QED
      BY <2>1, <3>1, <3>2
  <2> HIDE DEF sl
  <2>4. S!Ahead(p.side, p.entry, target) \in 1 .. 5 * p.atr
    <3>1. S!Dist(target, p.entry) >= target - p.entry /\ S!Dist(target, p.entry) >= p.entry - target
      BY <1>1, <2>1, DistIsNat
    <3>2. S!Ahead(p.side, p.entry, target) = dir * (target - p.entry)
      BY DEF S!Ahead, dir
    <3> DEFINE e == p.entry
               d == S!Dist(target, p.entry)
               a == 5 * p.atr
    <3>3. e \in Int /\ a \in Nat /\ most <= a /\ most \in Int
      BY <1>1, <1>5
    <3>3a. d \in Nat
      BY <1>1, <2>1, DistIsNat
    <3>4. d >= target - e /\ d >= e - target /\ d <= most /\ d \in Int /\ dir * (target - e) > 0
      BY <2>1, <3>1, <3>3a
    <3> HIDE DEF e, d, a
    <3>5. dir * (target - e) \in 1 .. a
      <4>1. CASE dir = 1
        BY <2>1, <3>3, <3>4, <4>1
      <4>2. CASE dir = -1
        BY <2>1, <3>3, <3>4, <4>2
      <4> QED
        BY <1>1a, <4>1, <4>2
    <3> QED
      BY <3>2, <3>5 DEF e, a
  <2>5. tp2 \in Int /\ S!Ahead(p.side, p.entry, tp2) <= 5 * p.atr
    <3>1. CASE tp2 = target
      BY <2>1, <2>4, <3>1
    <3>2. CASE tp2 # target
      <4>1. tp2 = second /\ second # target /\ S!Ahead(p.side, target, second) > 0
        BY <3>2
      <4>2. second \in Int
        BY <1>10, <2>2, <4>1
      <4>3. S!Dist(second, p.entry) <= most
        <5>1. CASE buy
          <6>1. far # 0
            BY <1>1, <2>1, <4>1, <5>1 DEF S!Ahead, S!Dir
          <6> QED
            BY <1>10, <5>1, <6>1
        <5>2. CASE ~buy
          BY <2>2, <4>1, <5>2
        <5> QED
          BY <5>1, <5>2
      <4> HIDE DEF second
      <4>4. S!Dist(second, p.entry) >= second - p.entry /\ S!Dist(second, p.entry) >= p.entry - second /\ S!Dist(second, p.entry) \in Nat
        BY <1>1, <4>2, DistIsNat
      <4>5. S!Ahead(p.side, p.entry, second) <= 5 * p.atr
        BY <1>1, <1>5, <4>2, <4>3, <4>4 DEF S!Ahead, S!Dir
      <4> QED
        BY <4>1, <4>2, <4>5
    <3> QED
      BY <3>1, <3>2
  <2> HIDE DEF tp2
  <2> DEFINE q == [p EXCEPT !.sl = sl, !.tp1 = target, !.tp2 = tp2]
  <2>6. Promising(q)
    BY <2>1, <2>3, <2>4, <2>5, StillPromising
  <2>7. q.side = p.side /\ q.entry = p.entry /\ q.atr = p.atr
    BY DEF Promising, S!ProposalType
  <2>8. S!AtLevels(p, bar, config) = q
    BY <1>7, <1>12
  <2> HIDE DEF q
  <2> QED
    BY <2>6, <2>7, <2>8
<1> QED
  BY <1>11, <1>12

\* A score made of a base and some conditions is at most ten.
LEMMA ScoreIsAtMostTen ==
  ASSUME NEW base \in Nat, NEW n \in Nat, NEW conditions, DOMAIN conditions = 1 .. n
  PROVE  S!Score(base, conditions) \in Int /\ S!Score(base, conditions) <= 10
<1> DEFINE held == {i \in DOMAIN conditions : conditions[i]}
<1>1. IsFiniteSet(held)
  <2>1. IsFiniteSet(1 .. n)
    BY FS_Interval
  <2> QED
    BY <2>1, FS_Subset
<1>2. Cardinality(held) \in Nat
  BY <1>1, FS_CardinalityType
<1>3. S!Cardinality(held) = Cardinality(held)
  BY DEF S!Cardinality, Cardinality
<1>4. S!Score(base, conditions) = S!AtMostTen(base + S!Cardinality(held))
  BY DEF S!Score
<1> HIDE DEF held
<1> QED
  BY <1>2, <1>3, <1>4 DEF S!AtMostTen

\* A point more or a few fewer leave a score at most ten.
LEMMA AtMostTenIsBounded ==
  ASSUME NEW n \in Int
  PROVE  S!AtMostTen(n) \in Int /\ S!AtMostTen(n) <= 10
BY DEF S!AtMostTen

\* A target lifted to the reward the stop asks for, which is at most four ATR away.
LEMMA LiftedIsReached ==
  ASSUME NEW side \in {"BUY", "SELL"}, NEW current \in Int, NEW sl \in Int, NEW tp \in Int,
         NEW bar \in MarketBar, NEW ratio \in 0 .. 125, NEW atr1 \in Nat \ {0},
         S!Ahead(side, sl, current) <= 4 * atr1
  PROVE  LET lifted == S!LiftedTarget(side, current, sl, tp, bar, ratio) IN
         lifted = 0 \/ (lifted \in Int /\ S!Ahead(side, tp, lifted) > 0 /\ S!Ahead(side, current, lifted) <= 5 * atr1)
<1> DEFINE risk == S!Ahead(side, sl, current)
           levels == IF side = "BUY" THEN {bar.ema20, bar.bbUp, bar.fib382, bar.r1}
                     ELSE {bar.ema20, bar.bbLow, bar.fib618, bar.fib786, bar.s1}
           ahead == {l \in levels : l > 0 /\ S!Ahead(side, current, l) > 0}
           least == (risk * ratio + (IF side = "BUY" THEN 50 ELSE 49)) \div 100
           gains == {least} \cup {S!Ahead(side, current, l) : l \in ahead}
           lifted == current + S!Dir(side) * S!Min(gains)
<1>1. S!LiftedTarget(side, current, sl, tp, bar, ratio) =
        IF /\ risk > 0 /\ sl > 0 /\ ahead # {} /\ S!Ahead(side, tp, lifted) > 0
           /\ 100 * S!Ahead(side, current, lifted) >= ratio * risk
        THEN lifted ELSE 0
  BY DEF S!LiftedTarget
<1>2. levels \subseteq Int
  BY DEF MarketBar
<1>3. risk \in Int /\ risk <= 4 * atr1
  BY DEF S!Ahead, S!Dir
<1>4. ahead \subseteq Int /\ \A l \in ahead : S!Ahead(side, current, l) \in Nat
  <2> HIDE DEF levels
  <2>1. ahead \subseteq Int
    BY <1>2
  <2>2. ASSUME NEW l \in ahead PROVE S!Ahead(side, current, l) \in Nat
    <3>1. S!Ahead(side, current, l) > 0
      OBVIOUS
    <3>2. l \in Int
      BY <2>1
    <3>3. S!Ahead(side, current, l) \in Int
      BY <3>2 DEF S!Ahead, S!Dir
    <3> QED
      BY <3>1, <3>3
  <2> QED
    BY <2>1, <2>2
<1> HIDE DEF risk, ahead, levels
<1>5. CASE risk > 0
  <2>1. risk * ratio \in Nat /\ risk * ratio <= 500 * atr1
    <3>1. risk * (125 - ratio) \in Nat
      BY <1>3, <1>5
    <3>2. risk * (125 - ratio) = 125 * risk - risk * ratio
      BY <1>3
    <3>3. risk * ratio \in Nat
      BY <1>3, <1>5
    <3> QED
      BY <1>3, <3>1, <3>2, <3>3
  <2>2. least \in Nat /\ least <= 5 * atr1
    <3> DEFINE m == risk * ratio
    <3>1. least = (m + (IF side = "BUY" THEN 50 ELSE 49)) \div 100
      OBVIOUS
    <3> HIDE DEF m, least
    <3>2. m \in Nat /\ m <= 500 * atr1
      BY <2>1 DEF m
    <3> QED
      BY <3>1, <3>2
  <2> HIDE DEF least
  <2>3. gains \subseteq Nat /\ gains # {} /\ least \in gains
    BY <1>4, <2>2
  <2> HIDE DEF gains
  <2>4. Min(gains) \in gains /\ \A g \in gains : Min(gains) <= g
    BY <2>3, LeastOfSome
  <2>5. S!Min(gains) = Min(gains)
    BY DEF S!Min, Min
  <2>6. S!Min(gains) \in Nat /\ S!Min(gains) <= 5 * atr1
    <3>1. Min(gains) \in Nat /\ Min(gains) <= least
      BY <2>3, <2>4
    <3> QED
      BY <2>2, <2>5, <3>1
  <2>7. lifted \in Int /\ S!Ahead(side, current, lifted) = S!Min(gains)
    <3> DEFINE m == S!Min(gains)
    <3>1. m \in Nat
      BY <2>6
    <3> HIDE DEF m
    <3>2. current + S!Dir(side) * m \in Int /\ S!Ahead(side, current, current + S!Dir(side) * m) = m
      BY <3>1 DEF S!Ahead, S!Dir
    <3> QED
      BY <3>2 DEF m
  <2> HIDE DEF lifted
  <2> QED
    BY <1>1, <2>6, <2>7
<1>6. CASE ~(risk > 0)
  BY <1>1, <1>6
<1> QED
  BY <1>5, <1>6

\* A target a step ahead of the price is that far ahead.
LEMMA StepIsAhead ==
  ASSUME NEW side \in {"BUY", "SELL"}, NEW current \in Int, NEW a \in Int
  PROVE  current + S!Dir(side) * a \in Int /\ S!Ahead(side, current, current + S!Dir(side) * a) = a
<1>1. CASE side = "BUY"
  BY <1>1 DEF S!Ahead, S!Dir
<1>2. CASE side = "SELL"
  BY <1>2 DEF S!Ahead, S!Dir
<1> QED
  BY <1>1, <1>2

\* A stop is somewhere.
LEMMA StopIsInt ==
  ASSUME NEW side \in {"BUY", "SELL"}, NEW from \in Int, NEW a \in Int
  PROVE  from - S!Dir(side) * a \in Int
BY DEF S!Dir

\* What a strategy proposes is promising: targets a step ahead, a score at most ten.
LEMMA ProposedIsPromising ==
  ASSUME NEW p \in S!ProposalType, p.score <= 10, NEW a \in 1 .. 5 * p.atr, NEW b \in 0 .. 5 * p.atr,
         p.tp1 = p.entry + S!Dir(p.side) * a, p.tp2 = p.entry + S!Dir(p.side) * b
  PROVE  Promising(p)
<1>1. p.side \in {"BUY", "SELL"} /\ p.entry \in Int /\ p.atr \in Nat
  BY DEF S!ProposalType
<1>2. a \in Int /\ b \in Int /\ b <= 5 * p.atr
  BY <1>1
<1> DEFINE side == p.side
           entry == p.entry
<1>3. S!Ahead(side, entry, p.tp1) = a /\ S!Ahead(side, entry, p.tp2) = b
  <2>1. /\ side \in {"BUY", "SELL"} /\ entry \in Int
        /\ p.tp1 = entry + S!Dir(side) * a /\ p.tp2 = entry + S!Dir(side) * b
    BY <1>1
  <2> HIDE DEF side, entry
  <2>2. CASE side = "BUY"
    BY <1>2, <2>1, <2>2 DEF S!Ahead, S!Dir
  <2>3. CASE side = "SELL"
    BY <1>2, <2>1, <2>3 DEF S!Ahead, S!Dir
  <2> QED
    BY <2>1, <2>2, <2>3
<1> QED
  BY <1>2, <1>3 DEF Promising

\* The last bar of a frame is a bar.
LEMMA LastIsBar ==
  ASSUME NEW tf \in FrameType, tf.bars # <<>>
  PROVE  S!LastBar(tf) \in MarketBar
<1>1. tf.bars \in Seq(MarketBar) /\ Len(tf.bars) \in Nat
  BY DEF FrameType
<1>2. Len(tf.bars) # 0
  BY <1>1
<1>3. Len(tf.bars) \in 1 .. Len(tf.bars)
  BY <1>1, <1>2
<1>4. S!LastBar(tf) = tf.bars[Len(tf.bars)]
  BY DEF S!LastBar, S!Last
<1> QED
  BY <1>1, <1>3, <1>4

\* A series of natural numbers has a bound.
LEMMA SeriesIsBounded ==
  ASSUME NEW n \in Nat, NEW f \in [1 .. n -> Nat]
  PROVE  \E most \in Nat : \A i \in 1 .. n : f[i] <= most
<1> DEFINE Bounded(k) == \E most \in Nat : \A i \in 1 .. k : f[i] <= most
           Unbounded == {k \in 0 .. n : ~Bounded(k)}
<1>1. CASE Unbounded = {}
  <2>1. n \in 0 .. n
    OBVIOUS
  <2> HIDE DEF Bounded
  <2>2. Bounded(n)
    BY <1>1, <2>1
  <2> QED
    BY <2>2 DEF Bounded
<1>2. CASE Unbounded # {}
  <2> DEFINE k == Min(Unbounded)
  <2>1. Unbounded \subseteq Nat
    OBVIOUS
  <2> HIDE DEF Unbounded
  <2>2. k \in Unbounded /\ \A j \in Unbounded : k <= j
    BY <1>2, <2>1, LeastOfSome
  <2> HIDE DEF k
  <2>3. k \in 0 .. n /\ ~Bounded(k)
    BY <2>2 DEF Unbounded
  <2>4. k # 0
    <3>1. Bounded(0)
      <4>1. \A i \in 1 .. 0 : f[i] <= 0
        OBVIOUS
      <4> QED
        BY <4>1
    <3> QED
      BY <2>3, <3>1
  <2>5. Bounded(k - 1)
    <3>1. k - 1 \in 0 .. n /\ ~(k <= k - 1)
      BY <2>3, <2>4
    <3>2. k - 1 \notin Unbounded
      BY <2>2, <3>1
    <3> QED
      BY <3>1, <3>2 DEF Unbounded
  <2>6. PICK most \in Nat : \A i \in 1 .. k - 1 : f[i] <= most
    BY <2>5
  <2>7. f[k] \in Nat
    BY <2>3, <2>4
  <2>8. most + f[k] \in Nat /\ \A i \in 1 .. k : f[i] <= most + f[k]
    <3>1. ASSUME NEW i \in 1 .. k PROVE f[i] <= most + f[k]
      <4>1. CASE i = k
        BY <2>7, <4>1
      <4>2. CASE i # k
        <5>1. i \in 1 .. k - 1 /\ i \in 1 .. n
          BY <2>3, <4>2
        <5>2. f[i] <= most /\ f[i] \in Nat
          BY <2>6, <5>1
        <5> QED
          BY <2>7, <5>2
      <4> QED
        BY <4>1, <4>2
    <3> QED
      BY <2>7, <3>1
  <2> QED
    BY <2>3, <2>8
<1> QED
  BY <1>1, <1>2

\* The greatest of bounded natural numbers is one of them.
LEMMA GreatestOfBounded ==
  ASSUME NEW most \in Nat, NEW Some, Some \subseteq Nat, Some # {}, \A x \in Some : x <= most
  PROVE  S!Max(Some) \in Some
<1> DEFINE above == {y \in 0 .. most : \A x \in Some : x <= y}
           k == Min(above)
<1>1. above \subseteq Nat /\ above # {}
  <2>1. most \in above
    OBVIOUS
  <2> QED
    BY <2>1
<1> HIDE DEF above
<1>2. k \in above /\ \A j \in above : k <= j
  BY <1>1, LeastOfSome
<1> HIDE DEF k
<1>3. k \in 0 .. most /\ \A x \in Some : x <= k
  BY <1>2 DEF above
<1>4. k \in Some
  <2> SUFFICES ASSUME k \notin Some PROVE FALSE
    OBVIOUS
  <2>1. PICK x \in Some : TRUE
    OBVIOUS
  <2>2. x \in Nat /\ x <= k /\ x # k
    BY <1>3
  <2>3. k - 1 \in 0 .. most /\ ~(k <= k - 1)
    BY <1>3, <2>2
  <2>4. \A z \in Some : z <= k - 1
    <3> SUFFICES ASSUME NEW z \in Some PROVE z <= k - 1
      OBVIOUS
    <3>1. z \in Nat /\ z <= k /\ z # k
      BY <1>3
    <3> QED
      BY <1>3, <3>1
  <2>5. k - 1 \in above
    BY <2>3, <2>4 DEF above
  <2> QED
    BY <1>2, <2>3, <2>5
<1>5. \A x \in Some : k >= x
  <2> SUFFICES ASSUME NEW x \in Some PROVE k >= x
    OBVIOUS
  <2>1. x \in Nat /\ x <= k
    BY <1>3
  <2> QED
    BY <1>3, <2>1
<1> QED
  BY <1>4, <1>5 DEF S!Max

\* The extremes of some values of a series are natural numbers.
LEMMA ExtremesAreNat ==
  ASSUME NEW n \in Nat, NEW f \in [1 .. n -> Nat], NEW window, window \subseteq 1 .. n, window # {}
  PROVE  S!Max({f[i] : i \in window}) \in Nat /\ S!Min({f[i] : i \in window}) \in Nat
<1> DEFINE values == {f[i] : i \in window}
<1>1. values \subseteq Nat /\ values # {}
  OBVIOUS
<1>2. PICK most \in Nat : \A i \in 1 .. n : f[i] <= most
  BY SeriesIsBounded
<1>3. \A x \in values : x <= most
  BY <1>2
<1> HIDE DEF values
<1>4. S!Max(values) \in values
  BY <1>1, <1>3, GreatestOfBounded
<1>5. S!Min(values) = Min(values)
  BY DEF S!Min, Min
<1>6. Min(values) \in values
  BY <1>1, LeastOfSome
<1>7. S!Max(values) \in Nat /\ S!Min(values) \in Nat
  BY <1>1, <1>4, <1>5, <1>6
<1> QED
  BY <1>7 DEF values

\* What a question about a signal is made of.
LEMMA SignalIsTyped ==
  ASSUME NEW q \in Signalled
  PROVE  /\ q.in \in MarketInput /\ q.config \in ConfigType
         /\ \A tf \in {q.in.h1, q.in.h4, q.in.m30, q.in.m15} :
              tf \in FrameType /\ (tf.len > 0 => tf.bars # <<>> /\ S!LastBar(tf) \in MarketBar)
<1>1. q \in [in : MarketInput, config : ConfigType, soft : BOOLEAN]
  BY SignalAssumption
<1>2. q.in \in MarketInput /\ q.config \in ConfigType
  BY <1>1
<1>3. q.in.h1 \in FrameType /\ q.in.h4 \in FrameType /\ q.in.m30 \in FrameType /\ q.in.m15 \in FrameType
  BY <1>2 DEF MarketInput
<1>4. ASSUME NEW tf \in {q.in.h1, q.in.h4, q.in.m30, q.in.m15}
      PROVE  tf \in FrameType /\ (tf.len > 0 => tf.bars # <<>> /\ S!LastBar(tf) \in MarketBar)
  <2>1. tf \in FrameType
    BY <1>3, <1>4
  <2>2. tf.len > 0 => tf.bars # <<>>
    BY SignalAssumption, <1>4
  <2> QED
    BY <2>1, <2>2, LastIsBar
<1> QED
  BY <1>2, <1>4

\* The trades a strategy may propose on a market.
Offers(offered) == \A p \in offered : Promising(p)

\* A distance of tenths of the ATR is a target from ten tenths on.
LEMMA TargetIsStep ==
  ASSUME NEW atr1 \in Nat \ {0}, NEW n \in 10 .. 50
  PROVE  S!Tenths(atr1, n) \in 1 .. 5 * atr1
<1>1. n \in 0 .. 50 /\ n >= 10
  OBVIOUS
<1>2. S!Tenths(atr1, n) \in 0 .. 5 * atr1 /\ S!Tenths(atr1, n) >= 1
  BY <1>1, TenthsAreBounded
<1> QED
  BY <1>2

\* Any number of tenths of the ATR is a distance.
LEMMA TenthsAreNat ==
  ASSUME NEW atr1 \in Nat, NEW n \in Nat
  PROVE  S!Tenths(atr1, n) \in Nat
<1>1. atr1 * n \in Nat
  OBVIOUS
<1> QED
  BY <1>1 DEF S!Tenths

\* The stop of the retracement, if the gate names one, is at most four ATR from the price.
LEMMA FibStopIsNear ==
  ASSUME NEW side \in {"BUY", "SELL"}, NEW bar \in MarketBar, bar.atr > 0, NEW h4, NEW current \in Int,
         NEW config \in ConfigType
  PROVE  LET gate == S!FibGate(side, bar, h4, current, config) IN
         /\ gate.sl \in Int
         /\ gate.sl # 0 => S!Ahead(side, gate.sl, current) <= 4 * bar.atr
<1> DEFINE gate == S!FibGate(side, bar, h4, current, config)
           sl == bar.fib786 - S!Dir(side) * S!Tenths(bar.atr, 5)
           far == S!Tenths(bar.atr, config.fibMaxStop)
<1>1. bar.atr \in Nat \ {0} /\ bar.fib786 \in Int /\ config.fibMaxStop \in 0 .. 40
  BY DEF MarketBar, ConfigType
<1>2. far \in Int /\ far <= 4 * bar.atr
  <2> DEFINE a == bar.atr
             n == config.fibMaxStop
  <2>1. a \in Nat \ {0} /\ n \in 0 .. 50 /\ n <= 40
    BY <1>1
  <2> HIDE DEF a, n
  <2>2. S!Tenths(a, n) \in 0 .. 5 * a /\ S!Tenths(a, n) <= 4 * a
    BY <2>1, TenthsAreBounded
  <2> QED
    BY <2>1, <2>2 DEF a, n
<1>3. S!Tenths(bar.atr, 5) \in Int
  <2> DEFINE a == bar.atr
  <2>1. a \in Nat
    BY <1>1
  <2> HIDE DEF a
  <2>2. S!Tenths(a, 5) \in Nat
    BY <2>1, TenthsAreNat
  <2> QED
    BY <2>2 DEF a
<1>4. gate.sl = 0 \/ (gate.sl = sl /\ ~(S!Dist(current, sl) > far))
  BY DEF S!FibGate
<1> HIDE DEF gate, far
<1>5. sl \in Int
  BY <1>1, <1>3, StopIsInt
<1> HIDE DEF sl
<1>6. S!Dist(current, sl) \in Nat /\ S!Dist(current, sl) >= current - sl /\ S!Dist(current, sl) >= sl - current
  BY <1>5, DistIsNat
<1>7. S!Ahead(side, sl, current) <= S!Dist(current, sl)
  BY <1>5, <1>6 DEF S!Ahead, S!Dir
<1>8. S!Ahead(side, sl, current) \in Int
  BY <1>5 DEF S!Ahead, S!Dir
<1>9. gate.sl \in Int /\ (gate.sl # 0 => S!Ahead(side, gate.sl, current) <= 4 * bar.atr)
  BY <1>1, <1>2, <1>4, <1>5, <1>6, <1>7, <1>8
<1> QED
  BY <1>9 DEF gate

\* One point more leaves a proposal promising.
LEMMA ScoredIsPromising ==
  ASSUME NEW p, Promising(p)
  PROVE  Promising([p EXCEPT !.score = S!AtMostTen(@ + 1)])
<1> DEFINE n == S!AtMostTen(p.score + 1)
           q == [p EXCEPT !.score = n]
<1>1. p.score \in Int /\ p \in S!ProposalType
  BY DEF Promising, S!ProposalType
<1>2. n \in Int /\ n <= 10
  <2>1. p.score + 1 \in Int
    BY <1>1
  <2> QED
    BY <2>1, AtMostTenIsBounded
<1> HIDE DEF n
<1>3. /\ q \in S!ProposalType /\ q.score = n
      /\ q.side = p.side /\ q.entry = p.entry /\ q.atr = p.atr /\ q.tp1 = p.tp1 /\ q.tp2 = p.tp2
  BY <1>1, <1>2 DEF S!ProposalType
<1> HIDE DEF q
<1>4. Promising(q)
  BY <1>2, <1>3 DEF Promising
<1> QED
  BY <1>4 DEF q, n

\* Another stop leaves a proposal promising.
LEMMA RestoppedIsPromising ==
  ASSUME NEW p, Promising(p), NEW sl \in Int
  PROVE  Promising([p EXCEPT !.sl = sl])
<1> DEFINE q == [p EXCEPT !.sl = sl]
<1>1. p \in S!ProposalType
  BY DEF Promising
<1>2. /\ q \in S!ProposalType /\ q.score = p.score
      /\ q.side = p.side /\ q.entry = p.entry /\ q.atr = p.atr /\ q.tp1 = p.tp1 /\ q.tp2 = p.tp2
  BY <1>1 DEF S!ProposalType
<1> HIDE DEF q
<1>3. Promising(q)
  BY <1>2 DEF Promising
<1> QED
  BY <1>3 DEF q

\* The retracement rejects a proposal or leaves it promising.
LEMMA FibKeepsPromising ==
  ASSUME NEW p, Promising(p), NEW gate, gate.sl \in Int,
         gate.sl # 0 => S!Ahead(p.side, gate.sl, p.entry) <= 4 * p.atr,
         NEW bar \in MarketBar, NEW config \in ConfigType
  PROVE  Offers(S!WithFib(p, gate, bar, config))
<1> DEFINE lifted == S!LiftedTarget(p.side, p.entry, gate.sl, p.tp1, bar, config.fibMinRR)
           scored == [p EXCEPT !.score = S!AtMostTen(@ + 1)]
           stopped == [scored EXCEPT !.sl = gate.sl]
           tp2 == IF S!Ahead(p.side, p.tp2, lifted) > 0 THEN lifted ELSE p.tp2
           raised == [scored EXCEPT !.sl = gate.sl, !.tp1 = lifted, !.tp2 = tp2]
<1>1. Promising(scored)
  BY ScoredIsPromising
<1>2. /\ p.side \in {"BUY", "SELL"} /\ p.entry \in Int /\ p.atr \in Nat \ {0} /\ p.tp1 \in Int /\ p.tp2 \in Int
      /\ scored.side = p.side /\ scored.entry = p.entry /\ scored.atr = p.atr /\ scored.tp2 = p.tp2
  BY DEF Promising, S!ProposalType
<1>3. config.fibMinRR \in 0 .. 125
  BY DEF ConfigType
<1>4. S!WithFib(p, gate, bar, config) \subseteq {p, scored, stopped} \/
      (lifted # 0 /\ ~(gate.sl <= 0) /\ S!WithFib(p, gate, bar, config) = {raised})
  BY <1>2 DEF S!WithFib
<1> HIDE DEF scored, lifted
<1>5. Promising(stopped)
  BY <1>1, RestoppedIsPromising
<1>6. ASSUME lifted # 0, ~(gate.sl <= 0) PROVE Promising(raised)
  <2>1. S!Ahead(p.side, gate.sl, p.entry) <= 4 * p.atr
    BY <1>6
  <2>2. lifted \in Int /\ S!Ahead(p.side, p.tp1, lifted) > 0 /\ S!Ahead(p.side, p.entry, lifted) <= 5 * p.atr
    BY <1>2, <1>3, <1>6, <2>1, LiftedIsReached DEF lifted
  <2>3. S!Ahead(p.side, p.entry, p.tp1) \in 1 .. 5 * p.atr /\ S!Ahead(p.side, p.entry, p.tp2) <= 5 * p.atr
    BY DEF Promising
  <2>4. S!Ahead(p.side, p.entry, lifted) \in 1 .. 5 * p.atr
    <3>1. S!Ahead(p.side, p.entry, lifted) = S!Ahead(p.side, p.entry, p.tp1) + S!Ahead(p.side, p.tp1, lifted)
      BY <1>2, <2>2 DEF S!Ahead, S!Dir
    <3>2. S!Ahead(p.side, p.tp1, lifted) \in Int
      BY <1>2, <2>2 DEF S!Ahead, S!Dir
    <3> DEFINE x == S!Ahead(p.side, p.entry, lifted)
               y == S!Ahead(p.side, p.entry, p.tp1)
               z == S!Ahead(p.side, p.tp1, lifted)
    <3>3. x = y + z /\ z \in Int /\ z > 0 /\ y \in 1 .. 5 * p.atr /\ x <= 5 * p.atr
      BY <2>2, <2>3, <3>1, <3>2
    <3> HIDE DEF x, y, z
    <3>4. x \in 1 .. 5 * p.atr
      BY <1>2, <3>3
    <3> QED
      BY <3>4 DEF x
  <2>5. tp2 \in Int /\ S!Ahead(p.side, p.entry, tp2) <= 5 * p.atr
    BY <1>2, <2>2, <2>3
  <2> HIDE DEF tp2
  <2>6. S!Ahead(scored.side, scored.entry, lifted) \in 1 .. 5 * scored.atr
        /\ S!Ahead(scored.side, scored.entry, tp2) <= 5 * scored.atr
    BY <1>2, <2>4, <2>5
  <2> QED
    BY <1>1, <2>2, <2>5, <2>6, StillPromising
<1> HIDE DEF stopped, raised
<1> QED
  BY <1>1, <1>4, <1>5, <1>6 DEF Offers

\* Pullbacks to the average are promising.
LEMMA PullbackIsPromising ==
  ASSUME NEW q \in Signalled
  PROVE  Offers(S!Pullback(q.in, q.config))
<1> DEFINE in == q.in
           config == q.config
           c == config.pullback
           bar == S!LastBar(in.h1)
           near == S!NearEma20(in.h1, S!Tenths(bar.atr, c.dist))
           side == IF bar.ema20 > bar.ema50 THEN "BUY" ELSE "SELL"
           sl == in.price - S!Dir(side) * S!Tenths(bar.atr, c.sl)
           a == S!Tenths(bar.atr, c.tp1)
           b == S!Tenths(bar.atr, c.tp2)
           score == S!PullbackScore(side, bar, near, config)
           first == S!Proposal("pullback", side, in.price, bar.atr, sl, in.price + S!Dir(side) * a,
                               in.price + S!Dir(side) * b, score)
           p == S!AtLevels(first, bar, config)
           gate == S!FibGate(side, bar, in.h4, in.price, config)
<1>1. S!Pullback(in, config) = {} \/
      (in.h1.len >= 50 /\ bar.atr > 0 /\ S!Pullback(in, config) = S!WithFib(p, gate, bar, config))
  BY DEF S!Pullback
<1>2. CASE S!Pullback(in, config) = {}
  BY <1>2 DEF Offers
<1>3. CASE S!Pullback(in, config) # {}
  <2>1. in.h1.len >= 50 /\ bar.atr > 0 /\ S!Pullback(in, config) = S!WithFib(p, gate, bar, config)
    BY <1>1, <1>3
  <2>2. in \in MarketInput /\ config \in ConfigType /\ in.h1 \in FrameType /\ (in.h1.len > 0 => bar \in MarketBar)
    BY SignalIsTyped
  <2> HIDE DEF in, config, bar, near, first, p, gate
  <2>3. bar \in MarketBar
    <3>1. in.h1.len \in Nat
      BY <2>2 DEF FrameType
    <3> QED
      BY <2>1, <2>2, <3>1
  <2>4. in.price \in Int
    BY <2>2 DEF MarketInput
  <2>5. bar.atr \in Nat \ {0}
    BY <2>1, <2>3 DEF MarketBar
  <2>6. c.sl \in Nat /\ c.tp1 \in 10 .. 50 /\ c.tp2 \in 0 .. 50
    BY <2>2 DEF ConfigType, PullbackConfig
  <2>7. side \in {"BUY", "SELL"}
    OBVIOUS
  <2>8. score \in Int /\ score <= 10
    <3> DEFINE conditions == <<S!Dir(side) * bar.macd > 0, S!Dir(side) * (50 - bar.rsi) > 0,
                               bar.adx > config.pullback.adxBonus, near>>
    <3>1. score = S!Score(5, conditions)
      BY DEF S!PullbackScore
    <3>2. DOMAIN conditions = 1 .. 4
      OBVIOUS
    <3> HIDE DEF conditions, side, score
    <3> QED
      BY <3>1, <3>2, ScoreIsAtMostTen
  <2> HIDE DEF c, side, score
  <2>9. a \in 1 .. 5 * bar.atr
    BY <2>5, <2>6, TargetIsStep
  <2>10. b \in 0 .. 5 * bar.atr
    BY <2>5, <2>6, TenthsAreBounded
  <2>11. sl \in Int
    <3> DEFINE d == S!Tenths(bar.atr, c.sl)
    <3>1. d \in Int
      <4> DEFINE x == bar.atr
                 y == c.sl
      <4>1. x \in Nat /\ y \in Nat
        BY <2>5, <2>6
      <4> HIDE DEF x, y
      <4>2. S!Tenths(x, y) \in Nat
        BY <4>1, TenthsAreNat
      <4> QED
        BY <4>2 DEF x, y
    <3> HIDE DEF d
    <3>2. in.price - S!Dir(side) * d \in Int
      BY <2>4, <2>7, <3>1, StopIsInt
    <3> QED
      BY <3>2 DEF d
  <2> HIDE DEF a, b, sl
  <2>12. Promising(p) /\ p.side = side /\ p.entry = in.price /\ p.atr = bar.atr
    <3>1. /\ first \in S!ProposalType
          /\ first.side = side /\ first.entry = in.price /\ first.atr = bar.atr /\ first.score = score
          /\ first.tp1 = in.price + S!Dir(side) * a /\ first.tp2 = in.price + S!Dir(side) * b
      <4>1. in.price + S!Dir(side) * a \in Int /\ in.price + S!Dir(side) * b \in Int
        BY <2>4, <2>7, <2>9, <2>10 DEF S!Dir
      <4> QED
        BY <2>4, <2>5, <2>7, <2>8, <2>11, <4>1 DEF first, S!Proposal, S!ProposalType
    <3>2. Promising(first)
      BY <2>8, <2>9, <2>10, <3>1, ProposedIsPromising
    <3>3. Promising(p) /\ p.side = first.side /\ p.entry = first.entry /\ p.atr = first.atr
      BY <2>2, <2>3, <3>2, LevelsArePromising DEF p
    <3> QED
      BY <3>1, <3>3
  <2>13. gate.sl \in Int /\ (gate.sl # 0 => S!Ahead(side, gate.sl, in.price) <= 4 * bar.atr)
    BY <2>1, <2>2, <2>3, <2>4, <2>7, FibStopIsNear DEF gate
  <2>14. Offers(S!WithFib(p, gate, bar, config))
    BY <2>2, <2>3, <2>12, <2>13, FibKeepsPromising
  <2> QED
    BY <2>1, <2>14 DEF in, config
<1> QED
  BY <1>2, <1>3

\* Breakouts that are retested are promising.
LEMMA RetestIsPromising ==
  ASSUME NEW q \in Signalled
  PROVE  Offers(S!BreakoutRetest(q.in, q.config))
<1> DEFINE in == q.in
           config == q.config
           c == config.retest
           bar == S!LastBar(in.h1)
           r == S!BrokenRange(in.h1, config)
           n == Len(in.h1.bars)
           a == S!Tenths(bar.atr, c.tp1)
           b == S!Tenths(bar.atr, c.tp2)
           d == S!Tenths(bar.atr, c.sl)
           made(side, level, touches) ==
             S!AtLevels(S!Proposal("breakout_retest", side, in.price, bar.atr, level - S!Dir(side) * d,
                                   in.price + S!Dir(side) * a, in.price + S!Dir(side) * b,
                                   S!RetestScore(side, bar, touches)), bar, config)
<1>1. S!BreakoutRetest(in, config) = {} \/
      (~(in.h1.len < c.lookback + 5) /\ ~(bar.atr <= 0) /\
       \E touches : S!BreakoutRetest(in, config) \in
          {{made("BUY", r.resistance, touches)}, {made("SELL", r.support, touches)}})
  BY DEF S!BreakoutRetest, S!BreakoutRetestSignal
<1>2. CASE S!BreakoutRetest(in, config) = {}
  BY <1>2 DEF Offers
<1>3. CASE S!BreakoutRetest(in, config) # {}
  <2>1. PICK touches : S!BreakoutRetest(in, config) \in
          {{made("BUY", r.resistance, touches)}, {made("SELL", r.support, touches)}}
    BY <1>1, <1>3
  <2>2. ~(in.h1.len < c.lookback + 5) /\ ~(bar.atr <= 0)
    BY <1>1, <1>3
  <2>3. in \in MarketInput /\ config \in ConfigType /\ in.h1 \in FrameType /\ (in.h1.len > 0 => bar \in MarketBar)
    BY SignalIsTyped
  <2>4. in.h1.len >= c.lookback + 5 => n >= c.lookback + 5
    BY SignalAssumption
  <2> HIDE DEF in, config, bar, made
  <2>5. /\ c.lookback \in Nat \ {0} /\ c.sl \in Nat /\ c.tp1 \in 10 .. 50 /\ c.tp2 \in 0 .. 50
        /\ config.retest.lookback = c.lookback
    BY <2>3 DEF ConfigType, RetestConfig
  <2> HIDE DEF c
  <2>6. in.h1.len \in Nat /\ in.h1.bars \in Seq(MarketBar) /\ n \in Nat
    BY <2>3 DEF FrameType
  <2>7. bar \in MarketBar /\ n >= c.lookback + 5
    BY <2>2, <2>3, <2>4, <2>5, <2>6
  <2>8. in.price \in Int /\ bar.atr \in Nat \ {0}
    <3>1. in.price \in Int
      BY <2>3 DEF MarketInput
    <3>2. bar.atr \in Int
      BY <2>7 DEF MarketBar
    <3> QED
      BY <2>2, <3>1, <3>2
  <2>9. r.resistance \in Int /\ r.support \in Int
    <3> DEFINE before == {i \in 1 .. n - 5 : i > n - 5 - c.lookback}
               highs == [i \in 1 .. n |-> in.h1.bars[i].high]
               lows == [i \in 1 .. n |-> in.h1.bars[i].low]
    <3>1. r.resistance = S!Max({in.h1.bars[i].high : i \in before})
      BY <2>5 DEF S!BrokenRange
    <3>2. r.support = S!Min({in.h1.bars[i].low : i \in before})
      BY <2>5 DEF S!BrokenRange
    <3> HIDE DEF r
    <3>3. \A i \in 1 .. n : in.h1.bars[i].high \in Nat /\ in.h1.bars[i].low \in Nat
      <4> SUFFICES ASSUME NEW i \in 1 .. n PROVE in.h1.bars[i].high \in Nat /\ in.h1.bars[i].low \in Nat
        OBVIOUS
      <4>1. in.h1.bars[i] \in MarketBar
        BY <2>6
      <4> QED
        BY <4>1 DEF MarketBar
    <3> HIDE DEF n
    <3>4. before \subseteq 1 .. n /\ before # {}
      <4>1. n - 5 \in 1 .. n - 5 /\ n - 5 > n - 5 - c.lookback
        BY <2>5, <2>6, <2>7
      <4>2. n - 5 \in before
        BY <4>1
      <4>3. before \subseteq 1 .. n
        BY <2>6
      <4> QED
        BY <4>2, <4>3
    <3> HIDE DEF before
    <3>5. highs \in [1 .. n -> Nat] /\ lows \in [1 .. n -> Nat]
      BY <3>3
    <3>6. {in.h1.bars[i].high : i \in before} = {highs[i] : i \in before}
      BY <3>4
    <3>7. {in.h1.bars[i].low : i \in before} = {lows[i] : i \in before}
      BY <3>4
    <3> HIDE DEF highs, lows
    <3>8. S!Max({highs[i] : i \in before}) \in Nat /\ S!Min({lows[i] : i \in before}) \in Nat
      BY <2>6, <3>4, <3>5, ExtremesAreNat
    <3>9. S!Max({highs[i] : i \in before}) \in Int /\ S!Min({lows[i] : i \in before}) \in Int
      BY <3>8
    <3> QED
      BY <3>1, <3>2, <3>6, <3>7, <3>9
  <2> HIDE DEF r
  <2>10. a \in 1 .. 5 * bar.atr /\ b \in 0 .. 5 * bar.atr /\ d \in Int
    <3>1. a \in 1 .. 5 * bar.atr
      BY <2>5, <2>8, TargetIsStep
    <3>2. b \in 0 .. 5 * bar.atr
      BY <2>5, <2>8, TenthsAreBounded
    <3>3. d \in Nat
      BY <2>5, <2>8, TenthsAreNat
    <3> QED
      BY <3>1, <3>2, <3>3
  <2> HIDE DEF a, b, d
  <2>11. ASSUME NEW side \in {"BUY", "SELL"}, NEW level \in Int
         PROVE  Promising(made(side, level, touches))
    <3> DEFINE score == S!RetestScore(side, bar, touches)
               sl == level - S!Dir(side) * d
               conditions == <<bar.volume = "high", S!Dir(side) * bar.macd > 0, bar.adx > 20,
                               S!Dir(side) * (bar.rsi - 50) > 0, side = "BUY" /\ touches >= 2>>
    <3>1. score = S!Score(5, conditions) /\ DOMAIN conditions = 1 .. 5
      BY DEF S!RetestScore
    <3> HIDE DEF score, conditions
    <3>2. score \in Int /\ score <= 10
      BY <3>1, ScoreIsAtMostTen
    <3>3. sl \in Int
      BY <2>10, StopIsInt
    <3> HIDE DEF sl
    <3> DEFINE first == S!Proposal("breakout_retest", side, in.price, bar.atr, sl,
                                   in.price + S!Dir(side) * a, in.price + S!Dir(side) * b, score)
    <3>4. made(side, level, touches) = S!AtLevels(first, bar, config)
      BY DEF made, score, sl
    <3>5. /\ first \in S!ProposalType
          /\ first.side = side /\ first.entry = in.price /\ first.atr = bar.atr /\ first.score = score
          /\ first.tp1 = in.price + S!Dir(side) * a /\ first.tp2 = in.price + S!Dir(side) * b
      <4>1. in.price + S!Dir(side) * a \in Int /\ in.price + S!Dir(side) * b \in Int
        BY <2>8, <2>10 DEF S!Dir
      <4> QED
        BY <2>8, <3>2, <3>3, <4>1 DEF S!Proposal, S!ProposalType
    <3> HIDE DEF first
    <3>6. Promising(first)
      BY <2>10, <3>2, <3>5, ProposedIsPromising
    <3>7. Promising(S!AtLevels(first, bar, config))
      BY <2>3, <2>7, <3>6, LevelsArePromising
    <3> QED
      BY <3>4, <3>7
  <2>12. Promising(made("BUY", r.resistance, touches)) /\ Promising(made("SELL", r.support, touches))
    BY <2>9, <2>11
  <2>13. Offers(S!BreakoutRetest(in, config))
    BY <2>1, <2>12 DEF Offers
  <2> QED
    BY <2>13 DEF in, config
<1> QED
  BY <1>2, <1>3

\* Divergences are promising.
LEMMA DivergenceIsPromising ==
  ASSUME NEW q \in Signalled
  PROVE  Offers(S!Divergence(q.in, q.config))
<1> DEFINE in == q.in
           config == q.config
           c == config.divergence
           bar == S!LastBar(in.h1)
           x == S!Extremes(in.h1, config)
           n == Len(in.h1.bars)
           a == S!Tenths(bar.atr, c.tp1)
           b == S!Tenths(bar.atr, c.tp2)
           d == S!Tenths(bar.atr, c.sl)
           made(side, level) ==
             S!AtLevels(S!Proposal("divergence", side, in.price, bar.atr, level - S!Dir(side) * d,
                                   in.price + S!Dir(side) * a, in.price + S!Dir(side) * b,
                                   S!DivergenceScore(side, in.h1, x)), bar, config)
<1>1. S!Divergence(in, config) = {} \/
      (~(in.h1.len < c.recent + c.previous) /\ ~(bar.atr <= 0) /\
       S!Divergence(in, config) \in {{made("BUY", x.low)}, {made("SELL", x.high)}})
  BY DEF S!Divergence, S!DivergenceSignal
<1>2. CASE S!Divergence(in, config) = {}
  BY <1>2 DEF Offers
<1>3. CASE S!Divergence(in, config) # {}
  <2>1. S!Divergence(in, config) \in {{made("BUY", x.low)}, {made("SELL", x.high)}}
    BY <1>1, <1>3
  <2>2. ~(in.h1.len < c.recent + c.previous) /\ ~(bar.atr <= 0)
    BY <1>1, <1>3
  <2>3. in \in MarketInput /\ config \in ConfigType /\ in.h1 \in FrameType /\ (in.h1.len > 0 => bar \in MarketBar)
    BY SignalIsTyped
  <2>4. in.h1.len >= c.recent + c.previous => n >= c.recent + c.previous
    BY SignalAssumption
  <2> HIDE DEF in, config, bar, made
  <2>5. /\ c.recent \in Nat \ {0} /\ c.previous \in Nat
        /\ c.sl \in Nat /\ c.tp1 \in 10 .. 50 /\ c.tp2 \in 0 .. 50
        /\ config.divergence.recent = c.recent
    BY <2>3 DEF ConfigType, DivergenceConfig
  <2> HIDE DEF c
  <2>6. in.h1.len \in Nat /\ in.h1.bars \in Seq(MarketBar) /\ n \in Nat
    BY <2>3 DEF FrameType
  <2>7. bar \in MarketBar /\ n >= c.recent
    BY <2>2, <2>3, <2>4, <2>5, <2>6
  <2>8. in.price \in Int /\ bar.atr \in Nat \ {0}
    <3>1. in.price \in Int
      BY <2>3 DEF MarketInput
    <3>2. bar.atr \in Int
      BY <2>7 DEF MarketBar
    <3> QED
      BY <2>2, <3>1, <3>2
  <2>9. x.low \in Int /\ x.high \in Int
    <3> DEFINE recent == {i \in 1 .. n : i > n - c.recent}
               closes == [i \in 1 .. n |-> in.h1.bars[i].close]
    <3>1. x.low = S!Min({in.h1.bars[i].close : i \in recent})
      BY <2>5 DEF S!Extremes
    <3>2. x.high = S!Max({in.h1.bars[i].close : i \in recent})
      BY <2>5 DEF S!Extremes
    <3> HIDE DEF x
    <3>3. \A i \in 1 .. n : in.h1.bars[i].close \in Nat
      <4> SUFFICES ASSUME NEW i \in 1 .. n PROVE in.h1.bars[i].close \in Nat
        OBVIOUS
      <4>1. in.h1.bars[i] \in MarketBar
        BY <2>6
      <4> QED
        BY <4>1 DEF MarketBar
    <3> HIDE DEF n
    <3>4. recent \subseteq 1 .. n /\ recent # {}
      <4>1. n \in 1 .. n /\ n > n - c.recent
        BY <2>5, <2>6, <2>7
      <4>2. n \in recent
        BY <4>1
      <4> QED
        BY <4>2
    <3> HIDE DEF recent
    <3>5. closes \in [1 .. n -> Nat]
      BY <3>3
    <3>6. {in.h1.bars[i].close : i \in recent} = {closes[i] : i \in recent}
      BY <3>4
    <3> HIDE DEF closes
    <3>7. S!Max({closes[i] : i \in recent}) \in Nat /\ S!Min({closes[i] : i \in recent}) \in Nat
      BY <2>6, <3>4, <3>5, ExtremesAreNat
    <3>8. S!Max({closes[i] : i \in recent}) \in Int /\ S!Min({closes[i] : i \in recent}) \in Int
      BY <3>7
    <3> QED
      BY <3>1, <3>2, <3>6, <3>8
  <2> HIDE DEF x
  <2>10. a \in 1 .. 5 * bar.atr /\ b \in 0 .. 5 * bar.atr /\ d \in Int
    <3>1. a \in 1 .. 5 * bar.atr
      BY <2>5, <2>8, TargetIsStep
    <3>2. b \in 0 .. 5 * bar.atr
      BY <2>5, <2>8, TenthsAreBounded
    <3>3. d \in Nat
      BY <2>5, <2>8, TenthsAreNat
    <3> QED
      BY <3>1, <3>2, <3>3
  <2> HIDE DEF a, b, d
  <2>11. ASSUME NEW side \in {"BUY", "SELL"}, NEW level \in Int
         PROVE  Promising(made(side, level))
    <3> DEFINE score == S!DivergenceScore(side, in.h1, x)
               sl == level - S!Dir(side) * d
               last == S!LastBar(in.h1)
               before == in.h1.bars[Len(in.h1.bars) - 1]
               conditions == <<\/ side = "BUY" /\ x.macdLow > x.macdLowBefore
                               \/ side = "SELL" /\ x.macdHigh < x.macdHighBefore
                               \/ S!Dir(side) * (last.macd - before.macd) > 0,
                               last.volume = "low",
                               IF side = "BUY" THEN last.stoch < 20 ELSE last.stoch > 80>>
    <3>1. score = S!Score(6, conditions) /\ DOMAIN conditions = 1 .. 3
      BY DEF S!DivergenceScore
    <3> HIDE DEF score, conditions
    <3>2. score \in Int /\ score <= 10
      BY <3>1, ScoreIsAtMostTen
    <3>3. sl \in Int
      BY <2>10, StopIsInt
    <3> HIDE DEF sl
    <3> DEFINE first == S!Proposal("divergence", side, in.price, bar.atr, sl,
                                   in.price + S!Dir(side) * a, in.price + S!Dir(side) * b, score)
    <3>4. made(side, level) = S!AtLevels(first, bar, config)
      BY DEF made, score, sl
    <3>5. /\ first \in S!ProposalType
          /\ first.side = side /\ first.entry = in.price /\ first.atr = bar.atr /\ first.score = score
          /\ first.tp1 = in.price + S!Dir(side) * a /\ first.tp2 = in.price + S!Dir(side) * b
      <4>1. in.price + S!Dir(side) * a \in Int /\ in.price + S!Dir(side) * b \in Int
        BY <2>8, <2>10 DEF S!Dir
      <4> QED
        BY <2>8, <3>2, <3>3, <4>1 DEF S!Proposal, S!ProposalType
    <3> HIDE DEF first
    <3>6. Promising(first)
      BY <2>10, <3>2, <3>5, ProposedIsPromising
    <3>7. Promising(S!AtLevels(first, bar, config))
      BY <2>3, <2>7, <3>6, LevelsArePromising
    <3> QED
      BY <3>4, <3>7
  <2>12. Promising(made("BUY", x.low)) /\ Promising(made("SELL", x.high))
    BY <2>9, <2>11
  <2>13. Offers(S!Divergence(in, config))
    BY <2>1, <2>12 DEF Offers
  <2> QED
    BY <2>13 DEF in, config
<1> QED
  BY <1>2, <1>3

\* Pullbacks against the trend are promising.
LEMMA CounterIsPromising ==
  ASSUME NEW q \in Signalled
  PROVE  Offers(S!CounterPullback(q.in, q.config))
<1> DEFINE in == q.in
           config == q.config
           frame == S!SignalFrame(in)
           s == in.smc[frame]
           tf == in[frame]
           bar == S!LastBar(tf)
           atr1 == S!LastBar(in.h1).atr
           chochs == {i \in DOMAIN s.breaks : s.breaks[i].type = "CHoCH"}
           choch == s.breaks[S!Max(chochs)]
           side == IF choch.direction = "UP" THEN "BUY" ELSE "SELL"
           sweeps == {i \in DOMAIN s.sweeps : s.sweeps[i].side = side}
           level == s.sweeps[S!Max(sweeps)].level
           stop == level - S!Dir(side) * S!Tenths(atr1, 5)
           spare == in.price - S!Dir(side) * S!Tenths(atr1, 15)
           sl == IF S!Ahead(side, stop, in.price) > 0 THEN stop ELSE spare
           score == S!CounterScore(side, bar, s, in.price, atr1)
           first == S!Proposal("counter_pullback", side, in.price, atr1, sl, in.price + S!Dir(side) * 2 * atr1,
                               in.price + S!Dir(side) * 4 * atr1, score)
           made == S!AtLevels(first, bar, config)
<1>1. S!CounterPullback(in, config) = {} \/
      (frame # "none" /\ in.h1.len # 0 /\ ~(atr1 <= 0) /\ sweeps # {} /\ S!CounterPullback(in, config) = {made})
  BY DEF S!CounterPullback, S!CounterPullbackSignal
<1>2. CASE S!CounterPullback(in, config) = {}
  BY <1>2 DEF Offers
<1>3. CASE S!CounterPullback(in, config) # {}
  <2>1. frame # "none" /\ in.h1.len # 0 /\ ~(atr1 <= 0) /\ sweeps # {} /\ S!CounterPullback(in, config) = {made}
    BY <1>1, <1>3
  <2>2. /\ in \in MarketInput /\ config \in ConfigType
        /\ in.h1 \in FrameType /\ (in.h1.len > 0 => S!LastBar(in.h1) \in MarketBar)
        /\ in.m30 \in FrameType /\ (in.m30.len > 0 => S!LastBar(in.m30) \in MarketBar)
        /\ in.m15 \in FrameType /\ (in.m15.len > 0 => S!LastBar(in.m15) \in MarketBar)
    BY SignalIsTyped
  <2>3. (frame = "m30" /\ in.m30.len >= 20) \/ (frame = "m15" /\ in.m15.len >= 20)
    BY <2>1 DEF S!SignalFrame
  <2> HIDE DEF in, config, frame, bar, made, first
  <2>4. bar \in MarketBar /\ s \in SmcType
    <3>1. in.m30.len \in Nat /\ in.m15.len \in Nat
      BY <2>2 DEF FrameType
    <3>2. in.smc.m30 \in SmcType /\ in.smc.m15 \in SmcType
      BY <2>2 DEF MarketInput
    <3>3. CASE frame = "m30" /\ in.m30.len >= 20
      BY <2>2, <3>1, <3>2, <3>3 DEF bar
    <3>4. CASE frame = "m15" /\ in.m15.len >= 20
      BY <2>2, <3>1, <3>2, <3>4 DEF bar
    <3> QED
      BY <2>3, <3>3, <3>4
  <2>5. in.price \in Int /\ atr1 \in Nat \ {0}
    <3>1. in.price \in Int
      BY <2>2 DEF MarketInput
    <3>2. in.h1.len \in Nat
      BY <2>2 DEF FrameType
    <3>3. atr1 \in Int
      BY <2>1, <2>2, <3>2 DEF MarketBar
    <3> QED
      BY <2>1, <3>1, <3>3
  <2> HIDE DEF s, atr1
  <2>6. side \in {"BUY", "SELL"}
    OBVIOUS
  <2> HIDE DEF side
  <2>7. level \in Int
    <3> HIDE DEF level
    <3>1. s.sweeps \in Seq([side : {"BUY", "SELL"}, level : Int, age : Nat])
      BY <2>4 DEF SmcType
    <3>2. sweeps \subseteq 1 .. Len(s.sweeps) /\ Len(s.sweeps) \in Nat
      BY <3>1
    <3> HIDE DEF sweeps
    <3>3. S!Max(sweeps) \in sweeps
      <4> DEFINE n == Len(s.sweeps)
      <4>1. n \in Int /\ sweeps \subseteq 1 .. n
        BY <3>2
      <4> HIDE DEF n
      <4> QED
        BY <2>1, <4>1, GreatestOfSome
    <3>4. S!Max(sweeps) \in 1 .. Len(s.sweeps)
      BY <3>2, <3>3
    <3> DEFINE swept == s.sweeps
               k == S!Max(sweeps)
               Sweep == [side : {"BUY", "SELL"}, level : Int, age : Nat]
    <3>5. k \in 1 .. Len(swept) /\ swept \in Seq(Sweep)
      BY <3>1, <3>4
    <3> HIDE DEF swept, k, Sweep
    <3>6. swept[k] \in Sweep
      BY <3>5
    <3>7. swept[k].level \in Int
      BY <3>6 DEF Sweep
    <3> QED
      BY <3>7 DEF swept, k, level
  <2> HIDE DEF level
  <2>8. sl \in Int
    <3>1. S!Tenths(atr1, 5) \in Nat /\ S!Tenths(atr1, 15) \in Nat
      BY <2>5, TenthsAreNat
    <3>2. S!Tenths(atr1, 5) \in Int /\ S!Tenths(atr1, 15) \in Int
      BY <3>1
    <3>3. stop \in Int
      BY <2>6, <2>7, <3>2, StopIsInt
    <3>4. spare \in Int
      BY <2>5, <2>6, <3>2, StopIsInt
    <3> QED
      BY <3>3, <3>4
  <2> HIDE DEF sl
  <2>9. score \in Int /\ score <= 10
    <3> DEFINE conditions ==
                 <<S!Dir(side) * ((50 - S!Dir(side) * 5) - bar.rsi) > 0,
                   \E b \in S!ToSet(s.blocks) : b.side = side /\ b.valid /\ S!InReach(b.low, b.high, in.price, atr1),
                   S!Dir(side) * bar.macd > 0,
                   \E g \in S!ToSet(s.gaps) : ~g.filled /\ S!InReach(g.low, g.high, in.price, atr1)>>
    <3>1. score = S!Score(5, conditions) /\ DOMAIN conditions = 1 .. 4
      BY DEF S!CounterScore
    <3> HIDE DEF score, conditions
    <3> QED
      BY <3>1, ScoreIsAtMostTen
  <2> HIDE DEF score
  <2>10. /\ first \in S!ProposalType
         /\ first.side = side /\ first.entry = in.price /\ first.atr = atr1 /\ first.score = score
         /\ first.tp1 = in.price + S!Dir(side) * (2 * atr1) /\ first.tp2 = in.price + S!Dir(side) * (4 * atr1)
    <3>1. /\ S!Dir(side) * 2 * atr1 = S!Dir(side) * (2 * atr1)
          /\ S!Dir(side) * 4 * atr1 = S!Dir(side) * (4 * atr1)
          /\ in.price + S!Dir(side) * (2 * atr1) \in Int /\ in.price + S!Dir(side) * (4 * atr1) \in Int
      BY <2>5, <2>6 DEF S!Dir
    <3> QED
      BY <2>5, <2>6, <2>8, <2>9, <3>1 DEF first, S!Proposal, S!ProposalType
  <2>11. 2 * atr1 \in 1 .. 5 * atr1 /\ 4 * atr1 \in 0 .. 5 * atr1
    BY <2>5
  <2>12. Promising(first)
    <3> DEFINE a == 2 * atr1
               b == 4 * atr1
    <3>1. /\ a \in 1 .. 5 * first.atr /\ b \in 0 .. 5 * first.atr
          /\ first.tp1 = first.entry + S!Dir(first.side) * a /\ first.tp2 = first.entry + S!Dir(first.side) * b
      BY <2>10, <2>11
    <3> HIDE DEF a, b
    <3> QED
      BY <2>9, <2>10, <3>1, ProposedIsPromising
  <2>13. Promising(made)
    BY <2>2, <2>4, <2>12, LevelsArePromising DEF made
  <2> QED
    BY <2>1, <2>13 DEF Offers, in, config
<1> QED
  BY <1>2, <1>3

\* Breakouts out of the band are promising.
LEMMA PyramidIsPromising ==
  ASSUME NEW q \in Signalled
  PROVE  Offers(S!BreakoutPyramid(q.in, q.config))
<1> DEFINE in == q.in
           config == q.config
           bar == S!LastBar(in.h1)
           atr1 == bar.atr
           side == IF bar.close > bar.bbUp /\ bar.ema20 > bar.ema50 THEN "BUY"
                   ELSE IF bar.close < bar.bbLow /\ bar.ema20 < bar.ema50 THEN "SELL" ELSE "none"
           sl == bar.ema20 - S!Dir(side) * S!Tenths(atr1, config.pyramid.sl)
           score == S!PyramidScore(side, bar)
           first == S!Proposal("breakout_pyramid", side, in.price, atr1, sl, in.price + S!Dir(side) * 2 * atr1,
                               in.price + S!Dir(side) * 5 * atr1, score)
<1>1. S!BreakoutPyramid(in, config) = {} \/
      (~(in.h1.len < 30) /\ ~(atr1 <= 0) /\ side # "none" /\ S!BreakoutPyramid(in, config) = {first})
  BY DEF S!BreakoutPyramid, S!BreakoutPyramidSignal
<1>2. CASE S!BreakoutPyramid(in, config) = {}
  BY <1>2 DEF Offers
<1>3. CASE S!BreakoutPyramid(in, config) # {}
  <2>1. ~(in.h1.len < 30) /\ ~(atr1 <= 0) /\ side # "none" /\ S!BreakoutPyramid(in, config) = {first}
    BY <1>1, <1>3
  <2>2. in \in MarketInput /\ config \in ConfigType /\ in.h1 \in FrameType /\ (in.h1.len > 0 => bar \in MarketBar)
    BY SignalIsTyped
  <2>3. side \in {"BUY", "SELL"}
    BY <2>1
  <2> HIDE DEF in, config, bar, first, side
  <2>4. in.price \in Int /\ bar \in MarketBar /\ config.pyramid.sl \in Nat
    <3>1. in.price \in Int
      BY <2>2 DEF MarketInput
    <3>2. in.h1.len \in Nat
      BY <2>2 DEF FrameType
    <3>3. config.pyramid.sl \in Nat
      BY <2>2 DEF ConfigType
    <3> QED
      BY <2>1, <2>2, <3>1, <3>2, <3>3
  <2>5. atr1 \in Nat \ {0} /\ bar.ema20 \in Int
    BY <2>1, <2>4 DEF MarketBar
  <2> HIDE DEF atr1
  <2>6. sl \in Int
    <3> DEFINE n == config.pyramid.sl
               d == S!Tenths(atr1, n)
    <3>1. n \in Nat
      BY <2>4
    <3> HIDE DEF n
    <3>2. d \in Nat
      BY <2>5, <3>1, TenthsAreNat
    <3> HIDE DEF d
    <3> DEFINE from == bar.ema20
    <3>3. from \in Int /\ d \in Int
      BY <2>5, <3>2
    <3> HIDE DEF from
    <3>4. from - S!Dir(side) * d \in Int
      BY <2>3, <3>3, StopIsInt
    <3> QED
      BY <3>4 DEF from, d, n
  <2> HIDE DEF sl
  <2>7. score \in Int /\ score <= 10
    <3> DEFINE conditions ==
                 <<bar.volume = "high", bar.adx > 30,
                   IF side = "BUY" THEN bar.rsi > 55 /\ bar.rsi < 80 ELSE bar.rsi < 45 /\ bar.rsi > 20,
                   S!Dir(side) * bar.macd > 0>>
    <3>1. score = S!Score(6, conditions) /\ DOMAIN conditions = 1 .. 4
      BY DEF S!PyramidScore
    <3> HIDE DEF score, conditions
    <3> QED
      BY <3>1, ScoreIsAtMostTen
  <2> HIDE DEF score
  <2>8. /\ first \in S!ProposalType
        /\ first.side = side /\ first.entry = in.price /\ first.atr = atr1 /\ first.score = score
        /\ first.tp1 = in.price + S!Dir(side) * (2 * atr1) /\ first.tp2 = in.price + S!Dir(side) * (5 * atr1)
    <3>1. /\ S!Dir(side) * 2 * atr1 = S!Dir(side) * (2 * atr1)
          /\ S!Dir(side) * 5 * atr1 = S!Dir(side) * (5 * atr1)
          /\ in.price + S!Dir(side) * (2 * atr1) \in Int /\ in.price + S!Dir(side) * (5 * atr1) \in Int
      BY <2>3, <2>4, <2>5 DEF S!Dir
    <3> QED
      BY <2>3, <2>4, <2>5, <2>6, <2>7, <3>1 DEF first, S!Proposal, S!ProposalType
  <2>9. Promising(first)
    <3> DEFINE a == 2 * atr1
               b == 5 * atr1
    <3>1. a \in 1 .. 5 * atr1 /\ b \in 0 .. 5 * atr1
      BY <2>5
    <3>2. /\ a \in 1 .. 5 * first.atr /\ b \in 0 .. 5 * first.atr
          /\ first.tp1 = first.entry + S!Dir(first.side) * a /\ first.tp2 = first.entry + S!Dir(first.side) * b
      BY <2>8, <3>1
    <3> HIDE DEF a, b
    <3> QED
      BY <2>7, <2>8, <3>2, ProposedIsPromising
  <2> QED
    BY <2>1, <2>9 DEF Offers, in, config
<1> QED
  BY <1>2, <1>3

\* The trend takes none, one or two points.
LEMMA PenaltyIsSmall ==
  ASSUME NEW side, NEW in
  PROVE  S!TrendPenalty(side, in) \in 0 .. 2
BY DEF S!TrendPenalty

\* The structure gives at most three points, and takes none.
LEMMA BonusIsNat ==
  ASSUME NEW side, NEW smc, NEW current, NEW atr1
  PROVE  S!SMCBonus(side, smc, current, atr1) \in Nat
<1> DEFINE held ==
      {i \in 1 .. 3 :
         CASE i = 1 -> \E b \in S!ToSet(smc.h1.breaks) : b.type = "CHoCH" /\ S!Side(b.direction) = side
           [] i = 2 -> \E w \in S!ToSet(smc.h1.sweeps) :
                         w.side = side /\ w.age <= 10 /\ S!Dist(current, w.level) <= 2 * atr1
           [] i = 3 -> \E b \in S!ToSet(smc.h1.blocks) \cup S!ToSet(smc.h4.blocks) :
                         b.side = side /\ b.valid /\ S!InReach(b.low, b.high, current, S!Tenths(atr1, 15))}
<1>1. S!SMCBonus(side, smc, current, atr1) = S!Cardinality(held)
  BY DEF S!SMCBonus
<1>2. held \subseteq 1 .. 3
  OBVIOUS
<1> HIDE DEF held
<1>3. IsFiniteSet(held)
  <2>1. IsFiniteSet(1 .. 3)
    <3> DEFINE n == 3
    <3>1. n \in Int
      OBVIOUS
    <3> HIDE DEF n
    <3>2. IsFiniteSet(1 .. n)
      BY <3>1, FS_Interval
    <3> QED
      BY <3>2 DEF n
  <2> QED
    BY <1>2, <2>1, FS_Subset
<1>4. S!Cardinality(held) = Cardinality(held)
  BY DEF S!Cardinality, Cardinality
<1> QED
  BY <1>1, <1>3, <1>4, FS_CardinalityType

\* Another score that is at most ten leaves a proposal promising.
LEMMA RescoredIsPromising ==
  ASSUME NEW p, Promising(p), NEW n \in Int, n <= 10
  PROVE  Promising([p EXCEPT !.score = n])
<1> DEFINE q == [p EXCEPT !.score = n]
<1>1. p \in S!ProposalType
  BY DEF Promising
<1>2. /\ q \in S!ProposalType /\ q.score = n
      /\ q.side = p.side /\ q.entry = p.entry /\ q.atr = p.atr /\ q.tp1 = p.tp1 /\ q.tp2 = p.tp2
  BY <1>1 DEF S!ProposalType
<1> HIDE DEF q
<1>3. Promising(q)
  BY <1>2 DEF Promising
<1> QED
  BY <1>3 DEF q

\* Rating a proposal leaves it promising.
LEMMA RatedIsPromising ==
  ASSUME NEW p, Promising(p), NEW in
  PROVE  Promising(S!Rated(p, in))
<1> DEFINE penalty == S!TrendPenalty(p.side, in)
           penalised == p.score - penalty
           boosted == IF S!M15Boost(p.side, in.m15) = 1 THEN S!AtMostTen(penalised + 1) ELSE penalised
           harmonic == S!HarmonicBonus(p.side, in.harmonic)
           shaped == IF harmonic > 0 THEN S!AtMostTen(boosted + harmonic) ELSE boosted
           smc == S!SMCBonus(p.side, in.smc, in.price, p.atr)
           n == IF smc > 0 THEN S!AtMostTen(shaped + smc) ELSE shaped
<1>1. S!Rated(p, in) = [p EXCEPT !.score = n]
  BY DEF S!Rated
<1>2. penalty \in 0 .. 2
  BY PenaltyIsSmall
<1>3. smc \in Nat
  BY BonusIsNat
<1>4. harmonic \in {0, 1, 2}
  BY DEF S!HarmonicBonus
<1> HIDE DEF penalty, smc, harmonic
<1>5. p.score \in Int /\ p.score <= 10
  BY DEF Promising, S!ProposalType
<1>6. penalised \in Int /\ penalised <= 10
  BY <1>2, <1>5
<1> HIDE DEF penalised
<1>7. boosted \in Int /\ boosted <= 10
  BY <1>6 DEF S!AtMostTen
<1> HIDE DEF boosted
<1>8. shaped \in Int /\ shaped <= 10
  BY <1>4, <1>7 DEF S!AtMostTen
<1> HIDE DEF shaped
<1>9. n \in Int /\ n <= 10
  BY <1>3, <1>8 DEF S!AtMostTen
<1> HIDE DEF n
<1> QED
  BY <1>1, <1>9, RescoredIsPromising

\* What the AI suggests for a promising proposal leaves it promising.
LEMMA AdvisedIsPromising ==
  ASSUME NEW p, Promising(p), NEW ai \in [sl : Int, tp : Int]
  PROVE  Promising(S!WithAI(p, ai))
<1> DEFINE risk == S!Ahead(p.side, ai.sl, p.entry)
           gain == S!Ahead(p.side, p.entry, ai.tp)
           stop == ai.sl > 0 /\ risk > 0 /\ 10 * risk >= 3 * p.atr /\ risk <= 3 * p.atr
           target == ai.tp > 0 /\ gain > 0 /\ 10 * gain >= 3 * p.atr /\ gain <= 5 * p.atr
           sl == IF stop THEN ai.sl ELSE p.sl
           tp1 == IF target THEN ai.tp ELSE p.tp1
           tp2 == IF target THEN ai.tp ELSE p.tp2
<1>1. S!WithAI(p, ai) = [p EXCEPT !.sl = sl, !.tp1 = tp1, !.tp2 = tp2]
  BY DEF S!WithAI
<1>2. /\ p.side \in {"BUY", "SELL"} /\ p.entry \in Int /\ p.atr \in Nat \ {0}
      /\ p.sl \in Int /\ p.tp1 \in Int /\ p.tp2 \in Int
  BY DEF Promising, S!ProposalType
<1>3. sl \in Int /\ tp1 \in Int /\ tp2 \in Int
  BY <1>2
<1>4. gain \in Int
  BY <1>2 DEF S!Ahead, S!Dir
<1>5. S!Ahead(p.side, p.entry, tp1) \in 1 .. 5 * p.atr /\ S!Ahead(p.side, p.entry, tp2) <= 5 * p.atr
  <2>1. CASE target
    <3>1. tp1 = ai.tp /\ tp2 = ai.tp
      BY <2>1
    <3>2. gain > 0 /\ gain <= 5 * p.atr
      BY <2>1
    <3> DEFINE a == p.atr
    <3> HIDE DEF gain, a
    <3>3. a \in Nat /\ gain <= 5 * a
      BY <1>2, <3>2 DEF a
    <3>4. gain \in 1 .. 5 * a
      BY <1>4, <3>2, <3>3
    <3> QED
      BY <3>1, <3>2, <3>4 DEF gain, a
  <2>2. CASE ~target
    <3>1. tp1 = p.tp1 /\ tp2 = p.tp2
      BY <2>2
    <3> QED
      BY <3>1 DEF Promising
  <2> QED
    BY <2>1, <2>2
<1> HIDE DEF sl, tp1, tp2
<1>6. Promising([p EXCEPT !.sl = sl, !.tp1 = tp1, !.tp2 = tp2])
  BY <1>3, <1>5, StillPromising
<1> QED
  BY <1>1, <1>6

\* A promising proposal that pays risks at most four ATR, and keeps what it promised.
LEMMA PaidIsSound ==
  ASSUME NEW p, Promising(p), NEW config \in ConfigType, S!Pays(p, config)
  PROVE  /\ S!Ahead(p.side, p.sl, p.entry) \in 1 .. 4 * p.atr
         /\ S!Ahead(p.side, p.entry, p.tp1) > 0
         /\ 100 * S!Ahead(p.side, p.entry, S!FarTarget(p)) >= 125 * S!Ahead(p.side, p.sl, p.entry)
<1> DEFINE risk == S!Ahead(p.side, p.sl, p.entry)
           reward == S!Ahead(p.side, p.entry, S!FarTarget(p))
           ratio == config.minRR
           most == 5 * p.atr
<1>1. risk > 0 /\ reward > 0 /\ 100 * reward >= ratio * risk
  BY DEF S!Pays
<1>2. /\ p.side \in {"BUY", "SELL"} /\ p.entry \in Int /\ p.sl \in Int /\ p.atr \in Nat
      /\ p.tp1 \in Int /\ p.tp2 \in Int
      /\ S!Ahead(p.side, p.entry, p.tp1) \in 1 .. most /\ S!Ahead(p.side, p.entry, p.tp2) <= most
  BY DEF Promising, S!ProposalType
<1>3. risk \in Int
  BY <1>2 DEF S!Ahead, S!Dir
<1>4. S!FarTarget(p) \in {p.tp1, p.tp2}
  BY DEF S!FarTarget
<1>5. reward <= most /\ reward \in Int
  <2>1. most \in Int
    BY <1>2
  <2> HIDE DEF most
  <2>2. S!Ahead(p.side, p.entry, p.tp1) <= most /\ S!Ahead(p.side, p.entry, p.tp1) \in Int
    BY <1>2, <2>1
  <2>3. S!Ahead(p.side, p.entry, p.tp2) \in Int
    BY <1>2 DEF S!Ahead, S!Dir
  <2> QED
    BY <1>2, <1>4, <2>2, <2>3
<1>6. ratio \in Nat /\ ratio >= 125
  BY DEF ConfigType
<1>7. S!Ahead(p.side, p.entry, p.tp1) > 0
  BY <1>2
<1> DEFINE a == p.atr
<1>8. a \in Nat /\ reward <= 5 * a
  BY <1>2, <1>5
<1> HIDE DEF risk, reward, ratio, a
<1>9. 100 * reward >= 125 * risk
  <2>1. (ratio - 125) * risk \in Nat
    BY <1>1, <1>3, <1>6
  <2>2. (ratio - 125) * risk = ratio * risk - 125 * risk
    BY <1>3, <1>6
  <2>3. ratio * risk \in Int
    BY <1>3, <1>6
  <2> QED
    BY <1>1, <1>3, <1>5, <2>1, <2>2, <2>3
<1>10. risk \in 1 .. 4 * a
  BY <1>1, <1>3, <1>5, <1>8, <1>9
<1> QED
  BY <1>7, <1>9, <1>10 DEF risk, reward, a

\* Whatever is published is what a strategy proposed, rated, advised and found to pay.
LEMMA PublishedIsSound ==
  ASSUME NEW q \in Signalled, NEW s \in S!Signal(q.in, q.config, q.soft)
  PROVE  LET risk == S!Ahead(s.side, s.sl, s.entry) IN
           /\ risk \in 1 .. 4 * s.atr
           /\ S!Ahead(s.side, s.entry, s.tp1) > 0
           /\ 100 * S!Ahead(s.side, s.entry, S!FarTarget(s)) >= 125 * risk
           /\ s.score \in q.config.minScore .. 10
<1> DEFINE in == q.in
           config == q.config
           proposals == S!Proposals(in, config)
           kept == S!H4Filter(proposals, in.h4, config, q.soft)
           rated == [i \in DOMAIN kept |-> {S!Rated(p, in) : p \in kept[i]}]
           chosen == {p \in S!Best(rated) : p.score >= config.minScore /\ ~S!Conflicts(p, in.positions)}
<1>1. S!Signal(in, config, q.soft) = {p \in {S!WithAI(c, in.ai) : c \in chosen} : S!Pays(p, config)}
  BY DEF S!Signal
<1>2. in \in MarketInput /\ config \in ConfigType
  BY SignalIsTyped
<1>3. DOMAIN proposals = 1 .. 5 /\ \A i \in 1 .. 5 : Offers(proposals[i])
  <2>1. /\ Offers(S!Pullback(in, config)) /\ Offers(S!BreakoutRetest(in, config))
        /\ Offers(S!Divergence(in, config)) /\ Offers(S!CounterPullback(in, config))
        /\ Offers(S!BreakoutPyramid(in, config))
    BY PullbackIsPromising, RetestIsPromising, DivergenceIsPromising, CounterIsPromising, PyramidIsPromising
  <2> HIDE DEF in, config
  <2> DEFINE a == S!Pullback(in, config)
             b == S!BreakoutRetest(in, config)
             c == S!Divergence(in, config)
             d == S!CounterPullback(in, config)
             e == S!BreakoutPyramid(in, config)
  <2>2. proposals = <<a, b, c, d, e>>
    BY DEF S!Proposals
  <2>3. Offers(a) /\ Offers(b) /\ Offers(c) /\ Offers(d) /\ Offers(e)
    BY <2>1
  <2> HIDE DEF proposals, a, b, c, d, e
  <2> QED
    BY <2>2, <2>3
<1>4. DOMAIN kept = 1 .. 5 /\ \A i \in 1 .. 5 : kept[i] \subseteq proposals[i]
  <2> HIDE DEF proposals
  <2> QED
    BY <1>3 DEF S!H4Filter
<1> HIDE DEF in, config, proposals, kept
<1>5. ASSUME NEW c \in S!Best(rated) PROVE Promising(c)
  <2>1. PICK i \in DOMAIN rated : c \in rated[i]
    BY DEF S!Best
  <2>2. PICK p \in kept[i] : c = S!Rated(p, in)
    BY <2>1
  <2>3. Promising(p)
    BY <1>3, <1>4, <2>1, <2>2 DEF Offers
  <2> QED
    BY <2>2, <2>3, RatedIsPromising
<1> HIDE DEF rated
<1>6. PICK c \in chosen : s = S!WithAI(c, in.ai) /\ S!Pays(s, config)
  BY <1>1 DEF in, config
<1>7. c \in S!Best(rated) /\ c.score >= config.minScore
  BY <1>6
<1>8. Promising(c)
  BY <1>5, <1>7
<1>9. Promising(s)
  <2>1. in.ai \in [sl : Int, tp : Int]
    BY <1>2 DEF MarketInput
  <2> QED
    BY <1>6, <1>8, <2>1, AdvisedIsPromising
<1>10. s.score = c.score
  <2>1. c \in S!ProposalType
    BY <1>8 DEF Promising
  <2> QED
    BY <1>6, <2>1 DEF S!WithAI, S!ProposalType
<1>11. /\ S!Ahead(s.side, s.sl, s.entry) \in 1 .. 4 * s.atr
       /\ S!Ahead(s.side, s.entry, s.tp1) > 0
       /\ 100 * S!Ahead(s.side, s.entry, S!FarTarget(s)) >= 125 * S!Ahead(s.side, s.sl, s.entry)
  BY <1>2, <1>6, <1>9, PaidIsSound
<1>12. s.score \in config.minScore .. 10
  <2>1. s.score \in Int /\ s.score <= 10
    BY <1>9 DEF Promising, S!ProposalType
  <2>2. config.minScore \in Nat
    BY <1>2 DEF ConfigType
  <2> QED
    BY <1>7, <1>10, <2>1, <2>2
<1> QED
  BY <1>11, <1>12 DEF config

\* A signal is published only protected, paying and rated (SignalIsSound), whatever the
\* market shows: of every strategy, level, pattern and suggestion of the AI.
THEOREM SignalStaysSound == DecisionSpec => []SignalIsSound
<1>1. DecisionInv => SignalIsSound
  <2> SUFFICES ASSUME DecisionInv, Answered("signal"), NEW s \in answer.published
      PROVE  LET risk == S!Ahead(s.side, s.sl, s.entry) IN
               /\ risk \in 1 .. 4 * s.atr
               /\ S!Ahead(s.side, s.entry, s.tp1) > 0
               /\ 100 * S!Ahead(s.side, s.entry, S!FarTarget(s)) >= 125 * risk
               /\ s.score \in question.config.minScore .. 10
    BY DEF SignalIsSound
  <2>1. question \in Signalled /\ answer = Publication(question)
    BY DEF DecisionInv, Answered
  <2>2. s \in S!Signal(question.in, question.config, question.soft)
    BY <2>1 DEF Publication
  <2> QED
    BY <2>1, <2>2, PublishedIsSound
<1> QED
  BY <1>1, DecisionsHold, PTL

-----------------------------------------------------------------------------
(* The rules for open positions. What one position gets is followed through the passes. *)

Flags == {"tp1", "tp2"}
TakeReasons(flag) == IF flag = "tp1" THEN TP1Reasons ELSE TP2Reasons

CommandType ==
  [act : {"CLOSE", "MODIFY"}, lots : Nat, sl : Nat,
   why : TP1Reasons \cup TP2Reasons \cup
         {"lock", "time", "time_72h", "reversal", "trail", "group_be", "reanchor", "group_exit"}]
AdviceType == [adv : [RuleNames -> Seq(CommandType)], st : StateType]

Takes(c, flag) == c.act = "CLOSE" /\ c.why \in TakeReasons(flag)
Had(old, t, flag) == t \in DOMAIN old /\ old[t][flag]

\* Every stop that was sent is ahead of the position's own and behind the market, and the
\* best stop of the state is none of them behind.
StopsKept(p, m, x) ==
  /\ p.sl # 0 => x.st.best # 0 /\ Beyond(p.side, p.sl, x.st.best) >= 0
  /\ \A k \in DOMAIN Rules : \A i \in DOMAIN x.adv[Rules[k]] : x.adv[Rules[k]][i].act = "MODIFY" =>
       /\ x.st.best # 0 /\ Beyond(p.side, x.adv[Rules[k]][i].sl, x.st.best) >= 0
       /\ p.sl = 0 \/ Beyond(p.side, p.sl, x.adv[Rules[k]][i].sl) > 0
       /\ Beyond(p.side, x.adv[Rules[k]][i].sl, m.price) > 0

\* A stop is ahead of those before it, and no target is closed twice.
Earlier(k, i, l, j) == k < l \/ (k = l /\ i < j)
OrderKept(p, x) ==
  \A k, l \in DOMAIN Rules : \A i \in DOMAIN x.adv[Rules[k]], j \in DOMAIN x.adv[Rules[l]] :
    Earlier(k, i, l, j) =>
      LET c == x.adv[Rules[k]][i]
          d == x.adv[Rules[l]][j]
      IN /\ c.act = "MODIFY" /\ d.act = "MODIFY" => Beyond(p.side, c.sl, d.sl) > 0
         /\ \A flag \in Flags : ~(Takes(c, flag) /\ Takes(d, flag))

ClosesKept(p, x) ==
  \A k \in DOMAIN Rules : \A i \in DOMAIN x.adv[Rules[k]] : x.adv[Rules[k]][i].act = "CLOSE" =>
    x.adv[Rules[k]][i].lots <= p.lots /\ 10 * x.adv[Rules[k]][i].lots >= 4 * p.lots - 5

\* A target is closed if and only if its flag is newly set.
FlagsKept(old, t, x) ==
  \A flag \in Flags :
    /\ Had(old, t, flag) => x.st[flag]
    /\ (x.st[flag] /\ ~Had(old, t, flag)) <=>
         \E k \in DOMAIN Rules : \E i \in DOMAIN x.adv[Rules[k]] : Takes(x.adv[Rules[k]][i], flag)

\* What holds of a position's advice before the k-th rule.
Kept(p, old, t, m, k, x) ==
  /\ x \in AdviceType
  /\ \A l \in k .. 6 : x.adv[Rules[l]] = <<>>
  /\ StopsKept(p, m, x) /\ OrderKept(p, x) /\ ClosesKept(p, x) /\ FlagsKept(old, t, x)

LEMMA RulesAreSix ==
  /\ DOMAIN Rules = 1 .. 6 /\ RuleNames = {Rules[k] : k \in 1 .. 6}
  /\ \A k, l \in 1 .. 6 : Rules[k] = Rules[l] => k = l
  /\ Rules[1] = "own" /\ Rules[2] = "group_tp1" /\ Rules[3] = "group_tp2" /\ Rules[4] = "group_be"
  /\ Rules[5] = "reanchor" /\ Rules[6] = "group_exit"
<1>1. DOMAIN Rules = 1 .. 6
  BY DEF Rules
<1>2. \A k \in 1 .. 6 : k = 1 \/ k = 2 \/ k = 3 \/ k = 4 \/ k = 5 \/ k = 6
  OBVIOUS
<1> QED
  BY <1>1, <1>2 DEF Rules, RuleNames

\* A share of a position is part of it, and no less than a target's, up to rounding.
LEMMA ShareIsPart ==
  ASSUME NEW lots \in Nat \ {0}, NEW tenths \in {4, 5}, NEW least \in 1 .. 3
  PROVE  /\ Part(lots, tenths, least) \in Nat /\ Part(lots, tenths, least) <= lots
         /\ 10 * Part(lots, tenths, least) >= 4 * lots - 5
<1> DEFINE a == lots * tenths
<1>1. a \in Nat /\ 4 * lots <= a /\ a <= 5 * lots
  OBVIOUS
<1> HIDE DEF a
<1>2. ASSUME NEW s, s = IF a % 10 > 5 \/ (a % 10 = 5 /\ (a \div 10) % 2 = 1) THEN a \div 10 + 1 ELSE a \div 10
      PROVE  s \in Nat /\ 10 * s <= a + 5 /\ 10 * s >= a - 5
  BY <1>1, <1>2
<1>3. /\ Share(lots, tenths) \in Nat
      /\ 10 * Share(lots, tenths) <= a + 5 /\ 10 * Share(lots, tenths) >= a - 5
  BY <1>2 DEF Share, a
<1> HIDE DEF Share
<1> QED
  BY <1>1, <1>3 DEF Part


\* What a position gets first, and the stored flags, are kept when nothing but its own
\* commands was made: a stop, a close or both in this order.
LEMMA OwnIsKept ==
  ASSUME NEW p, NEW old, NEW t, NEW m, NEW own \in Seq(CommandType), NEW st \in StateType,
         p.sl # 0 => st.best # 0 /\ Beyond(p.side, p.sl, st.best) >= 0,
         \A i \in 1 .. Len(own) : own[i].act = "MODIFY" =>
           /\ i = 1
           /\ st.best # 0 /\ Beyond(p.side, own[i].sl, st.best) >= 0
           /\ p.sl = 0 \/ Beyond(p.side, p.sl, own[i].sl) > 0
           /\ Beyond(p.side, own[i].sl, m.price) > 0,
         \A i \in 1 .. Len(own) : own[i].act = "CLOSE" =>
           /\ i = Len(own)
           /\ own[i].lots <= p.lots /\ 10 * own[i].lots >= 4 * p.lots - 5,
         FlagsKept(old, t, [adv |-> Alone(own), st |-> st])
  PROVE  Kept(p, old, t, m, 2, [adv |-> Alone(own), st |-> st])
<1> DEFINE x == [adv |-> Alone(own), st |-> st]
<1>1. /\ x.adv \in [RuleNames -> Seq(CommandType)] /\ x.adv[Rules[1]] = own
      /\ \A k \in 2 .. 6 : x.adv[Rules[k]] = <<>>
  BY RulesAreSix DEF Alone
<1>2. DOMAIN own = 1 .. Len(own) /\ DOMAIN <<>> = {}
  OBVIOUS
<1>3. \A k \in DOMAIN Rules : \A i \in DOMAIN x.adv[Rules[k]] :
        k = 1 /\ i \in 1 .. Len(own) /\ x.adv[Rules[k]][i] = own[i]
  <2> SUFFICES ASSUME NEW k \in 1 .. 6, NEW i \in DOMAIN x.adv[Rules[k]]
               PROVE  k = 1 /\ i \in 1 .. Len(own) /\ x.adv[Rules[k]][i] = own[i]
    BY RulesAreSix
  <2>1. k = 1 \/ k \in 2 .. 6
    OBVIOUS
  <2> HIDE DEF x
  <2>2. CASE k = 1
    BY <1>1, <1>2, <2>2
  <2>3. CASE k \in 2 .. 6
    BY <1>1, <1>2, <2>3
  <2> QED
    BY <2>1, <2>2, <2>3
<1>4. x \in AdviceType /\ x.st = st
  BY <1>1 DEF AdviceType
<1> HIDE DEF x
<1>5. StopsKept(p, m, x)
  BY <1>3, <1>4 DEF StopsKept
<1>6. ClosesKept(p, x)
  BY <1>3 DEF ClosesKept
<1>7. OrderKept(p, x)
  <2> SUFFICES ASSUME NEW k \in DOMAIN Rules, NEW l \in DOMAIN Rules,
                      NEW i \in DOMAIN x.adv[Rules[k]], NEW j \in DOMAIN x.adv[Rules[l]],
                      Earlier(k, i, l, j)
               PROVE  LET c == x.adv[Rules[k]][i]
                          d == x.adv[Rules[l]][j]
                      IN /\ c.act = "MODIFY" /\ d.act = "MODIFY" => Beyond(p.side, c.sl, d.sl) > 0
                         /\ \A flag \in Flags : ~(Takes(c, flag) /\ Takes(d, flag))
    BY DEF OrderKept
  <2>1. k = 1 /\ l = 1 /\ i \in 1 .. Len(own) /\ j \in 1 .. Len(own) /\ i < j
    BY <1>3 DEF Earlier
  <2>2. x.adv[Rules[k]][i] = own[i] /\ x.adv[Rules[l]][j] = own[j]
    BY <1>3
  <2>3. own[j].act # "MODIFY" /\ own[i].act # "CLOSE"
    BY <2>1
  <2> QED
    BY <2>2, <2>3 DEF Takes
<1> QED
  BY <1>1, <1>4, <1>5, <1>6, <1>7 DEF Kept, x

\* The state of a position brought up to date: its best stop is not behind the stop it has.
LEMMA AnalyzedIsTyped ==
  ASSUME NEW p \in PositionType, NEW old, \A u \in DOMAIN old : old[u] \in StateType,
         NEW t, NEW m \in MarketType
  PROVE  LET s == Analyzed(p, t, old, m) IN
         /\ s \in StateType
         /\ p.sl # 0 => s.best # 0 /\ Beyond(p.side, p.sl, s.best) >= 0
         /\ \A flag \in Flags : s[flag] <=> Had(old, t, flag)
<1> DEFINE s0 == IF t \in DOMAIN old THEN old[t] ELSE FreshState(p, m.now)
           s == Analyzed(p, t, old, m)
           profit == Profit(p, m)
           better == p.sl # 0 /\ (s0.best = 0 \/ Beyond(p.side, s0.best, p.sl) > 0)
<1>0. /\ p.side \in Sides /\ p.sl \in Nat /\ p.open \in Nat /\ m.price \in Nat /\ m.now \in Nat
  BY DEF PositionType, MarketType
<1>1. s0 \in StateType
  BY <1>0 DEF FreshState, StateType
<1>2. profit \in Int
  BY <1>0 DEF Profit, Beyond
<1>3. s = [s0 EXCEPT !.best = IF better THEN p.sl ELSE @, !.max = IF profit > @ THEN profit ELSE @]
  BY DEF Analyzed
<1>4. \A flag \in Flags : s0[flag] <=> Had(old, t, flag)
  BY <1>1 DEF Had, FreshState, Flags, StateType
<1> HIDE DEF s0, profit, better
<1>5. s0.best \in Nat /\ s0.max \in Nat
  BY <1>1 DEF StateType
<1>6. s.best = (IF better THEN p.sl ELSE s0.best) /\ s.tp1 = s0.tp1 /\ s.tp2 = s0.tp2
  BY <1>1, <1>3 DEF StateType
<1>7. s \in StateType
  <2>1. (IF profit > s0.max THEN profit ELSE s0.max) \in Nat /\ (IF better THEN p.sl ELSE s0.best) \in Nat
    BY <1>0, <1>2, <1>5
  <2> QED
    BY <1>1, <1>3, <2>1 DEF StateType
<1>8. p.sl # 0 => s.best # 0 /\ Beyond(p.side, p.sl, s.best) >= 0
  BY <1>0, <1>5, <1>6 DEF better, Beyond
<1>9. \A flag \in Flags : s[flag] <=> Had(old, t, flag)
  BY <1>4, <1>6 DEF Flags
<1> QED
  BY <1>7, <1>8, <1>9

\* A stop that locks profit is ahead of the position's own and behind the market.
LEMMA LockIsSound ==
  ASSUME NEW p \in PositionType, NEW s \in StateType, NEW m \in MarketType,
         p.sl # 0 => s.best # 0 /\ Beyond(p.side, p.sl, s.best) >= 0
  PROVE  LET x == Locked(p, ResetStale(p, s), m) IN
         /\ x.st \in StateType /\ x.st.tp1 = s.tp1 /\ x.st.tp2 = s.tp2
         /\ p.sl # 0 => x.st.best # 0 /\ Beyond(p.side, p.sl, x.st.best) >= 0
         /\ \/ x.adv = <<>>
            \/ /\ x.adv = <<Modify(x.st.best, "lock")>> /\ x.st.best # 0
               /\ p.sl = 0 \/ Beyond(p.side, p.sl, x.st.best) > 0
               /\ Beyond(p.side, x.st.best, m.price) > 0
<1> DEFINE x == Locked(p, ResetStale(p, s), m)
           r == ResetStale(p, s)
           stop == LockStop(p, m)
<1>0. /\ p.side \in Sides /\ p.sl \in Nat /\ p.open \in Nat \ {0} /\ m.price \in Nat
  BY DEF PositionType, MarketType
<1>1. r \in StateType /\ r.tp1 = s.tp1 /\ r.tp2 = s.tp2 /\ r.best = s.best
  BY DEF ResetStale, StateType
<1>2. CASE Locks(p, m)
  <2>1. stop \in Nat \ {0} /\ Beyond(p.side, stop, m.price) > 0
    BY <1>0, <1>2 DEF Locks, LockStop, Profit, Beyond, Sides
  <2>2. p.sl = 0 \/ Beyond(p.side, p.sl, stop) > 0
    BY <1>2 DEF Locks
  <2>3. x = [adv |-> <<Modify(stop, "lock")>>, st |-> [r EXCEPT !.be = TRUE, !.best = stop]]
    BY <1>2 DEF Locked
  <2> HIDE DEF r, stop, x
  <2>4. /\ x.adv = <<Modify(stop, "lock")>> /\ x.st \in StateType
        /\ x.st.best = stop /\ x.st.tp1 = s.tp1 /\ x.st.tp2 = s.tp2
    BY <1>1, <2>1, <2>3 DEF StateType
  <2>5. Beyond(p.side, p.sl, stop) > 0 => Beyond(p.side, p.sl, stop) >= 0
    BY <1>0, <2>1 DEF Beyond
  <2> QED
    BY <2>1, <2>2, <2>4, <2>5 DEF x
<1>3. CASE ~Locks(p, m)
  <2>1. x = [adv |-> <<>>, st |-> r]
    BY <1>3 DEF Locked
  <2> QED
    BY <1>1, <2>1
<1> QED
  BY <1>2, <1>3

\* The flags of a position that got nothing but its own commands.
LEMMA OwnFlags ==
  ASSUME NEW old, NEW t, NEW own \in Seq(CommandType), NEW st,
         \A flag \in Flags : /\ Had(old, t, flag) => st[flag]
                             /\ (st[flag] /\ ~Had(old, t, flag)) <=> \E i \in DOMAIN own : Takes(own[i], flag)
  PROVE  FlagsKept(old, t, [adv |-> Alone(own), st |-> st])
<1> DEFINE x == [adv |-> Alone(own), st |-> st]
<1>1. x.st = st /\ x.adv[Rules[1]] = own /\ \A k \in 2 .. 6 : x.adv[Rules[k]] = <<>>
  BY RulesAreSix DEF Alone
<1> HIDE DEF x
<1>2. ASSUME NEW flag \in Flags
      PROVE  (\E k \in DOMAIN Rules : \E i \in DOMAIN x.adv[Rules[k]] : Takes(x.adv[Rules[k]][i], flag))
             <=> \E i \in DOMAIN own : Takes(own[i], flag)
  <2>1. ASSUME NEW k \in DOMAIN Rules, NEW i \in DOMAIN x.adv[Rules[k]], Takes(x.adv[Rules[k]][i], flag)
        PROVE  \E j \in DOMAIN own : Takes(own[j], flag)
    <3>1. k = 1 \/ k \in 2 .. 6
      BY RulesAreSix
    <3>2. k = 1
      BY <1>1, <3>1
    <3> QED
      BY <1>1, <2>1, <3>2
  <2>2. 1 \in DOMAIN Rules
    BY RulesAreSix
  <2>3. ASSUME NEW i \in DOMAIN own, Takes(own[i], flag)
        PROVE  \E k \in DOMAIN Rules : \E j \in DOMAIN x.adv[Rules[k]] : Takes(x.adv[Rules[k]][j], flag)
    BY <1>1, <2>2, <2>3
  <2> QED
    BY <2>1, <2>3
<1> QED
  BY <1>1, <1>2 DEF FlagsKept, x

\* The exit of a position closes a part and takes at most one target.
LEMMA ExitIsSound ==
  ASSUME NEW p, p.lots \in Nat \ {0}, NEW s \in StateType, NEW m
  PROVE  LET x == Exit(p, s, m) IN
         /\ x.st \in StateType /\ x.st.best = s.best
         /\ \/ x.adv = <<>> /\ \A flag \in Flags : x.st[flag] = s[flag]
            \/ \E c \in CommandType : /\ x.adv = <<c>> /\ c.act = "CLOSE"
                                      /\ c.lots <= p.lots /\ 10 * c.lots >= 4 * p.lots - 5
                                      /\ \A flag \in Flags : /\ s[flag] => x.st[flag]
                                                             /\ Takes(c, flag) <=> x.st[flag] /\ ~s[flag]
<1> DEFINE x == Exit(p, s, m)
           part == Part(p.lots, 4, 1)
<1>1. part \in Nat /\ part <= p.lots /\ 10 * part >= 4 * p.lots - 5 /\ 10 * p.lots >= 4 * p.lots - 5
  BY ShareIsPart
<1> HIDE DEF part
<1>2. ASSUME NEW lots \in Nat, lots <= p.lots, 10 * lots >= 4 * p.lots - 5,
             NEW why, NEW st \in StateType, x = [adv |-> <<Close(lots, why)>>, st |-> st], st.best = s.best,
             \/ why \in {"TP1", "key_level"} /\ ~s.tp1 /\ st.tp1 /\ st.tp2 = s.tp2
             \/ why \in {"TP2", "key_level2"} /\ ~s.tp2 /\ st.tp2 /\ st.tp1 = s.tp1
             \/ why \in {"reversal", "trail"} /\ st.tp1 = s.tp1 /\ st.tp2 = s.tp2
      PROVE  /\ x.st \in StateType /\ x.st.best = s.best
             /\ \E c \in CommandType : /\ x.adv = <<c>> /\ c.act = "CLOSE"
                                       /\ c.lots <= p.lots /\ 10 * c.lots >= 4 * p.lots - 5
                                       /\ \A flag \in Flags : /\ s[flag] => x.st[flag]
                                                              /\ Takes(c, flag) <=> x.st[flag] /\ ~s[flag]
  <2> DEFINE c == Close(lots, why)
  <2>1. c \in CommandType
    BY <1>2 DEF CommandType, Close, TP1Reasons, TP2Reasons
  <2>2. c.act = "CLOSE" /\ c.lots = lots /\ c.why = why
    BY DEF Close
  <2> HIDE DEF c, x
  <2>3. \A flag \in Flags : /\ s[flag] => st[flag]
                            /\ Takes(c, flag) <=> st[flag] /\ ~s[flag]
    BY <1>2, <2>2 DEF Takes, Flags, TakeReasons, TP1Reasons, TP2Reasons, StateType
  <2> QED
    BY <1>2, <2>1, <2>2, <2>3 DEF c
<1>3. CASE TP1Due(p, s, m)
  <2> DEFINE st == [s EXCEPT !.tp1 = TRUE]
  <2>1. x = [adv |-> <<Close(part, "TP1")>>, st |-> st]
    BY <1>3 DEF Exit, part
  <2>2. st \in StateType /\ st.best = s.best /\ ~s.tp1 /\ st.tp1 /\ st.tp2 = s.tp2
    BY <1>3 DEF TP1Due, StateType
  <2> HIDE DEF st, x
  <2> QED
    BY <1>1, <1>2, <2>1, <2>2 DEF x
<1>4. CASE ~TP1Due(p, s, m) /\ AtKeyLevel(p, m) /\ ~s.tp1
  <2> DEFINE st == [s EXCEPT !.tp1 = TRUE]
  <2>1. x = [adv |-> <<Close(part, "key_level")>>, st |-> st]
    BY <1>4 DEF Exit, part
  <2>2. st \in StateType /\ st.best = s.best /\ ~s.tp1 /\ st.tp1 /\ st.tp2 = s.tp2
    BY <1>4 DEF StateType
  <2> HIDE DEF st, x
  <2> QED
    BY <1>1, <1>2, <2>1, <2>2 DEF x
<1> DEFINE first == TP1Due(p, s, m) \/ (AtKeyLevel(p, m) /\ ~s.tp1)
           second == AtKeyLevel(p, m) /\ ~s.tp2 /\ Profit(p, m) > 20
<1>5. CASE ~first /\ second
  <2> DEFINE st == [s EXCEPT !.tp2 = TRUE]
  <2>1. x = [adv |-> <<Close(part, "key_level2")>>, st |-> st]
    BY <1>5 DEF Exit, part
  <2>2. st \in StateType /\ st.best = s.best /\ ~s.tp2 /\ st.tp2 /\ st.tp1 = s.tp1
    BY <1>5 DEF StateType
  <2> HIDE DEF st, x
  <2> QED
    BY <1>1, <1>2, <2>1, <2>2 DEF x
<1>6. CASE ~first /\ ~second /\ TP2Due(p, s, m)
  <2> DEFINE st == [s EXCEPT !.tp2 = TRUE]
  <2>1. x = [adv |-> <<Close(part, "TP2")>>, st |-> st]
    BY <1>6 DEF Exit, part
  <2>2. st \in StateType /\ st.best = s.best /\ ~s.tp2 /\ st.tp2 /\ st.tp1 = s.tp1
    BY <1>6 DEF TP2Due, StateType
  <2> HIDE DEF st, x
  <2> QED
    BY <1>1, <1>2, <2>1, <2>2 DEF x
<1>7. CASE ~first /\ ~second /\ ~TP2Due(p, s, m) /\ Reverses(p, s, m)
  <2>1. x = [adv |-> <<Close(p.lots, "reversal")>>, st |-> s]
    BY <1>7 DEF Exit
  <2> HIDE DEF x
  <2> QED
    BY <1>1, <1>2, <2>1 DEF x
<1>8. CASE ~first /\ ~second /\ ~TP2Due(p, s, m) /\ ~Reverses(p, s, m) /\ Trails(p, s, m)
  <2> DEFINE st == [s EXCEPT !.trailing = TRUE]
  <2>1. x = [adv |-> <<Close(p.lots, "trail")>>, st |-> st]
    BY <1>8 DEF Exit
  <2>2. st \in StateType /\ st.best = s.best /\ st.tp1 = s.tp1 /\ st.tp2 = s.tp2
    BY DEF StateType
  <2> HIDE DEF st, x
  <2> QED
    BY <1>1, <1>2, <2>1, <2>2 DEF x
<1>9. CASE ~first /\ ~second /\ ~TP2Due(p, s, m) /\ ~Reverses(p, s, m) /\ ~Trails(p, s, m)
  <2>1. x = [adv |-> <<>>, st |-> s]
    BY <1>9 DEF Exit
  <2> QED
    BY <2>1
<1> QED
  BY <1>3, <1>4, <1>5, <1>6, <1>7, <1>8, <1>9

\* One position alone: what it gets keeps its stop, its lots and its flags.
LEMMA SingleIsKept ==
  ASSUME NEW p \in PositionType, NEW old, \A u \in DOMAIN old : old[u] \in StateType,
         NEW t, NEW m \in MarketType
  PROVE  Kept(p, old, t, m, 2, Single(p, t, old, m))
<1> DEFINE s == Analyzed(p, t, old, m)
           lock == Locked(p, ResetStale(p, s), m)
           exit == Exit(p, lock.st, m)
           timed == TimeStop(p, s, m)
<1>0. /\ p.side \in Sides /\ p.sl \in Nat /\ p.lots \in Nat \ {0}
  BY DEF PositionType
<1>1. /\ s \in StateType
      /\ p.sl # 0 => s.best # 0 /\ Beyond(p.side, p.sl, s.best) >= 0
      /\ \A flag \in Flags : s[flag] <=> Had(old, t, flag)
  BY AnalyzedIsTyped
<1> HIDE DEF s
<1>2. CASE timed # <<>>
  <2>1. Single(p, t, old, m) = [adv |-> Alone(timed), st |-> s]
    BY <1>2 DEF Single, s
  <2>2. \E c \in CommandType : /\ timed = <<c>> /\ c.act = "CLOSE" /\ c.why \in {"time", "time_72h"}
                               /\ c.lots <= p.lots /\ 10 * c.lots >= 4 * p.lots - 5
    <3>1. CASE OlderThan(s, m, 72) /\ ~s.tp2
      <4> DEFINE c == Close(Part(p.lots, 5, 3), "time_72h")
      <4>1. timed = <<c>>
        BY <3>1 DEF TimeStop
      <4>2. /\ Part(p.lots, 5, 3) \in Nat /\ Part(p.lots, 5, 3) <= p.lots
            /\ 10 * Part(p.lots, 5, 3) >= 4 * p.lots - 5
        BY <1>0, ShareIsPart
      <4> HIDE DEF timed
      <4> QED
        BY <4>1, <4>2 DEF CommandType, Close
    <3>2. CASE ~(OlderThan(s, m, 72) /\ ~s.tp2)
      <4> DEFINE c == Close(p.lots, "time")
      <4>1. timed = <<c>>
        BY <1>2, <3>2 DEF TimeStop
      <4> HIDE DEF timed
      <4> QED
        BY <1>0, <4>1 DEF CommandType, Close
    <3> QED
      BY <3>1, <3>2
  <2>3. PICK c \in CommandType : /\ timed = <<c>> /\ c.act = "CLOSE" /\ c.why \in {"time", "time_72h"}
                                 /\ c.lots <= p.lots /\ 10 * c.lots >= 4 * p.lots - 5
    BY <2>2
  <2> HIDE DEF timed
  <2>4. timed \in Seq(CommandType) /\ Len(timed) = 1 /\ timed[1] = c
    BY <2>3
  <2>5. FlagsKept(old, t, [adv |-> Alone(timed), st |-> s])
    <3> DEFINE x == [adv |-> Alone(timed), st |-> s]
    <3>1. \A k \in DOMAIN Rules : \A i \in DOMAIN x.adv[Rules[k]] : x.adv[Rules[k]][i] = c
      <4> SUFFICES ASSUME NEW k \in 1 .. 6, NEW i \in DOMAIN x.adv[Rules[k]]
                   PROVE  x.adv[Rules[k]][i] = c
        BY RulesAreSix
      <4>1. x.adv[Rules[k]] = IF Rules[k] = "own" THEN timed ELSE <<>>
        BY RulesAreSix DEF Alone
      <4> HIDE DEF x
      <4>2. x.adv[Rules[k]] = timed
        BY <4>1
      <4> QED
        BY <2>4, <4>2
    <3>2. \A flag \in Flags : ~Takes(c, flag)
      BY <2>3 DEF Flags, Takes, TakeReasons, TP1Reasons, TP2Reasons
    <3>3. x.st = s
      OBVIOUS
    <3> HIDE DEF x
    <3>4. \A flag \in Flags : ~(\E k \in DOMAIN Rules : \E i \in DOMAIN x.adv[Rules[k]] : Takes(x.adv[Rules[k]][i], flag))
      BY <3>1, <3>2
    <3> QED
      BY <1>1, <3>3, <3>4 DEF FlagsKept, x
  <2>6. \A i \in 1 .. Len(timed) : timed[i] = c /\ i = 1 /\ i = Len(timed)
    BY <2>4
  <2>7. \A i \in 1 .. Len(timed) : timed[i].act # "MODIFY"
    BY <2>3, <2>6
  <2>8. \A i \in 1 .. Len(timed) :
          i = Len(timed) /\ timed[i].lots <= p.lots /\ 10 * timed[i].lots >= 4 * p.lots - 5
    BY <2>3, <2>6
  <2>9. Kept(p, old, t, m, 2, [adv |-> Alone(timed), st |-> s])
    BY <1>1, <2>4, <2>5, <2>7, <2>8, OwnIsKept
  <2> QED
    BY <2>1, <2>9
<1>3. CASE timed = <<>>
  <2>1. Single(p, t, old, m) = [adv |-> Alone(lock.adv \o exit.adv), st |-> exit.st]
    BY <1>3 DEF Single, s
  <2>2. /\ lock.st \in StateType /\ lock.st.tp1 = s.tp1 /\ lock.st.tp2 = s.tp2
        /\ p.sl # 0 => lock.st.best # 0 /\ Beyond(p.side, p.sl, lock.st.best) >= 0
        /\ \/ lock.adv = <<>>
           \/ /\ lock.adv = <<Modify(lock.st.best, "lock")>> /\ lock.st.best # 0
              /\ p.sl = 0 \/ Beyond(p.side, p.sl, lock.st.best) > 0
              /\ Beyond(p.side, lock.st.best, m.price) > 0
    BY <1>1, LockIsSound
  <2> HIDE DEF lock
  <2>3. /\ exit.st \in StateType /\ exit.st.best = lock.st.best
        /\ \/ exit.adv = <<>> /\ \A flag \in Flags : exit.st[flag] = lock.st[flag]
           \/ \E c \in CommandType : /\ exit.adv = <<c>> /\ c.act = "CLOSE"
                                     /\ c.lots <= p.lots /\ 10 * c.lots >= 4 * p.lots - 5
                                     /\ \A flag \in Flags : /\ lock.st[flag] => exit.st[flag]
                                                            /\ Takes(c, flag) <=> exit.st[flag] /\ ~lock.st[flag]
    BY <1>0, <2>2, ExitIsSound
  <2> HIDE DEF exit
  <2> DEFINE own == lock.adv \o exit.adv
  <2>4. \A flag \in Flags : lock.st[flag] <=> Had(old, t, flag)
    BY <1>1, <2>2 DEF Flags
  <2> DEFINE move == Modify(lock.st.best, "lock")
  <2>5. lock.adv = <<>> \/ lock.adv = <<move>>
    BY <2>2
  <2>6. /\ move \in CommandType /\ move.act = "MODIFY" /\ move.sl = lock.st.best
        /\ \A flag \in Flags : ~Takes(move, flag)
    BY <2>2 DEF Modify, CommandType, StateType, Takes
  <2>10. lock.adv # <<>> =>
           /\ lock.st.best # 0 /\ Beyond(p.side, lock.st.best, lock.st.best) >= 0
           /\ p.sl = 0 \/ Beyond(p.side, p.sl, lock.st.best) > 0
           /\ Beyond(p.side, lock.st.best, m.price) > 0
    <3>1. Beyond(p.side, lock.st.best, lock.st.best) >= 0
      BY <2>2 DEF Beyond, StateType
    <3> QED
      BY <2>2, <3>1
  <2> HIDE DEF move
  <2>7. CASE exit.adv = <<>> /\ \A flag \in Flags : exit.st[flag] = lock.st[flag]
    <3>1. own = lock.adv
      BY <2>5, <2>7
    <3> HIDE DEF own
    <3>2. /\ own \in Seq(CommandType)
          /\ \A i \in 1 .. Len(own) : i = 1 /\ own[i] = move /\ lock.adv # <<>>
      <4>1. CASE lock.adv = <<>>
        BY <3>1, <4>1
      <4>2. CASE lock.adv = <<move>>
        BY <2>6, <3>1, <4>2
      <4> QED
        BY <2>5, <4>1, <4>2
    <3>3. FlagsKept(old, t, [adv |-> Alone(own), st |-> exit.st])
      <4>1. DOMAIN own = 1 .. Len(own)
        BY <3>2
      <4>2. \A i \in DOMAIN own : \A flag \in Flags : ~Takes(own[i], flag)
        BY <2>6, <3>2, <4>1
      <4> QED
        BY <2>4, <2>7, <3>2, <4>2, OwnFlags
    <3>4. \A i \in 1 .. Len(own) :
            /\ own[i].act = "MODIFY" /\ own[i].act # "CLOSE" /\ i = 1
            /\ exit.st.best # 0 /\ Beyond(p.side, own[i].sl, exit.st.best) >= 0
            /\ p.sl = 0 \/ Beyond(p.side, p.sl, own[i].sl) > 0
            /\ Beyond(p.side, own[i].sl, m.price) > 0
      BY <2>3, <2>6, <2>10, <3>2
    <3>5. Kept(p, old, t, m, 2, [adv |-> Alone(own), st |-> exit.st])
      BY <2>2, <2>3, <3>2, <3>3, <3>4, OwnIsKept
    <3> QED
      BY <2>1, <3>5 DEF own
  <2>8. ASSUME NEW c \in CommandType, exit.adv = <<c>>, c.act = "CLOSE",
               c.lots <= p.lots /\ 10 * c.lots >= 4 * p.lots - 5,
               \A flag \in Flags : /\ lock.st[flag] => exit.st[flag]
                                   /\ Takes(c, flag) <=> exit.st[flag] /\ ~lock.st[flag]
        PROVE  Kept(p, old, t, m, 2, Single(p, t, old, m))
    <3>2. /\ own \in Seq(CommandType) /\ Len(own) \in 1 .. 2 /\ own[Len(own)] = c
          /\ DOMAIN own = 1 .. Len(own)
          /\ \A i \in 1 .. Len(own) : \/ i = Len(own) /\ own[i] = c
                                      \/ i = 1 /\ own[i] = move /\ lock.adv # <<>>
      <4>1. CASE lock.adv = <<>>
        <5>1. own = <<c>>
          BY <2>8, <4>1
        <5> HIDE DEF own
        <5>2. own \in Seq(CommandType) /\ Len(own) = 1 /\ own[1] = c /\ DOMAIN own = 1 .. 1
          BY <2>8, <5>1
        <5> QED
          BY <5>2
      <4>2. CASE lock.adv = <<move>>
        <5>1. own = <<move>> \o <<c>> /\ lock.adv # <<>>
          BY <2>8, <4>2
        <5> HIDE DEF own
        <5>2. own \in Seq(CommandType) /\ Len(own) = 2 /\ own[1] = move /\ own[2] = c /\ DOMAIN own = 1 .. 2
          BY <2>6, <2>8, <5>1
        <5>3. Len(own) \in 1 .. 2 /\ own[Len(own)] = c /\ DOMAIN own = 1 .. Len(own)
          BY <5>2
        <5>4. \A i \in 1 .. Len(own) : i = 1 \/ i = Len(own)
          BY <5>2
        <5> QED
          BY <5>1, <5>2, <5>3, <5>4
      <4> QED
        BY <2>5, <4>1, <4>2
    <3> HIDE DEF own
    <3>3. FlagsKept(old, t, [adv |-> Alone(own), st |-> exit.st])
      <4>1. DOMAIN own = 1 .. Len(own) /\ Len(own) \in DOMAIN own
        <5>1. DOMAIN own = 1 .. Len(own) /\ Len(own) \in 1 .. 2
          BY <3>2
        <5> QED
          BY <5>1
      <4>2. \A flag \in Flags : (\E i \in DOMAIN own : Takes(own[i], flag)) <=> Takes(c, flag)
        BY <2>6, <3>2, <4>1
      <4> QED
        BY <2>4, <2>8, <3>2, <4>2, OwnFlags
    <3>4. \A i \in 1 .. Len(own) : own[i].act = "MODIFY" =>
            /\ i = 1
            /\ exit.st.best # 0 /\ Beyond(p.side, own[i].sl, exit.st.best) >= 0
            /\ p.sl = 0 \/ Beyond(p.side, p.sl, own[i].sl) > 0
            /\ Beyond(p.side, own[i].sl, m.price) > 0
      BY <2>3, <2>6, <2>8, <2>10, <3>2
    <3>5. \A i \in 1 .. Len(own) : own[i].act = "CLOSE" =>
            i = Len(own) /\ own[i].lots <= p.lots /\ 10 * own[i].lots >= 4 * p.lots - 5
      BY <2>6, <2>8, <3>2
    <3>6. Kept(p, old, t, m, 2, [adv |-> Alone(own), st |-> exit.st])
      BY <2>2, <2>3, <3>2, <3>3, <3>4, <3>5, OwnIsKept
    <3> QED
      BY <2>1, <3>6 DEF own
  <2> QED
    BY <2>3, <2>7, <2>8
<1> QED
  BY <1>2, <1>3

\* A rule that adds nothing keeps what holds.
LEMMA NothingAdded ==
  ASSUME NEW p, NEW old, NEW t, NEW m, NEW k \in 2 .. 6, NEW x, Kept(p, old, t, m, k, x)
  PROVE  Kept(p, old, t, m, k + 1, x)
<1>1. \A l \in (k + 1) .. 6 : l \in k .. 6
  OBVIOUS
<1> QED
  BY <1>1 DEF Kept

\* The commands after the k-th rule added one: the one added, or an earlier one.
AddsOne(adv, k, c, more) ==
  /\ more \in [RuleNames -> Seq(CommandType)]
  /\ \A l \in (k + 1) .. 6 : more[Rules[l]] = <<>>
  /\ DOMAIN more[Rules[k]] = {1} /\ more[Rules[k]][1] = c
  /\ \A l \in DOMAIN Rules : \A i \in DOMAIN more[Rules[l]] :
       \/ l = k /\ i = 1 /\ more[Rules[l]][i] = c
       \/ l < k /\ i \in DOMAIN adv[Rules[l]] /\ more[Rules[l]][i] = adv[Rules[l]][i]
  /\ \A l \in DOMAIN Rules : \A i \in DOMAIN adv[Rules[l]] :
       l < k /\ i \in DOMAIN more[Rules[l]] /\ more[Rules[l]][i] = adv[Rules[l]][i]

\* A rule that nothing followed adds one command.
LEMMA OneAdded ==
  ASSUME NEW adv \in [RuleNames -> Seq(CommandType)], NEW k \in 2 .. 6,
         \A l \in k .. 6 : adv[Rules[l]] = <<>>,
         NEW c \in CommandType
  PROVE  AddsOne(adv, k, c, [adv EXCEPT ![Rules[k]] = <<c>>])
<1> DEFINE more == [adv EXCEPT ![Rules[k]] = <<c>>]
<1>1. \A l \in 1 .. 6 : Rules[l] \in RuleNames
  BY RulesAreSix
<1>2. /\ more \in [RuleNames -> Seq(CommandType)] /\ more[Rules[k]] = <<c>>
      /\ \A l \in 1 .. 6 : l # k => more[Rules[l]] = adv[Rules[l]]
  <2>1. k \in 1 .. 6
    OBVIOUS
  <2>2. <<c>> \in Seq(CommandType)
    OBVIOUS
  <2>3. \A l \in 1 .. 6 : l # k => Rules[l] # Rules[k]
    BY <2>1, RulesAreSix
  <2> QED
    BY <1>1, <2>1, <2>2, <2>3
<1>3. DOMAIN more[Rules[k]] = {1} /\ more[Rules[k]][1] = c
  BY <1>2
<1>4. \A l \in (k + 1) .. 6 : more[Rules[l]] = <<>>
  <2> SUFFICES ASSUME NEW l \in (k + 1) .. 6 PROVE more[Rules[l]] = <<>>
    OBVIOUS
  <2>1. l \in 1 .. 6 /\ l # k /\ l \in k .. 6
    OBVIOUS
  <2> QED
    BY <1>2, <2>1
<1>5. \A l \in k .. 6 : DOMAIN adv[Rules[l]] = {}
  <2>1. DOMAIN <<>> = {}
    OBVIOUS
  <2> QED
    BY <2>1
<1>6. \A l \in 1 .. 6 : l = k \/ (l < k /\ more[Rules[l]] = adv[Rules[l]]) \/ l \in (k + 1) .. 6
  BY <1>2
<1>7. ASSUME NEW l \in 1 .. 6, NEW i \in DOMAIN more[Rules[l]]
      PROVE  \/ l = k /\ i = 1 /\ more[Rules[l]][i] = c
             \/ l < k /\ i \in DOMAIN adv[Rules[l]] /\ more[Rules[l]][i] = adv[Rules[l]][i]
  <2>1. CASE l = k
    BY <1>3, <1>7, <2>1
  <2>2. CASE l < k /\ more[Rules[l]] = adv[Rules[l]]
    BY <1>7, <2>2
  <2>3. CASE l \in (k + 1) .. 6
    <3>1. more[Rules[l]] = <<>>
      BY <1>4, <2>3
    <3> QED
      BY <1>7, <3>1
  <2> QED
    BY <1>6, <2>1, <2>2, <2>3
<1>8. ASSUME NEW l \in 1 .. 6, NEW i \in DOMAIN adv[Rules[l]]
      PROVE  l < k /\ i \in DOMAIN more[Rules[l]] /\ more[Rules[l]][i] = adv[Rules[l]][i]
  <2>1. l \notin k .. 6
    BY <1>5
  <2>2. l < k
    BY <2>1
  <2> QED
    BY <1>2, <2>2
<1> HIDE DEF more
<1>9. AddsOne(adv, k, c, more)
  BY <1>2, <1>3, <1>4, <1>7, <1>8, RulesAreSix DEF AddsOne
<1> QED
  BY <1>9 DEF more

\* A rule may add a close of enough lots that takes the targets whose flags it sets.
LEMMA CloseAdded ==
  ASSUME NEW p, NEW old, NEW t, NEW m, NEW k \in 2 .. 6, NEW x, Kept(p, old, t, m, k, x),
         NEW c \in CommandType, c.act = "CLOSE", c.lots <= p.lots, 10 * c.lots >= 4 * p.lots - 5,
         NEW st \in StateType, st.best = x.st.best,
         \A flag \in Flags : /\ x.st[flag] => st[flag]
                             /\ Takes(c, flag) <=> st[flag] /\ ~x.st[flag]
  PROVE  Kept(p, old, t, m, k + 1, [adv |-> [x.adv EXCEPT ![Rules[k]] = <<c>>], st |-> st])
<1> DEFINE adv == x.adv
           more == [adv EXCEPT ![Rules[k]] = <<c>>]
           y == [adv |-> more, st |-> st]
<1>1. /\ adv \in [RuleNames -> Seq(CommandType)]
      /\ \A l \in k .. 6 : adv[Rules[l]] = <<>>
  BY DEF Kept, AdviceType
<1>2. /\ more \in [RuleNames -> Seq(CommandType)]
      /\ \A l \in (k + 1) .. 6 : more[Rules[l]] = <<>>
      /\ DOMAIN more[Rules[k]] = {1} /\ more[Rules[k]][1] = c
      /\ \A l \in DOMAIN Rules : \A i \in DOMAIN more[Rules[l]] :
           \/ l = k /\ i = 1 /\ more[Rules[l]][i] = c
           \/ l < k /\ i \in DOMAIN adv[Rules[l]] /\ more[Rules[l]][i] = adv[Rules[l]][i]
      /\ \A l \in DOMAIN Rules : \A i \in DOMAIN adv[Rules[l]] :
           l < k /\ i \in DOMAIN more[Rules[l]] /\ more[Rules[l]][i] = adv[Rules[l]][i]
  <2>1. AddsOne(adv, k, c, more)
    BY <1>1, OneAdded
  <2> HIDE DEF adv, more
  <2> QED
    BY <2>1 DEF AddsOne
<1>3. k \in DOMAIN Rules
  BY RulesAreSix
<1>4. y.adv = more /\ y.st = st /\ y \in AdviceType
  BY <1>2 DEF AdviceType
<1>5. StopsKept(p, m, x) /\ OrderKept(p, x) /\ ClosesKept(p, x) /\ FlagsKept(old, t, x)
  BY DEF Kept
<1> HIDE DEF more, y
<1>6. StopsKept(p, m, y)
  <2>1. p.sl # 0 => y.st.best # 0 /\ Beyond(p.side, p.sl, y.st.best) >= 0
    BY <1>4, <1>5 DEF StopsKept
  <2>2. ASSUME NEW l \in DOMAIN Rules, NEW i \in DOMAIN y.adv[Rules[l]], y.adv[Rules[l]][i].act = "MODIFY"
        PROVE  i \in DOMAIN adv[Rules[l]] /\ y.adv[Rules[l]][i] = adv[Rules[l]][i]
    BY <1>2, <1>4, <2>2
  <2>3. st.best = x.st.best /\ y.st.best = x.st.best
    BY <1>4
  <2> QED
    BY <1>5, <2>1, <2>2, <2>3 DEF StopsKept
<1>7. ClosesKept(p, y)
  BY <1>2, <1>4, <1>5 DEF ClosesKept
<1>8. FlagsKept(old, t, y)
  <2> SUFFICES ASSUME NEW flag \in Flags
               PROVE  /\ Had(old, t, flag) => st[flag]
                      /\ (st[flag] /\ ~Had(old, t, flag)) <=>
                           \E l \in DOMAIN Rules : \E i \in DOMAIN more[Rules[l]] : Takes(more[Rules[l]][i], flag)
    BY <1>4 DEF FlagsKept
  <2>1. /\ Had(old, t, flag) => x.st[flag]
        /\ (x.st[flag] /\ ~Had(old, t, flag)) <=>
             \E l \in DOMAIN Rules : \E i \in DOMAIN adv[Rules[l]] : Takes(adv[Rules[l]][i], flag)
    BY <1>5 DEF FlagsKept
  <2>2. (\E l \in DOMAIN Rules : \E i \in DOMAIN more[Rules[l]] : Takes(more[Rules[l]][i], flag)) <=>
           \/ Takes(c, flag)
           \/ \E l \in DOMAIN Rules : \E i \in DOMAIN adv[Rules[l]] : Takes(adv[Rules[l]][i], flag)
    <3>1. ASSUME NEW l \in DOMAIN Rules, NEW i \in DOMAIN more[Rules[l]], Takes(more[Rules[l]][i], flag)
          PROVE  \/ Takes(c, flag)
                 \/ \E h \in DOMAIN Rules : \E j \in DOMAIN adv[Rules[h]] : Takes(adv[Rules[h]][j], flag)
      <4>1. more[Rules[l]][i] = c \/ (i \in DOMAIN adv[Rules[l]] /\ more[Rules[l]][i] = adv[Rules[l]][i])
        BY <1>2
      <4> QED
        BY <3>1, <4>1
    <3>2. ASSUME Takes(c, flag)
          PROVE  \E l \in DOMAIN Rules : \E i \in DOMAIN more[Rules[l]] : Takes(more[Rules[l]][i], flag)
      <4>1. 1 \in DOMAIN more[Rules[k]] /\ Takes(more[Rules[k]][1], flag)
        BY <1>2, <3>2
      <4> QED
        BY <1>3, <4>1
    <3>3. ASSUME NEW l \in DOMAIN Rules, NEW i \in DOMAIN adv[Rules[l]], Takes(adv[Rules[l]][i], flag)
          PROVE  \E h \in DOMAIN Rules : \E j \in DOMAIN more[Rules[h]] : Takes(more[Rules[h]][j], flag)
      <4>1. i \in DOMAIN more[Rules[l]] /\ more[Rules[l]][i] = adv[Rules[l]][i]
        BY <1>2
      <4> QED
        BY <3>3, <4>1
    <3> QED
      BY <3>1, <3>2, <3>3
  <2> QED
    BY <2>1, <2>2
<1>9. OrderKept(p, y)
  <2> SUFFICES ASSUME NEW l \in DOMAIN Rules, NEW n \in DOMAIN Rules,
                      NEW i \in DOMAIN more[Rules[l]], NEW j \in DOMAIN more[Rules[n]],
                      Earlier(l, i, n, j)
               PROVE  LET d == more[Rules[l]][i]
                          e == more[Rules[n]][j]
                      IN /\ d.act = "MODIFY" /\ e.act = "MODIFY" => Beyond(p.side, d.sl, e.sl) > 0
                         /\ \A flag \in Flags : ~(Takes(d, flag) /\ Takes(e, flag))
    BY <1>4 DEF OrderKept
  <2>1. CASE l < k /\ n < k
    <3>1. /\ i \in DOMAIN adv[Rules[l]] /\ more[Rules[l]][i] = adv[Rules[l]][i]
          /\ j \in DOMAIN adv[Rules[n]] /\ more[Rules[n]][j] = adv[Rules[n]][j]
      BY <1>2, <2>1
    <3>2. LET d == adv[Rules[l]][i]
              e == adv[Rules[n]][j]
          IN /\ d.act = "MODIFY" /\ e.act = "MODIFY" => Beyond(p.side, d.sl, e.sl) > 0
             /\ \A flag \in Flags : ~(Takes(d, flag) /\ Takes(e, flag))
      BY <1>5, <3>1 DEF OrderKept
    <3> QED
      BY <3>1, <3>2
  <2>2. CASE n = k /\ l < k
    <3>1. more[Rules[n]][j] = c
      BY <1>2, <2>2
    <3>2. i \in DOMAIN adv[Rules[l]] /\ more[Rules[l]][i] = adv[Rules[l]][i]
      BY <1>2, <2>2
    <3>3. \A flag \in Flags : Takes(adv[Rules[l]][i], flag) => x.st[flag]
      BY <1>5, <3>2 DEF FlagsKept
    <3> QED
      BY <3>1, <3>2, <3>3
  <2>3. CASE ~(l < k /\ n < k) /\ ~(n = k /\ l < k)
    <3>1. l = k /\ i = 1
      BY <1>2, <2>3 DEF Earlier
    <3>2. (n = k /\ j = 1) \/ n < k
      BY <1>2
    <3>3. l \in Int /\ n \in Int
      BY RulesAreSix
    <3> QED
      BY <3>1, <3>2, <3>3 DEF Earlier
  <2> QED
    BY <2>1, <2>2, <2>3
<1> QED
  BY <1>2, <1>4, <1>6, <1>7, <1>8, <1>9 DEF Kept, y, more

\* A rule may add a stop that is ahead of the best one and behind the market.
LEMMA MoveAdded ==
  ASSUME NEW p, p.side \in Sides, p.sl \in Nat, NEW old, NEW t, NEW m, NEW k \in 2 .. 6,
         NEW x, Kept(p, old, t, m, k, x),
         NEW c \in CommandType, c.act = "MODIFY", c.sl # 0, Beyond(p.side, c.sl, m.price) > 0,
         x.st.best = 0 \/ Beyond(p.side, x.st.best, c.sl) > 0,
         NEW st \in StateType, st.best = c.sl, \A flag \in Flags : st[flag] = x.st[flag]
  PROVE  Kept(p, old, t, m, k + 1, [adv |-> [x.adv EXCEPT ![Rules[k]] = <<c>>], st |-> st])
<1> DEFINE adv == x.adv
           more == [adv EXCEPT ![Rules[k]] = <<c>>]
           y == [adv |-> more, st |-> st]
<1>1. /\ adv \in [RuleNames -> Seq(CommandType)]
      /\ \A l \in k .. 6 : adv[Rules[l]] = <<>>
  BY DEF Kept, AdviceType
<1>2. /\ more \in [RuleNames -> Seq(CommandType)]
      /\ \A l \in (k + 1) .. 6 : more[Rules[l]] = <<>>
      /\ DOMAIN more[Rules[k]] = {1} /\ more[Rules[k]][1] = c
      /\ \A l \in DOMAIN Rules : \A i \in DOMAIN more[Rules[l]] :
           \/ l = k /\ i = 1 /\ more[Rules[l]][i] = c
           \/ l < k /\ i \in DOMAIN adv[Rules[l]] /\ more[Rules[l]][i] = adv[Rules[l]][i]
      /\ \A l \in DOMAIN Rules : \A i \in DOMAIN adv[Rules[l]] :
           l < k /\ i \in DOMAIN more[Rules[l]] /\ more[Rules[l]][i] = adv[Rules[l]][i]
  <2>1. AddsOne(adv, k, c, more)
    BY <1>1, OneAdded
  <2> HIDE DEF adv, more
  <2> QED
    BY <2>1 DEF AddsOne
<1>3. k \in DOMAIN Rules
  BY RulesAreSix
<1>4. y.adv = more /\ y.st = st /\ y \in AdviceType
  BY <1>2 DEF AdviceType
<1>5. StopsKept(p, m, x) /\ OrderKept(p, x) /\ ClosesKept(p, x) /\ FlagsKept(old, t, x)
  BY DEF Kept
<1>6. x.st.best \in Nat /\ c.sl \in Nat \ {0} /\ p.sl \in Nat /\ p.side \in Sides
  BY DEF Kept, AdviceType, StateType, CommandType
<1>7. \A l \in DOMAIN Rules : \A i \in DOMAIN adv[Rules[l]] :
        adv[Rules[l]][i].sl \in Nat /\ ~Takes(c, "tp1") /\ ~Takes(c, "tp2")
  <2>1. ~Takes(c, "tp1") /\ ~Takes(c, "tp2")
    BY DEF Takes
  <2> SUFFICES ASSUME NEW l \in DOMAIN Rules, NEW i \in DOMAIN adv[Rules[l]]
               PROVE  adv[Rules[l]][i].sl \in Nat
    BY <2>1
  <2>2. adv[Rules[l]] \in Seq(CommandType)
    BY <1>1, RulesAreSix
  <2> HIDE DEF adv
  <2>3. adv[Rules[l]][i] \in CommandType
    BY <2>2
  <2> QED
    BY <2>3 DEF CommandType
<1> HIDE DEF more, y
<1>8. \A l \in DOMAIN Rules : \A i \in DOMAIN adv[Rules[l]] : adv[Rules[l]][i].act = "MODIFY" =>
        Beyond(p.side, adv[Rules[l]][i].sl, c.sl) > 0
  <2> SUFFICES ASSUME NEW l \in DOMAIN Rules, NEW i \in DOMAIN adv[Rules[l]], adv[Rules[l]][i].act = "MODIFY"
               PROVE  Beyond(p.side, adv[Rules[l]][i].sl, c.sl) > 0
    OBVIOUS
  <2>1. x.st.best # 0 /\ Beyond(p.side, adv[Rules[l]][i].sl, x.st.best) >= 0
    BY <1>5 DEF StopsKept
  <2>2. adv[Rules[l]][i].sl \in Nat
    BY <1>7
  <2> QED
    BY <1>6, <2>1, <2>2 DEF Beyond
<1>9. p.sl = 0 \/ Beyond(p.side, p.sl, c.sl) > 0
  <2>1. p.sl # 0 => x.st.best # 0 /\ Beyond(p.side, p.sl, x.st.best) >= 0
    BY <1>5 DEF StopsKept
  <2> QED
    BY <1>6, <2>1 DEF Beyond
<1>10. StopsKept(p, m, y)
  <2>1. Beyond(p.side, c.sl, c.sl) >= 0 /\ (p.sl = 0 \/ Beyond(p.side, p.sl, c.sl) >= 0)
    BY <1>6, <1>9 DEF Beyond
  <2>2. \A l \in DOMAIN Rules : \A i \in DOMAIN more[Rules[l]] : more[Rules[l]][i].act = "MODIFY" =>
          /\ Beyond(p.side, more[Rules[l]][i].sl, c.sl) >= 0
          /\ p.sl = 0 \/ Beyond(p.side, p.sl, more[Rules[l]][i].sl) > 0
          /\ Beyond(p.side, more[Rules[l]][i].sl, m.price) > 0
    <3> SUFFICES ASSUME NEW l \in DOMAIN Rules, NEW i \in DOMAIN more[Rules[l]], more[Rules[l]][i].act = "MODIFY"
                 PROVE  /\ Beyond(p.side, more[Rules[l]][i].sl, c.sl) >= 0
                        /\ p.sl = 0 \/ Beyond(p.side, p.sl, more[Rules[l]][i].sl) > 0
                        /\ Beyond(p.side, more[Rules[l]][i].sl, m.price) > 0
      OBVIOUS
    <3>1. CASE more[Rules[l]][i] = c
      BY <1>9, <2>1, <3>1
    <3>2. CASE i \in DOMAIN adv[Rules[l]] /\ more[Rules[l]][i] = adv[Rules[l]][i]
      <4>1. Beyond(p.side, adv[Rules[l]][i].sl, c.sl) > 0 /\ adv[Rules[l]][i].sl \in Nat
        BY <1>7, <1>8, <3>2
      <4>2. Beyond(p.side, adv[Rules[l]][i].sl, c.sl) >= 0
        BY <1>6, <4>1 DEF Beyond
      <4>3. /\ p.sl = 0 \/ Beyond(p.side, p.sl, adv[Rules[l]][i].sl) > 0
            /\ Beyond(p.side, adv[Rules[l]][i].sl, m.price) > 0
        BY <1>5, <3>2 DEF StopsKept
      <4> QED
        BY <3>2, <4>2, <4>3
    <3> QED
      BY <1>2, <3>1, <3>2
  <2> QED
    BY <1>4, <2>1, <2>2 DEF StopsKept
<1>11. ClosesKept(p, y)
  BY <1>2, <1>4, <1>5 DEF ClosesKept
<1>12. FlagsKept(old, t, y)
  <2> SUFFICES ASSUME NEW flag \in Flags
               PROVE  /\ Had(old, t, flag) => st[flag]
                      /\ (st[flag] /\ ~Had(old, t, flag)) <=>
                           \E l \in DOMAIN Rules : \E i \in DOMAIN more[Rules[l]] : Takes(more[Rules[l]][i], flag)
    BY <1>4 DEF FlagsKept
  <2>1. /\ Had(old, t, flag) => x.st[flag]
        /\ (x.st[flag] /\ ~Had(old, t, flag)) <=>
             \E l \in DOMAIN Rules : \E i \in DOMAIN adv[Rules[l]] : Takes(adv[Rules[l]][i], flag)
    BY <1>5 DEF FlagsKept
  <2>2. ~Takes(c, flag)
    BY DEF Takes
  <2>3. (\E l \in DOMAIN Rules : \E i \in DOMAIN more[Rules[l]] : Takes(more[Rules[l]][i], flag)) <=>
           \E l \in DOMAIN Rules : \E i \in DOMAIN adv[Rules[l]] : Takes(adv[Rules[l]][i], flag)
    BY <1>2, <1>3, <2>2
  <2> QED
    BY <2>1, <2>3
<1>13. OrderKept(p, y)
  <2> SUFFICES ASSUME NEW l \in DOMAIN Rules, NEW n \in DOMAIN Rules,
                      NEW i \in DOMAIN more[Rules[l]], NEW j \in DOMAIN more[Rules[n]],
                      Earlier(l, i, n, j)
               PROVE  LET d == more[Rules[l]][i]
                          e == more[Rules[n]][j]
                      IN /\ d.act = "MODIFY" /\ e.act = "MODIFY" => Beyond(p.side, d.sl, e.sl) > 0
                         /\ \A flag \in Flags : ~(Takes(d, flag) /\ Takes(e, flag))
    BY <1>4 DEF OrderKept
  <2>1. CASE l < k /\ n < k
    <3>1. /\ i \in DOMAIN adv[Rules[l]] /\ more[Rules[l]][i] = adv[Rules[l]][i]
          /\ j \in DOMAIN adv[Rules[n]] /\ more[Rules[n]][j] = adv[Rules[n]][j]
      BY <1>2, <2>1
    <3>2. LET d == adv[Rules[l]][i]
              e == adv[Rules[n]][j]
          IN /\ d.act = "MODIFY" /\ e.act = "MODIFY" => Beyond(p.side, d.sl, e.sl) > 0
             /\ \A flag \in Flags : ~(Takes(d, flag) /\ Takes(e, flag))
      BY <1>5, <3>1 DEF OrderKept
    <3> QED
      BY <3>1, <3>2
  <2>2. CASE n = k /\ l < k
    <3>1. more[Rules[n]][j] = c
      BY <1>2, <2>2
    <3>2. i \in DOMAIN adv[Rules[l]] /\ more[Rules[l]][i] = adv[Rules[l]][i]
      BY <1>2, <2>2
    <3> QED
      BY <1>8, <3>1, <3>2 DEF Takes
  <2>3. CASE ~(l < k /\ n < k) /\ ~(n = k /\ l < k)
    <3>1. l = k /\ i = 1
      BY <1>2, <2>3 DEF Earlier
    <3>2. (n = k /\ j = 1) \/ n < k
      BY <1>2
    <3>3. l \in Int /\ n \in Int
      BY RulesAreSix
    <3> QED
      BY <3>1, <3>2, <3>3 DEF Earlier
  <2> QED
    BY <2>1, <2>2, <2>3
<1> QED
  BY <1>2, <1>4, <1>10, <1>11, <1>12, <1>13 DEF Kept, y, more

-----------------------------------------------------------------------------
(* The rules for the positions of one side. *)

\* What all positions have got before the k-th rule.
AllKept(P, old, m, k, r) ==
  /\ r = [t \in DOMAIN P |-> r[t]]
  /\ \A t \in DOMAIN P : Kept(P[t], old, t, m, k, r[t])

\* When a position of a side has newly taken a target, all of the side have taken it.
SideTook(P, old, r, flag) ==
  \A t, u \in DOMAIN P :
    P[t].side = P[u].side /\ r[u].st[flag] /\ ~Had(old, u, flag) => r[t].st[flag]

\* A position that is the only one of its side is the one that took the target.
LEMMA AloneOfSide ==
  ASSUME NEW P, IsFiniteSet(DOMAIN P), NEW t \in DOMAIN P, ~Grouped(P, t), NEW u \in SideGroup(P, t)
  PROVE  u = t
<1> DEFINE group == SideGroup(P, t)
<1>1. group \subseteq DOMAIN P /\ t \in group
  BY DEF SideGroup
<1> HIDE DEF group
<1>2. IsFiniteSet(group) /\ Cardinality(group) \in Nat
  BY <1>1, FS_Subset, FS_CardinalityType
<1>3. Cardinality(group) # 0
  BY <1>1, <1>2, FS_EmptySet
<1>4. ~(Cardinality(group) > 1)
  BY DEF Grouped, group
<1>5. Cardinality(group) = 1
  BY <1>2, <1>3, <1>4
<1>6. PICK x : group = {x}
  BY <1>2, <1>5, FS_Singleton
<1> QED
  BY <1>1, <1>6 DEF group

\* The close of a target by its side.
LEMMA GroupCloseIsKept ==
  ASSUME NEW P, IsFiniteSet(DOMAIN P), P \in [DOMAIN P -> PositionType], NEW old, NEW m,
         NEW k \in 2 .. 3, NEW flag \in Flags, NEW why,
         why = Rules[k] /\ flag = (IF k = 2 THEN "tp1" ELSE "tp2"),
         NEW r, AllKept(P, old, m, k, r), NEW next, next = GroupClose(r, P, old, flag, why)
  PROVE  /\ AllKept(P, old, m, k + 1, next) /\ SideTook(P, old, next, flag)
         /\ \A other \in Flags : other # flag => \A t \in DOMAIN P : next[t].st[other] = r[t].st[other]
<1> DEFINE joins(t) == Grouped(P, t) /\ NewlyHit(r, P, old, t, flag) /\ ~r[t].st[flag]
           c(t) == Close(Part(P[t].lots, 4, 1), why)
           st(t) == [r[t].st EXCEPT ![flag] = TRUE]
<1>1. DOMAIN r = DOMAIN P
  BY DEF AllKept
<1>2. /\ next = [t \in DOMAIN P |-> next[t]]
      /\ \A t \in DOMAIN P : next[t] = IF joins(t) THEN [adv |-> [r[t].adv EXCEPT ![why] = <<c(t)>>], st |-> st(t)]
                                                   ELSE r[t]
  BY <1>1 DEF GroupClose
<1> HIDE DEF joins
<1>3. ASSUME NEW t \in DOMAIN P PROVE r[t].st \in StateType /\ Kept(P[t], old, t, m, k, r[t])
  BY DEF AllKept, Kept, AdviceType
<1>4. ASSUME NEW t \in DOMAIN P, joins(t)
      PROVE  /\ next[t] = [adv |-> [r[t].adv EXCEPT ![Rules[k]] = <<c(t)>>], st |-> st(t)]
             /\ st(t) \in StateType /\ st(t)[flag] /\ st(t).best = r[t].st.best /\ ~r[t].st[flag]
             /\ \A other \in Flags : other # flag => st(t)[other] = r[t].st[other]
  <2>1. next[t] = [adv |-> [r[t].adv EXCEPT ![Rules[k]] = <<c(t)>>], st |-> st(t)]
    BY <1>2, <1>4
  <2>2. ~r[t].st[flag]
    BY <1>4 DEF joins
  <2>3. /\ st(t) \in StateType /\ st(t)[flag] /\ st(t).best = r[t].st.best
        /\ \A other \in Flags : other # flag => st(t)[other] = r[t].st[other]
    <3>1. CASE flag = "tp1"
      BY <1>3, <3>1 DEF StateType, Flags
    <3>2. CASE flag = "tp2"
      BY <1>3, <3>2 DEF StateType, Flags
    <3> QED
      BY <3>1, <3>2 DEF Flags
  <2> QED
    BY <2>1, <2>2, <2>3
<1>5. ASSUME NEW t \in DOMAIN P
      PROVE  /\ Kept(P[t], old, t, m, k + 1, next[t])
             /\ \A other \in Flags : other # flag => next[t].st[other] = r[t].st[other]
             /\ r[t].st[flag] => next[t].st[flag]
  <2>1. CASE joins(t)
    <3>1. P[t].lots \in Nat \ {0}
      BY DEF PositionType
    <3>2. /\ Part(P[t].lots, 4, 1) \in Nat /\ Part(P[t].lots, 4, 1) <= P[t].lots
          /\ 10 * Part(P[t].lots, 4, 1) >= 4 * P[t].lots - 5
      BY <3>1, ShareIsPart
    <3>3. why \in {"group_tp1", "group_tp2"} /\ (flag = "tp1" <=> why = "group_tp1")
      BY RulesAreSix
    <3>4. /\ c(t) \in CommandType /\ c(t).act = "CLOSE" /\ c(t).lots <= P[t].lots
          /\ 10 * c(t).lots >= 4 * P[t].lots - 5 /\ c(t).why = why
      BY <3>2, <3>3 DEF Close, CommandType, TP1Reasons, TP2Reasons
    <3> HIDE DEF c, st
    <3>5. \A other \in Flags : /\ r[t].st[other] => st(t)[other]
                               /\ Takes(c(t), other) <=> st(t)[other] /\ ~r[t].st[other]
      <4> SUFFICES ASSUME NEW other \in Flags
                   PROVE  /\ r[t].st[other] => st(t)[other]
                          /\ Takes(c(t), other) <=> st(t)[other] /\ ~r[t].st[other]
        OBVIOUS
      <4>1. Takes(c(t), other) <=> other = flag
        BY <3>3, <3>4 DEF Takes, TakeReasons, TP1Reasons, TP2Reasons, Flags
      <4>2. st(t)[flag] /\ ~r[t].st[flag] /\ (other # flag => st(t)[other] = r[t].st[other])
        BY <1>4, <2>1
      <4>3. CASE other = flag
        BY <4>1, <4>2, <4>3
      <4>4. CASE other # flag
        BY <4>1, <4>2, <4>4
      <4> QED
        BY <4>3, <4>4
    <3>6. Kept(P[t], old, t, m, k + 1, [adv |-> [r[t].adv EXCEPT ![Rules[k]] = <<c(t)>>], st |-> st(t)])
      <4>1. k \in 2 .. 6
        OBVIOUS
      <4>2. st(t) \in StateType /\ st(t).best = r[t].st.best
        BY <1>4, <2>1
      <4> QED
        BY <1>3, <3>4, <3>5, <4>1, <4>2, CloseAdded
    <3> QED
      BY <1>4, <2>1, <3>6
  <2>2. CASE ~joins(t)
    <3>1. next[t] = r[t]
      BY <1>2, <2>2
    <3>2. k \in 2 .. 6
      OBVIOUS
    <3>3. Kept(P[t], old, t, m, k + 1, r[t])
      BY <1>3, <3>2, NothingAdded
    <3> QED
      BY <3>1, <3>3
  <2> QED
    BY <2>1, <2>2
<1>6. SideTook(P, old, next, flag)
  <2> SUFFICES ASSUME NEW t \in DOMAIN P, NEW u \in DOMAIN P, P[t].side = P[u].side,
                      next[u].st[flag], ~Had(old, u, flag)
               PROVE  next[t].st[flag]
    BY DEF SideTook
  <2>1. NewlyHit(r, P, old, t, flag)
    <3>1. CASE joins(u)
      BY <3>1 DEF joins, NewlyHit, SideGroup
    <3>2. CASE ~joins(u)
      <4>1. r[u].st[flag]
        BY <1>2, <3>2
      <4> QED
        BY <4>1 DEF NewlyHit, SideGroup, Had
    <3> QED
      BY <3>1, <3>2
  <2>3. CASE r[t].st[flag]
    BY <1>5, <2>3
  <2>4. CASE ~r[t].st[flag]
    <3>1. PICK w \in SideGroup(P, t) : r[w].st[flag]
      BY <2>1 DEF NewlyHit
    <3>2. Grouped(P, t)
      BY <2>4, <3>1, AloneOfSide
    <3>3. joins(t)
      BY <2>1, <2>4, <3>2 DEF joins
    <3>4. next[t] = [adv |-> [r[t].adv EXCEPT ![Rules[k]] = <<c(t)>>], st |-> st(t)] /\ st(t)[flag]
      BY <1>4, <3>3
    <3> HIDE DEF st, c
    <3> QED
      BY <3>4
  <2> QED
    BY <2>3, <2>4
<1> QED
  BY <1>2, <1>5, <1>6 DEF AllKept

\* Fields of a state that no rule compares may change.
LEMMA StateNoted ==
  ASSUME NEW p, NEW old, NEW t, NEW m, NEW k \in 2 .. 6, NEW x, Kept(p, old, t, m, k, x),
         NEW st \in StateType, st.best = x.st.best, \A flag \in Flags : st[flag] = x.st[flag]
  PROVE  Kept(p, old, t, m, k, [x EXCEPT !.st = st])
<1> DEFINE y == [x EXCEPT !.st = st]
<1>1. y.adv = x.adv /\ y.st = st /\ y \in AdviceType
  BY DEF Kept, AdviceType
<1> HIDE DEF y
<1>2. StopsKept(p, m, x) /\ OrderKept(p, x) /\ ClosesKept(p, x) /\ FlagsKept(old, t, x)
  BY DEF Kept
<1>3. StopsKept(p, m, y) /\ OrderKept(p, y) /\ ClosesKept(p, y)
  BY <1>1, <1>2 DEF StopsKept, OrderKept, ClosesKept
<1>4. FlagsKept(old, t, y)
  BY <1>1, <1>2 DEF FlagsKept
<1> QED
  BY <1>1, <1>3, <1>4 DEF Kept, y

\* A stop that is only sent when it is ahead of the best one and behind the market.
LEMMA MovedIsKept ==
  ASSUME NEW p \in PositionType, NEW old, NEW t, NEW m, NEW k \in 4 .. 5, NEW r,
         Kept(p, old, t, m, k, r[t]), NEW stop \in Nat \ {0}, NEW why, why = Rules[k]
  PROVE  /\ Kept(p, old, t, m, k + 1, Moved(r, p, t, stop, why, m))
         /\ \A flag \in Flags : Moved(r, p, t, stop, why, m).st[flag] = r[t].st[flag]
<1> DEFINE x == r[t]
           c == Modify(stop, why)
           st == [x.st EXCEPT !.best = stop]
<1>1. p.side \in Sides /\ p.sl \in Nat /\ x.st \in StateType
  BY DEF PositionType, Kept, AdviceType
<1>2. CASE StopFits(p, x.st, stop, m)
  <2>1. Moved(r, p, t, stop, why, m) = [adv |-> [x.adv EXCEPT ![Rules[k]] = <<c>>], st |-> st]
    BY <1>2 DEF Moved
  <2>2. c \in CommandType /\ c.act = "MODIFY" /\ c.sl = stop
    BY RulesAreSix DEF Modify, CommandType
  <2>3. st \in StateType /\ st.best = stop /\ \A flag \in Flags : st[flag] = x.st[flag]
    BY <1>1 DEF StateType, Flags
  <2>4. Beyond(p.side, stop, m.price) > 0 /\ (x.st.best = 0 \/ Beyond(p.side, x.st.best, stop) > 0)
    BY <1>2 DEF StopFits
  <2>5. k \in 2 .. 6
    OBVIOUS
  <2> HIDE DEF c, st
  <2>6. Kept(p, old, t, m, k + 1, [adv |-> [x.adv EXCEPT ![Rules[k]] = <<c>>], st |-> st])
    BY <1>1, <2>2, <2>3, <2>4, <2>5, MoveAdded
  <2> QED
    BY <2>1, <2>3, <2>6
<1>3. CASE ~StopFits(p, x.st, stop, m)
  <2>1. Moved(r, p, t, stop, why, m) = x
    BY <1>3 DEF Moved
  <2>2. k \in 2 .. 6
    OBVIOUS
  <2> QED
    BY <2>1, <2>2, NothingAdded
<1> QED
  BY <1>2, <1>3

\* The greatest of finitely many numbers is one of them.
LEMMA GreatestOfFinite ==
  ASSUME NEW Some, IsFiniteSet(Some), Some \subseteq Int, Some # {}
  PROVE  Max(Some) \in Some /\ \A j \in Some : Max(Some) >= j
<1> DEFINE Good == {s \in SUBSET Some : s # {} => \E x \in s : \A y \in s : x >= y}
<1>1. {} \in Good
  OBVIOUS
<1>2. ASSUME NEW s \in SUBSET Some, s # {}, s \ {Taken(s)} \in Good PROVE s \in Good
  <2> DEFINE a == Taken(s)
  <2>1. a \in s
    BY <1>2 DEF Taken
  <2> HIDE DEF a
  <2>2. CASE s \ {a} = {}
    <3>1. s = {a}
      BY <2>1, <2>2
    <3> QED
      BY <2>1, <3>1
  <2>3. CASE s \ {a} # {}
    <3>1. PICK x \in s \ {a} : \A y \in s \ {a} : x >= y
      BY <1>2, <2>3 DEF a
    <3>2. CASE x >= a
      BY <2>1, <3>1, <3>2
    <3>3. CASE a >= x
      BY <2>1, <3>1, <3>3
    <3> QED
      BY <2>1, <3>1, <3>2, <3>3
  <2> QED
    BY <2>2, <2>3
<1> HIDE DEF Good
<1>3. Some \in Good
  BY <1>1, <1>2, AllSubsets
<1>4. \E x \in Some : \A y \in Some : x >= y
  BY <1>3 DEF Good
<1> QED
  BY <1>4 DEF Max

\* Positions of a side are worth at least a price of one for each of their lots.
LEMMA WorthIsMore ==
  ASSUME NEW P, P \in [DOMAIN P -> PositionType], NEW group, IsFiniteSet(group), group \subseteq DOMAIN P
  PROVE  /\ SideLots(P, group) \in Nat /\ (group # {} => SideLots(P, group) > 0)
         /\ Worth(P, group) \in Nat /\ Worth(P, group) >= SideLots(P, group)
<1> DEFINE size == CHOOSE f : f = [s \in SUBSET group |-> IF s = {} THEN 0 ELSE P[Taken(s)].lots + f[s \ {Taken(s)}]]
           cost == CHOOSE f : f = [s \in SUBSET group |-> IF s = {} THEN 0
                                     ELSE P[Taken(s)].lots * P[Taken(s)].open + f[s \ {Taken(s)}]]
<1>1. SideLots(P, group) = size[group] /\ Worth(P, group) = cost[group]
  BY DEF SideLots, Worth, MapThenSumSet, MapThenFoldSet, Taken
<1>2. \A u \in group : P[u].lots \in Nat \ {0} /\ P[u].open \in Nat \ {0}
  BY DEF PositionType
<1>3. \A s \in SUBSET group : s # {} => Taken(s) \in group
  BY DEF Taken
<1>4. size = [s \in SUBSET group |-> IF s = {} THEN 0 ELSE P[Taken(s)].lots + size[s \ {Taken(s)}]]
  <2> DEFINE w == [u \in group |-> P[u].lots]
  <2>1. w \in [group -> Int]
    BY <1>2
  <2>2. PICK f : SumsTo(f, w, group)
    <3> HIDE DEF w
    <3> QED
      BY <2>1, SumIsDefined
  <2>3. f = [s \in SUBSET group |-> IF s = {} THEN 0 ELSE P[Taken(s)].lots + f[s \ {Taken(s)}]]
    BY <1>3, <2>2 DEF SumsTo
  <2> QED
    BY <2>3
<1>5. cost = [s \in SUBSET group |-> IF s = {} THEN 0
                ELSE P[Taken(s)].lots * P[Taken(s)].open + cost[s \ {Taken(s)}]]
  <2> DEFINE w == [u \in group |-> P[u].lots * P[u].open]
  <2>1. w \in [group -> Int]
    BY <1>2
  <2>2. PICK f : SumsTo(f, w, group)
    <3> HIDE DEF w
    <3> QED
      BY <2>1, SumIsDefined
  <2>3. f = [s \in SUBSET group |-> IF s = {} THEN 0 ELSE P[Taken(s)].lots * P[Taken(s)].open + f[s \ {Taken(s)}]]
    BY <1>3, <2>2 DEF SumsTo
  <2> QED
    BY <2>3
<1> DEFINE Good == {s \in SUBSET group : /\ size[s] \in Nat /\ (s # {} => size[s] > 0)
                                         /\ cost[s] \in Nat /\ cost[s] >= size[s]}
<1> HIDE DEF size, cost
<1>6. {} \in Good
  <2>1. size[{}] = 0 /\ cost[{}] = 0
    BY <1>4, <1>5
  <2> QED
    BY <2>1
<1>7. ASSUME NEW s \in SUBSET group, s # {}, s \ {Taken(s)} \in Good PROVE s \in Good
  <2> DEFINE n == P[Taken(s)].lots
             o == P[Taken(s)].open
             less == size[s \ {Taken(s)}]
             paid == cost[s \ {Taken(s)}]
  <2>1. size[s] = n + less /\ cost[s] = n * o + paid
    BY <1>4, <1>5, <1>7
  <2>2. n \in Nat \ {0} /\ o \in Nat \ {0}
    BY <1>2, <1>3, <1>7
  <2>3. less \in Nat /\ paid \in Nat /\ paid >= less
    BY <1>7
  <2> HIDE DEF n, o, less, paid
  <2>4. n * o \in Nat /\ n * o >= n
    BY <2>2
  <2>5. size[s] \in Nat /\ size[s] > 0 /\ cost[s] \in Nat /\ cost[s] >= size[s]
    BY <2>1, <2>2, <2>3, <2>4
  <2> QED
    BY <1>7, <2>5
<1> HIDE DEF Good
<1>8. group \in Good
  BY <1>6, <1>7, AllSubsets
<1> QED
  BY <1>1, <1>8 DEF Good

\* The stops that a side's break-even and its re-anchoring ask for are prices.
LEMMA SideStops ==
  ASSUME NEW P, P \in [DOMAIN P -> PositionType], IsFiniteSet(DOMAIN P), NEW t \in DOMAIN P
  PROVE  /\ LET opens == {P[u].open : u \in SideGroup(P, t)}
            IN Max(opens) \in Nat \ {0} /\ Min(opens) \in Nat \ {0}
         /\ Worth(P, SideGroup(P, t)) \div SideLots(P, SideGroup(P, t)) \in Nat \ {0}
<1> DEFINE group == SideGroup(P, t)
           opens == {P[u].open : u \in group}
<1>1. group \subseteq DOMAIN P /\ t \in group
  BY DEF SideGroup
<1> HIDE DEF group
<1>2. IsFiniteSet(group)
  BY <1>1, FS_Subset
<1>3. opens \subseteq Nat \ {0} /\ opens # {}
  BY <1>1 DEF PositionType
<1>4. IsFiniteSet(opens)
  <2> DEFINE f == [u \in group |-> P[u].open]
  <2>1. f \in Surjection(group, opens)
    BY DEF Surjection
  <2> HIDE DEF f, opens
  <2> QED
    BY <1>2, <2>1, FS_Surjection
<1> HIDE DEF opens
<1>5. Max(opens) \in opens /\ Min(opens) \in opens
  BY <1>3, <1>4, GreatestOfFinite, LeastOfSome
<1> DEFINE lots == SideLots(P, group)
           worth == Worth(P, group)
<1>6. lots \in Nat /\ lots > 0 /\ worth \in Nat /\ worth >= lots
  BY <1>1, <1>2, WorthIsMore
<1> HIDE DEF lots, worth
<1>7. worth \div lots \in Nat \ {0}
  BY <1>6
<1> QED
  BY <1>3, <1>5, <1>7 DEF group, opens, lots, worth

\* The break-even of a side.
LEMMA BreakevenIsKept ==
  ASSUME NEW P, P \in [DOMAIN P -> PositionType], IsFiniteSet(DOMAIN P), NEW old, NEW m,
         NEW r, AllKept(P, old, m, 4, r), NEW next, next = GroupBreakeven(r, P, old, m)
  PROVE  /\ AllKept(P, old, m, 5, next)
         /\ \A flag \in Flags : \A t \in DOMAIN P : next[t].st[flag] = r[t].st[flag]
<1> DEFINE stop(t) == IF P[t].side = "BUY" THEN Max({P[u].open : u \in SideGroup(P, t)})
                                           ELSE Min({P[u].open : u \in SideGroup(P, t)})
<1>1. DOMAIN r = DOMAIN P
  BY DEF AllKept
<1>2. /\ next = [t \in DOMAIN P |-> next[t]]
      /\ \A t \in DOMAIN P : next[t] = Moved(r, P[t], t, stop(t), "group_be", m) \/ next[t] = r[t]
  BY <1>1 DEF GroupBreakeven
<1>3. ASSUME NEW t \in DOMAIN P
      PROVE  /\ Kept(P[t], old, t, m, 5, next[t])
             /\ \A flag \in Flags : next[t].st[flag] = r[t].st[flag]
  <2>1. Kept(P[t], old, t, m, 4, r[t]) /\ P[t] \in PositionType
    BY DEF AllKept
  <2>2. stop(t) \in Nat \ {0}
    BY SideStops
  <2> HIDE DEF stop
  <2>3. CASE next[t] = Moved(r, P[t], t, stop(t), "group_be", m)
    <3>1. 4 \in 4 .. 5 /\ "group_be" = Rules[4] /\ 4 + 1 = 5
      BY RulesAreSix
    <3> QED
      BY <2>1, <2>2, <2>3, <3>1, MovedIsKept
  <2>4. CASE next[t] = r[t]
    <3>1. 4 \in 2 .. 6 /\ 4 + 1 = 5
      OBVIOUS
    <3> QED
      BY <2>1, <2>4, <3>1, NothingAdded
  <2> QED
    BY <1>2, <2>3, <2>4 DEF stop
<1> QED
  BY <1>2, <1>3 DEF AllKept

\* The re-anchoring of a side at the average entry.
LEMMA ReanchorIsKept ==
  ASSUME NEW P, P \in [DOMAIN P -> PositionType], IsFiniteSet(DOMAIN P), NEW old, NEW m,
         NEW r, AllKept(P, old, m, 5, r), NEW next, next = Reanchor(r, P, old, m)
  PROVE  /\ AllKept(P, old, m, 6, next)
         /\ \A flag \in Flags : \A t \in DOMAIN P : next[t].st[flag] = r[t].st[flag]
<1> DEFINE avg(t) == Worth(P, SideGroup(P, t)) \div SideLots(P, SideGroup(P, t))
           st(t) == [r[t].st EXCEPT !.avg = avg(t), !.addOns = IF t \in DOMAIN old THEN @ ELSE @ + 1]
           noted(t) == [r EXCEPT ![t].st.avg = avg(t), ![t].st.addOns = IF t \in DOMAIN old THEN @ ELSE @ + 1]
<1>1. DOMAIN r = DOMAIN P
  BY DEF AllKept
<1>2. /\ next = [t \in DOMAIN P |-> next[t]]
      /\ \A t \in DOMAIN P : next[t] = Moved(noted(t), P[t], t, avg(t), "reanchor", m) \/ next[t] = r[t]
  <2>1. next = [t \in DOMAIN P |-> IF Grouped(P, t) /\ AddedBehind(P, old, t)
                                   THEN Moved(noted(t), P[t], t, avg(t), "reanchor", m) ELSE r[t]]
    BY <1>1 DEF Reanchor
  <2> HIDE DEF noted, avg
  <2> QED
    BY <2>1
<1>3. ASSUME NEW t \in DOMAIN P
      PROVE  /\ Kept(P[t], old, t, m, 6, next[t])
             /\ \A flag \in Flags : next[t].st[flag] = r[t].st[flag]
  <2>1. Kept(P[t], old, t, m, 5, r[t]) /\ P[t] \in PositionType /\ r[t] \in AdviceType /\ r[t].st \in StateType
    BY DEF AllKept, Kept, AdviceType
  <2>2. avg(t) \in Nat \ {0}
    BY SideStops
  <2> HIDE DEF avg
  <2>3. CASE next[t] = Moved(noted(t), P[t], t, avg(t), "reanchor", m)
    <3>1. st(t) \in StateType /\ st(t).best = r[t].st.best /\ \A flag \in Flags : st(t)[flag] = r[t].st[flag]
      <4>1. (IF t \in DOMAIN old THEN r[t].st.addOns ELSE r[t].st.addOns + 1) \in Nat
        BY <2>1 DEF StateType
      <4> QED
        BY <2>1, <2>2, <4>1 DEF StateType, Flags
    <3> HIDE DEF st
    <3>2. noted(t)[t] = [r[t] EXCEPT !.st = st(t)]
      <4>1. r = [u \in DOMAIN P |-> r[u]]
        BY DEF AllKept
      <4> QED
        BY <1>1, <4>1 DEF st
    <3> HIDE DEF noted
    <3>3. noted(t)[t].st = st(t)
      BY <2>1, <3>2 DEF AdviceType
    <3>4. 5 \in 4 .. 5 /\ 5 \in 2 .. 6 /\ "reanchor" = Rules[5] /\ 5 + 1 = 6
      BY RulesAreSix
    <3>5. Kept(P[t], old, t, m, 5, noted(t)[t])
      <4>1. Kept(P[t], old, t, m, 5, [r[t] EXCEPT !.st = st(t)])
        BY <2>1, <3>1, <3>4, StateNoted
      <4> QED
        BY <3>2, <4>1
    <3>6. /\ Kept(P[t], old, t, m, 6, Moved(noted(t), P[t], t, avg(t), "reanchor", m))
          /\ \A flag \in Flags : Moved(noted(t), P[t], t, avg(t), "reanchor", m).st[flag] = noted(t)[t].st[flag]
      <4>1. ASSUME NEW with, Kept(P[t], old, t, m, 5, with[t]), NEW stop \in Nat \ {0}
            PROVE  /\ Kept(P[t], old, t, m, 6, Moved(with, P[t], t, stop, "reanchor", m))
                   /\ \A flag \in Flags : Moved(with, P[t], t, stop, "reanchor", m).st[flag] = with[t].st[flag]
        BY <2>1, <3>4, <4>1, MovedIsKept
      <4> QED
        BY <2>2, <3>5, <4>1
    <3> QED
      BY <2>3, <3>1, <3>3, <3>6
  <2>4. CASE next[t] = r[t]
    <3>1. 5 \in 2 .. 6 /\ 5 + 1 = 6
      OBVIOUS
    <3> QED
      BY <2>1, <2>4, <3>1, NothingAdded
  <2> QED
    BY <1>2, <2>3, <2>4 DEF st, avg, noted
<1> QED
  BY <1>2, <1>3 DEF AllKept

\* The exit of a side that lost too much.
LEMMA DrawdownIsKept ==
  ASSUME NEW P, P \in [DOMAIN P -> PositionType], NEW old, NEW m,
         NEW r, AllKept(P, old, m, 6, r), NEW next, next = DrawdownExit(r, P, m)
  PROVE  /\ AllKept(P, old, m, 7, next)
         /\ \A flag \in Flags : \A t \in DOMAIN P : next[t].st[flag] = r[t].st[flag]
<1> DEFINE c(t) == Close(P[t].lots, "group_exit")
<1>1. DOMAIN r = DOMAIN P
  BY DEF AllKept
<1>2. /\ next = [t \in DOMAIN P |-> next[t]]
      /\ \A t \in DOMAIN P : next[t] = [r[t] EXCEPT !.adv.group_exit = <<c(t)>>] \/ next[t] = r[t]
  BY <1>1 DEF DrawdownExit
<1>3. ASSUME NEW t \in DOMAIN P
      PROVE  /\ Kept(P[t], old, t, m, 7, next[t])
             /\ \A flag \in Flags : next[t].st[flag] = r[t].st[flag]
  <2>1. Kept(P[t], old, t, m, 6, r[t]) /\ r[t] \in AdviceType /\ r[t].st \in StateType /\ P[t].lots \in Nat \ {0}
    BY DEF AllKept, Kept, AdviceType, PositionType
  <2>2. 6 \in 2 .. 6 /\ 6 + 1 = 7 /\ "group_exit" = Rules[6]
    BY RulesAreSix
  <2>3. CASE next[t] = [r[t] EXCEPT !.adv.group_exit = <<c(t)>>]
    <3>1. /\ c(t) \in CommandType /\ c(t).act = "CLOSE" /\ c(t).lots = P[t].lots
          /\ \A flag \in Flags : ~Takes(c(t), flag)
      BY <2>1 DEF Close, CommandType, Takes, TakeReasons, TP1Reasons, TP2Reasons, Flags
    <3>2. 10 * P[t].lots >= 4 * P[t].lots - 5 /\ P[t].lots <= P[t].lots
      BY <2>1
    <3> HIDE DEF c
    <3>3. next[t] = [adv |-> [r[t].adv EXCEPT ![Rules[6]] = <<c(t)>>], st |-> r[t].st]
      BY <2>1, <2>2, <2>3 DEF AdviceType
    <3>4. Kept(P[t], old, t, m, 7, [adv |-> [r[t].adv EXCEPT ![Rules[6]] = <<c(t)>>], st |-> r[t].st])
      <4> DEFINE st == r[t].st
      <4>1. /\ st \in StateType /\ st.best = r[t].st.best
            /\ \A flag \in Flags : /\ r[t].st[flag] => st[flag]
                                   /\ Takes(c(t), flag) <=> st[flag] /\ ~r[t].st[flag]
        BY <2>1, <3>1
      <4> HIDE DEF st
      <4>2. Kept(P[t], old, t, m, 6 + 1, [adv |-> [r[t].adv EXCEPT ![Rules[6]] = <<c(t)>>], st |-> st])
        <5>1. Kept(P[t], old, t, m, 6, r[t]) /\ 6 \in 2 .. 6
          BY <2>1, <2>2
        <5>2. c(t) \in CommandType /\ c(t).act = "CLOSE" /\ c(t).lots <= P[t].lots /\ 10 * c(t).lots >= 4 * P[t].lots - 5
          BY <3>1, <3>2
        <5> QED
          BY <4>1, <5>1, <5>2, CloseAdded
      <4> QED
        BY <2>2, <4>2 DEF st
    <3> QED
      BY <3>3, <3>4
  <2>4. CASE next[t] = r[t]
    BY <2>1, <2>2, <2>4, NothingAdded
  <2> QED
    BY <1>2, <2>3, <2>4
<1> QED
  BY <1>2, <1>3 DEF AllKept

\* The whole evaluation: what each position gets is sound and the sides take targets together.
LEMMA EvaluationIsKept ==
  ASSUME NEW P, P \in [DOMAIN P -> PositionType], IsFiniteSet(DOMAIN P),
         NEW old, \A u \in DOMAIN old : old[u] \in StateType, NEW m \in MarketType
  PROVE  /\ AllKept(P, old, m, 7, EvaluateCommands(P, old, m))
         /\ \A flag \in Flags : SideTook(P, old, EvaluateCommands(P, old, m), flag)
<1> DEFINE r1 == [t \in DOMAIN P |-> Single(P[t], t, old, m)]
           r2 == GroupClose(r1, P, old, "tp1", "group_tp1")
           r3 == GroupClose(r2, P, old, "tp2", "group_tp2")
           r4 == GroupBreakeven(r3, P, old, m)
           r5 == Reanchor(r4, P, old, m)
           r6 == DrawdownExit(r5, P, m)
<1>1. EvaluateCommands(P, old, m) = r6
  BY DEF EvaluateCommands
<1>2. AllKept(P, old, m, 2, r1)
  <2>1. \A t \in DOMAIN P : r1[t] = Single(P[t], t, old, m) /\ P[t] \in PositionType
    OBVIOUS
  <2>2. r1 = [t \in DOMAIN P |-> r1[t]]
    OBVIOUS
  <2> HIDE DEF r1
  <2>3. \A t \in DOMAIN P : Kept(P[t], old, t, m, 2, r1[t])
    BY <2>1, SingleIsKept
  <2> QED
    BY <2>2, <2>3 DEF AllKept
<1> HIDE DEF r1
<1>3. /\ AllKept(P, old, m, 3, r2) /\ SideTook(P, old, r2, "tp1")
  <2>1. 2 \in 2 .. 3 /\ "tp1" \in Flags /\ "group_tp1" = Rules[2] /\ 2 + 1 = 3
    BY RulesAreSix DEF Flags
  <2> QED
    BY <1>2, <2>1, GroupCloseIsKept
<1> HIDE DEF r2
<1>4. /\ AllKept(P, old, m, 4, r3) /\ SideTook(P, old, r3, "tp2")
      /\ \A t \in DOMAIN P : r3[t].st.tp1 = r2[t].st.tp1
  <2>1. 3 \in 2 .. 3 /\ "tp2" \in Flags /\ "tp1" \in Flags /\ "group_tp2" = Rules[3] /\ 3 + 1 = 4
    BY RulesAreSix DEF Flags
  <2> QED
    BY <1>3, <2>1, GroupCloseIsKept
<1> HIDE DEF r3
<1>5. SideTook(P, old, r3, "tp1")
  BY <1>3, <1>4 DEF SideTook
<1>6. \A flag \in Flags : SideTook(P, old, r3, flag)
  BY <1>4, <1>5 DEF Flags
<1>7. AllKept(P, old, m, 5, r4) /\ \A flag \in Flags : \A t \in DOMAIN P : r4[t].st[flag] = r3[t].st[flag]
  BY <1>4, BreakevenIsKept
<1> HIDE DEF r4
<1>8. AllKept(P, old, m, 6, r5) /\ \A flag \in Flags : \A t \in DOMAIN P : r5[t].st[flag] = r4[t].st[flag]
  BY <1>7, ReanchorIsKept
<1> HIDE DEF r5
<1>9. AllKept(P, old, m, 7, r6) /\ \A flag \in Flags : \A t \in DOMAIN P : r6[t].st[flag] = r5[t].st[flag]
  BY <1>8, DrawdownIsKept
<1> HIDE DEF r6
<1>10. \A flag \in Flags : \A t \in DOMAIN P : r6[t].st[flag] = r3[t].st[flag]
  BY <1>7, <1>8, <1>9
<1>11. \A flag \in Flags : SideTook(P, old, r6, flag)
  BY <1>6, <1>10 DEF SideTook
<1> QED
  BY <1>1, <1>9, <1>11

\* The advice on every position is sound for every evaluation: stops ahead of one another
\* and behind the market, closes of a target's share at least, targets taken side by side.
THEOREM AdviceHolds == DecisionSpec => []AdviceIsSound
<1>1. ASSUME DecisionInv, Answered("evaluation") PROVE AdviceIsSound
  <2> DEFINE P == question.P
             old == question.states
             m == question.m
             made == answer.advised
             Good(t, k, i) ==
               LET c == made[t].adv[Rules[k]][i] IN
                 /\ c.act = "MODIFY" =>
                      /\ P[t].sl = 0 \/ Beyond(P[t].side, P[t].sl, c.sl) > 0
                      /\ Beyond(P[t].side, c.sl, m.price) > 0
                      /\ \A l \in 1 .. k : \A j \in DOMAIN made[t].adv[Rules[l]] :
                           LET d == made[t].adv[Rules[l]][j] IN
                             (l < k \/ j < i) /\ d.act = "MODIFY" => Beyond(P[t].side, d.sl, c.sl) > 0
                 /\ c.act = "CLOSE" => c.lots <= P[t].lots /\ 10 * c.lots >= 4 * P[t].lots - 5
             Took(t, flag) == made[t].st[flag] /\ ~(t \in DOMAIN old /\ old[t][flag])
             Together(t, u, flag) == P[u].side = P[t].side /\ Took(u, flag) => made[t].st[flag]
  <2>1. question \in Evaluations /\ answer = Evaluation(question)
    BY <1>1 DEF DecisionInv, Answered
  <2>2. /\ IsFiniteSet(DOMAIN P) /\ P \in [DOMAIN P -> PositionType]
        /\ old \in [DOMAIN old -> StateType] /\ m \in MarketType
    BY <2>1, EvaluationAssumption
  <2>3. made = EvaluateCommands(P, old, m)
    BY <2>1 DEF Evaluation
  <2> HIDE DEF P, old, m, made
  <2>4. \A u \in DOMAIN old : old[u] \in StateType
    BY <2>2
  <2>5. AllKept(P, old, m, 7, made) /\ \A flag \in Flags : SideTook(P, old, made, flag)
    BY <2>2, <2>3, <2>4, EvaluationIsKept
  <2>6. ASSUME NEW t \in DOMAIN P, NEW k \in DOMAIN Rules, NEW i \in DOMAIN made[t].adv[Rules[k]]
        PROVE  Good(t, k, i)
    <3> DEFINE c == made[t].adv[Rules[k]][i]
    <3>1. StopsKept(P[t], m, made[t]) /\ OrderKept(P[t], made[t]) /\ ClosesKept(P[t], made[t])
      BY <2>5 DEF AllKept, Kept
    <3>2. c.act = "MODIFY" =>
            /\ P[t].sl = 0 \/ Beyond(P[t].side, P[t].sl, c.sl) > 0
            /\ Beyond(P[t].side, c.sl, m.price) > 0
      BY <3>1 DEF StopsKept
    <3>3. c.act = "CLOSE" => c.lots <= P[t].lots /\ 10 * c.lots >= 4 * P[t].lots - 5
      BY <3>1 DEF ClosesKept
    <3>4. ASSUME NEW l \in 1 .. k, NEW j \in DOMAIN made[t].adv[Rules[l]], l < k \/ j < i,
                 made[t].adv[Rules[l]][j].act = "MODIFY", c.act = "MODIFY"
          PROVE  Beyond(P[t].side, made[t].adv[Rules[l]][j].sl, c.sl) > 0
      <4>1. l \in DOMAIN Rules /\ Earlier(l, j, k, i)
        BY <3>4, RulesAreSix DEF Earlier
      <4> QED
        BY <3>1, <3>4, <4>1 DEF OrderKept
    <3> QED
      BY <3>2, <3>3, <3>4
  <2>7. ASSUME NEW t \in DOMAIN P, NEW u \in DOMAIN P, NEW flag \in {"tp1", "tp2"}
        PROVE  Together(t, u, flag)
    BY <2>5 DEF SideTook, Had, Flags
  <2> HIDE DEF Good, Together
  <2>8. \A t \in DOMAIN P :
          /\ \A k \in DOMAIN Rules : \A i \in DOMAIN made[t].adv[Rules[k]] : Good(t, k, i)
          /\ \A u \in DOMAIN P : \A flag \in {"tp1", "tp2"} : Together(t, u, flag)
    BY <2>6, <2>7
  <2> QED
    BY <2>8 DEF AdviceIsSound, P, old, m, made, Good, Together
<1>2. DecisionInv => AdviceIsSound
  BY <1>1 DEF AdviceIsSound
<1> QED
  BY <1>2, DecisionsHold, PTL

-----------------------------------------------------------------------------
(* The orders a review makes, one after the other. *)

\* What a function on 0 .. n is when each value is made from the one before it.
Recursion(f, base, n, step) == f[0] = base /\ \A i \in 1 .. n : f[i] = step[<<i, f[i - 1]>>]

\* There is such a function.
LEMMA RecursionExists ==
  ASSUME NEW X, NEW base \in X, NEW n \in Nat, NEW step \in [(1 .. n) \X X -> X]
  PROVE  \E f \in [0 .. n -> X] : Recursion(f, base, n, step)
<1> DEFINE Good == {k \in Nat : k <= n => \E f \in [0 .. k -> X] :
                                  f[0] = base /\ \A i \in 1 .. k : f[i] = step[<<i, f[i - 1]>>]}
<1>1. 0 \in Good
  <2> DEFINE f == [i \in 0 .. 0 |-> base]
  <2>1. f \in [0 .. 0 -> X] /\ f[0] = base /\ 1 .. 0 = {}
    OBVIOUS
  <2> QED
    BY <2>1
<1>2. ASSUME NEW k \in Nat, k \in Good PROVE k + 1 \in Good
  <2> SUFFICES ASSUME k + 1 <= n
               PROVE  \E f \in [0 .. (k + 1) -> X] :
                        f[0] = base /\ \A i \in 1 .. (k + 1) : f[i] = step[<<i, f[i - 1]>>]
    OBVIOUS
  <2>1. PICK g \in [0 .. k -> X] : g[0] = base /\ \A i \in 1 .. k : g[i] = step[<<i, g[i - 1]>>]
    BY <1>2
  <2> DEFINE last == step[<<k + 1, g[k]>>]
             f == [i \in 0 .. (k + 1) |-> IF i = k + 1 THEN last ELSE g[i]]
  <2>2. last \in X
    <3>1. g[k] \in X /\ k + 1 \in 1 .. n
      BY <2>1
    <3>2. <<k + 1, g[k]>> \in (1 .. n) \X X
      BY <3>1
    <3> QED
      BY <3>2
  <2>3. \A i \in 0 .. (k + 1) : i = k + 1 \/ i \in 0 .. k
    OBVIOUS
  <2>4. f \in [0 .. (k + 1) -> X]
    BY <2>1, <2>2, <2>3
  <2>5. f[k + 1] = last /\ \A i \in 0 .. k : f[i] = g[i]
    OBVIOUS
  <2>6. f[0] = base
    BY <2>1, <2>5
  <2>7. ASSUME NEW i \in 1 .. (k + 1) PROVE f[i] = step[<<i, f[i - 1]>>]
    <3>1. CASE i = k + 1
      <4>1. i - 1 = k /\ k \in 0 .. k
        BY <3>1
      <4> QED
        BY <2>5, <3>1, <4>1
    <3>2. CASE i \in 1 .. k
      <4>1. i \in 0 .. k /\ i - 1 \in 0 .. k
        BY <3>2
      <4> QED
        BY <2>1, <2>5, <3>2, <4>1
    <3> QED
      BY <3>1, <3>2
  <2> QED
    BY <2>4, <2>6, <2>7
<1>3. n \in Good
  <2> HIDE DEF Good
  <2> QED
    BY <1>1, <1>2, AllNumbers
<1> QED
  BY <1>3 DEF Recursion

\* A sequence has an element. Its elements are related to those after them, and
\* to all of another sequence.
Has(s, e) == \E i \in 1 .. Len(s) : s[i] = e
Before(W, a, b) == \A i \in 1 .. Len(a), j \in 1 .. Len(b) : <<a[i], b[j]>> \in W
Related(W, s) == \A i, j \in 1 .. Len(s) : i < j => <<s[i], s[j]>> \in W

\* Sequences one after the other: what all of them have, and how their elements follow.
LEMMA JoinIsRelated ==
  ASSUME NEW U, NEW a \in Seq(U), NEW b \in Seq(U)
  PROVE  /\ a \o b \in Seq(U)
         /\ \A e : Has(a \o b, e) <=> Has(a, e) \/ Has(b, e)
         /\ \A W : Related(W, a) /\ Related(W, b) /\ Before(W, a, b) => Related(W, a \o b)
<1> DEFINE s == a \o b
           m == Len(a)
           n == Len(b)
<1>1. /\ s \in Seq(U) /\ m \in Nat /\ n \in Nat /\ Len(s) = m + n
      /\ \A i \in 1 .. m : s[i] = a[i]
      /\ \A i \in 1 .. n : s[m + i] = b[i]
  OBVIOUS
<1> HIDE DEF s
<1>2. ASSUME NEW i \in 1 .. Len(s)
      PROVE  \/ i \in 1 .. m /\ s[i] = a[i]
             \/ i - m \in 1 .. n /\ i > m /\ s[i] = b[i - m]
  <2>1. CASE i <= m
    BY <1>1, <2>1
  <2>2. CASE i > m
    <3>1. i - m \in 1 .. n /\ m + (i - m) = i
      BY <1>1, <2>2
    <3> QED
      BY <1>1, <2>2, <3>1
  <2> QED
    BY <1>1, <2>1, <2>2
<1>3. \A e : Has(s, e) <=> Has(a, e) \/ Has(b, e)
  <2> SUFFICES ASSUME NEW e
               PROVE  (\E i \in 1 .. Len(s) : s[i] = e) <=> (\E i \in 1 .. m : a[i] = e) \/ (\E i \in 1 .. n : b[i] = e)
    BY DEF Has
  <2>1. ASSUME NEW i \in 1 .. m PROVE i \in 1 .. Len(s) /\ s[i] = a[i]
    BY <1>1
  <2>2. ASSUME NEW i \in 1 .. n PROVE m + i \in 1 .. Len(s) /\ s[m + i] = b[i]
    BY <1>1
  <2> HIDE DEF m, n
  <2> QED
    BY <1>2, <2>1, <2>2
<1>4. ASSUME NEW W, Related(W, a), Related(W, b), Before(W, a, b)
      PROVE  Related(W, s)
  <2> SUFFICES ASSUME NEW i \in 1 .. Len(s), NEW j \in 1 .. Len(s), i < j PROVE <<s[i], s[j]>> \in W
    BY DEF Related
  <2>1. CASE j \in 1 .. m
    <3>1. i \in 1 .. m
      BY <1>1, <2>1
    <3> QED
      BY <1>1, <1>4, <2>1, <3>1 DEF Related
  <2>2. CASE i \in 1 .. m /\ j - m \in 1 .. n /\ s[j] = b[j - m]
    BY <1>1, <1>4, <2>2 DEF Before
  <2>3. CASE i > m /\ i - m \in 1 .. n /\ j - m \in 1 .. n /\ s[i] = b[i - m] /\ s[j] = b[j - m]
    <3>1. i - m < j - m
      BY <1>1
    <3> QED
      BY <1>4, <2>3, <3>1 DEF Related
  <2> QED
    BY <1>2, <2>1, <2>2, <2>3
<1> QED
  BY <1>1, <1>3, <1>4 DEF s

\* Flattened sequences have the elements of all of them, in their order.
LEMMA FlattenIsRelated ==
  ASSUME NEW U, NEW n \in Nat \ {0}, NEW seqs \in [1 .. n -> Seq(U)]
  PROVE  /\ FlattenSeq(seqs) \in Seq(U)
         /\ \A e : Has(FlattenSeq(seqs), e) <=> \E k \in 1 .. n : Has(seqs[k], e)
         /\ \A W : /\ \A k \in 1 .. n : Related(W, seqs[k])
                   /\ \A k, l \in 1 .. n : k < l => Before(W, seqs[k], seqs[l])
                   => Related(W, FlattenSeq(seqs))
<1> DEFINE flatten == CHOOSE f : f = [i \in 1 .. Len(seqs) |-> IF i = 1 THEN seqs[i] ELSE f[i - 1] \o seqs[i]]
<1>1. Len(seqs) = n /\ DOMAIN seqs = 1 .. n
  OBVIOUS
<1>2. FlattenSeq(seqs) = flatten[n]
  BY <1>1 DEF FlattenSeq
<1>3. flatten = [i \in 1 .. n |-> IF i = 1 THEN seqs[i] ELSE flatten[i - 1] \o seqs[i]]
  <2> DEFINE step == [p \in (1 .. n) \X Seq(U) |-> p[2] \o seqs[p[1]]]
  <2>1. step \in [(1 .. n) \X Seq(U) -> Seq(U)]
    <3> SUFFICES ASSUME NEW p \in (1 .. n) \X Seq(U) PROVE p[2] \o seqs[p[1]] \in Seq(U)
      OBVIOUS
    <3>1. p[1] \in 1 .. n /\ p[2] \in Seq(U) /\ seqs[p[1]] \in Seq(U)
      OBVIOUS
    <3> QED
      BY <3>1
  <2>2. <<>> \in Seq(U)
    OBVIOUS
  <2> HIDE DEF step
  <2>3. PICK f \in [0 .. n -> Seq(U)] : f[0] = <<>> /\ \A i \in 1 .. n : f[i] = step[<<i, f[i - 1]>>]
    <3> DEFINE X == Seq(U)
               base == <<>>
    <3>1. base \in X /\ step \in [(1 .. n) \X X -> X] /\ n \in Nat
      BY <2>1, <2>2
    <3> HIDE DEF X, base
    <3>2. \E f \in [0 .. n -> X] : Recursion(f, base, n, step)
      BY <3>1, RecursionExists
    <3> QED
      BY <3>2 DEF X, base, Recursion
  <2>4. ASSUME NEW i \in 1 .. n PROVE f[i] = f[i - 1] \o seqs[i] /\ f[i - 1] \in Seq(U)
    <3>1. i - 1 \in 0 .. n
      OBVIOUS
    <3>2. <<i, f[i - 1]>> \in (1 .. n) \X Seq(U)
      BY <3>1
    <3> QED
      BY <2>3, <3>1, <3>2 DEF step
  <2>5. f[1] = seqs[1]
    <3>1. 1 \in 1 .. n /\ 1 - 1 = 0 /\ seqs[1] \in Seq(U)
      OBVIOUS
    <3>2. f[1] = <<>> \o seqs[1]
      BY <2>3, <2>4, <3>1
    <3> QED
      BY <3>1, <3>2
  <2> DEFINE g == [i \in 1 .. n |-> f[i]]
  <2>6. g = [i \in 1 .. n |-> IF i = 1 THEN seqs[i] ELSE g[i - 1] \o seqs[i]]
    <3> SUFFICES ASSUME NEW i \in 1 .. n PROVE f[i] = IF i = 1 THEN seqs[i] ELSE g[i - 1] \o seqs[i]
      OBVIOUS
    <3>1. CASE i = 1
      BY <2>5, <3>1
    <3>2. CASE i # 1
      <4>1. i - 1 \in 1 .. n
        BY <3>2
      <4> QED
        BY <2>4, <3>2, <4>1
    <3> QED
      BY <3>1, <3>2
  <2> QED
    BY <1>1, <2>6
<1> HIDE DEF flatten
<1>4. flatten[1] = seqs[1]
  <2>1. 1 \in 1 .. n
    OBVIOUS
  <2> QED
    BY <1>3, <2>1
<1>8. ASSUME NEW i \in 1 .. n, i # 1 PROVE flatten[i] = flatten[i - 1] \o seqs[i]
  BY <1>3, <1>8
<1> DEFINE Holds(k) ==
             /\ flatten[k] \in Seq(U)
             /\ \A e : Has(flatten[k], e) <=> \E l \in 1 .. k : Has(seqs[l], e)
             /\ \A W : /\ \A l \in 1 .. k : Related(W, seqs[l])
                       /\ \A h, l \in 1 .. k : h < l => Before(W, seqs[h], seqs[l])
                       => Related(W, flatten[k])
           Good == {k \in Nat : k + 1 <= n => Holds(k + 1)}
<1>5. 0 \in Good
  <2>1. 1 .. 1 = {1} /\ \A h, l \in 1 .. 1 : ~(h < l)
    OBVIOUS
  <2>2. seqs[1] \in Seq(U)
    OBVIOUS
  <2>3. Holds(1)
    BY <1>4, <2>1, <2>2
  <2> HIDE DEF Holds
  <2> QED
    BY <2>3
<1>6. ASSUME NEW k \in Nat, k \in Good PROVE k + 1 \in Good
  <2> SUFFICES ASSUME k + 2 <= n PROVE Holds(k + 2)
    <3>1. k + 1 + 1 = k + 2
      OBVIOUS
    <3> HIDE DEF Holds
    <3> QED
      BY <3>1
  <2> DEFINE a == flatten[k + 1]
             b == seqs[k + 2]
             s == a \o b
  <2>1. Holds(k + 1)
    <3> HIDE DEF Holds
    <3> QED
      BY <1>6
  <2>2. flatten[k + 2] = s
    <3>1. k + 2 \in 1 .. n /\ k + 2 # 1 /\ k + 2 - 1 = k + 1
      OBVIOUS
    <3> DEFINE Joined(x, i) == x \o seqs[i]
    <3>2. \A i \in 1 .. n : i # 1 => flatten[i] = Joined(flatten[i - 1], i)
      BY <1>8
    <3> HIDE DEF Joined
    <3>3. flatten[k + 2] = Joined(flatten[k + 1], k + 2)
      BY <3>1, <3>2
    <3> QED
      BY <3>3 DEF Joined
  <2>3. a \in Seq(U) /\ b \in Seq(U)
    <3>1. k + 2 \in 1 .. n
      OBVIOUS
    <3> QED
      BY <2>1, <3>1
  <2>4. \A e : Has(a, e) <=> \E l \in 1 .. (k + 1) : Has(seqs[l], e)
    BY <2>1
  <2>5. \A W : /\ \A l \in 1 .. (k + 1) : Related(W, seqs[l])
               /\ \A h, l \in 1 .. (k + 1) : h < l => Before(W, seqs[h], seqs[l])
               => Related(W, a)
    BY <2>1
  <2> HIDE DEF a, b
  <2>6. \A l : l \in 1 .. (k + 2) <=> l \in 1 .. (k + 1) \/ l = k + 2
    OBVIOUS
  <2>7. s \in Seq(U)
    BY <2>3, JoinIsRelated
  <2>8. \A e : Has(s, e) <=> \E l \in 1 .. (k + 2) : Has(seqs[l], e)
    <3> SUFFICES ASSUME NEW e
                 PROVE  Has(s, e) <=> \E l \in 1 .. (k + 2) : Has(seqs[l], e)
      OBVIOUS
    <3>1. Has(s, e) <=> Has(a, e) \/ Has(b, e)
      BY <2>3, JoinIsRelated
    <3>2. (\E l \in 1 .. (k + 2) : Has(seqs[l], e)) <=> (\E l \in 1 .. (k + 1) : Has(seqs[l], e)) \/ Has(b, e)
      BY <2>6 DEF b
    <3> QED
      BY <2>4, <3>1, <3>2
  <2>9. ASSUME NEW W, \A l \in 1 .. (k + 2) : Related(W, seqs[l]),
               \A h, l \in 1 .. (k + 2) : h < l => Before(W, seqs[h], seqs[l])
        PROVE  Related(W, s)
    <3>1. Related(W, a)
      BY <2>5, <2>6, <2>9
    <3>2. Related(W, b)
      BY <2>6, <2>9 DEF b
    <3>3. Before(W, a, b)
      <4>1. ASSUME NEW i \in 1 .. Len(a), NEW j \in 1 .. Len(b) PROVE <<a[i], b[j]>> \in W
        <5>1. PICK l \in 1 .. (k + 1) : Has(seqs[l], a[i])
          BY <2>4 DEF Has
        <5>2. l \in 1 .. (k + 2) /\ k + 2 \in 1 .. (k + 2) /\ l < k + 2
          OBVIOUS
        <5> QED
          BY <2>9, <5>1, <5>2 DEF b, Has, Before
      <4> QED
        BY <4>1 DEF Before
    <3> QED
      BY <2>3, <3>1, <3>2, <3>3, JoinIsRelated
  <2> QED
    BY <2>2, <2>7, <2>8, <2>9
<1>7. Holds(n)
  <2> HIDE DEF Good, Holds
  <2>1. Nat \subseteq Good
    BY <1>5, <1>6, AllNumbers
  <2>2. n - 1 \in Good /\ n - 1 + 1 = n
    BY <2>1
  <2> QED
    BY <2>2 DEF Good
<1> QED
  BY <1>2, <1>7

-----------------------------------------------------------------------------
(* The orders of a review are those of its evaluation. *)

AdvisedType ==
  [ticket : Tickets, act : {"CLOSE", "MODIFY"}, lots : Nat, sl : Nat,
   why : TP1Reasons \cup TP2Reasons \cup
         {"lock", "time", "time_72h", "reversal", "trail", "group_be", "reanchor", "group_exit"}]

TakesFor(c, t, flag) == c.ticket = t /\ Takes(c, flag)

\* Of two orders for a position the later stop is ahead and no target is closed twice.
Follows(P) ==
  {w \in AdvisedType \X AdvisedType :
     w[1].ticket = w[2].ticket =>
       /\ w[1].act = "MODIFY" /\ w[2].act = "MODIFY" => Beyond(P[w[1].ticket].side, w[1].sl, w[2].sl) > 0
       /\ \A flag \in Flags : ~(Takes(w[1], flag) /\ Takes(w[2], flag))}

\* An order is for an open position, moves its stop ahead, and closes only a target that
\* is newly taken.
Fit(P, old, r, c) ==
  /\ c \in AdvisedType /\ c.ticket \in DOMAIN P
  /\ c.act = "MODIFY" => P[c.ticket].sl = 0 \/ Beyond(P[c.ticket].side, P[c.ticket].sl, c.sl) > 0
  /\ \A flag \in Flags : Takes(c, flag) => r[c.ticket].st[flag] /\ ~Had(old, c.ticket, flag)

Sound(P, old, r, s) ==
  /\ s \in Seq(AdvisedType) /\ Related(Follows(P), s)
  /\ \A i \in 1 .. Len(s) : Fit(P, old, r, s[i])

\* Every target that is newly taken is closed.
Complete(P, old, r, s) ==
  \A t \in DOMAIN P : \A flag \in Flags :
    r[t].st[flag] /\ ~Had(old, t, flag) => \E i \in 1 .. Len(s) : TakesFor(s[i], t, flag)

\* An order is what a rule advised for a position.
Source(P, r, k, t, c) ==
  t \in DOMAIN P /\ \E i \in DOMAIN r[t].adv[Rules[k]] : c = Advised(t, r[t].adv[Rules[k]][i])

\* What a rule advises for one position.
LEMMA TicketIsSound ==
  ASSUME NEW P, DOMAIN P \subseteq Tickets, NEW old, NEW m, NEW r, AllKept(P, old, m, 7, r),
         NEW k \in 1 .. 6, NEW t \in Tickets
  PROVE  /\ OfTicket(r, Rules[k], t) \in Seq(AdvisedType)
         /\ \A e : Has(OfTicket(r, Rules[k], t), e) <=> Source(P, r, k, t, e)
         /\ Related(Follows(P), OfTicket(r, Rules[k], t))
<1>1. DOMAIN r = DOMAIN P /\ k \in DOMAIN Rules
  BY RulesAreSix DEF AllKept
<1>2. CASE t \notin DOMAIN P
  <2>1. OfTicket(r, Rules[k], t) = <<>>
    BY <1>1, <1>2 DEF OfTicket
  <2>2. <<>> \in Seq(AdvisedType) /\ Len(<<>>) = 0 /\ 1 .. 0 = {}
    OBVIOUS
  <2> QED
    BY <1>2, <2>1, <2>2 DEF Has, Related, Source
<1>3. CASE t \in DOMAIN P
  <2> DEFINE a == r[t].adv[Rules[k]]
             s == [i \in DOMAIN a |-> Advised(t, a[i])]
  <2>1. Kept(P[t], old, t, m, 7, r[t])
    BY <1>3 DEF AllKept
  <2>2. a \in Seq(CommandType)
    BY <1>1, <2>1 DEF Kept, AdviceType, RuleNames
  <2>3. OrderKept(P[t], r[t])
    BY <2>1 DEF Kept
  <2>4. \A i, j \in DOMAIN a : i < j =>
          /\ a[i].act = "MODIFY" /\ a[j].act = "MODIFY" => Beyond(P[t].side, a[i].sl, a[j].sl) > 0
          /\ \A flag \in Flags : ~(Takes(a[i], flag) /\ Takes(a[j], flag))
    BY <1>1, <2>3 DEF OrderKept, Earlier
  <2>5. OfTicket(r, Rules[k], t) = s
    BY <1>1, <1>3 DEF OfTicket
  <2> HIDE DEF a
  <2>7. ASSUME NEW i \in DOMAIN a
        PROVE  /\ Advised(t, a[i]) \in AdvisedType /\ Advised(t, a[i]).ticket = t
               /\ Advised(t, a[i]).act = a[i].act /\ Advised(t, a[i]).sl = a[i].sl
               /\ \A flag \in Flags : Takes(Advised(t, a[i]), flag) <=> Takes(a[i], flag)
    <3>1. a[i] \in CommandType
      BY <2>2
    <3> QED
      BY <3>1 DEF Advised, AdvisedType, CommandType, Takes
  <2> HIDE DEF s
  <2>8. s \in Seq(AdvisedType) /\ Len(s) = Len(a) /\ DOMAIN a = 1 .. Len(a)
        /\ \A i \in 1 .. Len(a) : s[i] = Advised(t, a[i])
    <3>1. DOMAIN a = 1 .. Len(a) /\ Len(a) \in Nat
      BY <2>2
    <3>2. s \in [1 .. Len(a) -> AdvisedType] /\ \A i \in 1 .. Len(a) : s[i] = Advised(t, a[i])
      BY <2>7, <3>1 DEF s
    <3> QED
      BY <3>1, <3>2
  <2>9. \A e : Has(s, e) <=> Source(P, r, k, t, e)
    BY <1>3, <2>8 DEF Has, Source, a
  <2>10. Related(Follows(P), s)
    <3> SUFFICES ASSUME NEW i \in 1 .. Len(s), NEW j \in 1 .. Len(s), i < j
                 PROVE  <<s[i], s[j]>> \in Follows(P)
      BY DEF Related
    <3>1. i \in DOMAIN a /\ j \in DOMAIN a /\ s[i] = Advised(t, a[i]) /\ s[j] = Advised(t, a[j])
      BY <2>8
    <3> QED
      BY <2>4, <2>7, <3>1 DEF Follows
  <2> QED
    BY <2>5, <2>8, <2>9, <2>10
<1> QED
  BY <1>2, <1>3

\* What a rule advises.
LEMMA RuleIsSound ==
  ASSUME NEW P, DOMAIN P \subseteq Tickets, NEW old, NEW m, NEW r, AllKept(P, old, m, 7, r),
         NEW k \in 1 .. 6
  PROVE  /\ OfRule(r, Rules[k]) \in Seq(AdvisedType)
         /\ \A e : Has(OfRule(r, Rules[k]), e) <=> \E t \in Tickets : Source(P, r, k, t, e)
         /\ Related(Follows(P), OfRule(r, Rules[k]))
<1> DEFINE n == LastTicket
           seqs == [t \in Tickets |-> OfTicket(r, Rules[k], t)]
           W == Follows(P)
           U == AdvisedType
<1>1. n \in Nat \ {0} /\ Tickets = 1 .. n
  BY ReviewAssumption DEF Tickets
<1>2. \A t \in Tickets : seqs[t] = OfTicket(r, Rules[k], t) /\ DOMAIN seqs = Tickets
  OBVIOUS
<1>3. FlattenSeq(seqs) = OfRule(r, Rules[k])
  BY DEF OfRule
<1> HIDE DEF n, seqs, W, U
<1>4. \A t \in Tickets : /\ seqs[t] \in Seq(U) /\ Related(W, seqs[t])
                         /\ \A e : Has(seqs[t], e) <=> Source(P, r, k, t, e)
  BY <1>2, TicketIsSound DEF W, U
<1>5. seqs \in [1 .. n -> Seq(U)]
  <2>1. seqs = [t \in Tickets |-> seqs[t]]
    BY DEF seqs
  <2> QED
    BY <1>1, <1>4, <2>1
<1>6. ASSUME NEW t \in Tickets, NEW u \in Tickets, t < u
      PROVE  Before(W, seqs[t], seqs[u])
  <2> SUFFICES ASSUME NEW i \in 1 .. Len(seqs[t]), NEW j \in 1 .. Len(seqs[u])
               PROVE  <<seqs[t][i], seqs[u][j]>> \in W
    BY DEF Before
  <2>1. seqs[t][i] \in AdvisedType /\ seqs[u][j] \in AdvisedType
    BY <1>4 DEF U
  <2>2. seqs[t][i].ticket = t /\ seqs[u][j].ticket = u
    BY <1>4 DEF Has, Source, Advised
  <2>3. t # u
    BY <1>1, <1>6
  <2> QED
    BY <2>1, <2>2, <2>3 DEF W, Follows
<1>7. /\ FlattenSeq(seqs) \in Seq(U)
      /\ \A e : Has(FlattenSeq(seqs), e) <=> \E t \in 1 .. n : Has(seqs[t], e)
      /\ Related(W, FlattenSeq(seqs))
  <2>1. /\ \A t \in 1 .. n : Related(W, seqs[t])
        /\ \A t, u \in 1 .. n : t < u => Before(W, seqs[t], seqs[u])
    BY <1>1, <1>4, <1>6
  <2> QED
    BY <1>1, <1>5, <2>1, FlattenIsRelated
<1> QED
  BY <1>1, <1>3, <1>4, <1>7 DEF W, U

\* What all of them advise: sound and complete.
LEMMA AdvicesAreSound ==
  ASSUME NEW P, DOMAIN P \subseteq Tickets, NEW old, NEW m, NEW r, AllKept(P, old, m, 7, r)
  PROVE  Sound(P, old, r, Advices(r)) /\ Complete(P, old, r, Advices(r))
<1> DEFINE seqs == [k \in DOMAIN Rules |-> OfRule(r, Rules[k])]
           W == Follows(P)
           U == AdvisedType
           s == Advices(r)
<1>1. \A k \in 1 .. 6 : seqs[k] = OfRule(r, Rules[k])
  BY RulesAreSix
<1>2. FlattenSeq(seqs) = s
  BY DEF Advices
<1>3. seqs = [k \in 1 .. 6 |-> seqs[k]]
  BY RulesAreSix
<1> HIDE DEF seqs, W, U, s
<1>4. \A k \in 1 .. 6 : /\ seqs[k] \in Seq(U) /\ Related(W, seqs[k])
                        /\ \A e : Has(seqs[k], e) <=> \E t \in Tickets : Source(P, r, k, t, e)
  BY <1>1, RuleIsSound DEF W, U
<1>5. seqs \in [1 .. 6 -> Seq(U)]
  BY <1>3, <1>4
<1>6. \A t \in DOMAIN P : Kept(P[t], old, t, m, 7, r[t])
  BY DEF AllKept
<1>7. ASSUME NEW t, NEW v, NEW e, e = Advised(t, v)
      PROVE  /\ e.ticket = t /\ e.act = v.act /\ e.sl = v.sl
             /\ \A flag \in Flags : Takes(e, flag) <=> Takes(v, flag)
  BY <1>7 DEF Advised, Takes
<1>8. ASSUME NEW k \in 1 .. 6, NEW l \in 1 .. 6, k < l
      PROVE  Before(W, seqs[k], seqs[l])
  <2> SUFFICES ASSUME NEW a \in 1 .. Len(seqs[k]), NEW b \in 1 .. Len(seqs[l])
               PROVE  <<seqs[k][a], seqs[l][b]>> \in W
    BY DEF Before
  <2> DEFINE c == seqs[k][a]
             d == seqs[l][b]
  <2>1. c \in AdvisedType /\ d \in AdvisedType /\ Has(seqs[k], c) /\ Has(seqs[l], d)
    <3>1. seqs[k] \in Seq(U) /\ seqs[l] \in Seq(U)
      BY <1>4
    <3> QED
      BY <3>1 DEF U, Has
  <2> HIDE DEF c, d
  <2>10. \A h, t, e : Source(P, r, h, t, e) => t \in DOMAIN P
    BY DEF Source
  <2>2. PICK t \in DOMAIN P : Source(P, r, k, t, c)
    BY <1>4, <2>1, <2>10
  <2>3. PICK u \in DOMAIN P : Source(P, r, l, u, d)
    BY <1>4, <2>1, <2>10
  <2>4. PICK i \in DOMAIN r[t].adv[Rules[k]] : c = Advised(t, r[t].adv[Rules[k]][i])
    BY <2>2 DEF Source
  <2>5. PICK j \in DOMAIN r[u].adv[Rules[l]] : d = Advised(u, r[u].adv[Rules[l]][j])
    BY <2>3 DEF Source
  <2> DEFINE v == r[t].adv[Rules[k]][i]
             w == r[u].adv[Rules[l]][j]
  <2>6. /\ c.ticket = t /\ c.act = v.act /\ c.sl = v.sl
        /\ d.ticket = u /\ d.act = w.act /\ d.sl = w.sl
        /\ \A flag \in Flags : (Takes(c, flag) <=> Takes(v, flag)) /\ (Takes(d, flag) <=> Takes(w, flag))
    <3>1. c = Advised(t, v) /\ d = Advised(u, w)
      BY <2>4, <2>5
    <3> HIDE DEF v, w
    <3> QED
      BY <1>7, <3>1
  <2>7. CASE t # u
    BY <2>1, <2>6, <2>7 DEF W, Follows, c, d
  <2>8. CASE t = u
    <3>1. OrderKept(P[t], r[t]) /\ k \in DOMAIN Rules /\ l \in DOMAIN Rules /\ Earlier(k, i, l, j)
      BY <1>6, <1>8, RulesAreSix DEF Kept, Earlier
    <3>2. /\ v.act = "MODIFY" /\ w.act = "MODIFY" => Beyond(P[t].side, v.sl, w.sl) > 0
          /\ \A flag \in Flags : ~(Takes(v, flag) /\ Takes(w, flag))
      BY <2>8, <3>1 DEF OrderKept
    <3> HIDE DEF v, w
    <3>4. <<c, d>> \in Follows(P)
      BY <2>1, <2>6, <2>8, <3>2 DEF Follows
    <3> QED
      BY <3>4 DEF W, c, d
  <2> QED
    BY <2>7, <2>8
<1>9. s \in Seq(U) /\ Related(W, s) /\ \A e : Has(s, e) <=> \E k \in 1 .. 6 : Has(seqs[k], e)
  <2>1. /\ \A k \in 1 .. 6 : Related(W, seqs[k])
        /\ \A k, l \in 1 .. 6 : k < l => Before(W, seqs[k], seqs[l])
    BY <1>4, <1>8
  <2>2. 6 \in Nat \ {0}
    OBVIOUS
  <2> QED
    BY <1>2, <1>5, <2>1, <2>2, FlattenIsRelated
<1>10. \A e : Has(s, e) <=> \E k \in 1 .. 6 : \E t \in DOMAIN P : Source(P, r, k, t, e)
  <2>1. \A k, t, e : Source(P, r, k, t, e) => t \in DOMAIN P
    BY DEF Source
  <2> QED
    BY <1>4, <1>9, <2>1
<1>11. ASSUME NEW n \in 1 .. Len(s) PROVE Fit(P, old, r, s[n])
  <2> DEFINE c == s[n]
  <2>1. c \in AdvisedType
    BY <1>9 DEF U
  <2>2. PICK k \in 1 .. 6 : \E t \in DOMAIN P : Source(P, r, k, t, c)
    BY <1>10 DEF Has
  <2>3. PICK t \in DOMAIN P : Source(P, r, k, t, c)
    BY <2>2
  <2> HIDE DEF c
  <2>4. PICK i \in DOMAIN r[t].adv[Rules[k]] : c = Advised(t, r[t].adv[Rules[k]][i])
    BY <2>3 DEF Source
  <2> DEFINE v == r[t].adv[Rules[k]][i]
  <2>5. k \in DOMAIN Rules /\ StopsKept(P[t], m, r[t]) /\ FlagsKept(old, t, r[t])
    BY <1>6, RulesAreSix DEF Kept
  <2>6. v.act = "MODIFY" => P[t].sl = 0 \/ Beyond(P[t].side, P[t].sl, v.sl) > 0
    BY <2>5 DEF StopsKept
  <2>7. \A flag \in Flags : Takes(v, flag) => r[t].st[flag] /\ ~Had(old, t, flag)
    BY <2>5 DEF FlagsKept
  <2>8. c.ticket = t /\ c.act = v.act /\ c.sl = v.sl /\ \A flag \in Flags : Takes(c, flag) <=> Takes(v, flag)
    <3>1. c = Advised(t, v)
      BY <2>4
    <3> HIDE DEF v
    <3> QED
      BY <1>7, <3>1
  <2> HIDE DEF v
  <2>9. Fit(P, old, r, c)
    BY <2>1, <2>6, <2>7, <2>8 DEF Fit
  <2> QED
    BY <2>9 DEF c
<1>12. Complete(P, old, r, s)
  <2> SUFFICES ASSUME NEW t \in DOMAIN P, NEW flag \in Flags, r[t].st[flag], ~Had(old, t, flag)
               PROVE  \E n \in 1 .. Len(s) : TakesFor(s[n], t, flag)
    BY DEF Complete
  <2>1. FlagsKept(old, t, r[t])
    BY <1>6 DEF Kept
  <2>2. PICK k \in DOMAIN Rules : \E i \in DOMAIN r[t].adv[Rules[k]] : Takes(r[t].adv[Rules[k]][i], flag)
    BY <2>1 DEF FlagsKept
  <2>3. PICK i \in DOMAIN r[t].adv[Rules[k]] : Takes(r[t].adv[Rules[k]][i], flag)
    BY <2>2
  <2> DEFINE e == Advised(t, r[t].adv[Rules[k]][i])
  <2>4. k \in 1 .. 6
    BY RulesAreSix
  <2>5. Source(P, r, k, t, e)
    BY DEF Source
  <2>6. TakesFor(e, t, flag)
    BY <2>3 DEF TakesFor, Takes, Advised
  <2> HIDE DEF e
  <2>7. Has(s, e)
    BY <1>10, <2>4, <2>5
  <2> QED
    BY <2>6, <2>7 DEF Has
<1> QED
  BY <1>9, <1>11, <1>12 DEF Sound, W, U, s

\* The queue after the first n orders: what was there, then those of them that can be made
\* and were not known, in their order; the ids of all that can be made are known.
Extends(q, orders, n, next, W) ==
  /\ next.queue \in Seq(AdvisedType) /\ Len(q.queue) <= Len(next.queue)
  /\ \A i \in 1 .. Len(q.queue) : next.queue[i] = q.queue[i]
  /\ \A i \in 1 .. Len(next.queue) : i > Len(q.queue) =>
       /\ Makes(next.queue[i]) /\ CommandId(next.queue[i]) \notin q.ids
       /\ CommandId(next.queue[i]) \in next.ids
       /\ \E j \in 1 .. n : next.queue[i] = orders[j]
  /\ \A i, j \in 1 .. Len(next.queue) : Len(q.queue) < i /\ i < j => <<next.queue[i], next.queue[j]>> \in W
  /\ q.ids \subseteq next.ids
  /\ \A id \in next.ids : id \in q.ids \/ \E i \in 1 .. Len(next.queue) : i > Len(q.queue) /\ id = CommandId(next.queue[i])
  /\ \A j \in 1 .. n : Makes(orders[j]) => CommandId(orders[j]) \in next.ids

\* One more order.
LEMMA OneEnqueued ==
  ASSUME NEW q, q.queue \in Seq(AdvisedType), NEW orders \in Seq(AdvisedType), NEW n \in Nat, n + 1 <= Len(orders),
         NEW W, Related(W, orders), NEW done, done = [queue |-> done.queue, ids |-> done.ids],
         Extends(q, orders, n, done, W)
  PROVE  Extends(q, orders, n + 1, Enqueued(done, orders[n + 1]), W)
<1> DEFINE c == orders[n + 1]
           next == Enqueued(done, c)
<1>1. /\ n + 1 \in 1 .. Len(orders) /\ c \in AdvisedType
      /\ \A j \in 1 .. n : j \in 1 .. Len(orders) /\ j < n + 1
  OBVIOUS
<1>2. \A j : j \in 1 .. (n + 1) <=> j \in 1 .. n \/ j = n + 1
  OBVIOUS
<1>3. CASE ~(Makes(c) /\ CommandId(c) \notin done.ids)
  <2>1. next = done
    BY <1>3 DEF Enqueued
  <2> HIDE DEF next, c
  <2>2. Extends(q, orders, n + 1, done, W)
    BY <1>2, <1>3 DEF Extends, c
  <2> QED
    BY <2>1, <2>2 DEF next, c
<1>4. CASE Makes(c) /\ CommandId(c) \notin done.ids
  <2> DEFINE a == done.queue
             b == Append(a, c)
             m == Len(a)
  <2>1. next = [queue |-> b, ids |-> done.ids \cup {CommandId(c)}]
    BY <1>4 DEF Enqueued
  <2>2. next.queue = b /\ next.ids = done.ids \cup {CommandId(c)}
    BY <2>1
  <2>3. a \in Seq(AdvisedType) /\ Len(q.queue) <= m /\ m \in Nat /\ Len(q.queue) \in Nat
    BY DEF Extends
  <2> HIDE DEF next, a, c
  <2>4. /\ b \in Seq(AdvisedType) /\ Len(b) = m + 1 /\ b[m + 1] = c
        /\ \A i \in 1 .. m : b[i] = a[i]
    BY <1>1, <2>3
  <2> HIDE DEF b, m
  <2>5. \A i \in 1 .. Len(b) : i \in 1 .. m \/ i = m + 1
    BY <2>3, <2>4
  <2>6. \A i \in 1 .. m : i \in 1 .. Len(b)
    BY <2>3, <2>4
  <2>7. /\ \A i \in 1 .. Len(q.queue) : i \in 1 .. m /\ a[i] = q.queue[i]
        /\ \A i \in 1 .. m : i > Len(q.queue) =>
             /\ Makes(a[i]) /\ CommandId(a[i]) \notin q.ids /\ CommandId(a[i]) \in done.ids
             /\ \E j \in 1 .. n : a[i] = orders[j]
        /\ \A i, j \in 1 .. m : Len(q.queue) < i /\ i < j => <<a[i], a[j]>> \in W
        /\ q.ids \subseteq done.ids
        /\ \A id \in done.ids : id \in q.ids \/ \E i \in 1 .. m : i > Len(q.queue) /\ id = CommandId(a[i])
        /\ \A j \in 1 .. n : Makes(orders[j]) => CommandId(orders[j]) \in done.ids
    BY <2>3 DEF Extends, a, m
  <2>8. b \in Seq(AdvisedType) /\ Len(q.queue) <= Len(b)
    BY <2>3, <2>4
  <2>9. \A i \in 1 .. Len(q.queue) : b[i] = q.queue[i]
    BY <2>4, <2>7
  <2>10. ASSUME NEW i \in 1 .. Len(b), i > Len(q.queue)
         PROVE  /\ Makes(b[i]) /\ CommandId(b[i]) \notin q.ids /\ CommandId(b[i]) \in next.ids
                /\ \E j \in 1 .. (n + 1) : b[i] = orders[j]
    <3>1. CASE i \in 1 .. m
      <4>1. b[i] = a[i]
        BY <2>4, <3>1
      <4>2. /\ Makes(a[i]) /\ CommandId(a[i]) \notin q.ids /\ CommandId(a[i]) \in done.ids
            /\ \E j \in 1 .. n : a[i] = orders[j]
        BY <2>7, <2>10, <3>1
      <4> QED
        BY <1>2, <2>2, <4>1, <4>2
    <3>2. CASE i = m + 1
      <4>1. b[i] = c /\ c = orders[n + 1]
        BY <2>4, <3>2 DEF c
      <4> QED
        BY <1>2, <1>4, <2>2, <2>7, <4>1
    <3> QED
      BY <2>5, <3>1, <3>2
  <2>11. ASSUME NEW i \in 1 .. Len(b), NEW j \in 1 .. Len(b), Len(q.queue) < i, i < j
         PROVE  <<b[i], b[j]>> \in W
    <3>1. i \in 1 .. m
      BY <2>3, <2>4, <2>11
    <3>2. CASE j \in 1 .. m
      BY <2>4, <2>7, <2>11, <3>1, <3>2
    <3>3. CASE j = m + 1
      <4>1. PICK h \in 1 .. n : a[i] = orders[h]
        BY <2>7, <2>11, <3>1
      <4>2. h \in 1 .. Len(orders) /\ h < n + 1 /\ n + 1 \in 1 .. Len(orders)
        BY <1>1
      <4>3. b[i] = orders[h] /\ b[j] = orders[n + 1]
        BY <2>4, <3>1, <3>3, <4>1 DEF c
      <4> QED
        BY <4>2, <4>3 DEF Related
    <3> QED
      BY <2>5, <3>2, <3>3
  <2>12. q.ids \subseteq next.ids
    BY <2>2, <2>7
  <2>13. ASSUME NEW id \in next.ids
         PROVE  id \in q.ids \/ \E i \in 1 .. Len(b) : i > Len(q.queue) /\ id = CommandId(b[i])
    <3>1. CASE id \in done.ids
      BY <2>4, <2>6, <2>7, <3>1
    <3>2. CASE id = CommandId(c)
      <4>1. m + 1 \in 1 .. Len(b) /\ m + 1 > Len(q.queue)
        BY <2>3, <2>4
      <4> QED
        BY <2>4, <3>2, <4>1
    <3> QED
      BY <2>2, <2>13, <3>1, <3>2
  <2>14. \A j \in 1 .. (n + 1) : Makes(orders[j]) => CommandId(orders[j]) \in next.ids
    BY <1>2, <2>2, <2>7 DEF c
  <2>15. Extends(q, orders, n + 1, next, W)
    BY <2>2, <2>8, <2>9, <2>10, <2>11, <2>12, <2>13, <2>14 DEF Extends
  <2> QED
    BY <2>15 DEF next, c
<1> QED
  BY <1>3, <1>4

\* All of them.
LEMMA QueuedExtends ==
  ASSUME NEW q, q = [queue |-> q.queue, ids |-> q.ids], q.queue \in Seq(AdvisedType),
         NEW orders \in Seq(AdvisedType), NEW W, Related(W, orders)
  PROVE  Extends(q, orders, Len(orders), Queued(q, orders), W)
<1> DEFINE n == Len(orders)
           X == [queue : Seq(AdvisedType), ids : SUBSET (q.ids \cup {CommandId(c) : c \in AdvisedType})]
           step == [w \in (1 .. n) \X X |-> Enqueued(w[2], orders[w[1]])]
           after == CHOOSE f : f = [i \in 0 .. n |-> IF i = 0 THEN q ELSE Enqueued(f[i - 1], orders[i])]
<1>1. n \in Nat /\ \A i \in 1 .. n : orders[i] \in AdvisedType
  OBVIOUS
<1>2. Queued(q, orders) = after[n]
  BY DEF Queued
<1>3. q \in X
  OBVIOUS
<1>4. ASSUME NEW done \in X, NEW c \in AdvisedType PROVE Enqueued(done, c) \in X
  <2>1. Append(done.queue, c) \in Seq(AdvisedType) /\ done.queue \in Seq(AdvisedType)
    OBVIOUS
  <2>2. done.ids \cup {CommandId(c)} \subseteq q.ids \cup {CommandId(d) : d \in AdvisedType}
    OBVIOUS
  <2>3. [queue |-> Append(done.queue, c), ids |-> done.ids \cup {CommandId(c)}] \in X
    BY <2>1, <2>2
  <2> HIDE DEF X
  <2> QED
    BY <2>3 DEF Enqueued
<1> HIDE DEF X, n
<1>5. step \in [(1 .. n) \X X -> X]
  <2> SUFFICES ASSUME NEW w \in (1 .. n) \X X PROVE Enqueued(w[2], orders[w[1]]) \in X
    OBVIOUS
  <2>1. w[2] \in X /\ w[1] \in 1 .. n
    OBVIOUS
  <2> QED
    BY <1>1, <1>4, <2>1
<1> HIDE DEF step
<1>6. PICK f \in [0 .. n -> X] : Recursion(f, q, n, step)
  BY <1>1, <1>3, <1>5, RecursionExists
<1>7. f[0] = q /\ \A i \in 1 .. n : f[i] = Enqueued(f[i - 1], orders[i])
  <2>1. f[0] = q /\ \A i \in 1 .. n : f[i] = step[<<i, f[i - 1]>>]
    BY <1>6 DEF Recursion
  <2> SUFFICES ASSUME NEW i \in 1 .. n PROVE f[i] = Enqueued(f[i - 1], orders[i])
    BY <2>1
  <2>2. i - 1 \in 0 .. n
    BY <1>1
  <2>3. <<i, f[i - 1]>> \in (1 .. n) \X X
    BY <2>2
  <2> QED
    BY <2>1, <2>3 DEF step
<1>8. f = [i \in 0 .. n |-> IF i = 0 THEN q ELSE Enqueued(f[i - 1], orders[i])]
  <2>1. \A i \in 0 .. n : i = 0 \/ i \in 1 .. n
    BY <1>1
  <2> HIDE DEF n
  <2>2. \A i \in 0 .. n : f[i] = IF i = 0 THEN q ELSE Enqueued(f[i - 1], orders[i])
    <3>1. \A i \in 1 .. n : i # 0
      BY <1>1
    <3> QED
      BY <1>7, <2>1, <3>1
  <2>3. f = [i \in 0 .. n |-> f[i]]
    OBVIOUS
  <2> QED
    BY <2>2, <2>3
<1>9. after = [i \in 0 .. n |-> IF i = 0 THEN q ELSE Enqueued(after[i - 1], orders[i])]
  BY <1>8
<1> HIDE DEF after
<1>10. after[0] = q /\ \A i \in 1 .. n : after[i] = Enqueued(after[i - 1], orders[i])
  <2>1. 0 \in 0 .. n /\ \A i \in 1 .. n : i \in 0 .. n /\ i # 0
    BY <1>1
  <2> QED
    BY <1>9, <2>1
<1> DEFINE Good == {k \in Nat : k <= n =>
                      /\ after[k] = [queue |-> after[k].queue, ids |-> after[k].ids]
                      /\ Extends(q, orders, k, after[k], W)}
<1>11. 0 \in Good
  <2>1. 1 .. 0 = {} /\ Len(q.queue) \in Nat
    OBVIOUS
  <2>2. \A i \in 1 .. Len(q.queue) : ~(i > Len(q.queue))
    BY <2>1
  <2>3. \A i, j \in 1 .. Len(q.queue) : ~(Len(q.queue) < i /\ i < j)
    BY <2>1
  <2>4. Extends(q, orders, 0, q, W)
    BY <2>1, <2>2, <2>3 DEF Extends
  <2> QED
    BY <1>10, <2>4
<1>12. ASSUME NEW k \in Nat, k \in Good PROVE k + 1 \in Good
  <2> SUFFICES ASSUME k + 1 <= n
               PROVE  /\ after[k + 1] = [queue |-> after[k + 1].queue, ids |-> after[k + 1].ids]
                      /\ Extends(q, orders, k + 1, after[k + 1], W)
    OBVIOUS
  <2>1. k <= n /\ k + 1 \in 1 .. n /\ k + 1 - 1 = k
    BY <1>1
  <2>2. /\ after[k] = [queue |-> after[k].queue, ids |-> after[k].ids]
        /\ Extends(q, orders, k, after[k], W)
    BY <1>12, <2>1
  <2> DEFINE done == after[k]
             c == orders[k + 1]
  <2>3. after[k + 1] = Enqueued(done, c)
    BY <1>10, <2>1
  <2>4. \/ Enqueued(done, c) = done
        \/ Enqueued(done, c) = [queue |-> Append(done.queue, c), ids |-> done.ids \cup {CommandId(c)}]
    BY DEF Enqueued
  <2> HIDE DEF Good, done, c
  <2>5. after[k + 1] = [queue |-> after[k + 1].queue, ids |-> after[k + 1].ids]
    BY <2>2, <2>3, <2>4 DEF done
  <2>6. Extends(q, orders, k + 1, Enqueued(done, c), W)
    BY <1>1, <2>2, OneEnqueued DEF done, c, n
  <2> QED
    BY <2>3, <2>5, <2>6
<1>13. n \in Good
  <2> HIDE DEF Good
  <2> QED
    BY <1>1, <1>11, <1>12, AllNumbers
<1> QED
  BY <1>2, <1>13 DEF n

-----------------------------------------------------------------------------
(* The loop of posts, reviews, polls and executions. *)

\* The orders under way, in the order they are executed in: those that the terminal still
\* has to execute, or those that wait for its next poll.
Line == IF inbox = <<>> THEN queue ELSE inbox
UnderWay(t, flag) == \E i \in 1 .. Len(Line) : TakesFor(Line[i], t, flag)

ReviewTypes ==
  /\ opened \subseteq Tickets /\ price \in Prices
  /\ broker \in [DOMAIN broker -> PositionType] /\ DOMAIN broker \subseteq opened
  /\ states \in [DOMAIN states -> StateType] /\ DOMAIN states \subseteq opened
  /\ inbox \in Seq(AdvisedType) /\ queue \in Seq(AdvisedType)
  /\ inbox = <<>> \/ queue = <<>>
  /\ terminal = "poll" => inbox = <<>>
  /\ \A i \in 1 .. Len(Line) : Line[i].ticket \in opened
  /\ \A id \in ids : id[1] \in opened
  /\ taken \in [Tickets -> [tp1 : Nat, tp2 : Nat]]
  /\ \A t \in Tickets \ opened : \A flag \in Flags : taken[t][flag] = 0

\* What an evaluation says of the states.
Found(found) ==
  \A t \in DOMAIN broker :
    /\ found[t].st \in StateType
    /\ \A flag \in Flags : Had(states, t, flag) => found[t].st[flag]

\* A review queues what can be made of these orders.
Reviews(found, orders) ==
  /\ Found(found) /\ Sound(broker, states, found, orders)
  /\ Extends([queue |-> queue, ids |-> ids], orders, Len(orders), [queue |-> queue', ids |-> ids'], Follows(broker))
  /\ terminal = "post" /\ inbox = <<>> /\ terminal' = "poll"
  /\ UNCHANGED <<broker, opened, price, inbox, taken>>

\* An evaluation of what is posted.
LEMMA EvaluationIsFound ==
  ASSUME ReviewTypes, NEW sign \in Signs,
         NEW found, found = EvaluateCommands(broker, states, Market(sign))
  PROVE  /\ Found(found) /\ Sound(broker, states, found, Advices(found))
         /\ Complete(broker, states, found, Advices(found))
<1> DEFINE m == Market(sign)
<1>1. m \in MarketType
  <2>1. sign \in SignType /\ price \in Nat
    BY ReviewAssumption DEF ReviewTypes
  <2> QED
    BY <2>1 DEF Market, SignType, MarketType
<1>2. DOMAIN broker \subseteq Tickets /\ IsFiniteSet(DOMAIN broker)
  <2>1. LastTicket \in Int /\ 1 \in Int
    BY ReviewAssumption
  <2>2. IsFiniteSet(Tickets)
    BY <2>1, FS_Interval DEF Tickets
  <2>3. DOMAIN broker \subseteq Tickets
    BY DEF ReviewTypes
  <2> QED
    BY <2>2, <2>3, FS_Subset
<1>3. broker \in [DOMAIN broker -> PositionType] /\ \A u \in DOMAIN states : states[u] \in StateType
  BY DEF ReviewTypes
<1> HIDE DEF m
<1>4. AllKept(broker, states, m, 7, EvaluateCommands(broker, states, m))
  BY <1>1, <1>2, <1>3, EvaluationIsKept
<1>5. AllKept(broker, states, m, 7, found)
  BY <1>4 DEF m
<1>6. Found(found)
  <2> SUFFICES ASSUME NEW t \in DOMAIN broker
               PROVE  /\ found[t].st \in StateType
                      /\ \A flag \in Flags : Had(states, t, flag) => found[t].st[flag]
    BY DEF Found
  <2>1. Kept(broker[t], states, t, m, 7, found[t])
    BY <1>5 DEF AllKept
  <2> QED
    BY <2>1 DEF Kept, AdviceType, FlagsKept
<1> QED
  BY <1>2, <1>5, <1>6, AdvicesAreSound

\* The first of sound orders are sound.
LEMMA FirstAreSound ==
  ASSUME NEW P, NEW old, NEW r, NEW s, Sound(P, old, r, s), NEW n \in 0 .. Len(s)
  PROVE  Sound(P, old, r, SubSeq(s, 1, n))
<1> DEFINE first == SubSeq(s, 1, n)
<1>1. s \in Seq(AdvisedType)
  BY DEF Sound
<1>2. first \in Seq(AdvisedType) /\ Len(first) = n /\ \A i \in 1 .. n : first[i] = s[i] /\ i \in 1 .. Len(s)
  BY <1>1
<1> HIDE DEF first
<1>3. Sound(P, old, r, first)
  BY <1>2 DEF Sound, Related
<1> QED
  BY <1>3 DEF first

LEMMA ReviewIsSound ==
  ASSUME ReviewTypes, NEW found, NEW orders, Found(found), Sound(broker, states, found, orders),
         NEW next, Review(orders, next)
  PROVE  Reviews(found, orders) /\ states' = next
<1> DEFINE q == [queue |-> queue, ids |-> ids]
           W == Follows(broker)
<1>1. q.queue = queue /\ q = [queue |-> q.queue, ids |-> q.ids] /\ q.queue \in Seq(AdvisedType)
  BY DEF ReviewTypes
<1>2. orders \in Seq(AdvisedType) /\ Related(W, orders)
  BY DEF Sound
<1>3. queue' = Queued(q, orders).queue /\ ids' = Queued(q, orders).ids
  BY DEF Review
<1> HIDE DEF q, W
<1>4. Extends(q, orders, Len(orders), Queued(q, orders), W)
  BY <1>1, <1>2, QueuedExtends
<1>5. Extends(q, orders, Len(orders), [queue |-> queue', ids |-> ids'], W)
  BY <1>3, <1>4 DEF Extends
<1> QED
  BY <1>5 DEF Reviews, Review, q, W

\* A review that is completed.
LEMMA PostReviews ==
  ASSUME ReviewTypes, Post
  PROVE  \E found, orders : /\ Reviews(found, orders) /\ Complete(broker, states, found, orders)
                            /\ states' = Saved([t \in DOMAIN broker |-> found[t].st]) /\ hit' = hit
<1>1. PICK sign \in Signs : \E found \in {EvaluateCommands(broker, states, Market(sign))} :
        Review(Advices(found), Saved([t \in DOMAIN broker |-> found[t].st]))
  BY DEF Post
<1> DEFINE found == EvaluateCommands(broker, states, Market(sign))
           next == Saved([t \in DOMAIN broker |-> found[t].st])
<1>2. Review(Advices(found), next)
  BY <1>1
<1> HIDE DEF found
<1>3. /\ Found(found) /\ Sound(broker, states, found, Advices(found))
      /\ Complete(broker, states, found, Advices(found))
  BY EvaluationIsFound DEF found
<1> HIDE DEF next
<1>4. Reviews(found, Advices(found)) /\ states' = next
  BY <1>2, <1>3, ReviewIsSound
<1>5. hit' = hit
  BY DEF Post
<1> QED
  BY <1>3, <1>4, <1>5 DEF next

\* A review that the process does not survive.
LEMMA CrashReviews ==
  ASSUME ReviewTypes, Crash
  PROVE  \E found, orders : Reviews(found, orders) /\ states' = states /\ hit' = hit \cup {"crash"}
<1>1. PICK sign \in Signs : \E found \in {EvaluateCommands(broker, states, Market(sign))} :
        \E n \in 0 .. Len(Advices(found)) : Review(SubSeq(Advices(found), 1, n), states)
  BY DEF Crash
<1> DEFINE found == EvaluateCommands(broker, states, Market(sign))
<1>2. PICK n \in 0 .. Len(Advices(found)) : Review(SubSeq(Advices(found), 1, n), states)
  BY <1>1
<1> HIDE DEF found
<1>3. Found(found) /\ Sound(broker, states, found, Advices(found))
  BY EvaluationIsFound DEF found
<1>4. Sound(broker, states, found, SubSeq(Advices(found), 1, n))
  BY <1>3, FirstAreSound
<1>5. Reviews(found, SubSeq(Advices(found), 1, n)) /\ states' = states
  BY <1>2, <1>3, <1>4, ReviewIsSound
<1>6. hit' = hit \cup {"crash"}
  BY DEF Crash, Fault
<1> QED
  BY <1>5, <1>6

\* What is new in the line after a review.
LEMMA ReviewLengthens ==
  ASSUME ReviewTypes, NEW found, NEW orders, Reviews(found, orders)
  PROVE  /\ Line = queue /\ Line' = queue' /\ queue' \in Seq(AdvisedType) /\ Len(queue) <= Len(queue')
         /\ \A i \in 1 .. Len(queue) : i \in 1 .. Len(queue') /\ queue'[i] = queue[i]
         /\ \A i \in 1 .. Len(queue') :
              \/ i \in 1 .. Len(queue) /\ queue'[i] = queue[i]
              \/ /\ i > Len(queue) /\ Fit(broker, states, found, queue'[i]) /\ Makes(queue'[i])
                 /\ \A j \in 1 .. Len(queue') : i < j => <<queue'[i], queue'[j]>> \in Follows(broker)
         /\ \A id \in ids' : id \in ids \/ \E i \in 1 .. Len(queue') : i > Len(queue) /\ id = CommandId(queue'[i])
         /\ \A j \in 1 .. Len(orders) : Makes(orders[j]) => CommandId(orders[j]) \in ids'
<1> DEFINE q == [queue |-> queue, ids |-> ids]
           next == [queue |-> queue', ids |-> ids']
<1>1. Line = queue /\ Line' = queue'
  BY DEF Reviews, Line
<1>2. q.queue = queue /\ q.ids = ids /\ next.queue = queue' /\ next.ids = ids'
  OBVIOUS
<1>3. Extends(q, orders, Len(orders), next, Follows(broker))
  BY DEF Reviews
<1> HIDE DEF q, next
<1>4. queue \in Seq(AdvisedType) /\ Len(queue) \in Nat
  BY DEF ReviewTypes
<1>5. /\ queue' \in Seq(AdvisedType) /\ Len(queue) <= Len(queue')
      /\ \A i \in 1 .. Len(queue) : queue'[i] = queue[i]
  BY <1>2, <1>3 DEF Extends
<1>6. Len(queue') \in Nat
  BY <1>5
<1>7. \A i \in 1 .. Len(queue) : i \in 1 .. Len(queue')
  BY <1>4, <1>5, <1>6
<1>8. ASSUME NEW i \in 1 .. Len(queue'), ~(i \in 1 .. Len(queue))
      PROVE  /\ i > Len(queue) /\ Fit(broker, states, found, queue'[i]) /\ Makes(queue'[i])
             /\ \A j \in 1 .. Len(queue') : i < j => <<queue'[i], queue'[j]>> \in Follows(broker)
  <2>1. i > Len(queue)
    BY <1>4, <1>6, <1>8
  <2>2. Makes(queue'[i]) /\ \E j \in 1 .. Len(orders) : queue'[i] = orders[j]
    BY <1>2, <1>3, <2>1 DEF Extends
  <2>3. \A j \in 1 .. Len(queue') : i < j => <<queue'[i], queue'[j]>> \in Follows(broker)
    BY <1>2, <1>3, <2>1 DEF Extends
  <2>4. Fit(broker, states, found, queue'[i])
    BY <2>2 DEF Reviews, Sound
  <2> QED
    BY <2>1, <2>2, <2>3, <2>4
<1>9. \A id \in ids' : id \in ids \/ \E i \in 1 .. Len(queue') : i > Len(queue) /\ id = CommandId(queue'[i])
  BY <1>2, <1>3 DEF Extends
<1>10. \A j \in 1 .. Len(orders) : Makes(orders[j]) => CommandId(orders[j]) \in ids'
  BY <1>2, <1>3 DEF Extends
<1> QED
  BY <1>1, <1>5, <1>7, <1>8, <1>9, <1>10

\* What the terminal does with the first order: nothing more than it asks for.
Executed ==
  /\ Len(Line) # 0 /\ Line[1] \in AdvisedType
  /\ Line' \in Seq(AdvisedType) /\ Len(Line') = Len(Line) - 1
  /\ \A i \in 1 .. Len(Line') : i + 1 \in 1 .. Len(Line) /\ Line'[i] = Line[i + 1]
  /\ broker' \in [DOMAIN broker' -> PositionType] /\ DOMAIN broker' \subseteq DOMAIN broker
  /\ \A t \in DOMAIN broker' :
       /\ broker'[t].side = broker[t].side
       /\ \/ broker'[t].sl = broker[t].sl
          \/ Line[1].act = "MODIFY" /\ Line[1].ticket = t /\ broker'[t].sl = Line[1].sl
  /\ taken' \in [Tickets -> [tp1 : Nat, tp2 : Nat]]
  /\ \A t \in Tickets : \A flag \in Flags :
       taken'[t][flag] = IF t \in DOMAIN broker /\ TakesFor(Line[1], t, flag) THEN taken[t][flag] + 1 ELSE taken[t][flag]

LEMMA ExecuteDoes ==
  ASSUME ReviewTypes, Execute
  PROVE  Executed
<1> DEFINE c == Head(inbox)
<1>1. inbox # <<>> /\ queue = <<>> /\ inbox \in Seq(AdvisedType)
  BY DEF ReviewTypes, Execute
<1>2. Line = inbox
  BY <1>1 DEF Line
<1>3. Line' = Tail(inbox)
  BY <1>1 DEF Line, Execute, store
<1>4. Len(inbox) # 0 /\ c = inbox[1] /\ c \in AdvisedType
  BY <1>1
<1>5. /\ Tail(inbox) \in Seq(AdvisedType) /\ Len(Tail(inbox)) = Len(inbox) - 1
      /\ \A i \in 1 .. Len(Tail(inbox)) : i + 1 \in 1 .. Len(inbox) /\ Tail(inbox)[i] = inbox[i + 1]
  BY <1>1
<1>6. broker \in [DOMAIN broker -> PositionType] /\ DOMAIN broker \subseteq Tickets
  BY DEF ReviewTypes
<1>7. taken \in [Tickets -> [tp1 : Nat, tp2 : Nat]]
  BY DEF ReviewTypes
<1> HIDE DEF c
<1> DEFINE BrokerDone ==
             /\ broker' \in [DOMAIN broker' -> PositionType] /\ DOMAIN broker' \subseteq DOMAIN broker
             /\ \A t \in DOMAIN broker' :
                  /\ broker'[t].side = broker[t].side
                  /\ \/ broker'[t].sl = broker[t].sl
                     \/ c.act = "MODIFY" /\ c.ticket = t /\ broker'[t].sl = c.sl
           TakenDone ==
             /\ taken' \in [Tickets -> [tp1 : Nat, tp2 : Nat]]
             /\ \A t \in Tickets : \A flag \in Flags :
                  taken'[t][flag] = IF t \in DOMAIN broker /\ TakesFor(c, t, flag) THEN taken[t][flag] + 1 ELSE taken[t][flag]
<1>8. ASSUME c.ticket \notin DOMAIN broker PROVE BrokerDone /\ TakenDone
  <2>1. broker' = broker /\ taken' = taken
    BY <1>8 DEF Execute, c
  <2>2. BrokerDone
    BY <1>6, <2>1
  <2>3. TakenDone
    BY <1>7, <1>8, <2>1 DEF TakesFor
  <2> QED
    BY <2>2, <2>3
<1>9. ASSUME c.ticket \in DOMAIN broker /\ c.act = "MODIFY" PROVE BrokerDone /\ TakenDone
  <2>1. broker' = Modified(c) /\ taken' = taken
    BY <1>9 DEF Execute, c
  <2>2. TakenDone
    BY <1>7, <1>9, <2>1 DEF TakesFor, Takes
  <2>3. broker[c.ticket] \in PositionType /\ c.sl \in Nat
    BY <1>4, <1>6, <1>9 DEF AdvisedType
  <2>4. [broker[c.ticket] EXCEPT !.sl = c.sl] \in PositionType
    BY <2>3 DEF PositionType
  <2>5. \/ broker' = broker
        \/ broker' = [broker EXCEPT ![c.ticket] = [broker[c.ticket] EXCEPT !.sl = c.sl]]
    BY <1>9, <2>1 DEF Modified
  <2>6. BrokerDone
    <3>1. CASE broker' = broker
      BY <1>6, <3>1
    <3>2. CASE broker' = [broker EXCEPT ![c.ticket] = [broker[c.ticket] EXCEPT !.sl = c.sl]]
      <4>1. DOMAIN broker' = DOMAIN broker /\ \A t \in DOMAIN broker : t # c.ticket => broker'[t] = broker[t]
        BY <3>2
      <4>2. broker'[c.ticket] = [broker[c.ticket] EXCEPT !.sl = c.sl]
        BY <1>9, <3>2
      <4>3. broker'[c.ticket].side = broker[c.ticket].side /\ broker'[c.ticket].sl = c.sl
        BY <2>3, <4>2 DEF PositionType
      <4>4. \A t \in DOMAIN broker : broker'[t] \in PositionType
        BY <1>6, <2>4, <4>1, <4>2
      <4>5. broker' = [t \in DOMAIN broker |-> broker'[t]]
        BY <3>2
      <4>6. broker' \in [DOMAIN broker' -> PositionType]
        BY <4>1, <4>4, <4>5
      <4> QED
        BY <1>9, <4>1, <4>3, <4>6
    <3> QED
      BY <2>5, <3>1, <3>2
  <2> QED
    BY <2>2, <2>6
<1>10. ASSUME c.ticket \in DOMAIN broker /\ c.act # "MODIFY" PROVE BrokerDone /\ TakenDone
  <2>1. /\ broker' = Closed(c)
        /\ taken' = [taken EXCEPT ![c.ticket].tp1 = IF c.why \in TP1Reasons THEN @ + 1 ELSE @,
                                  ![c.ticket].tp2 = IF c.why \in TP2Reasons THEN @ + 1 ELSE @]
    BY <1>10 DEF Execute, c
  <2>2. c.act = "CLOSE" /\ c.lots \in Nat
    BY <1>4, <1>10 DEF AdvisedType
  <2>3. c.ticket \in Tickets /\ taken[c.ticket] \in [tp1 : Nat, tp2 : Nat]
    BY <1>6, <1>7, <1>10
  <2>4. TakenDone
    <3> DEFINE a == IF c.why \in TP1Reasons THEN taken[c.ticket].tp1 + 1 ELSE taken[c.ticket].tp1
               b == IF c.why \in TP2Reasons THEN taken[c.ticket].tp2 + 1 ELSE taken[c.ticket].tp2
    <3>1. a \in Nat /\ b \in Nat
      BY <2>3
    <3>2. /\ taken' \in [Tickets -> [tp1 : Nat, tp2 : Nat]]
          /\ taken'[c.ticket].tp1 = a /\ taken'[c.ticket].tp2 = b
          /\ \A t \in Tickets : t # c.ticket => taken'[t] = taken[t]
      <4> HIDE DEF TakenDone
      <4> QED
        BY <1>7, <2>1, <2>3, <3>1
    <3> SUFFICES ASSUME NEW t \in Tickets, NEW flag \in Flags
                 PROVE  taken'[t][flag] = IF t \in DOMAIN broker /\ TakesFor(c, t, flag) THEN taken[t][flag] + 1 ELSE taken[t][flag]
      BY <3>2
    <3>3. CASE t # c.ticket
      BY <3>2, <3>3 DEF TakesFor
    <3>4. CASE t = c.ticket /\ flag = "tp1"
      BY <1>10, <2>2, <3>2, <3>4 DEF TakesFor, Takes, TakeReasons
    <3>5. CASE t = c.ticket /\ flag = "tp2"
      BY <1>10, <2>2, <3>2, <3>5 DEF TakesFor, Takes, TakeReasons
    <3> QED
      BY <3>3, <3>4, <3>5 DEF Flags
  <2>5. broker[c.ticket] \in PositionType
    BY <1>6, <1>10
  <2>6. BrokerDone
    <3>1. CASE c.lots < broker[c.ticket].lots
      <4> DEFINE rest == [broker[c.ticket] EXCEPT !.lots = @ - c.lots]
      <4>1. broker' = [broker EXCEPT ![c.ticket] = rest]
        BY <2>1, <3>1 DEF Closed
      <4>2. rest \in PositionType /\ rest.side = broker[c.ticket].side /\ rest.sl = broker[c.ticket].sl
        BY <2>2, <2>5, <3>1 DEF PositionType
      <4> HIDE DEF rest, BrokerDone
      <4>3. /\ DOMAIN broker' = DOMAIN broker /\ broker'[c.ticket] = rest
            /\ \A t \in DOMAIN broker : t # c.ticket => broker'[t] = broker[t]
        BY <1>10, <4>1
      <4>4. broker' = [t \in DOMAIN broker |-> broker'[t]]
        BY <4>1
      <4>5. \A t \in DOMAIN broker : broker'[t] \in PositionType
        BY <1>6, <4>2, <4>3
      <4>6. broker' \in [DOMAIN broker' -> PositionType]
        BY <4>3, <4>4, <4>5
      <4> QED
        BY <4>2, <4>3, <4>6 DEF BrokerDone
    <3>2. CASE ~(c.lots < broker[c.ticket].lots)
      <4>1. broker' = [t \in DOMAIN broker \ {c.ticket} |-> broker[t]]
        BY <2>1, <3>2 DEF Closed
      <4> QED
        BY <1>6, <4>1
    <3> QED
      BY <3>1, <3>2
  <2> QED
    BY <2>4, <2>6
<1>11. BrokerDone /\ TakenDone
  <2> HIDE DEF BrokerDone, TakenDone
  <2> QED
    BY <1>8, <1>9, <1>10
<1> QED
  BY <1>2, <1>3, <1>4, <1>5, <1>11 DEF Executed

\* Nothing happens to the orders, and positions at most leave.
Waits ==
  /\ Line' = Line /\ taken' = taken /\ states' = states /\ ids' \subseteq ids /\ opened' = opened
  /\ broker' \in [DOMAIN broker' -> PositionType]
  /\ DOMAIN broker' \subseteq DOMAIN broker /\ \A t \in DOMAIN broker' : broker'[t] = broker[t]

LEMMA OthersWait ==
  ASSUME ReviewTypes,
         \/ \E p \in Prices : MovePrice(p)
         \/ NextMinute \/ Poll \/ MissPoll \/ UNCHANGED reviewVars
  PROVE  Waits
<1>1. CASE \E p \in Prices : MovePrice(p)
  BY <1>1 DEF MovePrice, Waits, Line, store, ReviewTypes
<1>2. CASE NextMinute
  BY <1>2 DEF NextMinute, Waits, Line, ReviewTypes
<1>3. CASE Poll
  BY <1>3 DEF Poll, Waits, Line, ReviewTypes
<1>4. CASE MissPoll
  BY <1>4 DEF MissPoll, Waits, Line, store, ReviewTypes
<1>5. CASE UNCHANGED reviewVars
  BY <1>5 DEF reviewVars, Waits, Line, ReviewTypes
<1> QED
  BY <1>1, <1>2, <1>3, <1>4, <1>5

\* A position is opened under a new ticket.
Opens ==
  \E t \in Tickets \ opened :
    /\ Line' = Line /\ taken' = taken /\ states' = states /\ ids' = ids
    /\ opened' = opened \cup {t} /\ DOMAIN broker' = DOMAIN broker \cup {t}
    /\ broker' \in [DOMAIN broker' -> PositionType] /\ \A u \in DOMAIN broker : broker'[u] = broker[u]

LEMMA OpenOpens ==
  ASSUME ReviewTypes, NEW t \in Tickets, Open(t)
  PROVE  Opens
<1> DEFINE stop == IF AddOn.side = "BUY" THEN price - AddOn.stop ELSE price + AddOn.stop
           p == [side |-> AddOn.side, lots |-> AddOn.lots, open |-> price, profit |-> 0, sl |-> stop]
<1>1. t \in Tickets \ opened /\ opened' = opened \cup {t} /\ t \notin DOMAIN broker
  BY DEF Open, ReviewTypes
<1>2. p \in PositionType
  <2>1. price \in Nat \ {0} /\ AddOn.stop < price /\ AddOn.stop \in Nat
    BY ReviewAssumption DEF ReviewTypes
  <2>2. stop \in Nat
    BY <2>1
  <2> HIDE DEF stop
  <2> QED
    BY <2>1, <2>2, ReviewAssumption DEF PositionType
<1>3. broker' = [u \in DOMAIN broker \cup {t} |-> IF u = t THEN p ELSE broker[u]]
  BY DEF Open
<1> HIDE DEF p
<1>4. broker \in [DOMAIN broker -> PositionType]
  BY DEF ReviewTypes
<1>5. /\ DOMAIN broker' = DOMAIN broker \cup {t} /\ broker' \in [DOMAIN broker' -> PositionType]
      /\ \A u \in DOMAIN broker : broker'[u] = broker[u]
  BY <1>1, <1>2, <1>3, <1>4
<1>6. Line' = Line /\ taken' = taken /\ states' = states /\ ids' = ids
  BY DEF Open, Line, store
<1> QED
  BY <1>1, <1>5, <1>6 DEF Opens

\* The queued orders do not arrive.
LEMMA LosesLine ==
  ASSUME ReviewTypes, LoseReply
  PROVE  Line' = <<>> /\ UNCHANGED <<broker, opened, states, ids, taken>> /\ hit' = hit \cup {"lost_reply"}
BY DEF LoseReply, Fault, Line, ReviewTypes

\* The steps, by what they do to the orders under way.
LEMMA StepIsOneOf ==
  ASSUME ReviewTypes, [ReviewNext]_reviewVars
  PROVE  \/ Waits \/ Opens \/ (Execute /\ Executed) \/ LoseReply \/ Post \/ Crash
<1>1. ASSUME NEW t \in Tickets, Open(t) PROVE Opens
  BY <1>1, OpenOpens
<1>2. ASSUME Execute PROVE Executed
  BY <1>2, ExecuteDoes
<1>3. ASSUME (\E p \in Prices : MovePrice(p)) \/ NextMinute \/ Poll \/ MissPoll \/ UNCHANGED reviewVars
      PROVE  Waits
  BY <1>3, OthersWait
<1> QED
  BY <1>1, <1>2, <1>3 DEF ReviewNext

\* The states that a review leaves are typed, and of tickets used so far.
LEMMA ReviewKeepsTypes ==
  ASSUME ReviewTypes, NEW found, NEW orders, Reviews(found, orders),
         states' = states \/ states' = Saved([t \in DOMAIN broker |-> found[t].st])
  PROVE  ReviewTypes'
<1>1. /\ Line = queue /\ Line' = queue' /\ queue' \in Seq(AdvisedType)
      /\ \A i \in 1 .. Len(queue') :
           (i \in 1 .. Len(queue) /\ queue'[i] = queue[i]) \/ Fit(broker, states, found, queue'[i])
      /\ \A id \in ids' : id \in ids \/ \E i \in 1 .. Len(queue') : i > Len(queue) /\ id = CommandId(queue'[i])
  BY ReviewLengthens
<1>2. /\ inbox = <<>> /\ inbox' = <<>> /\ broker' = broker /\ opened' = opened /\ price' = price /\ taken' = taken
  BY DEF Reviews
<1>3. /\ opened' \subseteq Tickets /\ price' \in Prices
      /\ broker' \in [DOMAIN broker' -> PositionType] /\ DOMAIN broker' \subseteq opened'
      /\ inbox' \in Seq(AdvisedType)
      /\ taken' \in [Tickets -> [tp1 : Nat, tp2 : Nat]]
      /\ \A t \in Tickets \ opened' : \A flag \in Flags : taken'[t][flag] = 0
  BY <1>2 DEF ReviewTypes
<1>4. states' \in [DOMAIN states' -> StateType] /\ DOMAIN states' \subseteq opened'
  <2> DEFINE next == [t \in DOMAIN broker |-> found[t].st]
  <2>1. next \in [DOMAIN next -> StateType] /\ DOMAIN next = DOMAIN broker
    BY DEF Reviews, Found
  <2>2. states' = states \/ states' = next
    BY DEF Saved
  <2> HIDE DEF next
  <2> QED
    BY <1>2, <2>1, <2>2 DEF ReviewTypes
<1>5. \A i \in 1 .. Len(queue') : queue'[i].ticket \in opened
  BY <1>1 DEF Fit, ReviewTypes
<1>6. \A id \in ids' : id[1] \in opened
  <2> SUFFICES ASSUME NEW id \in ids' PROVE id[1] \in opened
    OBVIOUS
  <2>1. CASE id \in ids
    BY <2>1 DEF ReviewTypes
  <2>2. CASE \E i \in 1 .. Len(queue') : i > Len(queue) /\ id = CommandId(queue'[i])
    <3>1. PICK i \in 1 .. Len(queue') : id = CommandId(queue'[i])
      BY <2>2
    <3>2. id[1] = queue'[i].ticket
      BY <3>1 DEF CommandId
    <3> QED
      BY <1>5, <3>2
  <2> QED
    BY <1>1, <2>1, <2>2
<1> QED
  BY <1>1, <1>2, <1>3, <1>4, <1>5, <1>6 DEF ReviewTypes

\* The types are kept.
LEMMA TypesKept ==
  ASSUME ReviewTypes, [ReviewNext]_reviewVars
  PROVE  ReviewTypes'
<1> DEFINE Placed ==
             /\ price' \in Prices /\ inbox' \in Seq(AdvisedType) /\ queue' \in Seq(AdvisedType)
             /\ inbox' = <<>> \/ queue' = <<>>
             /\ terminal' = "poll" => inbox' = <<>>
<1>1. ASSUME Waits, Placed PROVE ReviewTypes'
  BY <1>1 DEF Waits, ReviewTypes
<1>2. CASE \E p \in Prices : MovePrice(p)
  <2>1. Placed
    BY <1>2 DEF MovePrice, store, ReviewTypes
  <2> HIDE DEF Placed
  <2> QED
    BY <1>1, <1>2, <2>1, OthersWait
<1>3. CASE NextMinute
  <2>1. Placed
    BY <1>3 DEF NextMinute, ReviewTypes
  <2> HIDE DEF Placed
  <2> QED
    BY <1>1, <1>3, <2>1, OthersWait
<1>4. CASE Poll
  <2>1. Placed
    BY <1>4 DEF Poll, ReviewTypes
  <2> HIDE DEF Placed
  <2> QED
    BY <1>1, <1>4, <2>1, OthersWait
<1>5. CASE MissPoll
  <2>1. Placed
    BY <1>5 DEF MissPoll, store, ReviewTypes
  <2> HIDE DEF Placed
  <2> QED
    BY <1>1, <1>5, <2>1, OthersWait
<1>6. CASE UNCHANGED reviewVars
  <2>1. Placed
    BY <1>6 DEF reviewVars, ReviewTypes
  <2> HIDE DEF Placed
  <2> QED
    BY <1>1, <1>6, <2>1, OthersWait
<1>7. CASE \E t \in Tickets : Open(t)
  <2>1. Opens
    BY <1>7, OpenOpens
  <2>2. Placed
    BY <1>7 DEF Open, store, ReviewTypes
  <2> HIDE DEF Placed
  <2>3. PICK t \in Tickets \ opened :
          /\ Line' = Line /\ taken' = taken /\ states' = states /\ ids' = ids
          /\ opened' = opened \cup {t} /\ DOMAIN broker' = DOMAIN broker \cup {t}
          /\ broker' \in [DOMAIN broker' -> PositionType]
    BY <2>1 DEF Opens
  <2> QED
    BY <2>2, <2>3 DEF ReviewTypes, Placed
<1>8. CASE Execute
  <2>1. Executed
    BY <1>8, ExecuteDoes
  <2>2. inbox # <<>> /\ inbox' = Tail(inbox) /\ UNCHANGED <<opened, price, terminal, states, queue, ids>>
    BY <1>8 DEF Execute, store
  <2>3. Placed
    BY <2>2 DEF ReviewTypes
  <2>4. ASSUME NEW i \in 1 .. Len(Line') PROVE Line'[i].ticket \in opened'
    <3>1. i + 1 \in 1 .. Len(Line) /\ Line'[i] = Line[i + 1]
      BY <2>1 DEF Executed
    <3>2. Line[i + 1].ticket \in opened
      BY <3>1 DEF ReviewTypes
    <3> QED
      BY <2>2, <3>1, <3>2
  <2>5. \A t \in Tickets \ opened : \A flag \in Flags : taken'[t][flag] = 0
    BY <2>1 DEF Executed, ReviewTypes
  <2>6. /\ broker' \in [DOMAIN broker' -> PositionType] /\ DOMAIN broker' \subseteq DOMAIN broker
        /\ taken' \in [Tickets -> [tp1 : Nat, tp2 : Nat]]
    BY <2>1 DEF Executed
  <2> QED
    BY <2>2, <2>3, <2>4, <2>5, <2>6 DEF ReviewTypes
<1>9. CASE LoseReply
  <2>1. Line' = <<>> /\ UNCHANGED <<broker, opened, states, ids, taken>>
    BY <1>9, LosesLine
  <2>2. Placed
    BY <1>9 DEF LoseReply, ReviewTypes
  <2>3. \A i \in 1 .. Len(Line') : Line'[i].ticket \in opened'
    BY <2>1
  <2> QED
    BY <2>1, <2>2, <2>3 DEF ReviewTypes
<1>10. CASE Post
  BY <1>10, PostReviews, ReviewKeepsTypes
<1>11. CASE Crash
  BY <1>11, CrashReviews, ReviewKeepsTypes
<1> QED
  BY <1>2, <1>3, <1>4, <1>5, <1>6, <1>7, <1>8, <1>9, <1>10, <1>11 DEF ReviewNext

\* The types hold at the start.
LEMMA TypesAtStart ==
  ASSUME ReviewInit
  PROVE  ReviewTypes
<1>1. inbox = <<>> /\ queue = <<>> /\ ids = {} /\ states = NoPositions
  BY DEF ReviewInit
<1>2. Line = <<>> /\ 1 .. Len(Line) = {} /\ <<>> \in Seq(AdvisedType)
  BY <1>1 DEF Line
<1>3. states \in [DOMAIN states -> StateType] /\ DOMAIN states = {}
  BY <1>1 DEF NoPositions
<1>4. broker \in [DOMAIN broker -> PositionType] /\ DOMAIN broker \subseteq opened /\ opened \subseteq Tickets
  BY ReviewAssumption DEF ReviewInit
<1>5. /\ taken \in [Tickets -> [tp1 : Nat, tp2 : Nat]]
      /\ \A t \in Tickets : \A flag \in Flags : taken[t][flag] = 0
  BY DEF ReviewInit, Flags
<1> QED
  BY <1>1, <1>2, <1>3, <1>4, <1>5 DEF ReviewInit, ReviewTypes

\* The loop's state stays typed.
THEOREM ReviewTypesHold == ReviewSpec => []ReviewTypes
<1>1. ReviewInit => ReviewTypes
  BY TypesAtStart
<1>2. ReviewTypes /\ [ReviewNext]_reviewVars => ReviewTypes'
  BY TypesKept
<1> QED
  BY <1>1, <1>2, PTL DEF ReviewSpec

\* No target is closed twice, and of an open position none is closed that its state does
\* not know of.
ClosedOnce ==
  "crash" \notin hit =>
    \A t \in Tickets : \A flag \in Flags :
      /\ taken[t][flag] <= 1
      /\ \A i, j \in 1 .. Len(Line) : TakesFor(Line[i], t, flag) =>
           taken[t][flag] = 0 /\ (TakesFor(Line[j], t, flag) => i = j)
      /\ t \in DOMAIN broker /\ (taken[t][flag] > 0 \/ UnderWay(t, flag)) => Had(states, t, flag)

\* What the state or the ids of this minute know of an open position was closed, or will be.
Knows(id, t, flag) == id[1] = t /\ id[2] = "CLOSE" /\ id[3] \in TakeReasons(flag)
FlagsAreBacked ==
  "lost_reply" \notin hit =>
    \A t \in DOMAIN broker : \A flag \in Flags :
      Had(states, t, flag) \/ (\E id \in ids : Knows(id, t, flag)) => taken[t][flag] > 0 \/ UnderWay(t, flag)

\* The stops under way lead away from the stop of the position, each from those before it.
StopsAreAhead ==
  "missed_poll" \notin hit =>
    /\ terminal = "post" => queue = <<>>
    /\ \A t \in DOMAIN broker : \A i \in 1 .. Len(Line) : Line[i].ticket = t /\ Line[i].act = "MODIFY" =>
         /\ Beyond(broker[t].side, broker[t].sl, Line[i].sl) > 0
         /\ \A j \in 1 .. Len(Line) : j < i /\ Line[j].ticket = t /\ Line[j].act = "MODIFY" =>
              Beyond(broker[t].side, Line[j].sl, Line[i].sl) > 0

\* Faults that happened are not forgotten.
LEMMA FaultsStay ==
  ASSUME [ReviewNext]_reviewVars, ReviewTypes
  PROVE  hit \subseteq hit'
<1>1. Post => hit' = hit
  BY DEF Post
<1> QED
  BY <1>1 DEF ReviewNext, reviewVars, MovePrice, Open, NextMinute, Poll, Execute, LoseReply, MissPoll, Crash, Fault

\* While nothing happens to the orders all three invariants stay as they are.
LEMMA WaitingKeepsCloses ==
  ASSUME ReviewTypes, Waits, hit \subseteq hit'
  PROVE  (ClosedOnce => ClosedOnce') /\ (FlagsAreBacked => FlagsAreBacked')
<1>1. /\ Line' = Line /\ taken' = taken /\ states' = states /\ ids' \subseteq ids
      /\ DOMAIN broker' \subseteq DOMAIN broker /\ \A t \in DOMAIN broker' : broker'[t] = broker[t]
  BY DEF Waits
<1>2. \A t, flag : UnderWay(t, flag)' <=> UnderWay(t, flag)
  BY <1>1 DEF UnderWay
<1>3. ClosedOnce => ClosedOnce'
  BY <1>1, <1>2 DEF ClosedOnce
<1>4. FlagsAreBacked => FlagsAreBacked'
  BY <1>1, <1>2 DEF FlagsAreBacked
<1> QED
  BY <1>3, <1>4

\* An opened position has no past.
LEMMA OpeningKeepsCloses ==
  ASSUME ReviewTypes, Opens, hit \subseteq hit'
  PROVE  (ClosedOnce => ClosedOnce') /\ (FlagsAreBacked => FlagsAreBacked')
<1>1. PICK t \in Tickets \ opened :
        /\ Line' = Line /\ taken' = taken /\ states' = states /\ ids' = ids
        /\ opened' = opened \cup {t} /\ DOMAIN broker' = DOMAIN broker \cup {t}
        /\ \A u \in DOMAIN broker : broker'[u] = broker[u]
  BY DEF Opens
<1>2. \A u, flag : UnderWay(u, flag)' <=> UnderWay(u, flag)
  BY <1>1 DEF UnderWay
<1>3. \A flag \in Flags : taken[t][flag] = 0 /\ ~UnderWay(t, flag) /\ ~Had(states, t, flag)
  BY DEF ReviewTypes, UnderWay, TakesFor, Had
<1>4. \A id \in ids : id[1] # t
  BY DEF ReviewTypes
<1>5. ClosedOnce => ClosedOnce'
  BY <1>1, <1>2, <1>3 DEF ClosedOnce
<1>6. FlagsAreBacked => FlagsAreBacked'
  BY <1>1, <1>2, <1>3, <1>4 DEF FlagsAreBacked, Knows
<1> QED
  BY <1>5, <1>6

\* Executing the first order is what makes its target taken.
LEMMA ExecutingKeepsCloses ==
  ASSUME ReviewTypes, Executed, UNCHANGED <<states, ids>>, hit \subseteq hit'
  PROVE  (ClosedOnce => ClosedOnce') /\ (FlagsAreBacked => FlagsAreBacked')
<1>1. /\ Len(Line) # 0 /\ Len(Line) \in Nat /\ Len(Line') = Len(Line) - 1
      /\ \A i \in 1 .. Len(Line') : i + 1 \in 1 .. Len(Line) /\ Line'[i] = Line[i + 1]
      /\ DOMAIN broker' \subseteq DOMAIN broker /\ DOMAIN broker \subseteq Tickets
      /\ \A t \in Tickets : \A flag \in Flags :
           taken'[t][flag] = IF t \in DOMAIN broker /\ TakesFor(Line[1], t, flag) THEN taken[t][flag] + 1 ELSE taken[t][flag]
  <2>1. Line \in Seq(AdvisedType)
    BY DEF ReviewTypes, Line
  <2> QED
    BY <2>1 DEF Executed, ReviewTypes
<1>2. 1 \in 1 .. Len(Line) /\ \A i \in 1 .. Len(Line) : i = 1 \/ i - 1 \in 1 .. Len(Line')
  BY <1>1
<1>3. \A t \in Tickets : \A flag \in Flags : taken[t][flag] \in Nat
  BY DEF ReviewTypes, Flags
<1>4. \A t, flag : UnderWay(t, flag)' => UnderWay(t, flag)
  BY <1>1 DEF UnderWay
<1>5. \A t, flag : UnderWay(t, flag) => TakesFor(Line[1], t, flag) \/ UnderWay(t, flag)'
  <2> SUFFICES ASSUME NEW t, NEW flag, NEW i \in 1 .. Len(Line), TakesFor(Line[i], t, flag)
               PROVE  TakesFor(Line[1], t, flag) \/ UnderWay(t, flag)'
    BY DEF UnderWay
  <2>1. CASE i = 1
    BY <2>1
  <2>2. CASE i - 1 \in 1 .. Len(Line')
    <3>1. Line'[i - 1] = Line[i]
      <4>1. i - 1 + 1 = i
        BY <1>1
      <4> QED
        BY <1>1, <2>2, <4>1
    <3> QED
      BY <2>2, <3>1 DEF UnderWay
  <2> QED
    BY <1>2, <2>1, <2>2
<1>6. ASSUME ClosedOnce PROVE ClosedOnce'
  <2> SUFFICES ASSUME "crash" \notin hit', NEW t \in Tickets, NEW flag \in Flags
               PROVE  /\ taken'[t][flag] <= 1
                      /\ \A i, j \in 1 .. Len(Line') : TakesFor(Line'[i], t, flag) =>
                           taken'[t][flag] = 0 /\ (TakesFor(Line'[j], t, flag) => i = j)
                      /\ t \in DOMAIN broker' /\ (taken'[t][flag] > 0 \/ UnderWay(t, flag)') => Had(states, t, flag)
    BY DEF ClosedOnce
  <2>1. /\ taken[t][flag] <= 1
        /\ \A i, j \in 1 .. Len(Line) : TakesFor(Line[i], t, flag) =>
             taken[t][flag] = 0 /\ (TakesFor(Line[j], t, flag) => i = j)
        /\ t \in DOMAIN broker /\ (taken[t][flag] > 0 \/ UnderWay(t, flag)) => Had(states, t, flag)
    BY <1>6 DEF ClosedOnce
  <2>2. CASE TakesFor(Line[1], t, flag)
    <3>1. taken[t][flag] = 0 /\ UnderWay(t, flag)
      BY <1>2, <2>1, <2>2 DEF UnderWay
    <3>2. taken'[t][flag] \in {0, 1}
      BY <1>1, <3>1
    <3>3. \A i \in 1 .. Len(Line') : ~TakesFor(Line'[i], t, flag)
      <4> SUFFICES ASSUME NEW i \in 1 .. Len(Line'), TakesFor(Line'[i], t, flag) PROVE FALSE
        OBVIOUS
      <4>1. i + 1 \in 1 .. Len(Line) /\ TakesFor(Line[i + 1], t, flag)
        BY <1>1
      <4>2. i + 1 = 1
        BY <1>2, <2>1, <2>2, <4>1
      <4> QED
        BY <4>2
    <3> QED
      BY <1>1, <2>1, <3>1, <3>2, <3>3
  <2>3. CASE ~TakesFor(Line[1], t, flag)
    <3>1. taken'[t][flag] = taken[t][flag]
      BY <1>1, <2>3
    <3>2. ASSUME NEW i \in 1 .. Len(Line'), NEW j \in 1 .. Len(Line'), TakesFor(Line'[i], t, flag)
          PROVE  taken[t][flag] = 0 /\ (TakesFor(Line'[j], t, flag) => i = j)
      <4>1. /\ i + 1 \in 1 .. Len(Line) /\ j + 1 \in 1 .. Len(Line)
            /\ Line'[i] = Line[i + 1] /\ Line'[j] = Line[j + 1]
        BY <1>1
      <4>2. taken[t][flag] = 0 /\ (TakesFor(Line[j + 1], t, flag) => i + 1 = j + 1)
        BY <2>1, <3>2, <4>1
      <4> QED
        BY <4>1, <4>2
    <3> QED
      BY <1>1, <1>4, <2>1, <3>1, <3>2
  <2> QED
    BY <2>2, <2>3
<1>7. ASSUME FlagsAreBacked PROVE FlagsAreBacked'
  <2> SUFFICES ASSUME "lost_reply" \notin hit', NEW t \in DOMAIN broker', NEW flag \in Flags,
                      Had(states, t, flag) \/ \E id \in ids : Knows(id, t, flag)
               PROVE  taken'[t][flag] > 0 \/ UnderWay(t, flag)'
    BY DEF FlagsAreBacked
  <2>1. t \in DOMAIN broker /\ t \in Tickets
    BY <1>1
  <2>2. taken[t][flag] > 0 \/ UnderWay(t, flag)
    BY <1>7, <2>1 DEF FlagsAreBacked
  <2> QED
    BY <1>1, <1>3, <1>5, <2>1, <2>2
<1> QED
  BY <1>6, <1>7

\* A review closes a target that the state does not know of, and notes it when it ends.
LEMMA ReviewKeepsClosedOnce ==
  ASSUME ReviewTypes, ClosedOnce, Post
  PROVE  ClosedOnce'
<1>1. PICK found, orders : /\ Reviews(found, orders)
                           /\ states' = Saved([t \in DOMAIN broker |-> found[t].st]) /\ hit' = hit
  BY PostReviews
<1>2. /\ Line = queue /\ Line' = queue'
      /\ \A i \in 1 .. Len(queue') :
           \/ i \in 1 .. Len(queue) /\ queue'[i] = queue[i]
           \/ /\ i > Len(queue) /\ Fit(broker, states, found, queue'[i])
              /\ \A j \in 1 .. Len(queue') : i < j => <<queue'[i], queue'[j]>> \in Follows(broker)
  BY <1>1, ReviewLengthens
<1>3. broker' = broker /\ taken' = taken
  BY <1>1 DEF Reviews
<1>4. ASSUME NEW t \in DOMAIN broker, NEW flag \in Flags, found[t].st[flag]
      PROVE  Had(states', t, flag)
  <2> DEFINE next == [u \in DOMAIN broker |-> found[u].st]
  <2>1. t \in DOMAIN next /\ next[t][flag] /\ DOMAIN NoPositions = {}
    BY <1>4 DEF NoPositions
  <2>2. states' = next
    BY <1>1, <2>1 DEF Saved
  <2> QED
    BY <2>1, <2>2 DEF Had
<1>5. \A t \in DOMAIN broker : \A flag \in Flags : Had(states, t, flag) => Had(states', t, flag)
  BY <1>1, <1>4 DEF Reviews, Found
<1> SUFFICES ASSUME "crash" \notin hit, NEW t \in Tickets, NEW flag \in Flags
             PROVE  /\ taken[t][flag] <= 1
                    /\ \A i, j \in 1 .. Len(queue') : TakesFor(queue'[i], t, flag) =>
                         taken[t][flag] = 0 /\ (TakesFor(queue'[j], t, flag) => i = j)
                    /\ t \in DOMAIN broker /\ (taken[t][flag] > 0 \/ UnderWay(t, flag)') => Had(states', t, flag)
  BY <1>1, <1>2, <1>3 DEF ClosedOnce
<1>6. /\ taken[t][flag] <= 1 /\ taken[t][flag] \in Nat
      /\ \A i, j \in 1 .. Len(queue) : TakesFor(queue[i], t, flag) =>
           taken[t][flag] = 0 /\ (TakesFor(queue[j], t, flag) => i = j)
      /\ t \in DOMAIN broker /\ (taken[t][flag] > 0 \/ UnderWay(t, flag)) => Had(states, t, flag)
  BY <1>2 DEF ClosedOnce, ReviewTypes, Flags
<1>7. ASSUME NEW i \in 1 .. Len(queue'), TakesFor(queue'[i], t, flag), ~(i \in 1 .. Len(queue) /\ queue'[i] = queue[i])
      PROVE  /\ t \in DOMAIN broker /\ found[t].st[flag] /\ taken[t][flag] = 0
             /\ \A j \in 1 .. Len(queue') : TakesFor(queue'[j], t, flag) => i = j
  <2>1. /\ i > Len(queue) /\ Fit(broker, states, found, queue'[i])
        /\ \A j \in 1 .. Len(queue') : i < j => <<queue'[i], queue'[j]>> \in Follows(broker)
    BY <1>2, <1>7
  <2>2. t \in DOMAIN broker /\ found[t].st[flag] /\ ~Had(states, t, flag)
    BY <1>7, <2>1 DEF Fit, TakesFor
  <2>3. taken[t][flag] = 0 /\ ~UnderWay(t, flag)
    BY <1>6, <2>2
  <2>4. ASSUME NEW j \in 1 .. Len(queue'), TakesFor(queue'[j], t, flag), i # j
        PROVE  FALSE
    <3>1. ~(j \in 1 .. Len(queue) /\ queue'[j] = queue[j])
      BY <1>2, <2>3, <2>4 DEF UnderWay
    <3>2. \A k \in 1 .. Len(queue') : j < k => <<queue'[j], queue'[k]>> \in Follows(broker)
      BY <1>2, <3>1
    <3>3. i < j \/ j < i
      BY <2>4
    <3>4. <<queue'[i], queue'[j]>> \in Follows(broker) \/ <<queue'[j], queue'[i]>> \in Follows(broker)
      BY <2>1, <3>2, <3>3
    <3> QED
      BY <1>7, <2>4, <3>4 DEF Follows, TakesFor
  <2> QED
    BY <2>2, <2>3, <2>4
<1>8. ASSUME NEW i \in 1 .. Len(queue'), NEW j \in 1 .. Len(queue'), TakesFor(queue'[i], t, flag)
      PROVE  taken[t][flag] = 0 /\ (TakesFor(queue'[j], t, flag) => i = j)
  <2>1. CASE ~(i \in 1 .. Len(queue) /\ queue'[i] = queue[i])
    BY <1>7, <1>8, <2>1
  <2>2. CASE i \in 1 .. Len(queue) /\ queue'[i] = queue[i]
    <3>1. taken[t][flag] = 0
      BY <1>6, <1>8, <2>2
    <3>2. ASSUME TakesFor(queue'[j], t, flag) PROVE i = j
      <4>1. CASE ~(j \in 1 .. Len(queue) /\ queue'[j] = queue[j])
        BY <1>7, <1>8, <3>2, <4>1
      <4>2. CASE j \in 1 .. Len(queue) /\ queue'[j] = queue[j]
        BY <1>6, <1>8, <2>2, <3>2, <4>2
      <4> QED
        BY <4>1, <4>2
    <3> QED
      BY <3>1, <3>2
  <2> QED
    BY <2>1, <2>2
<1>9. ASSUME t \in DOMAIN broker, taken[t][flag] > 0 \/ UnderWay(t, flag)'
      PROVE  Had(states', t, flag)
  <2>1. CASE taken[t][flag] > 0
    BY <1>5, <1>6, <1>9, <2>1
  <2>2. CASE UnderWay(t, flag)'
    <3>1. PICK i \in 1 .. Len(queue') : TakesFor(queue'[i], t, flag)
      BY <1>2, <2>2 DEF UnderWay
    <3>2. CASE ~(i \in 1 .. Len(queue) /\ queue'[i] = queue[i])
      BY <1>4, <1>7, <3>1, <3>2
    <3>3. CASE i \in 1 .. Len(queue) /\ queue'[i] = queue[i]
      <4>1. UnderWay(t, flag)
        BY <1>2, <3>1, <3>3 DEF UnderWay
      <4> QED
        BY <1>5, <1>6, <1>9, <4>1
    <3> QED
      BY <3>2, <3>3
  <2> QED
    BY <1>9, <2>1, <2>2
<1> QED
  BY <1>6, <1>8, <1>9

\* An id that a review takes up is that of an order it queues.
LEMMA ReviewBacksIds ==
  ASSUME ReviewTypes, FlagsAreBacked, "lost_reply" \notin hit, NEW found, NEW orders, Reviews(found, orders),
         NEW t \in DOMAIN broker, NEW flag \in Flags,
         Had(states, t, flag) \/ \E id \in ids' : Knows(id, t, flag)
  PROVE  taken[t][flag] > 0 \/ UnderWay(t, flag)'
<1>1. /\ Line = queue /\ Line' = queue'
      /\ \A i \in 1 .. Len(queue) : i \in 1 .. Len(queue') /\ queue'[i] = queue[i]
      /\ \A i \in 1 .. Len(queue') :
           (i \in 1 .. Len(queue) /\ queue'[i] = queue[i]) \/ (i > Len(queue) /\ Fit(broker, states, found, queue'[i]))
      /\ \A id \in ids' : id \in ids \/ \E i \in 1 .. Len(queue') : i > Len(queue) /\ id = CommandId(queue'[i])
  BY ReviewLengthens
<1>2. UnderWay(t, flag) => UnderWay(t, flag)'
  BY <1>1 DEF UnderWay
<1>3. CASE Had(states, t, flag) \/ \E id \in ids : Knows(id, t, flag)
  BY <1>2, <1>3 DEF FlagsAreBacked
<1>4. CASE \E id \in ids' : id \notin ids /\ Knows(id, t, flag)
  <2>1. PICK id \in ids' : id \notin ids /\ Knows(id, t, flag)
    BY <1>4
  <2>2. PICK i \in 1 .. Len(queue') : id = CommandId(queue'[i])
    BY <1>1, <2>1
  <2>3. TakesFor(queue'[i], t, flag)
    BY <2>1, <2>2 DEF CommandId, Knows, TakesFor, Takes
  <2> QED
    BY <1>1, <2>3 DEF UnderWay
<1> QED
  BY <1>3, <1>4

\* What a review notes it has closed.
LEMMA ReviewKeepsBacked ==
  ASSUME ReviewTypes, FlagsAreBacked, Post
  PROVE  FlagsAreBacked'
<1>1. PICK found, orders : /\ Reviews(found, orders) /\ Complete(broker, states, found, orders)
                           /\ states' = Saved([t \in DOMAIN broker |-> found[t].st]) /\ hit' = hit
  BY PostReviews
<1>2. \A j \in 1 .. Len(orders) : Makes(orders[j]) => CommandId(orders[j]) \in ids'
  BY <1>1, ReviewLengthens
<1>3. broker' = broker /\ taken' = taken
  BY <1>1 DEF Reviews
<1> SUFFICES ASSUME "lost_reply" \notin hit, NEW t \in DOMAIN broker, NEW flag \in Flags,
                    Had(states', t, flag) \/ \E id \in ids' : Knows(id, t, flag)
             PROVE  taken[t][flag] > 0 \/ UnderWay(t, flag)'
  BY <1>1, <1>3 DEF FlagsAreBacked
<1>4. CASE Had(states, t, flag) \/ \E id \in ids' : Knows(id, t, flag)
  BY <1>1, <1>4, ReviewBacksIds
<1>5. CASE Had(states', t, flag) /\ ~Had(states, t, flag)
  <2>1. found[t].st[flag]
    BY <1>1, <1>5 DEF Saved, Had
  <2>2. PICK j \in 1 .. Len(orders) : TakesFor(orders[j], t, flag)
    BY <1>1, <1>5, <2>1 DEF Complete
  <2>3. CommandId(orders[j]) \in ids'
    BY <1>2, <2>2 DEF TakesFor, Takes, Makes
  <2>4. Knows(CommandId(orders[j]), t, flag)
    BY <2>2 DEF CommandId, Knows, TakesFor, Takes
  <2>5. \E id \in ids' : Knows(id, t, flag)
    BY <2>3, <2>4
  <2> QED
    BY <1>1, <2>5, ReviewBacksIds
<1> QED
  BY <1>4, <1>5

\* Both invariants are kept.
LEMMA ClosesStayKept ==
  ASSUME ReviewTypes, [ReviewNext]_reviewVars
  PROVE  (ClosedOnce => ClosedOnce') /\ (FlagsAreBacked => FlagsAreBacked')
<1>1. hit \subseteq hit'
  BY FaultsStay
<1>2. CASE Waits
  BY <1>1, <1>2, WaitingKeepsCloses
<1>3. CASE Opens
  BY <1>1, <1>3, OpeningKeepsCloses
<1>4. CASE Execute /\ Executed
  BY <1>1, <1>4, ExecutingKeepsCloses DEF Execute, store
<1>5. CASE LoseReply
  <2>1. Line' = <<>> /\ UNCHANGED <<broker, opened, states, ids, taken>> /\ hit' = hit \cup {"lost_reply"}
    BY <1>5, LosesLine
  <2>2. FlagsAreBacked'
    BY <2>1 DEF FlagsAreBacked
  <2>3. 1 .. Len(Line') = {} /\ \A t, flag : ~UnderWay(t, flag)'
    BY <2>1 DEF UnderWay
  <2>4. ClosedOnce => ClosedOnce'
    BY <2>1, <2>3 DEF ClosedOnce
  <2> QED
    BY <2>2, <2>4
<1>6. CASE Post
  BY <1>6, ReviewKeepsClosedOnce, ReviewKeepsBacked
<1>7. CASE Crash
  <2>1. PICK found, orders : Reviews(found, orders) /\ states' = states /\ hit' = hit \cup {"crash"}
    BY <1>7, CrashReviews
  <2>2. ClosedOnce'
    BY <2>1 DEF ClosedOnce
  <2>3. broker' = broker /\ taken' = taken
    BY <2>1 DEF Reviews
  <2>4. FlagsAreBacked => FlagsAreBacked'
    <3> SUFFICES ASSUME FlagsAreBacked, "lost_reply" \notin hit, NEW t \in DOMAIN broker, NEW flag \in Flags,
                        Had(states, t, flag) \/ \E id \in ids' : Knows(id, t, flag)
                 PROVE  taken[t][flag] > 0 \/ UnderWay(t, flag)'
      BY <2>1, <2>3 DEF FlagsAreBacked
    <3> QED
      BY <2>1, ReviewBacksIds
  <2> QED
    BY <2>2, <2>4
<1> QED
  BY <1>2, <1>3, <1>4, <1>5, <1>6, <1>7, StepIsOneOf

\* Of a review nothing was under way before, and what it queues leads away from the stops
\* it was made from.
LEMMA ReviewKeepsStops ==
  ASSUME ReviewTypes, StopsAreAhead, NEW found, NEW orders, Reviews(found, orders), hit \subseteq hit'
  PROVE  StopsAreAhead'
<1>1. /\ Line' = queue' /\ queue \in Seq(AdvisedType) /\ queue' \in Seq(AdvisedType)
      /\ \A i \in 1 .. Len(queue') :
           \/ i \in 1 .. Len(queue) /\ queue'[i] = queue[i]
           \/ /\ i > Len(queue) /\ Fit(broker, states, found, queue'[i]) /\ Makes(queue'[i])
              /\ \A j \in 1 .. Len(queue') : i < j => <<queue'[i], queue'[j]>> \in Follows(broker)
  BY ReviewLengthens DEF ReviewTypes
<1>2. broker' = broker /\ terminal = "post" /\ terminal' = "poll"
  BY DEF Reviews
<1> SUFFICES ASSUME "missed_poll" \notin hit, NEW t \in DOMAIN broker, NEW i \in 1 .. Len(queue'),
                    queue'[i].ticket = t, queue'[i].act = "MODIFY"
             PROVE  /\ Beyond(broker[t].side, broker[t].sl, queue'[i].sl) > 0
                    /\ \A j \in 1 .. Len(queue') : j < i /\ queue'[j].ticket = t /\ queue'[j].act = "MODIFY" =>
                         Beyond(broker[t].side, queue'[j].sl, queue'[i].sl) > 0
  BY <1>1, <1>2 DEF StopsAreAhead
<1>3. queue = <<>>
  BY <1>2 DEF StopsAreAhead
<1>4. \A k \in 1 .. Len(queue') : /\ Fit(broker, states, found, queue'[k]) /\ Makes(queue'[k])
                                  /\ \A j \in 1 .. Len(queue') : k < j => <<queue'[k], queue'[j]>> \in Follows(broker)
  <2>1. 1 .. Len(queue) = {}
    BY <1>3
  <2> QED
    BY <1>1, <2>1
<1>5. Beyond(broker[t].side, broker[t].sl, queue'[i].sl) > 0
  <2>1. broker[t].sl > 0
    BY <1>4 DEF Makes
  <2>2. broker[t].sl = 0 \/ Beyond(broker[t].side, broker[t].sl, queue'[i].sl) > 0
    BY <1>4 DEF Fit
  <2> QED
    BY <2>1, <2>2
<1>6. ASSUME NEW j \in 1 .. Len(queue'), j < i, queue'[j].ticket = t, queue'[j].act = "MODIFY"
      PROVE  Beyond(broker[t].side, queue'[j].sl, queue'[i].sl) > 0
  <2>1. <<queue'[j], queue'[i]>> \in Follows(broker)
    BY <1>4, <1>6
  <2> QED
    BY <1>6, <2>1 DEF Follows
<1> QED
  BY <1>5, <1>6

\* Executing a stop, if the broker takes it, leaves those after it ahead.
LEMMA ExecutingKeepsStops ==
  ASSUME ReviewTypes, StopsAreAhead, Execute, Executed
  PROVE  StopsAreAhead'
<1>1. UNCHANGED <<terminal, queue, hit>>
  BY DEF Execute, store
<1>2. Line \in Seq(AdvisedType) /\ Len(Line) \in Nat
  BY DEF ReviewTypes, Line
<1>3. /\ Len(Line) # 0 /\ Len(Line') = Len(Line) - 1
      /\ \A i \in 1 .. Len(Line') : i + 1 \in 1 .. Len(Line) /\ Line'[i] = Line[i + 1]
      /\ DOMAIN broker' \subseteq DOMAIN broker
      /\ \A t \in DOMAIN broker' :
           /\ broker'[t].side = broker[t].side
           /\ \/ broker'[t].sl = broker[t].sl
              \/ Line[1].act = "MODIFY" /\ Line[1].ticket = t /\ broker'[t].sl = Line[1].sl
  BY DEF Executed
<1> SUFFICES ASSUME "missed_poll" \notin hit, NEW t \in DOMAIN broker', NEW i \in 1 .. Len(Line'),
                    Line'[i].ticket = t, Line'[i].act = "MODIFY"
             PROVE  /\ Beyond(broker'[t].side, broker'[t].sl, Line'[i].sl) > 0
                    /\ \A j \in 1 .. Len(Line') : j < i /\ Line'[j].ticket = t /\ Line'[j].act = "MODIFY" =>
                         Beyond(broker'[t].side, Line'[j].sl, Line'[i].sl) > 0
  BY <1>1 DEF StopsAreAhead
<1>4. /\ i + 1 \in 1 .. Len(Line) /\ Line'[i] = Line[i + 1] /\ t \in DOMAIN broker
      /\ broker'[t].side = broker[t].side /\ 1 \in 1 .. Len(Line) /\ 1 < i + 1
  BY <1>2, <1>3
<1>5. /\ Beyond(broker[t].side, broker[t].sl, Line[i + 1].sl) > 0
      /\ \A j \in 1 .. Len(Line) : j < i + 1 /\ Line[j].ticket = t /\ Line[j].act = "MODIFY" =>
           Beyond(broker[t].side, Line[j].sl, Line[i + 1].sl) > 0
  BY <1>4 DEF StopsAreAhead
<1>6. Beyond(broker'[t].side, broker'[t].sl, Line'[i].sl) > 0
  <2>1. CASE broker'[t].sl = broker[t].sl
    BY <1>4, <1>5, <2>1
  <2>2. CASE Line[1].act = "MODIFY" /\ Line[1].ticket = t /\ broker'[t].sl = Line[1].sl
    BY <1>4, <1>5, <2>2
  <2> QED
    BY <1>3, <2>1, <2>2
<1>7. ASSUME NEW j \in 1 .. Len(Line'), j < i, Line'[j].ticket = t, Line'[j].act = "MODIFY"
      PROVE  Beyond(broker'[t].side, Line'[j].sl, Line'[i].sl) > 0
  <2>1. j + 1 \in 1 .. Len(Line) /\ Line'[j] = Line[j + 1] /\ j + 1 < i + 1
    BY <1>3, <1>7
  <2> QED
    BY <1>4, <1>5, <1>7, <2>1
<1> QED
  BY <1>6, <1>7

\* The stops under way stay ahead.
LEMMA StopsStayAhead ==
  ASSUME ReviewTypes, StopsAreAhead, [ReviewNext]_reviewVars
  PROVE  StopsAreAhead'
<1>1. hit \subseteq hit'
  BY FaultsStay
<1>2. ASSUME Waits, "missed_poll" \notin hit' => (terminal' = "post" => queue' = <<>>)
      PROVE  StopsAreAhead'
  BY <1>1, <1>2 DEF Waits, StopsAreAhead
<1>3. CASE \E p \in Prices : MovePrice(p)
  BY <1>2, <1>3, OthersWait DEF MovePrice, store, StopsAreAhead
<1>4. CASE NextMinute
  BY <1>2, <1>4, OthersWait DEF NextMinute, StopsAreAhead
<1>5. CASE Poll
  BY <1>2, <1>5, OthersWait DEF Poll
<1>6. CASE MissPoll
  BY <1>2, <1>6, OthersWait DEF MissPoll, Fault
<1>7. CASE UNCHANGED reviewVars
  BY <1>2, <1>7, OthersWait DEF reviewVars, StopsAreAhead
<1>8. CASE \E t \in Tickets : Open(t)
  <2>1. PICK t \in Tickets \ opened :
          /\ Line' = Line /\ DOMAIN broker' = DOMAIN broker \cup {t}
          /\ \A u \in DOMAIN broker : broker'[u] = broker[u]
    BY <1>8, OpenOpens DEF Opens
  <2>2. UNCHANGED <<terminal, queue, hit>>
    BY <1>8 DEF Open, store
  <2>3. \A i \in 1 .. Len(Line) : Line[i].ticket # t
    BY DEF ReviewTypes
  <2> QED
    BY <2>1, <2>2, <2>3 DEF StopsAreAhead
<1>9. CASE Execute
  BY <1>9, ExecuteDoes, ExecutingKeepsStops
<1>10. CASE LoseReply
  <2>1. Line' = <<>> /\ UNCHANGED <<broker, opened, states, ids, taken>>
    BY <1>10, LosesLine
  <2>2. queue' = <<>> /\ 1 .. Len(Line') = {}
    BY <1>10, <2>1 DEF LoseReply
  <2> QED
    BY <2>2 DEF StopsAreAhead
<1>11. CASE Post
  BY <1>1, <1>11, PostReviews, ReviewKeepsStops
<1>12. CASE Crash
  BY <1>1, <1>12, CrashReviews, ReviewKeepsStops
<1> QED
  BY <1>3, <1>4, <1>5, <1>6, <1>7, <1>8, <1>9, <1>10, <1>11, <1>12 DEF ReviewNext

ReviewInv == ReviewTypes /\ ClosedOnce /\ FlagsAreBacked /\ StopsAreAhead

\* The inductive invariant of the loop.
THEOREM ReviewInvHolds == ReviewSpec => []ReviewInv
<1>1. ReviewInit => ReviewInv
  <2> SUFFICES ASSUME ReviewInit PROVE ReviewInv
    OBVIOUS
  <2>1. inbox = <<>> /\ queue = <<>> /\ ids = {} /\ states = NoPositions
    BY DEF ReviewInit
  <2>2. Line = <<>> /\ 1 .. Len(Line) = {}
    BY <2>1 DEF Line
  <2>3. \A t \in Tickets : \A flag \in Flags : taken[t][flag] = 0
    BY DEF ReviewInit, Flags
  <2>4. \A t, flag : ~UnderWay(t, flag) /\ ~Had(states, t, flag)
    BY <2>1, <2>2 DEF UnderWay, Had, NoPositions
  <2>5. ClosedOnce
    BY <2>2, <2>3, <2>4 DEF ClosedOnce
  <2>6. FlagsAreBacked
    BY <2>1, <2>4 DEF FlagsAreBacked
  <2>7. StopsAreAhead
    BY <2>1, <2>2 DEF StopsAreAhead
  <2> QED
    BY <2>5, <2>6, <2>7, TypesAtStart DEF ReviewInv
<1>2. ReviewInv /\ [ReviewNext]_reviewVars => ReviewInv'
  BY TypesKept, ClosesStayKept, StopsStayAhead DEF ReviewInv
<1> QED
  BY <1>1, <1>2, PTL DEF ReviewSpec

\* Each target of a position is closed at most once unless a crash came between: manager
\* queues the close before the flag is stored.
THEOREM TargetsTakenOnce == ReviewSpec => []TargetTakenOnce
<1>1. ReviewInv => TargetTakenOnce
  BY DEF ReviewInv, ClosedOnce, TargetTakenOnce, Flags
<1> QED
  BY <1>1, ReviewInvHolds, PTL

\* When nothing is under way the stored flags say what was closed at the broker.
THEOREM StatesAndBrokerMatch == ReviewSpec => []StatesMatchBroker
<1>1. ReviewInv => StatesMatchBroker
  <2> SUFFICES ASSUME ReviewInv, AtRest, NEW t \in DOMAIN broker \cap DOMAIN states
               PROVE  /\ "lost_reply" \notin hit =>
                           (states[t].tp1 => taken[t].tp1 > 0) /\ (states[t].tp2 => taken[t].tp2 > 0)
                      /\ "crash" \notin hit =>
                           (taken[t].tp1 > 0 => states[t].tp1) /\ (taken[t].tp2 > 0 => states[t].tp2)
    BY DEF StatesMatchBroker
  <2>1. Line = <<>> /\ 1 .. Len(Line) = {}
    BY DEF AtRest, Line
  <2>2. \A flag \in Flags : ~UnderWay(t, flag) /\ (Had(states, t, flag) <=> states[t][flag])
    BY <2>1 DEF UnderWay, Had
  <2>3. t \in Tickets /\ "tp1" \in Flags /\ "tp2" \in Flags
    BY DEF ReviewInv, ReviewTypes, Flags
  <2>4. "lost_reply" \notin hit => \A flag \in Flags : states[t][flag] => taken[t][flag] > 0
    BY <2>2 DEF ReviewInv, FlagsAreBacked
  <2>5. "crash" \notin hit => \A flag \in Flags : taken[t][flag] > 0 => states[t][flag]
    BY <2>2, <2>3 DEF ReviewInv, ClosedOnce
  <2> QED
    BY <2>3, <2>4, <2>5
<1> QED
  BY <1>1, ReviewInvHolds, PTL

\* No stop moves backwards as long as every poll arrives.
THEOREM StopsOnlyTighten == ReviewSpec => StopOnlyTightens
<1>1. ReviewInv /\ [ReviewNext]_reviewVars => [Loosened => "missed_poll" \in hit]_reviewVars
  <2> SUFFICES ASSUME ReviewInv, [ReviewNext]_reviewVars, "missed_poll" \notin hit,
                      NEW t \in DOMAIN broker \cap DOMAIN broker'
               PROVE  ~(Beyond(broker[t].side, broker[t].sl, broker'[t].sl) < 0)
    BY DEF Loosened
  <2>1. ReviewTypes /\ StopsAreAhead
    BY DEF ReviewInv
  <2>2. broker[t].sl \in Int
    BY <2>1 DEF ReviewTypes, PositionType
  <2>3. CASE broker'[t].sl = broker[t].sl
    BY <2>2, <2>3 DEF Beyond
  <2>4. CASE Execute /\ Executed
    <3>1. CASE Line[1].act = "MODIFY" /\ Line[1].ticket = t /\ broker'[t].sl = Line[1].sl
      <4>1. Line \in Seq(AdvisedType) /\ Len(Line) # 0
        BY <2>1, <2>4 DEF ReviewTypes, Line, Executed
      <4>2. 1 \in 1 .. Len(Line) /\ Line[1].sl \in Nat
        <5>1. Len(Line) \in Nat /\ Line[1] \in AdvisedType
          BY <2>4, <4>1 DEF Executed
        <5> QED
          BY <4>1, <5>1 DEF AdvisedType
      <4>3. Beyond(broker[t].side, broker[t].sl, Line[1].sl) > 0
        BY <2>1, <3>1, <4>2 DEF StopsAreAhead
      <4> QED
        BY <2>2, <3>1, <4>2, <4>3 DEF Beyond
    <3> QED
      BY <2>3, <2>4, <3>1 DEF Executed
  <2>5. CASE Waits
    BY <2>3, <2>5 DEF Waits
  <2>6. CASE Opens
    BY <2>3, <2>6 DEF Opens
  <2>7. CASE LoseReply
    BY <2>3, <2>7 DEF LoseReply
  <2>8. CASE Post
    BY <2>1, <2>3, <2>8, PostReviews DEF Reviews
  <2>9. CASE Crash
    BY <2>1, <2>3, <2>9, CrashReviews DEF Reviews
  <2> QED
    BY <2>1, <2>4, <2>5, <2>6, <2>7, <2>8, <2>9, StepIsOneOf
<1> QED
  BY <1>1, ReviewInvHolds, PTL DEF ReviewSpec, StopOnlyTightens

=============================================================================
