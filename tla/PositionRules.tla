---------------------------- MODULE PositionRules ----------------------------
(***************************************************************************)
(* The rules by which the server manages open positions                    *)
(* (evaluatePositionManagerCommands): time stops, profit locks, partial    *)
(* closes at two targets or at key levels, exits on reversals and on       *)
(* profit given back, and the rules that tie the positions of one side     *)
(* together. From a snapshot of the positions, the stored position states  *)
(* and the market they make commands for each position, listed by the rule *)
(* that adds them, and its next state.                                     *)
(*                                                                         *)
(* Prices are whole numbers of a tenth of the H1 ATR, which is the same    *)
(* for one evaluation, lots are hundredths, a price of 0 is a missing one. *)
(* What the indicators say is an input: the sides near a key level, fading *)
(* (RSI turned), weak (two of MACD, RSI and ADX), reversing (score 4), and *)
(* whether volatility is low. An average entry is rounded down to a tenth. *)
(***************************************************************************)
EXTENDS Integers, Sequences, FiniteSets, FiniteSetsExt

CONSTANT Hour  \* an hour in units of the clock

ASSUME HourAssumption == Hour \in Nat \ {0}

Sides == {"BUY", "SELL"}

PositionType ==
  [side : Sides, lots : Nat \ {0}, open : Nat \ {0}, sl : Nat, profit : Int]

StateType == [openTime : Nat, tp1 : BOOLEAN, tp2 : BOOLEAN, be : BOOLEAN, max : Nat,
              best : Nat, addOns : Nat, avg : Nat, trailing : BOOLEAN]

MarketType == [price : Nat, now : Nat, tp1 : {10, 15, 20}, tp2 : {20, 30, 40},
               near : SUBSET Sides, fading : SUBSET Sides, weak : SUBSET Sides,
               reversing : SUBSET Sides, quiet : BOOLEAN, equity : Nat]

\* How far the price b lies beyond a in the direction of the side.
Beyond(side, a, b) == IF side = "BUY" THEN b - a ELSE a - b

Profit(p, m) == Beyond(p.side, p.open, m.price)

\* A tenth share of the lots, rounded to hundredths with halves to even (roundLots).
Share(lots, tenths) ==
  LET q == (lots * tenths) \div 10
      r == (lots * tenths) % 10
  IN IF r > 5 \/ (r = 5 /\ q % 2 = 1) THEN q + 1 ELSE q

\* A share, or everything when the share is too small to trade. Mistake: the
\* smallest size that can be traded.
AtLeast(lots, tenths, least) ==
  IF Share(lots, tenths) < least THEN least ELSE Share(lots, tenths)
Part(lots, tenths, least) ==
  IF Share(lots, tenths) < least THEN lots ELSE Share(lots, tenths)

Close(lots, why) == [act |-> "CLOSE", lots |-> lots, sl |-> 0, why |-> why]
Modify(sl, why) == [act |-> "MODIFY", lots |-> 0, sl |-> sl, why |-> why]

\* The order of the commands: what positions get one by one, then what each rule of the
\* sides adds.
Rules == <<"own", "group_tp1", "group_tp2", "group_be", "reanchor", "group_exit">>
RuleNames == {Rules[k] : k \in DOMAIN Rules}
Alone(commands) == [rule \in RuleNames |-> IF rule = "own" THEN commands ELSE <<>>]

FreshState(p, now) ==
  [openTime |-> now, tp1 |-> FALSE, tp2 |-> FALSE, be |-> FALSE, max |-> 0, best |-> p.sl,
   addOns |-> 0, avg |-> 0, trailing |-> FALSE]

\* The stored state of a position or a fresh one, with the best stop and the highest
\* profit brought up to date.
Analyzed(p, t, states, m) ==
  LET s == IF t \in DOMAIN states THEN states[t] ELSE FreshState(p, m.now)
      better == p.sl # 0 /\ (s.best = 0 \/ Beyond(p.side, s.best, p.sl) > 0)
  IN [s EXCEPT !.best = IF better THEN p.sl ELSE @,
               !.max  = IF Profit(p, m) > @ THEN Profit(p, m) ELSE @]

OlderThan(s, m, hours) == m.now - s.openTime > hours * Hour

\* timeStopAdvisory: half after 72 hours, all after 48 or 24 without profit.
TimeStop(p, s, m) ==
  IF OlderThan(s, m, 72) /\ ~s.tp2 THEN <<Close(Part(p.lots, 5, 3), "time_72h")>>
  ELSE IF \/ OlderThan(s, m, 48) /\ Profit(p, m) < 5
          \/ OlderThan(s, m, 24) /\ Profit(p, m) < 1 /\ m.quiet
    THEN <<Close(p.lots, "time")>>
  ELSE <<>>

\* Break-even is forgotten when the stop of the snapshot is behind the open price.
ResetStale(p, s) ==
  [s EXCEPT !.be = @ /\ ~(p.sl > 0 /\ Beyond(p.side, p.open, p.sl) < 0)]

\* The stop a profit locks: the open price, 0.3 or 0.6 ATR beyond it.
LockStop(p, m) ==
  LET beyond == IF Profit(p, m) >= 25 THEN 6 ELSE IF Profit(p, m) >= 20 THEN 3 ELSE 0
  IN IF p.side = "BUY" THEN p.open + beyond ELSE p.open - beyond

\* A lock moves the stop of the snapshot forward; mistake: it only asks for profit.
AnyLock(p, m) == Profit(p, m) >= 15
Locks(p, m) ==
  /\ Profit(p, m) >= 15
  /\ p.sl = 0 \/ Beyond(p.side, p.sl, LockStop(p, m)) > 0

Locked(p, s, m) ==
  IF Locks(p, m)
  THEN [adv |-> <<Modify(LockStop(p, m), "lock")>>,
        st  |-> [s EXCEPT !.be = TRUE, !.best = LockStop(p, m)]]
  ELSE [adv |-> <<>>, st |-> s]

TP1Due(p, s, m) ==
  /\ ~s.tp1 /\ s.be
  /\ \/ Profit(p, m) >= m.tp1
     \/ 10 * Profit(p, m) >= 6 * m.tp1 /\ p.side \in m.fading

AtKeyLevel(p, m) == Profit(p, m) >= 10 /\ p.side \in m.near

TP2Due(p, s, m) ==
  /\ s.tp1 /\ ~s.tp2
  /\ \/ Profit(p, m) >= m.tp2
     \/ 10 * Profit(p, m) >= 7 * m.tp2 /\ p.side \in m.weak

Reverses(p, s, m) == s.be /\ Profit(p, m) >= 3 /\ p.side \in m.reversing

\* dynamicTrailingAdvisory: more than 55% or 60% of the highest profit given back.
\* Mistake: the close is repeated.
GaveBack(p, s, m) ==
  LET lost == s.max - Profit(p, m)
  IN /\ s.tp1 /\ s.max > 0
     /\ IF s.tp2 THEN 100 * lost > 55 * s.max
                 ELSE 10 * lost > 6 * s.max /\ lost > 8
Trails(p, s, m) == ~s.trailing /\ GaveBack(p, s, m)

\* The first exit that applies; the ones after it wait for the next evaluation.
Exit(p, s, m) ==
  LET part == Part(p.lots, 4, 1) IN
  IF TP1Due(p, s, m)
    THEN [adv |-> <<Close(part, "TP1")>>, st |-> [s EXCEPT !.tp1 = TRUE]]
  ELSE IF AtKeyLevel(p, m) /\ ~s.tp1
    THEN [adv |-> <<Close(part, "key_level")>>, st |-> [s EXCEPT !.tp1 = TRUE]]
  ELSE IF AtKeyLevel(p, m) /\ ~s.tp2 /\ Profit(p, m) > 20
    THEN [adv |-> <<Close(part, "key_level2")>>, st |-> [s EXCEPT !.tp2 = TRUE]]
  ELSE IF TP2Due(p, s, m)
    THEN [adv |-> <<Close(part, "TP2")>>, st |-> [s EXCEPT !.tp2 = TRUE]]
  ELSE IF Reverses(p, s, m)
    THEN [adv |-> <<Close(p.lots, "reversal")>>, st |-> s]
  ELSE IF Trails(p, s, m)
    THEN [adv |-> <<Close(p.lots, "trail")>>, st |-> [s EXCEPT !.trailing = TRUE]]
  ELSE [adv |-> <<>>, st |-> s]

\* What one position gets before the positions of its side are looked at together.
Single(p, t, states, m) ==
  LET s    == Analyzed(p, t, states, m)
      lock == Locked(p, ResetStale(p, s), m)
      exit == Exit(p, lock.st, m)
  IN IF TimeStop(p, s, m) # <<>> THEN [adv |-> Alone(TimeStop(p, s, m)), st |-> s]
     ELSE [adv |-> Alone(lock.adv \o exit.adv), st |-> exit.st]

(***************************************************************************)
(* The rules for the positions of one side. r holds, for each ticket, the  *)
(* commands and the state so far.                                          *)
(***************************************************************************)
SideGroup(P, t) == {u \in DOMAIN P : P[u].side = P[t].side}
Grouped(P, t) == Cardinality(SideGroup(P, t)) > 1

SideLots(P, G) == MapThenSumSet(LAMBDA u : P[u].lots, G)
Worth(P, G) == MapThenSumSet(LAMBDA u : P[u].lots * P[u].open, G)

\* The positions of t's side that are new to the server, and those it knows.
Added(P, states, t) == SideGroup(P, t) \ DOMAIN states
Known(P, states, t) == SideGroup(P, t) \cap DOMAIN states

\* An added position lies beyond (behind) the average entry of the known ones.
AddedBeyond(P, states, t) ==
  LET old == Known(P, states, t) IN
  old # {} /\ \E u \in Added(P, states, t) :
    Beyond(P[u].side, Worth(P, old), P[u].open * SideLots(P, old)) > 0
AddedBehind(P, states, t) ==
  LET old == Known(P, states, t) IN
  old # {} /\ \E u \in Added(P, states, t) :
    Beyond(P[u].side, Worth(P, old), P[u].open * SideLots(P, old)) < 0

\* applySameSideGroupClose: when one position newly takes a target, the others of
\* its side that have not taken it do so too.
NewlyHit(r, P, states, t, target) ==
  \E u \in SideGroup(P, t) :
    r[u].st[target] /\ ~(u \in DOMAIN states /\ states[u][target])
GroupClose(r, P, states, target, why) ==
  [t \in DOMAIN r |->
     IF Grouped(P, t) /\ NewlyHit(r, P, states, t, target) /\ ~r[t].st[target]
     THEN [adv |-> [r[t].adv EXCEPT ![why] = <<Close(Part(P[t].lots, 4, 1), why)>>],
           st  |-> [r[t].st EXCEPT ![target] = TRUE]]
     ELSE r[t]]

\* A stop that is behind the market and not behind the best stop so far; mistake:
\* it is only behind the market.
BehindMarket(p, s, stop, m) == Beyond(p.side, stop, m.price) > 0
StopFits(p, s, stop, m) ==
  /\ Beyond(p.side, stop, m.price) > 0
  /\ s.best = 0 \/ Beyond(p.side, s.best, stop) > 0

Moved(r, p, t, stop, why, m) ==
  IF StopFits(p, r[t].st, stop, m)
  THEN [adv |-> [r[t].adv EXCEPT ![why] = <<Modify(stop, why)>>],
        st  |-> [r[t].st EXCEPT !.best = stop]]
  ELSE r[t]

\* applySameSideBreakeven: when one position newly reaches break-even or one was
\* added beyond the average, every stop of the side goes to the best open price.
GroupBreakeven(r, P, states, m) ==
  LET opens(t) == {P[u].open : u \in SideGroup(P, t)}
      bestOpen(t) == IF P[t].side = "BUY" THEN Max(opens(t)) ELSE Min(opens(t))
      newly(t) == \E u \in SideGroup(P, t) : r[u].st.be /\ ~(u \in DOMAIN states /\ states[u].be)
  IN [t \in DOMAIN r |->
        IF Grouped(P, t) /\ (newly(t) \/ AddedBeyond(P, states, t))
        THEN Moved(r, P[t], t, bestOpen(t), "group_be", m)
        ELSE r[t]]

\* applySameSideGroupStopReanchor: when one was added behind the average, every stop
\* of the side goes to the average entry of them all.
Reanchor(r, P, states, m) ==
  [t \in DOMAIN r |->
     IF Grouped(P, t) /\ AddedBehind(P, states, t)
     THEN LET avg == Worth(P, SideGroup(P, t)) \div SideLots(P, SideGroup(P, t))
              noted == [r EXCEPT ![t].st.avg = avg,
                                 ![t].st.addOns = IF t \in DOMAIN states THEN @ ELSE @ + 1]
          IN Moved(noted, P[t], t, avg, "reanchor", m)
     ELSE r[t]]

\* applyAdverseGroupDrawdownExit: a side with an add-on that lost 6% of the equity.
DrawdownExit(r, P, m) ==
  LET loss(t) == - MapThenSumSet(LAMBDA u : P[u].profit, SideGroup(P, t)) IN
  [t \in DOMAIN r |->
     IF /\ Grouped(P, t) /\ m.equity > 0
        /\ \E u \in SideGroup(P, t) : r[u].st.addOns > 0
        /\ loss(t) > 0 /\ 100 * loss(t) >= 6 * m.equity
     THEN [r[t] EXCEPT !.adv.group_exit = <<Close(P[t].lots, "group_exit")>>]
     ELSE r[t]]

\* evaluatePositionManagerCommands for open positions P.
EvaluateCommands(P, states, m) ==
  LET r1 == [t \in DOMAIN P |-> Single(P[t], t, states, m)]
      r2 == GroupClose(r1, P, states, "tp1", "group_tp1")
      r3 == GroupClose(r2, P, states, "tp2", "group_tp2")
      r4 == GroupBreakeven(r3, P, states, m)
      r5 == Reanchor(r4, P, states, m)
  IN DrawdownExit(r5, P, m)

=============================================================================
