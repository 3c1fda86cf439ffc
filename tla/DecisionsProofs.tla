--------------------------- MODULE DecisionsProofs ---------------------------
(***************************************************************************)
(* What the decisions that keep nothing promise, for every value of the    *)
(* constants: of all plans, gates, markets, series of bars and things said *)
(* to the agent, and not only of the grids the run enumerates. An answer   *)
(* is the answer to its question (DecisionInv); what remains of each       *)
(* promise is a lemma about the operators the answer is made of.           *)
(***************************************************************************)
EXTENDS Decisions, FiniteSetTheorems, WellFoundedInduction, TLAPS

\* Neither the gate nor the builder changes what was decided before.
LEMMA RulesStep == VerdictInv /\ [Next]_vars => VerdictInv'
<1> SUFFICES ASSUME VerdictInv, [Next]_vars PROVE VerdictInv'
  OBVIOUS
<1>1. CASE EvaluateGate
  BY <1>1 DEF EvaluateGate, VerdictInv
<1>2. CASE BuildCandidate
  BY <1>2 DEF BuildCandidate, VerdictInv
<1>3. CASE UNCHANGED vars
  BY <1>3 DEF vars, VerdictInv
<1> QED
  BY <1>1, <1>2, <1>3 DEF Next

\* What the gate and the builder decided stays what the stages say they decided.
THEOREM VerdictHolds == Spec => []VerdictInv
<1>1. Init => VerdictInv
  BY DEF Init, VerdictInv
<1> QED
  BY <1>1, RulesStep, PTL DEF Spec

-----------------------------------------------------------------------------
(* The steps of the decisions. *)

\* What was asked is one of the questions, and what was answered is the answer to it.
DecisionInv ==
  /\ subject = "intake" => question \in Bodies
  /\ subject = "gate" => question \in Gates
  /\ subject = "signal" => question \in Signalled
  /\ subject = "structure" => question \in Bars
  /\ subject = "account" => question \in Accounts
  /\ subject = "evaluation" => question \in Evaluations
  /\ subject = "stream" => question \in Streams
  /\ subject = "agent" => \E cases \in AgentCases : question \in cases
  /\ Answered("intake") => answer = Intake(question)
  /\ Answered("gate") => answer = Judgement(question)
  /\ Answered("signal") => answer = Publication(question)
  /\ Answered("structure") => answer = Structure(question)
  /\ Answered("agent") => answer = Composition(question)
  /\ Answered("account") => answer = Sighting(question)
  /\ Answered("evaluation") => answer = Evaluation(question)
  /\ Answered("stream") => answer = Reading(question)
  /\ VerdictInv

\* The invariant of all decisions: the rules' own, and that answers answer their questions.
THEOREM DecisionsHold == DecisionSpec => []DecisionInv
<1> USE DEF Answered
<1>1. DecisionInit => DecisionInv
  <2> SUFFICES ASSUME DecisionInit PROVE DecisionInv
    OBVIOUS
  <2>1. DOMAIN answer = {}
    <3>1. answer = <<>>
      BY DEF DecisionInit
    <3> QED
      BY <3>1
  <2>2. VerdictInv
    BY DEF DecisionInit, Init, Asked, VerdictInv
  <2> QED
    BY <2>1, <2>2 DEF DecisionInit, DecisionInv, Asked
<1>2. DecisionInv /\ [DecisionNext]_<<decisionVars, vars>> => DecisionInv'
  <2> SUFFICES ASSUME DecisionInv, [DecisionNext]_<<decisionVars, vars>> PROVE DecisionInv'
    OBVIOUS
  <2> HIDE DEF Answered
  <2>1. CASE ApplyRules
    <3>1. VerdictInv'
      BY <2>1, RulesStep DEF ApplyRules, DecisionInv
    <3>2. UNCHANGED decisionVars
      BY <2>1 DEF ApplyRules
    <3> QED
      BY <3>1, <3>2 DEF decisionVars, DecisionInv, Answered
  <2>2. ASSUME NEW name, NEW said, Answer(name, said),
               \/ name = "intake" /\ said = Intake(question)
               \/ name = "gate" /\ said = Judgement(question)
               \/ name = "signal" /\ said = Publication(question)
               \/ name = "structure" /\ said = Structure(question)
               \/ name = "agent" /\ said = Composition(question)
               \/ name = "account" /\ said = Sighting(question)
               \/ name = "evaluation" /\ said = Evaluation(question)
               \/ name = "stream" /\ said = Reading(question)
        PROVE  DecisionInv'
    <3>1. /\ subject = name /\ subject' = subject /\ question' = question
          /\ answer' = said /\ UNCHANGED vars
      BY <2>2 DEF Answer
    <3>2. VerdictInv'
      BY <3>1 DEF vars, VerdictInv, DecisionInv
    <3>3. /\ Intake(question)' = Intake(question)
          /\ Judgement(question)' = Judgement(question)
          /\ Publication(question)' = Publication(question)
          /\ Structure(question)' = Structure(question)
          /\ Composition(question)' = Composition(question)
          /\ Sighting(question)' = Sighting(question)
          /\ Evaluation(question)' = Evaluation(question)
          /\ Reading(question)' = Reading(question)
      BY <3>1
    <3> QED
      BY <2>2, <3>1, <3>2, <3>3 DEF DecisionInv, Answered
  <2>3. CASE UNCHANGED <<decisionVars, vars>>
    <3>1. VerdictInv'
      BY <2>3 DEF vars, VerdictInv, DecisionInv
    <3> QED
      BY <2>3, <3>1 DEF decisionVars, DecisionInv, Answered
  <2> QED
    BY <2>1, <2>2, <2>3
       DEF DecisionNext, ReceivePlans, JudgePlan, PublishSignal, ReadStructure, ComposeSignal, ReadAnswer,
           ShowAccount, EvaluatePositions
<1> QED
  BY <1>1, <1>2, PTL DEF DecisionSpec

-----------------------------------------------------------------------------
(* The price rules. *)

\* An accepted order is worth its risk at the price it is expected to fill at.
LEMMA GateJudgesFill ==
  ASSUME VerdictInv, stage = "built"
  PROVE  Executable(plan, FillPrice)
<1>1. order.entry = PickEntry(plan)
  BY DEF VerdictInv, Candidate
<1>2. CASE orderType = "market"
  BY <1>2 DEF VerdictInv, GateAccepts, FillPrice
<1>3. CASE orderType # "market"
  BY <1>1, <1>3 DEF VerdictInv, FillPrice
<1> QED
  BY <1>2, <1>3

\* The order that is sent has its stop behind and its targets ahead, and the last
\* target is worth 1.25 times the risk, at the entry the builder used and at the
\* price the gate used (gate.ts and command.ts judge the same plan twice). A limit order
\* that is sent to rest has the side the plan has, and the market has not reached its price
\* (resolveAIApproveOrderIntent).
THEOREM BuiltIsSound == (Spec => []BuiltOrderIsSound) /\ (DecisionSpec => []BuiltOrderIsSound)
<1>1. ASSUME VerdictInv, stage = "built", NEW price \in {order.entry, FillPrice}
      PROVE  LET risk == -Gain(plan.side, price, order.sl)
                 last == Gain(plan.side, price, order.tp)
             IN /\ risk > 0
                /\ Gain(plan.side, price, order.tp1) > 0
                /\ 4 * last >= 5 * risk
  <2> USE <1>1
  <2>1. order = Candidate(plan, PickEntry(plan)) /\ Executable(plan, PickEntry(plan))
    BY DEF VerdictInv
  <2>2. Executable(plan, price)
    BY <2>1, GateJudgesFill DEF Candidate
  <2>3. /\ order.sl = plan.stop_loss
        /\ order.tp = LastTarget(plan)
        /\ order.tp1 = FirstTarget(plan)
    BY <2>1 DEF Candidate
  <2> QED
    BY <2>2, <2>3 DEF Executable, WellPlaced, WorthTheRisk
<1>2. ASSUME VerdictInv, stage = "built", orderType # "market"
      PROVE  /\ orderType = IF plan.side = "buy" THEN "BUY_LIMIT" ELSE "SELL_LIMIT"
             /\ Gain(plan.side, order.entry, ExecutionPrice(tick, plan.side)) > 0
  <2> USE <1>2
  <2> DEFINE price == ExecutionPrice(tick, plan.side)
             entry == PickEntry(plan)
  <2>1. order.entry = entry
    BY DEF VerdictInv, Candidate
  <2>2. orderType = OrderIntent(plan, price, entry, atr) /\ orderType # "rejected"
    BY DEF VerdictInv, GateAccepts
  <2>3. /\ IntentAgrees(plan)
        /\ plan.execution_type # "market"
        /\ StillAhead(plan, price, entry)
        /\ orderType = plan.requested_order_type
    <3> HIDE DEF price, entry
    <3> QED
      BY <2>2 DEF OrderIntent
  <2> QED
    BY <2>1, <2>3 DEF IntentAgrees, StillAhead
<1>3. VerdictInv => BuiltOrderIsSound
  BY <1>1, <1>2 DEF BuiltOrderIsSound
<1>4. DecisionInv => VerdictInv
  BY DEF DecisionInv
<1> QED
  BY <1>3, <1>4, VerdictHolds, DecisionsHold, PTL

-----------------------------------------------------------------------------
(* The risk gate. *)

\* The gate is more patient with the spread than the filter.
LEMMA FilterIsStricter ==
  ASSUME NEW name, NEW now, NEW in,
         in.tick.spread \in Int, in.tick.maxSpread \in Int,
         R!Blocking(name, now, in.runtime, in.tick) = {}
  PROVE  R!TradeabilityRejects(in, now) \subseteq {"missing_price", "expired"}
<1> DEFINE limit == R!FilterMaxSpread(name)
<1>1. limit \in {4, 5, 6}
  BY DEF R!FilterMaxSpread
<1> HIDE DEF limit
<1>2. /\ in.runtime.open /\ in.runtime.allowed /\ ~R!Stale(in.runtime, now)
      /\ ~(in.tick.spread > R!SpreadLimit(in.tick.maxSpread, limit))
  BY DEF R!Blocking, limit
<1>3. ~(in.tick.spread > R!SpreadLimit(in.tick.maxSpread, 80))
  BY <1>1, <1>2 DEF R!SpreadLimit
<1> QED
  BY <1>2, <1>3 DEF R!TradeabilityRejects, R!PlanMaxSpread

\* What the filter passes the gate does not stop for the market's sake; and from the rollover
\* of the day to its first hour one of two warnings is given.
LEMMA FilterJudges ==
  ASSUME NEW q \in Gates
  PROVE  /\ Judgement(q).filter = {} => Judgement(q).rejects \subseteq {"missing_price", "expired"}
         /\ q.now.minute \notin 60 .. 1314 => Judgement(q).warned # {}
<1> DEFINE in == q.in
           now == q.now
           name == in.plan.symbol
           atrs == q.atrs
<1>1. in \in GateInput /\ now \in [day : 0 .. 6, minute : 0 .. 1439]
  BY GateAssumption
<1>2. /\ Judgement(q).filter = R!Blocking(name, now, in.runtime, in.tick)
      /\ Judgement(q).warned = R!Warnings(name, now, atrs)
      /\ Judgement(q).rejects = R!TradeabilityRejects(in, now)
  BY DEF Judgement
<1>3. q.now = now
  OBVIOUS
<1> HIDE DEF in, now, name, atrs
<1>4. in.tick.spread \in Int /\ in.tick.maxSpread \in Int /\ now.minute \in 0 .. 1439
  BY <1>1 DEF GateInput
<1>5. ASSUME R!Blocking(name, now, in.runtime, in.tick) = {}
      PROVE  R!TradeabilityRejects(in, now) \subseteq {"missing_price", "expired"}
  BY <1>4, <1>5, FilterIsStricter
<1>6. ASSUME now.minute \notin 60 .. 1314 PROVE R!Warnings(name, now, atrs) # {}
  <2>1. R!LowLiquidity(name, now.minute) \/ R!RolloverWindow(name, now.minute)
    BY <1>4, <1>6 DEF R!LowLiquidity, R!RolloverWindow
  <2>2. "low_liquidity" \in R!Warnings(name, now, atrs) \/ "rollover" \in R!Warnings(name, now, atrs)
    BY <2>1 DEF R!Warnings
  <2> QED
    BY <2>2
<1> QED
  BY <1>2, <1>3, <1>5, <1>6

\* What the filter of the analysis lets pass, the gate of the plan does not stop for the
\* market's sake, and the night is never silent (evaluateMarketFilters,
\* collectTradeabilityRejects).
THEOREM FilterIsTheStricter == DecisionSpec => []FilterImpliesGate
<1>1. DecisionInv => FilterImpliesGate
  <2> SUFFICES ASSUME DecisionInv, Answered("gate") PROVE FilterImpliesGate
    BY SMTT(60) DEF FilterImpliesGate
  <2>1. answer = Judgement(question) /\ question \in Gates
    BY DEF DecisionInv, Answered
  <2>2. /\ Judgement(question).filter = {} => Judgement(question).rejects \subseteq {"missing_price", "expired"}
        /\ question.now.minute \notin 60 .. 1314 => Judgement(question).warned # {}
    BY SMTT(60), <2>1, FilterJudges
  <2> QED
    BY SMTT(60), <2>1, <2>2 DEF FilterImpliesGate
<1> QED
  BY <1>1, DecisionsHold, PTL

\* A set of natural numbers has a least one.
LEMMA LeastOfSome ==
  ASSUME NEW Some, Some \subseteq Nat, Some # {}
  PROVE  Min(Some) \in Some /\ \A j \in Some : Min(Some) <= j
<1> DEFINE Before == OpToRel(<, Nat)
<1>1. IsWellFoundedOn(Before, Nat)
  BY NatLessThanWellFounded
<1>2. \A x, y \in Some : <<y, x>> \in Before <=> y < x
  BY DEF OpToRel
<1> HIDE DEF Before
<1>3. PICK x \in Some : \A y \in Some : ~(<<y, x>> \in Before)
  BY <1>1, WFMin
<1>4. \A y \in Some : ~(y < x)
  BY <1>2, <1>3
<1>5. \A y \in Some : x <= y
  BY <1>4
<1> QED
  BY <1>5 DEF Min

\* What the smallest of the positive limits is: a limit, and no more than any positive one.
LEMMA SmallestLimit ==
  ASSUME NEW values, values \subseteq Int, R!MinPositive(values) >= 1
  PROVE  /\ R!MinPositive(values) \in values
         /\ \A v \in values : v > 0 => R!MinPositive(values) <= v
<1> DEFINE positive == {v \in values : v > 0}
<1>1. positive # {}
  BY DEF R!MinPositive
<1>2. ASSUME NEW v \in positive PROVE v \in Nat
  BY <1>2
<1>3. R!MinPositive(values) = Min(positive)
  BY <1>1 DEF R!MinPositive, R!Min, Min
<1> HIDE DEF positive
<1>4. Min(positive) \in positive /\ \A j \in positive : Min(positive) <= j
  BY <1>1, <1>2, LeastOfSome
<1> QED
  BY <1>3, <1>4 DEF positive

\* The least of the limits that are set is a number.
LEMMA MinPositiveIsInt ==
  ASSUME NEW values, values \subseteq Int
  PROVE  R!MinPositive(values) \in Int
<1> DEFINE positive == {v \in values : v > 0}
<1>1. R!MinPositive(values) = IF positive = {} THEN 0 ELSE Min(positive)
  BY DEF R!MinPositive, R!Min, Min
<1>2. ASSUME NEW v \in positive PROVE v \in Nat
  BY <1>2
<1> HIDE DEF positive
<1>3. positive # {} => Min(positive) \in positive
  BY <1>2, LeastOfSome
<1> QED
  BY <1>1, <1>2, <1>3

\* A quotient of what is not positive is not positive.
LEMMA NothingToShare ==
  ASSUME NEW n \in Int, NEW d \in Int, d > 0, n <= 0
  PROVE  n \div d \in Int /\ n \div d <= 0
<1> DEFINE q == n \div d
<1>1. q \in Int /\ d * q <= n
  BY Z3
<1> HIDE DEF q
<1>2. ASSUME q >= 1 PROVE FALSE
  <2>1. d * q >= d
    BY <1>1, <1>2
  <2> QED
    BY <1>1, <2>1
<1> QED
  BY <1>1, <1>2 DEF q

\* The row of a symbol: whatever the name, it bounds the stop and the lots.
LEMMA RowOfSymbol ==
  ASSUME NEW name
  PROVE  LET meta == R!MetadataFor(name) IN
           /\ meta.value \in Nat /\ meta.value > 0
           /\ meta.maxLot \in Nat /\ meta.maxLot > 0 /\ meta.minStop \in Nat /\ meta.minStop > 0 /\ meta.maxStop \in Nat
<1> DEFINE s == IF R!BaseSymbol(name) \in DOMAIN R!Metadata THEN R!BaseSymbol(name) ELSE "XAUUSD"
<1>1. DOMAIN R!Metadata = {"GBPUSD", "USDCAD", "EURJPY", "GBPJPY", "USDJPY", "US100CASH", "USOILCASH", "UKOILCASH", "XAUUSD"}
  BY DEF R!Metadata
<1>2. s \in DOMAIN R!Metadata
  BY <1>1
<1>3. R!MetadataFor(name) = R!Metadata[s]
  BY DEF R!MetadataFor
<1> HIDE DEF s
<1>4. R!Metadata[s] \in [value : {1, 10, 1000}, maxLot : {2000, 3000, 5000}, minStop : {2, 3, 5, 10},
                          maxStop : {500, 600, 700, 800, 1000, 3000}]
  BY <1>1, <1>2 DEF R!Metadata
<1> QED
  BY <1>3, <1>4

\* A plan that is sized: what the gate found in order, and the lots it gives.
LEMMA SizedPlan ==
  ASSUME NEW in, NEW now, R!EvaluateRiskGate(in, now).reasons = {"lots"}
  PROVE  LET meta == R!MetadataFor(in.plan.symbol) IN
           /\ R!PlanRejects(in, meta) = {} /\ R!PositionConflicts(in) = {}
           /\ R!EvaluateRiskGate(in, now).lots
                = R!MinPositive({in.plan.lots, meta.maxLot, R!RiskLots(in, meta), R!MarginLots(in, meta)})
           /\ ~(R!EvaluateRiskGate(in, now).lots < 1)
<1> DEFINE meta == R!MetadataFor(in.plan.symbol)
           lots == R!MinPositive({in.plan.lots, meta.maxLot, R!RiskLots(in, meta), R!MarginLots(in, meta)})
           market == R!TradeabilityRejects(in, now)
           unfit == R!PlanRejects(in, meta)
           crowd == R!PositionConflicts(in)
           v == R!EvaluateRiskGate(in, now)
<1>1. "lots" \notin market
  BY DEF R!TradeabilityRejects
<1>2. "lots" \notin unfit
  BY DEF R!PlanRejects
<1>3. "lots" \notin crowd
  BY DEF R!PositionConflicts
<1>4. \/ v.reasons \in {{"non_executable"}, market, {"audit_safe"}, {"below_min"}}
      \/ unfit # {} /\ v.reasons = unfit
      \/ crowd # {} /\ v.reasons = crowd
      \/ unfit = {} /\ crowd = {} /\ v.lots = lots /\ ~(lots < 1)
  <2> HIDE DEF meta, lots, market, unfit, crowd
  <2> QED
    BY DEF R!EvaluateRiskGate, meta, lots, market, unfit, crowd
<1>5. "lots" \in v.reasons
  OBVIOUS
<1> HIDE DEF meta, lots, market, unfit, crowd, v
<1>6. unfit = {} /\ crowd = {} /\ v.lots = lots /\ ~(lots < 1)
  BY <1>1, <1>2, <1>3, <1>4, <1>5
<1> QED
  BY <1>6 DEF meta, lots, market, unfit, crowd, v

\* The lots of a sized plan lose at most 2% of the equity at its stop, and its margin is
\* at most half of what is free.
LEMMA LotsAreCarried ==
  ASSUME NEW in \in GateInput, NEW meta, NEW entry, NEW gap, NEW lots,
         meta.value \in Nat, meta.value > 0, meta.maxLot \in Nat,
         entry \in Int, entry > 0, gap \in Int, gap > 0, in.freeMargin > 0,
         entry = R!EntryPrice(in.tick, in.plan.side), gap = R!Gap(entry, in.plan.sl),
         lots = R!MinPositive({in.plan.lots, meta.maxLot, R!RiskLots(in, meta), R!MarginLots(in, meta)}),
         in.plan.lots > 0, meta.maxLot > 0, ~(lots < 1)
  PROVE  LET atStop == (2 * in.equity) \div (100 * gap * meta.value)
             atMargin == (in.leverage * in.freeMargin) \div (2 * entry * meta.value)
         IN /\ lots \in Nat /\ lots >= 1 /\ lots <= in.plan.lots /\ lots <= meta.maxLot
            /\ atStop >= 1 => lots <= atStop
            /\ atMargin >= 1 => lots <= atMargin
<1> DEFINE perPoint == 100 * gap * meta.value
           perLot == 2 * entry * meta.value
           atStop == (2 * in.equity) \div perPoint
           atMargin == (in.leverage * in.freeMargin) \div perLot
           risk == R!RiskLots(in, meta)
           margin == R!MarginLots(in, meta)
           asked == in.plan.lots
           limits == {asked, meta.maxLot, risk, margin}
           equity == in.equity
           leverage == in.leverage
           free == in.freeMargin
           lost == 2 * equity
           value == meta.value
<1>1. /\ equity \in Int /\ leverage \in Int /\ free \in Int /\ asked \in Int
      /\ free > 0 /\ asked > 0 /\ value \in Int /\ value > 0
  BY DEF GateInput
<1>2. risk = IF equity <= 0 THEN 0 ELSE atStop
  BY DEF R!RiskLots
<1>3. margin = ((IF leverage > 0 THEN leverage ELSE 1) * free) \div perLot
  BY <1>1 DEF R!MarginLots, free, value, leverage
<1>4. lots = R!MinPositive(limits)
  OBVIOUS
<1> HIDE DEF equity, leverage, free, asked, risk, margin, value, lost
<1>5. gap * value \in Int /\ gap * value > 0 /\ entry * value \in Int /\ entry * value > 0
  BY <1>1
<1>6. perPoint \in Int /\ perPoint > 0 /\ perLot \in Int /\ perLot > 0
  <2>1. perPoint = 100 * (gap * value) /\ perLot = 2 * (entry * value)
    BY <1>1 DEF value
  <2> QED
    BY <1>5, <2>1
<1> HIDE DEF perPoint, perLot
<1>7. atStop \in Int /\ (equity <= 0 => atStop <= 0)
  <2>1. lost \in Int /\ (equity <= 0 => lost <= 0) /\ atStop = lost \div perPoint
    BY <1>1 DEF equity, lost
  <2>2. lost \div perPoint \in Int
    BY <1>6, <2>1
  <2> QED
    BY <1>6, <2>1, <2>2, NothingToShare
<1>8. atMargin \in Int /\ (leverage <= 0 => atMargin <= 0) /\ margin \in Int /\ (leverage > 0 => margin = atMargin)
  <2> DEFINE carried == leverage * free
             used == (IF leverage > 0 THEN leverage ELSE 1) * free
  <2>1. carried \in Int /\ (leverage <= 0 => carried <= 0) /\ used \in Int /\ (leverage > 0 => used = carried)
    BY <1>1
  <2>2. atMargin = carried \div perLot /\ margin = used \div perLot
    BY <1>3 DEF leverage, free
  <2> HIDE DEF carried, used, atMargin
  <2>3. carried \div perLot \in Int /\ used \div perLot \in Int
    BY <1>6, <2>1
  <2> QED
    BY <1>6, <2>1, <2>2, <2>3, NothingToShare
<1> HIDE DEF atStop, atMargin
<1>9. limits \subseteq Int /\ lots \in Int
  <2>1. limits \subseteq Int
    BY <1>1, <1>2, <1>7, <1>8
  <2> QED
    BY <1>4, <2>1, MinPositiveIsInt
<1> HIDE DEF limits
<1>10. lots \in limits /\ \A v \in limits : v > 0 => lots <= v
  <2>1. R!MinPositive(limits) >= 1
    BY <1>4, <1>9
  <2> QED
    BY <1>4, <1>9, <2>1, SmallestLimit
<1>11. lots <= asked /\ lots <= meta.maxLot /\ (risk > 0 => lots <= risk) /\ (margin > 0 => lots <= margin)
  BY <1>1, <1>10 DEF limits
<1>12. (atStop >= 1 => lots <= atStop) /\ (atMargin >= 1 => lots <= atMargin)
  BY <1>1, <1>2, <1>7, <1>8, <1>11
<1> QED
  BY <1>9, <1>11, <1>12 DEF asked, atStop, atMargin, perPoint, perLot

\* What a sized plan is.
SizedSoundly(q) ==
  LET in == q.in
      meta == R!MetadataFor(in.plan.symbol)
      entry == R!EntryPrice(in.tick, in.plan.side)
      gap == R!Gap(entry, in.plan.sl)
      lots == Judgement(q).verdict.lots
  IN /\ in.plan.side # "none" => Gain(in.plan.side, entry, in.plan.sl) < 0
     /\ gap \in meta.minStop .. meta.maxStop
     /\ lots >= 1 /\ lots <= in.plan.lots /\ lots <= meta.maxLot
     /\ LET atStop == (2 * in.equity) \div (100 * gap * meta.value)
            atMargin == (in.leverage * in.freeMargin) \div (2 * entry * meta.value)
        IN /\ atStop >= 1 => lots <= atStop
           /\ atMargin >= 1 => lots <= atMargin
     /\ \A p \in in.positions :
          (p.symbol = "none" \/ R!BaseSymbol(p.symbol) = R!BaseSymbol(in.plan.symbol))
            /\ p.lots > 0 /\ p.strategy \in {"none", in.strategy} =>
          /\ p.side = in.plan.side /\ p.side # "none" => in.allowAdd
          /\ {p.side, in.plan.side} = {"buy", "sell"} => in.allowHedge

\* The entry of a plan is a number.
LEMMA EntryIsPrice ==
  ASSUME NEW in \in GateInput
  PROVE  R!EntryPrice(in.tick, in.plan.side) \in Int
<1> DEFINE bid == in.tick.bid
           ask == in.tick.ask
           side == in.plan.side
<1>1. bid \in Int /\ ask \in Int
  BY DEF GateInput
<1>2. R!EntryPrice(in.tick, side) \in {bid, ask, (bid + ask) \div 2, 0}
  BY DEF R!EntryPrice
<1> HIDE DEF bid, ask
<1>3. (bid + ask) \div 2 \in Int
  BY <1>1
<1> QED
  BY <1>1, <1>2, <1>3

\* No position of the symbol that the plan meets is added to or hedged without leave.
LEMMA CrowdIsAllowed ==
  ASSUME NEW in \in GateInput, R!PositionConflicts(in) = {}, NEW p \in in.positions,
         p.symbol = "none" \/ R!BaseSymbol(p.symbol) = R!BaseSymbol(in.plan.symbol),
         p.lots > 0, p.strategy \in {"none", in.strategy}
  PROVE  /\ p.side = in.plan.side /\ p.side # "none" => in.allowAdd
         /\ {p.side, in.plan.side} = {"buy", "sell"} => in.allowHedge
<1> DEFINE side == in.plan.side
           own == p.side
<1>1. side \in {"buy", "sell", "none"}
  BY DEF GateInput
<1>2. own \in {"buy", "sell"} /\ side # "none" => p \in R!Competitors(in)
  BY DEF R!Competitors
<1>3. ~in.allowAdd => \A c \in R!Competitors(in) : c.side # side
  <2>1. "add" \notin R!PositionConflicts(in)
    OBVIOUS
  <2> QED
    BY <2>1 DEF R!PositionConflicts
<1>4. ~in.allowHedge => \A c \in R!Competitors(in) : c.side = side
  <2>1. "hedge" \notin R!PositionConflicts(in)
    OBVIOUS
  <2> QED
    BY <2>1 DEF R!PositionConflicts
<1> HIDE DEF side, own
<1>5. {own, side} = {"buy", "sell"} => own \in {"buy", "sell"} /\ side # "none" /\ own # side
  <2> SUFFICES ASSUME {own, side} = {"buy", "sell"} PROVE own \in {"buy", "sell"} /\ side # "none" /\ own # side
    OBVIOUS
  <2>1. "buy" \in {own, side} /\ "sell" \in {own, side} /\ own \in {"buy", "sell"} /\ side \in {"buy", "sell"}
    OBVIOUS
  <2> QED
    BY <2>1
<1>6. own = side /\ own # "none" => in.allowAdd
  <2> SUFFICES ASSUME own = side, own # "none", ~in.allowAdd PROVE FALSE
    OBVIOUS
  <2> QED
    BY <1>1, <1>2, <1>3 DEF own
<1>7. {own, side} = {"buy", "sell"} => in.allowHedge
  BY <1>2, <1>4, <1>5 DEF own
<1> QED
  BY <1>6, <1>7 DEF own, side

\* Whatever the question, lots that the gate sized are within the equity's and the margin's limits.
LEMMA SizedIsSound ==
  ASSUME NEW q \in Gates, Judgement(q).verdict.reasons = {"lots"}
  PROVE  SizedSoundly(q)
<1> DEFINE in == q.in
           now == q.now
           name == in.plan.symbol
           side == in.plan.side
           meta == R!MetadataFor(name)
           entry == R!EntryPrice(in.tick, side)
           sl == in.plan.sl
           gap == R!Gap(entry, sl)
           asked == in.plan.lots
           lots == Judgement(q).verdict.lots
           unfit == R!PlanRejects(in, meta)
           atStop == (2 * in.equity) \div (100 * gap * meta.value)
           atMargin == (in.leverage * in.freeMargin) \div (2 * entry * meta.value)
<1>1. in \in GateInput
  BY GateAssumption
<1>2. Judgement(q).verdict = R!EvaluateRiskGate(in, now)
  BY DEF Judgement
<1> HIDE DEF in, now
<1>3. R!EvaluateRiskGate(in, now).reasons = {"lots"}
  BY <1>2
<1>4. /\ unfit = {} /\ R!PositionConflicts(in) = {}
      /\ lots = R!MinPositive({asked, meta.maxLot, R!RiskLots(in, meta), R!MarginLots(in, meta)})
      /\ ~(lots < 1)
  BY <1>2, <1>3, SizedPlan
<1>5. entry \in Int
  BY <1>1, EntryIsPrice
<1>6. /\ meta.value \in Nat /\ meta.value > 0 /\ meta.maxLot \in Nat /\ meta.maxLot > 0
      /\ meta.minStop \in Nat /\ meta.minStop > 0 /\ meta.maxStop \in Nat
  BY RowOfSymbol
<1>7. sl \in Int /\ asked \in Int /\ in.freeMargin \in Int /\ side \in {"buy", "sell", "none"}
  BY <1>1 DEF GateInput
<1>8. gap \in Int
  BY <1>5, <1>7 DEF R!Gap
<1>9. /\ ~(entry <= 0) /\ ~(sl <= 0) /\ ~(asked <= 0) /\ ~(in.freeMargin <= 0)
      /\ ~(gap < meta.minStop) /\ ~(gap > meta.maxStop)
      /\ side = "buy" => ~(sl >= entry)
      /\ side = "sell" => ~(sl <= entry)
  <2> HIDE DEF meta, gap
  <2>1. /\ "entry.missing" \notin unfit /\ "sl.missing" \notin unfit /\ "lots.missing" \notin unfit
        /\ "margin.missing" \notin unfit
    BY <1>4
  <2>2. ~(entry <= 0) /\ ~(sl <= 0) /\ ~(asked <= 0) /\ ~(in.freeMargin <= 0)
    BY <2>1 DEF R!PlanRejects
  <2>3. entry > 0 /\ sl > 0
    BY <1>5, <1>7, <2>2
  <2>4. "sl.too_close" \notin unfit /\ "sl.too_far" \notin unfit /\ "sl.wrong_side" \notin unfit
    BY <1>4
  <2>5. ~(gap < meta.minStop) /\ ~(gap > meta.maxStop)
    BY <2>3, <2>4 DEF R!PlanRejects, gap
  <2>6. (side = "buy" => ~(sl >= entry)) /\ (side = "sell" => ~(sl <= entry))
    BY <2>3, <2>4 DEF R!PlanRejects
  <2> QED
    BY <2>2, <2>5, <2>6
<1>10. gap \in meta.minStop .. meta.maxStop /\ gap > 0 /\ entry > 0 /\ asked > 0 /\ in.freeMargin > 0
  BY <1>5, <1>6, <1>7, <1>8, <1>9
<1>11. side # "none" => Gain(side, entry, sl) < 0
  BY <1>5, <1>7, <1>9 DEF Gain
<1>12. /\ lots >= 1 /\ lots <= asked /\ lots <= meta.maxLot
       /\ atStop >= 1 => lots <= atStop
       /\ atMargin >= 1 => lots <= atMargin
  <2>1. gap = R!Gap(entry, in.plan.sl) /\ entry = R!EntryPrice(in.tick, in.plan.side)
    OBVIOUS
  <2> HIDE DEF meta, entry, gap, lots
  <2> QED
    BY <1>1, <1>4, <1>5, <1>6, <1>8, <1>10, <2>1, LotsAreCarried
<1>13. ASSUME NEW p \in in.positions,
              p.symbol = "none" \/ R!BaseSymbol(p.symbol) = R!BaseSymbol(name),
              p.lots > 0, p.strategy \in {"none", in.strategy}
       PROVE  /\ p.side = side /\ p.side # "none" => in.allowAdd
              /\ {p.side, side} = {"buy", "sell"} => in.allowHedge
  BY <1>1, <1>4, <1>13, CrowdIsAllowed
<1>14. q.in = in
  BY DEF in
<1> HIDE DEF meta, entry, gap, lots
<1> QED
  BY <1>10, <1>11, <1>12, <1>13, <1>14 DEF SizedSoundly, meta, entry, gap, lots

\* Whatever the symbol, the market and the account: a plan the gate sizes has its stop on the
\* losing side at a distance the symbol allows, loses at most 2% of the equity there, uses at
\* most half of the margin and neither adds nor hedges without leave (evaluateRiskGate).
THEOREM AcceptedIsSound == DecisionSpec => []AcceptedPlanIsSound
<1>1. DecisionInv => AcceptedPlanIsSound
  <2> SUFFICES ASSUME DecisionInv, Answered("gate"), answer.verdict.reasons = {"lots"}
               PROVE  AcceptedPlanIsSound
    BY DEF AcceptedPlanIsSound
  <2>1. answer = Judgement(question) /\ question \in Gates
    BY DEF DecisionInv, Answered
  <2>2. SizedSoundly(question)
    BY <2>1, SizedIsSound
  <2>3. SizedSoundly(question) => AcceptedPlanIsSound
    BY <2>1 DEF SizedSoundly, AcceptedPlanIsSound
  <2> QED
    BY <2>2, <2>3
<1> QED
  BY <1>1, DecisionsHold, PTL

-----------------------------------------------------------------------------
(* Sums over finite sets: a fold has the equation it is written with, and what holds of *)
(* the empty set and survives each element holds of the whole.                          *)

\* What a fold takes out of a set first.
Taken(s) == CHOOSE x \in s : TRUE

\* A set of natural numbers with zero and every successor has them all.
LEMMA AllNumbers ==
  ASSUME NEW Good, 0 \in Good, \A n \in Nat : n \in Good => n + 1 \in Good
  PROVE  Nat \subseteq Good
<1> DEFINE bad == {n \in Nat : n \notin Good}
           k == Min(bad)
<1> SUFFICES ASSUME bad # {} PROVE FALSE
  OBVIOUS
<1>1. bad \subseteq Nat
  OBVIOUS
<1> HIDE DEF bad
<1>2. k \in bad /\ \A j \in bad : k <= j
  BY <1>1, LeastOfSome
<1> HIDE DEF k
<1>3. k \in Nat /\ k # 0 /\ k \notin Good
  BY <1>2 DEF bad
<1>4. k - 1 \in Nat /\ ~(k <= k - 1)
  BY <1>3
<1>5. k - 1 \in Good
  BY <1>2, <1>4 DEF bad
<1>6. k - 1 + 1 = k
  BY <1>3
<1> QED
  BY <1>3, <1>4, <1>5, <1>6

\* Taking an element out of a finite set.
LEMMA Fewer ==
  ASSUME NEW s, IsFiniteSet(s), s # {}
  PROVE  /\ Taken(s) \in s /\ IsFiniteSet(s \ {Taken(s)})
         /\ Cardinality(s) \in Nat \ {0} /\ Cardinality(s \ {Taken(s)}) = Cardinality(s) - 1
<1>1. Taken(s) \in s
  BY DEF Taken
<1>2. Cardinality(s) \in Nat /\ Cardinality(s) # 0
  BY FS_CardinalityType, FS_EmptySet
<1> QED
  BY <1>1, <1>2, FS_RemoveElement

\* A property of the subsets of a finite set that the empty set has, and every set that has
\* it without the element taken first, is one of them all.
LEMMA AllSubsets ==
  ASSUME NEW Universe, IsFiniteSet(Universe), NEW Good, {} \in Good,
         \A s \in SUBSET Universe : s # {} /\ s \ {Taken(s)} \in Good => s \in Good
  PROVE  SUBSET Universe \subseteq Good
<1> DEFINE Done == {n \in Nat : \A s \in SUBSET Universe : Cardinality(s) = n => s \in Good}
<1>0. \A s \in SUBSET Universe : IsFiniteSet(s)
  BY FS_Subset
<1>1. 0 \in Done
  BY <1>0, FS_EmptySet
<1>2. ASSUME NEW n \in Nat, n \in Done PROVE n + 1 \in Done
  <2> SUFFICES ASSUME NEW s \in SUBSET Universe, Cardinality(s) = n + 1 PROVE s \in Good
    OBVIOUS
  <2>1. s # {}
    BY FS_EmptySet
  <2>2. Cardinality(s \ {Taken(s)}) = n
    <3>1. IsFiniteSet(s)
      BY <1>0
    <3>2. Cardinality(s \ {Taken(s)}) = Cardinality(s) - 1
      BY <2>1, <3>1, Fewer
    <3> QED
      BY <3>2
  <2> QED
    BY <1>2, <2>1, <2>2
<1> HIDE DEF Done
<1>3. Nat \subseteq Done
  BY <1>1, <1>2, AllNumbers
<1> QED
  BY <1>0, <1>3, FS_CardinalityType DEF Done

\* f is the fold of the weights over the subsets of a set.
SumsTo(f, w, Universe) == f = [s \in SUBSET Universe |-> IF s = {} THEN 0 ELSE w[Taken(s)] + f[s \ {Taken(s)}]]

\* A fold over a finite set is defined: there is a function with its equation.
LEMMA SumIsDefined ==
  ASSUME NEW Universe, IsFiniteSet(Universe), NEW w \in [Universe -> Int]
  PROVE  \E f : SumsTo(f, w, Universe)
<1> DEFINE Small(n) == {s \in SUBSET Universe : Cardinality(s) <= n}
           Step(g, s) == IF s = {} THEN 0 ELSE w[Taken(s)] + g[s \ {Taken(s)}]
           Done == {n \in Nat : \E g : g = [s \in Small(n) |-> Step(g, s)]}
<1>0. \A s \in SUBSET Universe : IsFiniteSet(s) /\ Cardinality(s) \in Nat
  BY FS_Subset, FS_CardinalityType
<1>1. 0 \in Done
  <2> DEFINE g == [s \in Small(0) |-> 0]
  <2>1. \A s \in Small(0) : s = {}
    BY <1>0, FS_EmptySet
  <2>2. g = [s \in Small(0) |-> Step(g, s)]
    BY <2>1
  <2> QED
    BY <2>2
<1>2. ASSUME NEW n \in Nat, n \in Done PROVE n + 1 \in Done
  <2>1. PICK g : g = [s \in Small(n) |-> Step(g, s)]
    BY <1>2
  <2> DEFINE h == [s \in Small(n + 1) |-> Step(g, s)]
  <2>2. ASSUME NEW s \in Small(n + 1) PROVE h[s] = Step(h, s)
    <3>1. CASE s = {}
      BY <3>1
    <3>2. CASE s # {}
      <4> DEFINE t == s \ {Taken(s)}
      <4>1. t \in Small(n) /\ t \in Small(n + 1)
        BY <1>0, <2>2, <3>2, Fewer
      <4>2. g[t] = Step(g, t)
        BY <2>1, <4>1
      <4>3. h[t] = Step(g, t)
        BY <4>1
      <4> QED
        BY <2>2, <3>2, <4>2, <4>3
    <3> QED
      BY <3>1, <3>2
  <2>3. h = [s \in Small(n + 1) |-> Step(h, s)]
    BY <2>2
  <2> HIDE DEF h
  <2>4. n + 1 \in Nat
    OBVIOUS
  <2> HIDE DEF Small, Step
  <2> QED
    BY <2>3, <2>4
<1> HIDE DEF Done
<1>3. Nat \subseteq Done
  BY <1>1, <1>2, AllNumbers
<1>4. Cardinality(Universe) \in Nat
  BY FS_CardinalityType
<1>5. PICK g : g = [s \in Small(Cardinality(Universe)) |-> Step(g, s)]
  BY <1>3, <1>4 DEF Done
<1>6. Small(Cardinality(Universe)) = SUBSET Universe
  BY FS_Subset
<1> QED
  BY <1>5, <1>6 DEF SumsTo


\* The lots of positions are positive, and their cost lies between what all would have cost
\* at a price below all of theirs and at one above.
LEMMA AverageIsBetween ==
  ASSUME NEW group, IsFiniteSet(group), group \subseteq HeldType, NEW v \in Int
  PROVE  /\ Lots(group) \in Nat /\ (group # {} => Lots(group) > 0)
         /\ Cost(group) \in Int
         /\ (\A q \in group : q.open >= v) => Cost(group) >= Lots(group) * v
         /\ (\A q \in group : q.open <= v) => Cost(group) <= Lots(group) * v
<1> DEFINE size == CHOOSE f : f = [s \in SUBSET group |-> IF s = {} THEN 0 ELSE Taken(s).lots + f[s \ {Taken(s)}]]
           cost == CHOOSE f : f = [s \in SUBSET group |-> IF s = {} THEN 0 ELSE Taken(s).lots * Taken(s).open + f[s \ {Taken(s)}]]
<1>1. Lots(group) = size[group] /\ Cost(group) = cost[group]
  BY DEF Lots, Cost, MapThenSumSet, MapThenFoldSet, Taken
<1>2. \A q \in group : q.lots \in Nat \ {0} /\ q.open \in Int
  BY DEF HeldType
<1>3. \A s \in SUBSET group : s # {} => Taken(s) \in group
  BY DEF Taken
<1>4. size = [s \in SUBSET group |-> IF s = {} THEN 0 ELSE Taken(s).lots + size[s \ {Taken(s)}]]
  <2> DEFINE w == [q \in group |-> q.lots]
  <2>1. w \in [group -> Int]
    BY <1>2
  <2>2. PICK f : SumsTo(f, w, group)
    <3> HIDE DEF w
    <3> QED
      BY <2>1, SumIsDefined
  <2>3. f = [s \in SUBSET group |-> IF s = {} THEN 0 ELSE Taken(s).lots + f[s \ {Taken(s)}]]
    BY <1>3, <2>2 DEF SumsTo
  <2> QED
    BY <2>3
<1>5. cost = [s \in SUBSET group |-> IF s = {} THEN 0 ELSE Taken(s).lots * Taken(s).open + cost[s \ {Taken(s)}]]
  <2> DEFINE w == [q \in group |-> q.lots * q.open]
  <2>1. w \in [group -> Int]
    BY <1>2
  <2>2. PICK f : SumsTo(f, w, group)
    <3> HIDE DEF w
    <3> QED
      BY <2>1, SumIsDefined
  <2>3. f = [s \in SUBSET group |-> IF s = {} THEN 0 ELSE Taken(s).lots * Taken(s).open + f[s \ {Taken(s)}]]
    BY <1>3, <2>2 DEF SumsTo
  <2> QED
    BY <2>3
<1> DEFINE Good == {s \in SUBSET group :
                      /\ size[s] \in Nat /\ (s # {} => size[s] > 0)
                      /\ cost[s] \in Int
                      /\ (\A q \in s : q.open >= v) => cost[s] >= size[s] * v
                      /\ (\A q \in s : q.open <= v) => cost[s] <= size[s] * v}
<1> HIDE DEF size, cost
<1>6. {} \in Good
  <2>1. size[{}] = 0 /\ cost[{}] = 0
    BY <1>4, <1>5
  <2> QED
    BY <2>1
<1>7. ASSUME NEW s \in SUBSET group, s # {}, s \ {Taken(s)} \in Good PROVE s \in Good
  <2> DEFINE x == Taken(s)
             n == x.lots
             o == x.open
             less == size[s \ {Taken(s)}]
             paid == cost[s \ {Taken(s)}]
  <2>1. size[s] = n + less /\ cost[s] = n * o + paid
    BY <1>4, <1>5, <1>7
  <2>2. x \in s /\ n \in Nat \ {0} /\ o \in Int
    BY <1>2, <1>3, <1>7 DEF Taken
  <2>3. less \in Nat /\ paid \in Int
    BY <1>7
  <2>4. (\A q \in s : q.open >= v) => o >= v /\ paid >= less * v
    BY <1>7, <2>2
  <2>5. (\A q \in s : q.open <= v) => o <= v /\ paid <= less * v
    BY <1>7, <2>2
  <2> HIDE DEF x, n, o, less, paid
  <2>6. n * o \in Int /\ n * v \in Int /\ less * v \in Int
    BY <2>2, <2>3
  <2>7. (n + less) * v = n * v + less * v
    BY <2>2, <2>3
  <2>8. (o >= v => n * o >= n * v) /\ (o <= v => n * o <= n * v)
    BY <2>2
  <2>9. size[s] \in Nat /\ size[s] > 0 /\ cost[s] \in Int
    BY <2>1, <2>2, <2>3, <2>6
  <2>10. (\A q \in s : q.open >= v) => cost[s] >= size[s] * v
    BY <2>1, <2>3, <2>4, <2>6, <2>7, <2>8
  <2>11. (\A q \in s : q.open <= v) => cost[s] <= size[s] * v
    BY <2>1, <2>3, <2>5, <2>6, <2>7, <2>8
  <2> QED
    BY <1>7, <2>9, <2>10, <2>11
<1> HIDE DEF Good
<1>8. group \in Good
  BY <1>6, <1>7, AllSubsets
<1> QED
  BY <1>1, <1>8 DEF Good

-----------------------------------------------------------------------------
(* The intake of an AI result. *)

\* The newest ticket of some positions is that of one of them.
LEMMA NewestIsHeld ==
  ASSUME NEW group, IsFiniteSet(group), group \subseteq HeldType, group # {}
  PROVE  \E q \in group : q.ticket = Max({p.ticket : p \in group})
<1> DEFINE Good == {s \in SUBSET group : s # {} => \E x \in s : \A y \in s : x.ticket >= y.ticket}
<1>1. \A q \in group : q.ticket \in Int
  BY DEF HeldType
<1>2. {} \in Good
  OBVIOUS
<1>3. ASSUME NEW s \in SUBSET group, s # {}, s \ {Taken(s)} \in Good PROVE s \in Good
  <2>1. Taken(s) \in s
    BY <1>3 DEF Taken
  <2>2. CASE s \ {Taken(s)} = {}
    <3>1. \A y \in s : Taken(s).ticket >= y.ticket
      BY <1>1, <2>1, <2>2
    <3> QED
      BY <2>1, <3>1
  <2>3. CASE s \ {Taken(s)} # {}
    <3>1. PICK x \in s \ {Taken(s)} : \A y \in s \ {Taken(s)} : x.ticket >= y.ticket
      BY <1>3, <2>3
    <3>2. x.ticket \in Int /\ Taken(s).ticket \in Int /\ \A y \in s : y.ticket \in Int
      BY <1>1, <2>1
    <3>3. CASE x.ticket >= Taken(s).ticket
      <4>1. \A y \in s : x.ticket >= y.ticket
        BY <3>1, <3>3
      <4> QED
        BY <4>1
    <3>4. CASE ~(x.ticket >= Taken(s).ticket)
      <4>1. \A y \in s : Taken(s).ticket >= y.ticket
        BY <3>1, <3>2, <3>4
      <4> QED
        BY <2>1, <4>1
    <3> QED
      BY <3>3, <3>4
  <2> QED
    BY <2>2, <2>3
<1> HIDE DEF Good
<1>4. group \in Good
  BY <1>2, <1>3, AllSubsets
<1>5. PICK x \in group : \A y \in group : x.ticket >= y.ticket
  BY <1>4 DEF Good
<1>6. \A p \in group : p.ticket \in Int
  BY <1>1
<1> DEFINE tickets == {p.ticket : p \in group}
<1>7. x.ticket \in tickets /\ \A n \in tickets : n \in Int /\ x.ticket >= n
  BY <1>5, <1>6
<1> HIDE DEF tickets
<1>8. Max(tickets) \in tickets
  BY <1>7 DEF Max
<1> QED
  BY <1>8 DEF tickets

\* What half an ATR of spacing means: at least the ATR between an entry and some position.
LEMMA ApartFromOne ==
  ASSUME NEW group, IsFiniteSet(group), group \subseteq HeldType, group # {},
         NEW entry \in Int, NEW unit \in Nat \ {0},
         Distance(Lots(group) * entry, Cost(group)) >= unit * Lots(group)
  PROVE  \E q \in group : Distance(q.open, entry) >= unit
<1> SUFFICES ASSUME \A q \in group : ~(Distance(q.open, entry) >= unit) PROVE FALSE
  OBVIOUS
<1> DEFINE low == entry - unit + 1
           high == entry + unit - 1
           n == Lots(group)
           c == Cost(group)
<1>1. \A q \in group : q.open \in Int
  BY DEF HeldType
<1>2. \A q \in group : q.open >= low /\ q.open <= high
  BY <1>1 DEF Distance
<1>3. low \in Int /\ high \in Int
  OBVIOUS
<1> HIDE DEF low, high
<1>4. /\ n \in Nat /\ n > 0 /\ c \in Int
      /\ c >= n * low /\ c <= n * high
  BY <1>2, <1>3, AverageIsBetween
<1> HIDE DEF n, c
<1>5. n * low = n * entry - n * unit + n /\ n * high = n * entry + n * unit - n
  BY <1>4 DEF low, high
<1>6. n * entry \in Int /\ n * unit \in Int /\ unit * n = n * unit
  BY <1>4
<1>7. Distance(n * entry, c) >= n * unit
  BY <1>6 DEF n, c
<1> QED
  BY <1>4, <1>5, <1>6, <1>7 DEF Distance

\* What positions won together, one of them won; what they lost, one of them did not win.
LEMMA WonTogether ==
  ASSUME NEW group, IsFiniteSet(group), group \subseteq HeldType, NEW side \in {"buy", "sell"},
         \A q \in group : q.side = side, NEW price \in Int
  PROVE  /\ Won(group, side, price) \in Int
         /\ Won(group, side, price) > 0 => \E q \in group : Gain(q.side, q.open, price) > 0
         /\ Won(group, side, price) < 0 => \E q \in group : ~(Gain(q.side, q.open, price) > 0)
<1> DEFINE n == Lots(group)
           c == Cost(group)
<1>1. \A q \in group : q.open \in Int
  BY DEF HeldType
<1>2. /\ n \in Nat /\ c \in Int
      /\ (\A q \in group : q.open >= price) => c >= n * price
      /\ (\A q \in group : q.open <= price) => c <= n * price
  BY AverageIsBetween
<1>3. Won(group, side, price) = IF side = "buy" THEN n * price - c ELSE c - n * price
  BY DEF Won, Gain
<1> HIDE DEF n, c
<1>4. n * price \in Int
  BY <1>2
<1>5. CASE side = "buy"
  <2>1. \A q \in group : Gain(q.side, q.open, price) = price - q.open
    BY <1>5 DEF Gain
  <2> QED
    BY <1>1, <1>2, <1>3, <1>4, <1>5, <2>1
<1>6. CASE side = "sell"
  <2>1. \A q \in group : Gain(q.side, q.open, price) = q.open - price
    BY <1>6 DEF Gain
  <2> QED
    BY <1>1, <1>2, <1>3, <1>4, <1>6, <2>1
<1> QED
  BY <1>5, <1>6

\* What QueuedPlanIsSound says of one order.
OrderSoundly(q, o) ==
  LET at == q.at
      p == o.plan
      fill == IF o.kind = "market" THEN ExecutionPrice(at.tick, p.side) ELSE o.order.entry
      joined == {x \in at.positions : x.symbol \in {Here, "none"} /\ x.side = p.side}
      own == {x \in joined : x.strategy \in {"ai_signal", "none"}}
      won == {x \in joined : Gain(x.side, x.open, MidPrice(at.tick)) > 0}
      verdict == Intake(q).verdict
  IN /\ p.wellFormed /\ p.account = "own" /\ p.symbol = Here /\ p.confidence \in 65 .. 100
     /\ \A price \in {fill, o.order.entry} :
          LET risk == -Gain(p.side, price, o.order.sl) IN
            /\ risk > 0 /\ Gain(p.side, price, o.order.tp1) > 0
            /\ 4 * Gain(p.side, price, o.order.tp) >= 5 * risk
     /\ o.kind # "market" => Gain(p.side, o.order.entry, ExecutionPrice(at.tick, p.side)) > 0
     /\ own # {} =>
          /\ p.add_on
          /\ \E x \in joined : Distance(x.open, o.order.entry) >= at.m30
          /\ p.add_on_type \in {"favorable", "adverse"} =>
               /\ 10 * p.max_lots <= 6 * Lots(joined)
               /\ \E x \in joined : x.ticket = o.group.parent
               /\ IF p.add_on_type = "favorable" THEN won # {} ELSE won # joined
     /\ verdict.status # "none" =>
          /\ verdict.status \in {"accepted", "clamped"} /\ ~verdict.audit
          /\ q.body.dual \/ (at.open /\ at.allowed /\ at.tick.at # 0)
          /\ q.body.dual \/ \A x \in at.positions :
               x.symbol \in {Here, "none"} /\ x.strategy \in {"ai_signal", "none"} => x.side = p.side

\* What a plan that is tried has: it is valid, and without legs it is the one that was judged.
LEMMA TriedIsValid ==
  ASSUME NEW q \in Bodies, NEW p \in PlansFor(q.body)
  PROVE  /\ p \in PlanType /\ Valid(p) /\ ~AsksToClose(q.body)
         /\ ~q.body.dual => Judged(q.body) = {p}
<1>1. q.body \in BodyType /\ \A x, y \in q.body.plan : x = y
  BY IntakeAssumption
<1>2. ~AsksToClose(q.body) /\ p \in IF q.body.dual THEN Legs(q.body) ELSE Judged(q.body)
  BY DEF PlansFor
<1>3. p \in PlanType
  BY <1>1, <1>2 DEF Legs, Judged, BodyType
<1> QED
  BY <1>1, <1>2, <1>3 DEF Legs, Judged

\* What the gate lets pass is placed and pays at the price of its fill, and at its entry; a
\* limit waits behind the market.
LEMMA GatePlacesOrder ==
  ASSUME NEW p, NEW t, NEW h1, GateAccepts(p, t, h1), Executable(p, PickEntry(p)), p.side \in {"buy", "sell"}
  PROVE  LET kind == OrderIntent(p, ExecutionPrice(t, p.side), PickEntry(p), h1)
             o == Candidate(p, PickEntry(p))
             fill == IF kind = "market" THEN ExecutionPrice(t, p.side) ELSE o.entry
         IN /\ \A price \in {fill, o.entry} :
                 LET risk == -Gain(p.side, price, o.sl) IN
                   /\ risk > 0 /\ Gain(p.side, price, o.tp1) > 0
                   /\ 4 * Gain(p.side, price, o.tp) >= 5 * risk
            /\ kind # "market" => Gain(p.side, o.entry, ExecutionPrice(t, p.side)) > 0
            /\ o.entry > 0 /\ p.max_lots > 0 /\ MidPrice(t) > 0
<1> DEFINE market == ExecutionPrice(t, p.side)
           entry == PickEntry(p)
           kind == OrderIntent(p, market, entry, h1)
           o == Candidate(p, entry)
           fill == IF kind = "market" THEN market ELSE o.entry
<1>1. o.entry = entry /\ o.sl = p.stop_loss /\ o.tp1 = FirstTarget(p) /\ o.tp = LastTarget(p)
  BY DEF Candidate
<1>2. /\ kind # "rejected" /\ entry > 0 /\ p.max_lots > 0 /\ MidPrice(t) > 0
      /\ Executable(p, IF kind = "market" THEN market ELSE entry)
  BY DEF GateAccepts
<1>3. kind # "market" => StillAhead(p, market, entry)
  <2> HIDE DEF market, entry
  <2> QED
    BY <1>2 DEF OrderIntent
<1>4. Executable(p, entry)
  OBVIOUS
<1> HIDE DEF market, entry, kind, o
<1>5. ASSUME NEW price \in {fill, entry}
      PROVE  /\ -Gain(p.side, price, o.sl) > 0 /\ Gain(p.side, price, o.tp1) > 0
             /\ 4 * Gain(p.side, price, o.tp) >= 5 * (-Gain(p.side, price, o.sl))
  <2>1. Executable(p, price)
    BY <1>1, <1>2, <1>4
  <2> QED
    BY <1>1, <2>1 DEF Executable, WellPlaced, WorthTheRisk
<1>6. kind # "market" => Gain(p.side, entry, market) > 0
  BY <1>3 DEF StillAhead
<1> QED
  BY <1>1, <1>2, <1>5, <1>6 DEF market, entry, kind, o

\* What joins open positions does so apart from them, declared and within the group.
LEMMA AddOnIsSound ==
  ASSUME NEW q \in Bodies, NEW p \in PlanType, p.side \in {"buy", "sell"}, AddOnAllowed(p, q.at), p.max_lots > 0,
         \E x \in OfSide(q.at, p.side) : x.strategy \in {"ai_signal", "none"}
  PROVE  LET joined == OfSide(q.at, p.side)
             won == {x \in joined : Gain(x.side, x.open, MidPrice(q.at.tick)) > 0}
         IN /\ p.add_on
            /\ \E x \in joined : Distance(x.open, PickEntry(p)) >= q.at.m30
            /\ p.add_on_type \in {"favorable", "adverse"} =>
                 /\ 10 * p.max_lots <= 6 * Lots(joined)
                 /\ \E x \in joined : x.ticket = Group(p, q.at).parent
                 /\ IF p.add_on_type = "favorable" THEN won # {} ELSE won # joined
<1> DEFINE at == q.at
           group == OfSide(at, p.side)
           mid == MidPrice(at.tick)
           unit == at.m30
           n == Lots(group)
           won == {x \in group : Gain(x.side, x.open, mid) > 0}
<1>1. at \in AccountType /\ IsFiniteSet(at.positions)
  BY IntakeAssumption
<1>2. group \subseteq HeldType /\ IsFiniteSet(group) /\ group # {} /\ \A x \in group : x.side = p.side
  <2>1. group \subseteq at.positions
    BY DEF OfSide
  <2>2. at.positions \subseteq HeldType
    BY <1>1 DEF AccountType
  <2> QED
    BY <1>1, <2>1, <2>2, FS_Subset DEF OfSide
<1>3. unit \in Nat /\ mid \in Int
  BY <1>1 DEF AccountType, MidPrice
<1>4. PickEntry(p) \in Int /\ p.max_lots \in Int /\ p.add_on_level \in Nat
  BY DEF PlanType, PickEntry
<1>5. /\ p.add_on /\ unit > 0
      /\ 2 * Distance(n * PickEntry(p), Cost(group)) >= Spacing(p) * unit * n
      /\ p.add_on_type = "favorable" => FavorableAllowed(p, at, group)
      /\ p.add_on_type = "adverse" => AdverseAllowed(p, at, group)
  BY DEF AddOnAllowed
<1>6. n \in Nat /\ n > 0 /\ Cost(group) \in Int
  BY <1>2, <1>3, AverageIsBetween
<1> HIDE DEF at, group, mid, unit, n
<1>7. Spacing(p) \in {2, 3, 4}
  BY <1>4 DEF Spacing
<1>8. Distance(n * PickEntry(p), Cost(group)) >= unit * n
  <2> DEFINE d == Distance(n * PickEntry(p), Cost(group))
             u == unit * n
             k == Spacing(p)
  <2>1. n * PickEntry(p) \in Int
    BY <1>4, <1>6
  <2>2. d \in Int /\ u \in Nat
    BY <1>3, <1>6, <2>1 DEF Distance
  <2>3. k * unit * n = k * u /\ k \in {2, 3, 4}
    BY <1>3, <1>6, <1>7
  <2>4. 2 * d >= k * u
    BY <1>5, <2>3
  <2> HIDE DEF d, u, k
  <2>5. d >= u
    BY <2>2, <2>3, <2>4
  <2> QED
    BY <2>5 DEF d, u
<1>9. \E x \in group : Distance(x.open, PickEntry(p)) >= unit
  <2> DEFINE e == PickEntry(p)
  <2>1. e \in Int /\ unit \in Nat \ {0} /\ Distance(Lots(group) * e, Cost(group)) >= unit * Lots(group)
    BY <1>3, <1>4, <1>5, <1>8 DEF n
  <2> HIDE DEF e
  <2>2. \E x \in group : Distance(x.open, e) >= unit
    BY <1>2, <2>1, ApartFromOne
  <2> QED
    BY <2>2 DEF e
<1>10. /\ Won(group, p.side, mid) \in Int
       /\ Won(group, p.side, mid) > 0 => won # {}
       /\ Won(group, p.side, mid) < 0 => won # group
  BY <1>2, <1>3, WonTogether
<1>11. unit * n \in Nat /\ unit * n > 0
  BY <1>3, <1>5, <1>6
<1>12. ASSUME p.add_on_type = "favorable" PROVE 10 * p.max_lots <= 6 * n /\ won # {}
  <2>1. Won(group, p.side, mid) >= unit * n /\ 2 * p.max_lots <= n
    BY <1>5, <1>12 DEF FavorableAllowed, mid, unit, n
  <2> QED
    BY <1>4, <1>6, <1>10, <1>11, <2>1
<1>13. ASSUME p.add_on_type = "adverse" PROVE 10 * p.max_lots <= 6 * n /\ won # group
  <2> DEFINE lost == -Won(group, p.side, mid)
             level == IF p.add_on_level = 0 THEN 1
                      ELSE IF p.add_on_level <= 3 THEN p.add_on_level
                      ELSE IF 2 * lost >= 7 * (unit * n) THEN 3 ELSE IF lost >= 2 * (unit * n) THEN 2 ELSE 1
  <2>1. /\ 2 * lost >= (IF level = 3 THEN 7 ELSE 2 * level) * (unit * n)
        /\ 10 * p.max_lots <= 6 * n
    BY <1>5, <1>13 DEF AdverseAllowed, mid, unit, n
  <2>2. level \in {1, 2, 3}
    BY <1>4
  <2>3. lost \in Int
    BY <1>10
  <2> HIDE DEF lost, level
  <2>4. lost > 0
    BY <1>11, <2>1, <2>2, <2>3
  <2> QED
    BY <1>10, <2>1, <2>4 DEF lost
<1>14. ASSUME p.add_on_type \in {"favorable", "adverse"} PROVE \E x \in group : x.ticket = Group(p, at).parent
  <2>1. Group(p, at).parent = Max({x.ticket : x \in group})
    BY <1>2, <1>14 DEF Group, group
  <2> QED
    BY <1>2, <2>1, NewestIsHeld
<1> QED
  BY <1>5, <1>9, <1>12, <1>13, <1>14 DEF at, group, mid, unit, n

\* The verdict of the single plan: what passed met an open market and no position against it.
LEMMA VerdictIsSound ==
  ASSUME NEW q \in Bodies, NEW p \in PlansFor(q.body), ~q.body.dual, p.mode = "approve", p.side \in {"buy", "sell"},
         Verdict(q.body, q.at).status # "rejected"
  PROVE  /\ q.at.open /\ q.at.allowed /\ q.at.tick.at # 0
         /\ \A x \in q.at.positions :
              x.symbol \in {Here, "none"} /\ x.strategy \in {"ai_signal", "none"} => x.side = p.side
<1> DEFINE at == q.at
           in == RiskInput(p, at)
<1>1. Judged(q.body) = {p} /\ p.symbol = Here
  BY TriedIsValid DEF Valid
<1>2. Verdict(q.body, at).status = R!EvaluateRiskGate(in, at.now).status
  BY <1>1 DEF Verdict
<1>3. at \in AccountType
  BY IntakeAssumption
<1>4. /\ in.plan.mode = "approve" /\ in.plan.side = p.side /\ in.plan.symbol = Here
      /\ in.runtime.open = at.open /\ in.runtime.allowed = at.allowed /\ in.runtime.tickAt = at.tick.at
      /\ in.positions = at.positions /\ in.strategy = "ai_signal" /\ in.allowHedge = FALSE
  BY <1>1 DEF RiskInput
<1> HIDE DEF in, at
<1>5. R!TradeabilityRejects(in, at.now) = {} /\ R!PositionConflicts(in) = {}
  BY <1>2, <1>4 DEF R!EvaluateRiskGate, at
<1>6. at.open /\ at.allowed /\ at.tick.at # 0
  <2>1. /\ ~in.runtime.open => "closed" \in R!TradeabilityRejects(in, at.now)
        /\ ~in.runtime.allowed => "not_allowed" \in R!TradeabilityRejects(in, at.now)
        /\ in.runtime.tickAt = 0 => "tick" \in R!TradeabilityRejects(in, at.now)
    BY DEF R!TradeabilityRejects, R!Stale
  <2> QED
    BY <1>4, <1>5, <2>1
<1>7. ASSUME NEW x \in at.positions, x.symbol \in {Here, "none"}, x.strategy \in {"ai_signal", "none"}, x.side # p.side
      PROVE  FALSE
  <2>1. x.lots > 0 /\ x.side \in {"buy", "sell"}
    BY <1>3 DEF AccountType, HeldType
  <2>2. x \in R!Competitors(in)
    BY <1>4, <1>7, <2>1 DEF R!Competitors
  <2>3. "hedge" \in R!PositionConflicts(in)
    BY <1>4, <1>7, <2>2 DEF R!PositionConflicts
  <2> QED
    BY <1>5, <2>3
<1> QED
  BY <1>6, <1>7 DEF at

\* An order is made of a plan that is tried, and passes the gate and the builder.
LEMMA OrderIsSound ==
  ASSUME NEW q \in Bodies, NEW o \in Intake(q).orders
  PROVE  OrderSoundly(q, o)
<1> DEFINE at == q.at
           verdict == Verdict(q.body, at)
           intent(p) == OrderIntent(p, ExecutionPrice(at.tick, p.side), PickEntry(p), at.h1)
           candidate(p) == Candidate(p, PickEntry(p))
<1>1. PICK p \in PlansFor(q.body) :
        /\ ~Skipped(p, verdict) /\ GatePasses(p, at) /\ Executable(p, PickEntry(p))
        /\ o = [plan |-> p, kind |-> intent(p), order |-> candidate(p), group |-> Group(p, at)]
  BY DEF Intake, Orders
<1> DEFINE kind == intent(p)
           made == candidate(p)
           fill == IF kind = "market" THEN ExecutionPrice(at.tick, p.side) ELSE made.entry
           joined == {x \in at.positions : x.symbol \in {Here, "none"} /\ x.side = p.side}
           own == {x \in joined : x.strategy \in {"ai_signal", "none"}}
           won == {x \in joined : Gain(x.side, x.open, MidPrice(at.tick)) > 0}
<1>2. o.plan = p /\ o.kind = kind /\ o.order = made /\ o.group = Group(p, at)
  BY <1>1
<1>3. /\ p \in PlanType /\ Valid(p)
      /\ p.mode = "approve" /\ p.side \in {"buy", "sell"}
      /\ verdict.status # "rejected" /\ ~verdict.audit /\ ~(p.confidence < 65)
  BY <1>1, TriedIsValid DEF Skipped, Valid
<1>4. GateAccepts(p, at.tick, at.h1) /\ AddOnAllowed(p, at)
  BY <1>1 DEF GatePasses
<1>5. /\ \A price \in {fill, made.entry} :
           LET risk == -Gain(p.side, price, made.sl) IN
             /\ risk > 0 /\ Gain(p.side, price, made.tp1) > 0
             /\ 4 * Gain(p.side, price, made.tp) >= 5 * risk
      /\ kind # "market" => Gain(p.side, made.entry, ExecutionPrice(at.tick, p.side)) > 0
      /\ p.max_lots > 0
  BY <1>1, <1>3, <1>4, GatePlacesOrder
<1>6. made.entry = PickEntry(p)
  BY DEF Candidate
<1>7. joined = OfSide(at, p.side)
  BY DEF OfSide
<1> HIDE DEF kind, made
<1>8. p.wellFormed /\ p.account = "own" /\ p.symbol = Here /\ p.confidence \in 65 .. 100
  BY <1>3 DEF Valid, PlanType
<1>9. ASSUME own # {}
      PROVE  /\ p.add_on
             /\ \E x \in joined : Distance(x.open, made.entry) >= at.m30
             /\ p.add_on_type \in {"favorable", "adverse"} =>
                  /\ 10 * p.max_lots <= 6 * Lots(joined)
                  /\ \E x \in joined : x.ticket = Group(p, at).parent
                  /\ IF p.add_on_type = "favorable" THEN won # {} ELSE won # joined
  <2>1. \E x \in OfSide(at, p.side) : x.strategy \in {"ai_signal", "none"}
    BY <1>7, <1>9
  <2> HIDE DEF joined
  <2> QED
    BY <1>3, <1>4, <1>5, <1>6, <1>7, <2>1, AddOnIsSound
<1>10. ASSUME verdict.status # "none"
       PROVE  verdict.status \in {"accepted", "clamped"}
  <2>1. verdict.status \in {"accepted", "rejected", "clamped", "none"}
    BY DEF Verdict, R!EvaluateRiskGate
  <2> QED
    BY <1>3, <1>10, <2>1
<1>11. ASSUME ~q.body.dual
       PROVE  /\ at.open /\ at.allowed /\ at.tick.at # 0
              /\ \A x \in at.positions :
                   x.symbol \in {Here, "none"} /\ x.strategy \in {"ai_signal", "none"} => x.side = p.side
  BY <1>1, <1>3, <1>11, VerdictIsSound
<1>12. Intake(q).verdict = verdict
  BY DEF Intake
<1> HIDE DEF fill, joined, own, won, verdict, at
<1> QED
  BY <1>2, <1>3, <1>5, <1>8, <1>9, <1>10, <1>11, <1>12 DEF OrderSoundly, fill, joined, own, won, verdict, at

\* Whatever body comes, in whatever situation of the account, its orders are sound, and a body
\* that closes opens nothing (QueuedPlanIsSound).
THEOREM QueuedPlansAreSound == DecisionSpec => []QueuedPlanIsSound
<1>1. ASSUME NEW q \in Bodies
      PROVE  /\ Intake(q).closes # {} => Intake(q).orders = {}
             /\ \A c \in Intake(q).closes : c.action = "CLOSE" =>
                  \E x \in q.at.positions : x.ticket = c.ticket /\ x.side = "sell" /\ x.symbol \in {Here, "none"}
  <2>1. Intake(q).closes # {} => AsksToClose(q.body)
    BY DEF Intake, Closes, MayClose
  <2>2. AsksToClose(q.body) => Intake(q).orders = {}
    BY DEF Intake, Orders, PlansFor
  <2>3. ASSUME NEW c \in Closes(q.body, q.at), c.action = "CLOSE"
        PROVE  \E x \in OfSide(q.at, "sell") : x.ticket = c.ticket
    BY <2>3 DEF Closes
  <2> QED
    BY <2>1, <2>2, <2>3 DEF Intake, OfSide
<1>2. DecisionInv => QueuedPlanIsSound
  <2> SUFFICES ASSUME DecisionInv, Answered("intake") PROVE QueuedPlanIsSound
    BY DEF QueuedPlanIsSound
  <2>1. question \in Bodies /\ answer = Intake(question)
    BY DEF DecisionInv, Answered
  <2>2. \A o \in answer.orders : OrderSoundly(question, o)
    BY <2>1, OrderIsSound
  <2> QED
    BY ZenonT(60), <1>1, <2>1, <2>2 DEF QueuedPlanIsSound, OrderSoundly
<1> QED
  BY <1>2, DecisionsHold, PTL

-----------------------------------------------------------------------------
(* The structure of the market. *)

\* A series with a bar more keeps its bars where they were.
LEMMA OneBarMore ==
  ASSUME NEW bars \in Seq(BarType), NEW next \in BarType
  PROVE  LET later == Append(bars, next) IN
           /\ Len(bars) \in Nat /\ Len(later) = Len(bars) + 1
           /\ \A i \in 1 .. Len(bars) : later[i] = bars[i] /\ bars[i] \in BarType
           /\ \A i \in 1 .. Len(bars) + 1 : later[i] \in BarType
OBVIOUS

\* A swing point needs nothing of what comes after its wing.
LEMMA SwingsStay ==
  ASSUME NEW bars \in Seq(BarType), NEW next \in BarType, NEW high \in BOOLEAN
  PROVE  S!Swings(bars, 1, high) \subseteq S!Swings(Append(bars, next), 1, high)
<1> DEFINE later == Append(bars, next)
           n == Len(bars)
<1>1. /\ n \in Nat /\ Len(later) = n + 1
      /\ \A i \in 1 .. n : later[i] = bars[i]
  BY OneBarMore
<1>2. SUFFICES ASSUME NEW i \in S!Swings(bars, 1, high) PROVE i \in S!Swings(later, 1, high)
  OBVIOUS
<1> HIDE DEF later
<1>3. /\ i \in 1 + Wing .. n - Wing
      /\ \A j \in (i - Wing .. i + Wing) \ {i} :
           IF high THEN bars[j].high < bars[i].high ELSE bars[j].low > bars[i].low
  BY <1>2 DEF S!Swings
<1> HIDE DEF n
<1>4. i \in 1 .. n /\ i \in 1 + Wing .. (n + 1) - Wing
  BY <1>1, <1>3, StructureAssumption
<1>5. ASSUME NEW j \in (i - Wing .. i + Wing) \ {i}
      PROVE  IF high THEN later[j].high < later[i].high ELSE later[j].low > later[i].low
  <2>1. j \in 1 .. n
    BY <1>1, <1>3, <1>4, StructureAssumption
  <2>2. later[j] = bars[j] /\ later[i] = bars[i]
    BY <1>1, <1>4, <2>1
  <2> QED
    BY <1>3, <2>2
<1> QED
  BY <1>1, <1>4, <1>5 DEF S!Swings, n

\* What is least among some stays least when something greater joins them.
LEMMA LeastStays ==
  ASSUME NEW Some, NEW more, Some \subseteq Nat, Some # {}, NEW n \in Nat, \A i \in Some : i <= n,
         Some \subseteq more, \A i \in more : i \in Some \/ i = n + 1
  PROVE  /\ S!Min(more) = S!Min(Some)
         /\ S!Min(Some) \in Some
<1> DEFINE l == Min(Some)
           m == Min(more)
<1>1. l \in Some /\ \A j \in Some : l <= j
  BY LeastOfSome
<1>2. ASSUME NEW i \in more PROVE i \in Nat
  <2>1. i \in Some \/ i = n + 1
    OBVIOUS
  <2> QED
    BY <2>1
<1>3. m \in more /\ \A j \in more : m <= j
  <2>1. more \subseteq Nat /\ more # {}
    BY <1>1, <1>2
  <2> QED
    BY <2>1, LeastOfSome
<1> HIDE DEF l, m
<1>4. l \in Nat /\ m \in Nat /\ l \in more /\ l <= n
  BY <1>1, <1>2, <1>3
<1>5. m <= l
  BY <1>3, <1>4
<1>6. m \in Some
  <2>1. m \in Some \/ m = n + 1
    BY <1>3
  <2> QED
    BY <1>4, <1>5, <2>1
<1>7. l <= m
  BY <1>1, <1>6
<1>8. m = l
  BY <1>4, <1>5, <1>7
<1> QED
  BY <1>1, <1>8 DEF S!Min, Min, l, m

\* The bars that sweep a swing point.
Back(bars, i, high) ==
  {j \in i + 1 .. i + Reversal :
     /\ j <= Len(bars)
     /\ IF high THEN bars[j].high > bars[i].high /\ bars[j].close < bars[i].high
                ELSE bars[j].low < bars[i].low /\ bars[j].close > bars[i].low}
Swept(bars, high, side) ==
  {[index |-> S!Min(Back(bars, i, high)), side |-> side,
    level |-> IF high THEN bars[i].high ELSE bars[i].low] :
     i \in {i \in S!Swings(bars, 1, high) : Back(bars, i, high) # {}}}

\* A sweep of a level by some bar remains one when a bar follows.
LEMMA SweptStays ==
  ASSUME NEW bars \in Seq(BarType), NEW next \in BarType, NEW high \in BOOLEAN, NEW side
  PROVE  Swept(bars, high, side) \subseteq Swept(Append(bars, next), high, side)
<1> DEFINE later == Append(bars, next)
           n == Len(bars)
<1>1. /\ n \in Nat /\ Len(later) = n + 1
      /\ \A i \in 1 .. n : later[i] = bars[i]
  BY OneBarMore
<1>2. S!Swings(bars, 1, high) \subseteq S!Swings(later, 1, high)
  BY SwingsStay
<1> HIDE DEF later
<1>3. ASSUME NEW i \in S!Swings(bars, 1, high), Back(bars, i, high) # {}
      PROVE  /\ S!Min(Back(later, i, high)) = S!Min(Back(bars, i, high))
             /\ Back(later, i, high) # {} /\ later[i] = bars[i]
  <2> DEFINE some == Back(bars, i, high)
             more == Back(later, i, high)
  <2>1. i \in 1 .. n
    BY <1>1, StructureAssumption DEF S!Swings
  <2>2. later[i] = bars[i]
    BY <1>1, <2>1
  <2> HIDE DEF n
  <2>3. \A j \in some : j \in 1 .. n
    BY <1>1, <2>1, StructureAssumption DEF Back, n
  <2>4. some \subseteq more
    <3> SUFFICES ASSUME NEW j \in some PROVE j \in more
      OBVIOUS
    <3>1. later[j] = bars[j] /\ j <= n + 1
      BY <1>1, <2>3
    <3> QED
      BY <1>1, <2>2, <3>1 DEF Back
  <2>5. ASSUME NEW j \in more PROVE j \in some \/ j = n + 1
    <3>1. j \in Int /\ j <= n + 1 /\ j >= 1
      BY <1>1, <2>1, StructureAssumption DEF Back
    <3>2. CASE j <= n
      <4>1. later[j] = bars[j]
        BY <1>1, <3>1, <3>2
      <4> QED
        BY <1>1, <2>2, <3>2, <4>1 DEF Back, n
    <3> QED
      BY <1>1, <3>1, <3>2
  <2>6. some # {}
    BY <1>3
  <2> HIDE DEF some, more
  <2>7. some \subseteq Nat /\ \A j \in some : j <= n
    BY <1>1, <2>3
  <2>8. S!Min(more) = S!Min(some)
    BY <1>1, <2>4, <2>5, <2>6, <2>7, LeastStays
  <2> QED
    BY <2>2, <2>4, <2>6, <2>8 DEF some, more
<1>4. SUFFICES ASSUME NEW i \in S!Swings(bars, 1, high), Back(bars, i, high) # {}
               PROVE  [index |-> S!Min(Back(bars, i, high)), side |-> side,
                       level |-> IF high THEN bars[i].high ELSE bars[i].low] \in Swept(later, high, side)
  BY DEF Swept, later
<1>5. /\ S!Min(Back(later, i, high)) = S!Min(Back(bars, i, high))
      /\ Back(later, i, high) # {} /\ later[i] = bars[i]
  BY <1>3, <1>4
<1> QED
  BY <1>2, <1>5 DEF Swept

\* The sweeps that were found are found again with a bar more.
LEMMA SweepsStay ==
  ASSUME NEW bars \in Seq(BarType), NEW next \in BarType
  PROVE  S!Sweeps(bars) \subseteq S!Sweeps(Append(bars, next))
<1>1. \A s \in {bars, Append(bars, next)} : S!Sweeps(s) = Swept(s, TRUE, "SELL") \cup Swept(s, FALSE, "BUY")
  BY DEF S!Sweeps, Swept, Back
<1>2. /\ Swept(bars, TRUE, "SELL") \subseteq Swept(Append(bars, next), TRUE, "SELL")
      /\ Swept(bars, FALSE, "BUY") \subseteq Swept(Append(bars, next), FALSE, "BUY")
  BY SweptStays
<1> QED
  BY <1>1, <1>2

\* The gap that opens at bar i, and the bars that fill a gap.
GapUp(bars, i) == [start |-> i, side |-> "BUY", upper |-> bars[i + 2].low, lower |-> bars[i].high]
GapDown(bars, i) == [start |-> i, side |-> "SELL", upper |-> bars[i].low, lower |-> bars[i + 2].high]
Fills(bars, g) ==
  {j \in g.start + 3 .. Len(bars) :
     IF g.side = "BUY" THEN bars[j].low <= g.lower ELSE bars[j].high >= g.upper}

\* The first bar that filled a gap is not another one later.
LEMMA FillStays ==
  ASSUME NEW bars \in Seq(BarType), NEW next \in BarType, NEW g, g.start \in Nat,
         Fills(bars, g) # {}
  PROVE  /\ Fills(Append(bars, next), g) # {}
         /\ S!Min(Fills(Append(bars, next), g)) = S!Min(Fills(bars, g))
<1> DEFINE later == Append(bars, next)
           n == Len(bars)
           some == Fills(bars, g)
           more == Fills(later, g)
           start == g.start
<1>1. /\ n \in Nat /\ Len(later) = n + 1
      /\ \A i \in 1 .. n : later[i] = bars[i]
  BY OneBarMore
<1>2. start \in Nat
  OBVIOUS
<1> HIDE DEF later, start
<1>3. \A j \in some : j \in 1 .. n
  BY <1>1, <1>2 DEF Fills, start
<1>4. some \subseteq more
  <2> SUFFICES ASSUME NEW j \in some PROVE j \in more
    OBVIOUS
  <2>1. later[j] = bars[j] /\ j <= n + 1
    BY <1>1, <1>3
  <2> QED
    BY <1>1, <2>1 DEF Fills
<1>5. ASSUME NEW j \in more PROVE j \in some \/ j = n + 1
  <2>1. j \in Int /\ j <= n + 1 /\ j >= 1 /\ j >= start + 3
    BY <1>1, <1>2 DEF Fills, start
  <2>2. CASE j <= n
    <3>1. later[j] = bars[j]
      BY <1>1, <2>1, <2>2
    <3>2. IF g.side = "BUY" THEN bars[j].low <= g.lower ELSE bars[j].high >= g.upper
      BY <3>1 DEF Fills
    <3>3. j \in g.start + 3 .. Len(bars)
      BY <1>1, <1>2, <2>1, <2>2 DEF start
    <3> QED
      BY <3>2, <3>3 DEF Fills
  <2> QED
    BY <1>1, <2>1, <2>2
<1>6. some # {}
  OBVIOUS
<1> HIDE DEF some, more, n
<1>7. some \subseteq Nat /\ \A j \in some : j <= n
  BY <1>1, <1>3
<1>8. S!Min(more) = S!Min(some)
  BY <1>1, <1>4, <1>5, <1>6, <1>7, LeastStays
<1> QED
  BY <1>4, <1>6, <1>8 DEF some, more, later

\* A gap is found again as long as its first bar is in the window.
LEMMA GapsStay ==
  ASSUME NEW bars \in Seq(BarType), NEW next \in BarType, NEW g \in S!Gaps(bars, Lookback),
         g.gap.start > Len(Append(bars, next)) - Lookback
  PROVE  \E h \in S!Gaps(Append(bars, next), Lookback) :
           h.gap = g.gap /\ (g.filled # 0 => h.filled = g.filled)
<1> DEFINE later == Append(bars, next)
           n == Len(bars)
           first == S!FirstOf(bars, Lookback)
           newFirst == S!FirstOf(later, Lookback)
           kept(s, r) == [gap |-> r, filled |-> S!FilledAt(s, r)]
<1>1. /\ n \in Nat /\ Len(later) = n + 1
      /\ \A i \in 1 .. n : later[i] = bars[i]
  BY OneBarMore
<1>2. PICK i \in first .. n - 2 :
        \/ bars[i + 2].low > bars[i].high /\ g = kept(bars, GapUp(bars, i))
        \/ bars[i + 2].high < bars[i].low /\ g = kept(bars, GapDown(bars, i))
  BY DEF S!Gaps, GapUp, GapDown
<1>3. g.gap.start > Len(later) - Lookback
  OBVIOUS
<1> HIDE DEF later, n
<1>4. first \in Nat /\ first >= 1 /\ newFirst \in Nat
  BY <1>1, StructureAssumption DEF S!FirstOf, n
<1>5. i \in Nat /\ i >= 1 /\ i <= n - 2 /\ g.gap.start = i
  BY <1>1, <1>2, <1>4 DEF GapUp, GapDown
<1>6. i \in newFirst .. (n + 1) - 2
  <2>1. i \in Int /\ newFirst \in Int /\ newFirst <= i
    BY <1>1, <1>3, <1>4, <1>5, StructureAssumption DEF S!FirstOf, newFirst
  <2> QED
    BY <1>1, <1>5, <2>1
<1>7. later[i] = bars[i] /\ later[i + 2] = bars[i + 2]
  BY <1>1, <1>5
<1>8. g.gap \in {GapUp(later, i), GapDown(later, i)} /\ g.filled = S!FilledAt(bars, g.gap)
  BY <1>2, <1>7 DEF GapUp, GapDown
<1>9. kept(later, g.gap) \in S!Gaps(later, Lookback)
  <2>1. CASE bars[i + 2].low > bars[i].high /\ g = kept(bars, GapUp(bars, i))
    <3>1. g.gap = GapUp(later, i) /\ later[i + 2].low > later[i].high
      BY <1>7, <2>1 DEF GapUp
    <3> QED
      BY <1>1, <1>6, <3>1 DEF S!Gaps, GapUp
  <2>2. CASE bars[i + 2].high < bars[i].low /\ g = kept(bars, GapDown(bars, i))
    <3>1. g.gap = GapDown(later, i) /\ later[i + 2].high < later[i].low
      BY <1>7, <2>2 DEF GapDown
    <3> QED
      BY <1>1, <1>6, <3>1 DEF S!Gaps, GapDown
  <2> QED
    BY <1>2, <2>1, <2>2
<1>10. ASSUME g.filled # 0 PROVE S!FilledAt(later, g.gap) = g.filled
  <2> DEFINE r == g.gap
  <2>1. S!FilledAt(bars, r) = IF Fills(bars, r) = {} THEN 0 ELSE S!Min(Fills(bars, r))
    BY DEF S!FilledAt, Fills
  <2>2. S!FilledAt(later, r) = IF Fills(later, r) = {} THEN 0 ELSE S!Min(Fills(later, r))
    BY DEF S!FilledAt, Fills
  <2>3. r.start \in Nat
    BY <1>5
  <2>4. g.filled = S!FilledAt(bars, r)
    BY <1>8
  <2> HIDE DEF r
  <2>5. Fills(bars, r) # {}
    BY <1>10, <2>1, <2>4
  <2>6. Fills(later, r) # {} /\ S!Min(Fills(later, r)) = S!Min(Fills(bars, r))
    BY <2>3, <2>5, FillStays DEF later
  <2>7. S!FilledAt(later, r) = g.filled
    BY <2>1, <2>2, <2>4, <2>5, <2>6
  <2> QED
    BY <2>7 DEF r
<1>11. kept(later, g.gap).gap = g.gap /\ kept(later, g.gap).filled = S!FilledAt(later, g.gap)
  OBVIOUS
<1> QED
  BY <1>9, <1>10, <1>11 DEF later

\* What closed beyond a block has still done so when there are more bars.
LEMMA BrokenStays ==
  ASSUME NEW bars \in Seq(BarType), NEW next \in BarType, NEW i \in Nat, i >= 1, NEW side,
         S!Intact(Append(bars, next), i, side)
  PROVE  S!Intact(bars, i, side)
<1> DEFINE later == Append(bars, next)
           n == Len(bars)
<1>1. /\ n \in Nat /\ Len(later) = n + 1
      /\ \A j \in 1 .. n : later[j] = bars[j]
  BY OneBarMore
<1> HIDE DEF later
<1>2. ASSUME NEW j \in i + 1 .. n
      PROVE  IF side = "BUY" THEN bars[j].close >= bars[i].low ELSE bars[j].close <= bars[i].high
  <2>1. later[j] = bars[j] /\ later[i] = bars[i] /\ j \in i + 1 .. n + 1
    BY <1>1
  <2>2. S!Intact(later, i, side)
    BY DEF later
  <2> QED
    BY <1>1, <2>1, <2>2 DEF S!Intact
<1> QED
  BY <1>2 DEF S!Intact

\* A set of numbers between 1 and a bound has a greatest one.
LEMMA GreatestOfSome ==
  ASSUME NEW n \in Int, NEW Some, Some \subseteq 1 .. n, Some # {}
  PROVE  S!Max(Some) \in Some
<1> DEFINE below == {n - i : i \in Some}
           l == Min(below)
<1>1. below \subseteq Nat /\ below # {}
  <2>1. ASSUME NEW i \in Some PROVE n - i \in Nat
    <3>1. i \in 1 .. n
      OBVIOUS
    <3> QED
      BY <3>1
  <2>2. PICK i : i \in Some
    OBVIOUS
  <2>3. n - i \in below
    BY <2>2
  <2> QED
    BY <2>1, <2>3
<1>2. l \in below /\ \A j \in below : l <= j
  BY <1>1, LeastOfSome
<1> HIDE DEF l
<1>3. PICK x \in Some : l = n - x
  BY <1>2
<1>4. \A i \in Some : x >= i
  <2> SUFFICES ASSUME NEW i \in Some PROVE x >= i
    OBVIOUS
  <2>1. n - x <= n - i
    BY <1>2, <1>3
  <2>2. x \in Int /\ i \in Int
    OBVIOUS
  <2> QED
    BY <2>1, <2>2
<1> QED
  BY <1>4 DEF S!Max

\* Breaks are found at bars.
LEMMA BreaksAreAtBars ==
  ASSUME NEW bars \in Seq(BarType), NEW trend, NEW e \in S!BreaksOf(bars, Lookback, trend)
  PROVE  e.index \in Int
<1> DEFINE first == S!FirstOf(bars, Lookback)
<1>1. first \in Int /\ Len(bars) \in Int
  BY StructureAssumption DEF S!FirstOf
<1> HIDE DEF first
<1>2. ASSUME NEW b \in S!SwingBreaks(bars, first, trend) PROVE b.index \in Int
  <2>1. PICK i \in first .. Len(bars) : \E direction, level : b = S!Break(i, direction, level, trend)
    BY DEF S!SwingBreaks
  <2> QED
    BY <1>1, <2>1 DEF S!Break
<1>3. ASSUME NEW b \in S!ExtremeBreaks(bars, first, trend) PROVE b.index \in Int
  <2>1. PICK i \in first + Recent .. Len(bars) : \E direction, level : b = S!Break(i, direction, level, trend)
    BY DEF S!ExtremeBreaks
  <2> QED
    BY <1>1, <2>1, StructureAssumption DEF S!Break
<1>4. e \in S!SwingBreaks(bars, first, trend) \/ e \in S!ExtremeBreaks(bars, first, trend)
  BY DEF S!BreaksOf, S!FoundBreaks, first
<1> QED
  BY <1>2, <1>3, <1>4

\* The candle of a block is one of the bars.
LEMMA CandleIsBar ==
  ASSUME NEW bars, NEW before \in Int, NEW rising, S!BlockCandle(bars, before, rising) # 0
  PROVE  S!BlockCandle(bars, before, rising) \in 1 .. before - 1
<1> DEFINE way(i) == IF rising THEN S!Rises(bars[i]) ELSE S!Falls(bars[i])
           any == {i \in 1 .. before - 1 : way(i)}
           strong == {i \in any : 10 * S!Body(bars[i]) > 3 * (bars[i].high - bars[i].low)}
<1>1. S!BlockCandle(bars, before, rising) =
        IF strong # {} THEN S!Max(strong) ELSE IF any # {} THEN S!Max(any) ELSE 0
  BY DEF S!BlockCandle
<1>2. any \subseteq 1 .. before - 1 /\ strong \subseteq 1 .. before - 1
  OBVIOUS
<1> HIDE DEF any, strong
<1>3. before - 1 \in Int
  OBVIOUS
<1>4. ASSUME strong # {} PROVE S!Max(strong) \in strong
  BY <1>2, <1>3, <1>4, GreatestOfSome
<1>5. ASSUME any # {} PROVE S!Max(any) \in any
  BY <1>2, <1>3, <1>5, GreatestOfSome
<1> QED
  BY <1>1, <1>2, <1>4, <1>5

\* A block that is valid with one bar more was valid before it.
LEMMA BlocksStay ==
  ASSUME NEW bars \in Seq(BarType), NEW next \in BarType,
         NEW a \in S!Context(bars, Lookback).blocks,
         NEW b \in S!Context(Append(bars, next), Lookback).blocks,
         a.index = b.index, a.side = b.side, b.valid
  PROVE  a.valid
<1> DEFINE later == Append(bars, next)
<1>1. ASSUME NEW s, NEW c \in S!Context(s, Lookback).blocks
      PROVE  \E side \in {"BUY", "SELL"} : \E i :
                /\ c = S!BlockAt(s, i, side) /\ i # 0
                /\ \E e \in S!BreaksOf(s, Lookback, S!Trend(s)) : i = S!BlockCandle(s, e.index, side = "SELL")
  <2>1. \E side \in {"BUY", "SELL"} : c \in S!OrderBlocks(s, side, Lookback, S!Trend(s))
    BY DEF S!Context
  <2> QED
    BY <2>1 DEF S!OrderBlocks
<1>2. PICK side \in {"BUY", "SELL"} : \E i :
        /\ a = S!BlockAt(bars, i, side) /\ i # 0
        /\ \E e \in S!BreaksOf(bars, Lookback, S!Trend(bars)) : i = S!BlockCandle(bars, e.index, side = "SELL")
  BY <1>1
<1>3. PICK i :
        /\ a = S!BlockAt(bars, i, side) /\ i # 0
        /\ \E e \in S!BreaksOf(bars, Lookback, S!Trend(bars)) : i = S!BlockCandle(bars, e.index, side = "SELL")
  BY <1>2
<1>4. PICK other, k : b = S!BlockAt(later, k, other)
  BY <1>1
<1> HIDE DEF later
<1>5. i \in Nat /\ i >= 1
  <2>1. PICK e \in S!BreaksOf(bars, Lookback, S!Trend(bars)) : i = S!BlockCandle(bars, e.index, side = "SELL")
    BY <1>3
  <2>2. e.index \in Int
    BY BreaksAreAtBars
  <2> DEFINE at == e.index
             rising == side = "SELL"
  <2>3. at \in Int /\ S!BlockCandle(bars, at, rising) # 0 /\ i = S!BlockCandle(bars, at, rising)
    BY <1>3, <2>1, <2>2
  <2> HIDE DEF at, rising
  <2>4. i \in 1 .. at - 1
    BY <2>3, CandleIsBar
  <2> QED
    BY <2>3, <2>4
<1>6. k = i /\ other = side
  BY <1>3, <1>4 DEF S!BlockAt
<1>7. S!Intact(later, i, side)
  BY <1>4, <1>6 DEF S!BlockAt
<1>8. S!Intact(bars, i, side)
  BY <1>5, <1>7, BrokenStays DEF later
<1> QED
  BY <1>3, <1>8 DEF S!BlockAt

\* What a bar more does not change.
Repainted(q) ==
  LET later == Append(q.bars, q.next)
      shown == Structure(q)
  IN /\ \A high \in BOOLEAN : S!Swings(q.bars, 1, high) \subseteq S!Swings(later, 1, high)
     /\ shown.before.sweeps \subseteq shown.after.sweeps
     /\ \A g \in shown.before.gaps : g.gap.start > Len(later) - Lookback =>
          \E h \in shown.after.gaps : h.gap = g.gap /\ (g.filled # 0 => h.filled = g.filled)
     /\ \A a \in shown.before.blocks, b \in shown.after.blocks :
          a.index = b.index /\ a.side = b.side /\ b.valid => a.valid

\* For every series and bar, what was shown before is what is shown after.
LEMMA OneBarMoreRepaintsNothing == ASSUME NEW q \in Bars PROVE Repainted(q)
<1> DEFINE bars == q.bars
           next == q.next
           later == Append(bars, next)
           shown == Structure(q)
<1>1. bars \in Seq(BarType) /\ next \in BarType
  BY StructureAssumption
<1>2. shown.before = S!Context(bars, Lookback) /\ shown.after = S!Context(later, Lookback)
  BY DEF Structure
<1> HIDE DEF bars, next, shown
<1>3. \A s : /\ S!Context(s, Lookback).sweeps = S!Sweeps(s)
             /\ S!Context(s, Lookback).gaps = S!Gaps(s, Lookback)
  BY DEF S!Context
<1>4. /\ shown.before.sweeps = S!Sweeps(bars) /\ shown.after.sweeps = S!Sweeps(later)
      /\ shown.before.gaps = S!Gaps(bars, Lookback) /\ shown.after.gaps = S!Gaps(later, Lookback)
  BY <1>2, <1>3
<1>5. ASSUME NEW high \in BOOLEAN PROVE S!Swings(bars, 1, high) \subseteq S!Swings(later, 1, high)
  BY <1>1, SwingsStay
<1>6. shown.before.sweeps \subseteq shown.after.sweeps
  <2>1. S!Sweeps(bars) \subseteq S!Sweeps(later)
    BY <1>1, SweepsStay
  <2> QED
    BY <1>4, <2>1
<1>7. ASSUME NEW g \in shown.before.gaps, g.gap.start > Len(later) - Lookback
      PROVE  \E h \in shown.after.gaps : h.gap = g.gap /\ (g.filled # 0 => h.filled = g.filled)
  <2>1. g \in S!Gaps(bars, Lookback)
    BY <1>4
  <2>2. \E h \in S!Gaps(later, Lookback) : h.gap = g.gap /\ (g.filled # 0 => h.filled = g.filled)
    BY <1>1, <1>7, <2>1, GapsStay
  <2> QED
    BY <1>4, <2>2
<1>8. ASSUME NEW a \in shown.before.blocks, NEW b \in shown.after.blocks,
             a.index = b.index, a.side = b.side, b.valid
      PROVE  a.valid
  <2>1. a \in S!Context(bars, Lookback).blocks /\ b \in S!Context(later, Lookback).blocks
    BY <1>2
  <2> QED
    BY <1>1, <1>8, <2>1, BlocksStay
<1>9. q.bars = bars /\ q.next = next /\ Structure(q) = shown
  BY DEF bars, next, shown
<1> HIDE DEF later
<1> QED
  BY <1>5, <1>6, <1>7, <1>8, <1>9 DEF Repainted, later

\* However long the series and whatever the bar that follows: swing points and sweeps stay, a
\* gap of the window keeps its bounds and the bar that filled it, and a block that was closed
\* through does not become valid again (detector.ts).
THEOREM StructureStays == DecisionSpec => []StructureIsNotRepainted
<1>1. DecisionInv => StructureIsNotRepainted
  <2> SUFFICES ASSUME DecisionInv, Answered("structure") PROVE StructureIsNotRepainted
    BY DEF StructureIsNotRepainted
  <2>1. answer = Structure(question) /\ question \in Bars
    BY DEF DecisionInv, Answered
  <2>2. Repainted(question)
    BY <2>1, OneBarMoreRepaintsNothing
  <2>3. Repainted(question) => StructureIsNotRepainted
    BY <2>1 DEF Repainted, StructureIsNotRepainted
  <2> QED
    BY <2>2, <2>3
<1> QED
  BY <1>1, DecisionsHold, PTL

-----------------------------------------------------------------------------
(* The signal the agent composes. *)

\* What is opened has confidence enough.
LEMMA OpenedIsSure ==
  ASSUME NEW found \in FoundType, G!GatedArb(found).action = "open"
  PROVE  /\ G!GatedArb(found) = found.arb
         /\ found.arb.action = "open"
         /\ G!Confidence(found) >= 45
<1> DEFINE floor == G!Threshold(found, found.arb)
           conf == G!Confidence(found)
<1>1. found.arb \in ArbType /\ found.arb.confidence \in Int
  BY DEF FoundType, ArbType
<1>2. floor \in Int /\ floor >= 45
  BY DEF G!Threshold, G!Lower
<1>3. conf \in Int
  BY <1>1 DEF G!Confidence, G!Lower
<1>4. G!GatedArb(found) = IF conf < floor /\ found.arb.action = "open"
                            THEN [found.arb EXCEPT !.action = "hold", !.confidence = G!Lower(conf, floor - 5)]
                            ELSE found.arb
  BY DEF G!GatedArb
<1> HIDE DEF floor, conf
<1>5. ~(conf < floor /\ found.arb.action = "open")
  BY <1>1, <1>4 DEF ArbType
<1> QED
  BY <1>2, <1>3, <1>4, <1>5 DEF conf

\* The validation keeps the types, and the trade it does not hold; a trade without one of
\* its prices or with a level on the wrong side is held.
LEMMA ValidTradeType ==
  ASSUME NEW trade \in TradeType, NEW current
  PROVE  LET v == G!ValidateTrade(trade, current) IN
           /\ v.trade \in TradeType
           /\ v.valid \/ v.trade.direction # "hold" \/ trade.direction = "hold" => v.trade = trade
           /\ /\ trade.direction \in {"buy", "sell"}
              /\ 0 \in {trade.entry, trade.sl, trade.tp1} \/ G!Unprotected(trade) \/ G!Unpaid(trade)
              => v.valid = FALSE /\ v.trade.direction = "hold"
<1> DEFINE kept == G!Repaired(trade)
           warned == G!Warned(trade, current)
           sound == kept.direction \notin {"buy", "sell"} \/ (kept.sl > 0 /\ kept.tp1 > 0)
           v == G!ValidateTrade(trade, current)
           bad == /\ trade.direction \in {"buy", "sell"}
                  /\ 0 \in {trade.sl, trade.tp1} \/ G!Unprotected(trade) \/ G!Unpaid(trade)
<1>1. kept \in TradeType /\ kept.direction = trade.direction
  BY DEF G!Repaired, TradeType
<1>2. /\ sound => kept = trade
      /\ bad => ~sound
  <2>1. trade.sl \in Nat /\ trade.tp1 \in Nat
    BY DEF TradeType
  <2>2. ~G!Unprotected(trade) /\ ~G!Unpaid(trade) => kept = trade
    BY DEF G!Repaired, TradeType
  <2>3. /\ G!Unprotected(trade) => kept.sl = 0 /\ trade.direction \in {"buy", "sell"}
        /\ G!Unpaid(trade) => kept.tp1 = 0 /\ trade.direction \in {"buy", "sell"}
    BY DEF G!Repaired, TradeType, G!Unprotected, G!Unpaid, G!TradeSides
  <2> HIDE DEF kept
  <2> QED
    BY <1>1, <2>1, <2>2, <2>3
<1>3. v = IF trade.entry <= 0 THEN [valid |-> FALSE, trade |-> [trade EXCEPT !.direction = "hold"]]
          ELSE [valid |-> sound /\ ~warned, trade |-> IF sound THEN kept ELSE [kept EXCEPT !.direction = "hold"]]
  BY DEF G!ValidateTrade, G!TradeSides
<1>4. /\ [trade EXCEPT !.direction = "hold"] \in TradeType
      /\ [trade EXCEPT !.direction = "hold"].direction = "hold"
      /\ trade.direction = "hold" => [trade EXCEPT !.direction = "hold"] = trade
  BY DEF TradeType
<1>5. [kept EXCEPT !.direction = "hold"] \in TradeType /\ [kept EXCEPT !.direction = "hold"].direction = "hold"
  BY <1>1 DEF TradeType
<1>6. trade.direction = "hold" => sound
  BY <1>1
<1>7. 0 \in {trade.entry, trade.sl, trade.tp1} => trade.entry <= 0 \/ 0 \in {trade.sl, trade.tp1}
  BY DEF TradeType
<1> HIDE DEF kept, warned, sound, v
<1>8. CASE trade.entry <= 0
  <2>1. v = [valid |-> FALSE, trade |-> [trade EXCEPT !.direction = "hold"]]
    BY <1>3, <1>8
  <2>2. v.valid = FALSE /\ v.trade = [trade EXCEPT !.direction = "hold"]
    BY <2>1
  <2> QED
    BY <1>4, <2>2 DEF v
<1>9. CASE ~(trade.entry <= 0) /\ sound
  <2>1. v.trade = trade /\ ~bad
    BY <1>2, <1>3, <1>9
  <2>2. ~(trade.direction \in {"buy", "sell"} /\ (0 \in {trade.entry, trade.sl, trade.tp1} \/ G!Unprotected(trade) \/ G!Unpaid(trade)))
    BY <1>7, <1>9, <2>1
  <2> QED
    BY <2>1, <2>2 DEF v
<1>10. CASE ~(trade.entry <= 0) /\ ~sound
  <2>1. v = [valid |-> FALSE, trade |-> [kept EXCEPT !.direction = "hold"]]
    BY <1>3, <1>10
  <2>2. v.valid = FALSE /\ v.trade = [kept EXCEPT !.direction = "hold"]
    BY <2>1
  <2> QED
    BY <1>5, <1>6, <1>10, <2>2 DEF v
<1> QED
  BY <1>8, <1>9, <1>10

\* A downgraded arbitration holds and keeps its type.
LEMMA DowngradedHolds ==
  ASSUME NEW arb \in ArbType
  PROVE  G!Downgraded(arb) \in ArbType /\ G!Downgraded(arb).action = "hold"
<1> DEFINE low == G!Lower(arb.confidence, 20)
<1>1. low \in Int
  BY DEF G!Lower, ArbType
<1>2. G!Downgraded(arb) = [arb EXCEPT !.direction = "hold", !.action = "hold", !.confidence = low]
  BY DEF G!Downgraded
<1> HIDE DEF low
<1> QED
  BY <1>1, <1>2 DEF ArbType

\* The validation of an arbitration keeps its type, and what it leaves open.
LEMMA ValidArbitrationType ==
  ASSUME NEW arb \in ArbType, NEW current
  PROVE  /\ G!ValidateArbitration(arb, current) \in ArbType
         /\ G!ValidateArbitration(arb, current).action = "open" => G!ValidateArbitration(arb, current) = arb
<1> DEFINE v == G!ValidateTrade(arb.trade, current)
           own == arb.trade
<1>1. own \in TradeType /\ v.trade \in TradeType /\ (own.direction = "hold" => v.trade = own)
  <2>1. own \in TradeType
    BY DEF ArbType
  <2> HIDE DEF own
  <2>2. LET w == G!ValidateTrade(own, current) IN w.trade \in TradeType /\ (own.direction = "hold" => w.trade = own)
    BY <2>1, ValidTradeType
  <2> QED
    BY <2>1, <2>2 DEF own
<1>2. \/ G!ValidateArbitration(arb, current) = arb
      \/ own.direction = "hold" /\ G!ValidateArbitration(arb, current) = [arb EXCEPT !.trade = v.trade]
      \/ G!ValidateArbitration(arb, current) = [G!Downgraded(arb) EXCEPT !.trade = v.trade]
  BY DEF G!ValidateArbitration
<1> HIDE DEF v
<1>3. G!Downgraded(arb) \in ArbType /\ G!Downgraded(arb).action = "hold"
  BY DowngradedHolds
<1>4. own.direction = "hold" => [arb EXCEPT !.trade = v.trade] = arb
  BY <1>1 DEF ArbType
<1>5. [G!Downgraded(arb) EXCEPT !.trade = v.trade] \in ArbType
        /\ [G!Downgraded(arb) EXCEPT !.trade = v.trade].action = "hold"
  BY <1>1, <1>3 DEF ArbType
<1> QED
  BY <1>2, <1>4, <1>5

\* What is open after the validation is as it was, and its trade is whole and well placed.
LEMMA OpenedIsWellPlaced ==
  ASSUME NEW arb \in ArbType, NEW current
  PROVE  /\ G!ValidateDecision(arb, current) \in ArbType
         /\ G!ValidateDecision(arb, current).action = "open" =>
              /\ G!ValidateDecision(arb, current) = arb
              /\ arb.trade.direction \in {"buy", "sell"} =>
                   /\ 0 \notin {arb.trade.entry, arb.trade.sl, arb.trade.tp1}
                   /\ ~G!Unprotected(arb.trade) /\ ~G!Unpaid(arb.trade)
<1> DEFINE own == arb.trade
           v == G!ValidateTrade(own, current)
           first == IF v.valid THEN arb
                    ELSE IF v.trade.direction = "hold" THEN [G!Downgraded(arb) EXCEPT !.trade = v.trade]
                    ELSE [arb EXCEPT !.trade = v.trade]
           bad == /\ own.direction \in {"buy", "sell"}
                  /\ 0 \in {own.entry, own.sl, own.tp1} \/ G!Unprotected(own) \/ G!Unpaid(own)
<1>1. G!ValidateDecision(arb, current) = IF own.direction = "none" THEN arb
                                         ELSE G!ValidateArbitration(first, current)
  BY DEF G!ValidateDecision
<1>2. /\ v.trade \in TradeType
      /\ v.valid \/ v.trade.direction # "hold" => v.trade = own
      /\ bad => v.valid = FALSE /\ v.trade.direction = "hold"
  <2>1. own \in TradeType
    BY DEF ArbType
  <2> HIDE DEF own
  <2> QED
    BY <2>1, ValidTradeType
<1> HIDE DEF v
<1>3. G!Downgraded(arb) \in ArbType /\ G!Downgraded(arb).action = "hold"
  BY DowngradedHolds
<1>4. v.trade.direction # "hold" => [arb EXCEPT !.trade = v.trade] = arb
  BY <1>2 DEF ArbType
<1>5. [G!Downgraded(arb) EXCEPT !.trade = v.trade] \in ArbType
        /\ [G!Downgraded(arb) EXCEPT !.trade = v.trade].action = "hold"
  BY <1>2, <1>3 DEF ArbType
<1> HIDE DEF bad
<1>6. /\ first \in ArbType
      /\ first.action = "open" => first = arb
      /\ bad => first.action = "hold"
  BY <1>2, <1>4, <1>5
<1> HIDE DEF first
<1>7. /\ G!ValidateArbitration(first, current) \in ArbType
      /\ G!ValidateArbitration(first, current).action = "open" => G!ValidateArbitration(first, current) = first
  BY <1>6, ValidArbitrationType
<1>8. CASE own.direction = "none"
  BY <1>1, <1>8
<1>9. CASE own.direction # "none"
  <2>1. G!ValidateDecision(arb, current).action = "open" => first = arb /\ ~bad /\ G!ValidateDecision(arb, current) = arb
    BY <1>1, <1>6, <1>7, <1>9
  <2> QED
    BY <1>1, <1>7, <1>9, <2>1 DEF bad
<1> QED
  BY <1>8, <1>9

\* The answer recommends a whole trade.
WholeTrade(trade) ==
  trade.direction \in {"buy", "sell", "dual"} /\ 0 \notin {trade.entry, trade.sl, trade.tp1}

\* What the analysis hands over: nothing to open unless the answer was understood; and the
\* trade that goes with an opening is the recommended one when that is whole, with no level
\* on the wrong side.
LEMMA AnalysisIsSound ==
  ASSUME NEW call, NEW said \in FoundType, NEW current \in Int, NEW others
  PROVE  /\ G!Analysed(call, said, current, others) \in FoundType
         /\ G!Analysed(call, said, current, others).arb.action = "open" =>
              LET found == G!Analysed(call, said, current, others)
                  was == said.arb.trade
                  is == found.arb.trade
              IN /\ G!Understood(call, said)
                 /\ found.risk.lots = said.risk.lots
                 /\ was.direction \in {"buy", "sell"} /\ call.format # "markdown" => WholeTrade(was)
                 /\ is.direction \in {"buy", "sell"} <=> WholeTrade(was)
                 /\ WholeTrade(was) =>
                      /\ is.entry = was.entry /\ is.sl = was.sl /\ is.tp1 = was.tp1
                      /\ was.direction # "dual" => is.direction = was.direction
                      /\ ~G!Unprotected(is) /\ ~G!Unpaid(is)
<1>1. CASE ~G!Understood(call, said)
  <2>1. G!Analysed(call, said, current, others) = G!Fallback
    BY <1>1 DEF G!Analysed
  <2>2. G!Fallback.arb \in ArbType /\ G!Fallback.arb.action = "hold"
    BY DEF G!Fallback, ArbType, TradeType, G!NoTrade
  <2>3. G!Fallback \in FoundType
    BY <2>2 DEF G!Fallback, FoundType
  <2> QED
    BY <2>1, <2>2, <2>3
<1>2. CASE G!Understood(call, said)
  <2> DEFINE was == said.arb.trade
             read == IF G!ReadAs(call, "markdown") THEN G!Recommended(was) ELSE was
             arb == [said.arb EXCEPT !.trade = read]
             valid == G!ValidateDecision(arb, current)
             sane == G!SanePrice(said.risk.sl, current, others)
             heard == [said EXCEPT !.risk.sl = sane, !.arb = valid]
  <2>1. was \in TradeType /\ said.arb \in ArbType
    BY DEF FoundType, ArbType
  <2>2. G!Analysed(call, said, current, others) = heard
    BY <1>2 DEF G!Analysed
  <2>3. sane \in Nat
    <3>1. said.risk.sl \in Nat
      BY DEF FoundType
    <3> QED
      BY <3>1 DEF G!SanePrice
  <2>4. /\ call.format # "markdown" => read = was
        /\ read # was => G!ReadAs(call, "markdown")
        /\ ~G!ReadAs(call, "markdown") => was.direction # "dual"
    BY <1>2 DEF G!ReadAs, G!Understood, G!SchemaAllows
  <2>5. /\ G!Recommended(was) \in TradeType
        /\ G!Recommended(was).direction \in {"buy", "sell"} <=> WholeTrade(was)
        /\ WholeTrade(was) =>
             /\ G!Recommended(was).entry = was.entry /\ G!Recommended(was).sl = was.sl
             /\ G!Recommended(was).tp1 = was.tp1
             /\ was.direction # "dual" => G!Recommended(was).direction = was.direction
    BY <2>1 DEF G!Recommended, G!NoTrade, TradeType, WholeTrade
  <2> HIDE DEF was
  <2>6. /\ read \in TradeType
        /\ WholeTrade(was) =>
             /\ read.direction \in {"buy", "sell"}
             /\ read.entry = was.entry /\ read.sl = was.sl /\ read.tp1 = was.tp1
             /\ was.direction # "dual" => read.direction = was.direction
        /\ read.direction \in {"buy", "sell"} /\ 0 \notin {read.entry, read.sl, read.tp1} => WholeTrade(was)
    BY <2>1, <2>4, <2>5 DEF WholeTrade
  <2> HIDE DEF read
  <2>7. arb \in ArbType /\ arb.trade = read
    BY <2>1, <2>6 DEF ArbType
  <2> HIDE DEF arb, sane
  <2>8. /\ valid \in ArbType
        /\ valid.action = "open" =>
             /\ valid.trade = read
             /\ read.direction \in {"buy", "sell"} =>
                  0 \notin {read.entry, read.sl, read.tp1} /\ ~G!Unprotected(read) /\ ~G!Unpaid(read)
    BY <2>7, OpenedIsWellPlaced
  <2> HIDE DEF valid
  <2>9. heard \in FoundType /\ heard.arb = valid /\ heard.risk.lots = said.risk.lots
    BY <2>3, <2>8 DEF FoundType
  <2> HIDE DEF heard
  <2>10. ASSUME valid.action = "open"
         PROVE  /\ was.direction \in {"buy", "sell"} /\ call.format # "markdown" => WholeTrade(was)
                /\ read.direction \in {"buy", "sell"} <=> WholeTrade(was)
                /\ WholeTrade(was) => ~G!Unprotected(read) /\ ~G!Unpaid(read)
    BY <2>4, <2>6, <2>8, <2>10
  <2> QED
    BY <1>2, <2>2, <2>6, <2>8, <2>9, <2>10 DEF was
<1> QED
  BY <1>1, <1>2

\* A part of a positive distance is one, and the part it is but for the rounding.
LEMMA RoundedUpIsPositive ==
  ASSUME NEW a \in Nat, NEW b \in Nat, NEW d \in Nat \ {0}, b > 0
  PROVE  /\ G!RoundedUp(a * b, d) \in Nat
         /\ a > 0 => G!RoundedUp(a * b, d) >= 1
         /\ d * G!RoundedUp(a * b, d) - a * b \in 0 .. d - 1
<1> DEFINE n == a * b
           m == n + d - 1
           k == m \div d
<1>1. n \in Nat /\ (a > 0 => n >= 1)
  OBVIOUS
<1> HIDE DEF n
<1>2. m \in Int /\ m >= 0 /\ (n >= 1 => m >= d)
  BY <1>1
<1> HIDE DEF m
<1>3. k \in Int /\ d * k \in Int /\ m < d * k + d /\ d * k <= m
  BY <1>2, Z3
<1>4. G!RoundedUp(n, d) = k
  BY DEF G!RoundedUp, m
<1> HIDE DEF k
<1>5. k >= 0 /\ (n >= 1 => k >= 1)
  <2>1. ASSUME k <= -1 PROVE FALSE
    <3>1. d * k <= -d
      BY <1>3, <2>1, Z3
    <3> QED
      BY <1>2, <1>3, <3>1
  <2>2. ASSUME k = 0, n >= 1 PROVE FALSE
    BY <1>2, <1>3, <2>2
  <2> QED
    BY <1>3, <2>1, <2>2
<1>6. d * k - n \in 0 .. d - 1
  <2>1. m = n + d - 1
    BY DEF m
  <2> HIDE DEF n
  <2> QED
    BY <1>1, <1>3, <2>1
<1> QED
  BY <1>1, <1>3, <1>4, <1>5, <1>6 DEF n

\* What an insight says of its trade.
IntentType ==
  [trigger : {"none", "market", "pullback", "breakout"}, offset : Nat, sl : Nat, tp1 : Nat, tp2 : Nat,
   atr : Nat \ {0}]

\* Distances are natural numbers.
LEMMA ApartIsNat == ASSUME NEW a \in Int, NEW b \in Int PROVE G!Apart(a, b) \in Nat
  BY DEF G!Apart

\* An insight states its trade in distances, scaled by an ATR that is not zero.
LEMMA IntentIsTyped ==
  ASSUME NEW trade \in TradeType, NEW current \in Int, NEW unit \in Nat
  PROVE  /\ G!TradeIntent(trade, current, unit) \in IntentType
         /\ IF trade.direction \in {"buy", "sell"} /\ unit > 0 /\ current > 0
              THEN /\ G!TradeIntent(trade, current, unit).sl = G!Apart(trade.entry, trade.sl)
                   /\ G!TradeIntent(trade, current, unit).tp1 = G!Apart(trade.entry, trade.tp1)
                   /\ G!TradeIntent(trade, current, unit).atr = unit
              ELSE G!TradeIntent(trade, current, unit).sl = 0 /\ G!TradeIntent(trade, current, unit).tp1 = 0
<1>1. trade.entry \in Int /\ trade.sl \in Int /\ trade.tp1 \in Int /\ trade.tp2 \in Int
  BY DEF TradeType
<1> DEFINE offset == G!Apart(trade.entry, current)
           sl == G!Apart(trade.entry, trade.sl)
           tp1 == G!Apart(trade.tp1, trade.entry)
           tp2 == IF trade.tp2 > 0 THEN G!Apart(trade.tp2, trade.entry) ELSE 0
           behind == G!Forward(trade.direction, current, trade.entry) < 0
           near == 20 * offset <= unit
<1>2. offset \in Nat /\ sl \in Nat /\ tp1 \in Nat /\ tp2 \in Nat
  BY <1>1, ApartIsNat
<1>3. G!TradeIntent(trade, current, unit) =
        IF trade.direction \notin G!TradeSides \/ unit <= 0 \/ current <= 0
          THEN [trigger |-> "none", offset |-> 0, sl |-> 0, tp1 |-> 0, tp2 |-> 0, atr |-> 1]
          ELSE [trigger |-> IF near THEN "market" ELSE IF behind THEN "pullback" ELSE "breakout",
                offset |-> offset, sl |-> sl, tp1 |-> tp1, tp2 |-> tp2, atr |-> unit]
  BY DEF G!TradeIntent
<1>4. G!Apart(trade.entry, trade.tp1) = tp1
  BY <1>1 DEF G!Apart
<1> HIDE DEF offset, tp1, tp2, near, behind
<1>5. CASE trade.direction \notin G!TradeSides \/ unit <= 0 \/ current <= 0
  <2>1. ~(trade.direction \in {"buy", "sell"} /\ unit > 0 /\ current > 0)
    BY <1>5 DEF G!TradeSides
  <2>2. G!TradeIntent(trade, current, unit) = [trigger |-> "none", offset |-> 0, sl |-> 0, tp1 |-> 0, tp2 |-> 0, atr |-> 1]
    BY <1>3, <1>5
  <2> QED
    BY <2>1, <2>2 DEF IntentType
<1>6. CASE ~(trade.direction \notin G!TradeSides \/ unit <= 0 \/ current <= 0)
  <2>1. trade.direction \in {"buy", "sell"} /\ unit > 0 /\ current > 0
    BY <1>6 DEF G!TradeSides
  <2> DEFINE trigger == IF near THEN "market" ELSE IF behind THEN "pullback" ELSE "breakout"
  <2>2. trigger \in {"market", "pullback", "breakout"}
    OBVIOUS
  <2>3. G!TradeIntent(trade, current, unit) =
          [trigger |-> trigger, offset |-> offset, sl |-> sl, tp1 |-> tp1, tp2 |-> tp2, atr |-> unit]
    BY <1>3, <1>6
  <2> HIDE DEF trigger
  <2> QED
    BY <1>2, <1>4, <2>1, <2>2, <2>3 DEF IntentType
<1> QED
  BY <1>5, <1>6

\* The order of a call.
OrderType ==
  [type : {"place_market_order", "place_pending_order"}, account : STRING, symbol : STRING,
   side : {"buy", "sell"}, entry : Int, sl : Int, tp1 : Int, tp2 : SUBSET Int, lots : Int,
   order : {"limit", "stop", "none"}, ticket : {0}]

\* Where an order is opened.
OpenedAt(built, quote) ==
  IF built.type = "place_market_order" THEN IF built.side = "buy" THEN quote.ask ELSE quote.bid ELSE built.entry

\* How far a level may be from the price of the order: what the insight states, in the
\* account's ATR, and less than the price if that is, or if the call named a near level.
SoundDistance(stated, made, unit, named, at, d) ==
  /\ d > 0
  /\ stated > 0 => made * d - stated * unit \in 0 .. made - 1
  /\ (IF stated > 0 THEN stated * unit <= made * (at - 1) ELSE named \in 1 .. 2 * at - 1 /\ 3 * unit < at)
       => d < at /\ at > 0

\* The distances of a rebuilt order are such.
LEMMA DistanceIsSound ==
  ASSUME NEW stated \in Nat, NEW made \in Nat \ {0}, NEW unit \in Nat, unit > 0, NEW named \in Int,
         NEW at \in Int, NEW spare \in 1 .. 3 * unit, NEW gap \in Nat,
         gap = G!Apart(at, named)
  PROVE  LET d == IF stated > 0 THEN G!RoundedUp(stated * unit, made) ELSE G!Either(gap, spare)
         IN d \in Nat /\ SoundDistance(stated, made, unit, named, at, d)
<1>1. CASE stated > 0
  <2> DEFINE d == G!RoundedUp(stated * unit, made)
             n == stated * unit
  <2>1. d \in Nat /\ d >= 1 /\ made * d - n \in 0 .. made - 1
    BY <1>1, RoundedUpIsPositive
  <2>2. n \in Nat
    OBVIOUS
  <2> HIDE DEF d, n
  <2>3. ASSUME n <= made * (at - 1) PROVE d < at /\ at > 0
    <3>1. made * (at - 1) = made * at - made /\ made * at \in Int /\ made * d \in Int
      BY <2>1
    <3>2. made * d < made * at
      BY <2>1, <2>2, <2>3, <3>1
    <3>3. ASSUME d >= at PROVE FALSE
      <4>1. made * d >= made * at
        BY <2>1, <3>3, Z3
      <4> QED
        BY <3>1, <3>2, <4>1
    <3> QED
      BY <2>1, <3>3
  <2> QED
    BY <1>1, <2>1, <2>3 DEF SoundDistance, d, n
<1>2. CASE ~(stated > 0)
  <2> DEFINE d == G!Either(gap, spare)
  <2>1. d \in Nat /\ d > 0 /\ (d = gap \/ d <= 3 * unit)
    BY DEF G!Either
  <2>2. ASSUME named \in 1 .. 2 * at - 1, 3 * unit < at PROVE d < at /\ at > 0
    <3>1. gap < at
      BY <2>2 DEF G!Apart
    <3> QED
      BY <2>1, <2>2, <3>1
  <2> HIDE DEF d
  <2> QED
    BY <1>2, <2>1, <2>2 DEF SoundDistance, d
<1> QED
  BY <1>1, <1>2

\* What an order made of the insight at the account's price is: its stop is behind that
\* price and its targets are not, at sound distances.
SoundlyBuilt(o, intent, quote, unit, sl, tp1) ==
  LET at == OpenedAt(o, quote) IN
    /\ SoundDistance(intent.sl, intent.atr, unit, sl, at, G!Forward(o.side, o.sl, at))
    /\ SoundDistance(intent.tp1, intent.atr, unit, tp1, at, G!Forward(o.side, at, o.tp1))
    /\ \A t \in o.tp2 : G!Forward(o.side, at, t) >= 0

\* An order made of the insight at the account's price is built so.
LEMMA RebuiltIsSound ==
  ASSUME NEW action \in OrderType, NEW intent \in IntentType, NEW quote \in QuoteType, NEW unit \in Nat,
         unit > 0, quote.bid > 0, quote.ask > 0
  PROVE  LET built == G!RebuiltOrder(action, intent, quote, unit) IN
           /\ built \in OrderType
           /\ built.type = action.type /\ built.side = action.side /\ built.lots = action.lots
           /\ built.account = action.account /\ built.symbol = action.symbol /\ built.order = action.order
           /\ SoundlyBuilt(built, intent, quote, unit, action.sl, action.tp1)
<1> DEFINE market == action.type = "place_market_order"
           price == IF market THEN G!ExecutedAt(quote, action.side) ELSE G!Middle(quote)
           offset == G!RoundedUp(intent.offset * unit, intent.atr)
           anchor == IF market THEN price ELSE G!RestingEntry(action.side, intent, price, offset)
           ahead(d) == IF action.side = "buy" THEN anchor + d ELSE anchor - d
           stop == IF intent.sl > 0 THEN G!RoundedUp(intent.sl * unit, intent.atr)
                   ELSE G!Either(G!Apart(anchor, action.sl), (3 * unit) \div 2)
           near == IF intent.tp1 > 0 THEN G!RoundedUp(intent.tp1 * unit, intent.atr)
                   ELSE G!Either(G!Apart(action.tp1, anchor), 3 * unit)
           far == IF intent.tp2 > 0 THEN {G!RoundedUp(intent.tp2 * unit, intent.atr)}
                  ELSE {G!Apart(t, anchor) : t \in action.tp2}
           sl == ahead(-stop)
           tp1 == ahead(near)
           tp2 == {ahead(d) : d \in far}
           entry == IF market THEN action.entry ELSE anchor
           built == G!RebuiltOrder(action, intent, quote, unit)
<1>1. price \in Int /\ price > 0
  BY DEF G!ExecutedAt, G!Middle, QuoteType
<1>2. built = [action EXCEPT !.entry = entry, !.sl = sl, !.tp1 = tp1, !.tp2 = tp2]
  <2>1. built = IF price <= 0 THEN action
                ELSE [action EXCEPT !.entry = entry, !.sl = sl, !.tp1 = tp1, !.tp2 = tp2]
    BY DEF G!RebuiltOrder
  <2> HIDE DEF price, entry, sl, tp1, tp2, built
  <2> QED
    BY <1>1, <2>1
<1>3. /\ intent.sl \in Nat /\ intent.tp1 \in Nat /\ intent.tp2 \in Nat /\ intent.offset \in Nat
      /\ intent.atr \in Nat \ {0}
  BY DEF IntentType
<1>4. offset \in Nat
  BY <1>3, RoundedUpIsPositive
<1>5. anchor \in Int
  BY <1>1, <1>4 DEF G!RestingEntry
<1>6. /\ market => anchor = IF action.side = "buy" THEN quote.ask ELSE quote.bid
      /\ action.side \in {"buy", "sell"} /\ market \in BOOLEAN
      /\ market = (action.type = "place_market_order")
  BY DEF G!ExecutedAt, OrderType
<1>7. action.sl \in Int /\ action.tp1 \in Int /\ action.tp2 \subseteq Int
  BY DEF OrderType
<1> HIDE DEF anchor, built
<1>8. stop \in Nat /\ SoundDistance(intent.sl, intent.atr, unit, action.sl, anchor, stop)
  <2>1. G!Apart(anchor, action.sl) \in Nat
    BY <1>5, <1>7, ApartIsNat
  <2>2. (3 * unit) \div 2 \in 1 .. 3 * unit
    OBVIOUS
  <2> QED
    BY <1>3, <1>5, <1>7, <2>1, <2>2, DistanceIsSound
<1>9. near \in Nat /\ SoundDistance(intent.tp1, intent.atr, unit, action.tp1, anchor, near)
  <2>1. G!Apart(anchor, action.tp1) \in Nat
    BY <1>5, <1>7, ApartIsNat
  <2>2. G!Apart(action.tp1, anchor) = G!Apart(anchor, action.tp1)
    BY <1>5, <1>7 DEF G!Apart
  <2>3. 3 * unit \in 1 .. 3 * unit
    OBVIOUS
  <2> QED
    BY <1>3, <1>5, <1>7, <2>1, <2>2, <2>3, DistanceIsSound
<1>10. far \subseteq Nat
  <2>1. ASSUME NEW t \in action.tp2 PROVE G!Apart(t, anchor) \in Nat
    BY <1>5, <1>7, ApartIsNat
  <2>2. intent.tp2 > 0 => G!RoundedUp(intent.tp2 * unit, intent.atr) \in Nat
    BY <1>3, RoundedUpIsPositive
  <2> QED
    BY <2>1, <2>2
<1> HIDE DEF stop, near, far, market
<1>11. /\ sl \in Int /\ tp1 \in Int /\ tp2 \in SUBSET Int
       /\ G!Forward(action.side, sl, anchor) = stop
       /\ G!Forward(action.side, anchor, tp1) = near
       /\ \A t \in tp2 : G!Forward(action.side, anchor, t) >= 0
  <2>1. ASSUME NEW d \in far PROVE ahead(d) \in Int /\ G!Forward(action.side, anchor, ahead(d)) >= 0
    BY <1>5, <1>6, <1>10 DEF G!Forward
  <2>2. sl \in Int /\ tp1 \in Int /\ G!Forward(action.side, sl, anchor) = stop /\ G!Forward(action.side, anchor, tp1) = near
    BY <1>5, <1>6, <1>8, <1>9 DEF G!Forward
  <2> QED
    BY <2>1, <2>2
<1>12. entry \in Int
  BY <1>5, <1>6 DEF OrderType
<1> HIDE DEF sl, tp1, tp2, entry
<1>13. /\ built \in OrderType
       /\ built.type = action.type /\ built.side = action.side /\ built.lots = action.lots
       /\ built.account = action.account /\ built.symbol = action.symbol /\ built.order = action.order
       /\ built.entry = entry /\ built.sl = sl /\ built.tp1 = tp1 /\ built.tp2 = tp2
  BY <1>2, <1>11, <1>12 DEF OrderType
<1>14. OpenedAt(built, quote) = anchor
  BY <1>6, <1>13 DEF OpenedAt, entry
<1>15. SoundlyBuilt(built, intent, quote, unit, action.sl, action.tp1)
  BY <1>8, <1>9, <1>11, <1>13, <1>14 DEF SoundlyBuilt
<1> QED
  BY <1>13, <1>15 DEF built

\* What the agent knows when it composes its signal.
SituationType ==
  [account : STRING, symbol : STRING, found : FoundType, arb : ArbType, tick : QuoteType, blocking : SUBSET STRING]

\* A plan made of the analysis has all of its fields, and no market it closes.
FilledSoundly(p, st) ==
  /\ p.sl > 0 /\ p.tps # {} /\ p.lots > 0 /\ p.lots = st.found.risk.lots
  /\ st.blocking \cap G!Critical = {}

\* A plan made of the analysis is approved only with its fields, and for an opening or a dual.
LEMMA FilledIsSound ==
  ASSUME NEW st \in SituationType, NEW side, G!FilledPlan(st, side, G!PlanMode(st)).mode = "approve"
  PROVE  /\ FilledSoundly(G!FilledPlan(st, side, G!PlanMode(st)), st)
         /\ st.arb.action = "open" \/ st.arb.direction = "dual"
<1> DEFINE mode == G!PlanMode(st)
           p == G!FilledPlan(st, side, mode)
           low == G!Lower(st.tick.bid, st.tick.ask)
           tps == G!TakeProfits(st, side)
           complete == /\ side # "none" /\ low > 0 /\ st.found.risk.sl > 0
                       /\ tps # {} /\ st.found.risk.lots > 0
           high == st.tick.bid + st.tick.ask - low
           active == mode \notin {"observe", "veto"}
           execution == IF mode = "approve" THEN "market" ELSE "none"
           seen == IF active \/ mode = "veto" THEN "none" ELSE side
           told == IF active THEN "observe" ELSE mode
<1>1. p = IF active /\ complete
            THEN G!PlanOf(mode, side, execution, low, high, st.found.risk.sl, tps, st.found.risk.lots)
            ELSE G!PlanOf(told, seen, "none", 0, 0, 0, {}, 0)
  BY DEF G!FilledPlan
<1>2. p.mode = "approve"
  OBVIOUS
<1>3. active => told = "observe"
  OBVIOUS
<1>4. ~active => mode # "approve" /\ told = mode
  OBVIOUS
<1> HIDE DEF low, high, tps, execution, seen, told, active, p, complete, mode
<1>5. active /\ complete
  <2>1. ASSUME ~(active /\ complete) PROVE FALSE
    <3>1. p.mode = told
      BY <1>1, <2>1 DEF G!PlanOf
    <3> QED
      BY <1>2, <1>3, <1>4, <3>1
  <2> QED
    BY <2>1
<1>6. p.mode = mode /\ p.sl = st.found.risk.sl /\ p.tps = tps /\ p.lots = st.found.risk.lots
  BY <1>1, <1>5 DEF G!PlanOf
<1>7. mode = "approve"
  BY <1>2, <1>6
<1>8. st.blocking \cap G!Critical = {} /\ (st.arb.action = "open" \/ st.arb.direction = "dual")
  BY <1>7 DEF mode, G!PlanMode
<1> QED
  BY <1>5, <1>6, <1>8 DEF FilledSoundly, complete, p, mode

\* An approved plan goes out with an opening that has confidence: it is the order of the
\* call, of the account itself where the insight is shared, or one made of the analysis.
LEMMA ApprovedIsOpened ==
  ASSUME NEW st \in SituationType, st.arb = st.found.arb, NEW action, NEW shared \in BOOLEAN,
         NEW p \in {G!ComposeFinalSignal(st, action, shared).plan} \cup G!ComposeFinalSignal(st, action, shared).legs,
         p.mode = "approve"
  PROVE  /\ G!ComposeFinalSignal(st, action, shared).action = "open"
         /\ G!ComposeFinalSignal(st, action, shared).confidence >= 45
         /\ st.found.arb.action = "open"
         /\ \/ /\ p = G!PlanFromAction(st, action) /\ action.type \in G!Placing
               /\ shared => action.account = st.account /\ action.symbol = st.symbol
            \/ ~shared /\ FilledSoundly(p, st)
<1> DEFINE found == st.found
           gated == G!GatedArb(found)
           own == action.type \in G!Placing /\ action.account = st.account /\ action.symbol = st.symbol
           arb1 == IF shared /\ gated.action = "open" /\ ~own THEN G!Vetoed(gated) ELSE gated
           st1 == [st EXCEPT !.arb = arb1]
           ordered == arb1.action = "open" /\ action.type \in G!Placing /\ (shared => own)
           plan1 == IF ordered THEN G!PlanFromAction(st1, action)
                    ELSE IF shared THEN G!NoPlan ELSE G!BuildTradePlan(st1)
           arb2 == IF shared /\ arb1.action = "open" /\ plan1 = G!NoPlan THEN G!Vetoed(arb1) ELSE arb1
           legs1 == IF shared \/ arb2.action # "open" THEN {} ELSE G!BuildDualTradePlan(st1)
           sure == IF gated = found.arb THEN G!Confidence(found) ELSE gated.confidence
           s == G!ComposeFinalSignal(st, action, shared)
<1>1. s.plan = plan1 /\ s.legs = legs1 /\ s.action = arb2.action /\ s.confidence = sure
  BY DEF G!ComposeFinalSignal
<1> HIDE DEF s
<1>2. found \in FoundType /\ found.arb \in ArbType
  BY DEF SituationType, FoundType
<1>3. gated \in ArbType
  <2> DEFINE floor == G!Threshold(found, found.arb)
             conf == G!Confidence(found)
             low == G!Lower(conf, floor - 5)
  <2>1. found.arb.confidence \in Int
    BY <1>2 DEF ArbType
  <2>2. floor \in Int /\ conf \in Int
    BY <2>1 DEF G!Threshold, G!Lower, G!Confidence
  <2>3. low \in Int
    BY <2>2 DEF G!Lower
  <2>4. gated = IF conf < floor /\ found.arb.action = "open"
                  THEN [found.arb EXCEPT !.action = "hold", !.confidence = low] ELSE found.arb
    BY DEF G!GatedArb
  <2> HIDE DEF floor, conf, low, found
  <2> QED
    BY <1>2, <2>3, <2>4 DEF ArbType
<1> HIDE DEF gated, own
<1>4. gated.action = "open" => /\ gated = found.arb /\ found.arb.action = "open"
                               /\ G!Confidence(found) >= 45
  BY <1>2, OpenedIsSure DEF gated
<1>5. G!Vetoed(gated).action = "hold" /\ G!Vetoed(gated) \in ArbType
  BY <1>3 DEF G!Vetoed, ArbType
<1>6. arb1 \in ArbType /\ (arb1.action = "open" => arb1 = gated /\ (shared => own))
  BY <1>3, <1>5
<1> HIDE DEF arb1
<1>7. G!Vetoed(arb1).action = "hold"
  BY <1>6 DEF G!Vetoed, ArbType
<1>8. arb2.action = "open" => arb1.action = "open" /\ ~(shared /\ plan1 = G!NoPlan)
  BY <1>7
<1>9. st1 \in SituationType /\ st1.arb = arb1 /\ st1.found = found /\ st1.blocking = st.blocking
        /\ st1.account = st.account /\ st1.symbol = st.symbol /\ st1.tick = st.tick
  BY <1>6 DEF SituationType
<1> HIDE DEF st1
<1>10. G!PlanFromAction(st1, action) = G!PlanFromAction(st, action)
  BY <1>9 DEF G!PlanFromAction
<1>11. \A q : FilledSoundly(q, st1) <=> FilledSoundly(q, st)
  BY <1>9 DEF FilledSoundly
<1>12. arb1.action = "open" => sure >= 45 /\ found.arb.action = "open"
  BY <1>4, <1>6
<1> HIDE DEF sure
<1>13. G!NoPlan.mode # "approve"
  BY DEF G!NoPlan
<1>14. CASE p = plan1 /\ ordered
  <2>1. p # G!NoPlan
    BY <1>13
  <2>2. arb2.action = "open"
    BY <1>14, <2>1
  <2> QED
    BY <1>1, <1>10, <1>12, <1>14, <2>2 DEF own, s
<1>15. CASE p = plan1 /\ ~ordered
  <2>1. ~shared /\ p = G!BuildTradePlan(st1)
    BY <1>13, <1>15
  <2> DEFINE mode == G!PlanMode(st1)
             side == IF mode = "veto" \/ st1.arb.direction \notin G!TradeSides \cup {"dual"}
                       THEN "none" ELSE st1.arb.direction
  <2>2. p = IF side = "dual" THEN G!NoPlan ELSE G!FilledPlan(st1, side, mode)
    BY <2>1 DEF G!BuildTradePlan
  <2>3. side # "dual" /\ p = G!FilledPlan(st1, side, mode)
    BY <1>13, <2>2
  <2>4. st1.arb.direction = "dual" => mode = "veto"
    BY <2>3 DEF G!TradeSides
  <2> HIDE DEF side
  <2>5. FilledSoundly(p, st1) /\ (st1.arb.action = "open" \/ st1.arb.direction = "dual")
    BY <1>9, <2>3, FilledIsSound
  <2>6. st1.blocking \cap G!Critical = {}
    BY <2>5 DEF FilledSoundly
  <2>7. mode # "veto"
    BY <2>6 DEF G!PlanMode
  <2>8. arb1.action = "open" /\ arb2 = arb1
    BY <1>9, <2>1, <2>4, <2>5, <2>7
  <2> QED
    BY <1>1, <1>11, <1>12, <2>1, <2>5, <2>8 DEF s
<1>16. CASE p \in legs1
  <2>1. ~shared /\ arb2.action = "open" /\ p \in G!BuildDualTradePlan(st1)
    BY <1>16
  <2>2. \E side \in G!TradeSides : p = [G!FilledPlan(st1, side, G!PlanMode(st1)) EXCEPT !.side = side]
    BY <2>1 DEF G!BuildDualTradePlan
  <2>3. PICK side \in G!TradeSides : p = [G!FilledPlan(st1, side, G!PlanMode(st1)) EXCEPT !.side = side]
    BY <2>2
  <2> DEFINE leg == G!FilledPlan(st1, side, G!PlanMode(st1))
  <2>4. DOMAIN leg = {"mode", "side", "execution", "low", "high", "sl", "tps", "lots"}
    BY DEF G!FilledPlan, G!PlanOf
  <2> HIDE DEF leg
  <2>5. p = [leg EXCEPT !.side = side]
    BY <2>3 DEF leg
  <2>6. p.mode = leg.mode /\ p.sl = leg.sl /\ p.tps = leg.tps /\ p.lots = leg.lots
    BY <2>4, <2>5
  <2>7. FilledSoundly(leg, st1)
    BY <1>9, <2>6, FilledIsSound DEF leg
  <2>8. FilledSoundly(p, st1)
    BY <2>6, <2>7 DEF FilledSoundly
  <2>9. arb1.action = "open"
    BY <1>8, <2>1
  <2> QED
    BY <1>1, <1>11, <1>12, <2>1, <2>8, <2>9 DEF s
<1> QED
  BY <1>1, <1>14, <1>15, <1>16 DEF s

\* A placeable call becomes an order of its side with the lots allowed.
LEMMA PlacedOrder ==
  ASSUME NEW use \in UseType, NEW current \in Int, NEW minLots \in Nat, NEW owner \in STRING, NEW symbol \in STRING,
         use.name \in G!Placing, G!PlaceableUse(use, current, minLots)
  PROVE  /\ G!OrderOf(use, owner, symbol) \in OrderType
         /\ G!OrderOf(use, owner, symbol).type = use.name
         /\ G!OrderOf(use, owner, symbol).lots \in minLots .. 50
         /\ G!OrderOf(use, owner, symbol).account = owner
         /\ G!OrderOf(use, owner, symbol).symbol = symbol
         /\ G!OrderOf(use, owner, symbol).sl = use.sl /\ G!OrderOf(use, owner, symbol).tp1 = use.tp1
<1> DEFINE pending == use.name = "place_pending_order"
           entry == IF pending THEN use.entry ELSE 0
           kind == IF pending THEN use.order ELSE "none"
           o == G!OrderOf(use, owner, symbol)
<1>1. o = [type |-> use.name, account |-> owner, symbol |-> symbol, side |-> use.side, entry |-> entry,
           sl |-> use.sl, tp1 |-> use.tp1, tp2 |-> use.tp2, lots |-> use.lots, order |-> kind, ticket |-> 0]
  BY DEF G!OrderOf
<1>2. use.side \in {"buy", "sell"} /\ use.lots \in minLots .. 50
  BY DEF G!PlaceableUse, G!TradeSides, G!LotsAllowed
<1>3. entry \in Int /\ kind \in {"limit", "stop", "none"}
  BY DEF UseType
<1>4. use.name \in {"place_market_order", "place_pending_order"}
  BY DEF G!Placing
<1>5. use.sl \in Int /\ use.tp1 \in Int /\ use.tp2 \in SUBSET Int /\ use.lots \in Int
  BY DEF UseType
<1> HIDE DEF entry, kind, o
<1>6. /\ o \in OrderType /\ o.type = use.name /\ o.lots = use.lots /\ o.account = owner /\ o.symbol = symbol
      /\ o.sl = use.sl /\ o.tp1 = use.tp1
  BY <1>1, <1>2, <1>3, <1>4, <1>5 DEF OrderType
<1> QED
  BY <1>2, <1>6 DEF o

\* What a call without accounts places.
LEMMA LegacyOrder ==
  ASSUME NEW arb, NEW use \in UseType, NEW current \in Int, NEW minLots \in Nat,
         G!DecideTradeAction(arb, use, current, minLots).type \in G!Placing
  PROVE  /\ use.name \in G!Placing
         /\ G!DecideTradeAction(arb, use, current, minLots).lots \in minLots .. 50
<1> DEFINE o == G!DecideTradeAction(arb, use, current, minLots)
<1>1. G!NoAction.type \notin G!Placing /\ G!DoNothing("none").type \notin G!Placing
  BY DEF G!NoAction, G!DoNothing, G!Placing
<1>2. o = G!LegacyAction(use, current, minLots)
  BY <1>1 DEF G!DecideTradeAction
<1>3. use.name \in G!Placing /\ G!PlaceableUse(use, current, minLots) /\ o = G!OrderOf(use, "none", "none")
  BY <1>1, <1>2 DEF G!LegacyAction
<1>4. o.lots = use.lots
  BY <1>3 DEF G!OrderOf
<1> QED
  BY <1>3, <1>4 DEF G!PlaceableUse, G!LotsAllowed

\* Whatever the price, the order keeps its lots.
LEMMA RebuiltKeepsLots ==
  ASSUME NEW action \in OrderType, NEW intent, NEW quote, NEW unit, NEW owner, NEW symbol
  PROVE  [G!RebuiltOrder(action, intent, quote, unit) EXCEPT !.account = owner, !.symbol = symbol].lots = action.lots
<1> DEFINE rebuilt == G!RebuiltOrder(action, intent, quote, unit)
<1>1. DOMAIN action = {"type", "account", "symbol", "side", "entry", "sl", "tp1", "tp2", "lots", "order", "ticket"}
  BY DEF OrderType
<1>2. ASSUME NEW e, NEW a, NEW b, NEW c
      PROVE  LET o == [action EXCEPT !.entry = e, !.sl = a, !.tp1 = b, !.tp2 = c]
             IN o.lots = action.lots /\ DOMAIN o = DOMAIN action
  BY <1>1
<1>3. rebuilt.lots = action.lots /\ DOMAIN rebuilt = DOMAIN action
  BY <1>2 DEF G!RebuiltOrder
<1> HIDE DEF rebuilt
<1>4. [rebuilt EXCEPT !.account = owner, !.symbol = symbol].lots = rebuilt.lots
  BY <1>1, <1>3
<1> QED
  BY <1>3, <1>4 DEF rebuilt

\* What an account places on a shared insight.
LEMMA AccountOrder ==
  ASSUME NEW intent \in IntentType, NEW bench \in Int, NEW benchAtr \in Nat, NEW view \in ViewType,
         NEW use \in UseType, NEW quarters \in Nat,
         G!DecideAccountAction(intent, bench, benchAtr, view, use, quarters).type \in G!Placing
  PROVE  LET o == G!DecideAccountAction(intent, bench, benchAtr, view, use, quarters) IN
           /\ o.lots \in view.minLots .. 50
           /\ view.loaded /\ use.account = view.account /\ use.symbol \in {"none", view.symbol}
           /\ use.name \in G!Placing
           /\ 4 * G!Apart(bench, G!Middle(view.tick)) <= quarters * G!Either(benchAtr, view.atr)
           /\ view.tick.bid > 0 /\ view.tick.ask > 0 =>
                /\ o \in OrderType
                /\ SoundlyBuilt(o, intent, view.tick, G!Either(view.atr, benchAtr), use.sl, use.tp1)
<1> DEFINE o == G!DecideAccountAction(intent, bench, benchAtr, view, use, quarters)
           middle == G!Middle(view.tick)
           unit == G!Either(benchAtr, view.atr)
           own == G!Either(view.atr, unit)
           quote == view.tick
           minLots == view.minLots
           symbol == IF use.symbol = "none" THEN view.symbol ELSE use.symbol
           placed == G!OrderOf(use, use.account, symbol)
           action == G!AccountActionOf(use, middle, minLots, view.symbol)
           rebuilt == G!RebuiltOrder(action, intent, quote, own)
<1>1. /\ view.atr \in Nat /\ minLots \in Nat /\ quote \in QuoteType /\ middle \in Int
      /\ symbol \in STRING /\ use.account \in STRING /\ view.account \in STRING /\ view.symbol \in STRING
  BY DEF ViewType, QuoteType, UseType, G!Middle
<1>2. unit \in Nat /\ own \in Nat /\ (unit > 0 => own > 0) /\ own = G!Either(view.atr, benchAtr)
  BY <1>1 DEF G!Either
<1>3. /\ G!NoAction.type \notin G!Placing
      /\ \A a : G!DoNothing(a).type \notin G!Placing
  BY DEF G!NoAction, G!DoNothing, G!Placing
<1>4. o = IF \/ ~view.loaded \/ unit <= 0 \/ G!TooFarAway(bench, view, unit, quarters)
             \/ use.name = "none" \/ action.type = "none" \/ ~G!Guarded(action, view)
            THEN G!DoNothing(view.account)
          ELSE IF action.type \in G!Placing
            THEN [rebuilt EXCEPT !.account = view.account, !.symbol = view.symbol]
          ELSE action
  BY DEF G!DecideAccountAction
<1> HIDE DEF action, rebuilt, o, unit, own
<1>5. /\ view.loaded /\ unit > 0 /\ ~G!TooFarAway(bench, view, unit, quarters) /\ G!Guarded(action, view)
      /\ action.type \in G!Placing
      /\ o = [rebuilt EXCEPT !.account = view.account, !.symbol = view.symbol]
  <2>1. o.type \in G!Placing
    BY DEF o
  <2>2. ~(unit <= 0) => unit > 0
    BY <1>2
  <2> QED
    BY <1>3, <1>4, <2>1, <2>2
<1>6. /\ use.name \in G!Placing /\ G!PlaceableUse(use, middle, minLots) /\ action = placed
  <2>1. \A d : [G!DoNothing(use.account) EXCEPT !.type = use.name, !.symbol = use.symbol, !.ticket = use.ticket].type
                 = use.name
    BY DEF G!DoNothing
  <2>2. CASE use.name \in {"modify_order", "close_order"}
    BY <1>3, <1>5, <2>1, <2>2 DEF action, G!AccountActionOf, G!Placing
  <2>3. CASE use.name \notin {"modify_order", "close_order"}
    BY <1>3, <1>5, <2>3 DEF action, G!AccountActionOf
  <2> QED
    BY <2>2, <2>3
<1> HIDE DEF symbol, middle, minLots, quote, placed
<1>7. /\ placed \in OrderType /\ placed.type = use.name /\ placed.lots \in minLots .. 50
      /\ placed.account = use.account /\ placed.symbol = symbol
      /\ placed.sl = use.sl /\ placed.tp1 = use.tp1
  <2> DEFINE owner == use.account
             mine == G!OrderOf(use, owner, symbol)
  <2>1. owner \in STRING /\ mine = placed
    BY <1>1 DEF placed
  <2> HIDE DEF owner
  <2>2. /\ mine \in OrderType /\ mine.type = use.name /\ mine.lots \in minLots .. 50
        /\ mine.account = owner /\ mine.symbol = symbol
        /\ mine.sl = use.sl /\ mine.tp1 = use.tp1
    <3>1. /\ middle \in Int /\ minLots \in Nat /\ symbol \in STRING
          /\ use.name \in G!Placing /\ G!PlaceableUse(use, middle, minLots)
      BY <1>1, <1>6
    <3> QED
      BY <2>1, <3>1, PlacedOrder
  <2> HIDE DEF mine
  <2> QED
    BY <2>1, <2>2 DEF owner
<1>8. use.account = view.account /\ use.symbol \in {"none", view.symbol}
  BY <1>5, <1>6, <1>7 DEF G!Guarded, symbol
<1>9. o.lots \in minLots .. 50
  <2>1. action \in OrderType
    BY <1>6, <1>7
  <2>2. o.lots = action.lots
    BY <1>5, <2>1, RebuiltKeepsLots DEF rebuilt
  <2> QED
    BY <1>6, <1>7, <2>2
<1>10. ASSUME quote.bid > 0, quote.ask > 0
       PROVE  /\ rebuilt \in OrderType
              /\ SoundlyBuilt(rebuilt, intent, quote, own, use.sl, use.tp1)
  <2>1. action \in OrderType /\ own \in Nat /\ own > 0 /\ action.sl = use.sl /\ action.tp1 = use.tp1
    BY <1>2, <1>5, <1>6, <1>7
  <2> QED
    BY <1>1, <1>10, <2>1, RebuiltIsSound DEF rebuilt
<1>11. ASSUME quote.bid > 0, quote.ask > 0
       PROVE  /\ o \in OrderType
              /\ SoundlyBuilt(o, intent, quote, own, use.sl, use.tp1)
  <2>1. rebuilt \in OrderType
    BY <1>10, <1>11
  <2>2. /\ o \in OrderType /\ o.type = rebuilt.type /\ o.side = rebuilt.side
        /\ o.sl = rebuilt.sl /\ o.tp1 = rebuilt.tp1 /\ o.tp2 = rebuilt.tp2 /\ o.entry = rebuilt.entry
    BY <1>1, <1>5, <2>1 DEF OrderType
  <2>3. OpenedAt(o, quote) = OpenedAt(rebuilt, quote)
    BY <2>2 DEF OpenedAt
  <2>4. SoundlyBuilt(rebuilt, intent, quote, own, use.sl, use.tp1)
    BY <1>10, <1>11
  <2> QED
    BY <2>2, <2>3, <2>4 DEF SoundlyBuilt
<1>12. 4 * G!Apart(bench, middle) <= quarters * unit
  <2>1. G!Apart(bench, middle) \in Nat
    BY <1>1, ApartIsNat
  <2>2. ~(4 * G!Apart(bench, middle) > quarters * unit)
    BY <1>5 DEF G!TooFarAway, middle
  <2> DEFINE far == 4 * G!Apart(bench, middle)
             most == quarters * unit
  <2>3. far \in Int /\ most \in Int
    BY <1>2, <2>1
  <2> HIDE DEF far, most
  <2>4. ~(far > most)
    BY <2>2 DEF far, most
  <2>5. far <= most
    BY <2>3, <2>4
  <2> QED
    BY <2>5 DEF far, most
<1> QED
  BY <1>2, <1>5, <1>6, <1>8, <1>9, <1>11, <1>12 DEF o, quote, minLots, middle, unit, own

\* The plan of an order.
LEMMA PlanOfOrder ==
  ASSUME NEW st \in SituationType, NEW action, G!PlanFromAction(st, action).mode = "approve"
  PROVE  LET p == G!PlanFromAction(st, action)
             market == action.type = "place_market_order"
         IN /\ p.side = action.side /\ p.lots = action.lots /\ p.sl = action.sl
            /\ p.tps = {action.tp1} \cup (action.tp2 \ {0})
            /\ p.low = IF market THEN st.tick.bid ELSE action.entry
            /\ p.high = IF market THEN st.tick.ask ELSE action.entry
<1> DEFINE market == action.type = "place_market_order"
           p == G!PlanFromAction(st, action)
           execution == IF market THEN "market" ELSE "limit"
           low == IF market THEN st.tick.bid ELSE action.entry
           high == IF market THEN st.tick.ask ELSE action.entry
           tps == {action.tp1} \cup (action.tp2 \ {0})
<1>1. p # G!NoPlan
  BY DEF G!NoPlan
<1>2. p = G!PlanOf("approve", action.side, execution, low, high, action.sl, tps, action.lots)
  BY <1>1 DEF G!PlanFromAction
<1> HIDE DEF execution, low, high, tps, p
<1>3. /\ p.side = action.side /\ p.lots = action.lots /\ p.sl = action.sl
      /\ p.tps = tps /\ p.low = low /\ p.high = high
  BY <1>2 DEF G!PlanOf
<1> QED
  BY <1>3 DEF p, low, high, tps

\* The levels of a plan on a shared insight.
PlacedSoundly(in, p) ==
  LET said == in.said.arb.trade
      at == IF p.side = "buy" THEN p.high ELSE p.low
      risk == G!Forward(p.side, p.sl, at)
      gain(t) == G!Forward(p.side, at, t)
  IN /\ risk > 0 /\ (Stated(in) => AsStated(in, said.sl, risk))
     /\ Within(in, said.sl, in.use.sl, at) => p.sl > 0
     /\ \A t \in p.tps : gain(t) >= 0
     /\ \E t \in p.tps :
          /\ gain(t) > 0 /\ (Stated(in) => AsStated(in, said.tp1, gain(t)))
          /\ Within(in, said.tp1, in.use.tp1, at) => t > 0

\* What an approved plan of the agent rests on.
RestsOn(in, p, s) ==
  LET said == in.said.arb.trade IN
    /\ s.action = "open" /\ s.confidence >= 45
    /\ in.call.format # "none" \/ in.call.retries
    /\ said.direction \in {"buy", "sell"} /\ (0 \notin {said.entry, said.sl, said.tp1} \/ in.call.format # "markdown") =>
         /\ 0 \notin {said.entry, said.sl, said.tp1}
         /\ G!Forward(said.direction, said.sl, said.entry) > 0
         /\ G!Forward(said.direction, said.entry, said.tp1) > 0
    /\ p.lots \in in.view.minLots .. 50 \/ (~in.first /\ p.lots = in.said.risk.lots)
    /\ in.first /\ in.view.tick.bid > 0 =>
         /\ in.view.loaded
         /\ in.use.account = in.view.account /\ in.use.symbol \in {"none", in.view.symbol}
         /\ 4 * G!Apart(G!Middle(in.tick), G!Middle(in.view.tick)) <= in.quarters * G!Either(in.atr, in.view.atr)
         /\ PlacedSoundly(in, p)
    /\ ~in.first /\ in.use.name \notin {"place_market_order", "place_pending_order"} =>
         /\ p.sl > 0 /\ p.tps # {} /\ p.lots > 0
         /\ in.blocking \cap {"market.closed", "tick.stale"} = {}

\* A plan with the levels of an order that is soundly built of the insight has sound ones.
LEMMA PlanIsPlaced ==
  ASSUME NEW in \in AgentInput, NEW p, NEW o \in OrderType, NEW intent \in IntentType, in.view.tick.bid > 0,
         IF Stated(in) THEN /\ intent.sl = G!Apart(in.said.arb.trade.entry, in.said.arb.trade.sl)
                            /\ intent.tp1 = G!Apart(in.said.arb.trade.entry, in.said.arb.trade.tp1)
                            /\ intent.atr = in.madeAtr /\ intent.sl > 0 /\ intent.tp1 > 0
         ELSE intent.sl = 0 /\ intent.tp1 = 0,
         SoundlyBuilt(o, intent, in.view.tick, G!Either(in.view.atr, in.atr), in.use.sl, in.use.tp1),
         p.side = o.side, p.sl = o.sl, p.tps = {o.tp1} \cup (o.tp2 \ {0}),
         OpenedAt(o, in.view.tick) = IF p.side = "buy" THEN p.high ELSE p.low
  PROVE  PlacedSoundly(in, p)
<1> DEFINE said == in.said.arb.trade
           quote == in.view.tick
           unit == G!Either(in.view.atr, in.atr)
           at == IF p.side = "buy" THEN p.high ELSE p.low
           risk == G!Forward(p.side, p.sl, at)
           gain(t) == G!Forward(p.side, at, t)
<1>1. /\ unit \in Nat /\ quote \in QuoteType /\ in.madeAtr \in Nat
      /\ in.use.sl \in Int /\ in.use.tp1 \in Int
  BY DEF AgentInput, ViewType, UseType, G!Either
<1>2. /\ o.sl \in Int /\ o.tp1 \in Int /\ o.tp2 \subseteq Int /\ o.side \in {"buy", "sell"} /\ o.entry \in Int
      /\ intent.sl \in Nat /\ intent.tp1 \in Nat /\ intent.atr \in Nat \ {0}
  BY DEF OrderType, IntentType
<1>3. at \in Int /\ at = OpenedAt(o, quote)
  BY <1>1, <1>2 DEF OpenedAt, QuoteType
<1> HIDE DEF at
<1>4. /\ SoundDistance(intent.sl, intent.atr, unit, in.use.sl, at, risk)
      /\ SoundDistance(intent.tp1, intent.atr, unit, in.use.tp1, at, gain(o.tp1))
      /\ \A t \in o.tp2 : gain(t) >= 0
  BY <1>3 DEF SoundlyBuilt
<1>5. /\ risk = (IF p.side = "buy" THEN at - p.sl ELSE p.sl - at) /\ risk \in Int
      /\ gain(o.tp1) = (IF p.side = "buy" THEN o.tp1 - at ELSE at - o.tp1) /\ gain(o.tp1) \in Int
  BY <1>2, <1>3 DEF G!Forward
<1> DEFINE gained == gain(o.tp1)
<1> HIDE DEF risk, unit, gained
<1>6. Stated(in) => AsStated(in, said.sl, risk) /\ AsStated(in, said.tp1, gained)
  BY <1>4 DEF AsStated, SoundDistance, unit, gained
<1>7. /\ Within(in, said.sl, in.use.sl, at) => risk < at /\ at > 0
      /\ Within(in, said.tp1, in.use.tp1, at) => gained < at /\ at > 0
  <2>1. CASE Stated(in)
    BY <1>4, <2>1 DEF Within, SoundDistance, unit, gained
  <2>2. CASE ~Stated(in)
    BY <1>4, <2>2 DEF Within, SoundDistance, unit, gained
  <2> QED
    BY <2>1, <2>2
<1>8. risk > 0 /\ gained > 0
  BY <1>4 DEF SoundDistance, gained
<1>9. /\ Within(in, said.sl, in.use.sl, at) => p.sl > 0
      /\ Within(in, said.tp1, in.use.tp1, at) => o.tp1 > 0
  BY <1>2, <1>3, <1>5, <1>7, <1>8 DEF gained
<1>10. \A t \in p.tps : gain(t) >= 0
  BY <1>4, <1>5, <1>8 DEF gained
<1>11. \E t \in p.tps : /\ gain(t) > 0 /\ (Stated(in) => AsStated(in, said.tp1, gain(t)))
                        /\ Within(in, said.tp1, in.use.tp1, at) => t > 0
  <2>1. o.tp1 \in p.tps
    OBVIOUS
  <2> WITNESS o.tp1 \in p.tps
  <2> QED
    BY <1>6, <1>8, <1>9 DEF gained
<1> QED
  BY <1>6, <1>8, <1>9, <1>10, <1>11 DEF PlacedSoundly, risk, at

\* Every approved plan does.
LEMMA ApprovedRests ==
  ASSUME NEW in \in AgentInput, in.view.tick.bid > 0 => in.view.tick.ask > 0,
         NEW p \in {G!AgentSignal(in).plan} \cup G!AgentSignal(in).legs, p.mode = "approve"
  PROVE  RestsOn(in, p, G!AgentSignal(in))
<1> DEFINE call == in.call
           said == in.said
           others == in.others
           view == in.view
           use == in.use
           shared == in.first
           middle == G!Middle(in.tick)
           madeAtr == in.madeAtr
           benchAtr == in.atr
           quarters == in.quarters
           current == G!Either(in.tick.bid, in.tick.ask)
           found == G!Analysed(call, said, current, others)
           trade == found.arb.trade
           intent == G!TradeIntent(trade, middle, madeAtr)
           minLots == view.minLots
           arb0 == found.arb
           mine == G!DecideAccountAction(intent, middle, benchAtr, view, use, quarters)
           legacy == G!DecideTradeAction(arb0, use, current, minLots)
           action == IF shared THEN mine ELSE legacy
           st == [account |-> view.account, symbol |-> view.symbol, found |-> found, arb |-> found.arb,
                  tick |-> IF shared THEN view.tick ELSE in.tick, blocking |-> in.blocking]
           s == G!AgentSignal(in)
<1>1. /\ said \in FoundType /\ view \in ViewType /\ use \in UseType /\ shared \in BOOLEAN
      /\ madeAtr \in Nat /\ benchAtr \in Nat /\ quarters \in Nat /\ minLots \in Nat
      /\ in.tick \in QuoteType /\ view.tick \in QuoteType /\ in.blocking \in SUBSET STRING
      /\ view.account \in STRING /\ view.symbol \in STRING
  BY DEF AgentInput, ViewType
<1>2. middle \in Int /\ current \in Int
  BY <1>1 DEF QuoteType, G!Middle, G!Either
<1>3. s = G!ComposeFinalSignal(st, action, shared)
  BY DEF G!AgentSignal
<1> HIDE DEF call, said, others, view, use, shared, middle, madeAtr, benchAtr, quarters, current, minLots
<1> DEFINE was == said.arb.trade
<1>4. /\ found \in FoundType
      /\ found.arb.action = "open" =>
           /\ G!Understood(call, said)
           /\ found.risk.lots = said.risk.lots
           /\ was.direction \in {"buy", "sell"} /\ call.format # "markdown" => WholeTrade(was)
           /\ trade.direction \in {"buy", "sell"} <=> WholeTrade(was)
           /\ WholeTrade(was) =>
                /\ trade.entry = was.entry /\ trade.sl = was.sl /\ trade.tp1 = was.tp1
                /\ was.direction # "dual" => trade.direction = was.direction
                /\ ~G!Unprotected(trade) /\ ~G!Unpaid(trade)
  BY <1>1, <1>2, AnalysisIsSound
<1> HIDE DEF found
<1>5. trade \in TradeType /\ found.arb \in ArbType
  BY <1>4 DEF FoundType, ArbType
<1> HIDE DEF trade, arb0
<1>6. /\ intent \in IntentType
      /\ IF trade.direction \in {"buy", "sell"} /\ madeAtr > 0 /\ middle > 0
           THEN /\ intent.sl = G!Apart(trade.entry, trade.sl)
                /\ intent.tp1 = G!Apart(trade.entry, trade.tp1)
                /\ intent.atr = madeAtr
           ELSE intent.sl = 0 /\ intent.tp1 = 0
  BY <1>1, <1>2, <1>5, IntentIsTyped
<1> HIDE DEF intent, mine, legacy
<1>7. /\ st \in SituationType /\ st.arb = st.found.arb /\ st.found = found /\ st.blocking = in.blocking
      /\ st.account = view.account /\ st.symbol = view.symbol
      /\ st.tick = IF shared THEN view.tick ELSE in.tick
  <2> DEFINE quote == IF shared THEN view.tick ELSE in.tick
  <2>1. quote \in QuoteType
    BY <1>1
  <2>2. st = [account |-> view.account, symbol |-> view.symbol, found |-> found, arb |-> found.arb,
              tick |-> quote, blocking |-> in.blocking]
    OBVIOUS
  <2> HIDE DEF quote, st
  <2>3. st \in SituationType /\ st.arb = st.found.arb /\ st.found = found /\ st.blocking = in.blocking
          /\ st.account = view.account /\ st.symbol = view.symbol /\ st.tick = quote
    BY <1>1, <1>4, <1>5, <2>1, <2>2 DEF SituationType
  <2> QED
    BY <2>3 DEF quote
<1> HIDE DEF st, action, s
<1>8. p \in {G!ComposeFinalSignal(st, action, shared).plan} \cup G!ComposeFinalSignal(st, action, shared).legs
  BY <1>3 DEF s
<1>9. /\ s.action = "open" /\ s.confidence >= 45 /\ found.arb.action = "open"
      /\ \/ /\ p = G!PlanFromAction(st, action) /\ action.type \in G!Placing
            /\ shared => action.account = st.account /\ action.symbol = st.symbol
         \/ ~shared /\ FilledSoundly(p, st)
  BY <1>1, <1>3, <1>7, <1>8, ApprovedIsOpened
<1>10. call.format # "none" \/ call.retries
  BY <1>4, <1>9 DEF G!Understood, G!ReadAs
<1> HIDE DEF was
<1>11. /\ WholeTrade(was) => G!Forward(trade.direction, trade.sl, trade.entry) > 0
                             /\ G!Forward(trade.direction, trade.entry, trade.tp1) > 0
       /\ was.direction \in {"buy", "sell"} /\ (0 \notin {was.entry, was.sl, was.tp1} \/ call.format # "markdown") =>
            /\ 0 \notin {was.entry, was.sl, was.tp1}
            /\ G!Forward(was.direction, was.sl, was.entry) > 0
            /\ G!Forward(was.direction, was.entry, was.tp1) > 0
  <2>1. WholeTrade(was) =>
          /\ trade.direction \in {"buy", "sell"} /\ trade.entry = was.entry /\ trade.sl = was.sl
          /\ trade.tp1 = was.tp1 /\ (was.direction # "dual" => trade.direction = was.direction)
          /\ ~G!Unprotected(trade) /\ ~G!Unpaid(trade)
    BY <1>4, <1>9
  <2>2. WholeTrade(was) => 0 \notin {was.entry, was.sl, was.tp1}
    BY DEF WholeTrade
  <2>3. WholeTrade(was) => G!Forward(trade.direction, trade.sl, trade.entry) > 0
                           /\ G!Forward(trade.direction, trade.entry, trade.tp1) > 0
    BY <1>5, <2>1, <2>2 DEF G!Unprotected, G!Unpaid, G!TradeSides, TradeType, G!Forward
  <2>4. was.direction \in {"buy", "sell"} /\ (0 \notin {was.entry, was.sl, was.tp1} \/ call.format # "markdown") => WholeTrade(was)
    BY <1>4, <1>9 DEF WholeTrade
  <2>5. was.direction \in {"buy", "sell"} => was.direction # "dual"
    OBVIOUS
  <2> QED
    BY <2>1, <2>2, <2>3, <2>4, <2>5
<1>12. IF Stated(in) THEN /\ intent.sl = G!Apart(was.entry, was.sl)
                          /\ intent.tp1 = G!Apart(was.entry, was.tp1)
                          /\ intent.atr = madeAtr /\ intent.sl > 0 /\ intent.tp1 > 0
       ELSE intent.sl = 0 /\ intent.tp1 = 0
  <2>1. Stated(in) <=> WholeTrade(was) /\ madeAtr > 0 /\ middle > 0
    BY DEF Stated, WholeTrade, was, said, madeAtr, middle
  <2>2. trade.direction \in {"buy", "sell"} <=> WholeTrade(was)
    BY <1>4, <1>9
  <2>3. WholeTrade(was) => trade.entry = was.entry /\ trade.sl = was.sl /\ trade.tp1 = was.tp1
    BY <1>4, <1>9
  <2>4. WholeTrade(was) => G!Apart(trade.entry, trade.sl) > 0 /\ G!Apart(trade.entry, trade.tp1) > 0
    BY <1>5, <1>11 DEF TradeType, G!Forward, G!Apart
  <2> QED
    BY <1>6, <2>1, <2>2, <2>3, <2>4
<1> DEFINE unit == G!Either(benchAtr, view.atr)
           near == /\ view.loaded
                   /\ use.account = view.account /\ use.symbol \in {"none", view.symbol}
                   /\ 4 * G!Apart(middle, G!Middle(view.tick)) <= quarters * unit
           placed == PlacedSoundly(in, p)
           filled == /\ p.sl > 0 /\ p.tps # {} /\ p.lots > 0
                     /\ in.blocking \cap {"market.closed", "tick.stale"} = {}
<1>13. CASE ~shared /\ FilledSoundly(p, st)
  <2>1. p.lots = said.risk.lots
    BY <1>4, <1>7, <1>9, <1>13 DEF FilledSoundly
  <2>2. filled
    BY <1>7, <1>13 DEF FilledSoundly, G!Critical
  <2> HIDE DEF filled, near, placed
  <2> QED
    BY <1>9, <1>10, <1>11, <1>13, <2>1, <2>2 DEF RestsOn, filled, shared, said, call, s, was
<1>14. CASE ~shared /\ p = G!PlanFromAction(st, action) /\ action.type \in G!Placing
  <2>1. action = legacy
    BY <1>14 DEF action
  <2>2. use.name \in G!Placing /\ legacy.lots \in minLots .. 50
    BY <1>1, <1>2, <1>14, <2>1, LegacyOrder DEF legacy
  <2>3. p.lots = legacy.lots
    BY <1>7, <1>14, <2>1, PlanOfOrder
  <2> HIDE DEF filled, near, placed
  <2> QED
    BY <1>9, <1>10, <1>11, <1>14, <2>2, <2>3 DEF RestsOn, shared, said, call, use, minLots, view, G!Placing, s, was
<1>15. CASE shared /\ p = G!PlanFromAction(st, action) /\ action.type \in G!Placing
  <2>1. action = mine
    BY <1>15 DEF action
  <2>2. /\ p.side = mine.side /\ p.lots = mine.lots /\ p.sl = mine.sl
        /\ p.tps = {mine.tp1} \cup (mine.tp2 \ {0})
        /\ p.low = IF mine.type = "place_market_order" THEN view.tick.bid ELSE mine.entry
        /\ p.high = IF mine.type = "place_market_order" THEN view.tick.ask ELSE mine.entry
    BY <1>7, <1>15, <2>1, PlanOfOrder
  <2>3. mine.type \in G!Placing
    BY <1>15, <2>1
  <2>4. /\ mine.lots \in minLots .. 50
        /\ near
        /\ view.tick.bid > 0 /\ view.tick.ask > 0 =>
             /\ mine \in OrderType
             /\ SoundlyBuilt(mine, intent, view.tick, G!Either(view.atr, benchAtr), use.sl, use.tp1)
    BY <1>1, <1>2, <1>6, <2>3, AccountOrder DEF mine, minLots
  <2>5. ASSUME view.tick.bid > 0 PROVE placed
    <3>1. view.tick.ask > 0
      BY <2>5 DEF view
    <3>2. /\ mine \in OrderType
          /\ SoundlyBuilt(mine, intent, view.tick, G!Either(view.atr, benchAtr), use.sl, use.tp1)
      BY <2>4, <2>5, <3>1
    <3>3. OpenedAt(mine, view.tick) = IF p.side = "buy" THEN p.high ELSE p.low
      BY <2>2, <3>2 DEF OpenedAt, OrderType
    <3> QED
      BY <1>6, <1>12, <2>2, <2>5, <3>2, <3>3, PlanIsPlaced DEF was, said, madeAtr, view, benchAtr, use
  <2> HIDE DEF filled, near, placed
  <2>6. p.lots \in minLots .. 50
    BY <2>2, <2>4
  <2> QED
    BY <1>9, <1>10, <1>11, <1>15, <2>4, <2>5, <2>6
       DEF RestsOn, s, near, placed, unit, shared, said, call, use, minLots, view, middle, benchAtr, quarters, was
<1> QED
  BY <1>1, <1>9, <1>13, <1>14, <1>15 DEF s

\* A plan the agent approves rests on an answer that was understood, on an opening with
\* confidence and on well placed levels; on a shared insight the order is the account's own,
\* near the insight's price, protected and paying at its own (composeFinalSignal,
\* decideAccountAction).
THEOREM ApprovedPlanRests == DecisionSpec => []AgentPlanIsSound
<1>1. DecisionInv => AgentPlanIsSound
  <2> SUFFICES ASSUME DecisionInv, Answered("agent") PROVE AgentPlanIsSound
    BY DEF AgentPlanIsSound
  <2>1. answer = Composition(question) /\ \E cases \in AgentCases : question \in cases
    BY DEF DecisionInv, Answered
  <2>2. answer.signal = G!AgentSignal(question)
    BY <2>1 DEF Composition
  <2>3. question \in AgentInput /\ (question.view.tick.bid > 0 => question.view.tick.ask > 0)
    BY <2>1, AgentAssumption
  <2> DEFINE approved == {x \in {answer.signal.plan} \cup answer.signal.legs : x.mode = "approve"}
  <2>4. ASSUME NEW p \in approved PROVE RestsOn(question, p, answer.signal)
    BY <2>2, <2>3, ApprovedRests
  <2> QED
    BY <2>4 DEF AgentPlanIsSound, RestsOn, PlacedSoundly
<1> QED
  BY <1>1, DecisionsHold, PTL


-----------------------------------------------------------------------------
(* What is shown of an account. *)

\* A position is stored with what it is shown with, and with the strategy it names.
LEMMA StrategyIsSettled ==
  ASSUME NEW q \in PostedType
  PROVE  LET own == V!NormalPosition(q) IN
           /\ own.ticket = q.ticket
           /\ V!Strategy(own) = own.strategy /\ V!OrderClass(own) = own.class
           /\ q.strategy \in V!Strategies => own.strategy = q.strategy
           /\ q.comment \in V!Strategies => own.strategy \in V!Strategies
<1> DEFINE own == V!NormalPosition(q)
<1>1. own = [q EXCEPT !.strategy = V!Strategy(q), !.class = V!OrderClass(q)]
  BY DEF V!NormalPosition
<1>2. /\ own.ticket = q.ticket /\ own.comment = q.comment /\ own.type = q.type
      /\ own.strategy = V!Strategy(q) /\ own.class = V!OrderClass(q)
  BY <1>1 DEF PostedType
<1>3. V!OrderClass(own) = own.class
  BY <1>2 DEF V!OrderClass
<1>4. V!Strategy(own) = own.strategy
  BY <1>2 DEF V!Strategy
<1> QED
  BY <1>2, <1>3, <1>4 DEF V!Strategy

\* The stored record is of its type, and a heartbeat with a stamp says yes or no.
KeptWell(kept) ==
  /\ kept.heartbeat \in HeartbeatType
  /\ kept.tick \in LastTickType
  /\ kept.frames \in [SeriesNames -> SeriesType]
  /\ kept.heartbeat.at > 0 => "none" \notin {kept.heartbeat.open, kept.heartbeat.allowed}

\* So does what is stored after a post, and positions that were not refused are stored as
\* they were normalized.
LEMMA ReceivedIsStored ==
  ASSUME NEW q \in Accounts
  PROVE  /\ KeptWell(V!Received(q.stored, q.post, q.at))
         /\ q.post.path = "positions" /\ q.post.wrong = {} =>
              /\ q.post.body \in SUBSET PostedType
              /\ V!Received(q.stored, q.post, q.at).positions = {V!NormalPosition(p) : p \in q.post.body}
<1> DEFINE stored == q.stored
           post == q.post
           body == V!NormalBody(post, q.at)
           kept == V!Received(stored, post, q.at)
<1>1. /\ stored \in StoredType /\ post \in PostType /\ q.at \in Nat
      /\ stored.heartbeat.at > 0 => "none" \notin {stored.heartbeat.open, stored.heartbeat.allowed}
  BY AccountAssumption
<1>2. KeptWell(stored)
  BY <1>1 DEF StoredType, KeptWell
<1>3. kept = IF post.wrong # {} THEN stored ELSE V!Saved(stored, post.path, body)
  BY DEF V!Received, V!Refused
<1>4. post.path \in {"heartbeat", "tick", "positions", "bars"}
  BY <1>1 DEF PostType
<1> SUFFICES /\ KeptWell(kept)
             /\ post.path = "positions" /\ post.wrong = {} =>
                  /\ post.body \in SUBSET PostedType
                  /\ kept.positions = {V!NormalPosition(p) : p \in post.body}
  OBVIOUS
<1> HIDE DEF kept, stored
<1>5. CASE post.wrong # {}
  BY <1>2, <1>3, <1>5
<1>6. CASE post.wrong = {} /\ post.path = "heartbeat"
  <2>1. post.body \in HeartbeatType
    BY <1>1, <1>6 DEF PostType
  <2>2. body = [[post.body EXCEPT !.open = V!Flag(@), !.allowed = V!Flag(@)] EXCEPT !.at = q.at]
    BY <1>6, <2>1 DEF V!NormalBody, V!NormalHeartbeat, HeartbeatType
  <2>3. body \in HeartbeatType /\ "none" \notin {body.open, body.allowed}
    BY <1>1, <2>1, <2>2 DEF V!Flag, HeartbeatType, Word
  <2> HIDE DEF body
  <2>4. kept = [stored EXCEPT !.heartbeat = body]
    BY <1>3, <1>6 DEF V!Saved
  <2>5. kept.heartbeat = body /\ kept.tick = stored.tick /\ kept.frames = stored.frames
    BY <1>1, <2>4 DEF StoredType
  <2> QED
    BY <1>2, <1>6, <2>3, <2>5 DEF KeptWell
<1>7. CASE post.wrong = {} /\ post.path = "tick"
  <2>1. post.body \in LastTickType
    BY <1>1, <1>7 DEF PostType
  <2>2. body = [post.body EXCEPT !.at = q.at]
    BY <1>7 DEF V!NormalBody
  <2>3. body \in LastTickType
    BY <1>1, <2>1, <2>2 DEF LastTickType
  <2> HIDE DEF body
  <2>4. kept = [stored EXCEPT !.tick = body]
    BY <1>3, <1>7 DEF V!Saved
  <2>5. kept.tick = body /\ kept.heartbeat = stored.heartbeat /\ kept.frames = stored.frames
    BY <1>1, <2>4 DEF StoredType
  <2> QED
    BY <1>2, <1>7, <2>3, <2>5 DEF KeptWell
<1>8. CASE post.wrong = {} /\ post.path = "positions"
  <2>1. post.body \in SUBSET PostedType
    BY <1>1, <1>8 DEF PostType
  <2>2. body = {V!NormalPosition(p) : p \in post.body}
    BY <1>8 DEF V!NormalBody
  <2>3. kept = [stored EXCEPT !.positions = body]
    BY <1>3, <1>8 DEF V!Saved
  <2> HIDE DEF body, post
  <2>4. /\ kept.positions = body
        /\ kept.heartbeat = stored.heartbeat /\ kept.tick = stored.tick /\ kept.frames = stored.frames
    BY <1>1, <2>3 DEF StoredType
  <2> QED
    BY <1>2, <1>8, <2>1, <2>2, <2>4 DEF KeptWell
<1>9. CASE post.wrong = {} /\ post.path = "bars"
  <2>1. post.body \in [timeframe : SeriesNames, frame : SeriesType]
    BY <1>1, <1>9 DEF PostType
  <2>2. body = post.body
    BY <1>9 DEF V!NormalBody
  <2>3. kept = [stored EXCEPT !.frames[body.timeframe] = body.frame]
    BY <1>3, <1>9 DEF V!Saved
  <2> HIDE DEF body
  <2>4. /\ kept.frames = [stored.frames EXCEPT ![body.timeframe] = body.frame]
        /\ kept.heartbeat = stored.heartbeat /\ kept.tick = stored.tick
    BY <1>1, <2>3 DEF StoredType
  <2>5. kept.frames \in [SeriesNames -> SeriesType]
    BY <1>2, <2>1, <2>2, <2>4 DEF KeptWell
  <2> QED
    BY <1>2, <1>9, <2>4, <2>5 DEF KeptWell
<1> QED
  BY <1>4, <1>5, <1>6, <1>7, <1>8, <1>9

\* A market that is shown as open was said to be open and heard of, now and before.
LEMMA OpenWasHeard ==
  ASSUME NEW kept, KeptWell(kept), NEW at \in Nat, NEW later \in Nat, at <= later, kept.tick.at > 0,
         V!MarketStatus(kept, later).open
  PROVE  /\ kept.heartbeat.open = "true"
         /\ later - kept.tick.at <= V!Ttl
         /\ V!MarketStatus(kept, at).open
         /\ kept.heartbeat.at > 0 => later - kept.heartbeat.at <= V!Ttl
<1> DEFINE told == kept.tick.at
           beat == V!HeartbeatHeard(kept)
<1>1. /\ told \in Nat /\ beat \in Nat /\ kept.heartbeat.at \in Nat /\ told # 0
      /\ kept.heartbeat.at > 0 => beat = kept.heartbeat.at
  BY DEF KeptWell, HeartbeatType, LastTickType, V!HeartbeatHeard
<1>2. \A now : V!TickHeard(kept, now) = told
  BY DEF V!TickHeard
<1>3. \A now \in Nat : V!StaleReason(kept, now) = IF now - told > V!Ttl THEN "tick"
                                                 ELSE IF beat # 0 /\ now - beat > V!Ttl THEN "heartbeat" ELSE "none"
  BY <1>1, <1>2 DEF V!StaleReason
<1> HIDE DEF told, beat
<1>4. /\ V!StaleReason(kept, later) = "none"
      /\ kept.heartbeat.open = "true"
  BY DEF V!MarketStatus
<1>5. ~(later - told > V!Ttl) /\ ~(beat # 0 /\ later - beat > V!Ttl)
  BY <1>3, <1>4
<1>6. ~(at - told > V!Ttl) /\ ~(beat # 0 /\ at - beat > V!Ttl)
  BY <1>1, <1>5 DEF V!Ttl
<1>7. V!StaleReason(kept, at) = "none"
  BY <1>3, <1>6
<1>8. V!MarketStatus(kept, at).open
  BY <1>4, <1>7 DEF V!MarketStatus
<1>9. later - told <= V!Ttl /\ (beat # 0 => later - beat <= V!Ttl)
  BY <1>1, <1>5 DEF V!Ttl
<1> QED
  BY <1>1, <1>4, <1>8, <1>9 DEF told

\* On the figures the terminal and the server agree on.
SameFigures(kept) ==
  \A tf \in SeriesNames :
    LET f == kept.frames[tf] IN
      f.own = [ema20 |-> f.ema20, ema50 |-> f.ema50, adx |-> f.adx] /\ 0 \notin {f.close, f.ema20, f.ema50, f.adx}

\* One series, as the payload and as the gate read it.
LEMMA SeriesAgrees ==
  ASSUME NEW kept, KeptWell(kept), SameFigures(kept), NEW tf \in {"D1", "H4", "H1", "M30"}
  PROVE  LET shown == V!EnrichedFrames(kept)[tf]
             judged == JudgedFrames(kept)[tf]
         IN /\ 0 \notin {judged.ema20, judged.ema50, judged.close, judged.adx}
            /\ V!Direction(shown) = "BULL" <=> Heading(judged) = "buy"
            /\ V!Direction(shown) = "BEAR" <=> Heading(judged) = "sell"
            /\ Tenths(judged) \in {0, 3, 6, 9}
            /\ Tenths(judged) = IF V!Direction(shown) = "NEUTRAL" THEN 0 ELSE V!Confidence(shown)
<1> DEFINE f == kept.frames[tf]
           shown == V!EnrichedFrames(kept)[tf]
           judged == JudgedFrames(kept)[tf]
<1>1. tf \in SeriesNames /\ tf \in DOMAIN Weights /\ tf \in DOMAIN kept.frames
  BY DEF SeriesNames, Weights, KeptWell
<1>2. f \in SeriesType /\ f.own = [ema20 |-> f.ema20, ema50 |-> f.ema50, adx |-> f.adx]
      /\ 0 \notin {f.close, f.ema20, f.ema50, f.adx}
  BY <1>1 DEF KeptWell, SameFigures
<1>3. shown = V!Enriched(f)
  BY <1>1 DEF V!EnrichedFrames
<1>4. shown.ema20 = f.ema20 /\ shown.ema50 = f.ema50 /\ shown.close = f.close /\ shown.adx = f.adx
  BY <1>2, <1>3 DEF V!Enriched
<1>5. judged.ema20 = f.ema20 /\ judged.ema50 = f.ema50 /\ judged.close = f.close /\ judged.adx = f.adx
  BY <1>1 DEF JudgedFrames
<1>6. f.ema20 \in Nat /\ f.ema50 \in Nat /\ f.close \in Nat /\ f.adx \in Nat
  BY <1>2 DEF SeriesType
<1> HIDE DEF f, shown, judged
<1>7. CASE f.ema20 > f.ema50 /\ f.close > f.ema20
  <2>1. V!Direction(shown) = "BULL" /\ Heading(judged) = "buy"
    BY <1>4, <1>5, <1>6, <1>7 DEF V!Direction, Heading
  <2> QED
    BY <1>2, <1>4, <1>5, <1>6, <2>1 DEF Tenths, V!Confidence, shown, judged
<1>8. CASE f.ema20 < f.ema50 /\ f.close < f.ema20
  <2>1. V!Direction(shown) = "BEAR" /\ Heading(judged) = "sell"
    BY <1>4, <1>5, <1>6, <1>8 DEF V!Direction, Heading
  <2> QED
    BY <1>2, <1>4, <1>5, <1>6, <2>1 DEF Tenths, V!Confidence, shown, judged
<1>9. CASE ~(f.ema20 > f.ema50 /\ f.close > f.ema20) /\ ~(f.ema20 < f.ema50 /\ f.close < f.ema20)
  <2>1. V!Direction(shown) = "NEUTRAL" /\ Heading(judged) = "none"
    BY <1>4, <1>5, <1>6, <1>9 DEF V!Direction, Heading
  <2> QED
    BY <1>2, <1>4, <1>5, <1>6, <2>1 DEF Tenths, V!Confidence, shown, judged
<1> QED
  BY <1>7, <1>8, <1>9

\* The trend of four series, as the payload and as the gate count it.
LEMMA TrendsAgree ==
  ASSUME NEW kept, KeptWell(kept), SameFigures(kept), NEW side \in {"buy", "sell"}
  PROVE  TrendAllows([side |-> side, confidence |-> 74], JudgedFrames(kept)) <=>
           /\ V!TrendContext(V!EnrichedFrames(kept)).consensus # IF side = "buy" THEN "BEAR" ELSE "BULL"
           /\ V!TrendContext(V!EnrichedFrames(kept)).strength >= 300
<1> DEFINE EF == V!EnrichedFrames(kept)
           JF == JudgedFrames(kept)
           known == {n \in DOMAIN JF : 0 \notin {JF[n].ema20, JF[n].ema50, JF[n].close, JF[n].adx}}
           toward(s) == Total({n \in known : Heading(JF[n]) = s}, Weights)
           scored == [n \in DOMAIN Weights |-> Weights[n] * Tenths(JF[n])]
<1>1. DOMAIN JF = {"D1", "H4", "H1", "M30"} /\ DOMAIN Weights = {"D1", "H4", "H1", "M30"}
  BY DEF JudgedFrames, Weights
<1>2. \A tf \in {"D1", "H4", "H1", "M30"} :
        /\ 0 \notin {JF[tf].ema20, JF[tf].ema50, JF[tf].close, JF[tf].adx}
        /\ V!Direction(EF[tf]) = "BULL" <=> Heading(JF[tf]) = "buy"
        /\ V!Direction(EF[tf]) = "BEAR" <=> Heading(JF[tf]) = "sell"
        /\ Tenths(JF[tf]) \in {0, 3, 6, 9}
        /\ Tenths(JF[tf]) = IF V!Direction(EF[tf]) = "NEUTRAL" THEN 0 ELSE V!Confidence(EF[tf])
  BY SeriesAgrees
<1>3. TrendAllows([side |-> side, confidence |-> 74], JF) <=>
        (known # {} =>
           /\ (IF side = "sell" THEN toward("buy") > toward("sell") ELSE toward("sell") > toward("buy")) => 74 >= 75
           /\ Total(known, scored) >= 3 * Total(known, Weights))
  BY DEF TrendAllows
<1> HIDE DEF EF, JF
<1>4. known = {"D1", "H4", "H1", "M30"}
  BY <1>1, <1>2
<1> HIDE DEF known
<1>5. Weights["D1"] = 1 /\ Weights["H4"] = 5 /\ Weights["H1"] = 7 /\ Weights["M30"] = 7
  BY DEF Weights
<1>6. V!Weight["D1"] = 5 /\ V!Weight["H4"] = 25 /\ V!Weight["H1"] = 35 /\ V!Weight["M30"] = 35
  BY DEF V!Weight
<1>7. Total(known, Weights) = 20
  BY <1>4, <1>5 DEF Total, Vote
<1>8. ASSUME NEW tf \in {"D1", "H4", "H1", "M30"}, NEW s \in {"buy", "sell"}
      PROVE  Vote({n \in known : Heading(JF[n]) = s}, tf, Weights)
               = IF Heading(JF[tf]) = s THEN Weights[tf] ELSE 0
  BY <1>4 DEF Vote
<1>9. ASSUME NEW s \in {"buy", "sell"}
      PROVE  /\ toward(s) \in Nat
             /\ V!Votes(EF, IF s = "buy" THEN "BULL" ELSE "BEAR") = 5 * toward(s)
  <2> DEFINE d == IF s = "buy" THEN "BULL" ELSE "BEAR"
             x(tf) == IF Heading(JF[tf]) = s THEN Weights[tf] ELSE 0
  <2>1. \A tf \in {"D1", "H4", "H1", "M30"} : V!Direction(EF[tf]) = d <=> Heading(JF[tf]) = s
    BY <1>2
  <2>2. toward(s) = x("D1") + x("H4") + x("H1") + x("M30")
    BY <1>8 DEF Total
  <2>3. V!Share(EF, "D1", d) = 5 * x("D1") /\ V!Share(EF, "H4", d) = 5 * x("H4")
        /\ V!Share(EF, "H1", d) = 5 * x("H1") /\ V!Share(EF, "M30", d) = 5 * x("M30")
    BY <1>5, <1>6, <2>1 DEF V!Share
  <2>4. x("D1") \in Nat /\ x("H4") \in Nat /\ x("H1") \in Nat /\ x("M30") \in Nat
    BY <1>5
  <2> HIDE DEF x, d, toward
  <2>5. V!Votes(EF, d) = 5 * toward(s) /\ toward(s) \in Nat
    BY <2>2, <2>3, <2>4 DEF V!Votes
  <2> QED
    BY <2>5 DEF d
<1>10. V!Strength(EF) = 5 * Total(known, scored) /\ Total(known, scored) \in Nat
  <2>1. /\ scored["D1"] = Tenths(JF["D1"]) /\ scored["H4"] = 5 * Tenths(JF["H4"])
        /\ scored["H1"] = 7 * Tenths(JF["H1"]) /\ scored["M30"] = 7 * Tenths(JF["M30"])
    BY <1>1, <1>2, <1>5
  <2> HIDE DEF scored
  <2>2. Total(known, scored) = scored["D1"] + scored["H4"] + scored["H1"] + scored["M30"]
    BY <1>4 DEF Total, Vote
  <2>3. \A tf \in {"D1", "H4", "H1", "M30"} :
          (IF V!Direction(EF[tf]) = "NEUTRAL" THEN 0 ELSE V!Weight[tf] * V!Confidence(EF[tf]))
            = V!Weight[tf] * Tenths(JF[tf])
    BY <1>2, <1>6
  <2>4. V!Strength(EF) = V!Weight["D1"] * Tenths(JF["D1"]) + V!Weight["H4"] * Tenths(JF["H4"])
                           + V!Weight["H1"] * Tenths(JF["H1"]) + V!Weight["M30"] * Tenths(JF["M30"])
    BY <2>3 DEF V!Strength
  <2> QED
    BY <1>2, <1>6, <2>1, <2>2, <2>4
<1>11. /\ V!TrendContext(EF).strength = V!Strength(EF)
       /\ V!TrendContext(EF).consensus =
            IF V!Votes(EF, "BULL") > V!Votes(EF, "BEAR") THEN "BULL"
            ELSE IF V!Votes(EF, "BEAR") > V!Votes(EF, "BULL") THEN "BEAR" ELSE "NEUTRAL"
  BY DEF V!TrendContext
<1>12. /\ toward("buy") \in Nat /\ toward("sell") \in Nat
       /\ V!Votes(EF, "BULL") = 5 * toward("buy") /\ V!Votes(EF, "BEAR") = 5 * toward("sell")
  BY <1>9
<1> HIDE DEF toward, scored
<1>13. /\ V!TrendContext(EF).consensus # "BEAR" <=> ~(toward("sell") > toward("buy"))
       /\ V!TrendContext(EF).consensus # "BULL" <=> ~(toward("buy") > toward("sell"))
  BY <1>11, <1>12
<1>14. V!TrendContext(EF).strength >= 300 <=> Total(known, scored) >= 3 * Total(known, Weights)
  BY <1>7, <1>10, <1>11
<1> QED
  BY <1>3, <1>4, <1>13, <1>14 DEF EF, JF

\* What the filter of signals passes on news that is heard, is shown as open.
LEMMA PassedIsOpen ==
  ASSUME NEW kept, KeptWell(kept), NEW later \in Nat, kept.heartbeat.at > 0, later - kept.heartbeat.at <= V!Ttl,
         kept.tick.at > 0, V!LiveRuntime(kept, later).open,
         later - V!LiveRuntime(kept, later).lastTick <= R!MaxTickAge
  PROVE  V!MarketStatus(kept, later).open
<1>1. kept.heartbeat.at \in Nat /\ kept.tick.at \in Nat
  BY DEF KeptWell, HeartbeatType, LastTickType
<1>2. V!HeartbeatHeard(kept) = kept.heartbeat.at /\ V!TickHeard(kept, later) = kept.tick.at
  BY <1>1 DEF V!HeartbeatHeard, V!TickHeard
<1>3. V!LiveRuntime(kept, later).lastTick = kept.tick.at /\ kept.heartbeat.open # "false"
  BY DEF V!LiveRuntime
<1>4. later - kept.tick.at <= 2
  BY <1>3 DEF R!MaxTickAge
<1>5. ~(later - kept.tick.at > V!Ttl) /\ ~(later - kept.heartbeat.at > V!Ttl)
  BY <1>1, <1>4 DEF V!Ttl
<1>6. V!StaleReason(kept, later) = "none"
  BY <1>1, <1>2, <1>5 DEF V!StaleReason
<1>7. kept.heartbeat.open = "true"
  BY <1>3 DEF KeptWell, HeartbeatType, Word
<1> QED
  BY <1>6, <1>7 DEF V!MarketStatus

\* An account is shown as it is, for any posts and figures.
THEOREM AccountsAreShown == DecisionSpec => []AccountIsShownAsItIs
<1>1. ASSUME DecisionInv, Answered("account")
      PROVE  AccountIsShownAsItIs
  <2> DEFINE kept == V!Received(question.stored, question.post, question.at)
             at == question.at
             later == question.later
  <2>1. question \in Accounts /\ answer = Sighting(question)
    BY <1>1 DEF DecisionInv, Answered
  <2>2. at \in Nat /\ later \in Nat /\ at <= later
    BY <2>1, AccountAssumption
  <2>3. /\ KeptWell(kept)
        /\ question.post.path = "positions" /\ question.post.wrong = {} =>
             /\ question.post.body \in SUBSET PostedType
             /\ kept.positions = {V!NormalPosition(p) : p \in question.post.body}
    BY <2>1, ReceivedIsStored
  <2> HIDE DEF kept
  <2>4. /\ answer.stored = kept
        /\ answer.first = V!Payload(kept, at) /\ answer.later = V!Payload(kept, later)
        /\ answer.live = V!LiveRuntime(kept, later)
    BY <2>1 DEF Sighting, kept
  <2>5. /\ answer.first.status = V!MarketStatus(kept, at)
        /\ answer.later.status = V!MarketStatus(kept, later)
        /\ answer.later.positions = {V!ShownPosition(q, later) : q \in kept.positions}
        /\ answer.later.trend = V!TrendContext(V!EnrichedFrames(kept))
    BY <2>4 DEF V!Payload
  <2> HIDE DEF at, later
  <2>6. ASSUME kept.tick.at > 0, V!MarketStatus(kept, later).open
        PROVE  /\ kept.heartbeat.open = "true" /\ V!LiveRuntime(kept, later).open
               /\ later - kept.tick.at <= V!Ttl
               /\ V!MarketStatus(kept, at).open
               /\ kept.heartbeat.at > 0 => later - kept.heartbeat.at <= V!Ttl
    <3>1. /\ kept.heartbeat.open = "true"
          /\ later - kept.tick.at <= V!Ttl
          /\ V!MarketStatus(kept, at).open
          /\ kept.heartbeat.at > 0 => later - kept.heartbeat.at <= V!Ttl
      BY <2>2, <2>3, <2>6, OpenWasHeard
    <3> QED
      BY <3>1 DEF V!LiveRuntime
  <2>7. ASSUME kept.heartbeat.at > 0, later - kept.heartbeat.at <= V!Ttl, kept.tick.at > 0,
               V!LiveRuntime(kept, later).open, later - V!LiveRuntime(kept, later).lastTick <= R!MaxTickAge
        PROVE  V!MarketStatus(kept, later).open
    BY <2>2, <2>3, <2>7, PassedIsOpen
  <2>8. ASSUME question.post.path = "positions", question.post.wrong = {}, NEW q \in question.post.body
        PROVE  \E p \in answer.later.positions :
                 /\ p.ticket = q.ticket
                 /\ q.strategy \in V!Strategies => p.strategy = q.strategy
                 /\ q.comment \in V!Strategies => p.strategy \in V!Strategies
                 /\ \E own \in kept.positions :
                      own.ticket = p.ticket /\ own.strategy = p.strategy /\ own.class = p.class
    <3> DEFINE own == V!NormalPosition(q)
               p == V!ShownPosition(own, later)
    <3>1. q \in PostedType /\ own \in kept.positions
      BY <2>3, <2>8
    <3>2. p \in answer.later.positions
      BY <2>5, <3>1
    <3>3. /\ own.ticket = q.ticket
          /\ V!Strategy(own) = own.strategy /\ V!OrderClass(own) = own.class
          /\ q.strategy \in V!Strategies => own.strategy = q.strategy
          /\ q.comment \in V!Strategies => own.strategy \in V!Strategies
      BY <3>1, StrategyIsSettled
    <3> HIDE DEF own
    <3>4. p.ticket = own.ticket /\ p.strategy = V!Strategy(own) /\ p.class = V!OrderClass(own)
      BY DEF V!ShownPosition
    <3> HIDE DEF p
    <3> QED
      BY <3>1, <3>2, <3>3, <3>4
  <2>9. ASSUME SameFigures(kept), NEW side \in {"buy", "sell"}
        PROVE  TrendAllows([side |-> side, confidence |-> 74], JudgedFrames(kept)) <=>
                 /\ answer.later.trend.consensus # IF side = "buy" THEN "BEAR" ELSE "BULL"
                 /\ answer.later.trend.strength >= 300
    BY <2>3, <2>5, <2>9, TrendsAgree
  <2> QED
    BY <1>1, <2>4, <2>5, <2>6, <2>7, <2>8, <2>9 DEF AccountIsShownAsItIs, SameFigures, at, later
<1>2. DecisionInv => AccountIsShownAsItIs
  BY <1>1 DEF AccountIsShownAsItIs
<1> QED
  BY <1>2, DecisionsHold, PTL

-----------------------------------------------------------------------------
(* Reading a stream. *)

\* A set of sequences with the empty one and every extension has them all.
LEMMA AllSequences ==
  ASSUME NEW A, NEW Good, <<>> \in Good, \A s \in Seq(A), e \in A : s \in Good => Append(s, e) \in Good
  PROVE  Seq(A) \subseteq Good
<1> SUFFICES ASSUME NEW s \in Seq(A) PROVE s \in Good
  OBVIOUS
<1> DEFINE Firsts == {n \in Nat : n <= Len(s) => SubSeq(s, 1, n) \in Good}
<1>1. SubSeq(s, 1, 0) = <<>> /\ SubSeq(s, 1, Len(s)) = s /\ Len(s) \in Nat
  OBVIOUS
<1>2. 0 \in Firsts
  BY <1>1
<1>3. ASSUME NEW n \in Nat, n \in Firsts PROVE n + 1 \in Firsts
  <2> SUFFICES ASSUME n + 1 <= Len(s) PROVE SubSeq(s, 1, n + 1) \in Good
    OBVIOUS
  <2>1. SubSeq(s, 1, n) \in Good /\ SubSeq(s, 1, n) \in Seq(A) /\ s[n + 1] \in A
    BY <1>1, <1>3
  <2>2. SubSeq(s, 1, n + 1) = Append(SubSeq(s, 1, n), s[n + 1])
    BY <1>1
  <2> QED
    BY <2>1, <2>2
<1>4. Len(s) \in Firsts
  <2> HIDE DEF Firsts
  <2> QED
    BY <1>1, <1>2, <1>3, AllNumbers
<1>5. SubSeq(s, 1, Len(s)) \in Good
  BY <1>1, <1>4
<1> HIDE DEF Firsts
<1> QED
  BY <1>1, <1>5

\* Adding to the second of two sequences adds to both.
LEMMA AddedToSecond ==
  ASSUME NEW A, NEW a \in Seq(A), NEW b \in Seq(A), NEW e \in A
  PROVE  /\ a \o b \in Seq(A) /\ Append(b, e) \in Seq(A)
         /\ a \o Append(b, e) = Append(a \o b, e)
<1> DEFINE x == a \o Append(b, e)
           y == Append(a \o b, e)
<1>1. a \o b \in Seq(A) /\ Append(b, e) \in Seq(A) /\ x \in Seq(A) /\ y \in Seq(A)
  OBVIOUS
<1>2. Len(x) = Len(a) + Len(b) + 1 /\ Len(y) = Len(a) + Len(b) + 1
  OBVIOUS
<1>3. \A k \in 1 .. (Len(a) + Len(b) + 1) : x[k] = y[k]
  OBVIOUS
<1> HIDE DEF x, y
<1>4. x = y
  BY <1>1, <1>2, <1>3
<1> QED
  BY <1>1, <1>4 DEF x, y

\* Nothing before or after a sequence leaves it.
LEMMA NothingJoined ==
  ASSUME NEW A, NEW a \in Seq(A)
  PROVE  <<>> \in Seq(A) /\ a \o <<>> = a /\ <<>> \o a = a
OBVIOUS

\* What Pieces recurs by. That a symbol is a string is of no account.
Symbol == STRING
Splitting(f, text) ==
  /\ f = [i \in 0 .. Len(text) |-> f[i]]
  /\ f[0] = L!Nothing /\ \A i \in 1 .. Len(text) : f[i] = L!Split(f[i - 1], text[i])

\* There is such a function, and it is the one Pieces means.
LEMMA SplittingExists ==
  ASSUME NEW text \in Seq(Symbol)
  PROVE  \E f : Splitting(f, text) /\ L!Pieces(text) = f[Len(text)]
<1> DEFINE n == Len(text)
           Body(f, i) == IF i = 0 THEN L!Nothing ELSE L!Split(f[i - 1], text[i])
           Good == {k \in Nat : \E f : f = [i \in 0 .. k |-> Body(f, i)]}
           after == CHOOSE f : f = [i \in 0 .. n |-> Body(f, i)]
<1>1. 0 \in Good
  <2> DEFINE f == [i \in 0 .. 0 |-> L!Nothing]
  <2>1. \A i \in 0 .. 0 : i = 0
    OBVIOUS
  <2>2. f = [i \in 0 .. 0 |-> Body(f, i)]
    BY <2>1
  <2> QED
    BY <2>2
<1>2. ASSUME NEW k \in Nat, k \in Good PROVE k + 1 \in Good
  <2>1. PICK g : g = [i \in 0 .. k |-> Body(g, i)]
    BY <1>2
  <2> DEFINE h == [i \in 0 .. (k + 1) |-> IF i = k + 1 THEN L!Split(g[k], text[k + 1]) ELSE g[i]]
  <2>2. ASSUME NEW i \in 0 .. (k + 1) PROVE h[i] = Body(h, i)
    <3>1. CASE i = k + 1
      <4>1. i # 0 /\ i - 1 = k /\ k \in 0 .. (k + 1) /\ k # k + 1
        BY <3>1
      <4>2. h[i - 1] = g[k] /\ h[i] = L!Split(g[k], text[k + 1])
        BY <3>1, <4>1
      <4> HIDE DEF h
      <4> QED
        BY <3>1, <4>1, <4>2
    <3>2. CASE i # k + 1
      <4>1. i \in 0 .. k
        BY <3>2
      <4>2. h[i] = g[i] /\ g[i] = Body(g, i)
        BY <2>1, <3>2, <4>1
      <4>3. i # 0 => i - 1 \in 0 .. (k + 1) /\ i - 1 # k + 1
        BY <4>1
      <4>4. i # 0 => h[i - 1] = g[i - 1]
        BY <4>3
      <4> HIDE DEF h
      <4> QED
        BY <4>2, <4>4
    <3> QED
      BY <3>1, <3>2
  <2>3. h = [i \in 0 .. (k + 1) |-> h[i]]
    OBVIOUS
  <2> HIDE DEF h
  <2>4. h = [i \in 0 .. (k + 1) |-> Body(h, i)]
    BY <2>2, <2>3
  <2>5. \E f : f = [i \in 0 .. (k + 1) |-> Body(f, i)]
    BY <2>4
  <2>6. k + 1 \in Nat
    OBVIOUS
  <2> HIDE DEF Body
  <2> QED
    BY <2>5, <2>6
<1>3. n \in Good /\ n \in Nat
  <2>1. n \in Nat
    OBVIOUS
  <2> HIDE DEF Good, n
  <2> QED
    BY <1>1, <1>2, <2>1, AllNumbers
<1>4. after = [i \in 0 .. n |-> Body(after, i)]
  <2>1. \E f : f = [i \in 0 .. n |-> Body(f, i)]
    BY <1>3
  <2> QED
    BY <2>1
<1>5. L!Pieces(text) = after[n]
  BY DEF L!Pieces
<1> HIDE DEF after, n
<1>6. 0 \in 0 .. n /\ \A i \in 1 .. n : i \in 0 .. n /\ i # 0
  BY <1>3
<1>7. after[0] = L!Nothing /\ \A i \in 1 .. n : after[i] = L!Split(after[i - 1], text[i])
  BY <1>4, <1>6
<1>8. after = [i \in 0 .. n |-> after[i]]
  BY <1>4
<1> QED
  BY <1>5, <1>7, <1>8 DEF Splitting, n

\* What Handled recurs by.
Handling(f, state, events) ==
  /\ f = [i \in 0 .. Len(events) |-> f[i]]
  /\ f[0] = state /\ \A i \in 1 .. Len(events) : f[i] = L!Processed(f[i - 1], events[i])

\* There is such a function, and it is the one Handled means.
LEMMA HandlingExists ==
  ASSUME NEW state, NEW events \in Seq(Seq(Symbol))
  PROVE  \E f : Handling(f, state, events) /\ L!Handled(state, events) = f[Len(events)]
<1> DEFINE n == Len(events)
           Body(f, i) == IF i = 0 THEN state ELSE L!Processed(f[i - 1], events[i])
           Good == {k \in Nat : \E f : f = [i \in 0 .. k |-> Body(f, i)]}
           after == CHOOSE f : f = [i \in 0 .. n |-> Body(f, i)]
<1>1. 0 \in Good
  <2> DEFINE f == [i \in 0 .. 0 |-> state]
  <2>1. \A i \in 0 .. 0 : i = 0
    OBVIOUS
  <2>2. f = [i \in 0 .. 0 |-> Body(f, i)]
    BY <2>1
  <2> QED
    BY <2>2
<1>2. ASSUME NEW k \in Nat, k \in Good PROVE k + 1 \in Good
  <2>1. PICK g : g = [i \in 0 .. k |-> Body(g, i)]
    BY <1>2
  <2> DEFINE h == [i \in 0 .. (k + 1) |-> IF i = k + 1 THEN L!Processed(g[k], events[k + 1]) ELSE g[i]]
  <2>2. ASSUME NEW i \in 0 .. (k + 1) PROVE h[i] = Body(h, i)
    <3>1. CASE i = k + 1
      <4>1. i # 0 /\ i - 1 = k /\ k \in 0 .. (k + 1) /\ k # k + 1
        BY <3>1
      <4>2. h[i - 1] = g[k] /\ h[i] = L!Processed(g[k], events[k + 1])
        BY <3>1, <4>1
      <4> HIDE DEF h
      <4> QED
        BY <3>1, <4>1, <4>2
    <3>2. CASE i # k + 1
      <4>1. i \in 0 .. k
        BY <3>2
      <4>2. h[i] = g[i] /\ g[i] = Body(g, i)
        BY <2>1, <3>2, <4>1
      <4>3. i # 0 => i - 1 \in 0 .. (k + 1) /\ i - 1 # k + 1
        BY <4>1
      <4>4. i # 0 => h[i - 1] = g[i - 1]
        BY <4>3
      <4> HIDE DEF h
      <4> QED
        BY <4>2, <4>4
    <3> QED
      BY <3>1, <3>2
  <2>3. h = [i \in 0 .. (k + 1) |-> h[i]]
    OBVIOUS
  <2> HIDE DEF h
  <2>4. h = [i \in 0 .. (k + 1) |-> Body(h, i)]
    BY <2>2, <2>3
  <2>5. \E f : f = [i \in 0 .. (k + 1) |-> Body(f, i)]
    BY <2>4
  <2>6. k + 1 \in Nat
    OBVIOUS
  <2> HIDE DEF Body
  <2> QED
    BY <2>5, <2>6
<1>3. n \in Good /\ n \in Nat
  <2>1. n \in Nat
    OBVIOUS
  <2> HIDE DEF Good, n
  <2> QED
    BY <1>1, <1>2, <2>1, AllNumbers
<1>4. after = [i \in 0 .. n |-> Body(after, i)]
  <2>1. \E f : f = [i \in 0 .. n |-> Body(f, i)]
    BY <1>3
  <2> QED
    BY <2>1
<1>5. L!Handled(state, events) = after[n]
  BY DEF L!Handled
<1> HIDE DEF after, n
<1>6. 0 \in 0 .. n /\ \A i \in 1 .. n : i \in 0 .. n /\ i # 0
  BY <1>3
<1>7. after[0] = state /\ \A i \in 1 .. n : after[i] = L!Processed(after[i - 1], events[i])
  BY <1>4, <1>6
<1>8. after = [i \in 0 .. n |-> after[i]]
  BY <1>4
<1> QED
  BY <1>5, <1>7, <1>8 DEF Handling, n


\* What ReadStream recurs by.
Unread == [state |-> L!Blank, rest |-> <<>>]
Reads(f, chunks) ==
  /\ f = [i \in 0 .. Len(chunks) |-> f[i]]
  /\ f[0] = Unread /\ \A i \in 1 .. Len(chunks) : f[i] = L!ChunkRead(f[i - 1], chunks[i])

\* There is such a function, and it is the one ReadStream means.
LEMMA ReadsExists ==
  ASSUME NEW chunks \in Seq(Seq(Symbol))
  PROVE  \E f : /\ Reads(f, chunks)
              /\ L!ReadStream(chunks) = L!Processed(f[Len(chunks)].state, f[Len(chunks)].rest)
<1> DEFINE n == Len(chunks)
           Body(f, i) == IF i = 0 THEN Unread ELSE L!ChunkRead(f[i - 1], chunks[i])
           Good == {k \in Nat : \E f : f = [i \in 0 .. k |-> Body(f, i)]}
           after == CHOOSE f : f = [i \in 0 .. n |-> Body(f, i)]
<1>1. 0 \in Good
  <2> DEFINE f == [i \in 0 .. 0 |-> Unread]
  <2>1. \A i \in 0 .. 0 : i = 0
    OBVIOUS
  <2>2. f = [i \in 0 .. 0 |-> Body(f, i)]
    BY <2>1
  <2> QED
    BY <2>2
<1>2. ASSUME NEW k \in Nat, k \in Good PROVE k + 1 \in Good
  <2>1. PICK g : g = [i \in 0 .. k |-> Body(g, i)]
    BY <1>2
  <2> DEFINE h == [i \in 0 .. (k + 1) |-> IF i = k + 1 THEN L!ChunkRead(g[k], chunks[k + 1]) ELSE g[i]]
  <2>2. ASSUME NEW i \in 0 .. (k + 1) PROVE h[i] = Body(h, i)
    <3>1. CASE i = k + 1
      <4>1. i # 0 /\ i - 1 = k /\ k \in 0 .. (k + 1) /\ k # k + 1
        BY <3>1
      <4>2. h[i - 1] = g[k] /\ h[i] = L!ChunkRead(g[k], chunks[k + 1])
        BY <3>1, <4>1
      <4> HIDE DEF h
      <4> QED
        BY <3>1, <4>1, <4>2
    <3>2. CASE i # k + 1
      <4>1. i \in 0 .. k
        BY <3>2
      <4>2. h[i] = g[i] /\ g[i] = Body(g, i)
        BY <2>1, <3>2, <4>1
      <4>3. i # 0 => i - 1 \in 0 .. (k + 1) /\ i - 1 # k + 1
        BY <4>1
      <4>4. i # 0 => h[i - 1] = g[i - 1]
        BY <4>3
      <4> HIDE DEF h
      <4> QED
        BY <4>2, <4>4
    <3> QED
      BY <3>1, <3>2
  <2>3. h = [i \in 0 .. (k + 1) |-> h[i]]
    OBVIOUS
  <2> HIDE DEF h
  <2>4. h = [i \in 0 .. (k + 1) |-> Body(h, i)]
    BY <2>2, <2>3
  <2>5. \E f : f = [i \in 0 .. (k + 1) |-> Body(f, i)]
    BY <2>4
  <2>6. k + 1 \in Nat
    OBVIOUS
  <2> HIDE DEF Body
  <2> QED
    BY <2>5, <2>6
<1>3. n \in Good /\ n \in Nat
  <2>1. n \in Nat
    OBVIOUS
  <2> HIDE DEF Good, n
  <2> QED
    BY <1>1, <1>2, <2>1, AllNumbers
<1>4. after = [i \in 0 .. n |-> Body(after, i)]
  <2>1. \E f : f = [i \in 0 .. n |-> Body(f, i)]
    BY <1>3
  <2> QED
    BY <2>1
<1>5. L!ReadStream(chunks) = L!Processed(after[n].state, after[n].rest)
  BY DEF L!ReadStream, Unread
<1> HIDE DEF after, n
<1>6. 0 \in 0 .. n /\ \A i \in 1 .. n : i \in 0 .. n /\ i # 0
  BY <1>3
<1>7. after[0] = Unread /\ \A i \in 1 .. n : after[i] = L!ChunkRead(after[i - 1], chunks[i])
  BY <1>4, <1>6
<1>8. after = [i \in 0 .. n |-> after[i]]
  BY <1>4
<1> QED
  BY <1>5, <1>7, <1>8 DEF Reads, n

\* One symbol more is split off.
LEMMA PiecesGrow ==
  /\ L!Pieces(<<>>) = L!Nothing
  /\ \A text \in Seq(Symbol), s \in Symbol : L!Pieces(Append(text, s)) = L!Split(L!Pieces(text), s)
<1>1. L!Pieces(<<>>) = L!Nothing
  <2>1. <<>> \in Seq(Symbol) /\ Len(<<>>) = 0
    OBVIOUS
  <2>2. PICK f : Splitting(f, <<>>) /\ L!Pieces(<<>>) = f[Len(<<>>)]
    BY <2>1, SplittingExists
  <2> QED
    BY <2>1, <2>2 DEF Splitting
<1>2. ASSUME NEW text \in Seq(Symbol), NEW s \in Symbol
      PROVE  L!Pieces(Append(text, s)) = L!Split(L!Pieces(text), s)
  <2> DEFINE n == Len(text)
             longer == Append(text, s)
  <2>1. /\ n \in Nat /\ Len(longer) = n + 1 /\ longer \in Seq(Symbol) /\ longer[n + 1] = s
        /\ \A i \in 1 .. n : longer[i] = text[i]
    <3>1. longer \in Seq(Symbol) /\ n \in Nat /\ Len(longer) = n + 1
      OBVIOUS
    <3> QED
      BY <3>1
  <2>2. PICK f : Splitting(f, text) /\ L!Pieces(text) = f[n]
    BY SplittingExists
  <2>3. PICK g : Splitting(g, longer) /\ L!Pieces(longer) = g[Len(longer)]
    BY <2>1, SplittingExists
  <2> HIDE DEF n, longer
  <2>4. f[0] = L!Nothing /\ \A i \in 1 .. n : f[i] = L!Split(f[i - 1], text[i])
    BY <2>2 DEF Splitting, n
  <2>5. g[0] = L!Nothing /\ \A i \in 1 .. (n + 1) : g[i] = L!Split(g[i - 1], longer[i])
    BY <2>1, <2>3 DEF Splitting
  <2> DEFINE Good == {k \in Nat : k <= n => g[k] = f[k]}
  <2>6. 0 \in Good
    BY <2>4, <2>5
  <2>7. ASSUME NEW k \in Nat, k \in Good PROVE k + 1 \in Good
    <3> SUFFICES ASSUME k + 1 <= n PROVE g[k + 1] = f[k + 1]
      OBVIOUS
    <3>1. k + 1 \in 1 .. n /\ k + 1 \in 1 .. (n + 1) /\ k + 1 - 1 = k /\ g[k] = f[k]
      BY <2>1, <2>7
    <3>2. f[k + 1] = L!Split(f[k], text[k + 1]) /\ g[k + 1] = L!Split(g[k], longer[k + 1])
      BY <2>4, <2>5, <3>1
    <3> QED
      BY <2>1, <3>1, <3>2
  <2>8. n \in Good
    <3> HIDE DEF Good
    <3> QED
      BY <2>1, <2>6, <2>7, AllNumbers
  <2>9. n + 1 \in 1 .. (n + 1) /\ n + 1 - 1 = n /\ g[n] = f[n]
    BY <2>1, <2>8
  <2>10. g[n + 1] = L!Split(g[n], longer[n + 1])
    BY <2>1, <2>5, <2>9
  <2>11. g[Len(longer)] = L!Split(f[n], s)
    BY <2>1, <2>9, <2>10
  <2> QED
    BY <2>2, <2>3, <2>11 DEF longer
<1> QED
  BY <1>1, <1>2

\* One event more is processed.
LEMMA HandledGrow ==
  ASSUME NEW state
  PROVE  /\ L!Handled(state, <<>>) = state
         /\ \A events \in Seq(Seq(Symbol)), s \in Seq(Symbol) :
              L!Handled(state, Append(events, s)) = L!Processed(L!Handled(state, events), s)
<1>1. L!Handled(state, <<>>) = state
  <2>1. <<>> \in Seq(Seq(Symbol)) /\ Len(<<>>) = 0
    OBVIOUS
  <2>2. PICK f : Handling(f, state, <<>>) /\ L!Handled(state, <<>>) = f[Len(<<>>)]
    BY <2>1, HandlingExists
  <2> QED
    BY <2>1, <2>2 DEF Handling
<1>2. ASSUME NEW events \in Seq(Seq(Symbol)), NEW s \in Seq(Symbol)
      PROVE  L!Handled(state, Append(events, s)) = L!Processed(L!Handled(state, events), s)
  <2> DEFINE n == Len(events)
             longer == Append(events, s)
  <2>1. /\ n \in Nat /\ Len(longer) = n + 1 /\ longer \in Seq(Seq(Symbol)) /\ longer[n + 1] = s
        /\ \A i \in 1 .. n : longer[i] = events[i]
    OBVIOUS
  <2>2. PICK f : Handling(f, state, events) /\ L!Handled(state, events) = f[n]
    BY HandlingExists
  <2>3. PICK g : Handling(g, state, longer) /\ L!Handled(state, longer) = g[Len(longer)]
    BY <2>1, HandlingExists
  <2> HIDE DEF n, longer
  <2>4. f[0] = state /\ \A i \in 1 .. n : f[i] = L!Processed(f[i - 1], events[i])
    BY <2>2 DEF Handling, n
  <2>5. g[0] = state /\ \A i \in 1 .. (n + 1) : g[i] = L!Processed(g[i - 1], longer[i])
    BY <2>1, <2>3 DEF Handling
  <2> DEFINE Good == {k \in Nat : k <= n => g[k] = f[k]}
  <2>6. 0 \in Good
    BY <2>4, <2>5
  <2>7. ASSUME NEW k \in Nat, k \in Good PROVE k + 1 \in Good
    <3> SUFFICES ASSUME k + 1 <= n PROVE g[k + 1] = f[k + 1]
      OBVIOUS
    <3>1. k + 1 \in 1 .. n /\ k + 1 \in 1 .. (n + 1) /\ k + 1 - 1 = k /\ g[k] = f[k]
      BY <2>1, <2>7
    <3>2. f[k + 1] = L!Processed(f[k], events[k + 1]) /\ g[k + 1] = L!Processed(g[k], longer[k + 1])
      BY <2>4, <2>5, <3>1
    <3> QED
      BY <2>1, <3>1, <3>2
  <2>8. n \in Good
    <3> HIDE DEF Good
    <3> QED
      BY <2>1, <2>6, <2>7, AllNumbers
  <2>9. n + 1 \in 1 .. (n + 1) /\ n + 1 - 1 = n /\ g[n] = f[n]
    BY <2>1, <2>8
  <2>10. g[n + 1] = L!Processed(g[n], longer[n + 1])
    BY <2>1, <2>5, <2>9
  <2>11. g[Len(longer)] = L!Processed(f[n], s)
    BY <2>1, <2>9, <2>10
  <2> QED
    BY <2>2, <2>3, <2>11 DEF longer
<1> QED
  BY <1>1, <1>2

\* Events and what is left are sequences of symbols.
PieceType == [events : Seq(Seq(Symbol)), rest : Seq(Symbol)]

\* Splitting keeps the type.
LEMMA SplitIsTyped ==
  ASSUME NEW acc \in PieceType, NEW s \in Symbol
  PROVE  L!Split(acc, s) \in PieceType
<1>1. SubSeq(acc.rest, 1, Len(acc.rest) - 1) \in Seq(Symbol)
  <2>1. acc.rest \in Seq(Symbol) /\ Len(acc.rest) \in Nat
    BY DEF PieceType
  <2>2. \A i \in 1 .. (Len(acc.rest) - 1) : i \in 1 .. Len(acc.rest)
    BY <2>1
  <2> QED
    BY <2>1, <2>2
<1>2. /\ Append(acc.events, SubSeq(acc.rest, 1, Len(acc.rest) - 1)) \in Seq(Seq(Symbol))
      /\ Append(acc.rest, s) \in Seq(Symbol)
  BY <1>1 DEF PieceType
<1> QED
  BY <1>2 DEF L!Split, PieceType

\* What is left holds no event.
LEMMA RestIsPiece ==
  ASSUME NEW text \in Seq(Symbol)
  PROVE  /\ L!Pieces(text) \in PieceType
         /\ L!Pieces(L!Pieces(text).rest) = [events |-> <<>>, rest |-> L!Pieces(text).rest]
<1> DEFINE Good == {t \in Seq(Symbol) :
                      /\ L!Pieces(t) \in PieceType
                      /\ L!Pieces(L!Pieces(t).rest) = [events |-> <<>>, rest |-> L!Pieces(t).rest]}
<1>1. <<>> \in Good
  <2>1. <<>> \in Seq(Symbol) /\ <<>> \in Seq(Seq(Symbol))
    OBVIOUS
  <2>2. L!Nothing \in PieceType /\ L!Nothing.rest = <<>> /\ L!Nothing = [events |-> <<>>, rest |-> <<>>]
    BY <2>1 DEF L!Nothing, PieceType
  <2> QED
    BY <2>1, <2>2, PiecesGrow
<1>2. ASSUME NEW t \in Seq(Symbol), NEW s \in Symbol, t \in Good PROVE Append(t, s) \in Good
  <2> DEFINE x == L!Pieces(t)
             y == L!Split(x, s)
  <2>1. x \in PieceType /\ L!Pieces(x.rest) = [events |-> <<>>, rest |-> x.rest]
    BY <1>2
  <2>2. L!Pieces(Append(t, s)) = y /\ Append(t, s) \in Seq(Symbol)
    <3>1. Append(t, s) \in Seq(Symbol)
      OBVIOUS
    <3> QED
      BY <3>1, PiecesGrow
  <2> HIDE DEF x
  <2>3. y \in PieceType
    BY <2>1, SplitIsTyped
  <2>4. L!Pieces(y.rest) = [events |-> <<>>, rest |-> y.rest]
    <3>1. CASE s = "nl" /\ x.rest # <<>> /\ x.rest[Len(x.rest)] = "nl"
      <4>1. y.rest = <<>>
        BY <3>1 DEF L!Split
      <4> QED
        BY <4>1, PiecesGrow DEF L!Nothing
    <3>2. CASE ~(s = "nl" /\ x.rest # <<>> /\ x.rest[Len(x.rest)] = "nl")
      <4>1. y.rest = Append(x.rest, s) /\ x.rest \in Seq(Symbol)
        BY <2>1, <3>2 DEF L!Split, PieceType
      <4>2. L!Pieces(Append(x.rest, s)) = L!Split(L!Pieces(x.rest), s)
        BY <4>1, PiecesGrow
      <4>3. L!Split([events |-> <<>>, rest |-> x.rest], s) = [events |-> <<>>, rest |-> Append(x.rest, s)]
        BY <3>2 DEF L!Split
      <4> QED
        BY <2>1, <4>1, <4>2, <4>3
    <3> QED
      BY <3>1, <3>2
  <2> HIDE DEF y
  <2> QED
    BY <2>2, <2>3, <2>4
<1> HIDE DEF Good
<1>3. text \in Good
  BY <1>1, <1>2, AllSequences
<1> QED
  BY <1>3 DEF Good

\* Reading on with what was left finds the events of the whole.
LEMMA PiecesOfTwo ==
  ASSUME NEW a \in Seq(Symbol), NEW b \in Seq(Symbol)
  PROVE  LET y == L!Pieces(L!Pieces(a).rest \o b) IN
           L!Pieces(a \o b) = [events |-> L!Pieces(a).events \o y.events, rest |-> y.rest]
<1> DEFINE x == L!Pieces(a)
           Good == {t \in Seq(Symbol) :
                      L!Pieces(a \o t) = [events |-> x.events \o L!Pieces(x.rest \o t).events,
                                          rest |-> L!Pieces(x.rest \o t).rest]}
<1>1. x \in PieceType /\ L!Pieces(x.rest) = [events |-> <<>>, rest |-> x.rest]
  BY RestIsPiece
<1>2. x.rest \in Seq(Symbol) /\ x.events \in Seq(Seq(Symbol)) /\ x = [events |-> x.events, rest |-> x.rest]
  BY <1>1 DEF PieceType
<1>3. <<>> \in Good
  <2>1. a \o <<>> = a /\ x.rest \o <<>> = x.rest /\ x.events \o <<>> = x.events
    BY <1>2, NothingJoined
  <2>2. L!Pieces(a \o <<>>) = x /\ L!Pieces(x.rest \o <<>>) = [events |-> <<>>, rest |-> x.rest]
    BY <1>1, <2>1
  <2> HIDE DEF x
  <2> QED
    BY <1>2, <2>1, <2>2
<1> HIDE DEF x
<1>4. ASSUME NEW t \in Seq(Symbol), NEW s \in Symbol, t \in Good PROVE Append(t, s) \in Good
  <2> DEFINE y == L!Pieces(x.rest \o t)
             whole == [events |-> x.events \o y.events, rest |-> y.rest]
  <2>1. a \o t \in Seq(Symbol) /\ x.rest \o t \in Seq(Symbol) /\ Append(t, s) \in Seq(Symbol)
    BY <1>2, AddedToSecond
  <2>2. a \o Append(t, s) = Append(a \o t, s) /\ x.rest \o Append(t, s) = Append(x.rest \o t, s)
    <3> HIDE DEF y, whole, Good
    <3> DEFINE left == x.rest
    <3>1. left \in Seq(Symbol)
      BY <1>2
    <3> HIDE DEF left
    <3>2. a \o Append(t, s) = Append(a \o t, s)
      BY AddedToSecond
    <3>3. left \o Append(t, s) = Append(left \o t, s)
      BY <3>1, AddedToSecond
    <3> QED
      BY <3>2, <3>3 DEF left
  <2>3. L!Pieces(a \o t) = whole
    BY <1>4
  <2>4. y \in PieceType
    BY <2>1, RestIsPiece
  <2>5. /\ L!Pieces(Append(a \o t, s)) = L!Split(whole, s)
        /\ L!Pieces(Append(x.rest \o t, s)) = L!Split(y, s)
    BY <2>1, <2>3, PiecesGrow
  <2>6. \A e \in Seq(Symbol) : x.events \o Append(y.events, e) = Append(x.events \o y.events, e)
    <3> DEFINE E == Seq(Symbol)
               first == x.events
               second == y.events
    <3>1. first \in Seq(E) /\ second \in Seq(E)
      BY <1>2, <2>4 DEF PieceType
    <3> SUFFICES ASSUME NEW e \in E PROVE first \o Append(second, e) = Append(first \o second, e)
      OBVIOUS
    <3> HIDE DEF E, first, second
    <3> QED
      BY <3>1, AddedToSecond
  <2>7. SubSeq(y.rest, 1, Len(y.rest) - 1) \in Seq(Symbol)
    <3>1. y.rest \in Seq(Symbol) /\ Len(y.rest) \in Nat
      BY <2>4 DEF PieceType
    <3>2. \A i \in 1 .. (Len(y.rest) - 1) : i \in 1 .. Len(y.rest)
      BY <3>1
    <3> QED
      BY <3>1, <3>2
  <2> HIDE DEF y
  <2>8. L!Split(whole, s) = [events |-> x.events \o L!Split(y, s).events, rest |-> L!Split(y, s).rest]
    BY <2>6, <2>7 DEF L!Split
  <2> HIDE DEF whole
  <2> QED
    BY <2>1, <2>2, <2>5, <2>8
<1>5. b \in Good
  <2> HIDE DEF Good
  <2> QED
    BY <1>3, <1>4, AllSequences
<1> QED
  BY <1>5 DEF x

\* Events handled in two parts.
LEMMA HandledInParts ==
  ASSUME NEW state, NEW a \in Seq(Seq(Symbol)), NEW b \in Seq(Seq(Symbol))
  PROVE  L!Handled(state, a \o b) = L!Handled(L!Handled(state, a), b)
<1> DEFINE E == Seq(Symbol)
           mid == L!Handled(state, a)
           Good == {t \in Seq(E) : L!Handled(state, a \o t) = L!Handled(mid, t)}
<1>1. <<>> \in Good
  <2>1. <<>> \in Seq(E) /\ a \o <<>> = a
    BY NothingJoined
  <2>2. L!Handled(mid, <<>>) = mid
    BY HandledGrow
  <2> QED
    BY <2>1, <2>2
<1>2. ASSUME NEW t \in Seq(E), NEW e \in E, t \in Good PROVE Append(t, e) \in Good
  <2>1. a \o t \in Seq(E) /\ Append(t, e) \in Seq(E) /\ a \o Append(t, e) = Append(a \o t, e)
    <3>1. a \in Seq(E) /\ t \in Seq(E) /\ e \in E
      OBVIOUS
    <3> HIDE DEF E, Good, mid
    <3> QED
      BY <3>1, AddedToSecond
  <2>2. /\ L!Handled(state, Append(a \o t, e)) = L!Processed(L!Handled(state, a \o t), e)
        /\ L!Handled(mid, Append(t, e)) = L!Processed(L!Handled(mid, t), e)
    <3>1. L!Handled(state, Append(a \o t, e)) = L!Processed(L!Handled(state, a \o t), e)
      BY <2>1, HandledGrow
    <3>2. L!Handled(mid, Append(t, e)) = L!Processed(L!Handled(mid, t), e)
      BY HandledGrow
    <3> QED
      BY <3>1, <3>2
  <2>3. L!Handled(state, a \o t) = L!Handled(mid, t)
    BY <1>2
  <2> HIDE DEF mid
  <2> QED
    BY <2>1, <2>2, <2>3
<1>3. b \in Good
  <2>1. b \in Seq(E)
    OBVIOUS
  <2> HIDE DEF Good, E
  <2> QED
    BY <1>1, <1>2, <2>1, AllSequences
<1> QED
  BY <1>3

\* What is known of a text that has been read, whatever its chunks.
ReadSoFar(text) == [state |-> L!Handled(L!Blank, L!Pieces(text).events), rest |-> L!Pieces(text).rest]

\* A chunk after what was read is as if both had come together.
LEMMA ChunkIsRead ==
  ASSUME NEW a \in Seq(Symbol), NEW b \in Seq(Symbol)
  PROVE  L!ChunkRead(ReadSoFar(a), b) = ReadSoFar(a \o b) /\ L!ChunkRead(Unread, b) = ReadSoFar(b)
<1> DEFINE x == L!Pieces(a)
           y == L!Pieces(x.rest \o b)
<1>1. x \in PieceType
  BY RestIsPiece
<1>2. x.rest \in Seq(Symbol) /\ x.events \in Seq(Seq(Symbol))
  BY <1>1 DEF PieceType
<1>3. x.rest \o b \in Seq(Symbol)
  BY <1>2
<1>4. y \in PieceType
  BY <1>3, RestIsPiece
<1>5. y.events \in Seq(Seq(Symbol))
  BY <1>4 DEF PieceType
<1>6. L!Pieces(a \o b) = [events |-> x.events \o y.events, rest |-> y.rest]
  BY PiecesOfTwo
<1> HIDE DEF x, y
<1>7. L!Handled(L!Blank, x.events \o y.events) = L!Handled(L!Handled(L!Blank, x.events), y.events)
  BY <1>2, <1>5, HandledInParts
<1>8. L!ChunkRead(ReadSoFar(a), b) = [state |-> L!Handled(L!Handled(L!Blank, x.events), y.events), rest |-> y.rest]
  BY DEF L!ChunkRead, L!Buffered, ReadSoFar, x, y
<1>9. ReadSoFar(a \o b) = [state |-> L!Handled(L!Blank, x.events \o y.events), rest |-> y.rest]
  BY <1>6 DEF ReadSoFar
<1>10. <<>> \o b = b
  BY NothingJoined
<1>11. L!ChunkRead(Unread, b) = ReadSoFar(b)
  BY <1>10 DEF L!ChunkRead, L!Buffered, ReadSoFar, Unread
<1> QED
  BY <1>7, <1>8, <1>9, <1>11

\* A text in one piece.
LEMMA WholeIsRead ==
  ASSUME NEW a \in Seq(Symbol)
  PROVE  L!ReadStream(<<a>>) = L!Processed(ReadSoFar(a).state, ReadSoFar(a).rest)
<1> DEFINE chunks == <<a>>
<1>1. chunks \in Seq(Seq(Symbol)) /\ Len(chunks) = 1 /\ chunks[1] = a
  OBVIOUS
<1>2. 1 - 1 = 0 /\ 1 \in 1 .. 1
  OBVIOUS
<1> HIDE DEF chunks
<1>3. PICK f : /\ Reads(f, chunks)
               /\ L!ReadStream(chunks) = L!Processed(f[Len(chunks)].state, f[Len(chunks)].rest)
  BY <1>1, ReadsExists
<1>4. f[0] = Unread /\ \A i \in 1 .. 1 : f[i] = L!ChunkRead(f[i - 1], chunks[i])
  BY <1>1, <1>3 DEF Reads
<1>5. f[1] = L!ChunkRead(Unread, a)
  BY <1>1, <1>2, <1>4
<1>6. f[1] = ReadSoFar(a)
  BY <1>5, ChunkIsRead
<1> QED
  BY <1>1, <1>3, <1>6 DEF chunks

\* A text in three pieces.
LEMMA CutsAreRead ==
  ASSUME NEW a \in Seq(Symbol), NEW b \in Seq(Symbol), NEW c \in Seq(Symbol)
  PROVE  L!ReadStream(<<a, b, c>>) = L!Processed(ReadSoFar(a \o b \o c).state, ReadSoFar(a \o b \o c).rest)
<1> DEFINE chunks == <<a, b, c>>
<1>1. /\ chunks \in Seq(Seq(Symbol)) /\ Len(chunks) = 3
      /\ chunks[1] = a /\ chunks[2] = b /\ chunks[3] = c
  OBVIOUS
<1>2. 1 - 1 = 0 /\ 2 - 1 = 1 /\ 3 - 1 = 2 /\ 1 \in 1 .. 3 /\ 2 \in 1 .. 3 /\ 3 \in 1 .. 3
  OBVIOUS
<1>3. a \o b \in Seq(Symbol)
  OBVIOUS
<1> HIDE DEF chunks
<1>4. PICK f : /\ Reads(f, chunks)
               /\ L!ReadStream(chunks) = L!Processed(f[Len(chunks)].state, f[Len(chunks)].rest)
  BY <1>1, ReadsExists
<1>5. f[0] = Unread /\ \A i \in 1 .. 3 : f[i] = L!ChunkRead(f[i - 1], chunks[i])
  BY <1>1, <1>4 DEF Reads
<1>6. f[1] = L!ChunkRead(Unread, a) /\ f[2] = L!ChunkRead(f[1], b) /\ f[3] = L!ChunkRead(f[2], c)
  BY <1>1, <1>2, <1>5
<1>7. f[1] = ReadSoFar(a)
  BY <1>6, ChunkIsRead
<1>8. f[2] = ReadSoFar(a \o b)
  BY <1>6, <1>7, ChunkIsRead
<1>9. f[3] = ReadSoFar(a \o b \o c)
  BY <1>3, <1>6, <1>8, ChunkIsRead
<1> QED
  BY <1>1, <1>4, <1>9 DEF chunks

\* A sequence is what it is cut into.
LEMMA TwoParts ==
  ASSUME NEW A, NEW s \in Seq(A), NEW j \in 0 .. Len(s), NEW i \in 0 .. j
  PROVE  /\ SubSeq(s, 1, i) \in Seq(A) /\ SubSeq(s, i + 1, j) \in Seq(A)
         /\ SubSeq(s, 1, i) \o SubSeq(s, i + 1, j) = SubSeq(s, 1, j)
<1> DEFINE a == SubSeq(s, 1, i)
           b == SubSeq(s, i + 1, j)
           c == SubSeq(s, 1, j)
<1>1. /\ a \in Seq(A) /\ Len(a) = i
      /\ b \in Seq(A) /\ Len(b) = j - i
      /\ c \in Seq(A) /\ Len(c) = j
  OBVIOUS
<1>2. /\ \A k \in 1 .. i : a[k] = s[k]
      /\ \A k \in 1 .. (j - i) : b[k] = s[i + k]
      /\ \A k \in 1 .. j : c[k] = s[k]
  OBVIOUS
<1> HIDE DEF a, b, c
<1>3. a \o b \in Seq(A) /\ Len(a \o b) = j
  BY <1>1
<1>4. ASSUME NEW k \in 1 .. j PROVE (a \o b)[k] = c[k]
  <2>1. c[k] = s[k] /\ k \in Int /\ i \in Int
    BY <1>2
  <2>2. CASE k <= i
    <3>1. k \in 1 .. i
      BY <2>2
    <3>2. (a \o b)[k] = a[k]
      BY <1>1, <3>1
    <3> QED
      BY <1>2, <2>1, <3>1, <3>2
  <2>3. CASE k > i
    <3>1. k - i \in 1 .. (j - i) /\ i + (k - i) = k
      BY <2>3
    <3>2. (a \o b)[k] = b[k - i]
      BY <1>1, <2>3, <3>1
    <3>3. b[k - i] = s[i + (k - i)]
      BY <1>2, <3>1
    <3> QED
      BY <2>1, <3>1, <3>2, <3>3
  <2>4. k <= i \/ k > i
    BY <2>1
  <2> QED
    BY <2>2, <2>3, <2>4
<1>5. a \o b = c
  BY <1>1, <1>3, <1>4
<1> QED
  BY <1>1, <1>5 DEF a, b, c

\* The same of two cuts.
LEMMA ThreeParts ==
  ASSUME NEW A, NEW s \in Seq(A), NEW i \in 0 .. Len(s), NEW j \in i .. Len(s)
  PROVE  /\ SubSeq(s, 1, i) \in Seq(A) /\ SubSeq(s, i + 1, j) \in Seq(A) /\ SubSeq(s, j + 1, Len(s)) \in Seq(A)
         /\ SubSeq(s, 1, i) \o SubSeq(s, i + 1, j) \o SubSeq(s, j + 1, Len(s)) = s
<1>1. j \in 0 .. Len(s) /\ i \in 0 .. j /\ Len(s) \in 0 .. Len(s) /\ SubSeq(s, 1, Len(s)) = s
  OBVIOUS
<1>2. /\ SubSeq(s, 1, i) \in Seq(A) /\ SubSeq(s, i + 1, j) \in Seq(A)
      /\ SubSeq(s, 1, i) \o SubSeq(s, i + 1, j) = SubSeq(s, 1, j)
  BY <1>1, TwoParts
<1>3. /\ SubSeq(s, j + 1, Len(s)) \in Seq(A)
      /\ SubSeq(s, 1, j) \o SubSeq(s, j + 1, Len(s)) = SubSeq(s, 1, Len(s))
  BY <1>1, TwoParts
<1> QED
  BY <1>1, <1>2, <1>3

\* A tool has a complete input.
SoundState(x) ==
  /\ x = [content |-> x.content, tool |-> x.tool, pending |-> x.pending, usage |-> x.usage, done |-> x.done]
  /\ DOMAIN x.pending \subseteq Nat
  /\ x.tool = L!NoTool \/ x.tool.parts \in Whole

\* An event replaces the tool only by one with a complete input.
LEMMA ProcessedIsSound ==
  ASSUME NEW x, SoundState(x), NEW event
  PROVE  SoundState(L!Processed(x, event))
<1> DEFINE lines == SelectSeq(event, LAMBDA s : s # "nl")
           said == Meanings[lines]
           pending == L!Collected(x.pending, said.calls)
           first == L!FirstWhole(pending, x.tool)
<1>1. CASE x.done \/ lines \notin DOMAIN Meanings
  BY <1>1 DEF L!Processed
<1>2. CASE ~(x.done \/ lines \notin DOMAIN Meanings)
  <2>1. DOMAIN pending \subseteq Nat
    <3> DEFINE calls == said.calls
               CallType == [index : Nat, name : STRING, part : STRING]
    <3>1. calls \in Seq(CallType)
      BY <1>2, StreamAssumption
    <3> HIDE DEF calls, CallType
    <3>2. DOMAIN calls = 1 .. Len(calls) /\ \A k \in 1 .. Len(calls) : calls[k] \in CallType
      BY <3>1
    <3>3. \A call \in CallType : call.index \in Nat
      BY DEF CallType
    <3>4. \A k \in DOMAIN calls : calls[k].index \in Nat
      BY <3>2, <3>3
    <3>5. DOMAIN pending = DOMAIN x.pending \cup {calls[k].index : k \in DOMAIN calls}
      BY DEF L!Collected, calls
    <3> QED
      BY <3>4, <3>5 DEF SoundState
  <2>2. first = L!NoTool \/ first.parts \in Whole
    <3> DEFINE whole == {i \in DOMAIN pending : pending[i].parts \in Whole}
               i == CHOOSE k \in whole : \A j \in whole : k <= j
    <3>1. CASE whole = {}
      BY <3>1 DEF L!FirstWhole, SoundState
    <3>2. CASE whole # {}
      <4>1. whole \subseteq Nat
        BY <2>1
      <4> HIDE DEF whole
      <4>2. \E k \in whole : \A j \in whole : k <= j
        BY <3>2, <4>1, LeastOfSome
      <4>3. i \in whole
        BY <4>2
      <4> USE DEF whole
      <4>4. first = pending[i]
        BY <3>2 DEF L!FirstWhole
      <4> QED
        BY <4>3, <4>4
    <3> QED
      BY <3>1, <3>2
  <2> HIDE DEF pending, first
  <2>3. CASE said.done
    <3>1. L!Processed(x, event) = [x EXCEPT !.done = TRUE]
      BY <1>2, <2>3 DEF L!Processed
    <3> QED
      BY <3>1 DEF SoundState
  <2>4. CASE ~said.done
    <3> DEFINE y == L!Processed(x, event)
    <3>1. y = [x EXCEPT
                 !.content = IF said.text = "none" THEN @ ELSE Append(@, said.text),
                 !.usage = L!CacheUsage(@, said.usage),
                 !.tool = IF said.finish THEN first ELSE @,
                 !.pending = IF said.finish THEN <<>> ELSE pending]
      BY <1>2, <2>4 DEF L!Processed, pending, first
    <3> HIDE DEF y, lines
    <3>2. /\ y = [content |-> y.content, tool |-> y.tool, pending |-> y.pending, usage |-> y.usage, done |-> y.done]
          /\ y.tool = IF said.finish THEN first ELSE x.tool
          /\ y.pending = IF said.finish THEN <<>> ELSE pending
      BY <3>1 DEF SoundState
    <3>3. DOMAIN <<>> = {}
      OBVIOUS
    <3> HIDE DEF said
    <3> QED
      BY <2>1, <2>2, <3>2, <3>3 DEF SoundState, y
  <2> QED
    BY <2>3, <2>4
<1> QED
  BY <1>1, <1>2

\* So the tool of any number of events has one.
LEMMA HandledIsSound ==
  ASSUME NEW events \in Seq(Seq(Symbol))
  PROVE  SoundState(L!Handled(L!Blank, events))
<1> DEFINE Good == {t \in Seq(Seq(Symbol)) : SoundState(L!Handled(L!Blank, t))}
<1>1. <<>> \in Good
  <2>1. <<>> \in Seq(Seq(Symbol)) /\ DOMAIN <<>> = {}
    OBVIOUS
  <2>2. SoundState(L!Blank)
    BY <2>1 DEF SoundState, L!Blank
  <2>3. L!Handled(L!Blank, <<>>) = L!Blank
    BY HandledGrow
  <2> QED
    BY <2>1, <2>2, <2>3
<1>2. ASSUME NEW t \in Seq(Seq(Symbol)), NEW e \in Seq(Symbol), t \in Good PROVE Append(t, e) \in Good
  <2>1. Append(t, e) \in Seq(Seq(Symbol))
    OBVIOUS
  <2>2. L!Handled(L!Blank, Append(t, e)) = L!Processed(L!Handled(L!Blank, t), e)
    BY HandledGrow
  <2>3. SoundState(L!Handled(L!Blank, t))
    BY <1>2
  <2> QED
    BY <2>1, <2>2, <2>3, ProcessedIsSound
<1> HIDE DEF Good
<1>3. events \in Good
  BY <1>1, <1>2, AllSequences
<1> QED
  BY <1>3 DEF Good

\* What the model said does not depend on where the network cut it, and the tool it calls has
\* an input that was complete.
THEOREM CutsAreHarmless == DecisionSpec => []CutsDoNotMatter
<1>1. DecisionInv => CutsDoNotMatter
  <2> SUFFICES ASSUME DecisionInv, Answered("stream") PROVE CutsDoNotMatter
    BY DEF CutsDoNotMatter
  <2> DEFINE body == question.body
             a == SubSeq(body, 1, question.first)
             b == SubSeq(body, question.first + 1, question.second)
             c == SubSeq(body, question.second + 1, Len(body))
             last == L!Processed(ReadSoFar(body).state, ReadSoFar(body).rest)
             said == [content |-> last.content, tool |-> last.tool, usage |-> last.usage]
  <2>1. question \in Streams /\ answer = Reading(question)
    BY DEF DecisionInv, Answered
  <2>2. body \in Seq(Symbol) /\ question.first \in 0 .. Len(body) /\ question.second \in question.first .. Len(body)
    BY <2>1, StreamAssumption DEF Symbol
  <2> HIDE DEF body
  <2>3. a \in Seq(Symbol) /\ b \in Seq(Symbol) /\ c \in Seq(Symbol) /\ a \o b \o c = body
    BY <2>2, ThreeParts
  <2> HIDE DEF a, b, c
  <2>4. L!ReadStream(<<body>>) = last /\ L!ReadStream(<<a, b, c>>) = last
    <3>1. L!ReadStream(<<body>>) = last
      BY <2>2, WholeIsRead
    <3>2. L!ReadStream(<<a, b, c>>) = last
      BY <2>3, CutsAreRead
    <3> QED
      BY <3>1, <3>2
  <2> HIDE DEF last
  <2>5. /\ L!Streamed([ok |-> TRUE, chunks |-> <<body>>]) = said
        /\ L!Streamed([ok |-> TRUE, chunks |-> <<a, b, c>>]) = said
    BY <2>4 DEF L!Streamed
  <2>6. answer.cut = said /\ answer.whole = said
    BY <2>1, <2>5 DEF Reading, body, a, b, c
  <2>7. last.tool = L!NoTool \/ last.tool.parts \in Whole
    <3>1. L!Pieces(body) \in PieceType
      BY <2>2, RestIsPiece
    <3>2. L!Pieces(body).events \in Seq(Seq(Symbol))
      BY <3>1 DEF PieceType
    <3>3. SoundState(ReadSoFar(body).state)
      BY <3>2, HandledIsSound DEF ReadSoFar
    <3> QED
      BY <3>3, ProcessedIsSound DEF last, SoundState
  <2> QED
    BY <2>6, <2>7 DEF CutsDoNotMatter
<1> QED
  BY <1>1, DecisionsHold, PTL

==============================================================================
