------------------------------- MODULE Decisions -------------------------------
(***************************************************************************)
(* The decisions of the server and of the agent that read a situation and  *)
(* keep nothing: the price rules of an AI plan (AIApproveRules, which has  *)
(* steps of its own), the intake of a body of plans, the risk gate, the    *)
(* technical signal, the market's structure, the agent's signal and the    *)
(* reading of its model's answer, what is shown of an account, and the     *)
(* position rules. One subject is chosen, one question is put and answered *)
(* once, so that one run covers the inputs of all of them.                 *)
(***************************************************************************)
EXTENDS PlanIntake, PositionRules, Sequences, SequencesExt, FiniteSets

CONSTANTS
  Bodies,       \* [body, at]: an AI result and the account's situation, see PlanIntake
  Gates,        \* [in, now, atrs]: a plan, a moment and the ATR of bars, see RiskGate
  Signalled,    \* [in, config, soft]: a market, see Signals
  Bars,         \* [bars, next]: a series and the bar that follows, see MarketStructure
  Wing, Recent, Reversal,
  Lookback,     \* bars of the window in which breaks and gaps are sought
  AgentCases,   \* sets of what the agent was told about a symbol, see AgentSignals
  Streams,      \* [body, first, second]: the body of an answer and where it is cut
  Meanings,     \* what its events say, and
  Whole,        \* its whole inputs of tools, see AgentStream
  Accounts,     \* [stored, post, at, later]: a post, when it came and when one looks, see AccountView
  Evaluations   \* [P, states, m]: positions, states and a market, see PositionRules

\* What the questions of the gate are made of.
GateInput ==
  [runtime : [open : BOOLEAN, allowed : BOOLEAN, tickAt : Int],
   tick : [bid : Int, ask : Int, spread : Int, maxSpread : Int],
   plan : [mode : STRING, symbol : STRING, side : {"buy", "sell", "none"}, sl : Int, lots : Int, expires : Int],
   equity : Int, freeMargin : Int, leverage : Int,
   positions : SUBSET [lots : Int, side : STRING, symbol : STRING, strategy : STRING],
   strategy : STRING, allowAdd : BOOLEAN, allowHedge : BOOLEAN]

ASSUME GateAssumption ==
  \A g \in Gates : g.in \in GateInput /\ g.now \in [day : 0 .. 6, minute : 0 .. 1439]

PlanType ==
  [side : STRING, execution_type : STRING, requested_order_type : STRING, zone_min : Int, zone_max : Int,
   stop_loss : Int, take_profit : SUBSET Int, max_lots : Int, wellFormed : BOOLEAN, account : STRING,
   symbol : STRING, mode : STRING, confidence : Int, expires : Int, add_on : BOOLEAN, add_on_type : STRING,
   add_on_level : Nat, max_add_count : Nat, max_total_lots : Nat]
BodyType ==
  [plan : SUBSET PlanType, dual : BOOLEAN, buy : SUBSET PlanType, sell : SUBSET PlanType,
   alert : BOOLEAN, exit : STRING]
HeldType ==
  [ticket : Int, symbol : STRING, side : {"buy", "sell"}, lots : Nat \ {0}, open : Int, strategy : STRING]
AccountType ==
  [loaded : BOOLEAN, open : BOOLEAN, allowed : BOOLEAN, equity : Int, balance : Int, freeMargin : Int,
   leverage : Int, h1 : Nat, m30 : Nat,
   frames : [{"D1", "H4", "H1", "M30"} -> [ema20 : Nat, ema50 : Nat, close : Nat, adx : Nat]],
   positions : SUBSET HeldType, states : SUBSET [count : Nat, added : Nat],
   tick : [bid : Nat, ask : Nat, spread : Int, maxSpread : Int, at : Int],
   now : [day : 0 .. 6, minute : 0 .. 1439]]

\* A body has one field for a plan; an account has finitely many positions.
ASSUME IntakeAssumption ==
  \A q \in Bodies :
    /\ q \in [body : BodyType, at : AccountType]
    /\ \A x, y \in q.body.plan : x = y
    /\ IsFiniteSet(q.at.positions)

BarType == [open : Int, high : Int, low : Int, close : Int]

ASSUME StructureAssumption ==
  /\ Bars \subseteq [bars : Seq(BarType), next : BarType]
  /\ Wing \in Nat /\ Recent \in Nat /\ Reversal \in Nat /\ Lookback \in Nat

\* What a market is made of: bars with their indicators, what was found in them, the harmonic
\* pattern, the AI's suggestions and the open positions; and what the strategies are told.
MarketBar ==
  [open : Nat, high : Nat, low : Nat, close : Nat, ema20 : Int, ema50 : Int, atr : Int, rsi : Int,
   adx : Int, macd : Int, stoch : Int, volume : {"low", "normal", "high"}, bbUp : Int, bbLow : Int,
   fib382 : Int, fib618 : Int, fib786 : Int, r1 : Int, s1 : Int]
FrameType == [len : Nat, bars : Seq(MarketBar)]
BlockType == [side : {"BUY", "SELL"}, valid : BOOLEAN, high : Int, low : Int]
SmcType ==
  [breaks : Seq([type : {"BOS", "CHoCH"}, direction : {"UP", "DOWN"}, age : Nat]),
   sweeps : Seq([side : {"BUY", "SELL"}, level : Int, age : Nat]),
   blocks : Seq(BlockType), short : Seq(BlockType), gaps : Seq([high : Int, low : Int, filled : BOOLEAN])]
MarketInput ==
  [price : Int, h1 : FrameType, h4 : FrameType, m30 : FrameType, m15 : FrameType,
   smc : [h4 : SmcType, h1 : SmcType, m30 : SmcType, m15 : SmcType],
   harmonic : [side : {"BUY", "SELL", "none"}, score : Int], confirmed : BOOLEAN,
   ai : [sl : Int, tp : Int], positions : SUBSET [open : Int, side : STRING, strategy : STRING]]
PullbackConfig ==
  [minAdx : Nat, oversold : Nat, overbought : Nat, dist : Nat, adxBonus : Nat,
   sl : Nat, tp1 : 10 .. 50, tp2 : 0 .. 50]
RetestConfig ==
  [lookback : Nat \ {0}, confirm : Nat, dist : Nat, sl : Nat, tp1 : 10 .. 50, tp2 : 0 .. 50]
DivergenceConfig ==
  [recent : Nat \ {0}, previous : Nat \ {0}, bull : Nat, bear : Nat,
   sl : Nat, tp1 : 10 .. 50, tp2 : 0 .. 50]
ConfigType ==
  [pullback : PullbackConfig, retest : RetestConfig, divergence : DivergenceConfig,
   pyramid : [minAdx : Nat, sl : Nat],
   srMin : Nat, srMax : 0 .. 50, srBuffer : Nat, fib : BOOLEAN, fibMaxStop : 0 .. 40, fibMinRR : 0 .. 125,
   minRR : Nat \ (0 .. 124), minScore : Nat, h4Adx : Nat, h4Bars : Nat]

\* A frame that is long enough for a window shows the bars of it.
ASSUME SignalAssumption ==
  \A q \in Signalled :
    /\ q \in [in : MarketInput, config : ConfigType, soft : BOOLEAN]
    /\ \A tf \in {q.in.h1, q.in.h4, q.in.m30, q.in.m15} : tf.len > 0 => tf.bars # <<>>
    /\ \A n \in {q.config.retest.lookback + 5, q.config.divergence.recent + q.config.divergence.previous} :
         q.in.h1.len >= n => Len(q.in.h1.bars) >= n

\* What the agent's cases are made of: the parsed answer with the values its schemas allow,
\* the model's call and the account.
TradeType == [direction : {"buy", "sell", "hold", "dual", "none"}, entry : Nat, sl : Nat, tp1 : Nat, tp2 : Nat]
ArbType ==
  [direction : {"buy", "sell", "hold", "close", "dual"}, action : {"open", "close", "modify", "hold"},
   confidence : Int, aligned : BOOLEAN, trade : TradeType]
FoundType ==
  [arb : ArbType, risk : [level : {"low", "medium", "high", "extreme"}, sl : Nat, lots : Nat],
   technical : [bias : {"bullish", "bearish", "neutral"},
                exit : {"hold", "close", "partial_close", "trail_stop", "none"},
                supports : SUBSET Int, resistances : SUBSET Int],
   wave : [strength : {"strong", "moderate", "weak"}, confirmed : BOOLEAN], chan : {"buy", "sell", "hold"}]
QuoteType == [bid : Int, ask : Int]
UseType ==
  [name : STRING, account : STRING, symbol : STRING, side : STRING, entry : Int, sl : Int, tp1 : Int,
   tp2 : SUBSET Int, lots : Int, order : {"limit", "stop"}, ticket : Int]
ViewType ==
  [account : STRING, symbol : STRING, loaded : BOOLEAN, positions : SUBSET (Int \X STRING),
   tick : QuoteType, atr : Nat, minLots : Nat]
AgentInput ==
  [first : BOOLEAN,
   call : [stream : STRING, invoke : STRING, format : {"markdown", "json", "none"}, retries : BOOLEAN],
   said : FoundType, use : UseType, tick : QuoteType, others : SUBSET Int, blocking : SUBSET STRING,
   atr : Nat, madeAtr : Nat, quarters : Nat, view : ViewType]

ASSUME AgentAssumption ==
  \A cases \in AgentCases : \A c \in cases :
    c \in AgentInput /\ (c.view.tick.bid > 0 => c.view.tick.ask > 0)

\* What is kept of an account, and what a terminal posts.
Word == {"true", "false", "none"}
HeartbeatType == [open : Word, allowed : Word, maxSpread : Nat, clock : Nat, at : Nat]
LastTickType ==
  [kind : {"none", "time", "date"}, clock : Nat, priced : BOOLEAN, maxSpread : Nat, at : Nat]
PostedType ==
  [ticket : Int, strategy : STRING, class : STRING, type : STRING, comment : STRING, opened : Int]
FigureType == [ema20 : Nat, ema50 : Nat, adx : Nat]
SeriesType == [len : Nat, close : Nat, ema20 : Nat, ema50 : Nat, adx : Nat, own : FigureType]
SeriesNames == {"D1", "H4", "H1", "M30", "M15"}
StoredType ==
  [heartbeat : HeartbeatType, tick : LastTickType, positions : SUBSET PostedType,
   frames : [SeriesNames -> SeriesType]]
PostType ==
  [path : {"heartbeat"}, body : HeartbeatType, wrong : SUBSET STRING]
    \cup [path : {"tick"}, body : LastTickType, wrong : SUBSET STRING]
    \cup [path : {"positions"}, body : SUBSET PostedType, wrong : SUBSET STRING]
    \cup [path : {"bars"}, body : [timeframe : SeriesNames, frame : SeriesType], wrong : SUBSET STRING]

\* A review is of finitely many open positions; without a price there is none.
ASSUME EvaluationAssumption ==
  \A q \in Evaluations :
    /\ IsFiniteSet(DOMAIN q.P) /\ q.P \in [DOMAIN q.P -> PositionType]
    /\ q.states \in [DOMAIN q.states -> StateType]
    /\ q.m \in MarketType /\ q.m.price > 0

\* A heartbeat with a stamp went through the normalizer; one looks after the post came.
ASSUME AccountAssumption ==
  \A q \in Accounts :
    /\ q \in [stored : StoredType, post : PostType, at : Nat, later : Nat]
    /\ q.stored.heartbeat.at > 0 => "none" \notin {q.stored.heartbeat.open, q.stored.heartbeat.allowed}
    /\ q.at <= q.later

\* An answer is cut within its length; its parts of calls are numbered.
ASSUME StreamAssumption ==
  /\ \A q \in Streams :
       q.body \in Seq(STRING) /\ q.first \in 0 .. Len(q.body) /\ q.second \in q.first .. Len(q.body)
  /\ \A event \in DOMAIN Meanings :
       Meanings[event].calls \in Seq([index : Nat, name : STRING, part : STRING])

VARIABLES
  subject, question,
  answer  \* empty before

decisionVars == <<subject, question, answer>>

G == INSTANCE AgentSignals
L == INSTANCE AgentStream
S == INSTANCE Signals
V == INSTANCE AccountView

Asked(name, questions) ==
  /\ subject = name
  /\ question \in questions
  /\ plan = 0 /\ tick = 0 /\ atr = 0 /\ stage = "none" /\ orderType = "none" /\ order = 0

DecisionInit ==
  /\ answer = <<>>
  /\ \/ subject = "rules" /\ question = <<>> /\ Init
     \/ Asked("intake", Bodies)
     \/ Asked("gate", Gates)
     \/ Asked("signal", Signalled)
     \/ Asked("structure", Bars)
     \/ \E cases \in AgentCases : Asked("agent", cases)
     \/ Asked("stream", Streams)
     \/ Asked("account", Accounts)
     \/ Asked("evaluation", Evaluations)

Answer(name, text) ==
  /\ subject = name
  /\ DOMAIN answer = {}
  /\ answer' = text
  /\ UNCHANGED <<subject, question, vars>>

\* What is answered to each of the questions.
Intake(q) == [verdict |-> Verdict(q.body, q.at), orders |-> Orders(q.body, q.at), closes |-> Closes(q.body, q.at)]

Judgement(q) ==
  [filter |-> R!Blocking(q.in.plan.symbol, q.now, q.in.runtime, q.in.tick),
   warned |-> R!Warnings(q.in.plan.symbol, q.now, q.atrs),
   rejects |-> R!TradeabilityRejects(q.in, q.now),
   verdict |-> R!EvaluateRiskGate(q.in, q.now)]

Publication(q) == [published |-> S!Signal(q.in, q.config, q.soft)]

Structure(q) == [before |-> S!Context(q.bars, Lookback), after |-> S!Context(Append(q.bars, q.next), Lookback)]

Composition(q) == [signal |-> G!AgentSignal(q)]

\* The body as the reader gets it, and in one piece.
Reading(q) ==
  LET body == q.body
      chunks == <<SubSeq(body, 1, q.first), SubSeq(body, q.first + 1, q.second),
                  SubSeq(body, q.second + 1, Len(body))>>
      read(given) == L!Streamed([ok |-> TRUE, chunks |-> given])
  IN [cut |-> read(chunks), whole |-> read(<<body>>)]

\* What is shown at once and later, and what the filter of signals is given later.
Sighting(q) ==
  LET stored == V!Received(q.stored, q.post, q.at) IN
    [stored |-> stored, first |-> V!Payload(stored, q.at), later |-> V!Payload(stored, q.later),
     live |-> V!LiveRuntime(stored, q.later)]

Evaluation(q) == [advised |-> EvaluateCommands(q.P, q.states, q.m)]

ReceivePlans == \E said \in {Intake(question)} : Answer("intake", said)
JudgePlan == \E said \in {Judgement(question)} : Answer("gate", said)
PublishSignal == \E said \in {Publication(question)} : Answer("signal", said)
ReadStructure == \E said \in {Structure(question)} : Answer("structure", said)
ComposeSignal == \E said \in {Composition(question)} : Answer("agent", said)
ReadAnswer == \E said \in {Reading(question)} : Answer("stream", said)
ShowAccount == \E said \in {Sighting(question)} : Answer("account", said)
EvaluatePositions == \E said \in {Evaluation(question)} : Answer("evaluation", said)

ApplyRules ==
  /\ subject = "rules"
  /\ Next
  /\ UNCHANGED decisionVars

DecisionNext ==
  \/ ApplyRules
  \/ subject = "intake" /\ ReceivePlans
  \/ subject = "gate" /\ JudgePlan
  \/ subject = "signal" /\ PublishSignal
  \/ subject = "structure" /\ ReadStructure
  \/ subject = "agent" /\ ComposeSignal
  \/ subject = "stream" /\ ReadAnswer
  \/ subject = "account" /\ ShowAccount
  \/ subject = "evaluation" /\ EvaluatePositions

DecisionSpec == DecisionInit /\ [][DecisionNext]_<<decisionVars, vars>>

-----------------------------------------------------------------------------

Answered(name) == subject = name /\ DOMAIN answer # {}

\* Whichever way a plan came, alone or as the leg of a dual plan that nothing else judged,
\* it becomes an order only if it is complete, meant for this account and symbol and sure;
\* the order protects and pays at its entry and at the price it will fill at, and a limit
\* waits behind the market. It joins AI positions of its side only declared as an addition,
\* an ATR away from their average, and adds at most six tenths to winners that win or to
\* losers that lose. After the single plan's verdict no order meets a closed market or an
\* open position of the other side. And a body that asks to close opens nothing (app.ts:844,
\* 1215-1580, gate.ts:63).
QueuedPlanIsSound ==
  Answered("intake") =>
    LET at == question.at IN
      /\ answer.closes # {} => answer.orders = {}
      /\ \A c \in answer.closes : c.action = "CLOSE" =>
           \E q \in at.positions : q.ticket = c.ticket /\ q.side = "sell" /\ q.symbol \in {Here, "none"}
      /\ \A o \in answer.orders :
           LET p == o.plan
               fill == IF o.kind = "market" THEN ExecutionPrice(at.tick, p.side) ELSE o.order.entry
               joined == {q \in at.positions : q.symbol \in {Here, "none"} /\ q.side = p.side}
               own == {q \in joined : q.strategy \in {"ai_signal", "none"}}
               won == {q \in joined : Gain(q.side, q.open, MidPrice(at.tick)) > 0}
           IN /\ p.wellFormed /\ p.account = "own" /\ p.symbol = Here /\ p.confidence \in 65 .. 100
              /\ \A price \in {fill, o.order.entry} :
                   LET risk == -Gain(p.side, price, o.order.sl) IN
                     /\ risk > 0 /\ Gain(p.side, price, o.order.tp1) > 0
                     /\ 4 * Gain(p.side, price, o.order.tp) >= 5 * risk
              /\ o.kind # "market" => Gain(p.side, o.order.entry, ExecutionPrice(at.tick, p.side)) > 0
              /\ own # {} =>
                   /\ p.add_on
                   /\ \E q \in joined : Distance(q.open, o.order.entry) >= at.m30
                   /\ p.add_on_type \in {"favorable", "adverse"} =>
                        /\ 10 * p.max_lots <= 6 * Lots(joined)
                        /\ \E q \in joined : q.ticket = o.group.parent
                        /\ IF p.add_on_type = "favorable" THEN won # {} ELSE won # joined
              /\ answer.verdict.status # "none" =>
                   /\ answer.verdict.status \in {"accepted", "clamped"} /\ ~answer.verdict.audit
                   /\ question.body.dual \/ (at.open /\ at.allowed /\ at.tick.at # 0)
                   /\ question.body.dual \/ \A q \in at.positions :
                        q.symbol \in {Here, "none"} /\ q.strategy \in {"ai_signal", "none"} => q.side = p.side

\* A plan the gate lets through to be sized has its stop on the losing side at a distance
\* the symbol allows, and its lots lose at most 2% of the equity at that stop and use at
\* most half of the margin, as far as one lot step does; the cap of lots and the ban of
\* adding and hedging hold whatever the positions are called (riskgate.ts:163-367).
AcceptedPlanIsSound ==
  Answered("gate") /\ answer.verdict.reasons = {"lots"} =>
    LET in == question.in
        meta == R!MetadataFor(in.plan.symbol)
        entry == R!EntryPrice(in.tick, in.plan.side)
        gap == R!Gap(entry, in.plan.sl)
        lots == answer.verdict.lots
    IN /\ in.plan.side # "none" => Gain(in.plan.side, entry, in.plan.sl) < 0
       /\ gap \in meta.minStop .. meta.maxStop
       /\ lots >= 1 /\ lots <= in.plan.lots /\ lots <= meta.maxLot
       /\ LET atStop == (2 * in.equity) \div (100 * gap * meta.value)
              atMargin == (in.leverage * in.freeMargin) \div (2 * entry * meta.value)
          IN /\ atStop >= 1 => lots <= atStop
             /\ atMargin >= 1 => lots <= atMargin
       /\ \A p \in in.positions :
            (p.symbol = "none" \/ R!BaseSymbol(p.symbol) = R!BaseSymbol(in.plan.symbol))
              /\ p.lots > 0 /\ p.strategy \in {"none", in.strategy} =>
            /\ p.side = in.plan.side /\ p.side # "none" => in.allowAdd
            /\ {p.side, in.plan.side} = {"buy", "sell"} => in.allowHedge

\* What the market filter of the analysis lets pass the gate of the plan does not stop for
\* the market's sake: the two are written apart, with limits of their own, and a signal
\* published under a looser filter would only be thrown away later. And from the rollover of
\* the day to its first hour it never is silent: one window ends where the next begins
\* (riskgate.ts:113, 225, 469-494).
FilterImpliesGate ==
  Answered("gate") =>
    /\ answer.filter = {} => answer.rejects \subseteq {"missing_price", "expired"}
    /\ question.now.minute \notin 60 .. 1314 => answer.warned # {}

\* A published signal is protected and pays: the stop behind the entry by no more than
\* four ATR, the first target ahead, the farther one worth the ratio of the symbol, and
\* the score between the minimum and ten, whichever strategy made it and whatever its
\* levels, the retracement and the AI made of it (replay.ts:328-409).
SignalIsSound ==
  Answered("signal") =>
    \A s \in answer.published :
      LET risk == S!Ahead(s.side, s.sl, s.entry) IN
        /\ risk \in 1 .. 4 * s.atr
        /\ S!Ahead(s.side, s.entry, s.tp1) > 0
        /\ 100 * S!Ahead(s.side, s.entry, S!FarTarget(s)) >= 125 * risk
        /\ s.score \in question.config.minScore .. 10

\* A later bar does not repaint what earlier bars showed: swing points and sweeps stay, a
\* gap within the window keeps its bounds and the bar that filled it, and an order block that
\* was closed through is never valid again. Breaks of structure are not among these: their levels and
\* their kind follow the trend of all bars (smc/detector.ts).
StructureIsNotRepainted ==
  Answered("structure") =>
    LET later == Append(question.bars, question.next) IN
      /\ \A high \in BOOLEAN : S!Swings(question.bars, 1, high) \subseteq S!Swings(later, 1, high)
      /\ answer.before.sweeps \subseteq answer.after.sweeps
      /\ \A g \in answer.before.gaps : g.gap.start > Len(later) - Lookback =>
           \E h \in answer.after.gaps : h.gap = g.gap /\ (g.filled # 0 => h.filled = g.filled)
      /\ \A a \in answer.before.blocks, b \in answer.after.blocks :
           a.index = b.index /\ a.side = b.side /\ b.valid => a.valid

\* A shared insight tells how far from the entry its levels are when it recommends a trade.
Stated(in) ==
  LET said == in.said.arb.trade IN
    /\ said.direction \in {"buy", "sell", "dual"} /\ 0 \notin {said.entry, said.sl, said.tp1}
    /\ in.madeAtr > 0 /\ G!Middle(in.tick) > 0

\* A level is as many ATR away from the account's price as it is from the insight's entry.
AsStated(in, level, distance) ==
  in.madeAtr * distance - G!Apart(in.said.arb.trade.entry, level) * G!Either(in.view.atr, in.atr)
    \in 0 .. in.madeAtr - 1

\* What keeps a level above zero: as it is stated it is less than a price away; or else the
\* call names one that is not missing and not twice the price away, and ATR is small.
Within(in, level, named, at) ==
  LET own == G!Either(in.view.atr, in.atr) IN
    IF Stated(in) THEN G!Apart(in.said.arb.trade.entry, level) * own <= in.madeAtr * (at - 1)
    ELSE named \in 1 .. 2 * at - 1 /\ 3 * own < at

\* A plan the agent approves rests on an answer that was understood, on an opening with
\* confidence and on no recommended trade with a level on the wrong side, nor, but in
\* Markdown, with one missing. Where the insight is shared, the account has the symbol
\* loaded and its price is near the one the insight was made at. The order's stop is behind
\* its own price and its targets are not, at the insight's distances when it states them.
\* They are prices, above zero, unless they were stated or named too far away or not named
\* at all: a buy for which no trade is recommended and whose call gives no stop goes out
\* with a stop of zero. A plan made of the analysis has all of its fields and no closed
\* market; the lots are the ones allowed or advised (compose.ts:136-184, 365-538,
\* comprehensive-analyst.ts:1529-1590, 1997-2203).
AgentPlanIsSound ==
  Answered("agent") =>
    LET in == question
        said == in.said.arb.trade
        s == answer.signal
    IN \A p \in {x \in {s.plan} \cup s.legs : x.mode = "approve"} :
         /\ s.action = "open" /\ s.confidence >= 45
         /\ in.call.format # "none" \/ in.call.retries
         /\ said.direction \in {"buy", "sell"}
              /\ (0 \notin {said.entry, said.sl, said.tp1} \/ in.call.format # "markdown") =>
              /\ 0 \notin {said.entry, said.sl, said.tp1}
              /\ G!Forward(said.direction, said.sl, said.entry) > 0
              /\ G!Forward(said.direction, said.entry, said.tp1) > 0
         /\ p.lots \in in.view.minLots .. 50 \/ (~in.first /\ p.lots = in.said.risk.lots)
         /\ in.first /\ in.view.tick.bid > 0 =>
              LET at == IF p.side = "buy" THEN p.high ELSE p.low
                  risk == G!Forward(p.side, p.sl, at)
                  gain(t) == G!Forward(p.side, at, t)
              IN /\ in.view.loaded
                 /\ in.use.account = in.view.account /\ in.use.symbol \in {"none", in.view.symbol}
                 /\ 4 * G!Apart(G!Middle(in.tick), G!Middle(in.view.tick))
                      <= in.quarters * G!Either(in.atr, in.view.atr)
                 /\ risk > 0 /\ (Stated(in) => AsStated(in, said.sl, risk))
                 /\ Within(in, said.sl, in.use.sl, at) => p.sl > 0
                 /\ \A t \in p.tps : gain(t) >= 0
                 /\ \E t \in p.tps :
                      /\ gain(t) > 0 /\ (Stated(in) => AsStated(in, said.tp1, gain(t)))
                      /\ Within(in, said.tp1, in.use.tp1, at) => t > 0
         /\ ~in.first /\ in.use.name \notin {"place_market_order", "place_pending_order"} =>
              /\ p.sl > 0 /\ p.tps # {} /\ p.lots > 0
              /\ in.blocking \cap {"market.closed", "tick.stale"} = {}

\* What the model said does not depend on where the network cut it, not even in the middle
\* of an event or of an empty line; and the tool it calls has an input that was complete
\* when the answer finished (llm-client.ts:348-505).
CutsDoNotMatter ==
  Answered("stream") =>
    /\ answer.cut = answer.whole
    /\ answer.cut.tool # L!NoTool => answer.cut.tool.parts \in Whole

\* The figures the gate of the trend reads are the terminal's.
JudgedFrames(kept) ==
  [tf \in DOMAIN Weights |->
     [ema20 |-> kept.frames[tf].ema20, ema50 |-> kept.frames[tf].ema50,
      close |-> kept.frames[tf].close, adx |-> kept.frames[tf].adx]]

\* The market is shown to the AI as open only if the terminal said so and was heard within
\* the quarter of an hour, and it does not open by waiting; the filter of the server's own
\* signals, which has other limits and other defaults, passes no market that is shown as
\* closed, as long as both posts are heard. A position keeps the strategy it was stored with,
\* a known one when its comment or its terminal names one. And the trend that is shown is
\* the one a plan is judged by: on the same figures a plan of little confidence passes the
\* gate of the trend if and only if the trend shown is strong enough and not against it
\* (app.ts:1706-1880, 2041-2103, 2347-2445; service.ts:618-642, gate.ts:105-117, 318-379).
AccountIsShownAsItIs ==
  Answered("account") =>
    LET kept == answer.stored
        status == answer.later.status
        live == answer.live
        heard(at) == at > 0 /\ question.later - at <= V!Ttl
        trend == answer.later.trend
    IN /\ kept.tick.at > 0 /\ status.open =>
            /\ kept.heartbeat.open = "true" /\ live.open
            /\ heard(kept.tick.at) /\ answer.first.status.open
            /\ kept.heartbeat.at > 0 => heard(kept.heartbeat.at)
       /\ heard(kept.heartbeat.at) /\ kept.tick.at > 0 /\ live.open
            /\ question.later - live.lastTick <= R!MaxTickAge => status.open
       /\ question.post.path = "positions" /\ question.post.wrong = {} =>
            \A q \in question.post.body : \E p \in answer.later.positions :
              /\ p.ticket = q.ticket
              /\ q.strategy \in V!Strategies => p.strategy = q.strategy
              /\ q.comment \in V!Strategies => p.strategy \in V!Strategies
              /\ \E own \in kept.positions :
                   own.ticket = p.ticket /\ own.strategy = p.strategy /\ own.class = p.class
       /\ (\A tf \in SeriesNames :
              LET f == kept.frames[tf] IN
                f.own = [ema20 |-> f.ema20, ema50 |-> f.ema50, adx |-> f.adx] /\ 0 \notin {f.close, f.ema20, f.ema50, f.adx}) =>
            \A side \in {"buy", "sell"} :
              TrendAllows([side |-> side, confidence |-> 74], JudgedFrames(kept)) <=>
                /\ trend.consensus # IF side = "buy" THEN "BEAR" ELSE "BULL"
                /\ trend.strength >= 300

\* Whatever combination of profit lock, group break-even and re-anchoring fires, each stop
\* sent for a position is ahead of the one it has and of the ones sent before it in the same
\* evaluation, and behind the market. No close asks for more lots than there are or, up to
\* the rounding, for less than the 40% of a target: small positions are closed whole. And
\* when a position takes a target, every position of its side has taken it afterwards, even
\* one that a time stop closed in the same pass (manager.ts:654-767, 1106-1291, 1360).
AdviceIsSound ==
  Answered("evaluation") =>
    LET P == question.P
        made == answer.advised
        took(t, flag) == made[t].st[flag] /\ ~(t \in DOMAIN question.states /\ question.states[t][flag])
    IN \A t \in DOMAIN P :
         /\ \A k \in DOMAIN Rules : \A i \in DOMAIN made[t].adv[Rules[k]] :
              LET c == made[t].adv[Rules[k]][i] IN
                /\ c.act = "MODIFY" =>
                     /\ P[t].sl = 0 \/ Beyond(P[t].side, P[t].sl, c.sl) > 0
                     /\ Beyond(P[t].side, c.sl, question.m.price) > 0
                     /\ \A l \in 1 .. k : \A j \in DOMAIN made[t].adv[Rules[l]] :
                          LET d == made[t].adv[Rules[l]][j] IN
                            (l < k \/ j < i) /\ d.act = "MODIFY" => Beyond(P[t].side, d.sl, c.sl) > 0
                /\ c.act = "CLOSE" => c.lots <= P[t].lots /\ 10 * c.lots >= 4 * P[t].lots - 5
         /\ \A u \in DOMAIN P : \A flag \in {"tp1", "tp2"} :
              P[u].side = P[t].side /\ took(u, flag) => made[t].st[flag]
=============================================================================
