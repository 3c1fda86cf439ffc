------------------------------ MODULE MCDecisions ------------------------------
(* Values of the constants of Decisions for TLC. *)
EXTENDS Decisions, MCAIApproveRules

MS == INSTANCE MCSignals
ME == INSTANCE MCPositions
MG == INSTANCE MCAgentSignals
ML == INSTANCE MCAgentStream
MI == INSTANCE MCPlanIntake

\* The parameters of every symbol that has its own, and of another, are of the type.
ASSUME ConfigAssumption ==
  \A symbol \in {"XAUUSD", "XAGUSD", "GBPJPY", "EURUSD", "GBPUSD", "USDCAD", "US100CASH", "USOILCASH", "USDCHF"} :
    MS!ConfigOf(symbol) \in ConfigType

MCSignalled == [in : MS!MCMarketInputs, config : MS!MCConfigs, soft : {FALSE}]
MCAgentCases == MG!MCAgentCases
MCStreams == ML!MCStreams
MCMeanings == ML!MCMeanings
MCWhole == ML!MCWhole
MCBodies == MI!MCBodies
MCEvaluations == ME!MCEvaluations

\* Plans for gold at 2000 (points of its row), by one of its names, and for other symbols;
\* Friday evening, Saturday and Monday.
Plan0 == [mode |-> "approve", symbol |-> "GOLD#", side |-> "buy", sl |-> 1900, lots |-> 50, expires |-> 0]
Gate0 ==
  [runtime |-> [open |-> TRUE, allowed |-> TRUE, tickAt |-> 719],
   tick |-> [bid |-> 1998, ask |-> 2000, spread |-> 2, maxSpread |-> 0],
   plan |-> Plan0, equity |-> 10000000, freeMargin |-> 10000000, leverage |-> 100,
   positions |-> {}, strategy |-> "pullback", allowAdd |-> FALSE, allowHedge |-> FALSE]
Held(symbol, side, strategy) == {[lots |-> 10, side |-> side, symbol |-> symbol, strategy |-> strategy]}
Sized ==
  {[Gate0 EXCEPT !.plan.symbol = n, !.plan.side = d, !.plan.sl = l, !.plan.lots = k, !.equity = q,
                 !.freeMargin = f] :
     n \in {"GOLD#", "US100", "GBPJPYm#"}, d \in {"buy", "sell", "none"},
     l \in {0, 1000, 1900, 1996, 2000, 2003, 2100, 5100}, k \in {1, 50, 6000},
     q \in {100000, 10000000, 900000000}, f \in {1000, 10000000}}
  \cup
  {[Gate0 EXCEPT !.plan.side = d, !.plan.sl = l, !.plan.lots = k, !.equity = q, !.freeMargin = f, !.leverage = g] :
     d \in {"buy", "sell"}, l \in {1900, 2100}, k \in {0, 50}, q \in {0, 100000, 900000000},
     f \in {0, 10000000}, g \in {0, 100}}
Crowded ==
  {[Gate0 EXCEPT !.positions = Held(n, d, s), !.allowAdd = a, !.allowHedge = h, !.plan.mode = k,
                 !.plan.sl = l, !.plan.side = e] :
     n \in {"XAUUSD", "GBPUSD", "none"}, d \in {"buy", "sell", "none"}, s \in {"pullback", "divergence", "none"},
     a \in BOOLEAN, h \in BOOLEAN, k \in {"approve", "modify", "close", "hold"},
     e \in {"buy", "sell", "none"}, l \in {1900, 2100}}
Untradeable ==
  {[Gate0 EXCEPT !.runtime = [open |-> o, allowed |-> a, tickAt |-> t],
                 !.tick = [bid |-> b, ask |-> 2000, spread |-> s, maxSpread |-> x], !.plan.expires = e] :
     o \in BOOLEAN, a \in BOOLEAN, t \in {-1, 0, 717, 719}, b \in {0, 1998}, s \in {2, 6, 81, 90},
     x \in {0, 1, 100}, e \in {0, 719, 721}}
MCGates ==
  {[in |-> in, now |-> [day |-> 1, minute |-> 720], atrs |-> <<>>] : in \in Sized \cup Crowded \cup Untradeable}
  \cup {[in |-> [Gate0 EXCEPT !.plan.symbol = n, !.runtime.tickAt = t],
         now |-> [day |-> d, minute |-> t], atrs |-> a] :
          n \in {"GOLD", "US100#", "EURUSD"}, d \in {0, 1, 5, 6}, t \in {60, 239, 720, 1200, 1314, 1315, 1330, 1331, 1439},
          a \in {<<>>, [i \in 1 .. 12 |-> IF i = 12 THEN 8 ELSE IF i = 1 THEN 0 ELSE 4]}}

\* Series of five bars between 1 and 8.
Bar(o, h, l, c) == [open |-> o, high |-> h, low |-> l, close |-> c]
Shapes == {Bar(2, 3, 1, 3), Bar(4, 5, 3, 4), Bar(5, 8, 4, 5), Bar(7, 7, 2, 3)}
MCBars == [bars : [1 .. 5 -> Shapes], next : Shapes \cup {Bar(4, 8, 1, 2)}]

\* What a terminal two hours ahead of the server posted, and posts on the third day at ten.
Ten == 2 * 1440 + 600
Line(c, e, f, x) ==
  [len |-> 30, close |-> c, ema20 |-> e, ema50 |-> f, adx |-> x, own |-> [ema20 |-> e, ema50 |-> f, adx |-> x]]
Quiet == [tf \in SeriesNames |-> [Line(0, 0, 0, 0) EXCEPT !.len = 0]]
Heartbeat(open, clock, at) == [open |-> open, allowed |-> open, maxSpread |-> 0, clock |-> clock, at |-> at]
LastTick(kind, clock, at) == [kind |-> kind, clock |-> clock, priced |-> kind # "none", maxSpread |-> 0, at |-> at]
Stores ==
  {[heartbeat |-> h, tick |-> t, positions |-> {}, frames |-> Quiet] :
     h \in {Heartbeat("none", 0, 0), Heartbeat("none", Ten + 118, 0)}
             \cup {Heartbeat(o, Ten + 118, a) : o \in {"true", "false"}, a \in {0, Ten - 20, Ten - 2}},
     t \in {LastTick("none", 0, a) : a \in {0, Ten - 1}}
             \cup {LastTick("time", c, a) : c \in {718, 1430}, a \in {0, Ten - 13, Ten - 1}}
             \cup {LastTick("date", Ten - 1, 0)}}
Posts ==
  {[path |-> "heartbeat", body |-> Heartbeat(o, Ten + 120, 0), wrong |-> w] : o \in Word, w \in {{}, {"equity"}}}
  \cup {[path |-> "tick", body |-> LastTick("time", 720, 0), wrong |-> w] : w \in {{}, {"bid"}}}
Books ==
  {[path |-> "positions", wrong |-> {},
    body |-> {[ticket |-> 1, strategy |-> s, class |-> c, type |-> t, comment |-> n, opened |-> Ten + 100],
              [ticket |-> 2, strategy |-> "ai_signal", class |-> "market", type |-> t, comment |-> n, opened |-> 0]}] :
     s \in {"ai", "ai_signal", "mine", "none"}, c \in {"market", "pending", "none"}, t \in {"BUY", "SELLSTOP"},
     n \in {"ai_signal", "range", "none"}}
\* Rising, falling and undecided series of all strengths, and one that the server sees fall
\* and the terminal rise; the bars of the hour come last.
Up(x) == Line(3, 2, 1, x)
Down(x) == Line(1, 2, 3, x)
Flat(x) == Line(2, 2, 2, x)
Lines == {Up(x) : x \in {15, 30}} \cup {Down(x) : x \in {15, 30, 35}} \cup {Flat(25)}
Trends ==
  {[D1 |-> d, H4 |-> f, H1 |-> Flat(10), M30 |-> n, M15 |-> Flat(10)] :
     d \in {Up(15), Down(30), Flat(25)}, f \in Lines, n \in Lines}
Closed ==
  {[path |-> "bars", body |-> [timeframe |-> "H1", frame |-> l], wrong |-> {}] :
     l \in Lines \cup {[Up(30) EXCEPT !.own = Down(30).own]}}
Store0 == [heartbeat |-> Heartbeat("true", Ten + 119, Ten - 1), tick |-> LastTick("time", 718, Ten - 1), positions |-> {}, frames |-> Quiet]
MCAccounts ==
  [stored : Stores, post : Posts, at : {Ten}, later : {Ten, Ten + 2, Ten + 11, Ten + 16}]
  \cup [stored : {Store0}, post : Books, at : {Ten}, later : {Ten + 1}]
  \cup [stored : {[Store0 EXCEPT !.frames = f] : f \in Trends}, post : Closed, at : {Ten}, later : {Ten}]
=============================================================================
