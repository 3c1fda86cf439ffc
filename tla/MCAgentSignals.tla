---------------------------- MODULE MCAgentSignals ----------------------------
(* What the agent is told, for AgentSignals: one account, prices around 20. *)
EXTENDS Integers

Tick(b) == [bid |-> b, ask |-> b + 2]
Trade(d, e, s, t, u) == [direction |-> d, entry |-> e, sl |-> s, tp1 |-> t, tp2 |-> u]
Use(n) ==
  [name |-> n, account |-> "a1", symbol |-> "none", side |-> "buy", entry |-> 18, sl |-> 16, tp1 |-> 28,
   tp2 |-> {}, lots |-> 10, order |-> "limit", ticket |-> 7]

Base ==
  [first |-> FALSE, call |-> [stream |-> "text", invoke |-> "text", format |-> "markdown", retries |-> FALSE],
   said |-> [arb |-> [direction |-> "buy", action |-> "open", confidence |-> 60, aligned |-> FALSE,
                      trade |-> Trade("buy", 20, 16, 26, 0)],
             risk |-> [level |-> "low", sl |-> 16, lots |-> 20],
             technical |-> [bias |-> "neutral", exit |-> "none", supports |-> {14, 18}, resistances |-> {24, 30}],
             wave |-> [strength |-> "moderate", confirmed |-> FALSE], chan |-> "hold"],
   use |-> Use("none"), tick |-> Tick(20), others |-> {}, blocking |-> {}, atr |-> 4, madeAtr |-> 4, quarters |-> 1,
   view |-> [account |-> "a1", symbol |-> "XAUUSD", loaded |-> TRUE, positions |-> {<<7, "XAUUSD">>},
             tick |-> Tick(20), atr |-> 4, minLots |-> 1]]

\* Recommended trades, well or badly placed, and what becomes of them without an order.
Recommendations ==
  {[Base EXCEPT !.said.arb.trade = Trade(d, e, s, t, u), !.said.arb.direction = f, !.said.arb.action = a,
                !.use.name = n, !.blocking = b, !.first = m, !.call.format = c] :
     c \in {"markdown", "json"}, d \in {"buy", "sell", "hold", "dual"}, e \in {0, 20}, s \in {0, 12, 16, 24, 45}, t \in {16, 26, 50},
     u \in {0, 30}, f \in {"buy", "dual"}, a \in {"open", "hold"},
     n \in {"none", "place_market_order"}, b \in {{}, {"market.closed"}}, m \in BOOLEAN}

\* Calls that fail, answers without confidence, and plans without fields.
Answers ==
  {[Base EXCEPT !.call = [stream |-> c, invoke |-> i, format |-> p, retries |-> r], !.said.arb.confidence = k,
                !.said.wave = [strength |-> w, confirmed |-> TRUE], !.said.arb.aligned = g] :
     c \in {"text", "empty", "error"}, i \in {"text", "error"}, p \in {"markdown", "json", "none"},
     r \in BOOLEAN, k \in {35, 44, 52, 60, 95}, w \in {"strong", "weak", "moderate"}, g \in BOOLEAN}
Incomplete ==
  {[Base EXCEPT !.said.risk = [level |-> v, sl |-> s, lots |-> l], !.said.technical.exit = x,
                !.said.technical.resistances = t, !.said.arb.direction = f, !.said.arb.action = a,
                !.blocking = b, !.tick = Tick(p), !.others = o] :
     v \in {"low", "high"}, s \in {0, 5, 16}, l \in {0, 20}, x \in {"none", "close"},
     t \in {{}, {24}}, f \in {"buy", "sell", "dual"}, a \in {"open", "modify"},
     b \in {{}, {"spread.high"}, {"tick.stale"}}, p \in {-1, 20}, o \in {{}, {17}}}
Retried ==
  {[Base EXCEPT !.call = [stream |-> "text", invoke |-> "error", format |-> f, retries |-> r],
                !.said.arb.trade = Trade(d, e, s, t, 0), !.said.risk.sl = k, !.use.name = n, !.first = m] :
     f \in {"markdown", "json", "none"}, r \in BOOLEAN, d \in {"buy", "sell", "hold", "dual"}, e \in {0, 20},
     s \in {0, 16}, t \in {0, 26}, k \in {0, 16}, n \in {"none", "place_market_order"}, m \in BOOLEAN}

\* Orders the model calls for, of this account or not, where the insight is shared or not.
Orders ==
  {[Base EXCEPT !.first = m, !.use = [Use(n) EXCEPT !.account = a, !.symbol = y, !.side = d, !.entry = e,
                                                    !.sl = s, !.lots = l, !.order = o]] :
     m \in BOOLEAN, n \in {"place_market_order", "place_pending_order"}, a \in {"none", "a1", "a2"},
     y \in {"none", "XAUUSD", "US100"}, d \in {"buy", "none"}, e \in {-1, 18, 24}, s \in {16, 26},
     l \in {0, 10, 60}, o \in {"limit", "stop"}}
Scaled ==
  {[Base EXCEPT !.first = TRUE, !.use = [Use(n) EXCEPT !.side = d], !.atr = a, !.madeAtr = k,
                !.view.atr = v, !.view.tick = Tick(p), !.view.loaded = l,
                !.said.arb.trade = Trade(h, e, IF h = "sell" THEN 24 ELSE 16, IF h = "sell" THEN 14 ELSE 26, w)] :
     n \in {"place_market_order", "place_pending_order", "do_nothing"}, d \in {"buy", "sell"},
     a \in {0, 4}, k \in {0, 4}, v \in {0, 2, 4}, p \in {0, 20, 21, 23}, l \in BOOLEAN,
     h \in {"buy", "sell", "hold"}, e \in {19, 22}, w \in {0, 28}}

\* Calls without a stop, without a target or with one of zero, on an insight that
\* recommends a whole trade, a part of one or none.
Unnamed ==
  {[Base EXCEPT !.first = m, !.call.format = f, !.said.arb.trade = r, !.view.atr = v,
                !.use = [Use(n) EXCEPT !.side = d, !.sl = s, !.tp1 = t, !.tp2 = u]] :
     m \in BOOLEAN, f \in {"markdown", "json"},
     r \in {Trade("none", 0, 0, 0, 0), Trade("hold", 0, 0, 0, 0), Trade("buy", 0, 0, 0, 0), Trade("buy", 20, 0, 26, 0),
           Trade("hold", 20, 16, 26, 0), Trade("sell", 20, 24, 14, 0), Trade("buy", 20, 16, 26, 28)},
     v \in {2, 4, 24}, n \in {"place_market_order", "place_pending_order"}, d \in {"buy", "sell"},
     s \in {0, 16, 22, 50}, t \in {0, 14, 28}, u \in {{}, {0}, {30}, {-1}}}

MCAgentCases == {Recommendations, Answers, Incomplete, Retried, Orders, Scaled, Unnamed}
=============================================================================
