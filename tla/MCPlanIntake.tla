----------------------------- MODULE MCPlanIntake -----------------------------
(* Bodies of AI results and situations of an account, for TLC: gold at 2000, in points. *)
EXTENDS Integers

Buy ==
  [side |-> "buy", execution_type |-> "market", requested_order_type |-> "market",
   zone_min |-> 1996, zone_max |-> 2004, stop_loss |-> 1900, take_profit |-> {2200}, max_lots |-> 10,
   wellFormed |-> TRUE, account |-> "own", symbol |-> "XAUUSD", mode |-> "approve", confidence |-> 80,
   expires |-> 900, add_on |-> FALSE, add_on_type |-> "none", add_on_level |-> 0,
   max_add_count |-> 0, max_total_lots |-> 0]
Sell == [Buy EXCEPT !.side = "sell", !.stop_loss = 2100, !.take_profit = {1800}]

Body(p) == [plan |-> p, dual |-> FALSE, buy |-> {}, sell |-> {}, alert |-> FALSE, exit |-> "none"]
Dual(p, b, s) == [Body(p) EXCEPT !.dual = TRUE, !.buy = b, !.sell = s]
Alert(p, exit) == [Body(p) EXCEPT !.alert = TRUE, !.exit = exit]

Frame(e20, e50, c, adx) == [ema20 |-> e20, ema50 |-> e50, close |-> c, adx |-> adx]
Up == Frame(3, 2, 4, 25)
Down == Frame(2, 3, 1, 25)
Faint == Frame(3, 2, 4, 15)
Flat == Frame(3, 2, 1, 25)
Unknown == Frame(0, 2, 1, 25)
Even == [D1 |-> Up, H4 |-> Up, H1 |-> Up, M30 |-> Up]

At ==
  [loaded |-> TRUE, open |-> TRUE, allowed |-> TRUE, equity |-> 10000000, balance |-> 10000000,
   freeMargin |-> 10000000, leverage |-> 100, h1 |-> 40, m30 |-> 20, frames |-> Even, positions |-> {},
   states |-> {}, tick |-> [bid |-> 1998, ask |-> 2000, spread |-> 2, maxSpread |-> 0, at |-> -1],
   now |-> [day |-> 1, minute |-> 720]]

Held(ticket, symbol, side, lots, open, strategy) ==
  [ticket |-> ticket, symbol |-> symbol, side |-> side, lots |-> lots, open |-> open, strategy |-> strategy]

\* Plans with one fault each, or none.
Faulty ==
  {[p EXCEPT !.wellFormed = FALSE] : p \in {Buy, Sell}}
  \cup {[p EXCEPT !.account = a] : p \in {Buy, Sell}, a \in {"other", "none"}}
  \cup {[Buy EXCEPT !.symbol = s] : s \in {"GBPUSD", "none"}}
  \cup {[Buy EXCEPT !.mode = k] : k \in {"observe", "veto", "close", "modify", "hold"}}
  \cup {[Buy EXCEPT !.side = "none", !.mode = k] : k \in {"approve", "veto"}}
  \cup {[p EXCEPT !.confidence = c] : p \in {Buy, Sell}, c \in {-1, 64, 65, 74, 75, 101}}
  \cup {[p EXCEPT !.expires = e] : p \in {Buy, Sell}, e \in {0, 719, 720}}
  \cup {[Buy EXCEPT !.zone_min = z] : z \in {0, 1990, 2005}}
  \cup {[p EXCEPT !.stop_loss = l] : p \in {Buy, Sell}, l \in {0, 1999, 2001}}
  \cup {[p EXCEPT !.take_profit = t] : p \in {Buy, Sell}, t \in {{}, {0, 2200}, {2100, 2200}, {2050}, {1700, 1900}}}
  \cup {[Buy EXCEPT !.max_lots = n] : n \in {0, 6000}}
  \cup {[p EXCEPT !.execution_type = "limit", !.requested_order_type = o, !.zone_min = z, !.zone_max = z + 8] :
          p \in {Buy, Sell}, o \in {"BUY_LIMIT", "SELL_LIMIT"}, z \in {1980, 1995, 2010, 1700}}
  \cup {Buy, Sell}
\* And those that are tried when nothing else is wrong.
Short == {{}, {[Sell EXCEPT !.confidence = 70]}, {[Sell EXCEPT !.account = "other"]}, {Buy}}

Received ==
  {Body({p}) : p \in Faulty}
  \cup {Dual(q, {p}, s) : p \in Faulty, s \in Short, q \in {{}, {[Buy EXCEPT !.mode = "veto"]}, {Sell},
                                                           {[Sell EXCEPT !.wellFormed = FALSE]}}}
  \cup {Alert(q, e) : q \in {{}} \cup {{p} : p \in Faulty}, e \in {"none", "close_all", "close_partial", "close_short"}}
Around ==
  {At, [At EXCEPT !.open = FALSE], [At EXCEPT !.tick.at = 0], [At EXCEPT !.tick.at = 717], [At EXCEPT !.loaded = FALSE],
   [At EXCEPT !.positions = {Held(1, "XAUUSD", "sell", 10, 2010, "ai_signal"), Held(2, "none", "sell", 10, 1990, "pullback"),
                             Held(3, "GBPUSD", "sell", 10, 1990, "none"), Held(4, "XAUUSD", "buy", 10, 1990, "pullback")}],
   [At EXCEPT !.tick.bid = 0]}

\* Plans that may not go against the trend, or not into a weak one.
Trending ==
  {[body |-> Body({[p EXCEPT !.confidence = c]}),
    at |-> [At EXCEPT !.frames = [D1 |-> d, H4 |-> f, H1 |-> h, M30 |-> n]]] :
     p \in {Buy, Sell}, c \in {70, 75}, d \in {Up, Unknown}, f \in {Up, Down, Unknown}, h \in {Up, Down, Faint, Flat, Unknown},
     n \in {Down, Faint, Flat, Unknown}}

\* Plans that add to a position or two, won or lost.
Joined(side, price, strategy) ==
  {{Held(7, s, side, 20, price, strategy)} : s \in {"XAUUSD", "none", "GBPUSD"}}
  \cup {{Held(7, "XAUUSD", side, 20, price, strategy), Held(9, "XAUUSD", side, n, price - 40, "pullback")} : n \in {10, 20}}
Adds == {<<FALSE, "none", 0>>, <<TRUE, "none", 0>>, <<TRUE, "favorable", 0>>} \cup {<<TRUE, "adverse", l>> : l \in {0, 2, 3, 4}}
Adding ==
  {[body |-> Body({[Buy EXCEPT !.add_on = a[1], !.add_on_type = a[2], !.add_on_level = a[3], !.max_lots = n,
                                !.max_total_lots = t]}),
    at |-> [At EXCEPT !.positions = g, !.states = s]] :
     a \in Adds, n \in {10, 12, 13, 24}, t \in {0, 30},
     g \in UNION {Joined("buy", q, "ai_signal") : q \in {1960, 1979, 2000, 2021, 2041, 2075}},
     s \in {{}, {[count |-> 1, added |-> 690], [count |-> 0, added |-> 0]}, {[count |-> 2, added |-> 600]}}}
  \cup
  {[body |-> Body({[p EXCEPT !.add_on = a[1], !.add_on_type = a[2]]}),
    at |-> [At EXCEPT !.positions = g, !.m30 = u, !.balance = b]] :
     p \in {Buy, Sell}, a \in Adds, u \in {0, 20}, b \in {10000000, 10600000},
     g \in UNION {Joined(d, q, k) : d \in {"buy", "sell"}, q \in {1960, 2000, 2041}, k \in {"ai_signal", "pullback"}}}

MCBodies == [body : Received, at : Around] \cup Trending \cup Adding
=============================================================================
