------------------------------- MODULE Terminal -------------------------------
(***************************************************************************)
(* The trading program inside a MetaTrader terminal: it registers, reports *)
(* what it sees, polls the server and executes each command against the    *)
(* broker.  The program is one thread, but every call to the broker can be *)
(* refused or half filled, and between two calls the broker may close a    *)
(* position, fill a pending order, or the terminal may be restarted.       *)
(*                                                                         *)
(* Two programs exist, one for MT5 and one for MT4.  They share the order  *)
(* of their checks and differ in what the platform offers: MT5 can lose    *)
(* the ticket of an order it placed and knows partial fills; MT4 sets the  *)
(* stops of every order in a second call and gives the rest of a partially *)
(* closed order a new ticket.                                              *)
(***************************************************************************)
EXTENDS TerminalVolumes, FiniteSets

CONSTANTS
  Commands,           \* the commands the server may put into a reply
  Books,              \* the orders a terminal may hold when it starts
  Strategies,         \* strategies with a magic number
  EnabledStrategies,  \* those switched on in the inputs
  TradedSymbols,      \* symbols of the inputs
  SpreadSymbols,      \* the two legs of the spread trade
  SpreadEnabled,      \* whether the spread trade is switched on
  StrategyLots,       \* configured volume of a strategy's order
  MaxSameDir,         \* positions of one side
  OpenPrice,          \* price of every fill: the market stands still here
  MinStop,            \* smallest distance of a stop from the price
  PollBatch,          \* bound: commands of one reply
  MaxTickets,         \* bound: orders ever opened
  MaxFaults           \* bound: restarts, refusals and broker closes

\* An order as the broker shows it: volume, prices, 0 for a missing stop or target.
IsOrder(o) ==
  /\ DOMAIN o = {"class", "side", "sym", "magic", "lots", "entry", "sl", "tp"}
  /\ o.lots \in Nat
  /\ {o.entry, o.sl, o.tp} \subseteq Int

ASSUME TerminalAssumption ==
  /\ EnabledStrategies \subseteq Strategies
  /\ StrategyLots \in [Strategies -> Nat]
  /\ MaxSameDir \in Nat \ {0}
  /\ MinStop \in Nat
  /\ OpenPrice \in Nat
  /\ PollBatch \in Nat
  /\ \A c \in Commands :
       c.lots \in Nat /\ {c.entry, c.sl, c.tp1, c.tp2, c.unified} \subseteq Int
  /\ \A b \in Books : IsFiniteSet(DOMAIN b) /\ \A t \in DOMAIN b : IsOrder(b[t])

\* What the server puts into its commands and what a terminal finds when it starts. The
\* server sends no order without a stop and targets, and a MODIFY repeats the target
\* the position was posted with. Prices are farther from zero than stops from prices. The
\* spread trade has a magic number and symbols of its own (its inputs by default). At the
\* start every order of a strategy has its stop and target, and no more positions of a
\* side are open than the limit and one split signal allow.
ASSUME SituationAssumption ==
  /\ "spread" \notin Strategies /\ SpreadSymbols \cap TradedSymbols = {}
  /\ OpenPrice > MinStop
  /\ \A c \in Commands :
       /\ c.action \in {"SIGNAL", "PENDING", "MODIFY"} => c.sl # 0 /\ c.tp1 # 0
       /\ c.action \in {"SIGNAL", "PENDING"} /\ c.split => c.tp2 # 0
       /\ c.action = "PENDING" => c.entry > MinStop
  /\ \A b \in Books :
       /\ \A t \in DOMAIN b : /\ b[t].entry > MinStop
                              /\ b[t].magic \in Strategies => b[t].sl # 0 /\ b[t].tp # 0
       /\ \A side \in {"BUY", "SELL"} :
            Cardinality({t \in DOMAIN b : /\ b[t].class = "market" /\ b[t].side = side
                                          /\ b[t].sym \in TradedSymbols
                                          /\ b[t].magic \in Strategies \cup {"spread"}})
              <= MaxSameDir + 1

VARIABLES
  platform,    \* which of the two programs runs
  orders,      \* what the broker holds: ticket -> order
  nextTicket,  \* the ticket of the next order
  registered,  \* gbRegistered
  batch,       \* g_initBatchStep: 0 not started, 1..3 to send, 4 sent
  inbox,       \* commands of the current reply that are not executed yet
  task,        \* the command being executed, and how far
  report,      \* the last result reported for a command
  seen,        \* the tickets of the last list of positions the server got
  faults,      \* how many faults have happened
  fills,       \* history: pending orders that became positions
  accounted    \* history: tickets a failed result named, or a restart hid

vars == <<platform, orders, nextTicket, registered, batch, inbox, task, report,
          seen, faults, fills, accounted>>
book == <<orders, nextTicket>>
link == <<platform, registered, batch, inbox, seen>>

NoReport == [result |-> "NONE", ticket |-> 0, error |-> "none"]
Idle == [pc |-> "idle"]

-----------------------------------------------------------------------------
(* Orders *)

Market == {t \in DOMAIN orders : orders[t].class = "market"}
Pending == {t \in DOMAIN orders : orders[t].class = "pending"}

\* IsOurMagic: MT5 counts the spread trade as its own, MT4 does not know it.
Ours5(magic) == magic \in Strategies \cup {"spread"}
Ours4(magic) == magic \in Strategies
Ours(magic) == IF platform = "MT5" THEN Ours5(magic) ELSE Ours4(magic)

\* IsAllowedSymbol: MT5 adds the legs of the spread trade.
AllowedSymbol(sym) ==
  sym \in TradedSymbols \/ (platform = "MT5" /\ sym \in SpreadSymbols)

\* Positions that count against the limit of a side.
SameSide(side) ==
  {t \in Market : /\ orders[t].side = side
                  /\ orders[t].sym \in TradedSymbols
                  /\ Ours(orders[t].magic)}

\* Mistake: the limit of a side is compared one too late.
CheckRiskLate(side, calm) == calm /\ Cardinality(SameSide(side)) <= MaxSameDir

\* CheckRisk: the spread, the loss of the day and the floating loss are one
\* condition of the market here ("calm"), the limit of the side is counted.
CheckRisk(side, calm) == calm /\ Cardinality(SameSide(side)) < MaxSameDir

\* A stop or target closer to the price than the broker allows is moved to
\* the smallest distance.
StopFor(side, price, sl) ==
  IF MinStop > 0 /\ Larger(price - sl, sl - price) < MinStop
  THEN IF side = "BUY" THEN price - MinStop ELSE price + MinStop
  ELSE sl
TargetFor(side, price, tp) ==
  IF MinStop > 0 /\ Larger(price - tp, tp - price) < MinStop
  THEN IF side = "BUY" THEN price + MinStop ELSE price - MinStop
  ELSE tp

NewOrder(c, class, lots, sl, tp) ==
  [class |-> class, side |-> c.side, sym |-> c.sym, magic |-> c.strategy,
   lots |-> lots, entry |-> IF class = "pending" THEN c.entry ELSE OpenPrice,
   sl |-> sl, tp |-> tp]

With(t, order) == [u \in DOMAIN orders \cup {t} |-> IF u = t THEN order ELSE orders[u]]
Without(tickets) == [u \in DOMAIN orders \ tickets |-> orders[u]]

\* A position the ticket search of MT5 accepts for a command.
Fits(t, c) ==
  /\ t \in Market
  /\ orders[t].sym = c.sym
  /\ orders[t].magic = c.strategy
  /\ orders[t].side = c.side

\* ResolveLivePositionTicket: the order's own ticket, which in a hedging
\* account is also the identifier of its deal; otherwise the only position
\* that fits; otherwise 0.
Resolve(raw, c) ==
  LET fitting == {t \in Market : Fits(t, c)}
  IN  IF Fits(raw, c) THEN raw
      ELSE IF Cardinality(fitting) = 1 THEN CHOOSE t \in fitting : TRUE
      ELSE 0

-----------------------------------------------------------------------------
(* The result of a command *)

\* Mistake: a failed result does not name the ticket it is about.
ReportWithoutTicket(result, ticket, error) ==
  /\ report' = [result |-> result, ticket |-> 0, error |-> error]
  /\ UNCHANGED accounted

\* ReportResult ends a command; what a failed result names is accounted for.
Report(result, ticket, error) ==
  /\ report' = [result |-> result, ticket |-> ticket, error |-> error]
  /\ accounted' = IF result \in {"ERROR", "PARTIAL"} THEN accounted \cup {ticket}
                  ELSE accounted
Finish(result, ticket, error) ==
  /\ Report(result, ticket, error)
  /\ task' = Idle

\* A call the broker refuses uses up one fault.
Refused == faults < MaxFaults /\ faults' = faults + 1

\* The checks a signal and a pending order share, in the order of the code.
Refusal(c) ==
  IF c.sym \notin TradedSymbols THEN "symbol_mismatch"
  ELSE IF c.strategy \notin Strategies THEN "invalid_strategy"
  ELSE IF c.strategy \notin EnabledStrategies THEN "strategy_disabled"
  ELSE "none"

Volume(c) == NormalizeVolume(StrategyLots[c.strategy])
Split(total) == IF platform = "MT5" THEN SplitLots5(total) ELSE SplitLots4(total)

Running(action, pc) == task.pc = pc /\ task.cmd.action = action

-----------------------------------------------------------------------------
(* SIGNAL: a market order *)

\* ExecuteSignal up to the first order: a signal is refused, or its order is
\* about to be sent, split in two when the server asks for it.
BeginSignal ==
  /\ Running("SIGNAL", "begin")
  /\ LET c == task.cmd
     IN  \E calm \in BOOLEAN :
           IF Refusal(c) # "none" THEN calm /\ Finish("ERROR", 0, Refusal(c))
           ELSE IF ~CheckRisk(c.side, calm) THEN Finish("REJECTED", 0, "risk_check_failed")
           ELSE /\ task' = [task EXCEPT !.pc =
                              IF ~c.split THEN "send"
                              ELSE IF Split(Volume(c)) = NoSplit THEN "single" ELSE "near"]
                /\ UNCHANGED <<report, accounted>>
  /\ UNCHANGED <<link, book, faults, fills>>

\* The order without stops: filled, half filled (MT5) or refused.
SendMarket ==
  /\ Running("SIGNAL", "send")
  /\ LET c == task.cmd
     IN  \/ \E lots \in {Volume(c)} \cup (IF platform = "MT5" THEN {MinLots} ELSE {}) :
              /\ orders' = With(nextTicket, NewOrder(c, "market", lots, 0, 0))
              /\ nextTicket' = nextTicket + 1
              /\ task' = [task EXCEPT !.pc = "protect", !.own = {nextTicket},
                                      !.full = (lots = Volume(c))]
              /\ UNCHANGED <<report, accounted, faults>>
         \/ /\ Refused
            /\ Finish("ERROR", 0, "broker")
            /\ UNCHANGED book
  /\ UNCHANGED <<link, fills>>

TheOwn == CHOOSE t \in task.own : TRUE

\* What a protected order looks like.
Protected(order, c) ==
  [order EXCEPT !.sl = StopFor(c.side, order.entry, c.sl),
                !.tp = TargetFor(c.side, order.entry, c.tp1)]

\* After the stops are known to be set: a half filled order is still a
\* failure, a filled one is reported and its stop may be shared.
Opened(t, c) ==
  IF ~task.full THEN Finish("ERROR", t, "open_incomplete")
  ELSE /\ Report("OK", t, "none")
       /\ task' = IF c.unified = 0 THEN Idle ELSE [task EXCEPT !.pc = "unify", !.own = {t}]

\* EnsureSignalProtectionAttached of MT5: find the position, set its stops,
\* look again.
Protect5 ==
  /\ platform = "MT5"
  /\ Running("SIGNAL", "protect")
  /\ LET c == task.cmd
         t == Resolve(TheOwn, c)
     IN  \/ /\ t = 0
            /\ Finish("ERROR", TheOwn, "position_resolve_incomplete")
            /\ UNCHANGED <<orders, faults>>
         \/ /\ t # 0
            /\ orders[t].sl # 0 /\ orders[t].tp # 0
            /\ Opened(t, c)
            /\ UNCHANGED <<orders, faults>>
         \/ /\ t # 0
            /\ orders[t].sl = 0 \/ orders[t].tp = 0
            /\ orders' = [orders EXCEPT ![t] = Protected(@, c)]
            /\ IF orders'[t].sl = 0 \/ orders'[t].tp = 0
               THEN Finish("ERROR", t, "protection_attach_incomplete")
               ELSE Opened(t, c)
            /\ UNCHANGED faults
         \/ /\ t # 0
            /\ orders[t].sl = 0 \/ orders[t].tp = 0
            /\ Refused
            /\ Finish("ERROR", t, "protection_attach_failed")
            /\ UNCHANGED orders
  /\ UNCHANGED <<link, nextTicket, fills>>

\* The same of MT4: the ticket of the order is selected even when it is
\* closed already, and then the stops cannot be set.
Protect4 ==
  /\ platform = "MT4"
  /\ Running("SIGNAL", "protect")
  /\ LET c == task.cmd
         t == TheOwn
     IN  \/ /\ t \in DOMAIN orders
            /\ orders' = [orders EXCEPT ![t] = Protected(@, c)]
            /\ IF orders'[t].sl = 0 \/ orders'[t].tp = 0
               THEN Finish("ERROR", t, "protection_attach_incomplete")
               ELSE Opened(t, c)
            /\ UNCHANGED faults
         \/ /\ t \in DOMAIN orders
            /\ Refused
            /\ Finish("ERROR", t, "protection_attach_failed")
            /\ UNCHANGED orders
         \/ /\ t \notin DOMAIN orders
            /\ Finish("ERROR", t, "protection_attach_failed")
            /\ UNCHANGED <<orders, faults>>
  /\ UNCHANGED <<link, nextTicket, fills>>

\* Mistake: the comparison of the buy side is used for both.
ImprovesUpwards(order, sl) == sl >= order.sl

\* Whether a shared stop may replace the one of a position.
Improves(order, sl) ==
  IF order.side = "BUY" THEN sl >= order.sl ELSE sl <= order.sl

\* After an add-on the older positions of the strategy and side get its stop
\* and its first target, each unless the broker refuses or the stop would
\* move backwards.
UnifyStops ==
  /\ Running("SIGNAL", "unify")
  /\ LET c == task.cmd
         shared == [t \in Market |-> StopFor(c.side, orders[t].entry, c.unified)]
         moved == {t \in Market \ task.own :
                     /\ orders[t].sym = c.sym
                     /\ orders[t].magic = c.strategy
                     /\ orders[t].side = c.side
                     /\ Improves(orders[t], shared[t])}
     IN  \/ /\ orders' = [t \in DOMAIN orders |->
                            IF t \in moved
                            THEN [orders[t] EXCEPT !.sl = shared[t], !.tp = c.tp1]
                            ELSE orders[t]]
            /\ UNCHANGED faults
         \/ Refused /\ UNCHANGED orders
  /\ task' = Idle
  /\ UNCHANGED <<link, nextTicket, report, fills, accounted>>

-----------------------------------------------------------------------------
(* SIGNAL split into two orders *)

NoOrder == [class |-> "none"]

\* What one leg can come to: the order it leaves at the broker, whether the
\* program takes it for a success, and whether the broker did something wrong.
\* OpenSingleOrderWithTP_MT5 sends the stops with the order and succeeds only
\* for a full fill.
Legs5(c, lots, tp) ==
  {[order |-> NewOrder(c, "market", lots, c.sl, tp), ok |-> TRUE, fault |-> 0],
   [order |-> NewOrder(c, "market", MinLots, c.sl, tp), ok |-> FALSE, fault |-> 1],
   [order |-> NoOrder, ok |-> FALSE, fault |-> 1]}

\* OpenSingleOrderWithTP of MT4 sets the stops afterwards and succeeds even
\* when they are refused.
Legs4(c, lots, tp) ==
  LET bare == NewOrder(c, "market", lots, 0, 0)
  IN  {[order |-> [bare EXCEPT !.sl = StopFor(c.side, OpenPrice, c.sl),
                               !.tp = TargetFor(c.side, OpenPrice, tp)],
        ok |-> TRUE, fault |-> 0],
       [order |-> bare, ok |-> TRUE, fault |-> 1],
       [order |-> NoOrder, ok |-> FALSE, fault |-> 1]}

Legs(c, lots, tp) ==
  {leg \in (IF platform = "MT5" THEN Legs5(c, lots, tp) ELSE Legs4(c, lots, tp)) :
     faults + leg.fault <= MaxFaults}

\* A leg reaches the broker.
Placed(leg) ==
  /\ orders' = IF leg.order = NoOrder THEN orders ELSE With(nextTicket, leg.order)
  /\ nextTicket' = IF leg.order = NoOrder THEN nextTicket ELSE nextTicket + 1
  /\ faults' = faults + leg.fault

\* The order of the near target; whatever comes of it, the other one follows.
OpenNearLeg ==
  /\ Running("SIGNAL", "near")
  /\ \E leg \in Legs(task.cmd, Split(Volume(task.cmd)).near, task.cmd.tp1) :
       /\ Placed(leg)
       /\ task' = [task EXCEPT !.pc = "far", !.own = IF leg.ok THEN {nextTicket} ELSE {}]
  /\ UNCHANGED <<link, report, fills, accounted>>

\* The order of the far target and the result of both.
OpenFarLeg ==
  /\ Running("SIGNAL", "far")
  /\ \E leg \in Legs(task.cmd, Split(Volume(task.cmd)).far, task.cmd.tp2) :
       /\ Placed(leg)
       /\ CASE task.own # {} /\ leg.ok   -> Finish("OK", TheOwn, "split")
            [] task.own # {} /\ ~leg.ok  -> Finish("PARTIAL", TheOwn, "split")
            [] task.own = {} /\ leg.ok   -> Finish("PARTIAL", nextTicket, "split")
            [] task.own = {} /\ ~leg.ok  -> Finish("ERROR", 0, "split_all_failed")
  /\ UNCHANGED <<link, fills>>

\* A volume too small to split becomes one order with the far target.
OpenSingleLeg ==
  /\ Running("SIGNAL", "single")
  /\ \E leg \in Legs(task.cmd, Volume(task.cmd), task.cmd.tp2) :
       /\ Placed(leg)
       /\ IF leg.ok THEN Finish("OK", nextTicket, "single_tp2_after_split_invalid")
          ELSE Finish("ERROR", 0, "single_tp2_after_split_failed")
  /\ UNCHANGED <<link, fills>>

-----------------------------------------------------------------------------
(* PENDING and CANCEL_PENDING *)

\* A pending order of the same strategy, side and price.
Duplicate(c) ==
  \E t \in Pending : /\ orders[t].sym = c.sym
                     /\ orders[t].magic = c.strategy
                     /\ orders[t].side = c.side
                     /\ orders[t].entry = c.entry

\* One pending order: MT5 sends its stops along, MT4 sets them afterwards and
\* does not mind a refusal; only its split orders keep the smallest distance.
PendingOrder5(c, lots, tp) ==
  {NewOrder(c, "pending", lots, StopFor(c.side, c.entry, c.sl),
            TargetFor(c.side, c.entry, tp))}
PendingOrder4(c, lots, tp) ==
  LET split == Split(Volume(c)) # NoSplit /\ c.split
  IN  {NewOrder(c, "pending", lots, 0, 0),
       NewOrder(c, "pending", lots,
                IF split THEN StopFor(c.side, c.entry, c.sl) ELSE c.sl,
                IF split THEN TargetFor(c.side, c.entry, tp) ELSE tp)}
PendingOrders(c, lots, tp) ==
  IF platform = "MT5" THEN PendingOrder5(c, lots, tp) ELSE PendingOrder4(c, lots, tp)

\* Two pending orders with the same entry.  When the broker refuses both, MT4
\* still calls the result partial.
PlacePendingSplit(c) ==
  LET shares == Split(Volume(c))
      both == [near |-> PendingOrders(c, shares.near, c.tp1),
               far  |-> PendingOrders(c, shares.far, c.tp2)]
  IN  \/ \E a \in both.near, b \in both.far :
           /\ orders' = [t \in DOMAIN orders \cup {nextTicket, nextTicket + 1} |->
                           IF t = nextTicket THEN a
                           ELSE IF t = nextTicket + 1 THEN b ELSE orders[t]]
           /\ nextTicket' = nextTicket + 2
           /\ Finish("OK", nextTicket, "split_pending")
           /\ UNCHANGED faults
      \/ \E a \in both.near \cup both.far :
           /\ Refused
           /\ orders' = With(nextTicket, a)
           /\ nextTicket' = nextTicket + 1
           /\ Finish("PARTIAL", nextTicket, "split_pending")
      \/ /\ Refused
         /\ Finish(IF platform = "MT5" THEN "ERROR" ELSE "PARTIAL", 0, "split_all_failed")
         /\ UNCHANGED book

\* One pending order, with the far target when a split was asked for.
PlacePendingSingle(c) ==
  \/ \E order \in PendingOrders(c, Volume(c), IF c.split THEN c.tp2 ELSE c.tp1) :
       /\ orders' = With(nextTicket, order)
       /\ nextTicket' = nextTicket + 1
       /\ Finish("OK", nextTicket, "none")
       /\ UNCHANGED faults
  \/ /\ Refused
     /\ Finish("ERROR", 0, "broker")
     /\ UNCHANGED book

\* ExecutePending: the duplicate check comes before the risk check.
ExecutePending ==
  /\ Running("PENDING", "begin")
  /\ LET c == task.cmd
     IN  \E calm \in BOOLEAN :
           IF Refusal(c) # "none"
           THEN calm /\ Finish("ERROR", 0, Refusal(c)) /\ UNCHANGED <<book, faults>>
           ELSE IF Duplicate(c)
           THEN calm /\ Finish("ERROR", 0, "duplicate_pending") /\ UNCHANGED <<book, faults>>
           ELSE IF ~CheckRisk(c.side, calm)
           THEN Finish("REJECTED", 0, "risk_check_failed") /\ UNCHANGED <<book, faults>>
           ELSE IF c.split /\ Split(Volume(c)) # NoSplit THEN PlacePendingSplit(c)
           ELSE PlacePendingSingle(c)
  /\ UNCHANGED <<link, fills>>

\* ExecuteCancelPending of MT5 cancels its own pending orders only.
Cancellable5(t) == t \in Pending /\ Ours5(orders[t].magic)

\* MT4 does not ask whose order it is.
Cancellable4(t) == t \in Pending

\* A pending order is deleted unless the program or the broker refuses.
ExecuteCancelPending ==
  /\ Running("CANCEL_PENDING", "begin")
  /\ LET t == task.cmd.ticket
         mine == IF platform = "MT5" THEN Cancellable5(t) ELSE Cancellable4(t)
     IN  \/ /\ mine
            /\ orders' = Without({t})
            /\ Finish("OK", t, "none")
            /\ UNCHANGED faults
         \/ /\ ~mine
            /\ Finish("ERROR", 0, "not_cancellable")
            /\ UNCHANGED <<orders, faults>>
         \/ /\ mine
            /\ Refused
            /\ Finish("ERROR", t, "broker")
            /\ UNCHANGED orders
  /\ UNCHANGED <<link, nextTicket, fills>>

-----------------------------------------------------------------------------
(* MODIFY and CLOSE *)

\* Why MT5 may not touch an order with MODIFY or CLOSE.
NotMine5(t) ==
  IF t \notin DOMAIN orders THEN "order_not_found"
  ELSE IF ~AllowedSymbol(orders[t].sym) THEN "symbol_not_allowed"
  ELSE IF ~Ours5(orders[t].magic) THEN "order_not_owned"
  ELSE "none"

\* MT4 finds a ticket even when its order is closed; the call then fails at
\* the broker with error 4108, by which the server knows a stale ticket.
NotMine4(t) ==
  IF t \notin DOMAIN orders THEN IF t < nextTicket THEN "4108" ELSE "order_not_found"
  ELSE IF ~AllowedSymbol(orders[t].sym) THEN "symbol_not_allowed"
  ELSE IF ~Ours4(orders[t].magic) THEN "order_not_owned"
  ELSE "none"

NotMine(t) == IF platform = "MT5" THEN NotMine5(t) ELSE NotMine4(t)

\* ExecuteModify writes both levels of the command, on a position or on a
\* pending order, without comparing them with the levels the order has.
ExecuteModify ==
  /\ Running("MODIFY", "begin")
  /\ LET c == task.cmd
         t == c.ticket
     IN  \/ /\ NotMine(t) = "none"
            /\ orders' = [orders EXCEPT ![t].sl = c.sl, ![t].tp = c.tp1]
            /\ Finish("OK", t, "none")
            /\ UNCHANGED faults
         \/ /\ NotMine(t) # "none"
            /\ Finish("ERROR", 0, NotMine(t))
            /\ UNCHANGED <<orders, faults>>
         \/ /\ NotMine(t) = "none"
            /\ Refused
            /\ Finish("ERROR", 0, "broker")
            /\ UNCHANGED orders
  /\ UNCHANGED <<link, nextTicket, fills>>

\* How much a CLOSE closes: MT5 closes everything when the rounded volume is
\* nothing or the whole position, MT4 rounds up to the smallest volume.
CloseVolume5(lots, total) ==
  LET part == NormalizeCloseVolume(lots)
  IN  IF 0 < lots /\ lots < total /\ 0 < part /\ part < total THEN part ELSE total
CloseVolume4(lots, total) ==
  IF 0 < lots /\ lots < total THEN NormalizeVolume(lots) ELSE total

\* A volume leaves an order; on MT4 what stays gets a new ticket.
Reduce(t, lots) ==
  IF lots >= orders[t].lots
  THEN orders' = Without({t}) /\ UNCHANGED nextTicket
  ELSE LET rest == [orders[t] EXCEPT !.lots = @ - lots]
       IN  IF platform = "MT5"
           THEN orders' = [orders EXCEPT ![t] = rest] /\ UNCHANGED nextTicket
           ELSE /\ orders' = [u \in (DOMAIN orders \ {t}) \cup {nextTicket} |->
                                IF u = nextTicket THEN rest ELSE orders[u]]
                /\ nextTicket' = nextTicket + 1

\* ExecuteClose: a pending order is never closed; MT5 may close half of what
\* it should.
ExecuteClose ==
  /\ Running("CLOSE", "begin")
  /\ LET c == task.cmd
         t == c.ticket
         why == IF t \in Pending /\ (platform = "MT5" \/ NotMine(t) = "none")
                THEN "not_market" ELSE NotMine(t)
         lots == IF platform = "MT5" THEN CloseVolume5(c.lots, orders[t].lots)
                 ELSE CloseVolume4(c.lots, orders[t].lots)
     IN  \/ /\ why = "none"
            /\ Reduce(t, lots)
            /\ Finish("OK", t, "none")
            /\ UNCHANGED faults
         \/ /\ why # "none"
            /\ Finish("ERROR", 0, why)
            /\ UNCHANGED <<book, faults>>
         \/ /\ why = "none"
            /\ Refused
            /\ Finish("ERROR", 0, "broker")
            /\ UNCHANGED book
         \/ /\ why = "none"
            /\ platform = "MT5"
            /\ lots > MinLots
            /\ Refused
            /\ Reduce(t, MinLots)
            /\ Finish("ERROR", t, "close_incomplete")
  /\ UNCHANGED <<link, fills>>

-----------------------------------------------------------------------------
(* The spread trade: only MT5 knows these commands *)

SpreadRefusal(c) ==
  IF ~SpreadEnabled THEN "spread_disabled"
  ELSE IF c.sym \notin SpreadSymbols THEN "spread_symbol_not_allowed"
  ELSE "none"

SpreadLegs(sym) == {t \in Market : orders[t].sym = sym /\ orders[t].magic = "spread"}

\* An action MT4 does not know is logged and never reported.
SkipUnknown ==
  /\ platform = "MT4"
  /\ task.pc = "begin"
  /\ task.cmd.action \in {"OPEN", "CLOSE_PARTIAL", "CLOSE_ALL"}
  /\ task' = Idle
  /\ UNCHANGED <<link, book, report, faults, fills, accounted>>

\* ExecuteOpen (and ExecuteAdd, which calls it): one leg without stops.
ExecuteOpen ==
  /\ platform = "MT5"
  /\ Running("OPEN", "begin")
  /\ LET c == task.cmd
         order == [NewOrder(c, "market", NormalizeVolume(c.lots), 0, 0)
                     EXCEPT !.magic = "spread"]
     IN  \/ /\ SpreadRefusal(c) # "none"
            /\ Finish("ERROR", 0, SpreadRefusal(c))
            /\ UNCHANGED <<book, faults>>
         \/ /\ SpreadRefusal(c) = "none"
            /\ orders' = With(nextTicket, order)
            /\ nextTicket' = nextTicket + 1
            /\ Finish("OK", nextTicket, "none")
            /\ UNCHANGED faults
         \/ /\ SpreadRefusal(c) = "none"
            /\ Refused
            /\ orders' = With(nextTicket, [order EXCEPT !.lots = MinLots])
            /\ nextTicket' = nextTicket + 1
            /\ Finish("ERROR", nextTicket, "open_incomplete")
         \/ /\ SpreadRefusal(c) = "none"
            /\ Refused
            /\ Finish("ERROR", 0, "broker")
            /\ UNCHANGED book
  /\ UNCHANGED <<link, fills>>

\* ExecuteClosePartial starts its walk over the positions of the leg.
BeginClosePartial ==
  /\ platform = "MT5"
  /\ Running("CLOSE_PARTIAL", "begin")
  /\ LET c == task.cmd
     IN  IF SpreadRefusal(c) # "none" THEN Finish("ERROR", 0, SpreadRefusal(c))
         ELSE IF SpreadLegs(c.sym) = {} THEN Finish("ERROR", 0, "position_not_found")
         ELSE /\ task' = [task EXCEPT !.pc = "closing", !.todo = SpreadLegs(c.sym),
                                      !.left = c.lots]
              /\ UNCHANGED <<report, accounted>>
  /\ UNCHANGED <<link, book, faults, fills>>

Newest(tickets) == CHOOSE t \in tickets : \A u \in tickets : u <= t

\* Mistake: what was closed is not taken off the request.
StillEverything(left, part) == Larger(0, left)

\* What is still to be closed after a part was closed.
StillToClose(left, part) == Larger(0, left - part)

\* One position of the walk: skipped when the rest is too small to close,
\* closed as far as needed, or the end of the command when the broker closes
\* less or nothing.
ClosePartialStep ==
  /\ Running("CLOSE_PARTIAL", "closing")
  /\ task.left > 0 /\ task.todo # {}
  /\ LET t == Newest(task.todo)
         rest == task.todo \ {t}
         lots == IF t \in Market THEN NormalizeCloseVolume(Smaller(task.left, orders[t].lots))
                 ELSE 0
     IN  \/ /\ lots = 0
            /\ task' = [task EXCEPT !.todo = rest]
            /\ UNCHANGED <<book, report, accounted, faults>>
         \/ /\ lots > 0
            /\ Reduce(t, lots)
            /\ task' = [task EXCEPT !.todo = rest, !.closed = @ + lots,
                                    !.left = StillToClose(task.left, lots)]
            /\ UNCHANGED <<report, accounted, faults>>
         \/ /\ lots > MinLots
            /\ Refused
            /\ Reduce(t, MinLots)
            /\ Finish("ERROR", t, "partial_close_incomplete")
         \/ /\ lots > 0
            /\ Refused
            /\ Finish("ERROR", t, "close_failed")
            /\ UNCHANGED book
  /\ UNCHANGED <<link, fills>>

\* The walk is over: done, or something could not be closed.
EndClosePartial ==
  /\ Running("CLOSE_PARTIAL", "closing")
  /\ task.left = 0 \/ task.todo = {}
  /\ IF task.left = 0 THEN Finish("OK", 0, "none")
     ELSE Finish("ERROR", 0, "partial_close_incomplete")
  /\ UNCHANGED <<link, book, faults, fills>>

\* ExecuteCloseAll tries every position of the leg; the broker may refuse
\* some, and then the command has failed.
ExecuteCloseAll ==
  /\ platform = "MT5"
  /\ Running("CLOSE_ALL", "begin")
  /\ LET legs == SpreadLegs(task.cmd.sym)
         why == SpreadRefusal(task.cmd)
     IN  \/ /\ why # "none" \/ legs = {}
            /\ Finish("ERROR", 0, IF why # "none" THEN why ELSE "no_position_found")
            /\ UNCHANGED <<orders, faults>>
         \/ /\ why = "none" /\ legs # {}
            /\ orders' = Without(legs)
            /\ Finish("OK", Cardinality(legs), "none")
            /\ UNCHANGED faults
         \/ /\ why = "none"
            /\ Refused
            /\ \E refused \in SUBSET legs \ {{}} :
                 /\ orders' = Without(legs \ refused)
                 /\ Finish("ERROR", Newest(refused), "close_failed")
  /\ UNCHANGED <<link, nextTicket, fills>>

-----------------------------------------------------------------------------
(* The loop of the program *)

\* SendPositions: MT4 goes through a list of eight magic numbers that leaves
\* out the one of averaging down.
Listed4 == {t \in DOMAIN orders : orders[t].sym \in TradedSymbols
                                  /\ orders[t].magic \in Strategies \ {"scale_in"}}
Listed5 == {t \in DOMAIN orders : orders[t].sym \in TradedSymbols /\ Ours5(orders[t].magic)}
Listed == IF platform = "MT5" THEN Listed5 ELSE Listed4

Free == task = Idle /\ inbox = 0

\* The reply to a poll, unless it is lost; positions are posted just before.
Poll ==
  /\ nextTicket + 2 * PollBatch <= MaxTickets + 1
  /\ seen' \in {seen, Listed}
  /\ inbox' \in 0..PollBatch

\* OnInit registers and leaves the first reports to the ticks that follow.
OnInit ==
  /\ ~registered /\ Free
  /\ registered' = TRUE
  /\ batch' = 1
  /\ UNCHANGED <<platform, book, inbox, task, report, seen, faults, fills, accounted>>

\* OnTick after a failed registration registers and polls in the same tick,
\* before the first reports.
OnTickRegister ==
  /\ ~registered /\ Free
  /\ registered' = TRUE
  /\ batch' = 1
  /\ Poll
  /\ UNCHANGED <<platform, book, task, report, faults, fills, accounted>>

\* The first ticks send heartbeat, positions and bars, one each; a lost one is
\* not sent again.
SendFirstReport ==
  /\ registered /\ Free
  /\ batch \in 1..3
  /\ batch' = batch + 1
  /\ seen' \in IF batch = 2 THEN {seen, Listed} ELSE {seen}
  /\ UNCHANGED <<platform, registered, book, inbox, task, report, faults, fills, accounted>>

\* PollAndExecute asks for commands once everything has been sent.
PollAndExecute ==
  /\ registered /\ Free
  /\ batch = 4
  /\ Poll
  /\ UNCHANGED <<platform, registered, batch, book, task, report, faults, fills, accounted>>

\* The next command of the reply.
TakeCommand ==
  /\ inbox > 0 /\ task = Idle
  /\ \E c \in Commands :
       task' = [pc |-> "begin", cmd |-> c, own |-> {}, full |-> TRUE,
                todo |-> {}, left |-> 0, closed |-> 0]
  /\ inbox' = inbox - 1
  /\ report' = NoReport
  /\ UNCHANGED <<platform, registered, batch, seen, book, faults, fills, accounted>>

-----------------------------------------------------------------------------
(* The broker and the terminal *)

\* A position is closed at the broker: by its stop, by hand or by a stop-out.
BrokerCloses ==
  /\ Refused
  /\ \E t \in Market :
       /\ Ours(orders[t].magic)
       /\ orders' = Without({t})
  /\ UNCHANGED <<link, nextTicket, task, report, fills, accounted>>

\* A pending order is filled, whatever the number of positions.
PendingFills ==
  /\ \E t \in Pending : orders' = [orders EXCEPT ![t].class = "market"]
  /\ fills' = fills + 1
  /\ UNCHANGED <<link, nextTicket, task, report, faults, accounted>>

\* The terminal is restarted: the reply and the command in hand are gone.
TerminalRestart ==
  /\ registered
  /\ Refused
  /\ registered' = FALSE
  /\ batch' = 0
  /\ inbox' = 0
  /\ task' = Idle
  /\ accounted' = IF task = Idle THEN accounted ELSE accounted \cup task.own
  /\ UNCHANGED <<platform, book, seen, report, fills>>

Init ==
  /\ platform \in {"MT4", "MT5"}
  /\ orders \in Books
  /\ nextTicket = Cardinality(DOMAIN orders) + 1
  /\ registered = FALSE
  /\ batch = 0
  /\ inbox = 0
  /\ task = Idle
  /\ report = NoReport
  /\ seen = {}
  /\ faults = 0
  /\ fills = 0
  /\ accounted = {}

Executing ==
  \/ BeginSignal \/ SendMarket \/ Protect5 \/ Protect4 \/ UnifyStops
  \/ OpenNearLeg \/ OpenFarLeg \/ OpenSingleLeg
  \/ ExecutePending \/ ExecuteCancelPending \/ ExecuteModify \/ ExecuteClose
  \/ SkipUnknown \/ ExecuteOpen \/ BeginClosePartial \/ ClosePartialStep
  \/ EndClosePartial \/ ExecuteCloseAll

Looping == OnInit \/ OnTickRegister \/ SendFirstReport \/ PollAndExecute \/ TakeCommand

Next == Executing \/ Looping \/ BrokerCloses \/ PendingFills \/ TerminalRestart

Spec == Init /\ [][Next]_vars

-----------------------------------------------------------------------------
(* What the program promises *)

\* A position of a strategy that stands without stop or target on MT5 is one
\* the program is still busy with, or one the server has heard of: a failed
\* result named its ticket, or a restart cut the program off (CheckRisk,
\* EnsureSignalProtectionAttached and every early report after a fill).
NakedPositionIsReported ==
  platform = "MT5" =>
    \A t \in Market :
      (orders[t].magic \in Strategies /\ (orders[t].sl = 0 \/ orders[t].tp = 0)) =>
        \/ t \in accounted
        \/ task # Idle /\ t \in task.own

\* The limit of a side is checked before an order, not after: it is exceeded
\* by the second order of a split signal and by pending orders that fill, and
\* by nothing else (CheckRisk).
SameSideBounded ==
  \A side \in {"BUY", "SELL"} : Cardinality(SameSide(side)) <= MaxSameDir + 1 + fills

\* CLOSE_PARTIAL walks over several positions and never closes more than the
\* command asked for (ExecuteClosePartial).
ClosedWithinRequest ==
  task # Idle /\ task.pc = "closing" => task.closed <= task.cmd.lots

\* Sharing the stop of an add-on never moves the stop of an older position
\* away from the price (ExecuteSignal, "SL only moves to the side of profit").
SharedStopMovesForward ==
  [][UnifyStops => \A t \in DOMAIN orders :
       IF orders[t].side = "BUY" THEN orders'[t].sl >= orders[t].sl
       ELSE orders'[t].sl <= orders[t].sl]_vars
=============================================================================
