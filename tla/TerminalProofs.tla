---------------------------- MODULE TerminalProofs ----------------------------
(***************************************************************************)
(* What the terminals promise, for any commands and positions, any volume  *)
(* step and limits, and any number of refusals, restarts and fills: a      *)
(* partial close of the spread trade takes no more than was asked, a       *)
(* shared stop never moves back, the positions of one side stay within     *)
(* their limit, and no position stands unprotected unheard of.             *)
(***************************************************************************)
EXTENDS Terminal, FiniteSetTheorems, TLAPS

-----------------------------------------------------------------------------
(* Order volumes, for every step and every limit a broker may answer: what the two programs  *)
(* round is a legal volume, never more than was asked, and the two orders of a split signal  *)
(* leave nothing of it over.                                                                 *)

\* A volume made of whole steps.
Whole(lots) == lots % Step = 0

\* What rounding down to whole steps does.
LEMMA Rounding ==
  ASSUME NEW lots \in Nat
  PROVE  /\ WholeSteps(lots) \in Nat
         /\ WholeSteps(lots) <= lots
         /\ lots < WholeSteps(lots) + Step
         /\ Whole(WholeSteps(lots))
<1>1. Step \in Nat /\ Step > 0
  BY VolumeAssumption DEF VolumeAssumption
<1>2. PICK q \in Nat : q = lots \div Step
  BY <1>1
<1>3. q * Step <= lots /\ lots < q * Step + Step
  BY <1>1, <1>2
<1>4. (q * Step) % Step = 0
  BY <1>1
<1> QED
  BY <1>1, <1>2, <1>3, <1>4 DEF WholeSteps, Whole

\* A volume of whole steps is its own rounding; a sum and a difference of such volumes are
\* of whole steps again.
LEMMA WholeIsKept ==
  ASSUME NEW lots \in Nat, Whole(lots)
  PROVE  WholeSteps(lots) = lots
<1>1. Step \in Nat /\ Step > 0
  BY VolumeAssumption DEF VolumeAssumption
<1> QED
  BY <1>1 DEF WholeSteps, Whole

\* Sums and differences of whole steps are whole steps.
LEMMA WholeSums ==
  ASSUME NEW a \in Nat, NEW b \in Nat, Whole(a), Whole(b)
  PROVE  Whole(a + b) /\ (b <= a => Whole(a - b))
<1>1. Step \in Nat /\ Step > 0
  BY VolumeAssumption DEF VolumeAssumption
<1>2. PICK p \in Nat : a = p * Step
  <2>1. a = (a \div Step) * Step
    BY <1>1 DEF Whole
  <2>2. a \div Step \in Nat
    BY <1>1
  <2> QED
    BY <2>1, <2>2
<1>3. PICK q \in Nat : b = q * Step
  <2>1. b = (b \div Step) * Step
    BY <1>1 DEF Whole
  <2>2. b \div Step \in Nat
    BY <1>1
  <2> QED
    BY <2>1, <2>2
<1>4. (p + q) * Step = a + b /\ (p - q) * Step = a - b
  BY <1>1, <1>2, <1>3
<1>5. \A k \in Int : (k * Step) % Step = 0
  BY <1>1
<1> QED
  BY <1>4, <1>5 DEF Whole

\* The shares of a volume of whole steps: together they are the volume, whatever six and
\* four tenths of it round to.
LEMMA SharesAreAll ==
  ASSUME NEW total \in Nat, Whole(total)
  PROVE  LET s == Shares(total) IN
         /\ s.near \in Nat /\ s.far \in Nat
         /\ s.near + s.far = total
         /\ Whole(s.near) /\ Whole(s.far)
<1> DEFINE far == WholeSteps((4 * total) \div 10)
           near == WholeSteps((6 * total) \div 10)
<1>1. (4 * total) \div 10 \in Nat /\ (6 * total) \div 10 \in Nat
      /\ (4 * total) \div 10 + (6 * total) \div 10 <= total
  OBVIOUS
<1>2. far \in Nat /\ near \in Nat /\ far + near <= total /\ Whole(far) /\ Whole(near)
  BY <1>1, Rounding
<1> HIDE DEF far, near
<1>3. near <= total /\ far <= total - near /\ total - near \in Nat /\ Whole(total - near)
  BY <1>2, WholeSums
<1>4. Whole(total - near - far) /\ total - near - far \in Nat
  BY <1>2, <1>3, WholeSums
<1>5. WholeSteps(total - near - far) = total - near - far
  BY <1>4, WholeIsKept
<1>6. Whole(near + (total - near - far))
  BY <1>2, <1>4, WholeSums
<1>7. Shares(total) = [near |-> near + (total - near - far), far |-> far]
  BY <1>5 DEF Shares, far, near
<1> QED
  BY <1>2, <1>4, <1>6, <1>7

\* The split of a signal over two targets, on both platforms: each order is one the broker
\* takes and together they are all whole steps of the volume, so no part of a signal is
\* lost by the rounding and no more is opened than was asked (SplitLotsForMultiTP_MT5,
\* SplitLotsForMultiTP).
THEOREM SplitLeavesNothing ==
  ASSUME NEW total \in Nat, SplitLots5(total) # NoSplit
  PROVE  LET s == SplitLots5(total) IN
         /\ s.near >= MinLots /\ s.far >= MinLots
         /\ Whole(s.near) /\ Whole(s.far)
         /\ s.near + s.far = WholeSteps(total)
         /\ s.near + s.far <= total
<1>1. WholeSteps(total) \in Nat /\ WholeSteps(total) <= total /\ Whole(WholeSteps(total))
  BY Rounding
<1>2. SplitLots5(total) = Shares(WholeSteps(total))
      /\ Orderable(Shares(WholeSteps(total)), WholeSteps(total))
  BY DEF SplitLots5
<1> QED
  BY <1>1, <1>2, SharesAreAll DEF Orderable

\* The smallest volume is of whole steps.
LEMMA LimitsAreWhole == /\ MinLots \in Nat /\ Whole(MinLots)
                        /\ MaxLots \in Nat /\ Whole(MaxLots)
BY VolumeAssumption DEF VolumeAssumption, Whole

\* A new order has a legal volume whatever was asked: within the limits, of whole steps.
THEOREM OrderIsLegal ==
  ASSUME NEW lots \in Int
  PROVE  /\ NormalizeVolume(lots) \in MinLots .. MaxLots
         /\ Whole(NormalizeVolume(lots))
<1> DEFINE v == Larger(MinLots, Smaller(MaxLots, lots))
<1>1. v \in Nat /\ MinLots <= v /\ v <= MaxLots
  BY VolumeAssumption DEF VolumeAssumption, Larger, Smaller
<1>2. WholeSteps(v) \in Nat /\ WholeSteps(v) <= v /\ Whole(WholeSteps(v))
  BY <1>1, Rounding
<1>3. NormalizeVolume(lots) \in {MinLots, WholeSteps(v)} /\ NormalizeVolume(lots) >= MinLots
  BY <1>2, LimitsAreWhole DEF NormalizeVolume, Larger
<1> HIDE DEF v
<1> QED
  BY <1>1, <1>2, <1>3, LimitsAreWhole

\* MT4 makes the volume a legal one before it splits it; the split then still is no more
\* than was asked.
THEOREM SplitLeavesNothing4 ==
  ASSUME NEW total \in Nat, SplitLots4(total) # NoSplit
  PROVE  LET s == SplitLots4(total) IN
         /\ s.near >= MinLots /\ s.far >= MinLots
         /\ Whole(s.near) /\ Whole(s.far)
         /\ s.near + s.far <= total
         /\ s.near + s.far <= MaxLots
<1>1. NormalizeVolume(total) \in Nat /\ NormalizeVolume(total) <= MaxLots /\ Whole(NormalizeVolume(total))
  BY OrderIsLegal, LimitsAreWhole
<1>2. /\ SplitLots4(total) = Shares(NormalizeVolume(total))
      /\ NormalizeVolume(total) <= total
      /\ Orderable(Shares(NormalizeVolume(total)), NormalizeVolume(total))
  BY DEF SplitLots4
<1> QED
  BY <1>1, <1>2, SharesAreAll DEF Orderable

\* A partial close of MT5 never closes more than what is left of the request; it closes
\* nothing when that is less than an order may have.
THEOREM CloseStaysWithin ==
  ASSUME NEW lots \in Nat
  PROVE  /\ NormalizeCloseVolume(lots) <= lots
         /\ Whole(NormalizeCloseVolume(lots))
         /\ NormalizeCloseVolume(lots) = 0 \/ NormalizeCloseVolume(lots) \in MinLots .. MaxLots
<1> DEFINE v == Larger(0, Smaller(MaxLots, lots))
<1>1. v \in Nat /\ v <= lots /\ v <= MaxLots
  BY LimitsAreWhole DEF Larger, Smaller
<1>2. WholeSteps(v) \in Nat /\ WholeSteps(v) <= v /\ Whole(WholeSteps(v))
  BY <1>1, Rounding
<1>3. NormalizeCloseVolume(lots) = IF WholeSteps(v) < MinLots THEN 0 ELSE WholeSteps(v)
  BY DEF NormalizeCloseVolume
<1>4. Whole(0)
  BY VolumeAssumption DEF VolumeAssumption, Whole
<1> HIDE DEF v
<1> QED
  BY <1>1, <1>2, <1>3, <1>4, LimitsAreWhole

-----------------------------------------------------------------------------
(* Commands and orders. *)

TaskFields == {"pc", "cmd", "own", "full", "todo", "left", "closed"}

\* The steps of a signal that send an order.
Sending == {"send", "near", "far", "single"}

\* A command in hand: it is one of a strategy when it sends orders, nothing is
\* closed before the walk over the positions begins, and from then on what was
\* closed and what is left are what was asked.
TaskOK(x) ==
  x # Idle =>
    /\ DOMAIN x = TaskFields
    /\ x.cmd \in Commands
    /\ x.pc = "begin" => x.closed = 0
    /\ x.pc \in Sending => x.cmd.strategy \in Strategies
    /\ x.pc = "closing" =>
         /\ x.closed \in Nat /\ x.left \in Nat
         /\ x.closed + x.left = x.cmd.lots

OrdersOK == \A t \in DOMAIN orders : IsOrder(orders[t])

TerminalInv == TaskOK(task) /\ OrdersOK

-----------------------------------------------------------------------------
(* Volumes and orders. *)

\* The commands carry numbers.
LEMMA CommandNumbers ==
  ASSUME NEW c \in Commands
  PROVE  /\ c.lots \in Nat
         /\ c.entry \in Int /\ c.sl \in Int /\ c.tp1 \in Int /\ c.tp2 \in Int /\ c.unified \in Int
BY TerminalAssumption DEF TerminalAssumption

\* The fill price and the least distance are numbers.
LEMMA PriceNumbers == OpenPrice \in Int /\ MinStop \in Int
BY TerminalAssumption DEF TerminalAssumption

\* The volumes of new orders are natural numbers.
LEMMA VolumesAreNumbers ==
  ASSUME NEW lots \in Int
  PROVE  NormalizeVolume(lots) \in Nat
BY OrderIsLegal, LimitsAreWhole

\* So are the shares of a split volume, on both platforms.
LEMMA SharesAreNumbers ==
  ASSUME NEW lots \in Nat
  PROVE  Split(lots).near \in Nat /\ Split(lots).far \in Nat
<1>1. NoSplit.near \in Nat /\ NoSplit.far \in Nat
  BY DEF NoSplit
<1>2. SplitLots5(lots).near \in Nat /\ SplitLots5(lots).far \in Nat
  <2>1. WholeSteps(lots) \in Nat /\ Whole(WholeSteps(lots))
    BY Rounding
  <2>2. SplitLots5(lots) \in {Shares(WholeSteps(lots)), NoSplit}
    BY DEF SplitLots5
  <2> QED
    BY <1>1, <2>1, <2>2, SharesAreAll
<1>3. SplitLots4(lots).near \in Nat /\ SplitLots4(lots).far \in Nat
  <2>1. NormalizeVolume(lots) \in Nat /\ Whole(NormalizeVolume(lots))
    BY OrderIsLegal, LimitsAreWhole
  <2>2. SplitLots4(lots) \in {Shares(NormalizeVolume(lots)), NoSplit}
    BY DEF SplitLots4
  <2> QED
    BY <1>1, <2>1, <2>2, SharesAreAll
<1> QED
  BY <1>2, <1>3 DEF Split

\* The least distance keeps a price a number.
LEMMA StopsAreNumbers ==
  ASSUME NEW side, NEW price \in Int, NEW level \in Int
  PROVE  StopFor(side, price, level) \in Int /\ TargetFor(side, price, level) \in Int
BY PriceNumbers DEF StopFor, TargetFor, Larger

\* A new order is an order.
LEMMA NewIsOrder ==
  ASSUME NEW c \in Commands, NEW class, NEW lots \in Nat, NEW sl \in Int, NEW tp \in Int
  PROVE  IsOrder(NewOrder(c, class, lots, sl, tp))
BY CommandNumbers, PriceNumbers DEF IsOrder, NewOrder

\* An order stays one when its levels, its volume or its owner change.
LEMMA ChangedIsOrder ==
  ASSUME NEW o, IsOrder(o), NEW sl \in Int, NEW tp \in Int, NEW lots \in Nat, NEW magic
  PROVE  /\ IsOrder([o EXCEPT !.sl = sl, !.tp = tp])
         /\ IsOrder([o EXCEPT !.lots = lots])
         /\ IsOrder([o EXCEPT !.magic = magic])
BY DEF IsOrder

\* What the updates of the book leave in it.
LEMMA BookKeepsOrders ==
  ASSUME OrdersOK, NEW t, NEW o, IsOrder(o)
  PROVE  /\ orders' = With(t, o) => OrdersOK'
         /\ orders' = [orders EXCEPT ![t] = o] => OrdersOK'
BY DEF OrdersOK, With

\* Taking orders out of the book leaves the others as they are.
LEMMA BookWithout ==
  ASSUME OrdersOK, NEW gone, orders' = Without(gone)
  PROVE  OrdersOK'
BY DEF OrdersOK, Without

\* Closing part of an order leaves the rest, under either ticket, an order.
LEMMA ReducedBook ==
  ASSUME OrdersOK, NEW t \in DOMAIN orders, NEW lots \in Nat, Reduce(t, lots)
  PROVE  OrdersOK'
<1>1. CASE lots >= orders[t].lots
  BY <1>1, BookWithout DEF Reduce
<1>2. CASE ~(lots >= orders[t].lots)
  <2> DEFINE rest == [orders[t] EXCEPT !.lots = @ - lots]
  <2>1. orders[t].lots \in Nat /\ orders[t].lots - lots \in Nat
    BY <1>2 DEF OrdersOK, IsOrder
  <2>2. IsOrder(rest)
    BY <2>1, ChangedIsOrder DEF OrdersOK, IsOrder
  <2> HIDE DEF rest
  <2>3. \/ orders' = [orders EXCEPT ![t] = rest]
        \/ orders' = [u \in (DOMAIN orders \ {t}) \cup {nextTicket} |->
                        IF u = nextTicket THEN rest ELSE orders[u]]
    BY <1>2 DEF Reduce, rest
  <2> QED
    BY <2>2, <2>3 DEF OrdersOK
<1> QED
  BY <1>1, <1>2

-----------------------------------------------------------------------------
(* The command in hand. *)

\* No command in hand is always fine.
LEMMA IdleIsOK == TaskOK(Idle)
BY DEF TaskOK

\* A command moves on without touching the request.
LEMMA TaskMovesOn ==
  ASSUME NEW x, TaskOK(x), x # Idle,
         NEW pc, pc \notin {"begin", "closing"}, NEW own, NEW full,
         pc \in Sending => x.cmd.strategy \in Strategies
  PROVE  /\ TaskOK([x EXCEPT !.pc = pc])
         /\ TaskOK([x EXCEPT !.pc = pc, !.own = own])
         /\ TaskOK([x EXCEPT !.pc = pc, !.own = own, !.full = full])
BY DEF TaskOK, TaskFields, Sending

\* A reported result ends the command.
LEMMA FinishedIsOK ==
  ASSUME NEW result, NEW ticket, NEW error, Finish(result, ticket, error)
  PROVE  TaskOK(task')
BY IdleIsOK DEF Finish

\* Whatever runs has a command.
LEMMA RunningCommand ==
  ASSUME TaskOK(task), NEW pc, pc # "idle", task.pc = pc
  PROVE  task # Idle /\ task.cmd \in Commands
BY DEF TaskOK, Idle

\* A step that leaves the book alone keeps it in order.
LEMMA OrderStays == OrdersOK /\ UNCHANGED orders => OrdersOK'
BY DEF OrdersOK

\* Once its stops are set, a signal is over or goes on to share its stop.
LEMMA OpenedIsOK ==
  ASSUME TaskOK(task), task # Idle, NEW t, NEW c, Opened(t, c)
  PROVE  TaskOK(task')
<1>1. \/ Finish("ERROR", t, "open_incomplete")
      \/ task' = Idle
      \/ task' = [task EXCEPT !.pc = "unify", !.own = {t}]
  BY DEF Opened
<1>2. TaskOK([task EXCEPT !.pc = "unify", !.own = {t}])
  BY TaskMovesOn DEF Sending
<1> QED
  BY <1>1, <1>2, FinishedIsOK, IdleIsOK

\* An order whose stops were attached is an order.
LEMMA ProtectedIsOrder ==
  ASSUME NEW o, IsOrder(o), NEW c \in Commands
  PROVE  IsOrder(Protected(o, c))
<1>1. StopFor(c.side, o.entry, c.sl) \in Int /\ TargetFor(c.side, o.entry, c.tp1) \in Int
  BY CommandNumbers, StopsAreNumbers DEF IsOrder
<1> QED
  BY <1>1, ChangedIsOrder DEF Protected, IsOrder

-----------------------------------------------------------------------------
(* The steps of a signal. *)

\* A command that passes the checks names a strategy there is.
LEMMA KnownStrategy ==
  ASSUME NEW c, Refusal(c) = "none"
  PROVE  c.strategy \in Strategies
BY DEF Refusal

\* The configured volume of a strategy and its shares are natural numbers.
LEMMA StrategyVolume ==
  ASSUME NEW c, c.strategy \in Strategies
  PROVE  /\ Volume(c) \in Nat
         /\ Split(Volume(c)).near \in Nat /\ Split(Volume(c)).far \in Nat
<1>1. Volume(c) \in Nat
  BY TerminalAssumption, VolumesAreNumbers DEF TerminalAssumption, Volume
<1> QED
  BY <1>1, SharesAreNumbers

\* BeginSignal sends orders only for a strategy there is.
LEMMA BeginSignalStep == TerminalInv /\ BeginSignal => TerminalInv'
<1> SUFFICES ASSUME TerminalInv, BeginSignal PROVE TerminalInv'
  OBVIOUS
<1>1. OrdersOK'
  BY OrderStays DEF TerminalInv, BeginSignal, book
<1>2. TaskOK(task')
  <2>1. task # Idle /\ task.cmd \in Commands
    BY RunningCommand DEF TerminalInv, BeginSignal, Running
  <2>2. \/ \E result, ticket, error : Finish(result, ticket, error)
        \/ /\ Refusal(task.cmd) = "none"
           /\ \E pc \in {"send", "single", "near"} : task' = [task EXCEPT !.pc = pc]
    BY DEF BeginSignal
  <2>3. ASSUME Refusal(task.cmd) = "none", NEW pc \in {"send", "single", "near"}
        PROVE  TaskOK([task EXCEPT !.pc = pc])
    BY <2>1, <2>3, KnownStrategy, TaskMovesOn DEF TerminalInv
  <2> QED
    BY <2>2, <2>3, FinishedIsOK
<1> QED
  BY <1>1, <1>2 DEF TerminalInv

\* An action that ends the command in hand.
Ends == \E result, ticket, error : Finish(result, ticket, error)

\* Such an action keeps the account of the command.
LEMMA EndsOK == Ends => TaskOK(task')
BY FinishedIsOK DEF Ends

\* SendMarket adds one order, filled or half filled.
LEMMA SendMarketStep == TerminalInv /\ SendMarket => TerminalInv'
<1> SUFFICES ASSUME TerminalInv, SendMarket PROVE TerminalInv'
  OBVIOUS
<1>1. /\ task # Idle /\ task.cmd \in Commands /\ TaskOK(task) /\ OrdersOK
      /\ task.cmd.strategy \in Strategies
  BY RunningCommand DEF TerminalInv, SendMarket, Running, TaskOK, Sending
<1>2. ASSUME NEW lots \in Nat, orders' = With(nextTicket, NewOrder(task.cmd, "market", lots, 0, 0)),
             task' = [task EXCEPT !.pc = "protect", !.own = {nextTicket},
                                  !.full = (lots = Volume(task.cmd))]
      PROVE  TerminalInv'
  <2>1. OrdersOK'
    <3>1. IsOrder(NewOrder(task.cmd, "market", lots, 0, 0))
      BY <1>1, NewIsOrder
    <3> QED
      BY <1>1, <1>2, <3>1, BookKeepsOrders
  <2>2. TaskOK(task')
    BY <1>1, <1>2, TaskMovesOn DEF Sending
  <2> QED
    BY <2>1, <2>2 DEF TerminalInv
<1>3. CASE Ends /\ UNCHANGED orders
  BY <1>1, <1>3, EndsOK, OrderStays DEF TerminalInv
<1>4. Volume(task.cmd) \in Nat /\ MinLots \in Nat
  BY <1>1, StrategyVolume, LimitsAreWhole
<1>5. \/ \E lots \in {Volume(task.cmd), MinLots} :
           /\ orders' = With(nextTicket, NewOrder(task.cmd, "market", lots, 0, 0))
           /\ task' = [task EXCEPT !.pc = "protect", !.own = {nextTicket},
                                   !.full = (lots = Volume(task.cmd))]
      \/ Ends /\ UNCHANGED orders
  BY DEF SendMarket, Ends, book
<1> QED
  BY <1>2, <1>3, <1>4, <1>5

\* Setting the stops of a position there is.
LEMMA ProtectStep ==
  ASSUME TerminalInv, task # Idle, task.cmd \in Commands, NEW t,
         \/ Opened(t, task.cmd)
         \/ Ends,
         \/ UNCHANGED orders
         \/ t \in DOMAIN orders /\ orders' = [orders EXCEPT ![t] = Protected(@, task.cmd)]
  PROVE  TerminalInv'
<1>1. TaskOK(task) /\ OrdersOK
  BY DEF TerminalInv
<1>2. TaskOK(task')
  BY <1>1, OpenedIsOK, EndsOK
<1>3. OrdersOK'
  <2>1. ASSUME t \in DOMAIN orders, orders' = [orders EXCEPT ![t] = Protected(@, task.cmd)]
        PROVE  OrdersOK'
    <3>1. IsOrder(Protected(orders[t], task.cmd))
      BY <1>1, <2>1, ProtectedIsOrder DEF OrdersOK
    <3> QED
      BY <1>1, <2>1, <3>1, BookKeepsOrders
  <2> QED
    BY <1>1, <2>1, OrderStays
<1> QED
  BY <1>2, <1>3 DEF TerminalInv

\* The ticket search of MT5 finds an open position or nothing.
LEMMA ResolvedIsOpen ==
  ASSUME NEW raw, NEW c, Resolve(raw, c) # 0
  PROVE  Resolve(raw, c) \in Market
<1> DEFINE fitting == {t \in Market : Fits(t, c)}
<1>1. CASE Fits(raw, c)
  BY <1>1 DEF Resolve, Fits
<1>2. CASE ~Fits(raw, c)
  <2>1. Cardinality(fitting) = 1 /\ Resolve(raw, c) = CHOOSE t \in fitting : TRUE
    BY <1>2 DEF Resolve
  <2>2. fitting # {}
    BY <2>1, FS_EmptySet
  <2> QED
    BY <2>1, <2>2
<1> QED
  BY <1>1, <1>2

\* Protect5 changes the position it found, and no other.
LEMMA Protect5Step == TerminalInv /\ Protect5 => TerminalInv'
<1> SUFFICES ASSUME TerminalInv, Protect5 PROVE TerminalInv'
  OBVIOUS
<1> DEFINE t == Resolve(TheOwn, task.cmd)
<1>1. task # Idle /\ task.cmd \in Commands
  BY RunningCommand DEF TerminalInv, Protect5, Running
<1>2. t # 0 => t \in DOMAIN orders
  BY ResolvedIsOpen DEF Market
<1>3. /\ Opened(t, task.cmd) \/ Ends
      /\ \/ UNCHANGED orders
         \/ t # 0 /\ orders' = [orders EXCEPT ![t] = Protected(@, task.cmd)]
  BY DEF Protect5, Ends
<1> QED
  BY <1>1, <1>2, <1>3, ProtectStep

\* Protect4 changes the selected order only when it is still there.
LEMMA Protect4Step == TerminalInv /\ Protect4 => TerminalInv'
<1> SUFFICES ASSUME TerminalInv, Protect4 PROVE TerminalInv'
  OBVIOUS
<1>1. task # Idle /\ task.cmd \in Commands
  BY RunningCommand DEF TerminalInv, Protect4, Running
<1>2. /\ Opened(TheOwn, task.cmd) \/ Ends
      /\ \/ UNCHANGED orders
         \/ /\ TheOwn \in DOMAIN orders
            /\ orders' = [orders EXCEPT ![TheOwn] = Protected(@, task.cmd)]
  BY DEF Protect4, Ends
<1> QED
  BY <1>1, <1>2, ProtectStep

\* UnifyStops changes levels and nothing else.
LEMMA UnifyStopsStep == TerminalInv /\ UnifyStops => TerminalInv'
<1> SUFFICES ASSUME TerminalInv, UnifyStops PROVE TerminalInv'
  OBVIOUS
<1> DEFINE c == task.cmd
           shared == [t \in Market |-> StopFor(c.side, orders[t].entry, c.unified)]
<1>1. task # Idle /\ c \in Commands /\ OrdersOK
  BY RunningCommand DEF TerminalInv, UnifyStops, Running
<1>2. TaskOK(task')
  BY IdleIsOK DEF UnifyStops
<1>3. ASSUME NEW moved \in SUBSET Market,
             orders' = [t \in DOMAIN orders |->
                          IF t \in moved THEN [orders[t] EXCEPT !.sl = shared[t], !.tp = c.tp1]
                          ELSE orders[t]]
      PROVE  OrdersOK'
  <2>1. ASSUME NEW t \in DOMAIN orders PROVE IsOrder(orders'[t])
    <3>1. CASE t \in moved
      <4>1. t \in Market /\ IsOrder(orders[t]) /\ orders[t].entry \in Int
        BY <1>1, <1>3, <3>1 DEF OrdersOK, IsOrder
      <4>2. shared[t] \in Int /\ c.tp1 \in Int
        BY <1>1, <4>1, CommandNumbers, StopsAreNumbers
      <4>3. orders[t].lots \in Nat
        BY <4>1 DEF IsOrder
      <4>4. IsOrder([orders[t] EXCEPT !.sl = shared[t], !.tp = c.tp1])
        BY <4>1, <4>2, <4>3, ChangedIsOrder
      <4> QED
        BY <1>3, <3>1, <4>4
    <3>2. CASE t \notin moved
      BY <1>1, <1>3, <3>2 DEF OrdersOK
    <3> QED
      BY <3>1, <3>2
  <2> QED
    BY <1>3, <2>1 DEF OrdersOK
<1>4. \/ UNCHANGED orders
      \/ \E moved \in SUBSET Market :
           orders' = [t \in DOMAIN orders |->
                        IF t \in moved THEN [orders[t] EXCEPT !.sl = shared[t], !.tp = c.tp1]
                        ELSE orders[t]]
  BY DEF UnifyStops
<1> QED
  BY <1>1, <1>2, <1>3, <1>4, OrderStays DEF TerminalInv

\* A leg of a split signal leaves an order or nothing.
LEMMA LegsAreOrders ==
  ASSUME OrdersOK, NEW c \in Commands, NEW lots \in Nat, NEW tp \in Int,
         NEW leg \in Legs(c, lots, tp), Placed(leg)
  PROVE  OrdersOK'
<1>1. MinLots \in Nat /\ c.sl \in Int /\ OpenPrice \in Int
  BY LimitsAreWhole, CommandNumbers, PriceNumbers
<1>2. leg.order = NoOrder \/ IsOrder(leg.order)
  <2>1. ASSUME leg \in Legs5(c, lots, tp) PROVE leg.order = NoOrder \/ IsOrder(leg.order)
    <3>1. IsOrder(NewOrder(c, "market", lots, c.sl, tp)) /\ IsOrder(NewOrder(c, "market", MinLots, c.sl, tp))
      BY <1>1, NewIsOrder
    <3> QED
      BY <2>1, <3>1 DEF Legs5
  <2>2. ASSUME leg \in Legs4(c, lots, tp) PROVE leg.order = NoOrder \/ IsOrder(leg.order)
    <3> DEFINE bare == NewOrder(c, "market", lots, 0, 0)
               sl == StopFor(c.side, OpenPrice, c.sl)
               far == TargetFor(c.side, OpenPrice, tp)
    <3>1. IsOrder(bare)
      BY NewIsOrder
    <3>2. sl \in Int /\ far \in Int
      BY <1>1, StopsAreNumbers
    <3>3. IsOrder([bare EXCEPT !.sl = sl, !.tp = far])
      BY <3>1, <3>2, ChangedIsOrder DEF IsOrder
    <3>4. leg.order \in {NoOrder, bare, [bare EXCEPT !.sl = sl, !.tp = far]}
      BY <2>2 DEF Legs4
    <3> QED
      BY <3>1, <3>3, <3>4
  <2> QED
    BY <2>1, <2>2 DEF Legs
<1> QED
  BY <1>2, BookKeepsOrders, OrderStays DEF Placed

\* The legs of a split signal, and the single order in their place.
LEMMA OpenLegsStep ==
  TerminalInv /\ (OpenNearLeg \/ OpenFarLeg \/ OpenSingleLeg) => TerminalInv'
<1> SUFFICES ASSUME TerminalInv, OpenNearLeg \/ OpenFarLeg \/ OpenSingleLeg PROVE TerminalInv'
  OBVIOUS
<1> DEFINE c == task.cmd
           near == Split(Volume(c)).near
           far == Split(Volume(c)).far
<1>1. /\ task # Idle /\ c \in Commands /\ TaskOK(task) /\ OrdersOK
      /\ task.pc \in Sending /\ c.strategy \in Strategies
  BY RunningCommand DEF TerminalInv, OpenNearLeg, OpenFarLeg, OpenSingleLeg, Running, TaskOK, Sending
<1>2. Volume(c) \in Nat /\ near \in Nat /\ far \in Nat /\ c.tp1 \in Int /\ c.tp2 \in Int
  BY <1>1, StrategyVolume, CommandNumbers
<1>3. \/ \E leg \in Legs(c, near, c.tp1) : Placed(leg)
      \/ \E leg \in Legs(c, far, c.tp2) : Placed(leg)
      \/ \E leg \in Legs(c, Volume(c), c.tp2) : Placed(leg)
  BY DEF OpenNearLeg, OpenFarLeg, OpenSingleLeg
<1> HIDE DEF near, far
<1>4. OrdersOK'
  BY <1>1, <1>2, <1>3, LegsAreOrders
<1>5. Ends \/ \E own : task' = [task EXCEPT !.pc = "far", !.own = own]
  BY DEF OpenNearLeg, OpenFarLeg, OpenSingleLeg, Ends
<1>6. ASSUME NEW own PROVE TaskOK([task EXCEPT !.pc = "far", !.own = own])
  BY <1>1, TaskMovesOn
<1> QED
  BY <1>4, <1>5, <1>6, EndsOK DEF TerminalInv

-----------------------------------------------------------------------------
(* The other commands. *)

\* A new pending order is an order on both platforms.
LEMMA PendingIsOrder ==
  ASSUME NEW c \in Commands, NEW lots \in Nat, NEW tp \in Int,
         NEW o \in PendingOrders(c, lots, tp)
  PROVE  IsOrder(o)
<1>1. c.entry \in Int /\ c.sl \in Int
  BY CommandNumbers
<1>2. /\ StopFor(c.side, c.entry, c.sl) \in Int
      /\ TargetFor(c.side, c.entry, tp) \in Int
  BY <1>1, StopsAreNumbers
<1>3. \E sl, level \in Int : o = NewOrder(c, "pending", lots, sl, level)
  BY <1>1, <1>2 DEF PendingOrders, PendingOrder5, PendingOrder4
<1> QED
  BY <1>3, NewIsOrder

\* ExecutePending leaves two, one or no new orders.
LEMMA ExecutePendingStep == TerminalInv /\ ExecutePending => TerminalInv'
<1> SUFFICES ASSUME TerminalInv, ExecutePending PROVE TerminalInv'
  OBVIOUS
<1> DEFINE c == task.cmd
           near == Split(Volume(c)).near
           far == Split(Volume(c)).far
<1>1. task # Idle /\ c \in Commands /\ OrdersOK
  BY RunningCommand DEF TerminalInv, ExecutePending, Running
<1>2. TaskOK(task')
  <2>1. Ends
    BY DEF ExecutePending, PlacePendingSplit, PlacePendingSingle, Ends
  <2> QED
    BY <2>1, EndsOK
<1>3. \/ UNCHANGED orders
      \/ Refusal(c) = "none" /\ PlacePendingSplit(c)
      \/ Refusal(c) = "none" /\ PlacePendingSingle(c)
  BY DEF ExecutePending, book
<1>4. ASSUME Refusal(c) = "none", PlacePendingSplit(c) PROVE OrdersOK'
  <2>1. near \in Nat /\ far \in Nat /\ c.tp1 \in Int /\ c.tp2 \in Int
    BY <1>1, <1>4, KnownStrategy, StrategyVolume, CommandNumbers
  <2>2. \A a \in PendingOrders(c, near, c.tp1) \cup PendingOrders(c, far, c.tp2) : IsOrder(a)
    BY <1>1, <2>1, PendingIsOrder
  <2> HIDE DEF near, far
  <2>3. \/ \E a \in PendingOrders(c, near, c.tp1), b \in PendingOrders(c, far, c.tp2) :
             orders' = [t \in DOMAIN orders \cup {nextTicket, nextTicket + 1} |->
                          IF t = nextTicket THEN a
                          ELSE IF t = nextTicket + 1 THEN b ELSE orders[t]]
        \/ \E a \in PendingOrders(c, near, c.tp1) \cup PendingOrders(c, far, c.tp2) :
             orders' = With(nextTicket, a)
        \/ UNCHANGED orders
    BY <1>4 DEF PlacePendingSplit, book, near, far
  <2>4. ASSUME NEW a, NEW b, IsOrder(a), IsOrder(b),
               orders' = [t \in DOMAIN orders \cup {nextTicket, nextTicket + 1} |->
                            IF t = nextTicket THEN a
                            ELSE IF t = nextTicket + 1 THEN b ELSE orders[t]]
        PROVE  OrdersOK'
    BY <1>1, <2>4 DEF OrdersOK
  <2> QED
    BY <1>1, <2>2, <2>3, <2>4, BookKeepsOrders, OrderStays
<1>5. ASSUME Refusal(c) = "none", PlacePendingSingle(c) PROVE OrdersOK'
  <2>1. Volume(c) \in Nat /\ (IF c.split THEN c.tp2 ELSE c.tp1) \in Int
    BY <1>1, <1>5, KnownStrategy, StrategyVolume, CommandNumbers
  <2>2. \A o \in PendingOrders(c, Volume(c), IF c.split THEN c.tp2 ELSE c.tp1) : IsOrder(o)
    BY <1>1, <2>1, PendingIsOrder
  <2> QED
    BY <1>1, <1>5, <2>2, BookKeepsOrders, OrderStays DEF PlacePendingSingle, book
<1> QED
  BY <1>1, <1>2, <1>3, <1>4, <1>5, OrderStays DEF TerminalInv

\* ExecuteCancelPending takes an order out or leaves the book.
LEMMA ExecuteCancelPendingStep == TerminalInv /\ ExecuteCancelPending => TerminalInv'
<1> SUFFICES ASSUME TerminalInv, ExecuteCancelPending PROVE TerminalInv'
  OBVIOUS
<1>1. Ends /\ (UNCHANGED orders \/ \E gone : orders' = Without(gone))
  BY DEF ExecuteCancelPending, Ends
<1> QED
  BY <1>1, EndsOK, OrderStays, BookWithout DEF TerminalInv

\* What the program may touch is in the book.
LEMMA MineIsOpen ==
  ASSUME NEW t, NotMine(t) = "none"
  PROVE  t \in DOMAIN orders
BY DEF NotMine, NotMine5, NotMine4

\* ExecuteModify writes the levels of an order there is.
LEMMA ExecuteModifyStep == TerminalInv /\ ExecuteModify => TerminalInv'
<1> SUFFICES ASSUME TerminalInv, ExecuteModify PROVE TerminalInv'
  OBVIOUS
<1> DEFINE c == task.cmd
           t == c.ticket
<1>1. task # Idle /\ c \in Commands /\ OrdersOK /\ c.sl \in Int /\ c.tp1 \in Int
  BY RunningCommand, CommandNumbers DEF TerminalInv, ExecuteModify, Running
<1>2. /\ Ends
      /\ \/ UNCHANGED orders
         \/ NotMine(t) = "none" /\ orders' = [orders EXCEPT ![t].sl = c.sl, ![t].tp = c.tp1]
  BY DEF ExecuteModify, Ends
<1>3. ASSUME NotMine(t) = "none", orders' = [orders EXCEPT ![t].sl = c.sl, ![t].tp = c.tp1]
      PROVE  OrdersOK'
  <2>1. t \in DOMAIN orders /\ IsOrder(orders[t])
    BY <1>1, <1>3, MineIsOpen DEF OrdersOK
  <2>2. IsOrder([orders[t] EXCEPT !.sl = c.sl, !.tp = c.tp1])
    BY <1>1, <2>1, ChangedIsOrder DEF IsOrder
  <2>3. orders' = [orders EXCEPT ![t] = [orders[t] EXCEPT !.sl = c.sl, !.tp = c.tp1]]
    BY <1>3, <2>1
  <2> QED
    BY <1>1, <2>2, <2>3, BookKeepsOrders
<1> QED
  BY <1>1, <1>2, <1>3, EndsOK, OrderStays DEF TerminalInv

\* ExecuteClose reduces an order there is by a natural volume.
LEMMA ExecuteCloseStep == TerminalInv /\ ExecuteClose => TerminalInv'
<1> SUFFICES ASSUME TerminalInv, ExecuteClose PROVE TerminalInv'
  OBVIOUS
<1> DEFINE c == task.cmd
           t == c.ticket
           why == IF t \in Pending /\ (platform = "MT5" \/ NotMine(t) = "none")
                  THEN "not_market" ELSE NotMine(t)
           lots == IF platform = "MT5" THEN CloseVolume5(c.lots, orders[t].lots)
                   ELSE CloseVolume4(c.lots, orders[t].lots)
<1>1. task # Idle /\ c \in Commands /\ OrdersOK /\ c.lots \in Nat
  BY RunningCommand, CommandNumbers DEF TerminalInv, ExecuteClose, Running
<1>2. /\ Ends
      /\ \/ UNCHANGED orders
         \/ why = "none" /\ (Reduce(t, lots) \/ Reduce(t, MinLots))
  BY DEF ExecuteClose, Ends, book
<1>3. ASSUME why = "none" PROVE t \in DOMAIN orders /\ lots \in Nat
  <2>1. NotMine(t) = "none"
    BY <1>3
  <2>2. t \in DOMAIN orders /\ orders[t].lots \in Nat
    BY <1>1, <2>1, MineIsOpen DEF OrdersOK, IsOrder
  <2>3. NormalizeCloseVolume(c.lots) \in Nat /\ NormalizeVolume(c.lots) \in Nat
    BY <1>1, CloseStaysWithin, VolumesAreNumbers, LimitsAreWhole
  <2> QED
    BY <2>2, <2>3 DEF CloseVolume5, CloseVolume4
<1> HIDE DEF why, lots
<1>4. OrdersOK'
  BY <1>1, <1>2, <1>3, OrderStays, ReducedBook, LimitsAreWhole
<1> QED
  BY <1>2, <1>4, EndsOK DEF TerminalInv

\* SkipUnknown drops the command.
LEMMA SkipUnknownStep == TerminalInv /\ SkipUnknown => TerminalInv'
BY IdleIsOK, OrderStays DEF TerminalInv, SkipUnknown, book

-----------------------------------------------------------------------------
(* The spread trade. *)

\* ExecuteOpen adds a leg of the spread, whole or of the smallest volume.
LEMMA ExecuteOpenStep == TerminalInv /\ ExecuteOpen => TerminalInv'
<1> SUFFICES ASSUME TerminalInv, ExecuteOpen PROVE TerminalInv'
  OBVIOUS
<1> DEFINE c == task.cmd
           new == NewOrder(c, "market", NormalizeVolume(c.lots), 0, 0)
           order == [new EXCEPT !.magic = "spread"]
<1>1. task # Idle /\ c \in Commands /\ OrdersOK
  BY RunningCommand DEF TerminalInv, ExecuteOpen, Running
<1>2. NormalizeVolume(c.lots) \in Nat /\ MinLots \in Nat
  BY <1>1, CommandNumbers, VolumesAreNumbers, LimitsAreWhole
<1>3. IsOrder(new)
  BY <1>1, <1>2, NewIsOrder
<1>4. IsOrder(order)
  <2> HIDE DEF new
  <2> QED
    BY <1>3 DEF IsOrder
<1>5. IsOrder([order EXCEPT !.lots = MinLots])
  <2> HIDE DEF order
  <2> QED
    BY <1>2, <1>4 DEF IsOrder
<1>6. /\ Ends
      /\ \/ UNCHANGED orders
         \/ orders' = With(nextTicket, order)
         \/ orders' = With(nextTicket, [order EXCEPT !.lots = MinLots])
  BY DEF ExecuteOpen, Ends, book
<1> HIDE DEF order
<1>7. OrdersOK'
  BY <1>1, <1>4, <1>5, <1>6, BookKeepsOrders, OrderStays
<1> QED
  BY <1>6, <1>7, EndsOK DEF TerminalInv

\* The walk begins with nothing closed and everything left.
LEMMA BeginClosePartialStep == TerminalInv /\ BeginClosePartial => TerminalInv'
<1> SUFFICES ASSUME TerminalInv, BeginClosePartial PROVE TerminalInv'
  OBVIOUS
<1>1. task # Idle /\ task.cmd \in Commands /\ task.cmd.lots \in Nat
  BY RunningCommand, CommandNumbers DEF TerminalInv, BeginClosePartial, Running
<1>2. task.closed = 0 /\ DOMAIN task = TaskFields
  BY <1>1 DEF TerminalInv, BeginClosePartial, Running, TaskOK
<1>3. ASSUME NEW todo
      PROVE  TaskOK([task EXCEPT !.pc = "closing", !.todo = todo, !.left = task.cmd.lots])
  BY <1>1, <1>2 DEF TaskOK, TaskFields, Sending
<1>4. \/ Ends
      \/ task' = [task EXCEPT !.pc = "closing", !.todo = SpreadLegs(task.cmd.sym),
                              !.left = task.cmd.lots]
  BY DEF BeginClosePartial, Ends
<1>5. OrdersOK'
  BY OrderStays DEF TerminalInv, BeginClosePartial, book
<1> QED
  BY <1>3, <1>4, <1>5, EndsOK DEF TerminalInv

\* A step of the walk takes from what is left exactly what it adds to what
\* was closed: a close is never larger than what is left.
LEMMA ClosePartialStepStep == TerminalInv /\ ClosePartialStep => TerminalInv'
<1> SUFFICES ASSUME TerminalInv, ClosePartialStep PROVE TerminalInv'
  OBVIOUS
<1> DEFINE t == Newest(task.todo)
           rest == task.todo \ {t}
           lots == IF t \in Market THEN NormalizeCloseVolume(Smaller(task.left, orders[t].lots))
                   ELSE 0
<1>1. /\ task # Idle /\ task.cmd \in Commands /\ OrdersOK
      /\ DOMAIN task = TaskFields /\ task.pc = "closing"
      /\ task.closed \in Nat /\ task.left \in Nat
      /\ task.closed + task.left = task.cmd.lots
  BY RunningCommand DEF TerminalInv, ClosePartialStep, Running, TaskOK
<1>2. lots \in Nat /\ lots <= task.left /\ (lots > 0 => t \in DOMAIN orders)
  <2>1. CASE t \in Market
    <3>1. t \in DOMAIN orders /\ orders[t].lots \in Nat
      BY <1>1, <2>1 DEF Market, OrdersOK, IsOrder
    <3>2. /\ Smaller(task.left, orders[t].lots) \in Nat
          /\ Smaller(task.left, orders[t].lots) <= task.left
      BY <1>1, <3>1 DEF Smaller
    <3>3. /\ NormalizeCloseVolume(Smaller(task.left, orders[t].lots)) \in Nat
          /\ NormalizeCloseVolume(Smaller(task.left, orders[t].lots))
               <= Smaller(task.left, orders[t].lots)
      BY <3>2, CloseStaysWithin, LimitsAreWhole
    <3> QED
      BY <1>1, <2>1, <3>1, <3>2, <3>3
  <2>2. CASE t \notin Market
    BY <1>1, <2>2
  <2> QED
    BY <2>1, <2>2
<1>3. /\ \/ UNCHANGED orders
         \/ lots > 0 /\ Reduce(t, lots)
         \/ lots > MinLots /\ Reduce(t, MinLots)
      /\ \/ Ends
         \/ task' = [task EXCEPT !.todo = rest]
         \/ task' = [task EXCEPT !.todo = rest, !.closed = @ + lots,
                                 !.left = StillToClose(task.left, lots)]
  BY DEF ClosePartialStep, Ends, book
<1> HIDE DEF lots, t, rest
<1>4. OrdersOK'
  BY <1>1, <1>2, <1>3, OrderStays, ReducedBook, LimitsAreWhole
<1>5. StillToClose(task.left, lots) = task.left - lots /\ task.left - lots \in Nat
  BY <1>1, <1>2 DEF StillToClose, Larger
<1>6. /\ TaskOK([task EXCEPT !.todo = rest])
      /\ TaskOK([task EXCEPT !.todo = rest, !.closed = @ + lots,
                             !.left = StillToClose(task.left, lots)])
  BY <1>1, <1>2, <1>5 DEF TaskOK, TaskFields, Sending
<1> QED
  BY <1>3, <1>4, <1>6, EndsOK DEF TerminalInv

\* EndClosePartial reports and leaves the book.
LEMMA EndClosePartialStep == TerminalInv /\ EndClosePartial => TerminalInv'
<1>1. EndClosePartial => Ends /\ UNCHANGED orders
  BY DEF EndClosePartial, Ends, book
<1> QED
  BY <1>1, EndsOK, OrderStays DEF TerminalInv

\* ExecuteCloseAll takes out the positions the broker let go.
LEMMA ExecuteCloseAllStep == TerminalInv /\ ExecuteCloseAll => TerminalInv'
<1>1. ExecuteCloseAll => Ends /\ (UNCHANGED orders \/ \E gone : orders' = Without(gone))
  BY DEF ExecuteCloseAll, Ends
<1> QED
  BY <1>1, EndsOK, OrderStays, BookWithout DEF TerminalInv

-----------------------------------------------------------------------------
(* The loop, the broker and the restart. *)

\* The loop leaves the book; a new command has closed nothing.
LEMMA LoopingStep == TerminalInv /\ Looping => TerminalInv'
<1> SUFFICES ASSUME TerminalInv, Looping PROVE TerminalInv'
  OBVIOUS
<1>1. OrdersOK'
  BY OrderStays DEF TerminalInv, Looping, OnInit, OnTickRegister, SendFirstReport,
                    PollAndExecute, TakeCommand, book
<1>2. ASSUME NEW c \in Commands
      PROVE  TaskOK([pc |-> "begin", cmd |-> c, own |-> {}, full |-> TRUE,
                     todo |-> {}, left |-> 0, closed |-> 0])
  BY DEF TaskOK, TaskFields, Sending
<1>3. \/ UNCHANGED task
      \/ \E c \in Commands :
           task' = [pc |-> "begin", cmd |-> c, own |-> {}, full |-> TRUE,
                    todo |-> {}, left |-> 0, closed |-> 0]
  BY DEF Looping, OnInit, OnTickRegister, SendFirstReport, PollAndExecute, TakeCommand
<1> QED
  BY <1>1, <1>2, <1>3 DEF TerminalInv

\* Nothing the broker or a restart does breaks the account.
LEMMA OutsideStep ==
  TerminalInv /\ (BrokerCloses \/ PendingFills \/ TerminalRestart) => TerminalInv'
<1> SUFFICES ASSUME TerminalInv, BrokerCloses \/ PendingFills \/ TerminalRestart
             PROVE  TerminalInv'
  OBVIOUS
<1>1. CASE BrokerCloses
  BY <1>1, BookWithout DEF TerminalInv, BrokerCloses
<1>2. CASE PendingFills
  <2>1. PICK t \in Pending : orders' = [orders EXCEPT ![t].class = "market"]
    BY <1>2 DEF PendingFills
  <2>2. IsOrder([orders[t] EXCEPT !.class = "market"])
    BY <2>1 DEF TerminalInv, OrdersOK, Pending, IsOrder
  <2>3. OrdersOK'
    BY <2>1, <2>2, BookKeepsOrders DEF TerminalInv
  <2> QED
    BY <1>2, <2>3 DEF TerminalInv, PendingFills
<1>3. CASE TerminalRestart
  BY <1>3, IdleIsOK, OrderStays DEF TerminalInv, TerminalRestart, book
<1> QED
  BY <1>1, <1>2, <1>3

-----------------------------------------------------------------------------
(* The theorems. *)

\* From every book a terminal may start with, the command in hand keeps its
\* account of what was closed and every order has a volume and levels.
THEOREM TerminalInvariant == Spec => []TerminalInv
<1>1. Init => TerminalInv
  BY TerminalAssumption, IdleIsOK DEF TerminalAssumption, Init, TerminalInv, OrdersOK
<1>2. TerminalInv /\ [Next]_vars => TerminalInv'
  <2> SUFFICES ASSUME TerminalInv, [Next]_vars PROVE TerminalInv'
    OBVIOUS
  <2>1. CASE Executing
    BY <2>1, BeginSignalStep, SendMarketStep, Protect5Step, Protect4Step, UnifyStopsStep,
       OpenLegsStep, ExecutePendingStep, ExecuteCancelPendingStep, ExecuteModifyStep,
       ExecuteCloseStep, SkipUnknownStep, ExecuteOpenStep, BeginClosePartialStep,
       ClosePartialStepStep, EndClosePartialStep, ExecuteCloseAllStep DEF Executing
  <2>2. CASE Looping
    BY <2>2, LoopingStep
  <2>3. CASE BrokerCloses \/ PendingFills \/ TerminalRestart
    BY <2>3, OutsideStep
  <2>4. CASE UNCHANGED vars
    BY <2>4, OrderStays DEF TerminalInv, vars
  <2> QED
    BY <2>1, <2>2, <2>3, <2>4 DEF Next
<1> QED
  BY <1>1, <1>2, PTL DEF Spec

\* A partial close of the spread trade, over however many positions and with
\* whatever the broker refuses on the way, closes no more than was asked.
THEOREM ClosesAtMostTheRequest == Spec => []ClosedWithinRequest
<1>1. TerminalInv => ClosedWithinRequest
  BY DEF TerminalInv, TaskOK, ClosedWithinRequest
<1> QED
  BY <1>1, TerminalInvariant, PTL

\* When the stop of an add-on is shared, no older position's stop moves away
\* from the side of profit, whatever the least distance of the broker is.
THEOREM SharedStopsOnlyImprove == Spec => SharedStopMovesForward
<1> DEFINE Forward == UnifyStops =>
             \A t \in DOMAIN orders :
               IF orders[t].side = "BUY" THEN orders'[t].sl >= orders[t].sl
               ELSE orders'[t].sl <= orders[t].sl
<1>1. TerminalInv => Forward
  <2> SUFFICES ASSUME TerminalInv, UnifyStops, NEW t \in DOMAIN orders
               PROVE  IF orders[t].side = "BUY" THEN orders'[t].sl >= orders[t].sl
                      ELSE orders'[t].sl <= orders[t].sl
    OBVIOUS
  <2> DEFINE c == task.cmd
             shared == [u \in Market |-> StopFor(c.side, orders[u].entry, c.unified)]
  <2>1. orders[t].sl \in Int /\ IsOrder(orders[t])
    BY DEF TerminalInv, OrdersOK, IsOrder
  <2>2. \/ orders'[t].sl = orders[t].sl
        \/ orders'[t].sl = shared[t] /\ Improves(orders[t], shared[t])
    <3>1. CASE UNCHANGED orders
      BY <3>1
    <3>2. ASSUME NEW moved, moved \subseteq {u \in Market : Improves(orders[u], shared[u])},
                 orders' = [u \in DOMAIN orders |->
                              IF u \in moved
                              THEN [orders[u] EXCEPT !.sl = shared[u], !.tp = c.tp1]
                              ELSE orders[u]]
          PROVE  \/ orders'[t].sl = orders[t].sl
                 \/ orders'[t].sl = shared[t] /\ Improves(orders[t], shared[t])
      BY <2>1, <3>2 DEF IsOrder
    <3>3. \/ UNCHANGED orders
          \/ \E moved : /\ moved \subseteq {u \in Market : Improves(orders[u], shared[u])}
                        /\ orders' = [u \in DOMAIN orders |->
                                        IF u \in moved
                                        THEN [orders[u] EXCEPT !.sl = shared[u], !.tp = c.tp1]
                                        ELSE orders[u]]
      BY DEF UnifyStops
    <3> QED
      BY <3>1, <3>2, <3>3
  <2> QED
    BY <2>1, <2>2 DEF Improves
<1>2. TerminalInv => [Forward]_vars
  BY <1>1
<1> QED
  BY <1>2, TerminalInvariant, PTL DEF SharedStopMovesForward

-----------------------------------------------------------------------------
(* The limit of a side. *)

Sides == {"BUY", "SELL"}

\* A position that counts against the limit of a side, for one of the programs.
Counts(o, side, program) ==
  /\ o.class = "market" /\ o.side = side
  /\ o.sym \in TradedSymbols
  /\ IF program = "MT5" THEN Ours5(o.magic) ELSE Ours4(o.magic)

\* The positions of a book that count.
CountedIn(held, side, program) == {t \in DOMAIN held : Counts(held[t], side, program)}

\* Orders the signal in hand may still send on the side it was checked for.
Reserve(x, side) ==
  IF x # Idle /\ x.cmd.side = side
  THEN IF x.pc \in {"send", "near", "single"} THEN 2 ELSE IF x.pc = "far" THEN 1 ELSE 0
  ELSE 0

\* The limit holds with room for what the command in hand may still open.
SidesInv ==
  /\ platform \in {"MT4", "MT5"}
  /\ IsFiniteSet(DOMAIN orders)
  /\ fills \in Nat
  /\ \A side \in Sides :
       Cardinality(CountedIn(orders, side, platform)) + Reserve(task, side)
         <= MaxSameDir + 1 + fills

-----------------------------------------------------------------------------
(* Positions without stop or target. *)

\* A position of a strategy without stop or target.
Naked(o) == o.magic \in Strategies /\ (o.sl = 0 \/ o.tp = 0)

\* The signal in hand: what the split and the shared stop rest on.
SignalOK(x) ==
  x # Idle =>
    /\ x.pc \in {"near", "far", "single"} => x.cmd.split
    /\ x.pc = "unify" => x.cmd.unified # 0
    /\ x.pc = "protect" => \E n \in x.own : x.own = {n} /\ (n \in DOMAIN orders => Fits(n, x.cmd))

\* The position the program is about to protect.
Protecting(x) == IF x # Idle /\ x.pc = "protect" THEN x.own ELSE {}

StopsInv ==
  platform = "MT5" =>
    /\ SignalOK(task)
    /\ \A t \in DOMAIN orders :
         /\ orders[t].entry > MinStop
         /\ Naked(orders[t]) => t \in accounted \cup Protecting(task)
-----------------------------------------------------------------------------
(* What a change of the book does to the positions that count. *)

\* The positions of a side, before a step and after it.
LEMMA SameSideIsCounted ==
  ASSUME NEW side
  PROVE  /\ SameSide(side) = CountedIn(orders, side, platform)
         /\ SameSide(side)' = CountedIn(orders', side, platform')
BY DEF SameSide, CountedIn, Counts, Market, Ours

\* An order of the same owner, side and kind.
SameKind(a, b) ==
  /\ a.class = b.class /\ a.side = b.side
  /\ a.sym = b.sym /\ a.magic = b.magic

\* What counts, counts in every order of its kind.
LEMMA KindCounts ==
  ASSUME NEW a, NEW b, SameKind(a, b), NEW side, NEW program
  PROVE  Counts(a, side, program) <=> Counts(b, side, program)
BY DEF SameKind, Counts

\* The room a command needs is a small number, and none without a command.
LEMMA ReserveIsSmall ==
  ASSUME NEW x, NEW side
  PROVE  Reserve(x, side) \in 0..2 /\ Reserve(Idle, side) = 0
BY DEF Reserve

\* No position more than before on any side.
NotMore(before, after) ==
  /\ IsFiniteSet(DOMAIN after)
  /\ \A side \in Sides :
       Cardinality(CountedIn(after, side, platform)) <= Cardinality(CountedIn(before, side, platform))

\* At most one position more than before on any side.
OneMore(before, after) ==
  /\ IsFiniteSet(DOMAIN after)
  /\ \A side \in Sides :
       Cardinality(CountedIn(after, side, platform)) <= Cardinality(CountedIn(before, side, platform)) + 1

\* The positions that count in a finite book.
LEMMA CountedIsFinite ==
  ASSUME NEW b, IsFiniteSet(DOMAIN b), NEW side, NEW program
  PROVE  /\ IsFiniteSet(CountedIn(b, side, program))
         /\ Cardinality(CountedIn(b, side, program)) \in Nat
<1>1. CountedIn(b, side, program) \subseteq DOMAIN b
  BY DEF CountedIn
<1>2. IsFiniteSet(CountedIn(b, side, program))
  BY <1>1, FS_Subset
<1> QED
  BY <1>2, FS_CardinalityType

\* One element more makes a finite set at most one larger.
LEMMA OneAdded ==
  ASSUME NEW S, IsFiniteSet(S), NEW x
  PROVE  /\ IsFiniteSet(S \cup {x})
         /\ Cardinality(S) \in Nat /\ Cardinality(S \cup {x}) \in Nat
         /\ Cardinality(S \cup {x}) <= Cardinality(S) + 1
<1>1. /\ IsFiniteSet(S \cup {x})
      /\ Cardinality(S \cup {x}) = IF x \in S THEN Cardinality(S) ELSE Cardinality(S) + 1
  BY FS_AddElement
<1>2. Cardinality(S) \in Nat
  BY FS_CardinalityType
<1> QED
  BY <1>1, <1>2

\* A book whose counted positions are among the old ones and one more.
LEMMA CountedWithin ==
  ASSUME NEW b, NEW a, IsFiniteSet(DOMAIN b), IsFiniteSet(DOMAIN a), NEW side, NEW n
  PROVE  /\ CountedIn(a, side, platform) \subseteq CountedIn(b, side, platform)
              => Cardinality(CountedIn(a, side, platform)) <= Cardinality(CountedIn(b, side, platform))
         /\ CountedIn(a, side, platform) \subseteq CountedIn(b, side, platform) \cup {n}
              => Cardinality(CountedIn(a, side, platform))
                   <= Cardinality(CountedIn(b, side, platform)) + 1
<1> DEFINE A == CountedIn(a, side, platform)
           B == CountedIn(b, side, platform)
<1>1. IsFiniteSet(A) /\ IsFiniteSet(B) /\ Cardinality(A) \in Nat /\ Cardinality(B) \in Nat
  BY CountedIsFinite
<1> HIDE DEF A, B
<1>2. A \subseteq B => Cardinality(A) <= Cardinality(B)
  BY <1>1, FS_Subset
<1>3. IsFiniteSet(B \cup {n}) /\ Cardinality(B \cup {n}) \in Nat
      /\ Cardinality(B \cup {n}) <= Cardinality(B) + 1
  BY <1>1, OneAdded
<1>4. A \subseteq B \cup {n} => Cardinality(A) <= Cardinality(B \cup {n})
  BY <1>3, FS_Subset
<1>5. A \subseteq B \cup {n} => Cardinality(A) <= Cardinality(B) + 1
  BY <1>1, <1>3, <1>4
<1> QED
  BY <1>2, <1>5 DEF A, B

\* Every book has no position more than itself.
LEMMA SameBook ==
  ASSUME NEW b, IsFiniteSet(DOMAIN b)
  PROVE  NotMore(b, b)
BY CountedIsFinite DEF NotMore

\* Orders that leave the book, or stay in it as what they are.
LEMMA Inherited ==
  ASSUME NEW b, NEW a, IsFiniteSet(DOMAIN b),
         \A t \in DOMAIN a : t \in DOMAIN b /\ SameKind(a[t], b[t])
  PROVE  NotMore(b, a)
<1>1. IsFiniteSet(DOMAIN a)
  BY FS_Subset
<1>2. ASSUME NEW side PROVE CountedIn(a, side, platform) \subseteq CountedIn(b, side, platform)
  BY KindCounts DEF CountedIn
<1> QED
  BY <1>1, <1>2, CountedWithin DEF NotMore

\* One ticket gets a new order.
LEMMA OneNew ==
  ASSUME IsFiniteSet(DOMAIN orders), NEW n, NEW o
  PROVE  /\ OneMore(orders, With(n, o))
         /\ \A side \in Sides : ~Counts(o, side, platform) =>
              Cardinality(CountedIn(With(n, o), side, platform))
                <= Cardinality(CountedIn(orders, side, platform))
         /\ (\A side \in Sides : ~Counts(o, side, platform)) => NotMore(orders, With(n, o))
<1> DEFINE a == With(n, o)
<1>1. DOMAIN a = DOMAIN orders \cup {n} /\ IsFiniteSet(DOMAIN a)
  BY FS_AddElement DEF With
<1>2. \A t \in DOMAIN a : a[t] = IF t = n THEN o ELSE orders[t]
  BY DEF With
<1> HIDE DEF a
<1>3. ASSUME NEW side PROVE CountedIn(a, side, platform) \subseteq CountedIn(orders, side, platform) \cup {n}
  BY <1>1, <1>2 DEF CountedIn
<1>4. ASSUME NEW side, ~Counts(o, side, platform)
      PROVE  CountedIn(a, side, platform) \subseteq CountedIn(orders, side, platform)
  BY <1>1, <1>2, <1>4 DEF CountedIn
<1>5. OneMore(orders, a)
  BY <1>1, <1>3, CountedWithin DEF OneMore
<1>6. \A side \in Sides : ~Counts(o, side, platform) =>
        Cardinality(CountedIn(a, side, platform)) <= Cardinality(CountedIn(orders, side, platform))
  BY <1>1, <1>4, CountedWithin
<1>7. (\A side \in Sides : ~Counts(o, side, platform)) => NotMore(orders, a)
  BY <1>1, <1>6 DEF NotMore
<1> QED
  BY <1>5, <1>6, <1>7 DEF a

\* Two tickets get orders that do not count.
LEMMA TwoPending ==
  ASSUME IsFiniteSet(DOMAIN orders), NEW n, NEW m, NEW o, NEW p,
         o.class = "pending", p.class = "pending"
  PROVE  NotMore(orders, [t \in DOMAIN orders \cup {n, m} |->
                            IF t = n THEN o ELSE IF t = m THEN p ELSE orders[t]])
<1> DEFINE a == [t \in DOMAIN orders \cup {n, m} |->
                   IF t = n THEN o ELSE IF t = m THEN p ELSE orders[t]]
<1>1. DOMAIN a = (DOMAIN orders \cup {n}) \cup {m} /\ IsFiniteSet(DOMAIN a)
  <2>1. IsFiniteSet((DOMAIN orders \cup {n}) \cup {m})
    BY OneAdded
  <2>2. DOMAIN a = (DOMAIN orders \cup {n}) \cup {m}
    OBVIOUS
  <2> QED
    BY <2>1, <2>2
<1>2. \A t \in DOMAIN a : a[t] = IF t = n THEN o ELSE IF t = m THEN p ELSE orders[t]
  OBVIOUS
<1> HIDE DEF a
<1>3. ASSUME NEW side
      PROVE  CountedIn(a, side, platform) \subseteq CountedIn(orders, side, platform)
  BY <1>1, <1>2 DEF CountedIn, Counts
<1> QED
  BY <1>1, <1>3, CountedWithin DEF NotMore, a

\* A pending order that becomes a position is one more.
LEMMA OneFilled ==
  ASSUME IsFiniteSet(DOMAIN orders), NEW t \in DOMAIN orders, NEW o
  PROVE  OneMore(orders, [orders EXCEPT ![t] = o])
<1> DEFINE a == [orders EXCEPT ![t] = o]
<1>1. DOMAIN a = DOMAIN orders /\ \A u \in DOMAIN a : u # t => a[u] = orders[u]
  OBVIOUS
<1> HIDE DEF a
<1>2. ASSUME NEW side
      PROVE  CountedIn(a, side, platform) \subseteq CountedIn(orders, side, platform) \cup {t}
  BY <1>1 DEF CountedIn
<1> QED
  BY <1>1, <1>2, CountedWithin DEF OneMore, a

\* Closing part of an order leaves no position more, whatever ticket the rest gets.
LEMMA ReduceNotMore ==
  ASSUME IsFiniteSet(DOMAIN orders), OrdersOK, NEW t \in DOMAIN orders, NEW lots, Reduce(t, lots)
  PROVE  NotMore(orders, orders')
<1> DEFINE rest == [orders[t] EXCEPT !.lots = @ - lots]
<1>1. IsOrder(orders[t])
  BY DEF OrdersOK
<1>2. SameKind(rest, orders[t])
  BY <1>1 DEF IsOrder, SameKind
<1> HIDE DEF rest
<1>3. CASE orders' = Without({t})
  <2>1. \A u \in DOMAIN orders' : u \in DOMAIN orders /\ SameKind(orders'[u], orders[u])
    BY <1>3 DEF Without, SameKind
  <2> QED
    BY <2>1, Inherited
<1>4. CASE orders' = [orders EXCEPT ![t] = rest]
  <2>1. \A u \in DOMAIN orders' : u \in DOMAIN orders /\ SameKind(orders'[u], orders[u])
    BY <1>2, <1>4 DEF SameKind
  <2> QED
    BY <2>1, Inherited
<1>5. ASSUME NEW n, orders' = [u \in (DOMAIN orders \ {t}) \cup {n} |->
                                 IF u = n THEN rest ELSE orders[u]]
      PROVE  NotMore(orders, orders')
  <2>1. DOMAIN orders' = (DOMAIN orders \ {t}) \cup {n} /\ IsFiniteSet(DOMAIN orders')
    BY <1>5, FS_RemoveElement, FS_AddElement
  <2>2. \A u \in DOMAIN orders' : orders'[u] = IF u = n THEN rest ELSE orders[u]
    BY <1>5
  <2>3. ASSUME NEW side
        PROVE  Cardinality(CountedIn(orders', side, platform))
                 <= Cardinality(CountedIn(orders, side, platform))
    <3> DEFINE A == CountedIn(orders', side, platform)
               B == CountedIn(orders, side, platform)
    <3>1. CASE Counts(rest, side, platform)
      <4>1. Counts(orders[t], side, platform)
        BY <1>2, <3>1, KindCounts
      <4>2. t \in B /\ A \subseteq (B \ {t}) \cup {n}
        BY <2>1, <2>2, <4>1 DEF CountedIn
      <4>3. IsFiniteSet(B) /\ IsFiniteSet(A) /\ Cardinality(B) \in Nat /\ Cardinality(A) \in Nat
        BY <2>1, CountedIsFinite
      <4> HIDE DEF A, B
      <4>4. /\ IsFiniteSet(B \ {t}) /\ Cardinality(B \ {t}) = Cardinality(B) - 1
        BY <4>2, <4>3, FS_RemoveElement
      <4>5. /\ IsFiniteSet((B \ {t}) \cup {n})
            /\ Cardinality((B \ {t}) \cup {n}) \in Nat
            /\ Cardinality((B \ {t}) \cup {n}) <= Cardinality(B \ {t}) + 1
        BY <4>4, OneAdded
      <4>6. Cardinality(A) <= Cardinality((B \ {t}) \cup {n})
        BY <4>2, <4>5, FS_Subset
      <4>7. Cardinality(A) <= Cardinality(B)
        BY <4>3, <4>4, <4>5, <4>6
      <4> QED
        BY <4>7 DEF A, B
    <3>2. CASE ~Counts(rest, side, platform)
      <4>1. A \subseteq B
        BY <2>1, <2>2, <3>2 DEF CountedIn
      <4> QED
        BY <2>1, <4>1, CountedWithin
    <3> QED
      BY <3>1, <3>2
  <2> QED
    BY <2>1, <2>3 DEF NotMore
<1>6. \/ orders' = Without({t})
      \/ orders' = [orders EXCEPT ![t] = rest]
      \/ orders' = [u \in (DOMAIN orders \ {t}) \cup {nextTicket} |->
                      IF u = nextTicket THEN rest ELSE orders[u]]
  BY DEF Reduce, rest
<1> QED
  BY <1>3, <1>4, <1>5, <1>6
-----------------------------------------------------------------------------
(* The limit of a side, step by step. *)

\* The limit stays when, on each side, positions and room grow by no more than the fills.
LEMMA SidesKept ==
  ASSUME SidesInv, platform' = platform, IsFiniteSet(DOMAIN orders'), fills' \in Nat,
         \A side \in Sides :
           Cardinality(CountedIn(orders', side, platform)) + Reserve(task', side) + fills
             <= Cardinality(CountedIn(orders, side, platform)) + Reserve(task, side) + fills'
  PROVE  SidesInv'
<1>1. ASSUME NEW side \in Sides
      PROVE  Cardinality(CountedIn(orders', side, platform)) + Reserve(task', side)
               <= MaxSameDir + 1 + fills'
  <2> DEFINE after == Cardinality(CountedIn(orders', side, platform))
             before == Cardinality(CountedIn(orders, side, platform))
  <2>1. after \in Nat /\ before \in Nat /\ Reserve(task', side) \in Nat /\ Reserve(task, side) \in Nat
    BY CountedIsFinite, ReserveIsSmall DEF SidesInv
  <2>2. MaxSameDir \in Nat /\ fills \in Nat
    BY TerminalAssumption DEF TerminalAssumption, SidesInv
  <2>3. before + Reserve(task, side) <= MaxSameDir + 1 + fills
    BY DEF SidesInv
  <2>4. after + Reserve(task', side) + fills <= before + Reserve(task, side) + fills'
    OBVIOUS
  <2> HIDE DEF after, before
  <2>5. after + Reserve(task', side) <= MaxSameDir + 1 + fills'
    BY <2>1, <2>2, <2>3, <2>4
  <2> QED
    BY <2>5 DEF after
<1> QED
  BY <1>1 DEF SidesInv

\* The command in hand keeps its room, or gives it up.
NoNewRoom == \A side \in Sides : Reserve(task', side) <= Reserve(task, side)

\* No position more, no room more: the limit stays.
LEMMA SidesCalm ==
  ASSUME SidesInv, platform' = platform, fills' = fills, NotMore(orders, orders'), NoNewRoom
  PROVE  SidesInv'
<1>1. ASSUME NEW side \in Sides
      PROVE  Cardinality(CountedIn(orders', side, platform)) + Reserve(task', side) + fills
               <= Cardinality(CountedIn(orders, side, platform)) + Reserve(task, side) + fills'
  <2>1. /\ Cardinality(CountedIn(orders', side, platform)) \in Nat
        /\ Cardinality(CountedIn(orders, side, platform)) \in Nat
        /\ Reserve(task', side) \in Nat /\ Reserve(task, side) \in Nat /\ fills \in Nat
    BY CountedIsFinite, ReserveIsSmall DEF SidesInv, NotMore
  <2>2. Cardinality(CountedIn(orders', side, platform)) <= Cardinality(CountedIn(orders, side, platform))
    BY DEF NotMore
  <2>3. Reserve(task', side) <= Reserve(task, side)
    BY DEF NoNewRoom
  <2> QED
    BY <2>1, <2>2, <2>3
<1>2. IsFiniteSet(DOMAIN orders') /\ fills' \in Nat
  BY DEF NotMore, SidesInv
<1> QED
  BY <1>1, <1>2, SidesKept

\* A command that ends, and one that does not change, ask for no room.
LEMMA EndsRoom == Ends \/ task' = Idle \/ task' = task => NoNewRoom
<1>1. \A side : Reserve(Idle, side) = 0 /\ Reserve(task, side) \in 0..2
  BY ReserveIsSmall
<1>2. Ends => task' = Idle
  BY DEF Ends, Finish
<1> QED
  BY <1>1, <1>2 DEF NoNewRoom

\* A step that leaves the book and ends the command, or leaves it too.
LEMMA SidesIdle ==
  ASSUME SidesInv, platform' = platform, fills' = fills, orders' = orders,
         Ends \/ task' = Idle \/ task' = task
  PROVE  SidesInv'
BY SameBook, EndsRoom, SidesCalm DEF SidesInv

\* An order of the signal in hand uses up one of the places kept for it.
LEMMA SidesSent ==
  ASSUME SidesInv, platform' = platform, fills' = fills, NEW n, NEW o,
         orders' = With(n, o),
         Reserve(task', o.side) + 1 <= Reserve(task, o.side),
         NoNewRoom
  PROVE  SidesInv'
<1>1. OneMore(orders, orders')
  BY OneNew DEF SidesInv
<1>2. ASSUME NEW side \in Sides
      PROVE  Cardinality(CountedIn(orders', side, platform)) + Reserve(task', side) + fills
               <= Cardinality(CountedIn(orders, side, platform)) + Reserve(task, side) + fills'
  <2>1. /\ Cardinality(CountedIn(orders', side, platform)) \in Nat
        /\ Cardinality(CountedIn(orders, side, platform)) \in Nat
        /\ Reserve(task', side) \in Nat /\ Reserve(task, side) \in Nat /\ fills \in Nat
    BY <1>1, CountedIsFinite, ReserveIsSmall DEF SidesInv, OneMore
  <2>2. CASE side = o.side
    <3>1. Cardinality(CountedIn(orders', side, platform))
            <= Cardinality(CountedIn(orders, side, platform)) + 1
      BY <1>1 DEF OneMore
    <3>2. Reserve(task', side) + 1 <= Reserve(task, side)
      BY <2>2
    <3> QED
      BY <2>1, <3>1, <3>2
  <2>3. CASE side # o.side
    <3>1. ~Counts(o, side, platform)
      BY <2>3 DEF Counts
    <3>2. Cardinality(CountedIn(orders', side, platform))
            <= Cardinality(CountedIn(orders, side, platform))
      BY <3>1, OneNew DEF SidesInv
    <3>3. Reserve(task', side) <= Reserve(task, side)
      BY DEF NoNewRoom
    <3> QED
      BY <2>1, <3>2, <3>3
  <2> QED
    BY <2>2, <2>3
<1>3. IsFiniteSet(DOMAIN orders') /\ fills' \in Nat
  BY <1>1 DEF OneMore, SidesInv
<1> QED
  BY <1>2, <1>3, SidesKept

\* BeginSignal: the check leaves room for the two orders of a split signal on the side it
\* counted, and for nothing on the other one.
LEMMA BeginSignalSides == TerminalInv /\ SidesInv /\ BeginSignal => SidesInv'
<1> SUFFICES ASSUME TerminalInv, SidesInv, BeginSignal PROVE SidesInv'
  OBVIOUS
<1>1. /\ task # Idle /\ DOMAIN task = TaskFields /\ task.pc = "begin"
      /\ orders' = orders /\ platform' = platform /\ fills' = fills
  BY RunningCommand DEF TerminalInv, BeginSignal, Running, TaskOK, book, link
<1>2. CASE Ends
  BY <1>1, <1>2, SidesIdle
<1>3. ASSUME NEW calm \in BOOLEAN, CheckRisk(task.cmd.side, calm),
             NEW pc, task' = [task EXCEPT !.pc = pc]
      PROVE  SidesInv'
  <2>1. task'.cmd = task.cmd
    BY <1>1, <1>3 DEF TaskFields
  <2>2. ASSUME NEW side \in Sides
        PROVE  Cardinality(CountedIn(orders', side, platform)) + Reserve(task', side)
                 <= MaxSameDir + 1 + fills'
    <3> DEFINE count == Cardinality(CountedIn(orders, side, platform))
    <3>1. count \in Nat /\ Reserve(task', side) \in 0..2 /\ fills \in Nat /\ MaxSameDir \in Nat
      BY CountedIsFinite, ReserveIsSmall, TerminalAssumption DEF SidesInv, TerminalAssumption
    <3>2. CASE side = task.cmd.side
      <4>1. count < MaxSameDir
        BY <1>3, <3>2, SameSideIsCounted DEF CheckRisk
      <4> HIDE DEF count
      <4>2. count + Reserve(task', side) <= MaxSameDir + 1 + fills
        BY <3>1, <4>1
      <4> QED
        BY <1>1, <4>2 DEF count
    <3>3. CASE side # task.cmd.side
      <4>1. Reserve(task', side) = 0 /\ Reserve(task, side) = 0
        BY <2>1, <3>3 DEF Reserve
      <4> QED
        BY <1>1, <4>1 DEF SidesInv
    <3> QED
      BY <3>2, <3>3
  <2> QED
    BY <1>1, <2>2 DEF SidesInv
<1>4. \/ Ends
      \/ \E calm \in BOOLEAN : /\ CheckRisk(task.cmd.side, calm)
                               /\ \E pc : task' = [task EXCEPT !.pc = pc]
  BY DEF BeginSignal, Ends
<1> QED
  BY <1>2, <1>3, <1>4

\* SendMarket uses one of the two places.
LEMMA SendMarketSides == TerminalInv /\ SidesInv /\ SendMarket => SidesInv'
<1> SUFFICES ASSUME TerminalInv, SidesInv, SendMarket PROVE SidesInv'
  OBVIOUS
<1>1. /\ task # Idle /\ DOMAIN task = TaskFields /\ task.pc = "send"
      /\ platform' = platform /\ fills' = fills
  BY RunningCommand DEF TerminalInv, SendMarket, Running, TaskOK, link
<1>2. CASE Ends /\ orders' = orders
  BY <1>1, <1>2, SidesIdle
<1>3. ASSUME NEW lots, NEW full,
             orders' = With(nextTicket, NewOrder(task.cmd, "market", lots, 0, 0)),
             task' = [task EXCEPT !.pc = "protect", !.own = {nextTicket}, !.full = full]
      PROVE  SidesInv'
  <2> DEFINE o == NewOrder(task.cmd, "market", lots, 0, 0)
  <2>1. o.side = task.cmd.side
    BY DEF NewOrder
  <2>2. task'.pc = "protect" /\ task'.cmd = task.cmd
    BY <1>1, <1>3 DEF TaskFields
  <2>3. \A side : Reserve(task', side) = 0 /\ Reserve(task, side) \in 0..2
    BY <2>2, ReserveIsSmall DEF Reserve
  <2>4. Reserve(task, o.side) = 2
    BY <1>1, <2>1 DEF Reserve
  <2>5. NoNewRoom
    BY <2>3 DEF NoNewRoom
  <2>6. orders' = With(nextTicket, o)
    BY <1>3
  <2> HIDE DEF o
  <2>7. Reserve(task', o.side) + 1 <= Reserve(task, o.side)
    BY <2>3, <2>4
  <2> QED
    BY <1>1, <2>5, <2>6, <2>7, SidesSent
<1>4. \/ Ends /\ orders' = orders
      \/ \E lots, full :
           /\ orders' = With(nextTicket, NewOrder(task.cmd, "market", lots, 0, 0))
           /\ task' = [task EXCEPT !.pc = "protect", !.own = {nextTicket}, !.full = full]
  BY DEF SendMarket, Ends, book
<1> QED
  BY <1>2, <1>3, <1>4
\* An order whose levels or volume change is still the same kind.
LEMMA LevelsKeepKind ==
  ASSUME NEW o, IsOrder(o), NEW sl, NEW tp, NEW lots
  PROVE  /\ SameKind([o EXCEPT !.sl = sl, !.tp = tp], o)
         /\ SameKind([o EXCEPT !.lots = lots], o)
BY DEF IsOrder, SameKind

\* Attaching stops leaves every order of its kind.
LEMMA ProtectedNotMore ==
  ASSUME OrdersOK, IsFiniteSet(DOMAIN orders), NEW t \in DOMAIN orders, NEW c,
         orders' = [orders EXCEPT ![t] = Protected(@, c)]
  PROVE  NotMore(orders, orders')
<1>1. SameKind(Protected(orders[t], c), orders[t])
  BY LevelsKeepKind DEF OrdersOK, Protected
<1>2. \A u \in DOMAIN orders' : u \in DOMAIN orders /\ SameKind(orders'[u], orders[u])
  BY <1>1 DEF SameKind
<1> QED
  BY <1>2, Inherited

\* After the stops are set the signal keeps no room.
LEMMA OpenedRoom ==
  ASSUME TaskOK(task), task # Idle, NEW t, NEW c, Opened(t, c)
  PROVE  NoNewRoom
<1>1. \/ Ends \/ task' = Idle
      \/ task' = [task EXCEPT !.pc = "unify", !.own = {t}]
  BY DEF Opened, Ends
<1>2. ASSUME task' = [task EXCEPT !.pc = "unify", !.own = {t}] PROVE NoNewRoom
  <2>1. task'.pc = "unify"
    BY <1>2 DEF TaskOK, TaskFields
  <2>2. \A side : Reserve(task', side) = 0 /\ Reserve(task, side) \in 0..2
    BY <2>1, ReserveIsSmall DEF Reserve
  <2> QED
    BY <2>2 DEF NoNewRoom
<1> QED
  BY <1>1, <1>2, EndsRoom

\* Both programs attach stops to an order they have, and no more.
LEMMA ProtectSides == TerminalInv /\ SidesInv /\ (Protect5 \/ Protect4) => SidesInv'
<1> SUFFICES ASSUME TerminalInv, SidesInv, Protect5 \/ Protect4 PROVE SidesInv'
  OBVIOUS
<1> DEFINE found == Resolve(TheOwn, task.cmd)
<1>1. task # Idle /\ TaskOK(task) /\ platform' = platform /\ fills' = fills
  BY RunningCommand DEF TerminalInv, Protect5, Protect4, Running, link
<1>2. /\ Ends \/ \E t : Opened(t, task.cmd)
      /\ \/ orders' = orders
         \/ found # 0 /\ orders' = [orders EXCEPT ![found] = Protected(@, task.cmd)]
         \/ TheOwn \in DOMAIN orders /\ orders' = [orders EXCEPT ![TheOwn] = Protected(@, task.cmd)]
  <2>1. CASE Protect5
    BY <2>1 DEF Protect5, Ends
  <2>2. CASE Protect4
    BY <2>2 DEF Protect4, Ends
  <2> QED
    BY <2>1, <2>2
<1>3. found # 0 => found \in DOMAIN orders
  BY ResolvedIsOpen DEF Market
<1> HIDE DEF found
<1>4. NotMore(orders, orders')
  BY <1>2, <1>3, ProtectedNotMore, SameBook DEF TerminalInv, SidesInv
<1>5. NoNewRoom
  BY <1>1, <1>2, OpenedRoom, EndsRoom
<1> QED
  BY <1>1, <1>4, <1>5, SidesCalm

\* UnifyStops changes levels.
LEMMA UnifyStopsSides == TerminalInv /\ SidesInv /\ UnifyStops => SidesInv'
<1> SUFFICES ASSUME TerminalInv, SidesInv, UnifyStops PROVE SidesInv'
  OBVIOUS
<1>1. platform' = platform /\ fills' = fills /\ task' = Idle
  BY DEF UnifyStops, link
<1>2. \/ orders' = orders
      \/ \E moved, shared :
           orders' = [t \in DOMAIN orders |->
                        IF t \in moved
                        THEN [orders[t] EXCEPT !.sl = shared[t], !.tp = task.cmd.tp1]
                        ELSE orders[t]]
  <2> DEFINE c == task.cmd
             shared == [t \in Market |-> StopFor(c.side, orders[t].entry, c.unified)]
             moved == {t \in Market \ task.own :
                         /\ orders[t].sym = c.sym
                         /\ orders[t].magic = c.strategy
                         /\ orders[t].side = c.side
                         /\ Improves(orders[t], shared[t])}
  <2>1. \/ orders' = orders
        \/ orders' = [t \in DOMAIN orders |->
                        IF t \in moved
                        THEN [orders[t] EXCEPT !.sl = shared[t], !.tp = task.cmd.tp1]
                        ELSE orders[t]]
    BY DEF UnifyStops
  <2> HIDE DEF moved, shared
  <2> QED
    BY <2>1
<1>3. ASSUME NEW moved, NEW shared,
             orders' = [t \in DOMAIN orders |->
                          IF t \in moved
                          THEN [orders[t] EXCEPT !.sl = shared[t], !.tp = task.cmd.tp1]
                          ELSE orders[t]]
      PROVE  NotMore(orders, orders')
  <2>1. ASSUME NEW u \in DOMAIN orders PROVE SameKind(orders'[u], orders[u])
    <3>1. SameKind([orders[u] EXCEPT !.sl = shared[u], !.tp = task.cmd.tp1], orders[u])
      BY LevelsKeepKind DEF TerminalInv, OrdersOK
    <3>2. SameKind(orders[u], orders[u])
      BY DEF SameKind
    <3> QED
      BY <1>3, <3>1, <3>2
  <2> QED
    BY <1>3, <2>1, Inherited DEF SidesInv
<1>4. NotMore(orders, orders')
  BY <1>2, <1>3, SameBook DEF SidesInv
<1> QED
  BY <1>1, <1>4, EndsRoom, SidesCalm

\* What a leg leaves at the broker is on the side of its signal.
LEMMA LegSide ==
  ASSUME NEW c, NEW lots, NEW tp, NEW leg \in Legs(c, lots, tp), leg.order # NoOrder
  PROVE  leg.order.side = c.side
<1> DEFINE bare == NewOrder(c, "market", lots, 0, 0)
<1>1. leg \in Legs5(c, lots, tp) \cup Legs4(c, lots, tp)
  BY DEF Legs
<1>2. CASE leg \in Legs5(c, lots, tp)
  BY <1>2 DEF Legs5, NewOrder
<1>3. CASE leg \in Legs4(c, lots, tp)
  <2>1. \/ leg.order = bare
        \/ leg.order = [bare EXCEPT !.sl = StopFor(c.side, OpenPrice, c.sl),
                                    !.tp = TargetFor(c.side, OpenPrice, tp)]
    BY <1>3 DEF Legs4
  <2>2. bare.side = c.side /\ "side" \in DOMAIN bare
    BY DEF NewOrder
  <2> HIDE DEF bare
  <2> QED
    BY <2>1, <2>2
<1> QED
  BY <1>1, <1>2, <1>3

\* Each leg uses up one place, whether or not it reaches the broker.
LEMMA OpenLegsSides ==
  TerminalInv /\ SidesInv /\ (OpenNearLeg \/ OpenFarLeg \/ OpenSingleLeg) => SidesInv'
<1> SUFFICES ASSUME TerminalInv, SidesInv, OpenNearLeg \/ OpenFarLeg \/ OpenSingleLeg
             PROVE  SidesInv'
  OBVIOUS
<1>1. /\ task # Idle /\ DOMAIN task = TaskFields /\ task.pc \in {"near", "far", "single"}
      /\ platform' = platform /\ fills' = fills
  BY RunningCommand DEF TerminalInv, OpenNearLeg, OpenFarLeg, OpenSingleLeg, Running, TaskOK, link
<1>2. \E lots, tp : \E leg \in Legs(task.cmd, lots, tp) : Placed(leg)
  BY DEF OpenNearLeg, OpenFarLeg, OpenSingleLeg
<1>3. PICK lots, tp : \E leg \in Legs(task.cmd, lots, tp) : Placed(leg)
  BY <1>2
<1>4. PICK leg \in Legs(task.cmd, lots, tp) : Placed(leg)
  BY <1>3
<1>5. \/ Ends
      \/ task.pc = "near" /\ \E own : task' = [task EXCEPT !.pc = "far", !.own = own]
  BY DEF OpenNearLeg, OpenFarLeg, OpenSingleLeg, Running, Ends
<1>6. \A side : Reserve(task', side) <= Reserve(task, side)
      /\ (side = task.cmd.side => Reserve(task', side) + 1 <= Reserve(task, side))
  <2>1. CASE Ends
    <3>1. task' = Idle
      BY <2>1 DEF Ends, Finish
    <3>2. \A side : Reserve(task', side) = 0 /\ Reserve(task, side) \in 0..2
      BY <3>1, ReserveIsSmall
    <3>3. Reserve(task, task.cmd.side) \in 1..2
      BY <1>1 DEF Reserve
    <3> QED
      BY <3>2, <3>3
  <2>2. CASE task.pc = "near" /\ \E own : task' = [task EXCEPT !.pc = "far", !.own = own]
    <3>1. task'.pc = "far" /\ task'.cmd = task.cmd
      BY <1>1, <2>2 DEF TaskFields
    <3>2. task' # Idle
      <4>1. Idle.pc = "idle"
        BY DEF Idle
      <4> QED
        BY <3>1, <4>1
    <3> QED
      BY <1>1, <2>2, <3>1, <3>2 DEF Reserve
  <2> QED
    BY <1>5, <2>1, <2>2
<1>7. NoNewRoom
  BY <1>6 DEF NoNewRoom
<1>8. CASE leg.order = NoOrder
  <2>1. orders' = orders
    BY <1>4, <1>8 DEF Placed
  <2> QED
    BY <1>1, <1>7, <2>1, SameBook, SidesCalm DEF SidesInv
<1>9. CASE leg.order # NoOrder
  <2>1. orders' = With(nextTicket, leg.order) /\ leg.order.side = task.cmd.side
    BY <1>4, <1>9, LegSide DEF Placed
  <2>2. Reserve(task', leg.order.side) + 1 <= Reserve(task, leg.order.side)
    BY <1>6, <2>1
  <2> QED
    BY <1>1, <1>7, <2>1, <2>2, SidesSent
<1> QED
  BY <1>8, <1>9

\* Pending orders do not count until they fill.
LEMMA PendingDoesNotCount ==
  ASSUME NEW c, NEW lots, NEW tp, NEW o \in PendingOrders(c, lots, tp)
  PROVE  o.class = "pending" /\ \A side : ~Counts(o, side, platform)
<1>1. \E sl, level : o = NewOrder(c, "pending", lots, sl, level)
  BY DEF PendingOrders, PendingOrder5, PendingOrder4
<1>2. o.class = "pending"
  BY <1>1 DEF NewOrder
<1> QED
  BY <1>2 DEF Counts

\* ExecutePending adds orders that do not count.
LEMMA ExecutePendingSides == TerminalInv /\ SidesInv /\ ExecutePending => SidesInv'
<1> SUFFICES ASSUME TerminalInv, SidesInv, ExecutePending PROVE SidesInv'
  OBVIOUS
<1> DEFINE c == task.cmd
           near == PendingOrders(c, Split(Volume(c)).near, c.tp1)
           far == PendingOrders(c, Split(Volume(c)).far, c.tp2)
           only == PendingOrders(c, Volume(c), IF c.split THEN c.tp2 ELSE c.tp1)
<1>1. platform' = platform /\ fills' = fills /\ Ends
  BY DEF ExecutePending, PlacePendingSplit, PlacePendingSingle, Ends, link
<1>2. \A a \in near \cup far \cup only : a.class = "pending" /\ \A side : ~Counts(a, side, platform)
  BY PendingDoesNotCount
<1>3. \/ orders' = orders
      \/ \E a \in near, b \in far :
           orders' = [t \in DOMAIN orders \cup {nextTicket, nextTicket + 1} |->
                        IF t = nextTicket THEN a
                        ELSE IF t = nextTicket + 1 THEN b ELSE orders[t]]
      \/ \E a \in near \cup far \cup only : orders' = With(nextTicket, a)
  BY DEF ExecutePending, PlacePendingSplit, PlacePendingSingle, book
<1> HIDE DEF near, far, only
<1>4. NotMore(orders, orders')
  <2>1. CASE orders' = orders
    BY <2>1, SameBook DEF SidesInv
  <2>2. CASE \E a \in near, b \in far :
               orders' = [t \in DOMAIN orders \cup {nextTicket, nextTicket + 1} |->
                            IF t = nextTicket THEN a
                            ELSE IF t = nextTicket + 1 THEN b ELSE orders[t]]
    <3>1. PICK a \in near, b \in far :
             orders' = [t \in DOMAIN orders \cup {nextTicket, nextTicket + 1} |->
                          IF t = nextTicket THEN a
                          ELSE IF t = nextTicket + 1 THEN b ELSE orders[t]]
      BY <2>2
    <3>2. a.class = "pending" /\ b.class = "pending"
      BY <1>2
    <3>3. NotMore(orders, [t \in DOMAIN orders \cup {nextTicket, nextTicket + 1} |->
                             IF t = nextTicket THEN a
                             ELSE IF t = nextTicket + 1 THEN b ELSE orders[t]])
      BY <3>2, TwoPending DEF SidesInv
    <3> QED
      BY <3>1, <3>3
  <2>3. CASE \E a \in near \cup far \cup only : orders' = With(nextTicket, a)
    BY <1>2, <2>3, OneNew DEF SidesInv
  <2> QED
    BY <1>3, <2>1, <2>2, <2>3
<1> QED
  BY <1>1, <1>4, EndsRoom, SidesCalm

\* Orders that leave the book make no room and need none.
LEMMA WithoutNotMore ==
  ASSUME IsFiniteSet(DOMAIN orders), NEW gone, orders' = Without(gone)
  PROVE  NotMore(orders, orders')
<1>1. \A t \in DOMAIN orders' : t \in DOMAIN orders /\ SameKind(orders'[t], orders[t])
  BY DEF Without, SameKind
<1> QED
  BY <1>1, Inherited
\* The other commands leave no position more.
LEMMA CancelOrModifySides ==
  TerminalInv /\ SidesInv /\ (ExecuteCancelPending \/ ExecuteModify) => SidesInv'
<1> SUFFICES ASSUME TerminalInv, SidesInv, ExecuteCancelPending \/ ExecuteModify PROVE SidesInv'
  OBVIOUS
<1>1. platform' = platform /\ fills' = fills /\ Ends
  BY DEF ExecuteCancelPending, ExecuteModify, Ends, link
<1>2. \/ orders' = orders
      \/ \E gone : orders' = Without(gone)
      \/ /\ NotMine(task.cmd.ticket) = "none"
         /\ orders' = [orders EXCEPT ![task.cmd.ticket].sl = task.cmd.sl,
                                     ![task.cmd.ticket].tp = task.cmd.tp1]
  BY DEF ExecuteCancelPending, ExecuteModify
<1>3. ASSUME NEW t, NotMine(t) = "none", NEW sl, NEW tp,
             orders' = [orders EXCEPT ![t].sl = sl, ![t].tp = tp]
      PROVE  NotMore(orders, orders')
  <2>1. t \in DOMAIN orders
    BY <1>3, MineIsOpen
  <2>2. orders' = [orders EXCEPT ![t] = [orders[t] EXCEPT !.sl = sl, !.tp = tp]]
    BY <1>3, <2>1
  <2>3. SameKind([orders[t] EXCEPT !.sl = sl, !.tp = tp], orders[t])
    BY <2>1, LevelsKeepKind DEF TerminalInv, OrdersOK
  <2>4. \A u \in DOMAIN orders' : u \in DOMAIN orders /\ SameKind(orders'[u], orders[u])
    BY <2>2, <2>3 DEF SameKind
  <2> QED
    BY <2>4, Inherited DEF SidesInv
<1>4. NotMore(orders, orders')
  BY <1>2, <1>3, SameBook, WithoutNotMore DEF SidesInv
<1> QED
  BY <1>1, <1>4, EndsRoom, SidesCalm

\* A close leaves no position more, also when the rest gets a ticket of its own.
LEMMA ExecuteCloseSides == TerminalInv /\ SidesInv /\ ExecuteClose => SidesInv'
<1> SUFFICES ASSUME TerminalInv, SidesInv, ExecuteClose PROVE SidesInv'
  OBVIOUS
<1>1. platform' = platform /\ fills' = fills /\ Ends
  BY DEF ExecuteClose, Ends, link
<1>2. \/ orders' = orders
      \/ NotMine(task.cmd.ticket) = "none" /\ \E lots : Reduce(task.cmd.ticket, lots)
  BY DEF ExecuteClose, book
<1>3. NotMore(orders, orders')
  BY <1>2, MineIsOpen, SameBook, ReduceNotMore DEF TerminalInv, SidesInv
<1> QED
  BY <1>1, <1>3, EndsRoom, SidesCalm

\* A leg of the spread trade is on a symbol that is not counted.
LEMMA ExecuteOpenSides == TerminalInv /\ SidesInv /\ ExecuteOpen => SidesInv'
<1> SUFFICES ASSUME TerminalInv, SidesInv, ExecuteOpen PROVE SidesInv'
  OBVIOUS
<1> DEFINE c == task.cmd
           new == NewOrder(c, "market", NormalizeVolume(c.lots), 0, 0)
           order == [new EXCEPT !.magic = "spread"]
<1>1. platform' = platform /\ fills' = fills /\ Ends
  BY DEF ExecuteOpen, Ends, link
<1>2. \/ orders' = orders
      \/ /\ SpreadRefusal(c) = "none"
         /\ orders' = With(nextTicket, order)
      \/ /\ SpreadRefusal(c) = "none"
         /\ orders' = With(nextTicket, [order EXCEPT !.lots = MinLots])
  BY DEF ExecuteOpen, book
<1>3. /\ order.sym = c.sym /\ [order EXCEPT !.lots = MinLots].sym = c.sym
  BY DEF NewOrder
<1> HIDE DEF order
<1>4. SpreadRefusal(c) = "none" => c.sym \notin TradedSymbols
  BY SituationAssumption DEF SituationAssumption, SpreadRefusal
<1>5. SpreadRefusal(c) = "none" =>
        \A side : /\ ~Counts(order, side, platform)
                  /\ ~Counts([order EXCEPT !.lots = MinLots], side, platform)
  BY <1>3, <1>4 DEF Counts
<1>6. NotMore(orders, orders')
  BY <1>2, <1>5, OneNew, SameBook DEF SidesInv
<1> QED
  BY <1>1, <1>6, EndsRoom, SidesCalm

\* The walk over the legs of the spread trade closes positions and keeps no room.
LEMMA SpreadClosesSides ==
  TerminalInv /\ SidesInv
    /\ (BeginClosePartial \/ ClosePartialStep \/ EndClosePartial \/ ExecuteCloseAll) => SidesInv'
<1> SUFFICES ASSUME TerminalInv, SidesInv,
                    BeginClosePartial \/ ClosePartialStep \/ EndClosePartial \/ ExecuteCloseAll
             PROVE  SidesInv'
  OBVIOUS
<1> DEFINE t == Newest(task.todo)
<1>1. /\ platform' = platform /\ fills' = fills
      /\ task # Idle /\ DOMAIN task = TaskFields
  BY RunningCommand DEF TerminalInv, TaskOK, BeginClosePartial, ClosePartialStep,
     EndClosePartial, ExecuteCloseAll, Running, link
<1>2. \/ Ends
      \/ \E todo, left : task' = [task EXCEPT !.pc = "closing", !.todo = todo, !.left = left]
      \/ /\ task.pc = "closing"
         /\ \/ \E todo : task' = [task EXCEPT !.todo = todo]
            \/ \E todo, more, left :
                 task' = [task EXCEPT !.todo = todo, !.closed = @ + more, !.left = left]
  <2>1. CASE BeginClosePartial
    BY <2>1 DEF BeginClosePartial, Ends
  <2>2. CASE ClosePartialStep
    <3> DEFINE rest == task.todo \ {t}
               lots == IF t \in Market
                       THEN NormalizeCloseVolume(Smaller(task.left, orders[t].lots)) ELSE 0
               left == StillToClose(task.left, lots)
    <3>1. task.pc = "closing"
      BY <2>2 DEF ClosePartialStep, Running
    <3>2. \/ Ends
          \/ task' = [task EXCEPT !.todo = rest]
          \/ task' = [task EXCEPT !.todo = rest, !.closed = @ + lots, !.left = left]
      BY <2>2 DEF ClosePartialStep, Ends
    <3> HIDE DEF rest, lots, left
    <3> QED
      BY <3>1, <3>2
  <2>3. CASE EndClosePartial \/ ExecuteCloseAll
    BY <2>3 DEF EndClosePartial, ExecuteCloseAll, Ends
  <2> QED
    BY <2>1, <2>2, <2>3
<1>3. \/ orders' = orders
      \/ \E gone : orders' = Without(gone)
      \/ t \in DOMAIN orders /\ \E lots : Reduce(t, lots)
  <2>1. CASE ClosePartialStep
    <3> DEFINE lots == IF t \in Market
                       THEN NormalizeCloseVolume(Smaller(task.left, orders[t].lots)) ELSE 0
    <3>1. lots > 0 => t \in DOMAIN orders
      BY DEF Market
    <3>2. \/ orders' = orders
          \/ lots > 0 /\ Reduce(t, lots)
          \/ lots > MinLots /\ Reduce(t, MinLots)
      BY <2>1 DEF ClosePartialStep, book
    <3>3. lots > MinLots => t \in DOMAIN orders
      <4>1. 0 <= MinLots /\ ~(0 > MinLots)
        BY LimitsAreWhole
      <4> QED
        BY <4>1 DEF Market
    <3> HIDE DEF lots
    <3> QED
      BY <3>1, <3>2, <3>3
  <2>2. CASE BeginClosePartial \/ EndClosePartial
    BY <2>2 DEF BeginClosePartial, EndClosePartial, book
  <2>3. CASE ExecuteCloseAll
    BY <2>3 DEF ExecuteCloseAll
  <2> QED
    BY <2>1, <2>2, <2>3
<1> HIDE DEF t
<1>4. NotMore(orders, orders')
  BY <1>3, SameBook, WithoutNotMore, ReduceNotMore DEF TerminalInv, SidesInv
<1>5. NoNewRoom
  <2>1. CASE Ends
    BY <2>1, EndsRoom
  <2>2. CASE ~Ends
    <3>1. task'.pc = "closing"
      BY <1>1, <1>2, <2>2 DEF TaskFields
    <3>2. \A side : Reserve(task', side) = 0 /\ Reserve(task, side) \in 0..2
      BY <3>1, ReserveIsSmall DEF Reserve
    <3> QED
      BY <3>2 DEF NoNewRoom
  <2> QED
    BY <2>1, <2>2
<1> QED
  BY <1>1, <1>4, <1>5, SidesCalm

\* A new command has no room yet, and the loop leaves the book.
LEMMA LoopingSides == TerminalInv /\ SidesInv /\ (Looping \/ SkipUnknown) => SidesInv'
<1> SUFFICES ASSUME TerminalInv, SidesInv, Looping \/ SkipUnknown PROVE SidesInv'
  OBVIOUS
<1>1. platform' = platform /\ fills' = fills /\ orders' = orders
  BY DEF Looping, OnInit, OnTickRegister, SendFirstReport, PollAndExecute, TakeCommand,
         SkipUnknown, book, link
<1>2. \/ task' = task \/ task' = Idle
      \/ \E c \in Commands :
           task' = [pc |-> "begin", cmd |-> c, own |-> {}, full |-> TRUE,
                    todo |-> {}, left |-> 0, closed |-> 0]
  BY DEF Looping, OnInit, OnTickRegister, SendFirstReport, PollAndExecute, TakeCommand, SkipUnknown
<1>3. NoNewRoom
  <2>1. CASE task' = task \/ task' = Idle
    BY <2>1, EndsRoom
  <2>2. CASE task'.pc = "begin"
    <3>1. \A side : Reserve(task', side) = 0 /\ Reserve(task, side) \in 0..2
      BY <2>2, ReserveIsSmall DEF Reserve
    <3> QED
      BY <3>1 DEF NoNewRoom
  <2> QED
    BY <1>2, <2>1, <2>2
<1> QED
  BY <1>1, <1>3, SameBook, SidesCalm DEF SidesInv

\* A fill is counted, a close and a restart only free places.
LEMMA OutsideSides ==
  TerminalInv /\ SidesInv /\ (BrokerCloses \/ PendingFills \/ TerminalRestart) => SidesInv'
<1> SUFFICES ASSUME TerminalInv, SidesInv, BrokerCloses \/ PendingFills \/ TerminalRestart
             PROVE  SidesInv'
  OBVIOUS
<1>1. CASE BrokerCloses
  <2>1. /\ platform' = platform /\ fills' = fills /\ task' = task
        /\ \E gone : orders' = Without(gone)
    BY <1>1 DEF BrokerCloses, link
  <2> QED
    BY <2>1, WithoutNotMore, EndsRoom, SidesCalm DEF SidesInv
<1>2. CASE PendingFills
  <2>1. platform' = platform /\ fills' = fills + 1 /\ task' = task
    BY <1>2 DEF PendingFills, link
  <2>2. PICK t \in Pending : orders' = [orders EXCEPT ![t].class = "market"]
    BY <1>2 DEF PendingFills
  <2>3. OneMore(orders, orders')
    BY <2>2, OneFilled DEF SidesInv, Pending
  <2>4. ASSUME NEW side \in Sides
        PROVE  Cardinality(CountedIn(orders', side, platform)) + Reserve(task', side) + fills
                 <= Cardinality(CountedIn(orders, side, platform)) + Reserve(task, side) + fills'
    <3>1. /\ Cardinality(CountedIn(orders', side, platform)) \in Nat
          /\ Cardinality(CountedIn(orders, side, platform)) \in Nat
          /\ Reserve(task, side) \in Nat /\ fills \in Nat
      BY <2>3, CountedIsFinite, ReserveIsSmall DEF SidesInv, OneMore
    <3>2. Cardinality(CountedIn(orders', side, platform))
            <= Cardinality(CountedIn(orders, side, platform)) + 1
      BY <2>3 DEF OneMore
    <3>3. Reserve(task', side) = Reserve(task, side)
      BY <2>1
    <3> QED
      BY <2>1, <3>1, <3>2, <3>3
  <2>5. IsFiniteSet(DOMAIN orders') /\ fills' \in Nat
    BY <2>1, <2>3 DEF OneMore, SidesInv
  <2> QED
    BY <2>1, <2>4, <2>5, SidesKept
<1>3. CASE TerminalRestart
  <2>1. platform' = platform /\ fills' = fills /\ task' = Idle /\ orders' = orders
    BY <1>3 DEF TerminalRestart, book
  <2> QED
    BY <2>1, SidesIdle
<1> QED
  BY <1>1, <1>2, <1>3

\* A terminal may start with as many positions as the limit and a split signal allow.
LEMMA SidesAtStart == Init => SidesInv
<1> SUFFICES ASSUME Init PROVE SidesInv
  OBVIOUS
<1>1. orders \in Books /\ task = Idle /\ fills = 0 /\ platform \in {"MT4", "MT5"}
  BY DEF Init
<1>2. IsFiniteSet(DOMAIN orders) /\ MaxSameDir \in Nat
  BY <1>1, TerminalAssumption DEF TerminalAssumption
<1>3. ASSUME NEW side \in Sides
      PROVE  Cardinality(CountedIn(orders, side, platform)) + Reserve(task, side)
               <= MaxSameDir + 1 + fills
  <2> DEFINE all == {t \in DOMAIN orders : /\ orders[t].class = "market" /\ orders[t].side = side
                                           /\ orders[t].sym \in TradedSymbols
                                           /\ orders[t].magic \in Strategies \cup {"spread"}}
             some == CountedIn(orders, side, platform)
  <2>1. Cardinality(all) <= MaxSameDir + 1
    BY <1>1, SituationAssumption DEF SituationAssumption, Sides
  <2>2. some \subseteq all
    BY DEF CountedIn, Counts, Ours5, Ours4
  <2>3. IsFiniteSet(all)
    BY <1>2, FS_Subset
  <2> HIDE DEF all, some
  <2>4. Cardinality(some) <= Cardinality(all) /\ IsFiniteSet(some)
    BY <2>2, <2>3, FS_Subset
  <2>5. Cardinality(some) \in Nat /\ Cardinality(all) \in Nat
    BY <2>3, <2>4, FS_CardinalityType
  <2>6. Reserve(task, side) = 0
    BY <1>1, ReserveIsSmall
  <2>7. Cardinality(some) + Reserve(task, side) <= MaxSameDir + 1 + fills
    BY <1>1, <1>2, <2>1, <2>4, <2>5, <2>6
  <2> QED
    BY <2>7 DEF some
<1> QED
  BY <1>1, <1>2, <1>3 DEF SidesInv

\* The limit of a side, for every limit, symbol list and book: a signal that was let through
\* may add two orders to a side just under the limit, every filled pending order may add
\* one, and nothing else takes a side over it, whatever the broker refuses, fills in part or
\* closes, and however often the terminal is restarted.
THEOREM SideIsBounded == Spec => []SameSideBounded
<1>1. TerminalInv /\ SidesInv /\ [Next]_vars => SidesInv'
  <2> SUFFICES ASSUME TerminalInv, SidesInv, [Next]_vars PROVE SidesInv'
    OBVIOUS
  <2>1. CASE Executing
    BY <2>1, BeginSignalSides, SendMarketSides, ProtectSides, UnifyStopsSides, OpenLegsSides,
       ExecutePendingSides, CancelOrModifySides, ExecuteCloseSides, ExecuteOpenSides,
       SpreadClosesSides, LoopingSides DEF Executing
  <2>2. CASE Looping
    BY <2>2, LoopingSides
  <2>3. CASE BrokerCloses \/ PendingFills \/ TerminalRestart
    BY <2>3, OutsideSides
  <2>4. CASE UNCHANGED vars
    BY <2>4, SidesIdle DEF vars
  <2> QED
    BY <2>1, <2>2, <2>3, <2>4 DEF Next
<1>2. SidesInv => SameSideBounded
  <2> SUFFICES ASSUME SidesInv, NEW side \in Sides
               PROVE  Cardinality(SameSide(side)) <= MaxSameDir + 1 + fills
    BY DEF SameSideBounded, Sides
  <2> DEFINE count == Cardinality(CountedIn(orders, side, platform))
  <2>1. count \in Nat /\ Reserve(task, side) \in 0..2 /\ fills \in Nat /\ MaxSameDir \in Nat
    BY CountedIsFinite, ReserveIsSmall, TerminalAssumption DEF SidesInv, TerminalAssumption
  <2>2. count + Reserve(task, side) <= MaxSameDir + 1 + fills
    BY DEF SidesInv
  <2>3. Cardinality(SameSide(side)) = count
    BY SameSideIsCounted
  <2> HIDE DEF count
  <2> QED
    BY <2>1, <2>2, <2>3
<1> QED
  BY <1>1, <1>2, SidesAtStart, TerminalInvariant, PTL DEF Spec

-----------------------------------------------------------------------------
(* Positions without stop or target, step by step. *)

\* An order with both levels, or not of a strategy, away from zero.
Secure(o) == o.entry > MinStop /\ ~Naked(o)

\* The same owner, place and levels.
KeepsLevels(a, b) ==
  /\ a.magic = b.magic /\ a.entry = b.entry
  /\ a.sl = b.sl /\ a.tp = b.tp

\* What the levels of a command are: none of them is missing.
LEMMA CommandLevels ==
  ASSUME NEW c \in Commands
  PROVE  /\ c.action \in {"SIGNAL", "PENDING", "MODIFY"} => c.sl # 0 /\ c.tp1 # 0
         /\ c.action \in {"SIGNAL", "PENDING"} /\ c.split => c.tp2 # 0
         /\ c.action = "PENDING" => c.entry > MinStop
         /\ c.entry \in Int /\ c.sl \in Int /\ c.tp1 \in Int /\ c.tp2 \in Int /\ c.unified \in Int
BY SituationAssumption, CommandNumbers DEF SituationAssumption

\* Far from zero, a level that is moved to the least distance is still a level.
LEMMA LevelsStay ==
  ASSUME NEW side, NEW price \in Int, price > MinStop, NEW level \in Int, level # 0
  PROVE  StopFor(side, price, level) # 0 /\ TargetFor(side, price, level) # 0
<1>1. MinStop \in Nat
  BY TerminalAssumption DEF TerminalAssumption
<1>2. price - MinStop # 0 /\ price + MinStop # 0
  BY <1>1
<1> QED
  BY <1>2 DEF StopFor, TargetFor

\* A result leaves nothing that was accounted for.
LEMMA EndsAccounts == Ends => task' = Idle /\ accounted \subseteq accounted'
BY DEF Ends, Finish, Report

\* Without a command nothing is being protected.
LEMMA IdleSignal == SignalOK(Idle) /\ Protecting(Idle) = {}
BY DEF SignalOK, Protecting

\* A command in an early or a late step promises nothing yet.
LEMMA PlainSignal ==
  ASSUME task' = Idle \/ task'.pc \in {"begin", "send", "closing"}
  PROVE  SignalOK(task)' /\ Protecting(task') = {}
BY DEF SignalOK, Protecting

\* What a step other than one of the protection must do for the positions: each order
\* after it is an old one with its levels, or secure.
LEMMA StopsKept ==
  ASSUME StopsInv, platform = "MT5", accounted \subseteq accounted',
         Protecting(task) = {}, SignalOK(task)',
         \A t \in DOMAIN orders' :
           \/ t \in DOMAIN orders /\ KeepsLevels(orders'[t], orders[t])
           \/ Secure(orders'[t])
  PROVE  StopsInv'
<1>1. ASSUME NEW t \in DOMAIN orders'
      PROVE  /\ orders'[t].entry > MinStop
             /\ Naked(orders'[t]) => t \in accounted'
  <2>1. CASE t \in DOMAIN orders /\ KeepsLevels(orders'[t], orders[t])
    <3>1. /\ orders[t].entry > MinStop
          /\ Naked(orders[t]) => t \in accounted
      BY <2>1 DEF StopsInv
    <3>2. Naked(orders'[t]) => Naked(orders[t])
      BY <2>1 DEF KeepsLevels, Naked
    <3> QED
      BY <2>1, <3>1, <3>2 DEF KeepsLevels
  <2>2. CASE Secure(orders'[t])
    BY <2>2 DEF Secure
  <2> QED
    BY <2>1, <2>2
<1> QED
  BY <1>1 DEF StopsInv, Naked

\* A book that only loses orders keeps the levels of the others.
Loses == \A t \in DOMAIN orders' : t \in DOMAIN orders /\ KeepsLevels(orders'[t], orders[t])

\* Leaving the book and taking orders out of it lose orders only.
LEMMA LosesOrders ==
  /\ orders' = orders => Loses
  /\ \A gone : orders' = Without(gone) => Loses
BY DEF Loses, Without, KeepsLevels

\* On MT5 the rest of a closed order keeps its ticket and its levels.
LEMMA ReduceLoses ==
  ASSUME OrdersOK, platform = "MT5", NEW t \in DOMAIN orders, NEW lots, Reduce(t, lots)
  PROVE  Loses
<1> DEFINE rest == [orders[t] EXCEPT !.lots = @ - lots]
<1>1. KeepsLevels(rest, orders[t])
  BY DEF OrdersOK, IsOrder, KeepsLevels
<1> HIDE DEF rest
<1>2. orders' = Without({t}) \/ orders' = [orders EXCEPT ![t] = rest]
  BY DEF Reduce, rest
<1>3. CASE orders' = [orders EXCEPT ![t] = rest]
  BY <1>1, <1>3 DEF Loses, KeepsLevels
<1> QED
  BY <1>2, <1>3, LosesOrders

\* A step that takes orders out and ends the command.
LEMMA StopsLose ==
  ASSUME StopsInv, platform = "MT5", Loses, accounted \subseteq accounted',
         Protecting(task) = {}, SignalOK(task)'
  PROVE  StopsInv'
BY StopsKept DEF Loses

\* A new order with levels, under a ticket of its own.
LEMMA StopsAdd ==
  ASSUME StopsInv, platform = "MT5", accounted \subseteq accounted',
         Protecting(task) = {}, SignalOK(task)',
         NEW n, NEW o, Secure(o), orders' = With(n, o)
  PROVE  StopsInv'
<1>1. ASSUME NEW t \in DOMAIN orders'
      PROVE  \/ t \in DOMAIN orders /\ KeepsLevels(orders'[t], orders[t])
             \/ Secure(orders'[t])
  BY DEF With, KeepsLevels
<1> QED
  BY <1>1, StopsKept

\* A command of whatever step but one protects nothing.
LEMMA OtherSteps ==
  ASSUME NEW pc, pc # "protect", task.pc = pc
  PROVE  Protecting(task) = {}
BY DEF Protecting

\* BeginSignal keeps in mind that the server asked for two orders.
LEMMA BeginSignalStops == TerminalInv /\ StopsInv /\ BeginSignal => StopsInv'
<1> SUFFICES ASSUME TerminalInv, StopsInv, BeginSignal, platform = "MT5" PROVE StopsInv'
  BY DEF StopsInv, BeginSignal, link
<1>1. /\ task # Idle /\ DOMAIN task = TaskFields /\ Protecting(task) = {} /\ Loses
  BY RunningCommand, OtherSteps, LosesOrders
     DEF TerminalInv, BeginSignal, Running, TaskOK, book
<1>2. \/ Ends
      \/ /\ accounted' = accounted
         /\ \E pc : /\ task' = [task EXCEPT !.pc = pc]
                    /\ pc = "send" \/ (pc \in {"single", "near"} /\ task.cmd.split)
  <2> DEFINE next == IF ~task.cmd.split THEN "send"
                     ELSE IF Split(Volume(task.cmd)) = NoSplit THEN "single" ELSE "near"
  <2>1. Ends \/ (accounted' = accounted /\ task' = [task EXCEPT !.pc = next])
    BY DEF BeginSignal, Ends
  <2>2. next = "send" \/ (next \in {"single", "near"} /\ task.cmd.split)
    OBVIOUS
  <2> HIDE DEF next
  <2> QED
    BY <2>1, <2>2
<1>3. SignalOK(task)' /\ accounted \subseteq accounted'
  <2>1. CASE Ends
    BY <2>1, EndsAccounts, PlainSignal
  <2>2. ASSUME NEW pc, task' = [task EXCEPT !.pc = pc],
               pc = "send" \/ (pc \in {"single", "near"} /\ task.cmd.split)
        PROVE  SignalOK(task)'
    <3>1. task'.pc = pc /\ task'.cmd = task.cmd
      BY <1>1, <2>2 DEF TaskFields
    <3> QED
      BY <2>2, <3>1 DEF SignalOK
  <2> QED
    BY <1>2, <2>1, <2>2
<1> QED
  BY <1>1, <1>3, StopsLose

\* SendMarket leaves a position without stops, which it is about to protect.
LEMMA SendMarketStops == TerminalInv /\ StopsInv /\ SendMarket => StopsInv'
<1> SUFFICES ASSUME TerminalInv, StopsInv, SendMarket, platform = "MT5" PROVE StopsInv'
  BY DEF StopsInv, SendMarket, link
<1>1. task # Idle /\ DOMAIN task = TaskFields /\ Protecting(task) = {}
  BY RunningCommand, OtherSteps DEF TerminalInv, SendMarket, Running, TaskOK
<1>2. CASE Ends /\ orders' = orders
  BY <1>1, <1>2, EndsAccounts, PlainSignal, LosesOrders, StopsLose
<1>3. ASSUME NEW lots, NEW full, accounted' = accounted,
             orders' = With(nextTicket, NewOrder(task.cmd, "market", lots, 0, 0)),
             task' = [task EXCEPT !.pc = "protect", !.own = {nextTicket}, !.full = full]
      PROVE  StopsInv'
  <2> PICK n : n = nextTicket
    OBVIOUS
  <2> DEFINE o == NewOrder(task.cmd, "market", lots, 0, 0)
  <2>1. /\ o.entry = OpenPrice /\ o.class = "market" /\ o.sym = task.cmd.sym
        /\ o.magic = task.cmd.strategy /\ o.side = task.cmd.side
    BY DEF NewOrder
  <2>2. /\ n \in DOMAIN orders' /\ orders'[n] = o
        /\ \A t \in DOMAIN orders' : t # n => t \in DOMAIN orders /\ orders'[t] = orders[t]
    BY <1>3 DEF With
  <2>3. task'.pc = "protect" /\ task'.own = {n} /\ task'.cmd = task.cmd
    BY <1>1, <1>3 DEF TaskFields
  <2>4. task' # Idle
    <3>1. Idle.pc = "idle"
      BY DEF Idle
    <3> QED
      BY <2>3, <3>1
  <2> HIDE DEF o
  <2>5. Fits(n, task.cmd)'
    BY <2>1, <2>2, <2>3 DEF Fits, Market
  <2>6. SignalOK(task)'
    BY <2>3, <2>5 DEF SignalOK
  <2>7. Protecting(task)' = {n}
    BY <2>3, <2>4 DEF Protecting
  <2>8. OpenPrice > MinStop
    BY SituationAssumption DEF SituationAssumption
  <2>9. ASSUME NEW t \in DOMAIN orders'
        PROVE  /\ orders'[t].entry > MinStop
               /\ Naked(orders[t])' => t \in accounted' \cup {n}
    <3>1. CASE t = n
      BY <2>1, <2>2, <2>8, <3>1
    <3>2. CASE t # n
      BY <1>1, <1>3, <2>2, <3>2 DEF StopsInv, Naked
    <3> QED
      BY <3>1, <3>2
  <2> QED
    BY <2>6, <2>7, <2>9 DEF StopsInv
<1>4. \/ Ends /\ orders' = orders
      \/ \E lots, full :
           /\ accounted' = accounted
           /\ orders' = With(nextTicket, NewOrder(task.cmd, "market", lots, 0, 0))
           /\ task' = [task EXCEPT !.pc = "protect", !.own = {nextTicket}, !.full = full]
  BY DEF SendMarket, Ends, book
<1> QED
  BY <1>2, <1>3, <1>4
\* Once the stops are set, the signal is over or shares a stop there is.
LEMMA OpenedSignal ==
  ASSUME TaskOK(task), task # Idle, NEW t, Opened(t, task.cmd)
  PROVE  SignalOK(task)' /\ accounted \subseteq accounted'
<1>1. \/ Ends
      \/ /\ accounted' = accounted
         /\ \/ task' = Idle
            \/ task.cmd.unified # 0 /\ task' = [task EXCEPT !.pc = "unify", !.own = {t}]
  BY DEF Opened, Ends, Report
<1>2. ASSUME task.cmd.unified # 0, task' = [task EXCEPT !.pc = "unify", !.own = {t}]
      PROVE  SignalOK(task)'
  <2>1. task'.pc = "unify" /\ task'.cmd = task.cmd
    BY <1>2 DEF TaskOK, TaskFields
  <2> QED
    BY <1>2, <2>1 DEF SignalOK
<1> QED
  BY <1>1, <1>2, EndsAccounts, PlainSignal

\* A protected order is secure.
LEMMA ProtectedIsSecure ==
  ASSUME NEW o, IsOrder(o), o.entry > MinStop, NEW c \in Commands, c.action = "SIGNAL"
  PROVE  Secure(Protected(o, c))
<1> DEFINE sl == StopFor(c.side, o.entry, c.sl)
           tp == TargetFor(c.side, o.entry, c.tp1)
<1>1. sl # 0 /\ tp # 0
  BY CommandLevels, LevelsStay DEF IsOrder
<1>2. Protected(o, c) = [o EXCEPT !.sl = sl, !.tp = tp]
  BY DEF Protected
<1> HIDE DEF sl, tp
<1> QED
  BY <1>1, <1>2 DEF IsOrder, Secure, Naked

\* Protect5: the position of the signal is found by its own ticket while it is open, and
\* afterwards it has its stops, or the failed result names it.
LEMMA Protect5Stops == TerminalInv /\ StopsInv /\ Protect5 => StopsInv'
<1> SUFFICES ASSUME TerminalInv, StopsInv, Protect5 PROVE StopsInv'
  OBVIOUS
<1>1. /\ task # Idle /\ TaskOK(task) /\ OrdersOK /\ task.cmd \in Commands
      /\ task.pc = "protect" /\ task.cmd.action = "SIGNAL" /\ platform = "MT5"
  BY RunningCommand DEF TerminalInv, Protect5, Running
<1>2. PICK n \in task.own : task.own = {n} /\ (n \in DOMAIN orders => Fits(n, task.cmd))
  BY <1>1 DEF StopsInv, SignalOK
<1>3. TheOwn = n /\ Protecting(task) = {n}
  BY <1>1, <1>2 DEF TheOwn, Protecting
<1>4. PICK t : t = Resolve(n, task.cmd)
  OBVIOUS
<1>5. n \in DOMAIN orders => t = n
  BY <1>2, <1>4 DEF Resolve
<1>6. t # 0 => t \in DOMAIN orders
  BY <1>4, ResolvedIsOpen DEF Market
<1>7. \/ /\ t = 0
         /\ Finish("ERROR", n, "position_resolve_incomplete")
         /\ orders' = orders
      \/ /\ t # 0
         /\ orders[t].sl # 0 /\ orders[t].tp # 0
         /\ Opened(t, task.cmd)
         /\ orders' = orders
      \/ /\ t # 0
         /\ orders' = [orders EXCEPT ![t] = Protected(@, task.cmd)]
         /\ Ends \/ Opened(t, task.cmd)
      \/ /\ t # 0
         /\ Finish("ERROR", t, "protection_attach_failed")
         /\ orders' = orders
  BY <1>3, <1>4 DEF Protect5, Ends
<1>8. SignalOK(task)' /\ accounted \subseteq accounted'
  <2>1. Ends \/ Opened(t, task.cmd)
    BY <1>7 DEF Ends
  <2> QED
    BY <1>1, <2>1, EndsAccounts, PlainSignal, OpenedSignal
<1>9. ASSUME NEW u \in DOMAIN orders'
      PROVE  /\ orders'[u].entry > MinStop
             /\ Naked(orders[u])' => u \in accounted'
  <2>1. CASE orders' = orders
    <3>1. u \in DOMAIN orders /\ orders'[u] = orders[u]
      BY <2>1
    <3>2. orders[u].entry > MinStop /\ (Naked(orders[u]) => u \in accounted \cup {n})
      BY <1>1, <1>3, <3>1 DEF StopsInv
    <3>3. Naked(orders[u]) /\ u = n => u \in accounted'
      <4>1. ASSUME Naked(orders[u]), u = n PROVE u \in accounted'
        <5>1. t = n /\ ~(orders[t].sl # 0 /\ orders[t].tp # 0)
          BY <1>5, <3>1, <4>1 DEF Naked
        <5>2. \/ Finish("ERROR", n, "position_resolve_incomplete")
              \/ Finish("ERROR", t, "protection_attach_failed")
              \/ t # 0 /\ orders' = [orders EXCEPT ![t] = Protected(@, task.cmd)]
          BY <1>7, <5>1
        <5>3. ASSUME t # 0, orders' = [orders EXCEPT ![t] = Protected(@, task.cmd)]
              PROVE  FALSE
          <6>1. t \in DOMAIN orders /\ IsOrder(orders[t])
            BY <1>1, <1>6, <5>3 DEF OrdersOK
          <6>2. orders[t].entry > MinStop
            BY <3>2, <4>1, <5>1
          <6>3. Secure(Protected(orders[t], task.cmd))
            BY <1>1, <6>1, <6>2, ProtectedIsSecure
          <6>4. Protected(orders[t], task.cmd) = orders[t]
            BY <2>1, <5>3, <6>1
          <6> QED
            BY <4>1, <5>1, <6>3, <6>4 DEF Secure
        <5> QED
          BY <4>1, <5>1, <5>2, <5>3 DEF Finish, Report
      <4> QED
        BY <4>1
    <3>4. Naked(orders[u])' <=> Naked(orders[u])
      BY <3>1 DEF Naked
    <3> QED
      BY <1>8, <3>1, <3>2, <3>3, <3>4
  <2>2. CASE t # 0 /\ orders' = [orders EXCEPT ![t] = Protected(@, task.cmd)]
    <3>1. t \in DOMAIN orders /\ IsOrder(orders[t]) /\ u \in DOMAIN orders
      BY <1>1, <1>6, <2>2 DEF OrdersOK
    <3>2. CASE u = t
      <4>1. orders[t].entry > MinStop
        BY <1>1, <3>1 DEF StopsInv
      <4>2. Secure(Protected(orders[t], task.cmd))
        BY <1>1, <3>1, <4>1, ProtectedIsSecure
      <4>3. orders'[u] = Protected(orders[t], task.cmd)
        BY <2>2, <3>1, <3>2
      <4> QED
        BY <4>2, <4>3 DEF Secure, Naked
    <3>3. CASE u # t
      <4>1. orders'[u] = orders[u] /\ u # n
        BY <1>5, <2>2, <3>1, <3>3
      <4>2. orders[u].entry > MinStop /\ (Naked(orders[u]) => u \in accounted)
        BY <1>1, <1>3, <3>1, <4>1 DEF StopsInv
      <4>3. Naked(orders[u])' <=> Naked(orders[u])
        BY <4>1 DEF Naked
      <4> QED
        BY <1>8, <4>1, <4>2, <4>3
    <3> QED
      BY <3>2, <3>3
  <2> QED
    BY <1>7, <2>1, <2>2
<1> QED
  BY <1>8, <1>9 DEF StopsInv

\* UnifyStops gives the older positions a stop and a target there are.
LEMMA UnifyStopsStops == TerminalInv /\ StopsInv /\ UnifyStops => StopsInv'
<1> SUFFICES ASSUME TerminalInv, StopsInv, UnifyStops, platform = "MT5" PROVE StopsInv'
  BY DEF StopsInv, UnifyStops, link
<1> DEFINE c == task.cmd
           shared == [t \in Market |-> StopFor(c.side, orders[t].entry, c.unified)]
           moved == {t \in Market \ task.own :
                       /\ orders[t].sym = c.sym
                       /\ orders[t].magic = c.strategy
                       /\ orders[t].side = c.side
                       /\ Improves(orders[t], shared[t])}
<1>1. /\ task # Idle /\ c \in Commands /\ c.action = "SIGNAL" /\ OrdersOK
      /\ Protecting(task) = {} /\ c.unified # 0
  BY RunningCommand, OtherSteps DEF TerminalInv, UnifyStops, Running, StopsInv, SignalOK
<1>2. task' = Idle /\ accounted' = accounted
  BY DEF UnifyStops
<1>3. \/ orders' = orders
      \/ orders' = [t \in DOMAIN orders |->
                      IF t \in moved THEN [orders[t] EXCEPT !.sl = shared[t], !.tp = c.tp1]
                      ELSE orders[t]]
  BY DEF UnifyStops
<1>4. \A t \in moved : t \in Market /\ t \in DOMAIN orders /\ shared[t] = StopFor(c.side, orders[t].entry, c.unified)
  BY DEF Market
<1> HIDE DEF moved, shared
<1>5. ASSUME NEW t \in DOMAIN orders'
      PROVE  \/ t \in DOMAIN orders /\ KeepsLevels(orders'[t], orders[t])
             \/ Secure(orders'[t])
  <2>1. t \in DOMAIN orders
    BY <1>3
  <2>2. CASE orders'[t] = orders[t]
    BY <2>1, <2>2 DEF KeepsLevels
  <2>3. CASE t \in moved /\ orders'[t] = [orders[t] EXCEPT !.sl = shared[t], !.tp = c.tp1]
    <3>1. IsOrder(orders[t]) /\ orders[t].entry > MinStop /\ orders[t].entry \in Int
      BY <1>1, <2>1 DEF OrdersOK, IsOrder, StopsInv
    <3>2. shared[t] # 0
      BY <1>1, <1>4, <2>3, <3>1, CommandLevels, LevelsStay
    <3>3. c.tp1 # 0
      BY <1>1, CommandLevels
    <3> QED
      BY <2>3, <3>1, <3>2, <3>3 DEF IsOrder, Secure, Naked
  <2> QED
    BY <1>3, <2>1, <2>2, <2>3
<1> QED
  BY <1>1, <1>2, <1>5, PlainSignal, StopsKept

\* On MT5 a leg that reaches the broker has its levels from the start.
LEMMA LegIsSecure ==
  ASSUME NEW c \in Commands, c.action = "SIGNAL", NEW lots, NEW tp, tp # 0, platform = "MT5",
         NEW leg \in Legs(c, lots, tp), leg.order # NoOrder
  PROVE  Secure(leg.order)
<1>1. leg \in Legs5(c, lots, tp)
  BY DEF Legs
<1>2. leg.order.sl = c.sl /\ leg.order.tp = tp /\ leg.order.entry = OpenPrice
  BY <1>1 DEF Legs5, NewOrder
<1>3. c.sl # 0 /\ OpenPrice > MinStop
  BY CommandLevels, SituationAssumption DEF SituationAssumption
<1> QED
  BY <1>2, <1>3 DEF Secure, Naked

\* The legs of a split signal are secure, whether both open or one.
LEMMA OpenLegsStops ==
  TerminalInv /\ StopsInv /\ (OpenNearLeg \/ OpenFarLeg \/ OpenSingleLeg) => StopsInv'
<1> SUFFICES ASSUME TerminalInv, StopsInv, OpenNearLeg \/ OpenFarLeg \/ OpenSingleLeg,
                    platform = "MT5"
             PROVE  StopsInv'
  BY DEF StopsInv, OpenNearLeg, OpenFarLeg, OpenSingleLeg, link
<1> DEFINE c == task.cmd
<1>1. /\ task # Idle /\ DOMAIN task = TaskFields /\ c \in Commands /\ c.action = "SIGNAL"
      /\ task.pc \in {"near", "far", "single"}
  BY RunningCommand DEF TerminalInv, OpenNearLeg, OpenFarLeg, OpenSingleLeg, Running, TaskOK
<1>2. c.split /\ Protecting(task) = {}
  BY <1>1, OtherSteps DEF StopsInv, SignalOK
<1>3. c.tp1 # 0 /\ c.tp2 # 0
  BY <1>1, <1>2, CommandLevels
<1>4. \E lots, tp : tp # 0 /\ \E leg \in Legs(c, lots, tp) : Placed(leg)
  BY <1>3 DEF OpenNearLeg, OpenFarLeg, OpenSingleLeg
<1>5. PICK lots, tp : tp # 0 /\ \E leg \in Legs(c, lots, tp) : Placed(leg)
  BY <1>4
<1>6. PICK leg \in Legs(c, lots, tp) : Placed(leg)
  BY <1>5
<1>7. \/ Ends
      \/ accounted' = accounted /\ \E own : task' = [task EXCEPT !.pc = "far", !.own = own]
  BY DEF OpenNearLeg, OpenFarLeg, OpenSingleLeg, Ends
<1>8. SignalOK(task)' /\ accounted \subseteq accounted'
  <2>1. CASE Ends
    BY <2>1, EndsAccounts, PlainSignal
  <2>2. CASE accounted' = accounted /\ \E own : task' = [task EXCEPT !.pc = "far", !.own = own]
    <3>1. task'.pc = "far" /\ task'.cmd = task.cmd
      BY <1>1, <2>2 DEF TaskFields
    <3> QED
      BY <1>2, <2>2, <3>1 DEF SignalOK
  <2> QED
    BY <1>7, <2>1, <2>2
<1>9. CASE leg.order = NoOrder
  BY <1>2, <1>6, <1>8, <1>9, LosesOrders, StopsLose DEF Placed
<1>10. CASE leg.order # NoOrder
  <2>1. Secure(leg.order)
    BY <1>1, <1>5, <1>10, LegIsSecure
  <2>2. orders' = With(nextTicket, leg.order)
    BY <1>6, <1>10 DEF Placed
  <2> QED
    BY <1>2, <1>8, <2>1, <2>2, StopsAdd
<1> QED
  BY <1>9, <1>10
\* MT5 sends a pending order with both levels.
LEMMA PendingIsSecure ==
  ASSUME NEW c \in Commands, c.action = "PENDING", NEW lots, NEW tp \in Int, tp # 0,
         platform = "MT5", NEW o \in PendingOrders(c, lots, tp)
  PROVE  Secure(o)
<1> DEFINE sl == StopFor(c.side, c.entry, c.sl)
           target == TargetFor(c.side, c.entry, tp)
<1>1. sl # 0 /\ target # 0 /\ c.entry > MinStop
  BY CommandLevels, LevelsStay
<1>2. o = NewOrder(c, "pending", lots, sl, target)
  BY DEF PendingOrders, PendingOrder5
<1> HIDE DEF sl, target
<1>3. o.sl = sl /\ o.tp = target /\ o.entry = c.entry
  BY <1>2 DEF NewOrder
<1> QED
  BY <1>1, <1>3 DEF Secure, Naked

\* ExecutePending adds secure orders.
LEMMA ExecutePendingStops == TerminalInv /\ StopsInv /\ ExecutePending => StopsInv'
<1> SUFFICES ASSUME TerminalInv, StopsInv, ExecutePending, platform = "MT5" PROVE StopsInv'
  BY DEF StopsInv, ExecutePending, link
<1> DEFINE c == task.cmd
           last == IF c.split THEN c.tp2 ELSE c.tp1
           near == PendingOrders(c, Split(Volume(c)).near, c.tp1)
           far == PendingOrders(c, Split(Volume(c)).far, c.tp2)
           only == PendingOrders(c, Volume(c), last)
<1>1. task # Idle /\ c \in Commands /\ c.action = "PENDING" /\ Protecting(task) = {}
  BY RunningCommand, OtherSteps DEF TerminalInv, ExecutePending, Running
<1>2. Ends
  BY DEF ExecutePending, PlacePendingSplit, PlacePendingSingle, Ends
<1>3. SignalOK(task)' /\ accounted \subseteq accounted'
  BY <1>2, EndsAccounts, PlainSignal
<1>4. c.tp1 # 0 /\ c.tp1 \in Int /\ c.tp2 \in Int /\ (c.split => c.tp2 # 0)
  BY <1>1, CommandLevels
<1>5. last # 0 /\ last \in Int
  BY <1>4
<1>6. \A o \in only : Secure(o)
  BY <1>1, <1>5, PendingIsSecure
<1>7. \A o \in near : Secure(o)
  BY <1>1, <1>4, PendingIsSecure
<1>8. c.split => \A o \in far : Secure(o)
  BY <1>1, <1>4, PendingIsSecure
<1>9. \/ orders' = orders
      \/ /\ c.split
         /\ \/ \E a \in near, b \in far :
                 orders' = [t \in DOMAIN orders \cup {nextTicket, nextTicket + 1} |->
                              IF t = nextTicket THEN a
                              ELSE IF t = nextTicket + 1 THEN b ELSE orders[t]]
            \/ \E a \in near \cup far : orders' = With(nextTicket, a)
      \/ \E a \in only : orders' = With(nextTicket, a)
  BY DEF ExecutePending, PlacePendingSplit, PlacePendingSingle, book
<1> HIDE DEF near, far, only, last
<1>10. CASE orders' = orders
  BY <1>1, <1>3, <1>10, LosesOrders, StopsLose
<1>11. ASSUME NEW a, NEW b, Secure(a), Secure(b),
              orders' = [t \in DOMAIN orders \cup {nextTicket, nextTicket + 1} |->
                           IF t = nextTicket THEN a
                           ELSE IF t = nextTicket + 1 THEN b ELSE orders[t]]
       PROVE  StopsInv'
  <2>1. ASSUME NEW t \in DOMAIN orders'
        PROVE  \/ t \in DOMAIN orders /\ KeepsLevels(orders'[t], orders[t])
               \/ Secure(orders'[t])
    BY <1>11 DEF KeepsLevels
  <2> QED
    BY <1>1, <1>3, <2>1, StopsKept
<1>12. ASSUME NEW a, Secure(a), orders' = With(nextTicket, a) PROVE StopsInv'
  BY <1>1, <1>3, <1>12, StopsAdd
<1> QED
  BY <1>6, <1>7, <1>8, <1>9, <1>10, <1>11, <1>12

\* CANCEL_PENDING takes an order out; MODIFY writes two levels.
LEMMA CancelOrModifyStops ==
  TerminalInv /\ StopsInv /\ (ExecuteCancelPending \/ ExecuteModify) => StopsInv'
<1> SUFFICES ASSUME TerminalInv, StopsInv, ExecuteCancelPending \/ ExecuteModify,
                    platform = "MT5"
             PROVE  StopsInv'
  BY DEF StopsInv, ExecuteCancelPending, ExecuteModify, link
<1>1. /\ task # Idle /\ task.cmd \in Commands /\ OrdersOK /\ Protecting(task) = {}
  BY RunningCommand, OtherSteps DEF TerminalInv, ExecuteCancelPending, ExecuteModify, Running
<1>2. SignalOK(task)' /\ accounted \subseteq accounted'
  <2>1. Ends
    BY DEF ExecuteCancelPending, ExecuteModify, Ends
  <2> QED
    BY <2>1, EndsAccounts, PlainSignal
<1>3. \/ orders' = orders
      \/ \E gone : orders' = Without(gone)
      \/ /\ task.cmd.action = "MODIFY" /\ NotMine(task.cmd.ticket) = "none"
         /\ orders' = [orders EXCEPT ![task.cmd.ticket].sl = task.cmd.sl,
                                     ![task.cmd.ticket].tp = task.cmd.tp1]
  BY DEF ExecuteCancelPending, ExecuteModify, Running
<1>4. CASE orders' = orders \/ \E gone : orders' = Without(gone)
  BY <1>1, <1>2, <1>4, LosesOrders, StopsLose
<1>5. ASSUME NEW t, NotMine(t) = "none", NEW sl, NEW tp, sl # 0, tp # 0,
             orders' = [orders EXCEPT ![t].sl = sl, ![t].tp = tp]
      PROVE  StopsInv'
  <2>1. t \in DOMAIN orders
    BY <1>5, MineIsOpen
  <2>2. orders' = [orders EXCEPT ![t] = [orders[t] EXCEPT !.sl = sl, !.tp = tp]]
    BY <1>5, <2>1
  <2>3. IsOrder(orders[t]) /\ orders[t].entry > MinStop
    BY <1>1, <2>1 DEF OrdersOK, StopsInv
  <2>4. Secure([orders[t] EXCEPT !.sl = sl, !.tp = tp])
    BY <1>5, <2>3 DEF IsOrder, Secure, Naked
  <2>5. ASSUME NEW u \in DOMAIN orders'
        PROVE  \/ u \in DOMAIN orders /\ KeepsLevels(orders'[u], orders[u])
               \/ Secure(orders'[u])
    BY <2>2, <2>4 DEF KeepsLevels
  <2> QED
    BY <1>1, <1>2, <2>5, StopsKept
<1>6. task.cmd.action = "MODIFY" => task.cmd.sl # 0 /\ task.cmd.tp1 # 0
  BY <1>1, CommandLevels
<1> QED
  BY <1>3, <1>4, <1>5, <1>6

\* A close leaves the levels of what stays.
LEMMA ExecuteCloseStops == TerminalInv /\ StopsInv /\ ExecuteClose => StopsInv'
<1> SUFFICES ASSUME TerminalInv, StopsInv, ExecuteClose, platform = "MT5" PROVE StopsInv'
  BY DEF StopsInv, ExecuteClose, link
<1>1. OrdersOK /\ Protecting(task) = {}
  BY OtherSteps DEF TerminalInv, ExecuteClose, Running
<1>2. Ends
  BY DEF ExecuteClose, Ends
<1>3. \/ orders' = orders
      \/ NotMine(task.cmd.ticket) = "none" /\ \E lots : Reduce(task.cmd.ticket, lots)
  BY DEF ExecuteClose, book
<1>4. Loses
  BY <1>1, <1>3, MineIsOpen, LosesOrders, ReduceLoses
<1> QED
  BY <1>1, <1>2, <1>4, EndsAccounts, PlainSignal, StopsLose

\* A leg of the spread trade is not of a strategy.
LEMMA ExecuteOpenStops == TerminalInv /\ StopsInv /\ ExecuteOpen => StopsInv'
<1> SUFFICES ASSUME TerminalInv, StopsInv, ExecuteOpen PROVE StopsInv'
  OBVIOUS
<1> DEFINE c == task.cmd
           new == NewOrder(c, "market", NormalizeVolume(c.lots), 0, 0)
           order == [new EXCEPT !.magic = "spread"]
           part == [order EXCEPT !.lots = MinLots]
<1>1. platform = "MT5" /\ Protecting(task) = {} /\ Ends
  BY OtherSteps DEF ExecuteOpen, Running, Ends
<1>2. \/ orders' = orders
      \/ orders' = With(nextTicket, order)
      \/ orders' = With(nextTicket, part)
  BY DEF ExecuteOpen, book
<1>3. /\ order.magic = "spread" /\ part.magic = "spread"
      /\ order.entry = OpenPrice /\ part.entry = OpenPrice
  BY DEF NewOrder
<1> HIDE DEF order, part
<1>4. Secure(order) /\ Secure(part)
  BY <1>3, SituationAssumption DEF SituationAssumption, Secure, Naked
<1>5. SignalOK(task)' /\ accounted \subseteq accounted'
  BY <1>1, EndsAccounts, PlainSignal
<1> QED
  BY <1>1, <1>2, <1>4, <1>5, LosesOrders, StopsLose, StopsAdd

\* The walk over the spread trade closes, and leaves the levels of what stays.
LEMMA SpreadClosesStops ==
  TerminalInv /\ StopsInv
    /\ (BeginClosePartial \/ ClosePartialStep \/ EndClosePartial \/ ExecuteCloseAll) => StopsInv'
<1> SUFFICES ASSUME TerminalInv, StopsInv, platform = "MT5",
                    BeginClosePartial \/ ClosePartialStep \/ EndClosePartial \/ ExecuteCloseAll
             PROVE  StopsInv'
  BY DEF StopsInv, BeginClosePartial, ClosePartialStep, EndClosePartial, ExecuteCloseAll, link
<1> DEFINE t == Newest(task.todo)
           lots == IF t \in Market
                   THEN NormalizeCloseVolume(Smaller(task.left, orders[t].lots)) ELSE 0
           rest == task.todo \ {t}
           left == StillToClose(task.left, lots)
<1>1. OrdersOK /\ task # Idle /\ DOMAIN task = TaskFields /\ Protecting(task) = {}
  BY RunningCommand, OtherSteps DEF TerminalInv, TaskOK, BeginClosePartial, ClosePartialStep,
     EndClosePartial, ExecuteCloseAll, Running
<1>2. CASE BeginClosePartial \/ EndClosePartial \/ ExecuteCloseAll
  <2>1. /\ orders' = orders \/ \E gone : orders' = Without(gone)
        /\ \/ Ends
           \/ /\ accounted' = accounted
              /\ \E todo, some : task' = [task EXCEPT !.pc = "closing", !.todo = todo, !.left = some]
    <3>1. CASE BeginClosePartial
      BY <3>1 DEF BeginClosePartial, Ends, book
    <3>2. CASE EndClosePartial
      BY <3>2 DEF EndClosePartial, Ends, book
    <3>3. CASE ExecuteCloseAll
      BY <3>3 DEF ExecuteCloseAll, Ends
    <3> QED
      BY <1>2, <3>1, <3>2, <3>3
  <2>2. Loses
    BY <2>1, LosesOrders
  <2>3. Ends \/ (accounted' = accounted /\ task'.pc = "closing")
    BY <1>1, <2>1 DEF TaskFields
  <2>4. SignalOK(task)' /\ accounted \subseteq accounted'
    BY <2>3, EndsAccounts, PlainSignal
  <2> QED
    BY <1>1, <2>2, <2>4, StopsLose
<1>3. CASE ClosePartialStep
  <2>1. task.pc = "closing"
    BY <1>3 DEF ClosePartialStep, Running
  <2>2. \/ orders' = orders
        \/ lots > 0 /\ Reduce(t, lots)
        \/ lots > MinLots /\ Reduce(t, MinLots)
    BY <1>3 DEF ClosePartialStep, book
  <2>3. (lots > 0 \/ lots > MinLots) => t \in DOMAIN orders
    <3>1. ~(0 > MinLots)
      BY LimitsAreWhole
    <3> QED
      BY <3>1 DEF Market
  <2>4. \/ Ends
        \/ /\ accounted' = accounted
           /\ \/ task' = [task EXCEPT !.todo = rest]
              \/ task' = [task EXCEPT !.todo = rest, !.closed = @ + lots, !.left = left]
    BY <1>3 DEF ClosePartialStep, Ends
  <2> HIDE DEF t, lots, rest, left
  <2>5. Loses
    BY <1>1, <2>2, <2>3, LosesOrders, ReduceLoses
  <2>6. Ends \/ (accounted' = accounted /\ task'.pc = "closing")
    BY <1>1, <2>1, <2>4 DEF TaskFields
  <2>7. SignalOK(task)' /\ accounted \subseteq accounted'
    BY <2>6, EndsAccounts, PlainSignal
  <2> QED
    BY <1>1, <2>5, <2>7, StopsLose
<1> QED
  BY <1>2, <1>3

\* The loop leaves the book, and a new command has nothing to protect.
LEMMA LoopingStops ==
  TerminalInv /\ StopsInv /\ (Looping \/ SkipUnknown \/ Protect4) => StopsInv'
<1> SUFFICES ASSUME TerminalInv, StopsInv, Looping \/ SkipUnknown \/ Protect4, platform = "MT5"
             PROVE  StopsInv'
  BY DEF StopsInv, Looping, OnInit, OnTickRegister, SendFirstReport, PollAndExecute,
         TakeCommand, SkipUnknown, Protect4, link
<1>1. /\ orders' = orders /\ accounted' = accounted /\ task = Idle
      /\ \/ task' = Idle
         \/ \E c \in Commands :
              task' = [pc |-> "begin", cmd |-> c, own |-> {}, full |-> TRUE,
                       todo |-> {}, left |-> 0, closed |-> 0]
  BY DEF Looping, OnInit, OnTickRegister, SendFirstReport, PollAndExecute, TakeCommand, Free,
         SkipUnknown, Protect4, book
<1>2. task' = Idle \/ task'.pc = "begin"
  BY <1>1
<1> QED
  BY <1>1, <1>2, IdleSignal, PlainSignal, LosesOrders, StopsLose

\* The broker may close or fill while a position is being protected; a restart makes the
\* program forget it, which the history keeps.
LEMMA OutsideStops ==
  TerminalInv /\ StopsInv /\ (BrokerCloses \/ PendingFills \/ TerminalRestart) => StopsInv'
<1> SUFFICES ASSUME TerminalInv, StopsInv, BrokerCloses \/ PendingFills \/ TerminalRestart,
                    platform = "MT5"
             PROVE  StopsInv'
  BY DEF StopsInv, BrokerCloses, PendingFills, TerminalRestart, link
<1>1. CASE BrokerCloses \/ PendingFills
  <2>1. task' = task /\ accounted' = accounted
    BY <1>1 DEF BrokerCloses, PendingFills
  <2>2. ASSUME NEW t \in DOMAIN orders'
        PROVE  /\ t \in DOMAIN orders /\ KeepsLevels(orders'[t], orders[t])
               /\ orders'[t].sym = orders[t].sym /\ orders'[t].side = orders[t].side
               /\ orders[t].class = "market" => orders'[t].class = "market"
    <3>1. CASE BrokerCloses
      BY <3>1 DEF BrokerCloses, Without, KeepsLevels
    <3>2. CASE PendingFills
      <4>1. PICK p \in Pending : orders' = [orders EXCEPT ![p].class = "market"]
        BY <3>2 DEF PendingFills
      <4>2. p \in DOMAIN orders /\ IsOrder(orders[p])
        BY DEF Pending, TerminalInv, OrdersOK
      <4> QED
        BY <4>1, <4>2 DEF IsOrder, KeepsLevels
    <3> QED
      BY <1>1, <3>1, <3>2
  <2>3. ASSUME NEW n, n \in DOMAIN orders => Fits(n, task.cmd), n \in DOMAIN orders'
        PROVE  Fits(n, task.cmd)'
    BY <2>1, <2>2, <2>3 DEF Fits, Market, KeepsLevels
  <2>4. SignalOK(task)'
    BY <2>1, <2>3 DEF StopsInv, SignalOK
  <2>5. ASSUME NEW t \in DOMAIN orders'
        PROVE  /\ orders'[t].entry > MinStop
               /\ Naked(orders[t])' => t \in accounted' \cup Protecting(task)'
    <3>1. /\ orders[t].entry > MinStop
          /\ Naked(orders[t]) => t \in accounted \cup Protecting(task)
      BY <2>2 DEF StopsInv
    <3>2. Naked(orders[t])' => Naked(orders[t])
      BY <2>2 DEF KeepsLevels, Naked
    <3>3. Protecting(task)' = Protecting(task)
      BY <2>1 DEF Protecting
    <3> QED
      BY <2>1, <2>2, <3>1, <3>2, <3>3 DEF KeepsLevels
  <2> QED
    BY <2>4, <2>5 DEF StopsInv
<1>2. CASE TerminalRestart
  <2>1. /\ task' = Idle /\ orders' = orders
        /\ accounted' = IF task = Idle THEN accounted ELSE accounted \cup task.own
    BY <1>2 DEF TerminalRestart, book
  <2>2. accounted \cup Protecting(task) \subseteq accounted'
    BY <2>1 DEF Protecting
  <2>3. SignalOK(task)'
    BY <2>1, PlainSignal
  <2> QED
    BY <2>1, <2>2, <2>3 DEF StopsInv, Naked
<1> QED
  BY <1>1, <1>2

\* A terminal starts with protected positions.
LEMMA StopsAtStart == Init => StopsInv
<1> SUFFICES ASSUME Init PROVE StopsInv
  OBVIOUS
<1>1. orders \in Books /\ task = Idle
  BY DEF Init
<1>2. \A t \in DOMAIN orders : /\ orders[t].entry > MinStop
                               /\ orders[t].magic \in Strategies => orders[t].sl # 0 /\ orders[t].tp # 0
  BY <1>1, SituationAssumption DEF SituationAssumption
<1> QED
  BY <1>1, <1>2, IdleSignal DEF StopsInv, Naked

\* No position of a strategy stands without stop or target behind the server's back, for
\* every list of commands, every least distance and every sequence of refusals, half fills,
\* closes at the broker and restarts: MT5 is still busy with it, a failed result has named
\* its ticket, or a restart cut the program off.
THEOREM NakedIsReported == Spec => []NakedPositionIsReported
<1>1. TerminalInv /\ StopsInv /\ [Next]_vars => StopsInv'
  <2> SUFFICES ASSUME TerminalInv, StopsInv, [Next]_vars PROVE StopsInv'
    OBVIOUS
  <2>1. CASE Executing
    BY <2>1, BeginSignalStops, SendMarketStops, Protect5Stops, UnifyStopsStops, OpenLegsStops,
       ExecutePendingStops, CancelOrModifyStops, ExecuteCloseStops, ExecuteOpenStops,
       SpreadClosesStops, LoopingStops DEF Executing
  <2>2. CASE Looping
    BY <2>2, LoopingStops
  <2>3. CASE BrokerCloses \/ PendingFills \/ TerminalRestart
    BY <2>3, OutsideStops
  <2>4. CASE UNCHANGED vars
    BY <2>4 DEF vars, StopsInv, SignalOK, Protecting, Naked, Fits, Market
  <2> QED
    BY <2>1, <2>2, <2>3, <2>4 DEF Next
<1>2. StopsInv => NakedPositionIsReported
  BY DEF StopsInv, NakedPositionIsReported, Naked, Protecting, Market
<1> QED
  BY <1>1, <1>2, StopsAtStart, TerminalInvariant, PTL DEF Spec
=============================================================================
