------------------------------ MODULE LiveSignals ------------------------------
(***************************************************************************)
(* What app-server starts when the terminal posts bars or positions: the   *)
(* daily-loss guard, an analysis, the command of its signal, and in a      *)
(* review of positions the stops the AI suggested, the position manager's  *)
(* commands and the positions' states.  The route does not wait for any    *)
(* of it, so the requests of a terminal run side by side, and what one of  *)
(* them throws ends the process.                                           *)
(*                                                                         *)
(* Two things live in the memory of the process alone: when a stop of the  *)
(* AI was last queued, and the first look at a breakout, which waits up to *)
(* an hour for a second look (of any request, an analysis that is only     *)
(* shown included) before there is a signal.                               *)
(*                                                                         *)
(* The candidates' prices, the position manager's rules and the strategies *)
(* are in RiskGate, PositionRules and Signals; the queue and the           *)
(* runtime modes in CommandLifecycle.  One account, one symbol, long       *)
(* positions opened at OpenPrice.                                          *)
(***************************************************************************)
EXTENDS Integers, FiniteSets, FiniteSetsExt

CONSTANTS
  Requests,    \* handlers that may be at work at the same time
  Tickets,     \* positions, the numbers the broker gave them
  Scenes,      \* what a run of the system is given, see SceneShape
  OpenPrice, Atr,
  DayLength, Hour, Cooldown, Fresh,  \* in steps of the clock
  MaxNow, MaxEnds                    \* bounds: time, process ends

\* The store, what the terminal posts and which requests it starts.  A chart:
\* the band the last H1 close broke (0: none), the last M30 close (0: no bars),
\* and whether another strategy has a signal.  A quote: the tick, and the stop
\* of the AI (0: none).  The posts that change anything are bounded.
SceneShape(s) ==
  /\ s.store \in {"sqlite", "postgres"}
  /\ s.kinds \subseteq {"bars", "positions"}
  /\ \A h \in s.heartbeats : {h.live, h.enabled} \subseteq BOOLEAN /\ h.equity \in Nat
  /\ \A c \in s.charts : {c.band, c.m30} \subseteq Nat /\ c.other \in BOOLEAN
  /\ \A q \in s.quotes : {q.price, q.suggested} \subseteq Nat
  /\ s.stops \subseteq Nat /\ s.changes \in Nat

ASSUME LiveSignalsAssumption ==
  /\ Tickets \subseteq Nat \ {0} /\ IsFiniteSet(Tickets)
  /\ "none" \notin Requests
  /\ \A s \in Scenes : SceneShape(s)
  /\ {DayLength, Hour, Cooldown, Fresh, MaxNow, MaxEnds} \subseteq Nat
  /\ DayLength > 0

VARIABLES
  scene,      \* chosen once
  now,
  heartbeat, chart, quote,
  newest,     \* the time of the last H1 bar, the trigger key
  positions,  \* the snapshot: [at, stops], stops : [open tickets -> price]
  baseline,   \* daily_equity: [day -> equity], 0: no row
  states,     \* position_states: what a row says of the ticket, "none" without one
  commands,   \* runtime_commands: the ids in use
  queuedAt,   \* aiStopLossQueuedAtMs, -1: none
  look,       \* the breakout cache: [level, at], or NoLook
  req,        \* the handlers
  changes, ends,                         \* posts and process ends so far (bound)
  firstEquity, lastLook, spent, lastStop  \* history

memory == <<queuedAt, look>>
stored == <<baseline, states, commands>>
outside == <<scene, now, heartbeat, chart, quote, newest, positions>>
history == <<firstEquity, lastLook, spent, lastStop>>
vars == <<outside, stored, memory, req, changes, ends, history>>

-----------------------------------------------------------------------------

Days == 0..(MaxNow \div DayLength)
Day(t) == t \div DayLength
NoLook == [level |-> 0, at |-> -1]
Idle == [pc |-> "idle", kind |-> "none", equity |-> 0, day |-> 0, signal |-> "none",
         id |-> <<>>, todo |-> {}, taken |-> {}, at |-> 0]

\* Against SQLite a handler runs to its end before anything else happens.
Turn(r) == scene.store = "postgres" \/ \A q \in Requests \ {r} : req[q].pc = "idle"
Quiet == scene.store = "postgres" \/ \A q \in Requests : req[q].pc = "idle"

Step(r, change) == req' = [req EXCEPT ![r] = change]
At(r, pc) == [req[r] EXCEPT !.pc = pc]

\* What follows the signal: a review goes on with its positions, the others end.
AfterSignal(r) == IF req[r].kind = "positions" THEN At(r, "moves") ELSE Idle

\* The mutable memory is lost with the process, the requests at work with it.
Forget ==
  /\ ends < MaxEnds /\ ends' = ends + 1
  /\ req' = [r \in Requests |-> Idle]
  /\ queuedAt' = [t \in Tickets |-> -1] /\ lastStop' = [t \in Tickets |-> -1]
  /\ look' = NoLook

-----------------------------------------------------------------------------
(* The daily-loss guard. *)

\* Mistake: the loss may be five percent.
DrawnMore(equity, start) == 100 * (start - equity) > 5 * start
\* Five percent under the first equity of the day.
Drawn(equity, start) == 100 * (start - equity) >= 5 * start

\* Requests are started only while the heartbeat allows trading.
Begin(r, kind) ==
  /\ req[r].pc = "idle" /\ Quiet /\ heartbeat.live /\ kind \in scene.kinds
  /\ Step(r, [Idle EXCEPT !.pc = "guard", !.kind = kind, !.equity = heartbeat.equity,
                          !.day = Day(now)])
  /\ UNCHANGED <<outside, stored, memory, changes, ends, history>>

\* A handler without equity is let through; the first one of a day stores its own.
Guard(r) ==
  LET start == baseline[req[r].day] equity == req[r].equity
  IN  /\ req[r].pc = "guard" /\ Turn(r)
      /\ Step(r, IF equity = 0 THEN At(r, "analysis")
                 ELSE IF start = 0 THEN At(r, "opening")
                 ELSE IF Drawn(equity, start) THEN Idle ELSE At(r, "analysis"))
      /\ UNCHANGED <<outside, stored, memory, changes, ends, history>>

\* INSERT ... ON CONFLICT DO NOTHING.
FirstWrite(first, equity) == IF first = 0 THEN equity ELSE first

Opening(r) ==
  /\ req[r].pc = "opening" /\ Turn(r)
  /\ baseline' = [baseline EXCEPT ![req[r].day] = FirstWrite(@, req[r].equity)]
  /\ firstEquity' = [firstEquity EXCEPT ![req[r].day] = IF @ = 0 THEN req[r].equity ELSE @]
  /\ Step(r, At(r, "analysis"))
  /\ UNCHANGED <<outside, states, commands, memory, changes, ends, lastLook, spent, lastStop>>

-----------------------------------------------------------------------------
(* The analysis, and the two looks at a breakout. *)

\* Mistake: a look is answered however long ago it was.
AnyPending == look # NoLook
Pending == look # NoLook /\ now - look.at <= Hour

Confirmed == chart.band > 0 /\ (chart.m30 = 0 \/ (Pending /\ chart.m30 > look.level))

\* One look: without M30 bars the cache is not asked; a look that waits is
\* taken out whatever the answer, otherwise this one waits.
Look ==
  IF chart.band = 0 \/ chart.m30 = 0 THEN UNCHANGED <<look, lastLook, spent>>
  ELSE IF Pending THEN look' = NoLook /\ spent' = TRUE /\ UNCHANGED lastLook
  ELSE /\ look' = [level |-> chart.band, at |-> now]
       /\ lastLook' = now /\ spent' = FALSE

\* The highest score wins; either may have it.
SignalsOf == {s \in {"pyramid", "other"} :
                (s = "pyramid" => Confirmed) /\ (s = "other" => chart.other)}

Analysis(r) ==
  /\ req[r].pc = "analysis" /\ Turn(r)
  /\ Look
  /\ LET taken == DOMAIN positions.stops
     IN  \/ /\ SignalsOf = {}
            /\ Step(r, IF req[r].kind = "bars" THEN Idle
                       ELSE [At(r, "stops") EXCEPT !.taken = taken])
         \/ \E s \in SignalsOf :
              Step(r, [At(r, "check") EXCEPT !.signal = s, !.taken = taken])
  /\ UNCHANGED <<outside, stored, queuedAt, changes, ends, firstEquity, lastStop>>

\* The analysis that GET /api/v1/analysis/<account>/<symbol>/trading-core shows is made the
\* same way: it publishes nothing, and looks too.
TradingCoreAnalysis ==
  /\ Quiet /\ chart.band > 0 /\ chart.m30 > 0
  /\ Look
  /\ UNCHANGED <<outside, stored, queuedAt, req, changes, ends, firstEquity, lastStop>>

-----------------------------------------------------------------------------
(* The command of the signal. *)

\* An id in use breaks the primary key: the handler throws, nobody catches it.
Insert(r, next) ==
  \/ /\ req[r].id \in commands
     /\ Forget /\ UNCHANGED commands
  \/ /\ req[r].id \notin commands
     /\ commands' = commands \cup {req[r].id}
     /\ Step(r, next)
     /\ UNCHANGED <<look, ends>>

\* Mistake: the id is not looked up.
UncheckedSignal(r, id) == heartbeat.enabled
\* A strategy the terminal reports as switched off gets no signal.
NewSignal(r, id) == heartbeat.enabled /\ id \notin commands

\* The market filter may refuse, too.
Check(r) ==
  LET id == <<"signal", req[r].signal, newest>>
  IN  /\ req[r].pc = "check" /\ Turn(r)
      /\ \/ NewSignal(r, id) /\ Step(r, [At(r, "save") EXCEPT !.id = id])
         \/ Step(r, AfterSignal(r))
      /\ UNCHANGED <<outside, stored, memory, changes, ends, history>>

Save(r) ==
  /\ req[r].pc = "save" /\ Turn(r)
  /\ Insert(r, AfterSignal(r))
  /\ req[r].id \notin commands => UNCHANGED <<queuedAt, lastStop>>
  /\ UNCHANGED <<outside, baseline, states, changes, firstEquity, lastLook, spent>>

-----------------------------------------------------------------------------
(* The stops the AI suggested, in a review without a signal. *)

\* A suggestion of the price's magnitude, and a position at break-even or with
\* 1.5 ATR of profit.
StopReady(t) ==
  LET new == quote.suggested price == quote.price
  IN  /\ new > 0 /\ price > 0
      /\ 10 * new >= 3 * price /\ new <= 2 * price
      /\ states[t] = "moved" \/ 2 * (price - OpenPrice) >= 3 * Atr

\* Not under the position's stop, 0.3 ATR away from it, and under the price.
StopImproves(t) ==
  LET stop == positions.stops[t] new == quote.suggested
  IN  stop > 0 /\ stop <= new /\ new < quote.price /\ 10 * (new - stop) >= 3 * Atr

\* The last position is followed by the position manager's commands.
AdjustOr(todo) == IF todo = {} THEN "moves" ELSE "adjust"

\* Everything but the ids and the spacing is read before the first position.
BeginStops(r) ==
  /\ req[r].pc = "stops" /\ Turn(r)
  /\ LET todo == {t \in DOMAIN positions.stops : StopReady(t) /\ StopImproves(t)}
     IN  Step(r, [At(r, AdjustOr(todo)) EXCEPT !.todo = todo])
  /\ UNCHANGED <<outside, stored, memory, changes, ends, history>>

\* Mistake: the spacing is forgotten at midnight.
SpacedToday(t) == queuedAt[t] = -1 \/ Day(queuedAt[t]) # Day(now) \/ now - queuedAt[t] >= Cooldown
Spaced(t) == queuedAt[t] = -1 \/ now - queuedAt[t] >= Cooldown

\* The id holds the minute; only the next position is looked at.
Adjust(r) ==
  /\ req[r].pc = "adjust" /\ Turn(r)
  /\ LET t == Min(req[r].todo) id == <<"stop", t, now>> rest == req[r].todo \ {t}
     IN  Step(r, IF id \notin commands /\ Spaced(t)
                   THEN [At(r, "adjusting") EXCEPT !.id = id, !.at = now]
                   ELSE [At(r, AdjustOr(rest)) EXCEPT !.todo = rest])
  /\ UNCHANGED <<outside, stored, memory, changes, ends, history>>

Adjusting(r) ==
  LET t == Min(req[r].todo) rest == req[r].todo \ {t}
  IN  /\ req[r].pc = "adjusting" /\ Turn(r)
      /\ Insert(r, [At(r, AdjustOr(rest)) EXCEPT !.todo = rest])
      /\ req[r].id \notin commands =>
           /\ queuedAt' = [queuedAt EXCEPT ![t] = req[r].at]
           /\ lastStop' = [lastStop EXCEPT ![t] = req[r].at]
      /\ UNCHANGED <<outside, baseline, states, changes, firstEquity, lastLook, spent>>

-----------------------------------------------------------------------------
(* The position manager's commands, and the positions' states. *)

\* The last command is followed by the states.
MoveOr(todo) == IF todo = {} THEN "states" ELSE "move"

\* Commands for positions that are gone, or whose snapshot is old, are dropped.
BeginMoves(r) ==
  LET there == IF now - positions.at <= Fresh THEN DOMAIN positions.stops ELSE {}
  IN  /\ req[r].pc = "moves" /\ Turn(r)
      /\ \E s \in SUBSET (req[r].taken \cap there) :
           Step(r, [At(r, MoveOr(s)) EXCEPT !.todo = s, !.at = now])
      /\ UNCHANGED <<outside, stored, memory, changes, ends, history>>

Move(r) ==
  /\ req[r].pc = "move" /\ Turn(r)
  /\ LET t == Min(req[r].todo) id == <<"pm", t, req[r].at>> rest == req[r].todo \ {t}
     IN  Step(r, IF id \in commands THEN [At(r, MoveOr(rest)) EXCEPT !.todo = rest]
                 ELSE [At(r, "moving") EXCEPT !.id = id])
  /\ UNCHANGED <<outside, stored, memory, changes, ends, history>>

Moving(r) ==
  /\ req[r].pc = "moving" /\ Turn(r)
  /\ LET rest == req[r].todo \ {Min(req[r].todo)}
     IN  Insert(r, [At(r, MoveOr(rest)) EXCEPT !.todo = rest])
  /\ req[r].id \notin commands => UNCHANGED <<queuedAt, lastStop>>
  /\ UNCHANGED <<outside, baseline, states, changes, firstEquity, lastLook, spent>>

\* The rows of the analysed positions are written, the others deleted; an
\* analysis without positions leaves the rows alone.
PersistStates(r) ==
  /\ req[r].pc = "states" /\ Turn(r)
  /\ IF req[r].taken = {} THEN UNCHANGED states
     ELSE \E moved \in SUBSET req[r].taken :
            states' = [t \in Tickets |-> IF t \notin req[r].taken THEN "none"
                                         ELSE IF t \in moved THEN "moved" ELSE "open"]
  /\ Step(r, Idle)
  /\ UNCHANGED <<outside, baseline, commands, memory, changes, ends, history>>

-----------------------------------------------------------------------------
(* A result 4108: the position of a position manager's command is gone. *)

BeginCleanup(r, t) ==
  /\ req[r].pc = "idle" /\ Quiet
  /\ \E c \in commands : c[1] = "pm" /\ c[2] = t
  /\ t \notin DOMAIN positions.stops
  /\ Step(r, [Idle EXCEPT !.pc = "ghost", !.kind = "cleanup",
                !.taken = {s \in Tickets \ {t} : states[s] # "none"}])
  /\ UNCHANGED <<outside, stored, memory, changes, ends, history>>

\* Every row but those just read is deleted.
Cleanup(r) ==
  /\ req[r].pc = "ghost" /\ Turn(r)
  /\ states' = [t \in Tickets |-> IF t \in req[r].taken THEN states[t] ELSE "none"]
  /\ Step(r, Idle)
  /\ UNCHANGED <<outside, baseline, commands, memory, changes, ends, history>>

-----------------------------------------------------------------------------
(* The terminal's posts, the clock, the end of the process. *)

Change ==
  /\ Quiet /\ changes < scene.changes /\ changes' = changes + 1
  /\ UNCHANGED <<scene, now, stored, memory, req, ends, history>>

PostHeartbeat == Change /\ heartbeat' \in scene.heartbeats \ {heartbeat}
                 /\ UNCHANGED <<chart, quote, newest, positions>>
\* A new bar, or another reading of the last one.
PostBars == Change /\ chart' \in scene.charts \ {chart} /\ newest' \in {newest, now}
            /\ UNCHANGED <<heartbeat, quote, positions>>
PostTick == Change /\ quote' \in scene.quotes \ {quote}
            /\ UNCHANGED <<heartbeat, chart, newest, positions>>
PostPositions ==
  /\ Change
  /\ \E open \in SUBSET Tickets : \E stops \in [open -> scene.stops] :
       positions' = [at |-> now, stops |-> stops]
  /\ UNCHANGED <<heartbeat, chart, quote, newest>>

\* A turn takes no time.
Tick ==
  /\ Quiet /\ now < MaxNow /\ now' = now + 1
  /\ UNCHANGED <<scene, heartbeat, chart, quote, newest, positions, stored, memory,
                 req, changes, ends, history>>

Restart ==
  /\ Forget
  /\ UNCHANGED <<outside, stored, changes, firstEquity, lastLook, spent>>

Init ==
  /\ scene \in Scenes /\ now = 0
  /\ heartbeat \in scene.heartbeats /\ chart \in scene.charts /\ quote \in scene.quotes /\ newest = 0
  /\ positions = [at |-> 0, stops |-> [t \in {} |-> 0]]
  /\ baseline = [d \in Days |-> 0] /\ states = [t \in Tickets |-> "none"] /\ commands = {}
  /\ queuedAt = [t \in Tickets |-> -1] /\ look = NoLook
  /\ req = [r \in Requests |-> Idle] /\ changes = 0 /\ ends = 0
  /\ firstEquity = [d \in Days |-> 0] /\ lastLook = -1 /\ spent = TRUE
  /\ lastStop = [t \in Tickets |-> -1]

Next ==
  \/ \E r \in Requests :
       \/ Begin(r, "bars") \/ Begin(r, "positions")
       \/ Guard(r) \/ Opening(r) \/ Analysis(r) \/ Check(r) \/ Save(r)
       \/ BeginStops(r) \/ Adjust(r) \/ Adjusting(r)
       \/ BeginMoves(r) \/ Move(r) \/ Moving(r) \/ PersistStates(r)
       \/ Cleanup(r) \/ \E t \in Tickets : BeginCleanup(r, t)
  \/ TradingCoreAnalysis \/ PostHeartbeat \/ PostBars \/ PostTick \/ PostPositions
  \/ Tick \/ Restart

Spec == Init /\ [][Next]_vars

-----------------------------------------------------------------------------
(* Correctness. *)

\* A breakout that M30 bars confirm answers a look taken before, at most an hour
\* ago, that no other request has answered; whoever took the looks.
BreakoutSeenTwice ==
  [][\A r \in Requests :
       req[r].pc = "analysis" /\ req'[r].signal = "pyramid" /\ chart.m30 > 0
         => lastLook \in Nat /\ now - lastLook <= Hour /\ ~spent]_vars

Queues(r) == req[r].id \notin commands /\ commands' = commands \cup {req[r].id}
             /\ req[r].pc \in {"save", "adjusting", "moving"}

\* Against SQLite no request queues anything that started with an equity five
\* percent under the first one of that UTC day that was let through, whatever was
\* restarted since.
DailyLossHolds ==
  [][\A r \in Requests :
       scene.store = "sqlite" /\ Queues(r) /\ req[r].equity > 0
         => 100 * req[r].equity > 95 * firstEquity[req[r].day]]_vars

\* Against SQLite two stops of the AI for one position are queued five minutes
\* apart, unless the process ended in between.
AIStopsSpaced ==
  [][\A r \in Requests :
       scene.store = "sqlite" /\ Queues(r) /\ req[r].pc = "adjusting"
         => LET last == lastStop[Min(req[r].todo)]
            IN  last = -1 \/ req[r].at - last >= Cooldown]_vars

\* Against SQLite no request of the terminal ends the process, however many
\* run side by side.
HandlersNeverCollide ==
  \A r \in Requests :
    scene.store = "sqlite" /\ req[r].pc \in {"save", "adjusting", "moving"}
      => req[r].id \notin commands

=============================================================================
