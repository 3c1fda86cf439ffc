------------------------------ MODULE AccountView ------------------------------
(***************************************************************************)
(* What the server keeps of a terminal's posts, and what it then shows of  *)
(* the account to the AI (analysisPayload) and to the filter of its own    *)
(* signals (evaluateSignalMarketFilters).                                  *)
(*                                                                         *)
(* Times are minutes, 0 being a time that is missing or cannot be read.    *)
(* The stamps "at" are of the server's clock; a "clock" is the terminal's, *)
(* in the broker's time zone: a heartbeat has the date, a tick may have    *)
(* the time of the day alone. Of a timeframe's bars there is their number  *)
(* and the last one, with the indicators the terminal sent and, as "own",  *)
(* those the server calculates of the series; zeros when there is no bar.  *)
(***************************************************************************)
EXTENDS Integers

Day == 24 * 60

\* EA_STRATEGY_NAMES; a comment GB_<strategy>_... is searched for the same names.
Strategies ==
  {"pullback", "breakout_retest", "divergence", "breakout_pyramid", "counter_pullback", "scale_in",
   "range", "momentum_scalp", "ai_signal"}

-----------------------------------------------------------------------------
(* The posts. *)

\* resolveOrderClassField: what neither field tells is a pending order.
OrderClass(q) ==
  IF q.class \in {"market", "pending"} THEN q.class
  ELSE IF q.type \in {"BUY", "SELL"} THEN "market" ELSE "pending"

\* Mistake: whatever the terminal calls the strategy is believed.
PostedStrategy(q) ==
  IF q.strategy # "none" THEN q.strategy
  ELSE IF q.comment \in Strategies THEN q.comment ELSE "unknown"
\* resolvePositionStrategy: old terminals cut the name at its first underscore, the comment
\* has it in full; an unknown name stays when the comment has none.
Strategy(q) ==
  IF q.strategy \in Strategies THEN q.strategy
  ELSE IF q.comment \in Strategies THEN q.comment
  ELSE IF q.strategy # "none" THEN q.strategy ELSE "unknown"

NormalPosition(q) == [q EXCEPT !.strategy = Strategy(q), !.class = OrderClass(q)]

\* normalizeHeartbeatPayload: a flag that is missing is off.
Flag(word) == IF word = "true" THEN "true" ELSE "false"
NormalHeartbeat(body, now) == [body EXCEPT !.open = Flag(@), !.allowed = Flag(@), !.at = now]

\* A body is one record of its kind with its stamp, or a set of positions, or the last bar
\* of a timeframe.
NormalBody(post, now) ==
  CASE post.path = "heartbeat" -> NormalHeartbeat(post.body, now)
    [] post.path = "tick" -> [post.body EXCEPT !.at = now]
    [] post.path = "positions" -> {NormalPosition(q) : q \in post.body}
    [] OTHER -> post.body

\* validateEaPayload and its normalizers: one field of another type, be it of one bar or of
\* one position, and the whole body is refused. "wrong" names such fields.
Refused(post) == post.wrong # {}

\* A post replaces what there is of its kind, and bars those of their timeframe.
Saved(stored, path, body) ==
  CASE path = "heartbeat" -> [stored EXCEPT !.heartbeat = body]
    [] path = "tick" -> [stored EXCEPT !.tick = body]
    [] path = "positions" -> [stored EXCEPT !.positions = body]
    [] path = "bars" -> [stored EXCEPT !.frames[body.timeframe] = body.frame]
    [] OTHER -> stored

\* handleEaRoute.
Received(stored, post, now) ==
  IF Refused(post) THEN stored ELSE Saved(stored, post.path, NormalBody(post, now))

-----------------------------------------------------------------------------
(* How old the news is. *)

Ttl == 15

\* analysisHeartbeatFreshnessMillis: the terminal's clock is the last resort.
HeartbeatHeard(stored) ==
  IF stored.heartbeat.at > 0 THEN stored.heartbeat.at ELSE stored.heartbeat.clock

\* analysisTickTimeMillis: a time of the day is of the heartbeat's date, or of the day before
\* when that would be more than ten minutes from now.
TickClock(stored, now) ==
  LET dated == (stored.heartbeat.clock \div Day) * Day + stored.tick.clock
  IN CASE stored.tick.kind = "date" -> stored.tick.clock
       [] stored.tick.kind = "time" /\ stored.heartbeat.clock > 0 ->
            IF dated - now > 10 THEN dated - Day ELSE dated
       [] OTHER -> 0

\* Mistake: the terminal's own time is preferred to the stamp.
ClockFirst(stored, now) ==
  IF TickClock(stored, now) > 0 THEN TickClock(stored, now) ELSE stored.tick.at
\* analysisTickFreshnessMillis.
TickHeard(stored, now) == IF stored.tick.at > 0 THEN stored.tick.at ELSE TickClock(stored, now)

\* analysisMarketStatus: a market nobody has told of for a while is closed, whatever was said.
StaleReason(stored, now) ==
  LET tick == TickHeard(stored, now)
      heartbeat == HeartbeatHeard(stored)
  IN IF tick = 0 /\ heartbeat = 0 THEN "unheard"
     ELSE IF tick # 0 /\ now - tick > Ttl THEN "tick"
     ELSE IF heartbeat # 0 /\ now - heartbeat > Ttl THEN "heartbeat"
     ELSE IF tick = 0 /\ ~stored.tick.priced THEN "unheard" ELSE "none"
MarketStatus(stored, now) ==
  LET fresh == StaleReason(stored, now) = "none"
  IN [open |-> fresh /\ stored.heartbeat.open = "true", allowed |-> fresh /\ stored.heartbeat.allowed = "true",
      stale |-> StaleReason(stored, now)]

-----------------------------------------------------------------------------
(* The trend the payload tells of. *)

\* enrichAnalysisBars: what the terminal calculated is calculated again, and overwritten.
Enriched(frame) == [close |-> frame.close, ema20 |-> frame.own.ema20, ema50 |-> frame.own.ema50, adx |-> frame.own.adx]
EnrichedFrames(stored) == [tf \in DOMAIN stored.frames |-> Enriched(stored.frames[tf])]

\* indicatorPacks: a series too short for its averages has no indicators to show.
Packed(frames) == {tf \in DOMAIN frames \ {"D1"} : frames[tf].len >= 20}

Weight == [D1 |-> 5, H4 |-> 25, H1 |-> 35, M30 |-> 35]  \* hundredths

\* directionFromBars.
Direction(bar) ==
  CASE bar.ema20 > bar.ema50 /\ bar.close > bar.ema20 -> "BULL"
    [] bar.ema20 < bar.ema50 /\ bar.close < bar.ema20 -> "BEAR"
    [] OTHER -> "NEUTRAL"

Share(frames, tf, direction) == IF Direction(frames[tf]) = direction THEN Weight[tf] ELSE 0
Votes(frames, direction) ==
  Share(frames, "D1", direction) + Share(frames, "H4", direction) + Share(frames, "H1", direction)
    + Share(frames, "M30", direction)

\* trendConfidence, in tenths.
Confidence(bar) == IF bar.adx < 20 THEN 3 ELSE IF bar.adx <= 30 THEN 6 ELSE 9
Strength(frames) ==
  LET part(tf) == IF Direction(frames[tf]) = "NEUTRAL" THEN 0 ELSE Weight[tf] * Confidence(frames[tf])
  IN part("D1") + part("H4") + part("H1") + part("M30")

TrendContext(frames) ==
  LET bull == Votes(frames, "BULL")
      bear == Votes(frames, "BEAR")
  IN [consensus |-> IF bull > bear THEN "BULL" ELSE IF bear > bull THEN "BEAR" ELSE "NEUTRAL",
      strength |-> Strength(frames)]

-----------------------------------------------------------------------------
(* What is shown. *)

\* configuredMaxSpread: the tick's limit, then the heartbeat's; 0 leaves the built-in one.
MaxSpread(stored) ==
  IF stored.tick.maxSpread > 0 THEN stored.tick.maxSpread
  ELSE IF stored.heartbeat.maxSpread > 0 THEN stored.heartbeat.maxSpread ELSE 0

\* holdSecondsFromOpenTime: the time a position was opened is of the terminal's clock, so that
\* a broker ahead of UTC makes a new position younger than nothing.
HeldFor(q, now) == IF q.opened <= 0 THEN 0 ELSE now - q.opened

\* normalizeAnalysisPosition.
ShownPosition(q, now) ==
  [ticket |-> q.ticket, strategy |-> Strategy(q), class |-> OrderClass(q), type |-> q.type,
   held |-> HeldFor(q, now)]

\* analysisPayload: the market's status is of the server's clock, while the market filters
\* are given the tick's own time.
Payload(stored, now) ==
  [status |-> MarketStatus(stored, now),
   filtered |-> [open |-> stored.heartbeat.open = "true", allowed |-> stored.heartbeat.allowed = "true",
                 lastTick |-> IF stored.tick.kind = "none" THEN 0
                              ELSE IF stored.tick.kind = "time" THEN -1 ELSE stored.tick.clock],
   maxSpread |-> MaxSpread(stored),
   positions |-> {ShownPosition(q, now) : q \in stored.positions},
   indicators |-> Packed(stored.frames),
   trend |-> TrendContext(EnrichedFrames(stored))]

\* evaluateSignalMarketFilters: what the filter of the server's own signals is given; only
\* an explicit no closes the market for it, and a tick without any time is of this moment.
LiveRuntime(stored, now) ==
  [open |-> stored.heartbeat.open # "false", allowed |-> stored.heartbeat.allowed # "false",
   lastTick |-> IF stored.tick.at > 0 THEN stored.tick.at
                ELSE IF stored.tick.kind = "none" THEN now
                ELSE IF stored.tick.kind = "time" THEN -1 ELSE stored.tick.clock]
=============================================================================
