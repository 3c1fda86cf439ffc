--------------------------- MODULE LiveSignalsProofs ---------------------------
(***************************************************************************)
(* What the handlers the terminal starts keep up, for any number of them,  *)
(* any positions, charts, quotes, bounds of time and process ends: against *)
(* SQLite no two of them collide, the loss of the day and the spacing of   *)
(* the AI's stops hold, and against either store a breakout that the M30   *)
(* bars confirm was seen before.                                           *)
(***************************************************************************)
EXTENDS LiveSignals, TLAPS

\* Where a handler has not looked at the market yet, where its equity has passed the
\* guard, and where it is about to insert a command.
Early == {"guard", "opening", "analysis"}
Saving == {"save", "adjusting", "moving"}
Passed == {"analysis", "check", "stops", "adjust", "moves", "move", "states"} \cup Saving

Apart(at, last) == last = -1 \/ at - last >= Cooldown

\* A handler in order, given the ids in use, the equities of the days and when stops
\* were queued: what it read is still true when it writes, since it is alone.
InOrder(h, ids, base, queued) ==
  /\ DOMAIN h = DOMAIN Idle
  /\ h.equity \in Nat /\ h.day \in Days
  /\ h.pc \in Early => h.signal = "none"
  /\ scene.store = "sqlite" =>
       /\ h.pc \in Saving => h.id \notin ids
       /\ h.pc = "opening" => h.equity > 0 /\ base[h.day] = 0
       /\ h.pc \in Passed /\ h.equity > 0 => 100 * h.equity > 95 * base[h.day]
       /\ h.pc = "adjusting" => Apart(h.at, queued[Min(h.todo)])

\* Against SQLite one handler is at work.
Exclusive ==
  scene.store = "sqlite" =>
    \A r, q \in Requests : r # q => req[r].pc = "idle" \/ req[q].pc = "idle"

HandlersInOrder ==
  /\ DOMAIN req = Requests
  /\ \A r \in Requests : InOrder(req[r], commands, baseline, queuedAt)
  /\ Exclusive

\* The look that waits is the last one taken, and nobody has answered it.
LookIsLast == look # NoLook => lastLook \in Nat /\ look.at = lastLook /\ ~spent

\* The histories of equities and stops are what the store and the memory say.
HistoriesAgree == firstEquity = baseline /\ lastStop = queuedAt

LiveInv ==
  /\ scene \in Scenes /\ now \in 0..MaxNow /\ heartbeat \in scene.heartbeats
  /\ baseline \in [Days -> Nat]
  /\ HistoriesAgree
  /\ LookIsLast
  /\ HandlersInOrder

-----------------------------------------------------------------------------
(* Days and handlers. *)

\* Every moment up to the last one belongs to a day of the model.
LEMMA DayOfNow ==
  ASSUME NEW t \in 0..MaxNow
  PROVE  Day(t) \in Days
<1>1. MaxNow \in Nat /\ DayLength \in Nat /\ DayLength > 0 /\ t \in Nat /\ t <= MaxNow
  BY LiveSignalsAssumption DEF LiveSignalsAssumption
<1>2. PICK a \in Nat : a = t \div DayLength
  BY <1>1
<1>3. PICK b \in Nat : b = MaxNow \div DayLength
  BY <1>1
<1>4. a * DayLength <= t /\ MaxNow < b * DayLength + DayLength
  BY <1>1, <1>2, <1>3
<1>5. a <= b
  <2> SUFFICES ASSUME a >= b + 1 PROVE FALSE
    OBVIOUS
  <2>1. a * DayLength >= (b + 1) * DayLength
    BY <1>1
  <2>2. (b + 1) * DayLength = b * DayLength + DayLength
    BY <1>1
  <2> QED
    BY <1>1, <1>4, <2>1, <2>2
<1> QED
  BY <1>2, <1>3, <1>5 DEF Day, Days

\* A handler with nothing to do is in order, whatever the store says.
LEMMA IdleInOrder ==
  ASSUME NEW ids, NEW base, NEW queued
  PROVE  InOrder(Idle, ids, base, queued)
<1>1. 0 \in Days
  <2>1. MaxNow \in Nat
    BY LiveSignalsAssumption DEF LiveSignalsAssumption
  <2>2. Day(0) \in Days
    BY <2>1, DayOfNow
  <2>3. Day(0) = 0
    BY LiveSignalsAssumption DEF LiveSignalsAssumption, Day
  <2> QED
    BY <2>2, <2>3
<1> QED
  BY <1>1 DEF InOrder, Idle, Early, Saving, Passed

\* So is one that was idle before.
LEMMA RestInOrder ==
  ASSUME NEW h, NEW ids, NEW base, NEW queued, NEW ids2, NEW base2, NEW queued2,
         InOrder(h, ids, base, queued), h.pc = "idle" \/ scene.store # "sqlite"
  PROVE  InOrder(h, ids2, base2, queued2)
BY DEF InOrder, Early, Saving, Passed

\* A step of one handler: the others, idle against SQLite, stay in order whatever it
\* writes to the store.
LEMMA OneHandlerSteps ==
  ASSUME HandlersInOrder, NEW r \in Requests, Turn(r), UNCHANGED scene,
         NEW h, Step(r, h), InOrder(h, commands', baseline', queuedAt')
  PROVE  HandlersInOrder'
<1>1. /\ DOMAIN req' = Requests /\ req'[r] = h
      /\ \A q \in Requests \ {r} : req'[q] = req[q]
  BY DEF HandlersInOrder, Step
<1>2. \A q \in Requests \ {r} : req[q].pc = "idle" \/ scene.store # "sqlite"
  BY DEF Turn
<1>3. \A q \in Requests : InOrder(req'[q], commands', baseline', queuedAt')
  <2> SUFFICES ASSUME NEW q \in Requests
               PROVE  InOrder(req'[q], commands', baseline', queuedAt')
    OBVIOUS
  <2>1. CASE q = r
    BY <1>1, <2>1
  <2>2. CASE q # r
    BY <1>1, <1>2, <2>2, RestInOrder DEF HandlersInOrder
  <2> QED
    BY <2>1, <2>2
<1>4. \A q \in Requests : InOrder(req[q], commands, baseline, queuedAt)'
  BY <1>3 DEF InOrder
<1>5. Exclusive'
  BY <1>1, <1>2 DEF Exclusive
<1> QED
  BY <1>1, <1>4, <1>5 DEF HandlersInOrder

\* The process ends: every handler is gone.
LEMMA ForgottenInOrder ==
  ASSUME Forget, UNCHANGED scene
  PROVE  HandlersInOrder'
<1>1. req' = [r \in Requests |-> Idle]
  BY DEF Forget
<1>2. \A r \in Requests : InOrder(req'[r], commands', baseline', queuedAt')
  BY <1>1, IdleInOrder
<1>3. \A r \in Requests : InOrder(req[r], commands, baseline, queuedAt)'
  BY <1>2 DEF InOrder
<1>4. Exclusive'
  BY <1>1 DEF Exclusive, Idle
<1> QED
  BY <1>1, <1>3, <1>4 DEF HandlersInOrder

-----------------------------------------------------------------------------
(* The steps of a handler. *)

\* A handler starts, or is told of a position that is gone, while all are idle.
LEMMA BeginKeeps ==
  ASSUME LiveInv, NEW r \in Requests, NEW kind, Begin(r, kind)
  PROVE  HandlersInOrder'
<1> DEFINE h == [Idle EXCEPT !.pc = "guard", !.kind = kind, !.equity = heartbeat.equity, !.day = Day(now)]
<1>1. heartbeat.equity \in Nat /\ Day(now) \in Days
  <2>1. SceneShape(scene)
    BY LiveSignalsAssumption DEF LiveSignalsAssumption, LiveInv
  <2> QED
    BY <2>1, DayOfNow DEF SceneShape, LiveInv
<1>2. /\ DOMAIN h = DOMAIN Idle /\ h.pc = "guard" /\ h.signal = "none"
      /\ h.equity = heartbeat.equity /\ h.day = Day(now)
  BY DEF Idle
<1> HIDE DEF h
<1>3. InOrder(h, commands', baseline', queuedAt')
  BY <1>1, <1>2 DEF InOrder, Early, Saving, Passed
<1>4. Step(r, h) /\ Turn(r) /\ UNCHANGED scene
  BY DEF Begin, Quiet, Turn, outside, h
<1> QED
  BY <1>3, <1>4, OneHandlerSteps DEF LiveInv

\* The handler of an error 4108 has no equity that could be drawn.
LEMMA BeginCleanupKeeps ==
  ASSUME LiveInv, NEW r \in Requests, NEW t, BeginCleanup(r, t)
  PROVE  HandlersInOrder'
<1> DEFINE h == [Idle EXCEPT !.pc = "ghost", !.kind = "cleanup",
                   !.taken = {s \in Tickets \ {t} : states[s] # "none"}]
<1>1. /\ DOMAIN h = DOMAIN Idle /\ h.pc = "ghost" /\ h.equity = Idle.equity /\ h.day = Idle.day
  BY DEF Idle
<1> HIDE DEF h
<1>2. InOrder(Idle, commands', baseline', queuedAt')
  BY IdleInOrder
<1>3. InOrder(h, commands', baseline', queuedAt')
  BY <1>1, <1>2 DEF InOrder, Early, Saving, Passed
<1>4. Step(r, h) /\ Turn(r) /\ UNCHANGED scene
  BY DEF BeginCleanup, Quiet, Turn, outside, h
<1> QED
  BY <1>3, <1>4, OneHandlerSteps DEF LiveInv

\* A handler moves on, its equity and day kept, to a step that queues nothing, or ends.
Onward(h, k) ==
  \/ k = Idle
  \/ /\ h.pc \in Passed
     /\ DOMAIN k = DOMAIN h /\ k.equity = h.equity /\ k.day = h.day
     /\ k.pc \in Passed \ (Saving \cup Early)

\* Such a step keeps the handlers in order, whatever ids and times it writes.
LEMMA OnwardKeeps ==
  ASSUME LiveInv, NEW r \in Requests, Turn(r), UNCHANGED <<scene, baseline>>,
         NEW k, Step(r, k), Onward(req[r], k)
  PROVE  HandlersInOrder'
<1>1. InOrder(req[r], commands, baseline, queuedAt)
  BY DEF LiveInv, HandlersInOrder
<1>2. InOrder(k, commands', baseline', queuedAt')
  <2>1. CASE k = Idle
    BY <2>1, IdleInOrder
  <2>2. CASE k # Idle
    BY <1>1, <2>2 DEF InOrder, Onward, Passed, Saving, Early
  <2> QED
    BY <2>1, <2>2
<1> QED
  BY <1>2, OneHandlerSteps DEF LiveInv

\* What the guard lets through has not lost five percent.
LEMMA GuardKeeps ==
  ASSUME LiveInv, NEW r \in Requests, Guard(r)
  PROVE  HandlersInOrder'
<1> DEFINE start == baseline[req[r].day]
           equity == req[r].equity
<1>1. /\ InOrder(req[r], commands, baseline, queuedAt) /\ req[r].pc = "guard"
      /\ start \in Nat /\ equity \in Nat /\ req[r].signal = "none"
      /\ UNCHANGED <<scene, commands, baseline, queuedAt>>
  BY DEF LiveInv, HandlersInOrder, InOrder, Early, Guard, outside, stored, memory
<1>2. \A pc : /\ DOMAIN At(r, pc) = DOMAIN Idle /\ At(r, pc).pc = pc /\ At(r, pc).equity = equity
              /\ At(r, pc).day = req[r].day /\ At(r, pc).signal = "none"
  BY <1>1 DEF At, InOrder, Idle
<1>3. Turn(r)
  BY DEF Guard
<1>4. CASE Step(r, At(r, "analysis")) /\ (equity = 0 \/ ~Drawn(equity, start))
  <2>1. equity > 0 => 100 * equity > 95 * start
    BY <1>1, <1>4 DEF Drawn
  <2>2. InOrder(At(r, "analysis"), commands', baseline', queuedAt')
    BY <1>1, <1>2, <2>1 DEF InOrder, Early, Saving, Passed
  <2> QED
    BY <1>1, <1>3, <1>4, <2>2, OneHandlerSteps DEF LiveInv
<1>5. CASE Step(r, At(r, "opening")) /\ equity # 0 /\ start = 0
  <2>1. InOrder(At(r, "opening"), commands', baseline', queuedAt')
    BY <1>1, <1>2, <1>5 DEF InOrder, Early, Saving, Passed
  <2> QED
    BY <1>1, <1>3, <1>5, <2>1, OneHandlerSteps DEF LiveInv
<1>6. CASE Step(r, Idle)
  BY <1>1, <1>3, <1>6, IdleInOrder, OneHandlerSteps DEF LiveInv
<1> QED
  BY <1>4, <1>5, <1>6 DEF Guard

\* The first equity of a day is the one it is measured against.
LEMMA OpeningKeeps ==
  ASSUME LiveInv, NEW r \in Requests, Opening(r)
  PROVE  HandlersInOrder' /\ baseline' \in [Days -> Nat] /\ firstEquity' = baseline'
<1> DEFINE day == req[r].day
           equity == req[r].equity
<1>1. /\ InOrder(req[r], commands, baseline, queuedAt) /\ req[r].pc = "opening"
      /\ day \in Days /\ equity \in Nat /\ req[r].signal = "none"
      /\ UNCHANGED <<scene, commands, queuedAt>> /\ Turn(r)
  BY DEF LiveInv, HandlersInOrder, InOrder, Early, Opening, outside, memory
<1>2. /\ DOMAIN At(r, "analysis") = DOMAIN Idle /\ At(r, "analysis").pc = "analysis"
      /\ At(r, "analysis").equity = equity /\ At(r, "analysis").day = day
      /\ At(r, "analysis").signal = "none"
  BY <1>1 DEF At, InOrder, Idle
<1>3. baseline' \in [Days -> Nat] /\ (baseline[day] = 0 => baseline'[day] = equity)
  BY <1>1 DEF Opening, FirstWrite, LiveInv
<1>4. firstEquity' = baseline'
  BY DEF Opening, FirstWrite, LiveInv, HistoriesAgree
<1>5. InOrder(At(r, "analysis"), commands', baseline', queuedAt')
  BY <1>1, <1>2, <1>3 DEF InOrder, Early, Saving, Passed
<1> QED
  BY <1>1, <1>3, <1>4, <1>5, OneHandlerSteps DEF Opening, LiveInv

\* What becomes of a handler at its next step, field by field.
LEMMA NextStep ==
  ASSUME LiveInv, NEW r \in Requests, NEW pc
  PROVE  /\ DOMAIN At(r, pc) = DOMAIN req[r]
         /\ At(r, pc).pc = pc /\ At(r, pc).equity = req[r].equity /\ At(r, pc).day = req[r].day
         /\ At(r, pc).signal = req[r].signal /\ At(r, pc).todo = req[r].todo
BY DEF LiveInv, HandlersInOrder, InOrder, At, Idle

\* The fields of a handler that its steps set beside the next one.
LEMMA FieldsSet ==
  ASSUME NEW h, DOMAIN h = DOMAIN Idle, NEW signal, NEW taken, NEW todo, NEW at, NEW id
  PROVE  /\ LET k == [h EXCEPT !.taken = taken]
            IN  DOMAIN k = DOMAIN h /\ k.pc = h.pc /\ k.equity = h.equity /\ k.day = h.day
         /\ LET k == [h EXCEPT !.signal = signal, !.taken = taken]
            IN  DOMAIN k = DOMAIN h /\ k.pc = h.pc /\ k.equity = h.equity /\ k.day = h.day
         /\ LET k == [h EXCEPT !.todo = todo]
            IN  DOMAIN k = DOMAIN h /\ k.pc = h.pc /\ k.equity = h.equity /\ k.day = h.day
         /\ LET k == [h EXCEPT !.todo = todo, !.at = at]
            IN  DOMAIN k = DOMAIN h /\ k.pc = h.pc /\ k.equity = h.equity /\ k.day = h.day
         /\ LET k == [h EXCEPT !.id = id]
            IN  DOMAIN k = DOMAIN h /\ k.pc = h.pc /\ k.equity = h.equity /\ k.day = h.day
                /\ k.id = id /\ k.signal = h.signal
         /\ LET k == [h EXCEPT !.id = id, !.at = at]
            IN  DOMAIN k = DOMAIN h /\ k.pc = h.pc /\ k.equity = h.equity /\ k.day = h.day
                /\ k.id = id /\ k.at = at /\ k.todo = h.todo
BY DEF Idle

\* The steps after the guard that write nothing to the tables of commands and equities.
LEMMA AnalysisKeeps ==
  ASSUME LiveInv, NEW r \in Requests, Analysis(r)
  PROVE  HandlersInOrder'
<1> DEFINE taken == DOMAIN positions.stops
           one == [At(r, "stops") EXCEPT !.taken = taken]
           two(s) == [At(r, "check") EXCEPT !.signal = s, !.taken = taken]
<1>1. req[r].pc = "analysis" /\ Turn(r) /\ UNCHANGED <<scene, baseline>>
      /\ DOMAIN req[r] = DOMAIN Idle
  BY DEF Analysis, outside, stored, LiveInv, HandlersInOrder, InOrder
<1>2. Onward(req[r], one) /\ \A s : Onward(req[r], two(s))
  <2>1. Onward(req[r], one)
    BY <1>1, NextStep, FieldsSet DEF Onward, Passed, Saving, Early
  <2>2. ASSUME NEW s PROVE Onward(req[r], two(s))
    <3>1. DOMAIN At(r, "check") = DOMAIN Idle
      BY <1>1, NextStep
    <3> DEFINE h == At(r, "check")
               k == [h EXCEPT !.signal = s, !.taken = taken]
    <3>2. DOMAIN k = DOMAIN h /\ k.pc = h.pc /\ k.equity = h.equity /\ k.day = h.day
      BY <3>1, FieldsSet
    <3>3. h.pc = "check" /\ h.equity = req[r].equity /\ h.day = req[r].day
          /\ DOMAIN h = DOMAIN req[r]
      BY NextStep
    <3>4. two(s) = k
      OBVIOUS
    <3> HIDE DEF h, k, two
    <3> QED
      BY <1>1, <3>2, <3>3, <3>4 DEF Onward, Passed, Saving, Early
  <2> HIDE DEF one, two
  <2> QED
    BY <2>1, <2>2
<1>3. Onward(req[r], Idle)
  BY DEF Onward
<1>4. Step(r, Idle) \/ Step(r, one) \/ \E s : Step(r, two(s))
  BY DEF Analysis
<1> HIDE DEF one, two
<1> QED
  BY <1>1, <1>2, <1>3, <1>4, OnwardKeeps

\* What follows the signal inserts nothing in the same turn.
LEMMA AfterSignalIsOnward ==
  ASSUME LiveInv, NEW r \in Requests, req[r].pc \in Passed
  PROVE  Onward(req[r], AfterSignal(r))
<1>1. AfterSignal(r) \in {At(r, "moves"), Idle}
  BY DEF AfterSignal
<1> QED
  BY <1>1, NextStep DEF Onward, Passed, Saving, Early

\* The id of a signal is looked up in the turn that goes on to insert it.
LEMMA CheckKeeps ==
  ASSUME LiveInv, NEW r \in Requests, Check(r)
  PROVE  HandlersInOrder'
<1> DEFINE id == <<"signal", req[r].signal, newest>>
           k == [At(r, "save") EXCEPT !.id = id]
<1>1. /\ req[r].pc = "check" /\ Turn(r) /\ UNCHANGED <<scene, baseline, commands, queuedAt>>
      /\ InOrder(req[r], commands, baseline, queuedAt)
  BY DEF Check, outside, stored, memory, LiveInv, HandlersInOrder
<1>2. CASE NewSignal(r, id) /\ Step(r, k)
  <2>1. DOMAIN k = DOMAIN Idle /\ k.pc = "save" /\ k.equity = req[r].equity /\ k.day = req[r].day
        /\ k.id = id
    BY <1>1, NextStep, FieldsSet DEF InOrder
  <2>2. id \notin commands
    BY <1>2 DEF NewSignal
  <2> HIDE DEF id, k
  <2>3. InOrder(k, commands', baseline', queuedAt')
    BY <1>1, <2>1, <2>2 DEF InOrder, Passed, Saving, Early
  <2> QED
    BY <1>1, <1>2, <2>3, OneHandlerSteps DEF LiveInv
<1>3. CASE Step(r, AfterSignal(r))
  BY <1>1, <1>3, AfterSignalIsOnward, OnwardKeeps DEF Passed
<1> QED
  BY <1>2, <1>3 DEF Check

\* An insert ends the process or goes on.
LEMMA InsertKeeps ==
  ASSUME LiveInv, NEW r \in Requests, Turn(r), UNCHANGED <<scene, baseline>>,
         NEW k, Insert(r, k), Onward(req[r], k)
  PROVE  HandlersInOrder'
BY ForgottenInOrder, OnwardKeeps DEF Insert

\* The command of a signal is inserted.
LEMMA SaveKeeps ==
  ASSUME LiveInv, NEW r \in Requests, Save(r)
  PROVE  HandlersInOrder'
<1>1. req[r].pc \in Passed /\ Turn(r) /\ UNCHANGED <<scene, baseline>> /\ Insert(r, AfterSignal(r))
  BY DEF Save, outside, Passed, Saving
<1> QED
  BY <1>1, AfterSignalIsOnward, InsertKeeps

\* The stops the AI suggested are chosen.
LEMMA BeginStopsKeeps ==
  ASSUME LiveInv, NEW r \in Requests, BeginStops(r)
  PROVE  HandlersInOrder'
<1> DEFINE todo == {t \in DOMAIN positions.stops : StopReady(t) /\ StopImproves(t)}
           k == [At(r, AdjustOr(todo)) EXCEPT !.todo = todo]
<1>1. /\ req[r].pc = "stops" /\ Turn(r) /\ UNCHANGED <<scene, baseline>> /\ Step(r, k)
      /\ DOMAIN req[r] = DOMAIN Idle
  BY DEF BeginStops, outside, stored, LiveInv, HandlersInOrder, InOrder
<1> HIDE DEF todo
<1>2. AdjustOr(todo) \in {"moves", "adjust"}
  BY DEF AdjustOr
<1>3. Onward(req[r], k)
  BY <1>1, <1>2, NextStep, FieldsSet DEF Onward, Passed, Saving, Early
<1> QED
  BY <1>1, <1>3, OnwardKeeps

\* The id and the spacing of a stop are looked up in the turn that goes on to insert it.
LEMMA AdjustKeeps ==
  ASSUME LiveInv, NEW r \in Requests, Adjust(r)
  PROVE  HandlersInOrder'
<1> DEFINE t == Min(req[r].todo)
           id == <<"stop", t, now>>
           rest == req[r].todo \ {t}
           one == [At(r, "adjusting") EXCEPT !.id = id, !.at = now]
           two == [At(r, AdjustOr(rest)) EXCEPT !.todo = rest]
<1>1. /\ req[r].pc = "adjust" /\ Turn(r) /\ UNCHANGED <<scene, baseline, commands, queuedAt>>
      /\ InOrder(req[r], commands, baseline, queuedAt)
  BY DEF Adjust, outside, stored, memory, LiveInv, HandlersInOrder
<1>2. \/ id \notin commands /\ Spaced(t) /\ Step(r, one)
      \/ Step(r, two)
  BY DEF Adjust
<1>3. CASE id \notin commands /\ Spaced(t) /\ Step(r, one)
  <2>1. DOMAIN one = DOMAIN Idle /\ one.pc = "adjusting" /\ one.equity = req[r].equity
        /\ one.day = req[r].day /\ one.id = id /\ one.at = now /\ one.todo = req[r].todo
    BY <1>1, NextStep, FieldsSet DEF InOrder
  <2>2. Apart(now, queuedAt[t])
    BY <1>3 DEF Spaced, Apart
  <2>3. Apart(one.at, queuedAt'[Min(one.todo)])
    BY <1>1, <2>1, <2>2
  <2>4. one.id \notin commands'
    BY <1>1, <1>3, <2>1
  <2> HIDE DEF one
  <2>5. InOrder(one, commands', baseline', queuedAt')
    BY <1>1, <2>1, <2>3, <2>4 DEF InOrder, Passed, Saving, Early
  <2> QED
    BY <1>1, <1>3, <2>5, OneHandlerSteps DEF LiveInv
<1>4. CASE Step(r, two)
  <2> HIDE DEF rest
  <2>1. AdjustOr(rest) \in {"moves", "adjust"}
    BY DEF AdjustOr
  <2>2. Onward(req[r], two)
    BY <1>1, <2>1, NextStep, FieldsSet DEF InOrder, Onward, Passed, Saving, Early
  <2> QED
    BY <1>1, <1>4, <2>2, OnwardKeeps
<1> QED
  BY <1>2, <1>3, <1>4

\* A stop of the AI is inserted, and its time is remembered.
LEMMA AdjustingKeeps ==
  ASSUME LiveInv, NEW r \in Requests, Adjusting(r)
  PROVE  HandlersInOrder'
<1> DEFINE rest == req[r].todo \ {Min(req[r].todo)}
           k == [At(r, AdjustOr(rest)) EXCEPT !.todo = rest]
<1>1. /\ req[r].pc = "adjusting" /\ Turn(r) /\ UNCHANGED <<scene, baseline>> /\ Insert(r, k)
      /\ DOMAIN req[r] = DOMAIN Idle
  BY DEF Adjusting, outside, LiveInv, HandlersInOrder, InOrder
<1> HIDE DEF rest
<1>2. AdjustOr(rest) \in {"moves", "adjust"}
  BY DEF AdjustOr
<1>3. Onward(req[r], k)
  BY <1>1, <1>2, NextStep, FieldsSet DEF Onward, Passed, Saving, Early
<1> QED
  BY <1>1, <1>3, InsertKeeps

\* The position manager's commands are chosen.
LEMMA BeginMovesKeeps ==
  ASSUME LiveInv, NEW r \in Requests, BeginMoves(r)
  PROVE  HandlersInOrder'
<1>1. PICK s : Step(r, [At(r, MoveOr(s)) EXCEPT !.todo = s, !.at = now])
  BY DEF BeginMoves
<1> DEFINE k == [At(r, MoveOr(s)) EXCEPT !.todo = s, !.at = now]
<1>2. /\ req[r].pc = "moves" /\ Turn(r) /\ UNCHANGED <<scene, baseline>>
      /\ DOMAIN req[r] = DOMAIN Idle
  BY DEF BeginMoves, outside, stored, LiveInv, HandlersInOrder, InOrder
<1>3. MoveOr(s) \in {"states", "move"}
  BY DEF MoveOr
<1>4. Onward(req[r], k)
  BY <1>2, <1>3, NextStep, FieldsSet DEF Onward, Passed, Saving, Early
<1> QED
  BY <1>1, <1>2, <1>4, OnwardKeeps

\* Their ids are looked up one by one,
LEMMA MoveKeeps ==
  ASSUME LiveInv, NEW r \in Requests, Move(r)
  PROVE  HandlersInOrder'
<1> DEFINE id == <<"pm", Min(req[r].todo), req[r].at>>
           rest == req[r].todo \ {Min(req[r].todo)}
           one == [At(r, MoveOr(rest)) EXCEPT !.todo = rest]
           two == [At(r, "moving") EXCEPT !.id = id]
<1>1. /\ req[r].pc = "move" /\ Turn(r) /\ UNCHANGED <<scene, baseline, commands, queuedAt>>
      /\ InOrder(req[r], commands, baseline, queuedAt)
  BY DEF Move, outside, stored, memory, LiveInv, HandlersInOrder
<1>2. \/ Step(r, one)
      \/ id \notin commands /\ Step(r, two)
  BY DEF Move
<1> HIDE DEF id, rest
<1>3. CASE Step(r, one)
  <2>1. MoveOr(rest) \in {"states", "move"}
    BY DEF MoveOr
  <2>2. Onward(req[r], one)
    BY <1>1, <2>1, NextStep, FieldsSet DEF InOrder, Onward, Passed, Saving, Early
  <2> QED
    BY <1>1, <1>3, <2>2, OnwardKeeps
<1>4. CASE id \notin commands /\ Step(r, two)
  <2>1. DOMAIN two = DOMAIN Idle /\ two.pc = "moving" /\ two.equity = req[r].equity
        /\ two.day = req[r].day /\ two.id = id
    BY <1>1, NextStep, FieldsSet DEF InOrder
  <2> HIDE DEF two
  <2>2. InOrder(two, commands', baseline', queuedAt')
    BY <1>1, <1>4, <2>1 DEF InOrder, Passed, Saving, Early
  <2> QED
    BY <1>1, <1>4, <2>2, OneHandlerSteps DEF LiveInv
<1> QED
  BY <1>2, <1>3, <1>4

\* and each is inserted in the next turn.
LEMMA MovingKeeps ==
  ASSUME LiveInv, NEW r \in Requests, Moving(r)
  PROVE  HandlersInOrder'
<1> DEFINE rest == req[r].todo \ {Min(req[r].todo)}
           k == [At(r, MoveOr(rest)) EXCEPT !.todo = rest]
<1>1. /\ req[r].pc = "moving" /\ Turn(r) /\ UNCHANGED <<scene, baseline>> /\ Insert(r, k)
      /\ DOMAIN req[r] = DOMAIN Idle
  BY DEF Moving, outside, LiveInv, HandlersInOrder, InOrder
<1> HIDE DEF rest
<1>2. MoveOr(rest) \in {"states", "move"}
  BY DEF MoveOr
<1>3. Onward(req[r], k)
  BY <1>1, <1>2, NextStep, FieldsSet DEF Onward, Passed, Saving, Early
<1> QED
  BY <1>1, <1>3, InsertKeeps

\* The handlers that write the states of positions end with it.
LEMMA StatesKeep ==
  ASSUME LiveInv, NEW r \in Requests, PersistStates(r) \/ Cleanup(r)
  PROVE  HandlersInOrder'
<1>1. Turn(r) /\ UNCHANGED <<scene, baseline>> /\ Step(r, Idle)
  BY DEF PersistStates, Cleanup, outside
<1> QED
  BY <1>1, OnwardKeeps DEF Onward

\* A step of no handler leaves them in order.
LEMMA OthersKeep ==
  ASSUME LiveInv, UNCHANGED <<scene, baseline, commands, queuedAt, req>>
  PROVE  HandlersInOrder'
BY DEF LiveInv, HandlersInOrder, InOrder, Exclusive

-----------------------------------------------------------------------------
(* The market, the looks and the histories. *)

Surroundings ==
  /\ scene \in Scenes /\ now \in 0..MaxNow /\ heartbeat \in scene.heartbeats
  /\ baseline \in [Days -> Nat]
  /\ HistoriesAgree
  /\ LookIsLast

\* Most steps leave all of this alone.
LEMMA SurroundingsStay ==
  ASSUME Surroundings,
         UNCHANGED <<scene, now, heartbeat, baseline, firstEquity, queuedAt, lastStop,
                     look, lastLook, spent>>
  PROVE  Surroundings'
BY DEF Surroundings, HistoriesAgree, LookIsLast

\* The process ends: the looks and the spacing are forgotten, the equities are not.
LEMMA ForgettingKeeps ==
  ASSUME Surroundings, Forget,
         UNCHANGED <<scene, now, heartbeat, baseline, firstEquity, lastLook, spent>>
  PROVE  Surroundings'
BY DEF Surroundings, HistoriesAgree, LookIsLast, Forget

\* A look is answered, or waits from now on.
LEMMA LookKeeps ==
  ASSUME Surroundings, Look,
         UNCHANGED <<scene, now, heartbeat, baseline, firstEquity, queuedAt, lastStop>>
  PROVE  Surroundings'
<1>1. now \in Nat
  BY LiveSignalsAssumption DEF LiveSignalsAssumption, Surroundings
<1>2. LookIsLast'
  <2>1. CASE UNCHANGED <<look, lastLook, spent>>
    BY <2>1 DEF Surroundings, LookIsLast
  <2>2. CASE look' = NoLook
    BY <2>2 DEF LookIsLast, NoLook
  <2>3. CASE look' = [level |-> chart.band, at |-> now] /\ lastLook' = now /\ spent' = FALSE
    BY <1>1, <2>3 DEF LookIsLast
  <2> QED
    BY <2>1, <2>2, <2>3 DEF Look
<1> QED
  BY <1>2 DEF Surroundings, HistoriesAgree

\* An insert changes the spacing together with its history, or ends the process.
LEMMA InsertsKeep ==
  ASSUME Surroundings, NEW r \in Requests, Save(r) \/ Adjusting(r) \/ Moving(r)
  PROVE  Surroundings'
<1>1. UNCHANGED <<scene, now, heartbeat, baseline, firstEquity, lastLook, spent>>
  BY DEF Save, Adjusting, Moving, outside
<1>2. CASE req[r].id \in commands
  <2>1. Forget
    BY <1>2 DEF Save, Adjusting, Moving, Insert
  <2> QED
    BY <1>1, <2>1, ForgettingKeeps
<1>3. CASE req[r].id \notin commands
  <2>1. UNCHANGED look
    BY <1>3 DEF Save, Adjusting, Moving, Insert
  <2>2. lastStop' = queuedAt'
    BY <1>3 DEF Save, Adjusting, Moving, Surroundings, HistoriesAgree
  <2> QED
    BY <1>1, <2>1, <2>2 DEF Surroundings, HistoriesAgree, LookIsLast
<1> QED
  BY <1>2, <1>3

\* The clock and the terminal's posts.
LEMMA PostsKeep ==
  ASSUME Surroundings, PostHeartbeat \/ PostBars \/ PostTick \/ PostPositions \/ Tick
  PROVE  Surroundings'
<1>1. UNCHANGED <<scene, baseline, firstEquity, queuedAt, lastStop, look, lastLook, spent>>
  BY DEF PostHeartbeat, PostBars, PostTick, PostPositions, Tick, Change, stored, memory, history
<1>2. now' \in 0..MaxNow
  BY LiveSignalsAssumption
     DEF LiveSignalsAssumption, Surroundings, PostHeartbeat, PostBars, PostTick, PostPositions, Tick, Change
<1>3. heartbeat' \in scene.heartbeats
  BY DEF Surroundings, PostHeartbeat, PostBars, PostTick, PostPositions, Tick
<1> QED
  BY <1>1, <1>2, <1>3 DEF Surroundings, HistoriesAgree, LookIsLast

-----------------------------------------------------------------------------
(* The invariant. *)

\* A step of a handler.
Handling(r) ==
  \/ Begin(r, "bars") \/ Begin(r, "positions")
  \/ Guard(r) \/ Opening(r) \/ Analysis(r) \/ Check(r) \/ Save(r)
  \/ BeginStops(r) \/ Adjust(r) \/ Adjusting(r)
  \/ BeginMoves(r) \/ Move(r) \/ Moving(r) \/ PersistStates(r)
  \/ Cleanup(r) \/ \E t \in Tickets : BeginCleanup(r, t)

\* It begins true.
LEMMA InitLive == Init => LiveInv
<1> SUFFICES ASSUME Init PROVE LiveInv
  OBVIOUS
<1>1. HandlersInOrder
  <2>1. \A r \in Requests : InOrder(Idle, commands, baseline, queuedAt)
    BY IdleInOrder
  <2> QED
    BY <2>1 DEF Init, HandlersInOrder, Exclusive, Idle
<1>2. now \in 0..MaxNow
  BY LiveSignalsAssumption DEF LiveSignalsAssumption, Init
<1> QED
  BY <1>1, <1>2 DEF Init, LiveInv, HistoriesAgree, LookIsLast

\* Each step of a handler keeps it.
LEMMA HandlerKeeps ==
  ASSUME LiveInv, NEW r \in Requests, Handling(r)
  PROVE  LiveInv'
<1> SUFFICES HandlersInOrder' /\ Surroundings'
  BY DEF LiveInv, Surroundings
<1>0. Surroundings
  BY DEF LiveInv, Surroundings
<1>1. CASE Begin(r, "bars") \/ Begin(r, "positions")
  <2>1. UNCHANGED <<outside, stored, memory, history>>
    BY <1>1 DEF Begin
  <2> QED
    BY <1>0, <1>1, <2>1, BeginKeeps, SurroundingsStay DEF outside, stored, memory, history
<1>2. CASE Guard(r)
  <2>1. UNCHANGED <<outside, stored, memory, history>>
    BY <1>2 DEF Guard
  <2> QED
    BY <1>0, <1>2, <2>1, GuardKeeps, SurroundingsStay DEF outside, stored, memory, history
<1>3. CASE Opening(r)
  <2>1. UNCHANGED <<outside, memory, lastLook, lastStop, spent>>
    BY <1>3 DEF Opening
  <2>2. HandlersInOrder' /\ baseline' \in [Days -> Nat] /\ firstEquity' = baseline'
    BY <1>3, OpeningKeeps
  <2> QED
    BY <1>0, <2>1, <2>2 DEF outside, memory, Surroundings, HistoriesAgree, LookIsLast
<1>4. CASE Analysis(r)
  <2>1. Look /\ UNCHANGED <<outside, stored, queuedAt, firstEquity, lastStop>>
    BY <1>4 DEF Analysis
  <2> QED
    BY <1>0, <1>4, <2>1, AnalysisKeeps, LookKeeps DEF outside, stored
<1>5. CASE Check(r)
  <2>1. UNCHANGED <<outside, stored, memory, history>>
    BY <1>5 DEF Check
  <2> QED
    BY <1>0, <1>5, <2>1, CheckKeeps, SurroundingsStay DEF outside, stored, memory, history
<1>6. CASE Save(r) \/ Adjusting(r) \/ Moving(r)
  BY <1>0, <1>6, SaveKeeps, AdjustingKeeps, MovingKeeps, InsertsKeep
<1>7. CASE BeginStops(r) \/ BeginMoves(r)
  <2>1. UNCHANGED <<outside, stored, memory, history>>
    BY <1>7 DEF BeginStops, BeginMoves
  <2> QED
    BY <1>0, <1>7, <2>1, BeginStopsKeeps, BeginMovesKeeps, SurroundingsStay
       DEF outside, stored, memory, history
<1>8. CASE Adjust(r) \/ Move(r)
  <2>1. UNCHANGED <<outside, stored, memory, history>>
    BY <1>8 DEF Adjust, Move
  <2> QED
    BY <1>0, <1>8, <2>1, AdjustKeeps, MoveKeeps, SurroundingsStay DEF outside, stored, memory, history
<1>9. CASE PersistStates(r) \/ Cleanup(r)
  <2>1. UNCHANGED <<outside, baseline, memory, history>>
    BY <1>9 DEF PersistStates, Cleanup
  <2> QED
    BY <1>0, <1>9, <2>1, StatesKeep, SurroundingsStay DEF outside, memory, history
<1>10. CASE \E t \in Tickets : BeginCleanup(r, t)
  <2>1. PICK t \in Tickets : BeginCleanup(r, t)
    BY <1>10
  <2>2. UNCHANGED <<outside, stored, memory, history>>
    BY <2>1 DEF BeginCleanup
  <2> QED
    BY <1>0, <2>1, <2>2, BeginCleanupKeeps, SurroundingsStay DEF outside, stored, memory, history
<1> QED
  BY <1>1, <1>2, <1>3, <1>4, <1>5, <1>6, <1>7, <1>8, <1>9, <1>10 DEF Handling

\* So does every other step.
LEMMA LiveKept == LiveInv /\ [Next]_vars => LiveInv'
<1> SUFFICES ASSUME LiveInv, [Next]_vars PROVE LiveInv'
  OBVIOUS
<1>0. Surroundings /\ (HandlersInOrder' /\ Surroundings' => LiveInv')
  BY DEF LiveInv, Surroundings
<1>1. ASSUME NEW r \in Requests, Handling(r)
      PROVE  LiveInv'
  BY <1>1, HandlerKeeps
<1>2. CASE TradingCoreAnalysis
  <2>1. Look /\ UNCHANGED <<outside, stored, queuedAt, req, firstEquity, lastStop>>
    BY <1>2 DEF TradingCoreAnalysis
  <2> QED
    BY <1>0, <2>1, LookKeeps, OthersKeep DEF outside, stored
<1>3. CASE PostHeartbeat \/ PostBars \/ PostTick \/ PostPositions \/ Tick
  <2>1. UNCHANGED <<scene, stored, memory, req>>
    BY <1>3 DEF PostHeartbeat, PostBars, PostTick, PostPositions, Tick, Change
  <2> QED
    BY <1>0, <1>3, <2>1, PostsKeep, OthersKeep DEF stored, memory
<1>4. CASE Restart
  <2>1. Forget /\ UNCHANGED <<outside, stored, firstEquity, lastLook, spent>>
    BY <1>4 DEF Restart
  <2> QED
    BY <1>0, <2>1, ForgettingKeeps, ForgottenInOrder DEF outside, stored
<1>5. CASE UNCHANGED vars
  <2>1. UNCHANGED <<outside, stored, memory, req, history>>
    BY <1>5 DEF vars
  <2> QED
    BY <1>0, <2>1, SurroundingsStay, OthersKeep DEF outside, stored, memory, history
<1> QED
  BY <1>1, <1>2, <1>3, <1>4, <1>5 DEF Next, Handling

\* The invariant of the handlers: alone against SQLite, with ids, equities and spacing
\* that hold until they have written (app.ts, services/analysis).
THEOREM HandlersStayInOrder == Spec => []LiveInv
<1>1. Init => LiveInv
  BY InitLive
<1>2. LiveInv /\ [Next]_vars => LiveInv'
  BY LiveKept
<1> QED
  BY <1>1, <1>2, PTL DEF Spec

-----------------------------------------------------------------------------
(* What follows from it. *)

\* An id that is about to be inserted into SQLite's table is not there, whatever requests
\* the terminal started before.
THEOREM NoCollision == Spec => []HandlersNeverCollide
<1>1. LiveInv => HandlersNeverCollide
  BY DEF LiveInv, HandlersInOrder, InOrder, HandlersNeverCollide, Saving
<1> QED
  BY <1>1, HandlersStayInOrder, PTL

\* A request whose equity is five percent under the first one of its day queues nothing in
\* SQLite, through any number of restarts.
THEOREM DailyLossIsKept == Spec => DailyLossHolds
<1>1. LiveInv =>
        \A r \in Requests :
          scene.store = "sqlite" /\ Queues(r) /\ req[r].equity > 0
            => 100 * req[r].equity > 95 * firstEquity[req[r].day]
  BY DEF LiveInv, HistoriesAgree, HandlersInOrder, InOrder, Queues, Passed, Saving
<1> QED
  BY <1>1, HandlersStayInOrder, PTL DEF DailyLossHolds

\* A stop of the AI is queued in SQLite only a cooldown after the last one of its position
\* in this life of the process.
THEOREM AIStopsStaySpaced == Spec => AIStopsSpaced
<1>1. LiveInv =>
        \A r \in Requests :
          scene.store = "sqlite" /\ Queues(r) /\ req[r].pc = "adjusting"
            => LET last == lastStop[Min(req[r].todo)]
               IN  last = -1 \/ req[r].at - last >= Cooldown
  BY DEF LiveInv, HistoriesAgree, HandlersInOrder, InOrder, Apart
<1> QED
  BY <1>1, HandlersStayInOrder, PTL DEF AIStopsSpaced

\* A handler that has not looked yet has no signal, and only its own look gives it one.
LEMMA SignalIsLookedFor ==
  ASSUME LiveInv, Next, NEW r \in Requests,
         req[r].pc = "analysis", req'[r].signal = "pyramid"
  PROVE  Analysis(r) /\ Confirmed
<1>1. req[r].signal = "none" /\ DOMAIN req = Requests
  BY DEF LiveInv, HandlersInOrder, InOrder, Early
<1>2. req'[r] # req[r] /\ req'[r] # Idle
  BY <1>1 DEF Idle
<1>3. ASSUME NEW q \in Requests, q # r, NEW h, Step(q, h)
      PROVE  FALSE
  BY <1>1, <1>2, <1>3 DEF Step
<1>4. ~Forget
  BY <1>2 DEF Forget
<1>5. req' # req
  BY <1>2
<1>6. \E q \in Requests : Handling(q)
  BY <1>4, <1>5 DEF Next, Handling, TradingCoreAnalysis, PostHeartbeat, PostBars, PostTick, PostPositions, Change, Tick, Restart
<1>7. ASSUME NEW q \in Requests, Handling(q)
      PROVE  \E h : Step(q, h)
  BY <1>4, <1>7 DEF Handling, Begin, Guard, Opening, Analysis, Check, Save, Insert, BeginStops, Adjust, Adjusting,
     BeginMoves, Move, Moving, PersistStates, Cleanup, BeginCleanup
<1>8. Analysis(r)
  <2>1. PICK q \in Requests : Handling(q)
    BY <1>6
  <2>2. q = r
    BY <1>3, <1>7, <2>1
  <2> QED
    BY <2>1, <2>2 DEF Handling, Begin, Guard, Opening, Check, Save, BeginStops, Adjust, Adjusting,
     BeginMoves, Move, Moving, PersistStates, Cleanup, BeginCleanup
<1>9. Confirmed
  <2>1. \/ req'[r] = Idle \/ req'[r] = [At(r, "stops") EXCEPT !.taken = DOMAIN positions.stops]
        \/ \E s \in SignalsOf :
             req'[r] = [At(r, "check") EXCEPT !.signal = s, !.taken = DOMAIN positions.stops]
    BY <1>1, <1>8 DEF Analysis, Step
  <2>2. DOMAIN req[r] = DOMAIN Idle
    BY DEF LiveInv, HandlersInOrder, InOrder
  <2>3. req'[r] # [At(r, "stops") EXCEPT !.taken = DOMAIN positions.stops]
    BY <1>1, <2>2 DEF At, Idle
  <2>4. ASSUME NEW s PROVE [At(r, "check") EXCEPT !.signal = s, !.taken = DOMAIN positions.stops].signal = s
    <3>1. {"signal", "taken"} \subseteq DOMAIN At(r, "check")
      BY <2>2 DEF At, Idle
    <3> QED
      BY <3>1
  <2>5. PICK s \in SignalsOf :
          req'[r] = [At(r, "check") EXCEPT !.signal = s, !.taken = DOMAIN positions.stops]
    BY <1>2, <2>1, <2>3
  <2>6. req'[r].signal = s
    BY <2>4, <2>5
  <2> QED
    BY <2>6 DEF SignalsOf
<1> QED
  BY <1>8, <1>9

\* Against either store and with any number of requests, a breakout becomes a signal only
\* at the second look within an hour, and one look gives one signal.
THEOREM BreakoutIsSeenTwice == Spec => BreakoutSeenTwice
<1>1. ASSUME LiveInv, [Next]_vars
      PROVE  [\A r \in Requests :
                req[r].pc = "analysis" /\ req'[r].signal = "pyramid" /\ chart.m30 > 0
                  => lastLook \in Nat /\ now - lastLook <= Hour /\ ~spent]_vars
  <2> SUFFICES ASSUME Next, NEW r \in Requests,
                      req[r].pc = "analysis", req'[r].signal = "pyramid", chart.m30 > 0
               PROVE  lastLook \in Nat /\ now - lastLook <= Hour /\ ~spent
    BY <1>1
  <2>1. Confirmed
    BY <1>1, SignalIsLookedFor
  <2>2. look # NoLook /\ now - look.at <= Hour
    BY <2>1 DEF Confirmed, Pending
  <2> QED
    BY <1>1, <2>2 DEF LiveInv, LookIsLast
<1> QED
  BY <1>1, HandlersStayInOrder, PTL DEF Spec, BreakoutSeenTwice
=============================================================================
