----------------------------- MODULE PositionReview -----------------------------
(***************************************************************************)
(* The loop that manages open positions: the terminal posts them, the      *)
(* server reviews what was posted, queues commands and stores the states,  *)
(* and the terminal polls and executes.  In between the price moves, stops *)
(* are hit at the broker, positions are added, replies are lost, polls do  *)
(* not arrive and the server ends in the middle of a review.               *)
(*                                                                         *)
(* The store is SQLite: no request comes between the steps of a review, so *)
(* a review is one step unless the process ends in it. The account is      *)
(* live, its commands pass the risk gate, the symbol has no AI stop        *)
(* adjustment and the heartbeat carries no equity. Positions are MT5's,    *)
(* which keep their ticket when a part is closed. The tick the server      *)
(* knows is the one the terminal posts just before the positions, and the  *)
(* broker does what its rules allow.                                       *)
(***************************************************************************)
EXTENDS PositionRules, SequencesExt

CONSTANTS
  LastTicket, \* bound: the tickets the broker gives
  Opened,     \* the positions at the start, by ticket
  AddOn,      \* a position that may be added: its side, lots and stop distance
  Prices,     \* bound: the prices the market takes
  Signs,      \* bound: the moments, in any order, and what the indicators say at them
  StopLevel,  \* the least distance of a stop from the market
  MaxFaults   \* bound: kinds of faults that happen, each once

Tickets == 1 .. LastTicket

\* What a review reads beside the price. The targets in ATR follow from the volatility.
SignType == [now : Nat, tp1 : {10, 15, 20}, tp2 : {20, 30, 40}, near : SUBSET Sides, fading : SUBSET Sides,
             weak : SUBSET Sides, reversing : SUBSET Sides, quiet : BOOLEAN, equity : Nat]

ASSUME ReviewAssumption ==
  /\ LastTicket \in Nat \ {0}
  /\ DOMAIN Opened \subseteq Tickets /\ Opened \in [DOMAIN Opened -> PositionType]
  /\ Signs \subseteq SignType
  /\ AddOn.side \in Sides /\ AddOn.lots \in Nat \ {0} /\ AddOn.stop \in Nat
  /\ Prices \subseteq Nat \ {0} /\ \A p \in Prices : AddOn.stop < p
  /\ StopLevel \in Nat \ {0}
  /\ MaxFaults \in Nat

VARIABLES
  broker,   \* the open positions, by ticket
  opened,   \* tickets used so far
  price,
  terminal, \* what the terminal does next: "post" or "poll"
  inbox,    \* commands of a reply not executed yet
  states,   \* the stored position states, by ticket
  queue,    \* queued commands
  ids,      \* ids of the commands accepted in this minute
  hit,      \* the faults that happened
  taken     \* history: how often each target was closed, by ticket

store == <<states, queue, ids>>
reviewVars == <<broker, opened, price, terminal, inbox, states, queue, ids, hit, taken>>

NoPositions == [t \in {} |-> 0]

TP1Reasons == {"TP1", "key_level", "group_tp1"}
TP2Reasons == {"TP2", "key_level2", "group_tp2"}

\* The market at the current price.
Market(sign) ==
  [price |-> price, now |-> sign.now, tp1 |-> sign.tp1, tp2 |-> sign.tp2, near |-> sign.near,
   fading |-> sign.fading, weak |-> sign.weak, reversing |-> sign.reversing,
   quiet |-> sign.quiet, equity |-> sign.equity]

ReviewInit ==
  /\ broker = Opened
  /\ opened = DOMAIN Opened
  /\ price \in Prices
  /\ \A t \in DOMAIN Opened : Beyond(Opened[t].side, Opened[t].sl, price) > 0
  /\ terminal = "post"
  /\ inbox = <<>>
  /\ states = NoPositions
  /\ queue = <<>>
  /\ ids = {}
  /\ hit = {}
  /\ taken = [t \in Tickets |-> [tp1 |-> 0, tp2 |-> 0]]

-----------------------------------------------------------------------------
(* The market. *)

\* A tick; the broker closes the positions whose stop it reaches.
MovePrice(p) ==
  /\ p # price
  /\ price' = p
  /\ broker' = [t \in {u \in DOMAIN broker : Beyond(broker[u].side, broker[u].sl, p) > 0}
                  |-> broker[t]]
  /\ UNCHANGED <<opened, terminal, inbox, store, hit, taken>>

\* A signal without a stop for the whole side opened another position.
Open(t) ==
  /\ terminal = "post"
  /\ t \in Tickets \ opened
  /\ broker' = [u \in DOMAIN broker \cup {t} |->
                  IF u = t
                  THEN [side |-> AddOn.side, lots |-> AddOn.lots, open |-> price, profit |-> 0,
                        sl |-> IF AddOn.side = "BUY" THEN price - AddOn.stop
                                                     ELSE price + AddOn.stop]
                  ELSE broker[u]]
  /\ opened' = opened \cup {t}
  /\ UNCHANGED <<price, terminal, inbox, store, hit, taken>>

\* Another minute begins; the ids of the last one are never built again. Mistake: ids
\* without the minute.
KeepIds == UNCHANGED reviewVars
NextMinute ==
  /\ ids' = {}
  /\ UNCHANGED <<broker, opened, price, terminal, inbox, states, queue, hit, taken>>

-----------------------------------------------------------------------------
(* A review: begun by a post, which is answered without waiting for it. *)

\* All commands of an evaluation in the order they are queued in: rule by rule, and for
\* each rule in the order of the positions.
Advised(t, c) == [ticket |-> t, act |-> c.act, lots |-> c.lots, sl |-> c.sl, why |-> c.why]
OfTicket(result, rule, t) ==
  IF t \in DOMAIN result
  THEN [i \in DOMAIN result[t].adv[rule] |-> Advised(t, result[t].adv[rule][i])]
  ELSE <<>>
OfRule(result, rule) == FlattenSeq([t \in Tickets |-> OfTicket(result, rule, t)])
Advices(result) == FlattenSeq([k \in DOMAIN Rules |-> OfRule(result, Rules[k])])

\* positionManagerCommandId: the minute, and a reason that for some rules carries the
\* profit. Mistake: no reason.
ShortId(c) == <<c.ticket, c.act>>
CommandId(c) ==
  <<c.ticket, c.act, c.why,
    IF c.why \in {"lock", "TP1", "TP2", "time", "time_72h"}
      THEN Beyond(broker[c.ticket].side, broker[c.ticket].open, price) ELSE 0>>

\* positionManagerCommandCandidate: a stop must differ from the posted one and keep
\* its distance to the market.
Makes(c) ==
  c.act = "MODIFY" =>
    LET p == broker[c.ticket] IN
    p.sl > 0 /\ c.sl # p.sl /\ Beyond(p.side, c.sl, price) > StopLevel

\* queuePositionManagerCommands: one after the other, those that can be made and are not
\* known yet.
Enqueued(done, c) ==
  IF Makes(c) /\ CommandId(c) \notin done.ids
  THEN [queue |-> Append(done.queue, c), ids |-> done.ids \cup {CommandId(c)}]
  ELSE done
Queued(q, commands) ==
  LET after[n \in 0 .. Len(commands)] == IF n = 0 THEN q ELSE Enqueued(after[n - 1], commands[n])
  IN after[Len(commands)]

\* persistPositionStates: each state is stored, and those of other tickets are
\* deleted; nothing happens when there are none. Mistake: only states that exist are
\* written.
SavedKnown(next) == [t \in DOMAIN states \cap DOMAIN next |-> next[t]]
Saved(next) == IF next = NoPositions THEN states ELSE next

\* The positions are posted and reviewed. The process may end before the states are
\* stored, with some of the commands queued. (One result: a set makes TLC evaluate it
\* once.)
Review(commands, next) ==
  /\ terminal = "post" /\ inbox = <<>>
  /\ terminal' = "poll"
  /\ \E q \in {Queued([queue |-> queue, ids |-> ids], commands)} :
       queue' = q.queue /\ ids' = q.ids
  /\ states' = next
  /\ UNCHANGED <<broker, opened, price, inbox, taken>>

Post ==
  /\ \E sign \in Signs : \E found \in {EvaluateCommands(broker, states, Market(sign))} :
       Review(Advices(found), Saved([t \in DOMAIN broker |-> found[t].st]))
  /\ UNCHANGED hit

-----------------------------------------------------------------------------
(* The terminal's poll and the execution of its reply. *)

Poll ==
  /\ terminal = "poll"
  /\ inbox' = queue
  /\ queue' = <<>>
  /\ terminal' = "post"
  /\ UNCHANGED <<broker, opened, price, states, ids, hit, taken>>

\* ExecuteModify: the broker refuses a stop on the wrong side of the market and
\* takes any other.
Modified(c) ==
  IF Beyond(broker[c.ticket].side, c.sl, price) > 0
  THEN [broker EXCEPT ![c.ticket].sl = c.sl]
  ELSE broker

\* ExecuteClose: a part, or all when the part is not smaller than the position.
Closed(c) ==
  IF c.lots < broker[c.ticket].lots
  THEN [broker EXCEPT ![c.ticket].lots = @ - c.lots]
  ELSE [t \in DOMAIN broker \ {c.ticket} |-> broker[t]]

Execute ==
  /\ inbox # <<>>
  /\ LET c == Head(inbox) IN
     IF c.ticket \notin DOMAIN broker THEN UNCHANGED <<broker, taken>>
     ELSE IF c.act = "MODIFY" THEN broker' = Modified(c) /\ UNCHANGED taken
     ELSE /\ broker' = Closed(c)
          /\ taken' = [taken EXCEPT
                         ![c.ticket].tp1 = IF c.why \in TP1Reasons THEN @ + 1 ELSE @,
                         ![c.ticket].tp2 = IF c.why \in TP2Reasons THEN @ + 1 ELSE @]
  /\ inbox' = Tail(inbox)
  /\ UNCHANGED <<opened, price, terminal, store, hit>>

-----------------------------------------------------------------------------
(* Faults. *)

Fault(kind) ==
  /\ kind \notin hit
  /\ Cardinality(hit) < MaxFaults
  /\ hit' = hit \cup {kind}

\* The commands are delivered and the reply does not arrive.
LoseReply ==
  /\ Fault("lost_reply")
  /\ terminal = "poll"
  /\ queue' = <<>>
  /\ terminal' = "post"
  /\ UNCHANGED <<broker, opened, price, inbox, states, ids, taken>>

\* The request itself does not arrive.
MissPoll ==
  /\ Fault("missed_poll")
  /\ terminal = "poll"
  /\ terminal' = "post"
  /\ UNCHANGED <<broker, opened, price, inbox, store, taken>>

\* The process ends in the middle of a review.
Crash ==
  /\ Fault("crash")
  /\ \E sign \in Signs : \E found \in {EvaluateCommands(broker, states, Market(sign))} :
       \E n \in 0 .. Len(Advices(found)) :
         Review(SubSeq(Advices(found), 1, n), states)

-----------------------------------------------------------------------------
ReviewNext ==
  \/ \E p \in Prices : MovePrice(p)
  \/ \E t \in Tickets : Open(t)
  \/ NextMinute
  \/ Post \/ Poll \/ Execute
  \/ LoseReply \/ MissPoll \/ Crash

ReviewSpec == ReviewInit /\ [][ReviewNext]_reviewVars

\* Time passes, and the terminal always comes round to post again and to poll again.
FairSpec ==
  /\ ReviewSpec
  /\ WF_reviewVars(NextMinute)
  /\ []<>(terminal = "poll")
  /\ []<>(terminal = "post" /\ inbox = <<>>)

-----------------------------------------------------------------------------
\* Although a command is made from the stop of a snapshot and the terminal sets
\* whatever stop it is told, no stop moves backwards, whatever replies are lost and
\* wherever a review is cut, as long as every poll arrives.
Loosened == \E t \in DOMAIN broker \cap DOMAIN broker' :
              Beyond(broker[t].side, broker[t].sl, broker'[t].sl) < 0
StopOnlyTightens == [][Loosened => "missed_poll" \in hit]_reviewVars

\* No stop moves backwards: GoldBolt_Client.mq5:2368 'SL 只能向盈利方向移动' (a stop moves
\* in the direction of profit only), manager.spec.ts:188 'does not move BUY stop loss
\* backward when current position SL is already better'.
StopNeverLoosens == [][~Loosened]_reviewVars

\* Each target of a position is closed at most once, although the flag that says so
\* is stored only after the close was queued, unless a crash came between.
TargetTakenOnce ==
  "crash" \notin hit => \A t \in Tickets : taken[t].tp1 <= 1 /\ taken[t].tp2 <= 1

\* When nothing is under way, the stored flags of an open position say what was closed
\* at the broker: no flag without its close unless a reply was lost, no close
\* without its flag unless a review was cut.
AtRest == queue = <<>> /\ inbox = <<>>
StatesMatchBroker ==
  AtRest =>
    \A t \in DOMAIN broker \cap DOMAIN states :
      /\ "lost_reply" \notin hit =>
           (states[t].tp1 => taken[t].tp1 > 0) /\ (states[t].tp2 => taken[t].tp2 > 0)
      /\ "crash" \notin hit =>
           (taken[t].tp1 > 0 => states[t].tp1) /\ (taken[t].tp2 > 0 => states[t].tp2)

\* A position whose profit stays beyond the break-even trigger gets a stop that keeps
\* it from losing, whatever (finitely many) replies, polls and reviews fail: a command
\* that came to nothing is made again in another minute.
Winning(t) == t \in DOMAIN broker /\ Beyond(broker[t].side, broker[t].open, price) >= 15
Safe(t) == t \in DOMAIN broker /\ Beyond(broker[t].side, broker[t].open, broker[t].sl) >= 0
ProfitGetsProtected == \A t \in Tickets : <>[]Winning(t) => <>Safe(t)

=============================================================================
