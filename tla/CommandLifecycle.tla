--------------------------- MODULE CommandLifecycle ---------------------------
(***************************************************************************)
(* The life of a trading command inside app-server: a handler accepts a    *)
(* candidate, the account's runtime mode decides whether it is queued or   *)
(* kept for comparison only, /poll hands queued rows to the terminal (EA)  *)
(* of the account, the terminal executes them and reports each one to      *)
(* /order_result, and the result is reconciled into the row.               *)
(*                                                                         *)
(* Every handler is a sequence of store calls.  Against Postgres each call *)
(* is a query on a pool without a transaction, so handlers interleave      *)
(* between any two queries.  Against SQLite a call completes without       *)
(* leaving the event loop, so a handler runs to its end before another one *)
(* starts; only a crash can cut it.  One set of actions covers both: Turn  *)
(* is the scheduling difference.                                           *)
(*                                                                         *)
(* Not covered: the payload of a command, the shadow snapshot and          *)
(* comparison rows written after the row is decided (nothing reads them    *)
(* back into the lifecycle), HTTP authentication.                          *)
(***************************************************************************)
EXTENDS Naturals, FiniteSets

CONSTANTS
  Commands,      \* command ids, numbered in the order /poll sorts them
  Accounts,
  AccountOf,     \* [Commands -> Accounts], the row's account_id
  RiskCommands,  \* candidates of the AI risk alert, which skip the runtime mode
  Expirable,     \* candidates with an expiration (pending orders, ai_approve)
  Polls,         \* /poll requests the server may be serving at the same time
  Store,         \* "postgres" or "sqlite"
  DefaultMode,   \* the mode that replaces a stored "oracle"
  OperatorModes, \* the modes an operator may store
  MaxFaults      \* bound: lost replies, lost reports, restarts and crashes

RuntimeModes == {"oracle", "shadow", "cutover", "rollback"}

ASSUME ConstantsAssumption ==
  /\ Commands \subseteq Nat
  /\ AccountOf \in [Commands -> Accounts]
  /\ RiskCommands \subseteq Commands
  /\ Expirable \subseteq Commands
  /\ Store \in {"postgres", "sqlite"}
  /\ DefaultMode \in RuntimeModes
  /\ OperatorModes \subseteq RuntimeModes
  /\ MaxFaults \in Nat
  /\ "none" \notin Polls
  /\ "none" \notin Accounts

VARIABLES
  status,    \* runtime_commands.status, "none" while there is no row
  result,    \* runtime_commands.result, "none" until the row is settled
  mode,      \* runtime_state.mode of each account
  timeline,  \* decision_events written about commands: <<c, stage, status>>
  cand,      \* where the handler that accepts each candidate stands
  poll,      \* the /poll handlers
  tasks,     \* order_result reconciliations not finished yet
  awaiting,  \* the poll whose reply each terminal waits for
  batch,     \* commands a terminal received and did not execute yet
  overdue,   \* commands whose expiration has passed
  faults,    \* faults so far (bound)
  executed,  \* history: how often a terminal executed each command
  outcome,   \* history: what the terminals' executions returned
  handed,    \* history: how many /poll replies listed each command
  cleared    \* history: drafts whose account was live at some moment

store == <<status, result, mode, timeline>>
server == <<cand, poll, tasks>>
terminal == <<awaiting, batch>>
history == <<executed, outcome, handed, cleared>>
vars == <<status, result, mode, timeline, cand, poll, tasks, awaiting, batch,
          overdue, faults, executed, outcome, handed, cleared>>

-----------------------------------------------------------------------------
(* The values of the state. *)

Statuses == {"none", "draft", "shadow_only", "queued", "delivered", "acked", "failed"}
Terminal == {"acked", "failed"}
Issued == {"delivered"} \cup Terminal
\* What a terminal reports: PARTIAL when one order of a split pair was opened
\* and the other one failed; ERROR stands for every refusal.
Results == {"OK", "PARTIAL", "ERROR"}

CandSteps == {"new", "reading", "promoting", "demoting", "logging", "done", "dead"}
PollSteps == {"idle", "selecting", "stamping", "marking", "logging"}

PollState == [pc : PollSteps, account : Accounts \cup {"none"},
              rows : SUBSET Commands, expired : SUBSET Commands, out : SUBSET Commands]
IdlePoll == [pc |-> "idle", account |-> "none", rows |-> {}, expired |-> {}, out |-> {}]

\* An order_result request the server answered and has not finished.  The
\* terminal's HTTP client sends a request twice when the first try fails.
Task == [cmd : Commands, result : Results, copy : {1, 2}, at : {"updating", "logging"}]

TimelineEvents ==
  Commands \X {"command_enqueued", "command_delivered", "order_result"}
           \X {"pending", "delivered", "acked", "failed"}

EffectiveMode(a) ==
  IF mode[a] = "oracle" /\ DefaultMode \in {"shadow", "cutover"}
    THEN DefaultMode ELSE mode[a]

Live(a) == EffectiveMode(a) = "cutover"

\* The rows a poll reads; a mistake the runs must notice: delivering rows that
\* were delivered before.
QueuedOrDelivered(a) ==
  {c \in Commands : AccountOf[c] = a /\ status[c] \in {"queued", "delivered"}}
Queued(a) == {c \in Commands : AccountOf[c] = a /\ status[c] = "queued"}

\* The rows a result may settle and what it makes of them; mistakes: the wrong
\* status tested, every report taken for a success.
OnlyQueued(c) == status[c] = "queued"
Settleable(c) == status[c] = "delivered"

AlwaysAcked(r) == "acked"
Settled(r) == IF r = "OK" THEN "acked" ELSE "failed"

\* The status the timeline shows for a result; mistake: swapped.
LoggedSwapped(c) == IF status[c] = "acked" THEN "failed" ELSE "acked"
LoggedResult(c) == IF status[c] = "acked" THEN "acked" ELSE "failed"

\* Handlers in the middle of their store calls.
CandBusy(c) == cand[c] \in {"reading", "promoting", "demoting", "logging"}
PollBusy(p) == poll[p].pc \in {"stamping", "marking", "logging"}

\* A handler may begin.  Against SQLite the event loop is free only when no
\* other handler is in the middle; against Postgres every await yields, as it
\* would if a call of the SQLite store did (AnyTurn).
AnyTurn == TRUE
Turn ==
  Store = "sqlite" =>
    /\ \A c \in Commands : ~CandBusy(c)
    /\ \A p \in Polls : ~PollBusy(p)
    /\ \A t \in tasks : t.at = "updating"

Idle(a) == awaiting[a] = "none" /\ batch[a] = {}

First(c, S) == c \in S /\ \A d \in S : c <= d

Init ==
  /\ status = [c \in Commands |-> "none"]
  /\ result = [c \in Commands |-> "none"]
  /\ mode = [a \in Accounts |-> "oracle"]
  /\ timeline = {}
  /\ cand = [c \in Commands |-> "new"]
  /\ poll = [p \in Polls |-> IdlePoll]
  /\ tasks = {}
  /\ awaiting = [a \in Accounts |-> "none"]
  /\ batch = [a \in Accounts |-> {}]
  /\ overdue = {}
  /\ faults = 0
  /\ executed = [c \in Commands |-> 0]
  /\ outcome = [c \in Commands |-> {}]
  /\ handed = [c \in Commands |-> 0]
  /\ cleared = {}

-----------------------------------------------------------------------------
(* Accepting a candidate: save it as a draft, read the mode, decide.  A    *)
(* second handler with the same id finds the row (getCommand) or breaks    *)
(* the primary key, and changes nothing.                                   *)

SaveCandidate(c) ==
  /\ cand[c] = "new"
  /\ Turn
  /\ status' = [status EXCEPT ![c] = "draft"]
  /\ cand' = [cand EXCEPT ![c] = IF c \in RiskCommands THEN "promoting" ELSE "reading"]
  /\ cleared' = IF Live(AccountOf[c]) THEN cleared \cup {c} ELSE cleared
  /\ UNCHANGED <<result, mode, timeline, poll, tasks, terminal, overdue, faults,
                 executed, outcome, handed>>

\* Mistake: every mode but rollback taken for live.
ReadNotRollback(c) ==
  /\ cand[c] = "reading"
  /\ cand' = [cand EXCEPT ![c] = IF mode[AccountOf[c]] # "rollback"
                                   THEN "promoting" ELSE "demoting"]
  /\ UNCHANGED <<store, poll, tasks, terminal, overdue, faults, history>>

ReadMode(c) ==
  /\ cand[c] = "reading"
  /\ cand' = [cand EXCEPT ![c] = IF Live(AccountOf[c]) THEN "promoting" ELSE "demoting"]
  /\ UNCHANGED <<store, poll, tasks, terminal, overdue, faults, history>>

Promote(c) ==
  /\ cand[c] = "promoting"
  /\ status' = [status EXCEPT ![c] = "queued"]
  /\ cand' = [cand EXCEPT ![c] = IF status[c] = "queued" THEN "done" ELSE "logging"]
  /\ UNCHANGED <<result, mode, timeline, poll, tasks, terminal, overdue, faults, history>>

LogEnqueued(c) ==
  /\ cand[c] = "logging"
  /\ timeline' = timeline \cup {<<c, "command_enqueued", "pending">>}
  /\ cand' = [cand EXCEPT ![c] = "done"]
  /\ UNCHANGED <<status, result, mode, poll, tasks, terminal, overdue, faults, history>>

Demote(c) ==
  /\ cand[c] = "demoting"
  /\ status' = [status EXCEPT ![c] = "shadow_only"]
  /\ cand' = [cand EXCEPT ![c] = "done"]
  /\ UNCHANGED <<result, mode, timeline, poll, tasks, terminal, overdue, faults, history>>

\* An operator stores another mode; drafts of the account become cleared when
\* the account goes live.
SetRuntimeMode(a, m) ==
  /\ Turn
  /\ mode' = [mode EXCEPT ![a] = m]
  /\ cleared' = cleared \cup
       {c \in Commands : Live(a)' /\ AccountOf[c] = a /\ status[c] = "draft"}
  /\ UNCHANGED <<status, result, timeline, server, terminal, overdue, faults,
                 executed, outcome, handed>>

PassExpiration(c) ==
  /\ c \in Expirable \ overdue
  /\ status[c] # "none"
  /\ overdue' = overdue \cup {c}
  /\ UNCHANGED <<store, server, terminal, faults, history>>

-----------------------------------------------------------------------------
(* Delivery.  A terminal serves one request at a time; after a timeout it  *)
(* starts another one while the server may still be serving the first.     *)

BeginPoll(a, p) ==
  /\ Idle(a)
  /\ poll[p].pc = "idle"
  /\ poll' = [poll EXCEPT ![p] = [IdlePoll EXCEPT !.pc = "selecting", !.account = a]]
  /\ awaiting' = [awaiting EXCEPT ![a] = p]
  /\ UNCHANGED <<store, cand, tasks, batch, overdue, faults, history>>

SelectQueued(p) ==
  /\ poll[p].pc = "selecting"
  /\ Turn
  /\ poll' = [poll EXCEPT ![p] = [@ EXCEPT !.pc = "stamping", !.rows = Queued(poll[p].account)]]
  /\ UNCHANGED <<store, cand, tasks, terminal, overdue, faults, history>>

\* deliveredAt is read once, after the SELECT, and decides which rows expired.
StampPoll(p) ==
  /\ poll[p].pc = "stamping"
  /\ poll' = [poll EXCEPT ![p] = [@ EXCEPT !.pc = "marking", !.expired = poll[p].rows \cap overdue]]
  /\ UNCHANGED <<store, cand, tasks, terminal, overdue, faults, history>>

\* The expiry update keeps the status = 'queued' guard ...
ExpireRow(p, c) ==
  /\ c \in poll[p].expired
  /\ IF status[c] = "queued"
       THEN /\ status' = [status EXCEPT ![c] = "failed"]
            /\ result' = [result EXCEPT ![c] = "expired"]
       ELSE UNCHANGED <<status, result>>

\* ... and the delivery update has none.
DeliverRow(p, c) ==
  /\ c \notin poll[p].expired
  /\ status' = [status EXCEPT ![c] = "delivered"]
  /\ UNCHANGED result

MarkRow(p) ==
  /\ poll[p].pc = "marking"
  /\ \E c \in poll[p].rows : First(c, poll[p].rows) /\ (ExpireRow(p, c) \/ DeliverRow(p, c))
  /\ poll' = [poll EXCEPT ![p] = [@ EXCEPT !.pc = "logging"]]
  /\ UNCHANGED <<mode, timeline, cand, tasks, terminal, overdue, faults, history>>

LogRow(p) ==
  /\ poll[p].pc = "logging"
  /\ \E c \in poll[p].rows :
       /\ First(c, poll[p].rows)
       /\ IF c \in poll[p].expired
            THEN /\ timeline' = timeline \cup {<<c, "order_result", "failed">>}
                 /\ poll' = [poll EXCEPT ![p] = [@ EXCEPT !.pc = "marking", !.rows = poll[p].rows \ {c}]]
                 /\ UNCHANGED handed
            ELSE /\ timeline' = timeline \cup {<<c, "command_delivered", "delivered">>}
                 /\ poll' = [poll EXCEPT ![p] = [@ EXCEPT !.pc = "marking",
                             !.rows = poll[p].rows \ {c}, !.out = poll[p].out \cup {c}]]
                 /\ handed' = [handed EXCEPT ![c] = @ + 1]
  /\ UNCHANGED <<status, result, mode, cand, tasks, terminal, overdue, faults,
                 executed, outcome, cleared>>

\* The reply reaches the terminal only if it still waits for this request.
AnswerPoll(p) ==
  /\ poll[p].pc = "marking"
  /\ poll[p].rows = {}
  /\ LET a == poll[p].account IN
       IF awaiting[a] = p
         THEN /\ awaiting' = [awaiting EXCEPT ![a] = "none"]
              /\ batch' = [batch EXCEPT ![a] = poll[p].out]
         ELSE UNCHANGED terminal
  /\ poll' = [poll EXCEPT ![p] = IdlePoll]
  /\ UNCHANGED <<store, cand, tasks, overdue, faults, history>>

-----------------------------------------------------------------------------
(* The terminal: execute in the order of the reply, report each result.    *)

\* The report reaches the server once, twice when the request was retried after
\* a lost answer, or never when both tries fail.
Deliveries == {{1}, {1, 2}, {}}

ExecuteCommand(a, r, copies) ==
  /\ \E c \in batch[a] :
       /\ First(c, batch[a])
       /\ batch' = [batch EXCEPT ![a] = @ \ {c}]
       /\ executed' = [executed EXCEPT ![c] = @ + 1]
       /\ outcome' = [outcome EXCEPT ![c] = @ \cup {r}]
       /\ tasks' = tasks \cup
            [cmd : {c}, result : {r}, copy : copies, at : {"updating"}]
  /\ IF copies = {1}
       THEN UNCHANGED faults
       ELSE faults < MaxFaults /\ faults' = faults + 1
  /\ UNCHANGED <<store, cand, poll, awaiting, overdue, handed, cleared>>

\* order_result is answered before the reconciliation runs.
Reconcile(t) ==
  /\ t \in tasks
  /\ t.at = "updating"
  /\ Turn
  /\ IF Settleable(t.cmd)
       THEN /\ status' = [status EXCEPT ![t.cmd] = Settled(t.result)]
            /\ result' = [result EXCEPT ![t.cmd] = t.result]
            /\ tasks' = (tasks \ {t}) \cup {[t EXCEPT !.at = "logging"]}
       ELSE /\ tasks' = tasks \ {t}
            /\ UNCHANGED <<status, result>>
  /\ UNCHANGED <<mode, timeline, cand, poll, terminal, overdue, faults, history>>

\* The row is read again and its status, not the reported result, is logged.
LogResult(t) ==
  /\ t \in tasks
  /\ t.at = "logging"
  /\ timeline' = timeline \cup {<<t.cmd, "order_result", LoggedResult(t.cmd)>>}
  /\ tasks' = tasks \ {t}
  /\ UNCHANGED <<status, result, mode, cand, poll, terminal, overdue, faults, history>>

-----------------------------------------------------------------------------
(* Faults. *)

Fault == faults < MaxFaults /\ faults' = faults + 1

\* The HTTP client gives up on a request the server may still be serving.
AbandonPoll(a) ==
  /\ Fault
  /\ awaiting[a] # "none"
  /\ awaiting' = [awaiting EXCEPT ![a] = "none"]
  /\ UNCHANGED <<store, server, batch, overdue, history>>

TerminalRestart(a) ==
  /\ Fault
  /\ ~Idle(a)
  /\ awaiting' = [awaiting EXCEPT ![a] = "none"]
  /\ batch' = [batch EXCEPT ![a] = {}]
  /\ UNCHANGED <<store, server, overdue, history>>

\* Handlers and unfinished reconciliations live in the process; nothing
\* resumes them after a restart.
ServerCrash ==
  /\ Fault
  /\ cand' = [c \in Commands |-> IF CandBusy(c) THEN "dead" ELSE cand[c]]
  /\ poll' = [p \in Polls |-> IdlePoll]
  /\ tasks' = {}
  /\ awaiting' = [a \in Accounts |-> "none"]
  /\ UNCHANGED <<store, batch, overdue, history>>

-----------------------------------------------------------------------------
AcceptStep(c) == SaveCandidate(c) \/ ReadMode(c) \/ Promote(c) \/ LogEnqueued(c) \/ Demote(c)
PollStep(p) == SelectQueued(p) \/ StampPoll(p) \/ MarkRow(p) \/ LogRow(p) \/ AnswerPoll(p)
TaskStep(t) == Reconcile(t) \/ LogResult(t)

Next ==
  \/ \E c \in Commands : AcceptStep(c)
  \/ \E c \in Commands : PassExpiration(c)
  \/ \E a \in Accounts, m \in OperatorModes : SetRuntimeMode(a, m)
  \/ \E a \in Accounts, p \in Polls : BeginPoll(a, p)
  \/ \E p \in Polls : PollStep(p)
  \/ \E a \in Accounts, r \in Results, copies \in Deliveries : ExecuteCommand(a, r, copies)
  \/ \E t \in tasks : TaskStep(t)
  \/ \E a \in Accounts : AbandonPoll(a) \/ TerminalRestart(a)
  \/ ServerCrash

Spec == Init /\ [][Next]_vars

-----------------------------------------------------------------------------
(* Safety. *)

\* Every variable holds a value of its kind.
TypeOK ==
  /\ status \in [Commands -> Statuses]
  /\ result \in [Commands -> {"none", "expired"} \cup Results]
  /\ mode \in [Accounts -> RuntimeModes]
  /\ timeline \subseteq TimelineEvents
  /\ cand \in [Commands -> CandSteps]
  /\ poll \in [Polls -> PollState]
  /\ tasks \subseteq Task
  /\ awaiting \in [Accounts -> Polls \cup {"none"}]
  /\ batch \in [Accounts -> SUBSET Commands]
  /\ overdue \subseteq Commands
  /\ faults \in 0 .. MaxFaults
  /\ executed \in [Commands -> Nat]
  /\ outcome \in [Commands -> SUBSET Results]
  /\ handed \in [Commands -> Nat]
  /\ cleared \subseteq Commands

\* However polls overlap, are abandoned, retried or cut by a crash, no command
\* is executed twice at the broker, although the delivery update of /poll does
\* not test the status it replaces.
ExecutedAtMostOnce == \A c \in Commands : executed[c] <= 1

NotOK(c) == outcome[c] \in {{"PARTIAL"}, {"ERROR"}}

\* A settled row says what happened: "acked" only after an execution that
\* returned OK, "failed" by expiry only when the terminal never had the command,
\* "failed" otherwise only after one execution that returned something else.
SettledRowIsTrue ==
  \A c \in Commands :
    /\ status[c] = "acked" => outcome[c] = {"OK"}
    /\ status[c] = "failed" =>
         IF result[c] = "expired"
           THEN executed[c] = 0 /\ \A a \in Accounts : c \notin batch[a]
           ELSE NotOK(c)

\* A candidate that goes through the lifecycle service reaches the queue, and
\* what follows it, only if the account was live at some moment while it was a
\* draft: neither a mode change between the read of the mode and the promotion
\* nor a crash issues one that was never cleared.
NothingIssuedUncleared ==
  \A c \in Commands \ RiskCommands :
    status[c] \in {"queued"} \cup Issued => c \in cleared

\* Without a fault no work is lost: a draft has a handler that will decide it,
\* and a delivered row not yet executed is in a reply on its way to a waiting
\* terminal or in the terminal's hands.
InFlight(c) ==
  \/ \E a \in Accounts : c \in batch[a]
  \/ \E p \in Polls : /\ c \in poll[p].rows \cup poll[p].out
                      /\ poll[p].account # "none"
                      /\ awaiting[poll[p].account] = p

NothingLostWithoutFault ==
  faults = 0 =>
    \A c \in Commands :
      /\ status[c] = "draft" => CandBusy(c)
      /\ status[c] = "delivered" /\ executed[c] = 0 => InFlight(c)
      /\ status[c] = "delivered" /\ executed[c] > 0 => \E t \in tasks : t.cmd = c

\* The decision timeline agrees with the broker: a result logged as failed is an
\* execution that was not OK or an expiry of a command never executed.
TimelineIsTrue ==
  \A c \in Commands :
    /\ <<c, "order_result", "acked">> \in timeline => "OK" \in outcome[c]
    /\ <<c, "order_result", "failed">> \in timeline =>
         NotOK(c) \/ (executed[c] = 0 /\ status[c] = "failed")

\* At most one /poll reply lists a command.
HandedAtMostOnce == \A c \in Commands : handed[c] <= 1

\* A settled row is never written again.
TerminalStatusIsFinal ==
  [][\A c \in Commands : status[c] \in Terminal => status'[c] = status[c]]_vars

\* The promise of the design, step by step: every step is a step of
\* CommandPipeline or changes nothing it sees.
Pipeline == INSTANCE CommandPipeline
              WITH Commands <- Commands, status <- status, executed <- executed, outcome <- outcome
ImplementsPipeline == Pipeline!Spec

-----------------------------------------------------------------------------
(* The inductive strengthening of ExecutedAtMostOnce and SettledRowIsTrue. *)

\* A handler that has not decided its candidate is the only writer of the row.
CandInv ==
  \A c \in Commands :
    /\ cand[c] = "new" => status[c] = "none"
    /\ cand[c] \in {"reading", "promoting", "demoting"} => status[c] = "draft"

\* A row some reply lists: it has left the queue for good, and nothing but an
\* execution settles it.
Given(c) == status[c] \in Issued /\ (executed[c] = 0 => status[c] = "delivered")

PollInv ==
  \A p \in Polls :
    /\ poll[p].pc # "idle" => poll[p].account \in Accounts
    /\ poll[p].pc \in {"idle", "selecting"} => poll[p].rows = {} /\ poll[p].out = {}
    /\ \A c \in poll[p].rows : AccountOf[c] = poll[p].account
                               /\ status[c] \in {"queued"} \cup Issued
    /\ \A c \in poll[p].out : AccountOf[c] = poll[p].account /\ Given(c)
    /\ poll[p].pc = "logging" =>
         \A c \in poll[p].rows \ poll[p].expired : First(c, poll[p].rows) => Given(c)

\* A terminal waits for a request of its own, and nothing this request may list
\* has been executed: the request began after the previous reply was used up.
AwaitInv ==
  \A a \in Accounts : awaiting[a] # "none" =>
    /\ batch[a] = {}
    /\ poll[awaiting[a]].pc # "idle"
    /\ poll[awaiting[a]].account = a
    /\ \A c \in poll[awaiting[a]].rows \cup poll[awaiting[a]].out : executed[c] = 0

BatchInv ==
  \A a \in Accounts : \A c \in batch[a] :
    AccountOf[c] = a /\ executed[c] = 0 /\ status[c] = "delivered"

ExecInv ==
  \A c \in Commands :
    /\ executed[c] \in {0, 1}
    /\ executed[c] = 0 => /\ outcome[c] = {}
                          /\ status[c] # "acked"
                          /\ status[c] = "failed" => result[c] = "expired"
    /\ executed[c] = 1 => /\ status[c] \in Issued
                          /\ status[c] = "acked" => outcome[c] = {"OK"}
                          /\ status[c] = "failed" => result[c] # "expired" /\ NotOK(c)

TaskInv == \A t \in tasks : executed[t.cmd] = 1 /\ outcome[t.cmd] = {t.result}

\* The state of every handler, reply and row fits together: what a terminal may
\* still execute was handed to it alone and never executed, and what is settled
\* was.  Holds for both stores; the safety theorems rest on it.
HandoverInv == CandInv /\ PollInv /\ AwaitInv /\ BatchInv /\ ExecInv /\ TaskInv

\* The inductive strengthening of NothingIssuedUncleared: a draft of a live
\* account is cleared already, so the read of the mode finds what it needs.
ClearedInv ==
  \A c \in Commands \ RiskCommands :
    /\ status[c] = "draft" /\ Live(AccountOf[c]) => c \in cleared
    /\ cand[c] = "promoting" => c \in cleared
    /\ status[c] \in {"queued"} \cup Issued => c \in cleared

-----------------------------------------------------------------------------
(* Liveness.  A handler the server began ends (the event loop and the       *)
(* database make progress), so again and again none is at work; terminals   *)
(* poll from a timer and come to the end of a reply.  Faults, time and the  *)
(* operator owe nothing.                                                    *)

ServerFairness ==
  /\ \A c \in Commands : []<>(~CandBusy(c))
  /\ \A p \in Polls : []<>(poll[p].pc = "idle")
  /\ []<>(tasks = {})

TerminalFairness ==
  \A a \in Accounts :
    /\ WF_vars(\E p \in Polls : BeginPoll(a, p))
    /\ []<>(batch[a] = {})

FairSpec == Spec /\ ServerFairness /\ TerminalFairness

\* Without faults every queued command ends acked or failed.
QueuedIsSettled ==
  \A c \in Commands : status[c] = "queued" ~> (status[c] \in Terminal \/ faults > 0)

=============================================================================
