----------------------------- MODULE AIApproveGate -----------------------------
(***************************************************************************)
(* The gate between an AI result and the command queue.  A POST to         *)
(* /api/v2/ai_result carries one trade plan, or a buy and a sell plan; each *)
(* plan must pass a chain of checks that read the store (no unexpired      *)
(* queued command on the same side, at most DailyLimit signals per symbol  *)
(* and UTC day) and the memory of the process (a cooldown per symbol),     *)
(* before a candidate is saved and decided by the runtime mode.  What the  *)
(* checks read may change before the candidate is saved, wherever the      *)
(* handler waits for the database.                                         *)
(*                                                                         *)
(* Covered as one nondeterministic verdict: the checks of a plan against   *)
(* market data and open positions (AIApproveRules has the price rules).    *)
(* Delivery is one step here; its own interleavings are in                 *)
(* CommandLifecycle.  Requests stamped in the same millisecond, which      *)
(* would share a command id, are left out; the plans of one request do     *)
(* share it.                                                               *)
(***************************************************************************)
EXTENDS Naturals, Sequences, FiniteSets

CONSTANTS
  Requests,      \* POSTs of an AI result
  Accounts,
  Symbols,
  AccountOf,     \* [Requests -> Accounts]
  SymbolOf,      \* [Requests -> Symbols]
  PlansOf,       \* [Requests -> Seq(Sides)], the plans in the order they are tried
  Mode,          \* [Accounts -> {"shadow", "cutover"}], the effective runtime mode
  Store,         \* "postgres" or "sqlite"
  DailyLimit,    \* AI_APPROVE_MAX_DAILY_SIGNALS_PER_SYMBOL
  CooldownTTL,   \* AI_APPROVE_COOLDOWN_MS, in ticks
  DayLength,     \* ticks of a UTC day
  Lifetime,      \* ticks until a command expires (4 hours in the code)
  MaxTime,       \* bound of the clock
  MaxRestarts    \* bound: restarts of the server

Sides == {"buy", "sell"}

ASSUME GateAssumption ==
  /\ AccountOf \in [Requests -> Accounts]
  /\ SymbolOf \in [Requests -> Symbols]
  /\ PlansOf \in [Requests -> Seq(Sides)]
  /\ Mode \in [Accounts -> {"shadow", "cutover"}]
  /\ Store \in {"postgres", "sqlite"}
  /\ DailyLimit \in Nat
  /\ CooldownTTL \in Nat
  /\ DayLength \in Nat \ {0}
  /\ Lifetime \in Nat
  /\ MaxTime \in Nat
  /\ MaxRestarts \in Nat

VARIABLES
  clock,
  req,       \* where the handler of each request stands
  row,       \* the command of each request: its id is made of the request's stamp
  cooldown,  \* lastBySymbol, the times marked since the process started
  restarts   \* restarts so far (bound)

vars == <<clock, req, row, cooldown, restarts>>

Steps == {"new", "planning", "pending", "counting", "saving", "deciding",
          "rereading", "marking", "done", "failed", "cut"}
Ended == {"done", "failed", "cut"}
Request == [pc : Steps, at : 0 .. MaxTime, todo : Seq(Sides), seen : {"none", "shadow_only",
            "queued", "delivered", "failed"}]
RowState == [status : {"none", "draft", "shadow_only", "queued", "delivered", "failed"},
             side : Sides, created : 0 .. MaxTime, expires : Nat]

DayOf(t) == t \div DayLength

\* draft and shadow_only rows were never issued.
Issued == {"queued", "delivered", "failed"}

SameInstrument(r, q) == AccountOf[r] = AccountOf[q] /\ SymbolOf[r] = SymbolOf[q]

Side(r) == Head(req[r].todo)

\* A queued command of the same account, symbol and side that has not expired at
\* the stamp of the request; mistake: looking among delivered commands.
ActiveDelivered(r) ==
  \E q \in Requests : /\ SameInstrument(r, q)
                      /\ row[q].status = "delivered"
                      /\ row[q].side = Side(r)
                      /\ req[r].at < row[q].expires
HasActivePending(r) ==
  \E q \in Requests : /\ SameInstrument(r, q)
                      /\ row[q].status = "queued"
                      /\ row[q].side = Side(r)
                      /\ req[r].at < row[q].expires

\* The commands of the request's UTC day that count against its limit; mistake:
\* forgetting the ones that left the queue.
QueuedToday(r) ==
  {q \in Requests : /\ SameInstrument(r, q)
                    /\ row[q].status = "queued"
                    /\ DayOf(row[q].created) = DayOf(req[r].at)}
SignalsToday(r) ==
  {q \in Requests : /\ SameInstrument(r, q)
                    /\ row[q].status \in Issued
                    /\ DayOf(row[q].created) = DayOf(req[r].at)}

CooldownActive(r) ==
  \E t \in cooldown[SymbolOf[r]] : req[r].at < t + CooldownTTL

Busy(r) == req[r].pc \notin {"new"} \cup Ended

\* Against SQLite a handler runs to its end before another event is served.
AnyTurn == TRUE
Turn == Store = "sqlite" => \A r \in Requests : ~Busy(r)

NoRow == [status |-> "none", side |-> "buy", created |-> 0, expires |-> 0]

Init ==
  /\ clock = 0
  /\ req = [r \in Requests |-> [pc |-> "new", at |-> 0, todo |-> << >>, seen |-> "none"]]
  /\ row = [r \in Requests |-> NoRow]
  /\ cooldown = [s \in Symbols |-> {}]
  /\ restarts = 0

-----------------------------------------------------------------------------
Goto(r, pc) == req' = [req EXCEPT ![r] = [@ EXCEPT !.pc = pc]]
NextPlan(r) == req' = [req EXCEPT ![r] = [@ EXCEPT !.pc = "planning", !.todo = Tail(req[r].todo)]]

\* The result is saved, then the event timestamp is taken that every check uses.
Arrive(r) ==
  /\ req[r].pc = "new"
  /\ Turn
  /\ req' = [req EXCEPT ![r] = [pc |-> "planning", at |-> clock, todo |-> PlansOf[r],
                                seen |-> "none"]]
  /\ UNCHANGED <<clock, row, cooldown, restarts>>

Finish(r) ==
  /\ req[r].pc = "planning"
  /\ req[r].todo = << >>
  /\ Goto(r, "done")
  /\ UNCHANGED <<clock, row, cooldown, restarts>>

\* Queue skip reasons, account, price, trend and position checks.
CheckPlan(r) ==
  /\ req[r].pc = "planning"
  /\ req[r].todo # << >>
  /\ Goto(r, "pending") \/ NextPlan(r)
  /\ UNCHANGED <<clock, row, cooldown, restarts>>

CheckPending(r) ==
  /\ req[r].pc = "pending"
  /\ IF HasActivePending(r) THEN NextPlan(r) ELSE Goto(r, "counting")
  /\ UNCHANGED <<clock, row, cooldown, restarts>>

\* The cooldown is read in the same turn as the answer of the count; the distance
\* to the market and the reward/risk ratio, data like the checks above, follow.
CheckLimits(r) ==
  /\ req[r].pc = "counting"
  /\ \/ /\ Cardinality(SignalsToday(r)) < DailyLimit
        /\ ~CooldownActive(r)
        /\ Goto(r, "saving")
     \/ NextPlan(r)
  /\ UNCHANGED <<clock, row, cooldown, restarts>>

\* The second candidate of a request carries the id of the first, which breaks the
\* primary key: the request fails.
SaveCandidate(r) ==
  /\ req[r].pc = "saving"
  /\ IF row[r].status = "none"
       THEN /\ row' = [row EXCEPT ![r] = [status |-> "draft", side |-> Side(r),
                         created |-> clock, expires |-> req[r].at + Lifetime]]
            /\ Goto(r, "deciding")
       ELSE /\ Goto(r, "failed")
            /\ UNCHANGED row
  /\ UNCHANGED <<clock, cooldown, restarts>>

DecideCandidate(r) ==
  /\ req[r].pc = "deciding"
  /\ row' = [row EXCEPT ![r] = [@ EXCEPT !.status =
               IF Mode[AccountOf[r]] = "cutover" THEN "queued" ELSE "shadow_only"]]
  /\ Goto(r, "rereading")
  /\ UNCHANGED <<clock, cooldown, restarts>>

\* acceptCandidate returns the row as it reads it again.
RereadCommand(r) ==
  /\ req[r].pc = "rereading"
  /\ req' = [req EXCEPT ![r] = [@ EXCEPT !.pc = "marking", !.seen = row[r].status]]
  /\ UNCHANGED <<clock, row, cooldown, restarts>>

\* The mark replaces an earlier one, a later one too; mistake: no mark.
MarkNothing(r) ==
  /\ req[r].pc = "marking"
  /\ NextPlan(r)
  /\ UNCHANGED <<clock, row, cooldown, restarts>>
MarkCooldown(r) ==
  /\ req[r].pc = "marking"
  /\ cooldown' = IF req[r].seen = "queued"
                   THEN [cooldown EXCEPT ![SymbolOf[r]] = {req[r].at}] ELSE cooldown
  /\ NextPlan(r)
  /\ UNCHANGED <<clock, row, restarts>>

\* A poll of the account takes the command, or finds it expired.
PollCommand(r) ==
  /\ Turn
  /\ row[r].status = "queued"
  /\ row' = [row EXCEPT ![r] = [@ EXCEPT !.status =
               IF clock < row[r].expires THEN "delivered" ELSE "failed"]]
  /\ UNCHANGED <<clock, req, cooldown, restarts>>

Tick ==
  /\ clock < MaxTime
  /\ clock' = clock + 1
  /\ UNCHANGED <<req, row, cooldown, restarts>>

\* The process ends: running requests are cut, the cooldown is forgotten.
Restart ==
  /\ restarts < MaxRestarts
  /\ restarts' = restarts + 1
  /\ cooldown' = [s \in Symbols |-> {}]
  /\ req' = [r \in Requests |-> IF Busy(r) THEN [req[r] EXCEPT !.pc = "cut"] ELSE req[r]]
  /\ UNCHANGED <<clock, row>>

Handle(r) ==
  \/ Arrive(r) \/ Finish(r) \/ CheckPlan(r) \/ CheckPending(r) \/ CheckLimits(r)
  \/ SaveCandidate(r) \/ DecideCandidate(r) \/ RereadCommand(r) \/ MarkCooldown(r)

Next ==
  \/ \E r \in Requests : Handle(r) \/ PollCommand(r)
  \/ Tick
  \/ Restart

Spec == Init /\ [][Next]_vars

-----------------------------------------------------------------------------
\* Every variable holds a value of its kind.
TypeOK ==
  /\ clock \in 0 .. MaxTime
  /\ req \in [Requests -> Request]
  /\ row \in [Requests -> RowState]
  /\ cooldown \in [Symbols -> SUBSET (0 .. MaxTime)]
  /\ restarts \in 0 .. MaxRestarts

\* No account issues more than DailyLimit AI signals for a symbol on one UTC day,
\* although the day that counts a command (created_at) is not the day its gate
\* counted (the stamp of the request), and whatever restarts happen.
DailyLimitHolds ==
  \A r \in Requests :
    row[r].status \in Issued =>
      Cardinality({q \in Requests : /\ SameInstrument(r, q)
                                    /\ row[q].status \in Issued
                                    /\ DayOf(row[q].created) = DayOf(row[r].created)})
        <= DailyLimit

\* Two issued signals of a symbol, of whichever accounts, were requested at least a
\* cooldown apart, unless a restart forgot the first.
CooldownSpacing ==
  restarts = 0 =>
    \A r, q \in Requests :
      /\ r # q /\ SymbolOf[r] = SymbolOf[q]
      /\ row[r].status \in Issued /\ row[q].status \in Issued
      /\ req[r].at <= req[q].at
      => req[r].at + CooldownTTL <= req[q].at

\* Never two unexpired commands of one account, symbol and side in the queue.
OnePendingPerSide ==
  \A r, q \in Requests :
    /\ r # q /\ SameInstrument(r, q)
    /\ row[r].status = "queued" /\ row[q].status = "queued"
    /\ row[r].side = row[q].side
    => row[r].expires <= req[q].at \/ row[q].expires <= req[r].at

=============================================================================
