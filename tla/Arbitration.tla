------------------------------ MODULE Arbitration ------------------------------
(***************************************************************************)
(* Signals that wait for a verdict: submitSignal saves a pending signal,   *)
(* reads it back to learn the id the store gave it, and polls the store    *)
(* until an arbiter approved or rejected it or the wait is over; then a    *)
(* high score passes and a low one is abandoned.  Arbiters write verdicts  *)
(* and expire stale signals through the admin routes, by id.               *)
(*                                                                         *)
(* The clock ticks in units that tell created_at times apart.  Against     *)
(* Postgres a call is several queries and others run in between; against   *)
(* SQLite saving and reading back is one turn of the event loop.           *)
(***************************************************************************)
EXTENDS Naturals, Sequences, FiniteSets

CONSTANTS
  Signals,       \* signals submitted, one submitSignal call each
  Accounts,
  AccountOf,     \* [Signals -> Accounts]; one symbol
  HighScore,     \* signals whose score passes on timeout
  Store,         \* "postgres" or "sqlite"
  MaxWait,       \* maxWaitMs
  PollInterval,  \* pollIntervalMs
  Ttl,           \* pendingSignalTtlMs
  MaxTime,       \* bound of the clock
  MaxVerdicts,   \* bound: verdicts the arbiters give
  MayAbort       \* signals whose caller may cancel

ASSUME ArbitrationAssumption ==
  /\ AccountOf \in [Signals -> Accounts]
  /\ HighScore \subseteq Signals
  /\ Store \in {"postgres", "sqlite"}
  /\ MaxWait \in Nat /\ PollInterval \in Nat \ {0} /\ Ttl \in Nat
  /\ MaxTime \in Nat /\ MaxVerdicts \in Nat
  /\ MayAbort \subseteq Signals

VARIABLES
  clock,
  sub,       \* the submitSignal calls
  rows,      \* the pending_signal rows in the order they were inserted
  aborted,   \* signals whose caller cancelled
  stale,     \* rows an expiry run read as expired and has not written yet
  verdicts   \* history: <<signal, verdict, time>> the arbiters were answered OK for

vars == <<clock, sub, rows, aborted, stale, verdicts>>

Steps == {"new", "inserting", "finding", "waiting", "ended"}
Statuses == {"pending", "approved", "rejected", "expired"}
Submission == [pc : Steps, id : Nat, created : 0 .. MaxTime, deadline : Nat, wake : Nat,
               status : {"none", "approved", "rejected", "timeout"}, execute : BOOLEAN]
Row == [signal : Signals, id : Nat, created : 0 .. MaxTime, expires : Nat, status : Statuses]

FirstIn(S) == CHOOSE i \in S : \A j \in S : i <= j

OfAccount(i, a) == AccountOf[rows[i].signal] = a

MaxId(S) == IF S = {} THEN 0 ELSE CHOOSE n \in S : \A m \in S : m <= n

\* Postgres numbers the signals of an account and symbol, SQLite all signals.
NextId(s) ==
  1 + MaxId({rows[i].id : i \in {j \in DOMAIN rows :
                Store = "sqlite" \/ OfAccount(j, AccountOf[s])}})

\* The signal a submission takes for its own: among the pending signals of its
\* account the one created at this very time, else the newest; the older of two
\* created at the same time.
Pendings(s) == {i \in DOMAIN rows : OfAccount(i, AccountOf[s]) /\ rows[i].status = "pending"}
FreshPending(s) ==
  LET newest == {i \in Pendings(s) : \A j \in Pendings(s) : rows[j].created <= rows[i].created}
      exact == {i \in Pendings(s) : rows[i].created = clock}
  IN FirstIn(IF exact # {} THEN exact ELSE newest)

\* Against SQLite a submission is not interrupted until it waits.  Mistake: it is.
AnyTurn == TRUE
Turn == Store = "sqlite" => /\ \A s \in Signals : sub[s].pc \notin {"inserting", "finding"}
                            /\ stale = {}

Init ==
  /\ clock = 0
  /\ sub = [s \in Signals |-> [pc |-> "new", id |-> 0, created |-> 0, deadline |-> 0, wake |-> 0,
                               status |-> "none", execute |-> FALSE]]
  /\ rows = << >>
  /\ aborted = {}
  /\ stale = {}
  /\ verdicts = {}

-----------------------------------------------------------------------------
\* Submitting: the id is computed with one query and inserted with another.

NumberSignal(s) ==
  /\ sub[s].pc = "new"
  /\ Turn
  /\ clock + MaxWait + PollInterval <= MaxTime
  /\ sub' = [sub EXCEPT ![s] = [@ EXCEPT !.pc = "inserting", !.id = NextId(s), !.created = clock]]
  /\ UNCHANGED <<clock, rows, aborted, stale, verdicts>>

InsertSignal(s) ==
  /\ sub[s].pc = "inserting"
  /\ rows' = Append(rows, [signal |-> s, id |-> sub[s].id, created |-> sub[s].created,
                           expires |-> sub[s].created + Ttl, status |-> "pending"])
  /\ sub' = [sub EXCEPT ![s] = [@ EXCEPT !.pc = "finding"]]
  /\ UNCHANGED <<clock, aborted, stale, verdicts>>

\* With nothing pending the save is taken for failed.
FindSignal(s) ==
  /\ sub[s].pc = "finding"
  /\ sub' = [sub EXCEPT ![s] =
       IF Pendings(s) = {}
         THEN [@ EXCEPT !.pc = "ended", !.status = "timeout"]
         ELSE [@ EXCEPT !.pc = "waiting", !.id = rows[FreshPending(s)].id,
                        !.deadline = clock + MaxWait, !.wake = clock + PollInterval]]
  /\ UNCHANGED <<clock, rows, aborted, stale, verdicts>>

-----------------------------------------------------------------------------
\* Waiting: after each sleep the cancellation is tested first, then the deadline,
\* and only then the row is read.

RowOf(s) == FirstIn({i \in DOMAIN rows : OfAccount(i, AccountOf[s]) /\ rows[i].id = sub[s].id})

Decided(s) == rows[RowOf(s)].status \in {"approved", "rejected"}

Wake(s) ==
  /\ sub[s].pc = "waiting"
  /\ sub[s].wake <= clock

TimeOut(s) ==
  /\ Wake(s)
  /\ s \in aborted \/ clock >= sub[s].deadline
  /\ sub' = [sub EXCEPT ![s] = [@ EXCEPT !.pc = "ended", !.status = "timeout",
                                         !.execute = s \in HighScore]]
  /\ UNCHANGED <<clock, rows, aborted, stale, verdicts>>

\* Mistake: every verdict executes.
TakeAnyVerdict(s) ==
  /\ Wake(s)
  /\ s \notin aborted /\ clock < sub[s].deadline
  /\ Decided(s)
  /\ sub' = [sub EXCEPT ![s] = [@ EXCEPT !.pc = "ended", !.status = rows[RowOf(s)].status,
                                         !.execute = TRUE]]
  /\ UNCHANGED <<clock, rows, aborted, stale, verdicts>>

TakeVerdict(s) ==
  /\ Wake(s)
  /\ s \notin aborted /\ clock < sub[s].deadline
  /\ Decided(s)
  /\ sub' = [sub EXCEPT ![s] = [@ EXCEPT !.pc = "ended", !.status = rows[RowOf(s)].status,
                                         !.execute = rows[RowOf(s)].status = "approved"]]
  /\ UNCHANGED <<clock, rows, aborted, stale, verdicts>>

\* Mistake: the sleep pushes the deadline on.
SleepLonger(s) ==
  /\ Wake(s)
  /\ s \notin aborted /\ clock < sub[s].deadline
  /\ ~Decided(s)
  /\ sub' = [sub EXCEPT ![s] = [@ EXCEPT !.deadline = clock + MaxWait,
                                         !.wake = clock + PollInterval]]
  /\ UNCHANGED <<clock, rows, aborted, stale, verdicts>>

SleepOn(s) ==
  /\ Wake(s)
  /\ s \notin aborted /\ clock < sub[s].deadline
  /\ ~Decided(s)
  /\ sub' = [sub EXCEPT ![s] = [@ EXCEPT !.wake = clock + PollInterval]]
  /\ UNCHANGED <<clock, rows, aborted, stale, verdicts>>

Abort(s) ==
  /\ s \in MayAbort \ aborted
  /\ sub[s].pc = "waiting"
  /\ aborted' = aborted \cup {s}
  /\ UNCHANGED <<clock, sub, rows, stale, verdicts>>

-----------------------------------------------------------------------------
\* The arbiter has listed the signal of row i, maybe long ago, and posts its id: the
\* first row with that id, of any account, gets the verdict, whatever its status.

GiveVerdict(i, v) ==
  /\ Turn
  /\ Cardinality(verdicts) < MaxVerdicts
  /\ LET target == FirstIn({j \in DOMAIN rows : rows[j].id = rows[i].id}) IN
       rows' = [rows EXCEPT ![target] = [@ EXCEPT !.status = v]]
  /\ verdicts' = verdicts \cup {<<rows[i].signal, v, clock>>}
  /\ UNCHANGED <<clock, sub, aborted, stale>>

\* An expiry run reads every signal and then writes the expired ones one by one, with
\* what it read (status expired in Postgres, timeout in SQLite).  Mistake: also what an arbiter has decided.
DueWhatever(i) == rows[i].expires < clock
Due(i) == rows[i].status = "pending" /\ rows[i].expires < clock

BeginExpiry ==
  /\ Turn
  /\ stale = {}
  /\ {i \in DOMAIN rows : Due(i)} # {}
  /\ stale' = {i \in DOMAIN rows : Due(i)}
  /\ UNCHANGED <<clock, sub, rows, aborted, verdicts>>

ExpireRow ==
  /\ stale # {}
  /\ rows' = [rows EXCEPT ![FirstIn(stale)] = [@ EXCEPT !.status = "expired"]]
  /\ stale' = stale \ {FirstIn(stale)}
  /\ UNCHANGED <<clock, sub, aborted, verdicts>>

\* Bound: time stops early enough for a submission that has not begun to wait.
Tick ==
  /\ clock < MaxTime
  /\ \A s \in Signals :
       sub[s].pc \in {"inserting", "finding"} => clock + MaxWait + PollInterval < MaxTime
  /\ clock' = clock + 1
  /\ UNCHANGED <<sub, rows, aborted, stale, verdicts>>

Submit(s) == NumberSignal(s) \/ InsertSignal(s) \/ FindSignal(s)
Await(s) == TimeOut(s) \/ TakeVerdict(s) \/ SleepOn(s)

Next ==
  \/ \E s \in Signals : Submit(s) \/ Await(s) \/ Abort(s)
  \/ \E i \in DOMAIN rows, v \in {"approved", "rejected"} : GiveVerdict(i, v)
  \/ BeginExpiry \/ ExpireRow
  \/ Tick

Spec == Init /\ [][Next]_vars

\* The event loop runs what is due and time passes; arbiters and callers owe nothing.
FairSpec ==
  /\ Spec
  /\ \A s \in Signals : WF_vars(InsertSignal(s) \/ FindSignal(s)) /\ WF_vars(Await(s))
  /\ WF_vars(Tick)

-----------------------------------------------------------------------------
\* Every variable holds a value of its kind.
TypeOK ==
  /\ clock \in 0 .. MaxTime
  /\ sub \in [Signals -> Submission]
  /\ rows \in Seq(Row)
  /\ aborted \subseteq Signals
  /\ stale \subseteq DOMAIN rows
  /\ verdicts \subseteq Signals \X {"approved", "rejected"} \X (0 .. MaxTime)

Given(s, v) == \E t \in 0 .. MaxTime : <<s, v, t>> \in verdicts

\* Another signal of the account was created at the same time.
Twin(s) ==
  \E i \in DOMAIN rows : /\ OfAccount(i, AccountOf[s])
                         /\ rows[i].signal # s
                         /\ rows[i].created = sub[s].created

\* A submission without a twin ends with a verdict only if an arbiter gave that
\* verdict to its own signal, and a low score executes only when approved.
OwnVerdictOnly ==
  \A s \in Signals :
    ~Twin(s) =>
      /\ sub[s].status \in {"approved", "rejected"} => Given(s, sub[s].status)
      /\ sub[s].execute /\ s \notin HighScore => Given(s, "approved")

\* A verdict that was written is not undone by an expiry run.
VerdictIsKept ==
  [][\A i \in DOMAIN rows :
       rows[i].status \in {"approved", "rejected"} => rows'[i].status # "expired"]_vars

\* The wait is bounded: every submission ends.
SubmissionEnds == \A s \in Signals : sub[s].pc = "inserting" ~> sub[s].pc = "ended"

=============================================================================
