------------------------ MODULE CommandLifecycleProofs ------------------------
(***************************************************************************)
(* Proofs about CommandLifecycle, for every set of commands, accounts and  *)
(* polls, both stores and any number of faults.                            *)
(***************************************************************************)
EXTENDS CommandLifecycle, TLAPS

-----------------------------------------------------------------------------
(* Type correctness. *)

LEMMA TypeInit == Init => TypeOK
<1> SUFFICES ASSUME Init PROVE TypeOK
  OBVIOUS
<1> USE DEF Init
<1>1. IdlePoll \in PollState
  BY DEF IdlePoll, PollState, PollSteps
<1>2. poll \in [Polls -> PollState]
  BY <1>1
<1>3. mode \in [Accounts -> RuntimeModes]
  BY DEF RuntimeModes
<1>4. faults \in 0 .. MaxFaults
  BY ConstantsAssumption DEF ConstantsAssumption
<1>5. QED
  BY <1>2, <1>3, <1>4 DEF TypeOK, Statuses, CandSteps

\* What the terminal executes and reports has the type of a task.
LEMMA NewTasks ==
  ASSUME NEW c \in Commands, NEW r \in Results, NEW copies \in Deliveries
  PROVE  [cmd : {c}, result : {r}, copy : copies, at : {"updating"}] \subseteq Task
BY DEF Deliveries, Task

\* What the handler of a poll holds, and what it may become.
LEMMA PollFields ==
  ASSUME NEW r \in PollState
  PROVE  r.rows \in SUBSET Commands /\ r.expired \in SUBSET Commands /\ r.out \in SUBSET Commands
BY DEF PollState

LEMMA PollUpdate ==
  ASSUME NEW r \in PollState, NEW x \in PollSteps,
         NEW R \in SUBSET Commands, NEW E \in SUBSET Commands, NEW O \in SUBSET Commands
  PROVE  /\ [r EXCEPT !.pc = x] \in PollState
         /\ [r EXCEPT !.pc = x, !.rows = R] \in PollState
         /\ [r EXCEPT !.pc = x, !.expired = E] \in PollState
         /\ [r EXCEPT !.pc = x, !.rows = R, !.out = O] \in PollState
BY DEF PollState

\* Every step keeps the types.
LEMMA TypeNext == TypeOK /\ [Next]_vars => TypeOK'
<1> SUFFICES ASSUME TypeOK, [Next]_vars PROVE TypeOK'
  OBVIOUS
<1> USE ConstantsAssumption DEF TypeOK, ConstantsAssumption
<1>1. ASSUME NEW c \in Commands, SaveCandidate(c) PROVE TypeOK'
  BY <1>1 DEF SaveCandidate, terminal, Statuses, CandSteps
<1>2. ASSUME NEW c \in Commands, ReadMode(c) PROVE TypeOK'
  BY <1>2 DEF ReadMode, store, terminal, history, CandSteps
<1>3. ASSUME NEW c \in Commands, Promote(c) PROVE TypeOK'
  BY <1>3 DEF Promote, terminal, history, Statuses, CandSteps
<1>4. ASSUME NEW c \in Commands, LogEnqueued(c) PROVE TypeOK'
  BY <1>4 DEF LogEnqueued, terminal, history, TimelineEvents, CandSteps
<1>5. ASSUME NEW c \in Commands, Demote(c) PROVE TypeOK'
  BY <1>5 DEF Demote, terminal, history, Statuses, CandSteps
<1>6. ASSUME NEW c \in Commands, PassExpiration(c) PROVE TypeOK'
  BY <1>6 DEF PassExpiration, store, server, terminal, history
<1>7. ASSUME NEW a \in Accounts, NEW m \in OperatorModes, SetRuntimeMode(a, m) PROVE TypeOK'
  BY <1>7 DEF SetRuntimeMode, server, terminal
<1>8. ASSUME NEW a \in Accounts, NEW p \in Polls, BeginPoll(a, p) PROVE TypeOK'
  <2>1. poll' \in [Polls -> PollState]
    BY <1>8 DEF BeginPoll, IdlePoll, PollState, PollSteps
  <2>2. QED
    BY <1>8, <2>1 DEF BeginPoll, store, history
<1>9. ASSUME NEW p \in Polls, SelectQueued(p) PROVE TypeOK'
  <2>0. [poll[p] EXCEPT !.pc = "stamping", !.rows = Queued(poll[p].account)] \in PollState
    BY PollUpdate DEF Queued, PollSteps
  <2>1. poll' \in [Polls -> PollState]
    BY <1>9, <2>0 DEF SelectQueued
  <2>2. QED
    BY <1>9, <2>1 DEF SelectQueued, store, terminal, history
<1>10. ASSUME NEW p \in Polls, StampPoll(p) PROVE TypeOK'
  <2>0. [poll[p] EXCEPT !.pc = "marking", !.expired = poll[p].rows \cap overdue] \in PollState
    BY PollUpdate DEF PollSteps
  <2>1. poll' \in [Polls -> PollState]
    BY <1>10, <2>0 DEF StampPoll
  <2>2. QED
    BY <1>10, <2>1 DEF StampPoll, store, terminal, history
<1>11. ASSUME NEW p \in Polls, MarkRow(p) PROVE TypeOK'
  <2>0. [poll[p] EXCEPT !.pc = "logging"] \in PollState
    BY PollUpdate DEF PollSteps
  <2>1. poll' \in [Polls -> PollState]
    BY <1>11, <2>0 DEF MarkRow
  <2>2. status' \in [Commands -> Statuses] /\ result' \in [Commands -> {"none", "expired"} \cup Results]
    <3> PICK c \in poll[p].rows : ExpireRow(p, c) \/ DeliverRow(p, c)
      BY <1>11 DEF MarkRow
    <3> QED
      BY DEF ExpireRow, DeliverRow, Statuses
  <2>3. QED
    BY <1>11, <2>1, <2>2 DEF MarkRow, terminal, history
<1>12. ASSUME NEW p \in Polls, LogRow(p) PROVE TypeOK'
  <2>1. PICK c \in poll[p].rows :
          IF c \in poll[p].expired
            THEN /\ timeline' = timeline \cup {<<c, "order_result", "failed">>}
                 /\ poll' = [poll EXCEPT ![p] = [@ EXCEPT !.pc = "marking", !.rows = poll[p].rows \ {c}]]
                 /\ UNCHANGED handed
            ELSE /\ timeline' = timeline \cup {<<c, "command_delivered", "delivered">>}
                 /\ poll' = [poll EXCEPT ![p] = [@ EXCEPT !.pc = "marking",
                             !.rows = poll[p].rows \ {c}, !.out = poll[p].out \cup {c}]]
                 /\ handed' = [handed EXCEPT ![c] = @ + 1]
    BY <1>12 DEF LogRow
  <2>2. c \in Commands
    BY PollFields
  <2> DEFINE rest == poll[p].rows \ {c}
             more == poll[p].out \cup {c}
  <2>0. /\ [poll[p] EXCEPT !.pc = "marking", !.rows = rest] \in PollState
        /\ [poll[p] EXCEPT !.pc = "marking", !.rows = rest, !.out = more] \in PollState
    <3>1. rest \in SUBSET Commands /\ more \in SUBSET Commands
      BY <2>2, PollFields
    <3>2. QED
      BY <3>1, PollUpdate DEF PollSteps
  <2>3. poll' \in [Polls -> PollState]
    <3>1. CASE c \in poll[p].expired
      <4>1. poll' = [poll EXCEPT ![p] = [poll[p] EXCEPT !.pc = "marking", !.rows = rest]]
        BY <2>1, <3>1
      <4>2. QED
        BY <2>0, <4>1
    <3>2. CASE c \notin poll[p].expired
      <4>1. poll' = [poll EXCEPT ![p] = [poll[p] EXCEPT !.pc = "marking", !.rows = rest,
                                                        !.out = more]]
        BY <2>1, <3>2
      <4>2. QED
        BY <2>0, <4>1
    <3>3. QED
      BY <3>1, <3>2
  <2>4. timeline' \subseteq TimelineEvents
    BY <2>1, <2>2 DEF TimelineEvents
  <2>5. handed' \in [Commands -> Nat]
    BY <2>1, <2>2
  <2>6. QED
    BY <1>12, <2>3, <2>4, <2>5 DEF LogRow, terminal
<1>13. ASSUME NEW p \in Polls, AnswerPoll(p) PROVE TypeOK'
  <2>1. poll' \in [Polls -> PollState]
    BY <1>13 DEF AnswerPoll, IdlePoll, PollState, PollSteps
  <2>2. awaiting' \in [Accounts -> Polls \cup {"none"}] /\ batch' \in [Accounts -> SUBSET Commands]
    BY <1>13 DEF AnswerPoll, terminal, PollState
  <2>3. QED
    BY <1>13, <2>1, <2>2 DEF AnswerPoll, store, history
<1>14. ASSUME NEW a \in Accounts, NEW r \in Results, NEW copies \in Deliveries,
              ExecuteCommand(a, r, copies)
       PROVE  TypeOK'
  <2>1. PICK c \in Commands :
          /\ batch' = [batch EXCEPT ![a] = @ \ {c}]
          /\ executed' = [executed EXCEPT ![c] = @ + 1]
          /\ outcome' = [outcome EXCEPT ![c] = @ \cup {r}]
          /\ tasks' = tasks \cup [cmd : {c}, result : {r}, copy : copies, at : {"updating"}]
    BY <1>14 DEF ExecuteCommand
  <2>2. tasks' \subseteq Task
    BY <2>1, NewTasks
  <2>3. faults' \in 0 .. MaxFaults
    BY <1>14 DEF ExecuteCommand
  <2>4. QED
    BY <1>14, <2>1, <2>2, <2>3 DEF ExecuteCommand, store
<1>15. ASSUME NEW t \in tasks, Reconcile(t) PROVE TypeOK'
  BY <1>15 DEF Reconcile, Settled, terminal, history, Task, Statuses, Results
<1>16. ASSUME NEW t \in tasks, LogResult(t) PROVE TypeOK'
  BY <1>16 DEF LogResult, LoggedResult, terminal, history, Task, TimelineEvents
<1>17. ASSUME NEW a \in Accounts, AbandonPoll(a) PROVE TypeOK'
  BY <1>17 DEF AbandonPoll, Fault, store, server, history
<1>18. ASSUME NEW a \in Accounts, TerminalRestart(a) PROVE TypeOK'
  BY <1>18 DEF TerminalRestart, Fault, store, server, history
<1>19. CASE ServerCrash
  BY <1>19 DEF ServerCrash, Fault, store, history, CandSteps, IdlePoll, PollState, PollSteps
<1>20. CASE UNCHANGED vars
  BY <1>20 DEF vars
<1>21. QED
  BY <1>1, <1>2, <1>3, <1>4, <1>5, <1>6, <1>7, <1>8, <1>9, <1>10, <1>11, <1>12, <1>13,
     <1>14, <1>15, <1>16, <1>17, <1>18, <1>19, <1>20
     DEF Next, AcceptStep, PollStep, TaskStep

\* Every variable of the lifecycle keeps its type.
THEOREM TypeCorrect == Spec => []TypeOK
<1>1. QED
  BY TypeInit, TypeNext, PTL DEF Spec

-----------------------------------------------------------------------------
(* The handover invariant. *)

LEMMA HandoverInit == Init => HandoverInv
<1> SUFFICES ASSUME Init PROVE HandoverInv
  OBVIOUS
<1> USE DEF Init, IdlePoll
<1>1. CandInv
  BY DEF CandInv
<1>2. PollInv
  BY DEF PollInv
<1>3. AwaitInv
  BY DEF AwaitInv
<1>4. BatchInv /\ ExecInv /\ TaskInv
  BY DEF BatchInv, ExecInv, NotOK, TaskInv
<1>5. QED
  BY <1>1, <1>2, <1>3, <1>4 DEF HandoverInv

\* A step that changes none of the variables of HandoverInv keeps it.
LEMMA HandoverStutter ==
  HandoverInv /\ UNCHANGED <<cand, status, result, poll, tasks, awaiting, batch, executed, outcome>>
    => HandoverInv'
BY DEF HandoverInv, CandInv, PollInv, Given, AwaitInv, BatchInv, ExecInv, NotOK, TaskInv

\* The steps of a handler that accepts a candidate: the row it writes is a draft
\* or absent, so no poll and no terminal knows it.
LEMMA HandoverAccept ==
  ASSUME TypeOK, HandoverInv, NEW c \in Commands, AcceptStep(c)
  PROVE  HandoverInv'
<1> USE DEF HandoverInv
<1>1. /\ UNCHANGED <<result, poll, tasks, awaiting, batch, executed, outcome>>
      /\ \/ UNCHANGED status
         \/ /\ status[c] \in {"none", "draft"}
            /\ \E s \in {"draft", "queued", "shadow_only"} : status' = [status EXCEPT ![c] = s]
      /\ CandInv'
  <2>1. CASE SaveCandidate(c)
    BY <2>1 DEF SaveCandidate, terminal, CandInv, TypeOK
  <2>2. CASE ReadMode(c)
    BY <2>2 DEF ReadMode, store, terminal, history, CandInv, TypeOK
  <2>3. CASE Promote(c)
    BY <2>3 DEF Promote, terminal, history, CandInv, TypeOK
  <2>4. CASE LogEnqueued(c)
    BY <2>4 DEF LogEnqueued, terminal, history, CandInv, TypeOK
  <2>5. CASE Demote(c)
    BY <2>5 DEF Demote, terminal, history, CandInv, TypeOK
  <2>6. QED
    BY <2>1, <2>2, <2>3, <2>4, <2>5 DEF AcceptStep
<1>2. CASE UNCHANGED status
  BY <1>1, <1>2 DEF PollInv, Given, AwaitInv, BatchInv, ExecInv, NotOK, TaskInv
<1>3. CASE /\ status[c] \in {"none", "draft"}
           /\ \E s \in {"draft", "queued", "shadow_only"} : status' = [status EXCEPT ![c] = s]
  <2>1. PICK s \in {"draft", "queued", "shadow_only"} : status' = [status EXCEPT ![c] = s]
    BY <1>3
  <2>2. executed[c] = 0 /\ outcome[c] = {}
    BY <1>3 DEF ExecInv, NotOK, Issued, Terminal
  <2>3. PollInv'
    BY <1>1, <1>3, <2>1 DEF PollInv, Given, Issued, Terminal, TypeOK, PollState
  <2>4. AwaitInv'
    BY <1>1 DEF AwaitInv
  <2>5. BatchInv'
    BY <1>1, <1>3, <2>1 DEF BatchInv, TypeOK
  <2>6. ExecInv'
    BY <1>1, <2>1, <2>2 DEF ExecInv, NotOK, TypeOK
  <2>7. TaskInv'
    BY <1>1 DEF TaskInv
  <2>8. QED
    BY <1>1, <2>3, <2>4, <2>5, <2>6, <2>7
<1>4. QED
  BY <1>1, <1>2, <1>3

LEMMA HandoverBeginPoll ==
  ASSUME TypeOK, HandoverInv, NEW a \in Accounts, NEW p \in Polls, BeginPoll(a, p)
  PROVE  HandoverInv'
<1> USE DEF HandoverInv
<1>1. /\ UNCHANGED <<cand, status, result, tasks, batch, executed, outcome>>
      /\ batch[a] = {}
      /\ poll[p].pc = "idle"
      /\ poll' = [poll EXCEPT ![p] = [IdlePoll EXCEPT !.pc = "selecting", !.account = a]]
      /\ awaiting' = [awaiting EXCEPT ![a] = p]
  BY DEF BeginPoll, Idle, store, history
<1>2. /\ poll'[p].pc = "selecting" /\ poll'[p].account = a
      /\ poll'[p].rows = {} /\ poll'[p].out = {}
      /\ \A q \in Polls \ {p} : poll'[q] = poll[q]
  BY <1>1 DEF IdlePoll, TypeOK
<1>3. PollInv'
  BY <1>1, <1>2 DEF PollInv, Given
<1>4. AwaitInv'
  BY <1>1, <1>2 DEF AwaitInv, TypeOK
<1>5. CandInv' /\ BatchInv' /\ ExecInv' /\ TaskInv'
  BY <1>1 DEF CandInv, BatchInv, ExecInv, NotOK, TaskInv
<1>6. QED
  BY <1>3, <1>4, <1>5

LEMMA HandoverSelectQueued ==
  ASSUME TypeOK, HandoverInv, NEW p \in Polls, SelectQueued(p)
  PROVE  HandoverInv'
<1> USE DEF HandoverInv
<1> DEFINE queued == Queued(poll[p].account)
<1>1. /\ UNCHANGED <<cand, status, result, tasks, awaiting, batch, executed, outcome>>
      /\ poll[p].pc = "selecting"
      /\ poll' = [poll EXCEPT ![p] = [poll[p] EXCEPT !.pc = "stamping", !.rows = queued]]
  BY DEF SelectQueued, store, terminal, history
<1>2. /\ poll[p].out = {}
      /\ poll'[p].pc = "stamping" /\ poll'[p].account = poll[p].account
      /\ poll'[p].rows = queued /\ poll'[p].out = {}
      /\ \A q \in Polls \ {p} : poll'[q] = poll[q]
  BY <1>1 DEF PollInv, TypeOK, PollState
<1>3. PollInv'
  BY <1>1, <1>2 DEF PollInv, Given, Queued
<1>4. \A c \in queued : executed[c] = 0
  BY DEF Queued, ExecInv, Issued, Terminal
<1>5. AwaitInv'
  BY <1>1, <1>2, <1>4 DEF AwaitInv, TypeOK
<1>6. CandInv' /\ BatchInv' /\ ExecInv' /\ TaskInv'
  BY <1>1 DEF CandInv, BatchInv, ExecInv, NotOK, TaskInv
<1>7. QED
  BY <1>3, <1>5, <1>6

LEMMA HandoverStampPoll ==
  ASSUME TypeOK, HandoverInv, NEW p \in Polls, StampPoll(p)
  PROVE  HandoverInv'
<1> USE DEF HandoverInv
<1>1. /\ UNCHANGED <<cand, status, result, tasks, awaiting, batch, executed, outcome>>
      /\ poll[p].pc = "stamping"
      /\ poll' = [poll EXCEPT ![p] = [poll[p] EXCEPT !.pc = "marking",
                                                     !.expired = poll[p].rows \cap overdue]]
  BY DEF StampPoll, store, terminal, history
<1>2. /\ poll'[p].pc = "marking" /\ poll'[p].account = poll[p].account
      /\ poll'[p].rows = poll[p].rows /\ poll'[p].out = poll[p].out
      /\ \A q \in Polls \ {p} : poll'[q] = poll[q]
  BY <1>1 DEF TypeOK, PollState
<1>3. PollInv'
  BY <1>1, <1>2 DEF PollInv, Given
<1>4. AwaitInv'
  BY <1>1, <1>2 DEF AwaitInv, TypeOK
<1>5. CandInv' /\ BatchInv' /\ ExecInv' /\ TaskInv'
  BY <1>1 DEF CandInv, BatchInv, ExecInv, NotOK, TaskInv
<1>6. QED
  BY <1>3, <1>4, <1>5

\* The command a poll works on is the only first one of its rows.
LEMMA FirstIsUnique ==
  ASSUME NEW S \in SUBSET Commands, NEW c, NEW d, First(c, S), First(d, S)
  PROVE  c = d
BY ConstantsAssumption DEF ConstantsAssumption, First

\* The update of a row by a poll.  An expiry replaces "queued", so the row was
\* in no reply; a delivery may replace any later status, and leaves the row one
\* that an execution, and only an execution, settles.
LEMMA HandoverMarkRow ==
  ASSUME TypeOK, HandoverInv, NEW p \in Polls, MarkRow(p)
  PROVE  HandoverInv'
<1> USE DEF HandoverInv
<1>1. /\ UNCHANGED <<cand, tasks, awaiting, batch, executed, outcome>>
      /\ poll[p].pc = "marking"
      /\ poll' = [poll EXCEPT ![p] = [poll[p] EXCEPT !.pc = "logging"]]
  BY DEF MarkRow, terminal, history
<1>2. /\ poll'[p].pc = "logging" /\ poll'[p].account = poll[p].account
      /\ poll'[p].rows = poll[p].rows /\ poll'[p].out = poll[p].out
      /\ poll'[p].expired = poll[p].expired
      /\ \A q \in Polls \ {p} : poll'[q] = poll[q]
  BY <1>1 DEF TypeOK, PollState
<1>3. PICK c \in poll[p].rows : First(c, poll[p].rows) /\ (ExpireRow(p, c) \/ DeliverRow(p, c))
  BY DEF MarkRow
<1>4. c \in Commands /\ poll[p].rows \in SUBSET Commands
  BY PollFields DEF TypeOK
<1>5. status[c] \in {"queued"} \cup Issued
  BY DEF PollInv
<1>6. AwaitInv'
  BY <1>1, <1>2 DEF AwaitInv, TypeOK
<1>7. TaskInv'
  BY <1>1 DEF TaskInv
<1>8. CASE UNCHANGED <<status, result>> /\ c \in poll[p].expired
  <2>1. PollInv'
    BY <1>1, <1>2, <1>3, <1>4, <1>8, FirstIsUnique DEF PollInv, Given
  <2>2. CandInv' /\ BatchInv' /\ ExecInv'
    BY <1>1, <1>8 DEF CandInv, BatchInv, ExecInv, NotOK
  <2>3. QED
    BY <1>6, <1>7, <2>1, <2>2
<1>9. CASE /\ c \in poll[p].expired
           /\ status[c] = "queued"
           /\ status' = [status EXCEPT ![c] = "failed"]
           /\ result' = [result EXCEPT ![c] = "expired"]
  <2>1. executed[c] = 0
    BY <1>4, <1>9 DEF ExecInv, NotOK, Issued, Terminal
  <2>2. ~Given(c)
    BY <1>9 DEF Given, Issued, Terminal
  <2>3. \A d \in Commands : d # c => status'[d] = status[d] /\ result'[d] = result[d]
    BY <1>4, <1>9 DEF TypeOK
  <2>4. status'[c] = "failed" /\ result'[c] = "expired"
    BY <1>4, <1>9 DEF TypeOK
  <2>5. \A q \in Polls : poll[q].rows \in SUBSET Commands /\ poll[q].out \in SUBSET Commands
    BY PollFields DEF TypeOK
  <2>6. PollInv'
    BY <1>1, <1>2, <1>3, <1>4, <1>9, <2>2, <2>3, <2>4, <2>5, FirstIsUnique
       DEF PollInv, Given, Issued, Terminal
  <2>7. CandInv'
    BY <1>1, <1>4, <1>9, <2>3 DEF CandInv
  <2>8. BatchInv'
    BY <1>1, <1>4, <1>9, <2>3 DEF BatchInv, TypeOK
  <2>9. ExecInv'
    BY <1>1, <1>4, <2>1, <2>3, <2>4 DEF ExecInv, NotOK
  <2>10. QED
    BY <1>6, <1>7, <2>6, <2>7, <2>8, <2>9
<1>10. CASE DeliverRow(p, c)
  <2>1. /\ UNCHANGED result
        /\ status'[c] = "delivered"
        /\ \A d \in Commands : d # c => status'[d] = status[d]
    BY <1>4, <1>10 DEF DeliverRow, TypeOK
  <2>2. \A q \in Polls : poll[q].rows \in SUBSET Commands /\ poll[q].out \in SUBSET Commands
    BY PollFields DEF TypeOK
  <2>3. Given(c)' /\ \A d \in Commands : Given(d) => Given(d)'
    BY <1>1, <2>1 DEF Given, Issued
  <2>4. PollInv'
    BY <1>1, <1>2, <1>3, <1>4, <2>1, <2>2, <2>3, FirstIsUnique DEF PollInv, Issued
  <2>5. CandInv'
    BY <1>1, <1>4, <1>5, <2>1 DEF CandInv, Issued, Terminal
  <2>6. BatchInv'
    BY <1>1, <1>4, <2>1 DEF BatchInv, TypeOK
  <2>7. ExecInv'
    BY <1>1, <1>4, <2>1 DEF ExecInv, NotOK, Issued
  <2>8. QED
    BY <1>6, <1>7, <2>4, <2>5, <2>6, <2>7
<1>11. QED
  BY <1>3, <1>8, <1>9, <1>10 DEF ExpireRow

LEMMA HandoverLogRow ==
  ASSUME TypeOK, HandoverInv, NEW p \in Polls, LogRow(p)
  PROVE  HandoverInv'
<1> USE DEF HandoverInv
<1>1. /\ UNCHANGED <<cand, status, result, tasks, awaiting, batch, executed, outcome>>
      /\ poll[p].pc = "logging"
  BY DEF LogRow, terminal
<1>2. PICK c \in poll[p].rows :
        /\ First(c, poll[p].rows)
        /\ \/ /\ c \in poll[p].expired
              /\ poll' = [poll EXCEPT ![p] = [poll[p] EXCEPT !.pc = "marking",
                                                             !.rows = poll[p].rows \ {c}]]
           \/ /\ c \notin poll[p].expired
              /\ poll' = [poll EXCEPT ![p] = [poll[p] EXCEPT !.pc = "marking",
                               !.rows = poll[p].rows \ {c}, !.out = poll[p].out \cup {c}]]
  BY DEF LogRow
<1>3. /\ poll'[p].pc = "marking" /\ poll'[p].account = poll[p].account
      /\ poll'[p].rows = poll[p].rows \ {c}
      /\ \/ poll'[p].out = poll[p].out
         \/ c \notin poll[p].expired /\ poll'[p].out = poll[p].out \cup {c}
      /\ \A q \in Polls \ {p} : poll'[q] = poll[q]
  <2>1. poll[p] \in PollState
    BY DEF TypeOK
  <2>2. CASE poll' = [poll EXCEPT ![p] = [poll[p] EXCEPT !.pc = "marking",
                                                        !.rows = poll[p].rows \ {c}]]
    BY <2>1, <2>2 DEF TypeOK, PollState
  <2>3. CASE /\ c \notin poll[p].expired
             /\ poll' = [poll EXCEPT ![p] = [poll[p] EXCEPT !.pc = "marking",
                             !.rows = poll[p].rows \ {c}, !.out = poll[p].out \cup {c}]]
    BY <2>1, <2>3 DEF TypeOK, PollState
  <2>4. QED
    BY <1>2, <2>2, <2>3
<1>4. PollInv'
  BY <1>1, <1>2, <1>3 DEF PollInv, Given
<1>5. AwaitInv'
  BY <1>1, <1>2, <1>3 DEF AwaitInv, TypeOK
<1>6. CandInv' /\ BatchInv' /\ ExecInv' /\ TaskInv'
  BY <1>1 DEF CandInv, BatchInv, ExecInv, NotOK, TaskInv
<1>7. QED
  BY <1>4, <1>5, <1>6

\* A reply that reaches its terminal lists delivered commands of the account,
\* none of them executed before.
LEMMA HandoverAnswerPoll ==
  ASSUME TypeOK, HandoverInv, NEW p \in Polls, AnswerPoll(p)
  PROVE  HandoverInv'
<1> USE DEF HandoverInv
<1> DEFINE a == poll[p].account
<1>1. /\ UNCHANGED <<cand, status, result, tasks, executed, outcome>>
      /\ poll[p].pc = "marking"
      /\ poll' = [poll EXCEPT ![p] = IdlePoll]
      /\ \/ /\ awaiting[a] = p
            /\ awaiting' = [awaiting EXCEPT ![a] = "none"]
            /\ batch' = [batch EXCEPT ![a] = poll[p].out]
         \/ awaiting[a] # p /\ UNCHANGED <<awaiting, batch>>
  BY DEF AnswerPoll, terminal, store, history
<1>2. /\ poll'[p].pc = "idle" /\ poll'[p].rows = {} /\ poll'[p].out = {}
      /\ \A q \in Polls \ {p} : poll'[q] = poll[q]
  BY <1>1 DEF TypeOK, IdlePoll
<1>3. PollInv'
  BY <1>1, <1>2 DEF PollInv, Given
<1>4. CandInv' /\ ExecInv' /\ TaskInv'
  BY <1>1 DEF CandInv, ExecInv, NotOK, TaskInv
<1>5. \A b \in Accounts : awaiting[b] = p => a = b
  BY ConstantsAssumption DEF AwaitInv, ConstantsAssumption
<1>6. AwaitInv'
  <2>1. \A b \in Accounts : awaiting'[b] # "none" => /\ awaiting'[b] = awaiting[b]
                                                    /\ awaiting[b] # p
                                                    /\ batch'[b] = batch[b]
    BY <1>1, <1>5 DEF TypeOK
  <2>2. QED
    BY <1>1, <1>2, <2>1 DEF AwaitInv, TypeOK
<1>7. BatchInv'
  <2>1. CASE awaiting[a] = p /\ batch' = [batch EXCEPT ![a] = poll[p].out]
    <3>1. \A c \in poll[p].out : AccountOf[c] = a /\ executed[c] = 0 /\ status[c] = "delivered"
      <4>1. a \in Accounts
        BY <1>1 DEF PollInv
      <4>2. QED
        BY <2>1, <4>1, ConstantsAssumption DEF PollInv, Given, AwaitInv, ConstantsAssumption
    <3>2. \A b \in Accounts : batch'[b] = IF b = a THEN poll[p].out ELSE batch[b]
      BY <2>1 DEF TypeOK
    <3>3. QED
      BY <1>1, <3>1, <3>2 DEF BatchInv
  <2>2. CASE UNCHANGED batch
    BY <1>1, <2>2 DEF BatchInv
  <2>3. QED
    BY <1>1, <2>1, <2>2
<1>8. QED
  BY <1>3, <1>4, <1>6, <1>7

\* An execution uses up a command that no reply still under way may bring again.
LEMMA HandoverExecute ==
  ASSUME TypeOK, HandoverInv, NEW a \in Accounts, NEW r \in Results, NEW copies \in Deliveries,
         ExecuteCommand(a, r, copies)
  PROVE  HandoverInv'
<1> USE DEF HandoverInv
<1>1. PICK c \in batch[a] :
        /\ batch' = [batch EXCEPT ![a] = batch[a] \ {c}]
        /\ executed' = [executed EXCEPT ![c] = executed[c] + 1]
        /\ outcome' = [outcome EXCEPT ![c] = outcome[c] \cup {r}]
        /\ tasks' = tasks \cup [cmd : {c}, result : {r}, copy : copies, at : {"updating"}]
  BY DEF ExecuteCommand
<1>2. UNCHANGED <<cand, status, result, poll, awaiting>>
  BY DEF ExecuteCommand, store
<1>3. c \in Commands
  BY DEF TypeOK
<1>4. AccountOf[c] = a /\ executed[c] = 0 /\ outcome[c] = {} /\ status[c] = "delivered"
  BY <1>3 DEF BatchInv, ExecInv
<1>5. /\ executed'[c] = 1 /\ outcome'[c] = {r}
      /\ \A d \in Commands : d # c => executed'[d] = executed[d] /\ outcome'[d] = outcome[d]
      /\ \A b \in Accounts : batch'[b] \subseteq batch[b]
      /\ c \notin batch'[a]
  BY <1>1, <1>3, <1>4 DEF TypeOK
<1>6. CandInv'
  BY <1>2 DEF CandInv
<1>7. PollInv'
  <2>1. \A d \in Commands : Given(d) => Given(d)'
    BY <1>2, <1>3, <1>4, <1>5 DEF Given
  <2>2. \A q \in Polls : poll[q].rows \in SUBSET Commands /\ poll[q].out \in SUBSET Commands
    BY PollFields DEF TypeOK
  <2>3. QED
    BY <1>2, <2>1, <2>2 DEF PollInv
<1>8. AwaitInv'
  <2>1. SUFFICES ASSUME NEW b \in Accounts, awaiting[b] # "none"
                 PROVE  /\ batch'[b] = {}
                        /\ \A d \in poll[awaiting[b]].rows \cup poll[awaiting[b]].out :
                             executed'[d] = 0
    BY <1>2 DEF AwaitInv
  <2>2. awaiting[b] \in Polls /\ batch[b] = {} /\ b # a
    BY <2>1, <1>1 DEF AwaitInv, TypeOK
  <2>3. \A d \in poll[awaiting[b]].rows \cup poll[awaiting[b]].out :
          d \in Commands /\ AccountOf[d] = b
    BY <2>1, <2>2, PollFields DEF PollInv, AwaitInv, TypeOK
  <2>4. QED
    BY <1>4, <1>5, <2>1, <2>2, <2>3 DEF AwaitInv
<1>9. BatchInv'
  BY <1>2, <1>4, <1>5 DEF BatchInv, TypeOK
<1>10. ExecInv'
  BY <1>2, <1>4, <1>5 DEF ExecInv, NotOK, Issued
<1>11. TaskInv'
  <2>1. \A t \in tasks : t.cmd \in Commands /\ t.cmd # c
    BY <1>4 DEF TaskInv, TypeOK, Task
  <2>2. QED
    BY <1>1, <1>5, <2>1 DEF TaskInv
<1>12. QED
  BY <1>6, <1>7, <1>8, <1>9, <1>10, <1>11

\* A result settles a row only after its execution, so no terminal holds it.
LEMMA HandoverReconcile ==
  ASSUME TypeOK, HandoverInv, NEW t \in tasks, Reconcile(t)
  PROVE  HandoverInv'
<1> USE DEF HandoverInv
<1> DEFINE c == t.cmd
<1>1. UNCHANGED <<cand, poll, awaiting, batch, executed, outcome>>
  BY DEF Reconcile, terminal, history
<1>2. c \in Commands /\ t.result \in Results /\ executed[c] = 1 /\ outcome[c] = {t.result}
  BY DEF TypeOK, Task, TaskInv
<1>3. CASE status[c] # "delivered"
  <2>1. UNCHANGED <<status, result>> /\ tasks' \subseteq tasks
    BY <1>3 DEF Reconcile, Settleable
  <2>2. QED
    BY <1>1, <2>1 DEF CandInv, PollInv, Given, AwaitInv, BatchInv, ExecInv, NotOK, TaskInv
<1>4. CASE status[c] = "delivered"
  <2>1. /\ status' = [status EXCEPT ![c] = IF t.result = "OK" THEN "acked" ELSE "failed"]
        /\ result' = [result EXCEPT ![c] = t.result]
        /\ tasks' = (tasks \ {t}) \cup {[t EXCEPT !.at = "logging"]}
    BY <1>4 DEF Reconcile, Settleable, Settled
  <2>2. /\ status'[c] = (IF t.result = "OK" THEN "acked" ELSE "failed")
        /\ result'[c] = t.result
        /\ \A d \in Commands : d # c => status'[d] = status[d] /\ result'[d] = result[d]
    BY <1>2, <2>1 DEF TypeOK
  <2>3. CandInv'
    BY <1>1, <1>4, <2>2 DEF CandInv
  <2>4. PollInv'
    <3>1. \A d \in Commands : Given(d) => Given(d)'
      BY <1>1, <1>2, <2>2 DEF Given, Issued, Terminal
    <3>2. \A q \in Polls : poll[q].rows \in SUBSET Commands /\ poll[q].out \in SUBSET Commands
      BY PollFields DEF TypeOK
    <3>3. QED
      BY <1>1, <2>2, <3>1, <3>2 DEF PollInv, Issued, Terminal
  <2>5. AwaitInv'
    BY <1>1 DEF AwaitInv
  <2>6. BatchInv'
    BY <1>1, <1>2, <2>2 DEF BatchInv, TypeOK
  <2>7. ExecInv'
    BY <1>1, <1>2, <2>2 DEF ExecInv, NotOK, Issued, Terminal, Results
  <2>8. TaskInv'
    <3>1. [t EXCEPT !.at = "logging"].cmd = c /\ [t EXCEPT !.at = "logging"].result = t.result
      BY DEF TypeOK, Task
    <3>2. QED
      BY <1>1, <1>2, <2>1, <3>1 DEF TaskInv
  <2>9. QED
    BY <2>3, <2>4, <2>5, <2>6, <2>7, <2>8
<1>5. QED
  BY <1>3, <1>4

\* The faults drop requests, replies and handlers; they write no row.
LEMMA HandoverFault ==
  ASSUME TypeOK, HandoverInv,
         ServerCrash \/ \E a \in Accounts : AbandonPoll(a) \/ TerminalRestart(a)
  PROVE  HandoverInv'
<1> USE DEF HandoverInv
<1>1. ASSUME NEW a \in Accounts, AbandonPoll(a) PROVE HandoverInv'
  BY <1>1 DEF AbandonPoll, store, server, history, TypeOK,
              CandInv, PollInv, Given, AwaitInv, BatchInv, ExecInv, NotOK, TaskInv
<1>2. ASSUME NEW a \in Accounts, TerminalRestart(a) PROVE HandoverInv'
  BY <1>2 DEF TerminalRestart, store, server, history, TypeOK,
              CandInv, PollInv, Given, AwaitInv, BatchInv, ExecInv, NotOK, TaskInv
<1>3. CASE ServerCrash
  <2>1. /\ UNCHANGED <<status, result, batch, executed, outcome>>
        /\ cand' = [c \in Commands |-> IF CandBusy(c) THEN "dead" ELSE cand[c]]
        /\ poll' = [p \in Polls |-> IdlePoll]
        /\ tasks' = {}
        /\ awaiting' = [a \in Accounts |-> "none"]
    BY <1>3 DEF ServerCrash, store, history
  <2>2. CandInv'
    BY <2>1 DEF CandInv, TypeOK
  <2>3. PollInv' /\ AwaitInv' /\ TaskInv'
    BY <2>1 DEF IdlePoll, PollInv, AwaitInv, TaskInv
  <2>4. BatchInv' /\ ExecInv'
    BY <2>1 DEF BatchInv, ExecInv, NotOK
  <2>5. QED
    BY <2>2, <2>3, <2>4
<1>4. QED
  BY <1>1, <1>2, <1>3

LEMMA HandoverNext == TypeOK /\ HandoverInv /\ [Next]_vars => HandoverInv'
<1> SUFFICES ASSUME TypeOK, HandoverInv, [Next]_vars PROVE HandoverInv'
  OBVIOUS
<1>1. ASSUME NEW c \in Commands, AcceptStep(c) PROVE HandoverInv'
  BY <1>1, HandoverAccept
<1>2. ASSUME NEW c \in Commands, PassExpiration(c) PROVE HandoverInv'
  BY <1>2, HandoverStutter DEF PassExpiration, store, server, terminal, history
<1>3. ASSUME NEW a \in Accounts, NEW m \in OperatorModes, SetRuntimeMode(a, m) PROVE HandoverInv'
  BY <1>3, HandoverStutter DEF SetRuntimeMode, server, terminal
<1>4. ASSUME NEW a \in Accounts, NEW p \in Polls, BeginPoll(a, p) PROVE HandoverInv'
  BY <1>4, HandoverBeginPoll
<1>5. ASSUME NEW p \in Polls, PollStep(p) PROVE HandoverInv'
  BY <1>5, HandoverSelectQueued, HandoverStampPoll, HandoverMarkRow, HandoverLogRow,
     HandoverAnswerPoll DEF PollStep
<1>6. ASSUME NEW a \in Accounts, NEW r \in Results, NEW copies \in Deliveries,
             ExecuteCommand(a, r, copies)
      PROVE  HandoverInv'
  BY <1>6, HandoverExecute
<1>7. ASSUME NEW t \in tasks, TaskStep(t) PROVE HandoverInv'
  <2>1. CASE Reconcile(t)
    BY <2>1, HandoverReconcile
  <2>2. CASE LogResult(t)
    BY <2>2 DEF LogResult, terminal, history,
                HandoverInv, CandInv, PollInv, Given, AwaitInv, BatchInv, ExecInv, NotOK, TaskInv
  <2>3. QED
    BY <1>7, <2>1, <2>2 DEF TaskStep
<1>8. CASE ServerCrash \/ \E a \in Accounts : AbandonPoll(a) \/ TerminalRestart(a)
  BY <1>8, HandoverFault
<1>9. CASE UNCHANGED vars
  BY <1>9, HandoverStutter DEF vars
<1>10. QED
  BY <1>1, <1>2, <1>3, <1>4, <1>5, <1>6, <1>7, <1>8, <1>9 DEF Next

\* The handover invariant holds for both stores, however requests overlap, get
\* lost or are cut by a crash.
THEOREM Handover == Spec => []HandoverInv
<1>1. Spec => []TypeOK
  BY TypeCorrect
<1>2. QED
  BY <1>1, HandoverInit, HandoverNext, PTL DEF Spec

\* No command is executed twice at the broker.
THEOREM AtMostOnce == Spec => []ExecutedAtMostOnce
<1>1. HandoverInv => ExecutedAtMostOnce
  BY DEF HandoverInv, ExecInv, ExecutedAtMostOnce
<1>2. QED
  BY <1>1, Handover, PTL

\* A settled row tells what the broker did, or that the terminal never had it.
THEOREM SettledIsTrue == Spec => []SettledRowIsTrue
<1>1. HandoverInv => SettledRowIsTrue
  BY DEF HandoverInv, ExecInv, NotOK, BatchInv, SettledRowIsTrue
<1>2. QED
  BY <1>1, Handover, PTL

-----------------------------------------------------------------------------
(* The runtime mode and the queue. *)

LEMMA ClearedInit == Init => ClearedInv
BY DEF Init, ClearedInv, Issued, Terminal

\* A poll and a result move a row only within what was cleared before.
LEMMA ClearedMove ==
  ASSUME ClearedInv, UNCHANGED <<mode, cand, cleared>>,
         \A c \in Commands : status'[c] = status[c]
                             \/ {status[c], status'[c]} \subseteq {"queued"} \cup Issued
  PROVE  ClearedInv'
BY DEF ClearedInv, Live, EffectiveMode, Issued, Terminal

LEMMA ClearedNext == TypeOK /\ HandoverInv /\ ClearedInv /\ [Next]_vars => ClearedInv'
<1> SUFFICES ASSUME TypeOK, HandoverInv, ClearedInv, [Next]_vars PROVE ClearedInv'
  OBVIOUS
<1> USE DEF HandoverInv
<1>1. ASSUME NEW c \in Commands, SaveCandidate(c) PROVE ClearedInv'
  <2>1. /\ UNCHANGED mode
        /\ status' = [status EXCEPT ![c] = "draft"]
        /\ cand' = [cand EXCEPT ![c] = IF c \in RiskCommands THEN "promoting" ELSE "reading"]
        /\ cleared' = IF Live(AccountOf[c]) THEN cleared \cup {c} ELSE cleared
    BY <1>1 DEF SaveCandidate
  <2>2. \A a \in Accounts : Live(a)' <=> Live(a)
    BY <2>1 DEF Live, EffectiveMode
  <2>3. \A d \in Commands : AccountOf[d] \in Accounts
    BY ConstantsAssumption DEF ConstantsAssumption
  <2>4. QED
    BY <2>1, <2>2, <2>3 DEF ClearedInv, Issued, Terminal, TypeOK
<1>2. ASSUME NEW c \in Commands, ReadMode(c) PROVE ClearedInv'
  <2>1. status[c] = "draft"
    BY <1>2 DEF ReadMode, CandInv
  <2>2. QED
    BY <1>2, <2>1 DEF ReadMode, store, history, ClearedInv, Live, EffectiveMode, TypeOK
<1>3. ASSUME NEW c \in Commands, Promote(c) PROVE ClearedInv'
  BY <1>3 DEF Promote, history, ClearedInv, Live, EffectiveMode, TypeOK, CandInv, Issued, Terminal
<1>4. ASSUME NEW c \in Commands, LogEnqueued(c) \/ Demote(c) PROVE ClearedInv'
  BY <1>4 DEF LogEnqueued, Demote, history, ClearedInv, Live, EffectiveMode, TypeOK, Issued, Terminal
<1>5. ASSUME NEW a \in Accounts, NEW m \in OperatorModes, SetRuntimeMode(a, m) PROVE ClearedInv'
  <2>1. /\ UNCHANGED <<status, cand>>
        /\ cleared \subseteq cleared'
        /\ \A c \in Commands : AccountOf[c] = a /\ Live(a)' /\ status[c] = "draft" => c \in cleared'
        /\ \A b \in Accounts : b # a => (Live(b)' <=> Live(b))
    BY <1>5 DEF SetRuntimeMode, server, Live, EffectiveMode, TypeOK
  <2>2. \A c \in Commands : AccountOf[c] \in Accounts
    BY ConstantsAssumption DEF ConstantsAssumption
  <2>3. QED
    BY <2>1, <2>2 DEF ClearedInv
<1>6. ASSUME NEW p \in Polls, MarkRow(p) PROVE ClearedInv'
  <2>1. PICK c \in poll[p].rows : ExpireRow(p, c) \/ DeliverRow(p, c)
    BY <1>6 DEF MarkRow
  <2>2. c \in Commands /\ status[c] \in {"queued"} \cup Issued
    BY PollFields DEF PollInv, TypeOK
  <2>3. \A d \in Commands : status'[d] = status[d]
                            \/ {status[d], status'[d]} \subseteq {"queued"} \cup Issued
    BY <2>1, <2>2 DEF ExpireRow, DeliverRow, Issued, Terminal, TypeOK
  <2>4. QED
    BY <1>6, <2>3, ClearedMove DEF MarkRow, history
<1>7. ASSUME NEW t \in tasks, Reconcile(t) PROVE ClearedInv'
  <2>1. \A d \in Commands : status'[d] = status[d]
                            \/ {status[d], status'[d]} \subseteq {"queued"} \cup Issued
    BY <1>7 DEF Reconcile, Settleable, Settled, Issued, Terminal, TypeOK
  <2>2. QED
    BY <1>7, <2>1, ClearedMove DEF Reconcile, history
<1>8. CASE ServerCrash
  BY <1>8 DEF ServerCrash, store, history, ClearedInv, Live, EffectiveMode, TypeOK
<1>9. CASE UNCHANGED <<mode, cand, cleared, status>>
  BY <1>9, ClearedMove
<1>10. ASSUME NEW c \in Commands, PassExpiration(c) PROVE ClearedInv'
  BY <1>9, <1>10 DEF PassExpiration, store, server, history
<1>11. ASSUME NEW a \in Accounts, NEW p \in Polls, BeginPoll(a, p) PROVE ClearedInv'
  BY <1>9, <1>11 DEF BeginPoll, store, history
<1>12. ASSUME NEW p \in Polls, SelectQueued(p) \/ StampPoll(p) \/ LogRow(p) \/ AnswerPoll(p)
       PROVE  ClearedInv'
  BY <1>9, <1>12 DEF SelectQueued, StampPoll, LogRow, AnswerPoll, store, history
<1>13. ASSUME NEW a \in Accounts, NEW r \in Results, NEW copies \in Deliveries,
              ExecuteCommand(a, r, copies)
       PROVE  ClearedInv'
  BY <1>9, <1>13 DEF ExecuteCommand, store
<1>14. ASSUME NEW t \in tasks, LogResult(t) PROVE ClearedInv'
  BY <1>9, <1>14 DEF LogResult, history
<1>15. ASSUME NEW a \in Accounts, AbandonPoll(a) \/ TerminalRestart(a) PROVE ClearedInv'
  BY <1>9, <1>15 DEF AbandonPoll, TerminalRestart, store, server, history
<1>16. CASE UNCHANGED vars
  BY <1>9, <1>16 DEF vars
<1>17. QED
  BY <1>1, <1>2, <1>3, <1>4, <1>5, <1>6, <1>7, <1>8, <1>10, <1>11, <1>12, <1>13, <1>14,
     <1>15, <1>16
     DEF Next, AcceptStep, PollStep, TaskStep

\* A candidate of the lifecycle service is queued, and everything after, only if
\* its account was live while it was a draft.
THEOREM OnlyClearedIssued == Spec => []NothingIssuedUncleared
<1>1. Spec => []TypeOK /\ []HandoverInv
  BY TypeCorrect, Handover
<1>2. Spec => []ClearedInv
  BY <1>1, ClearedInit, ClearedNext, PTL DEF Spec
<1>3. ClearedInv => NothingIssuedUncleared
  BY DEF ClearedInv, NothingIssuedUncleared
<1>4. QED
  BY <1>2, <1>3, PTL

-----------------------------------------------------------------------------
(* What the lifecycle owes to polls that do not overlap: against SQLite    *)
(* always, against Postgres until a request is given up.  Then no row is   *)
(* handed over twice, the timeline tells what the broker did, a settled    *)
(* row is final, and the lifecycle implements CommandPipeline.             *)

Calm == Store = "sqlite" \/ faults = 0

\* A terminal that gave up no request has one under way, and a poll of an
\* account marks its rows alone.
WaitedFor ==
  faults = 0 =>
    \A p \in Polls : poll[p].pc # "idle" => awaiting[poll[p].account] = p

OnePoll ==
  \A p, q \in Polls :
    PollBusy(p) /\ PollBusy(q) /\ poll[p].account = poll[q].account => p = q

\* So a row it read is still queued when its turn comes, and was in no reply.
Marked(p, c) ==
  IF c \in poll[p].expired
    THEN status[c] = "failed" /\ result[c] = "expired"
    ELSE status[c] \in Issued /\ handed[c] = 0

RowsInv ==
  \A p \in Polls : \A c \in poll[p].rows :
    IF poll[p].pc = "logging" /\ First(c, poll[p].rows)
      THEN Marked(p, c) ELSE status[c] = "queued"

HandedInv ==
  \A c \in Commands : handed[c] <= 1 /\ (status[c] \notin Issued => handed[c] = 0)

\* A row settled by a result stays so until the result is logged.
LoggedInv == \A t \in tasks : t.at = "logging" => status[t.cmd] \in Terminal

\* A handler that is past the decision has no draft.
DecidedInv == \A c \in Commands : cand[c] \in {"logging", "done"} => status[c] # "draft"

CalmInv ==
  /\ WaitedFor /\ DecidedInv
  /\ Calm => OnePoll /\ RowsInv /\ HandedInv /\ LoggedInv /\ TimelineIsTrue
  /\ NothingLostWithoutFault

-----------------------------------------------------------------------------
(* The invariant and the steps. *)

LEMMA CalmInit == Init => CalmInv
<1> SUFFICES ASSUME Init PROVE CalmInv
  OBVIOUS
<1> USE DEF Init, IdlePoll
<1>1. WaitedFor /\ DecidedInv
  BY DEF WaitedFor, DecidedInv
<1>2. OnePoll /\ RowsInv /\ HandedInv /\ LoggedInv
  BY DEF OnePoll, PollBusy, RowsInv, HandedInv, LoggedInv
<1>3. TimelineIsTrue /\ NothingLostWithoutFault
  BY DEF TimelineIsTrue, NothingLostWithoutFault
<1>4. QED
  BY <1>1, <1>2, <1>3 DEF CalmInv

\* A step that changes none of the variables of CalmInv keeps it.
LEMMA CalmStutter ==
  CalmInv /\ UNCHANGED <<status, result, timeline, cand, poll, tasks, awaiting, batch,
                         faults, executed, outcome, handed>>
    => CalmInv'
BY DEF CalmInv, Calm, WaitedFor, DecidedInv, OnePoll, PollBusy, RowsInv, Marked, HandedInv,
       LoggedInv, TimelineIsTrue, NotOK, NothingLostWithoutFault, InFlight, CandBusy

\* The steps of a handler that accepts a candidate: the row it writes is in no
\* reply and has not been executed.
LEMMA CalmAccept ==
  ASSUME TypeOK, HandoverInv, CalmInv, NEW c \in Commands, AcceptStep(c)
  PROVE  CalmInv'
<1> USE DEF HandoverInv
<1>1. /\ UNCHANGED <<result, poll, tasks, awaiting, batch, executed, outcome, handed, faults>>
      /\ \A d \in Commands : d # c => cand'[d] = cand[d] /\ status'[d] = status[d]
  BY DEF AcceptStep, SaveCandidate, ReadMode, Promote, LogEnqueued, Demote, store, terminal,
         history, TypeOK
<1>2. \/ status'[c] = status[c]
      \/ /\ status[c] \in {"none", "draft"}
         /\ status'[c] \in {"draft", "queued", "shadow_only"}
  BY DEF AcceptStep, SaveCandidate, ReadMode, Promote, LogEnqueued, Demote, store, TypeOK, CandInv
<1>3. /\ status'[c] = "draft" => CandBusy(c)'
      /\ cand'[c] \in {"logging", "done"} => status'[c] # "draft"
  BY DEF AcceptStep, SaveCandidate, ReadMode, Promote, LogEnqueued, Demote, store, TypeOK,
         CandInv, CandBusy, CalmInv, DecidedInv
<1>4. \A d \in Commands, s \in {"acked", "failed"} :
        <<d, "order_result", s>> \in timeline' => <<d, "order_result", s>> \in timeline
  BY DEF AcceptStep, SaveCandidate, ReadMode, Promote, LogEnqueued, Demote, store
<1>5. status[c] \in {"none", "draft"} => executed[c] = 0 /\ outcome[c] = {}
  BY DEF ExecInv, Issued, Terminal
<1>6. \A p \in Polls : poll[p].rows \in SUBSET Commands
  BY PollFields DEF TypeOK
<1>7. WaitedFor' /\ DecidedInv'
  BY <1>1, <1>3 DEF CalmInv, WaitedFor, DecidedInv
<1>8. ASSUME Calm' PROVE (OnePoll /\ RowsInv /\ HandedInv /\ LoggedInv /\ TimelineIsTrue)'
  <2>1. OnePoll /\ RowsInv /\ HandedInv /\ LoggedInv /\ TimelineIsTrue
    BY <1>1, <1>8 DEF CalmInv, Calm
  <2>2. OnePoll'
    BY <1>1, <2>1 DEF OnePoll, PollBusy
  <2>3. RowsInv'
    BY <1>1, <1>2, <1>6, <2>1 DEF RowsInv, Marked, Issued, Terminal
  <2>4. HandedInv'
    BY <1>1, <1>2, <2>1 DEF HandedInv, Issued, Terminal
  <2>5. LoggedInv'
    BY <1>1, <1>2, <2>1 DEF LoggedInv, Terminal, TypeOK, Task
  <2>6. TimelineIsTrue'
    BY <1>1, <1>2, <1>4, <1>5, <2>1 DEF TimelineIsTrue, NotOK
  <2>7. QED
    BY <2>2, <2>3, <2>4, <2>5, <2>6
<1>9. NothingLostWithoutFault'
  BY <1>1, <1>2, <1>3 DEF CalmInv, NothingLostWithoutFault, InFlight, CandBusy
<1>10. QED
  BY <1>7, <1>8, <1>9 DEF CalmInv

LEMMA CalmBeginPoll ==
  ASSUME TypeOK, HandoverInv, CalmInv, NEW a \in Accounts, NEW p \in Polls, BeginPoll(a, p)
  PROVE  CalmInv'
<1> USE DEF HandoverInv
<1>1. /\ UNCHANGED <<cand, status, result, timeline, tasks, batch, executed, outcome, handed, faults>>
      /\ awaiting[a] = "none"
      /\ poll[p].pc = "idle"
      /\ poll' = [poll EXCEPT ![p] = [IdlePoll EXCEPT !.pc = "selecting", !.account = a]]
      /\ awaiting' = [awaiting EXCEPT ![a] = p]
  BY DEF BeginPoll, Idle, store, history
<1>2. /\ poll'[p].pc = "selecting" /\ poll'[p].account = a
      /\ poll'[p].rows = {} /\ poll'[p].out = {}
      /\ \A q \in Polls \ {p} : poll'[q] = poll[q]
  BY <1>1 DEF IdlePoll, TypeOK
<1>3. /\ awaiting'[a] = p
      /\ \A b \in Accounts : b # a => awaiting'[b] = awaiting[b]
  BY <1>1 DEF TypeOK
<1>4. \A q \in Polls : poll[q].account # "none" => poll[q].account \in Accounts
  BY DEF TypeOK, PollState
<1>5. /\ \A q \in Polls : poll[q].pc # "idle" => poll[q].account \in Accounts
      /\ poll[p].rows = {} /\ poll[p].out = {}
      /\ p # "none" /\ "none" \notin Accounts
  BY <1>1, ConstantsAssumption DEF PollInv, ConstantsAssumption
<1>6. WaitedFor' /\ DecidedInv'
  <2>1. WaitedFor'
    BY <1>1, <1>2, <1>3, <1>5, ConstantsAssumption DEF CalmInv, WaitedFor, ConstantsAssumption
  <2>2. QED
    BY <1>1, <2>1 DEF CalmInv, DecidedInv
<1>7. ASSUME Calm' PROVE (OnePoll /\ RowsInv /\ HandedInv /\ LoggedInv /\ TimelineIsTrue)'
  <2>1. OnePoll /\ RowsInv /\ HandedInv /\ LoggedInv /\ TimelineIsTrue
    BY <1>1, <1>7 DEF CalmInv, Calm
  <2>2. OnePoll'
    BY <1>2, <2>1 DEF OnePoll, PollBusy
  <2>3. RowsInv'
    BY <1>1, <1>2, <2>1 DEF RowsInv, Marked
  <2>4. QED
    BY <1>1, <2>1, <2>2, <2>3 DEF HandedInv, LoggedInv, TimelineIsTrue, NotOK
<1>8. NothingLostWithoutFault'
  <2>1. ASSUME NEW c \in Commands, InFlight(c) PROVE InFlight(c)'
    <3>1. CASE \E b \in Accounts : c \in batch[b]
      BY <1>1, <3>1 DEF InFlight
    <3>2. ASSUME NEW q \in Polls, c \in poll[q].rows \cup poll[q].out,
                 poll[q].account # "none", awaiting[poll[q].account] = q
          PROVE  InFlight(c)'
      <4>1. q # p /\ poll[q].account # a
        BY <1>1, <1>5, <3>2, ConstantsAssumption DEF ConstantsAssumption
      <4>2. poll'[q] = poll[q] /\ awaiting'[poll[q].account] = q
        BY <1>2, <1>3, <1>4, <3>2, <4>1
      <4>3. QED
        BY <3>2, <4>2 DEF InFlight
    <3>3. QED
      BY <2>1, <3>1, <3>2 DEF InFlight
  <2>2. QED
    BY <1>1, <2>1 DEF CalmInv, NothingLostWithoutFault, CandBusy
<1>9. QED
  BY <1>6, <1>7, <1>8 DEF CalmInv

\* The rows a poll reads are queued; no other poll of the account marks any.
LEMMA CalmSelectQueued ==
  ASSUME TypeOK, HandoverInv, CalmInv, NEW p \in Polls, SelectQueued(p)
  PROVE  CalmInv'
<1> USE DEF HandoverInv
<1> DEFINE queued == Queued(poll[p].account)
<1>1. /\ UNCHANGED <<cand, status, result, timeline, tasks, awaiting, batch, executed, outcome,
                     handed, faults>>
      /\ poll[p].pc = "selecting" /\ Turn
      /\ poll' = [poll EXCEPT ![p] = [poll[p] EXCEPT !.pc = "stamping", !.rows = queued]]
  BY DEF SelectQueued, store, terminal, history
<1>2. /\ poll[p].rows = {} /\ poll[p].out = {}
      /\ poll'[p].pc = "stamping" /\ poll'[p].account = poll[p].account
      /\ poll'[p].rows = queued /\ poll'[p].out = {}
      /\ \A q \in Polls \ {p} : poll'[q] = poll[q]
  BY <1>1 DEF PollInv, TypeOK, PollState
<1>3. WaitedFor' /\ DecidedInv'
  BY <1>1, <1>2 DEF CalmInv, WaitedFor, DecidedInv
<1>4. ASSUME Calm' PROVE (OnePoll /\ RowsInv /\ HandedInv /\ LoggedInv /\ TimelineIsTrue)'
  <2>1. OnePoll /\ RowsInv /\ HandedInv /\ LoggedInv /\ TimelineIsTrue
    BY <1>1, <1>4 DEF CalmInv, Calm
  <2>2. \A q \in Polls \ {p} : PollBusy(q) => poll[q].account # poll[p].account
    BY <1>1, <1>4 DEF Calm, Turn, CalmInv, WaitedFor, PollBusy
  <2>3. OnePoll'
    BY <1>2, <2>1, <2>2 DEF OnePoll, PollBusy
  <2>4. RowsInv'
    BY <1>1, <1>2, <2>1 DEF RowsInv, Marked, Queued
  <2>5. QED
    BY <1>1, <2>1, <2>3, <2>4 DEF HandedInv, LoggedInv, TimelineIsTrue, NotOK
<1>5. NothingLostWithoutFault'
  <2>1. ASSUME NEW c \in Commands, InFlight(c) PROVE InFlight(c)'
    BY <1>1, <1>2, <2>1 DEF InFlight
  <2>2. QED
    BY <1>1, <2>1 DEF CalmInv, NothingLostWithoutFault, CandBusy
<1>6. QED
  BY <1>3, <1>4, <1>5 DEF CalmInv

LEMMA CalmStampPoll ==
  ASSUME TypeOK, HandoverInv, CalmInv, NEW p \in Polls, StampPoll(p)
  PROVE  CalmInv'
<1>1. /\ UNCHANGED <<cand, status, result, timeline, tasks, awaiting, batch, executed, outcome,
                     handed, faults>>
      /\ poll[p].pc = "stamping"
      /\ poll' = [poll EXCEPT ![p] = [poll[p] EXCEPT !.pc = "marking",
                                                     !.expired = poll[p].rows \cap overdue]]
  BY DEF StampPoll, store, terminal, history
<1>2. /\ poll'[p].pc = "marking" /\ poll'[p].account = poll[p].account
      /\ poll'[p].rows = poll[p].rows /\ poll'[p].out = poll[p].out
      /\ \A q \in Polls \ {p} : poll'[q] = poll[q]
  BY <1>1 DEF TypeOK, PollState
<1>3. WaitedFor' /\ DecidedInv'
  BY <1>1, <1>2 DEF CalmInv, WaitedFor, DecidedInv
<1>4. ASSUME Calm' PROVE (OnePoll /\ RowsInv /\ HandedInv /\ LoggedInv /\ TimelineIsTrue)'
  <2>1. OnePoll /\ RowsInv /\ HandedInv /\ LoggedInv /\ TimelineIsTrue
    BY <1>1, <1>4 DEF CalmInv, Calm
  <2>2. OnePoll'
    BY <1>1, <1>2, <2>1 DEF OnePoll, PollBusy
  <2>3. RowsInv'
    BY <1>1, <1>2, <2>1 DEF RowsInv, Marked
  <2>4. QED
    BY <1>1, <2>1, <2>2, <2>3 DEF HandedInv, LoggedInv, TimelineIsTrue, NotOK
<1>5. NothingLostWithoutFault'
  <2>1. ASSUME NEW c \in Commands, InFlight(c) PROVE InFlight(c)'
    BY <1>1, <1>2, <2>1 DEF InFlight
  <2>2. QED
    BY <1>1, <2>1 DEF CalmInv, NothingLostWithoutFault, CandBusy
<1>6. QED
  BY <1>3, <1>4, <1>5 DEF CalmInv

\* A row that comes to its turn is queued: the update moves it out of the queue
\* for the first time, and the terminal waits for this reply.
LEMMA CalmMarkRow ==
  ASSUME TypeOK, HandoverInv, CalmInv, NEW p \in Polls, MarkRow(p)
  PROVE  CalmInv'
<1> USE DEF HandoverInv
<1>1. /\ UNCHANGED <<cand, timeline, tasks, awaiting, batch, executed, outcome, handed, faults>>
      /\ poll[p].pc = "marking"
      /\ poll' = [poll EXCEPT ![p] = [poll[p] EXCEPT !.pc = "logging"]]
  BY DEF MarkRow, terminal, history
<1>2. /\ poll'[p].pc = "logging" /\ poll'[p].account = poll[p].account
      /\ poll'[p].rows = poll[p].rows /\ poll'[p].out = poll[p].out
      /\ poll'[p].expired = poll[p].expired
      /\ \A q \in Polls \ {p} : poll'[q] = poll[q]
  BY <1>1 DEF TypeOK, PollState
<1>3. PICK c \in poll[p].rows : First(c, poll[p].rows) /\ (ExpireRow(p, c) \/ DeliverRow(p, c))
  BY DEF MarkRow
<1>4. /\ c \in Commands /\ poll[p].rows \in SUBSET Commands
      /\ \A q \in Polls : poll[q].rows \in SUBSET Commands
  BY PollFields DEF TypeOK
<1>5. /\ status[c] \in {"queued"} \cup Issued /\ poll[p].account = AccountOf[c]
      /\ \A q \in Polls : \A d \in poll[q].rows : AccountOf[d] = poll[q].account
  BY DEF PollInv
<1>6. /\ \A d \in Commands : d # c => status'[d] = status[d] /\ result'[d] = result[d]
      /\ status'[c] \in Issued
      /\ status'[c] = "delivered" => c \notin poll[p].expired \/ status[c] = "delivered"
  BY <1>3, <1>4, <1>5 DEF ExpireRow, DeliverRow, TypeOK, Issued, Terminal
<1>7. WaitedFor' /\ DecidedInv'
  BY <1>1, <1>2, <1>4, <1>6 DEF CalmInv, WaitedFor, DecidedInv, Issued, Terminal
<1>8. ASSUME Calm PROVE status[c] = "queued"
  BY <1>1, <1>3, <1>8 DEF CalmInv, RowsInv
<1>9. ASSUME Calm' PROVE (OnePoll /\ RowsInv /\ HandedInv /\ LoggedInv /\ TimelineIsTrue)'
  <2>1. OnePoll /\ RowsInv /\ HandedInv /\ LoggedInv /\ TimelineIsTrue /\ status[c] = "queued"
    BY <1>1, <1>8, <1>9 DEF CalmInv, Calm
  <2>2. OnePoll'
    BY <1>1, <1>2, <2>1 DEF OnePoll, PollBusy
  <2>3. RowsInv'
    <3>1. SUFFICES ASSUME NEW q \in Polls, NEW d \in poll[q].rows
                   PROVE  IF poll'[q].pc = "logging" /\ First(d, poll[q].rows)
                            THEN Marked(q, d)' ELSE status'[d] = "queued"
      BY <1>2 DEF RowsInv
    <3>2. d \in Commands
      BY <1>4
    <3>3. CASE q # p
      <4>1. d # c
        <5>1. CASE PollBusy(q)
          BY <1>1, <1>5, <2>1, <3>3, <5>1 DEF OnePoll, PollBusy
        <5>2. CASE ~PollBusy(q)
          BY <5>2 DEF PollBusy, PollInv, TypeOK, PollState, PollSteps
        <5>3. QED
          BY <5>1, <5>2
      <4>2. poll'[q] = poll[q]
        BY <1>2, <3>3
      <4>3. QED
        BY <1>1, <1>6, <2>1, <3>2, <4>1, <4>2 DEF RowsInv, Marked
    <3>4. CASE q = p /\ d # c
      <4>1. ~First(d, poll[q].rows)
        BY <1>3, <1>4, <3>4, FirstIsUnique
      <4>2. QED
        BY <1>1, <1>6, <2>1, <3>2, <3>4, <4>1 DEF RowsInv
    <3>5. CASE q = p /\ d = c
      <4>1. handed[c] = 0
        BY <1>4, <2>1 DEF HandedInv, Issued, Terminal
      <4>2. Marked(p, c)'
        BY <1>1, <1>2, <1>3, <1>4, <1>6, <2>1, <4>1 DEF Marked, ExpireRow, DeliverRow, TypeOK
      <4>3. QED
        BY <1>2, <1>3, <3>5, <4>2
    <3>6. QED
      BY <3>3, <3>4, <3>5
  <2>4. HandedInv'
    BY <1>1, <1>4, <1>6, <2>1 DEF HandedInv
  <2>5. LoggedInv'
    BY <1>1, <1>6, <2>1 DEF LoggedInv, Terminal, TypeOK, Task
  <2>6. TimelineIsTrue'
    <3>1. executed[c] = 0 /\ outcome[c] = {}
      BY <1>4, <2>1 DEF ExecInv, Issued, Terminal
    <3>2. <<c, "order_result", "failed">> \notin timeline
      BY <1>4, <2>1, <3>1 DEF TimelineIsTrue, NotOK
    <3>3. QED
      BY <1>1, <1>6, <2>1, <3>2 DEF TimelineIsTrue, NotOK
  <2>7. QED
    BY <2>2, <2>3, <2>4, <2>5, <2>6
<1>10. NothingLostWithoutFault'
  <2>1. SUFFICES ASSUME faults = 0
                 PROVE  NothingLostWithoutFault'
    BY <1>1 DEF NothingLostWithoutFault
  <2>2. status[c] = "queued" /\ executed[c] = 0
    BY <1>4, <1>8, <2>1 DEF Calm, ExecInv, Issued, Terminal
  <2>3. \A d \in Commands : InFlight(d) => InFlight(d)'
    BY <1>1, <1>2 DEF InFlight
  <2>4. InFlight(c)'
    BY <1>1, <1>2, <2>1, ConstantsAssumption
       DEF InFlight, CalmInv, WaitedFor, PollInv, ConstantsAssumption
  <2>5. QED
    BY <1>1, <1>4, <1>6, <2>1, <2>2, <2>3, <2>4
       DEF CalmInv, NothingLostWithoutFault, CandBusy, Issued, Terminal
<1>11. QED
  BY <1>7, <1>9, <1>10 DEF CalmInv

LEMMA CalmLogRow ==
  ASSUME TypeOK, HandoverInv, CalmInv, NEW p \in Polls, LogRow(p)
  PROVE  CalmInv'
<1> USE DEF HandoverInv
<1>1. /\ UNCHANGED <<cand, status, result, tasks, awaiting, batch, executed, outcome, faults>>
      /\ poll[p].pc = "logging"
  BY DEF LogRow, terminal
<1>2. PICK c \in poll[p].rows :
        /\ First(c, poll[p].rows)
        /\ \/ /\ c \in poll[p].expired
              /\ poll' = [poll EXCEPT ![p] = [poll[p] EXCEPT !.pc = "marking",
                                                             !.rows = poll[p].rows \ {c}]]
              /\ timeline' = timeline \cup {<<c, "order_result", "failed">>}
              /\ UNCHANGED handed
           \/ /\ c \notin poll[p].expired
              /\ poll' = [poll EXCEPT ![p] = [poll[p] EXCEPT !.pc = "marking",
                               !.rows = poll[p].rows \ {c}, !.out = poll[p].out \cup {c}]]
              /\ timeline' = timeline \cup {<<c, "command_delivered", "delivered">>}
              /\ handed' = [handed EXCEPT ![c] = handed[c] + 1]
  BY DEF LogRow
<1>3. /\ poll'[p].pc = "marking" /\ poll'[p].account = poll[p].account
      /\ poll'[p].rows = poll[p].rows \ {c}
      /\ poll'[p].out = IF c \in poll[p].expired THEN poll[p].out ELSE poll[p].out \cup {c}
      /\ \A q \in Polls \ {p} : poll'[q] = poll[q]
  <2>1. p \in DOMAIN poll /\ DOMAIN poll = Polls
        /\ DOMAIN poll[p] = {"pc", "account", "rows", "expired", "out"}
    BY DEF TypeOK, PollState
  <2>2. CASE c \in poll[p].expired
    BY <1>2, <2>1, <2>2
  <2>3. CASE c \notin poll[p].expired
    <3>1. poll' = [poll EXCEPT ![p] = [poll[p] EXCEPT !.pc = "marking",
                              !.rows = poll[p].rows \ {c}, !.out = poll[p].out \cup {c}]]
      BY <1>2, <2>3
    <3>2. poll'[p] = [poll[p] EXCEPT !.pc = "marking",
                              !.rows = poll[p].rows \ {c}, !.out = poll[p].out \cup {c}]
      BY <2>1, <3>1
    <3>3. \A q \in Polls \ {p} : poll'[q] = poll[q]
      BY <2>1, <3>1
    <3>4. QED
      BY <2>1, <2>3, <3>2, <3>3
  <2>4. QED
    BY <2>2, <2>3
<1>4. /\ c \in Commands
      /\ \A q \in Polls : poll[q].rows \in SUBSET Commands
  BY PollFields DEF TypeOK
<1>5. \A d \in Commands, s \in {"acked", "failed"} :
         <<d, "order_result", s>> \in timeline' =>
           \/ <<d, "order_result", s>> \in timeline
           \/ d = c /\ s = "failed" /\ c \in poll[p].expired
  <2>1. CASE timeline' = timeline \cup {<<c, "order_result", "failed">>} /\ c \in poll[p].expired
    BY <2>1
  <2>2. CASE timeline' = timeline \cup {<<c, "command_delivered", "delivered">>}
    BY <2>2
  <2>3. QED
    BY <1>2, <2>1, <2>2
<1>6. WaitedFor' /\ DecidedInv'
  BY <1>1, <1>3 DEF CalmInv, WaitedFor, DecidedInv
<1>7. ASSUME Calm PROVE Marked(p, c)
  BY <1>1, <1>2, <1>7 DEF CalmInv, RowsInv
<1>8. ASSUME Calm' PROVE (OnePoll /\ RowsInv /\ HandedInv /\ LoggedInv /\ TimelineIsTrue)'
  <2>1. OnePoll /\ RowsInv /\ HandedInv /\ LoggedInv /\ TimelineIsTrue /\ Marked(p, c)
    BY <1>1, <1>7, <1>8 DEF CalmInv, Calm
  <2>2. OnePoll'
    BY <1>1, <1>3, <2>1 DEF OnePoll, PollBusy
  <2>3. \A d \in Commands : d # c => handed'[d] = handed[d]
    BY <1>2, <1>4 DEF TypeOK
  <2>4. RowsInv'
    <3>1. SUFFICES ASSUME NEW q \in Polls, NEW d \in poll'[q].rows
                   PROVE  IF poll'[q].pc = "logging" /\ First(d, poll'[q].rows)
                            THEN Marked(q, d)' ELSE status'[d] = "queued"
      BY DEF RowsInv
    <3>2. CASE q = p
      <4>1. d \in poll[p].rows /\ d # c /\ ~First(d, poll[p].rows)
        BY <1>2, <1>3, <1>4, <3>2, FirstIsUnique
      <4>2. QED
        BY <1>1, <1>3, <2>1, <3>2, <4>1 DEF RowsInv
    <3>3. CASE q # p
      <4>1. poll'[q] = poll[q] /\ d \in poll[q].rows /\ d \in Commands
        BY <1>3, <1>4, <3>3
      <4>2. ASSUME poll[q].pc = "logging" PROVE d # c
        <5>1. AccountOf[d] = poll[q].account /\ AccountOf[c] = poll[p].account
          BY <4>1 DEF PollInv
        <5>2. QED
          BY <1>1, <2>1, <3>3, <4>2, <5>1 DEF OnePoll, PollBusy
      <4>3. QED
        BY <1>1, <2>1, <2>3, <4>1, <4>2 DEF RowsInv, Marked
    <3>4. QED
      BY <3>2, <3>3
  <2>5. HandedInv'
    BY <1>1, <1>2, <1>4, <2>1 DEF HandedInv, Marked, TypeOK
  <2>6. LoggedInv'
    BY <1>1, <2>1 DEF LoggedInv
  <2>7. TimelineIsTrue'
    <3>1. CASE c \in poll[p].expired
      <4>1. status[c] = "failed" /\ result[c] = "expired"
        BY <2>1, <3>1 DEF Marked
      <4>2. executed[c] = 0
        BY <1>4, <4>1 DEF ExecInv
      <4>3. QED
        BY <1>1, <1>5, <2>1, <4>1, <4>2 DEF TimelineIsTrue, NotOK
    <3>2. CASE c \notin poll[p].expired
      BY <1>1, <1>5, <2>1, <3>2 DEF TimelineIsTrue, NotOK
    <3>3. QED
      BY <3>1, <3>2
  <2>8. QED
    BY <2>2, <2>4, <2>5, <2>6, <2>7
<1>9. NothingLostWithoutFault'
  <2>1. SUFFICES ASSUME faults = 0
                 PROVE  NothingLostWithoutFault'
    BY <1>1 DEF NothingLostWithoutFault
  <2>2. c \in poll[p].expired => status[c] = "failed"
    BY <1>7, <2>1 DEF Calm, Marked
  <2>3. \A d \in Commands : InFlight(d) /\ (d = c => c \notin poll[p].expired) => InFlight(d)'
    BY <1>1, <1>3 DEF InFlight
  <2>4. QED
    BY <1>1, <1>4, <2>1, <2>2, <2>3 DEF CalmInv, NothingLostWithoutFault, CandBusy
<1>10. QED
  BY <1>6, <1>8, <1>9 DEF CalmInv

\* The reply carries on what was in it, to a terminal whose hands are empty.
LEMMA CalmAnswerPoll ==
  ASSUME TypeOK, HandoverInv, CalmInv, NEW p \in Polls, AnswerPoll(p)
  PROVE  CalmInv'
<1> USE DEF HandoverInv
<1> DEFINE a == poll[p].account
<1>1. /\ UNCHANGED <<cand, status, result, timeline, tasks, executed, outcome, handed, faults>>
      /\ poll[p].pc = "marking" /\ poll[p].rows = {}
      /\ \/ /\ awaiting[a] = p
            /\ awaiting' = [awaiting EXCEPT ![a] = "none"]
            /\ batch' = [batch EXCEPT ![a] = poll[p].out]
         \/ awaiting[a] # p /\ UNCHANGED <<awaiting, batch>>
      /\ poll' = [poll EXCEPT ![p] = IdlePoll]
  BY DEF AnswerPoll, store, terminal, history
<1>2. /\ poll'[p].pc = "idle" /\ poll'[p].rows = {}
      /\ \A q \in Polls \ {p} : poll'[q] = poll[q]
  BY <1>1 DEF IdlePoll, TypeOK
<1>3. a \in Accounts
  BY <1>1 DEF PollInv
<1>4. \A b \in Accounts : b # a => awaiting'[b] = awaiting[b] /\ batch'[b] = batch[b]
  BY <1>1 DEF TypeOK
<1>5. WaitedFor' /\ DecidedInv'
  <2>1. ASSUME faults = 0, NEW q \in Polls, poll'[q].pc # "idle"
        PROVE  awaiting'[poll'[q].account] = q
    <3>1. q # p /\ poll'[q] = poll[q] /\ poll[q].account \in Accounts
      BY <1>2, <2>1 DEF PollInv
    <3>2. awaiting[poll[q].account] = q /\ awaiting[a] = p
      BY <1>1, <2>1, <3>1 DEF CalmInv, WaitedFor
    <3>3. QED
      BY <1>4, <3>1, <3>2
  <2>2. QED
    BY <1>1, <2>1 DEF CalmInv, WaitedFor, DecidedInv
<1>6. ASSUME Calm' PROVE (OnePoll /\ RowsInv /\ HandedInv /\ LoggedInv /\ TimelineIsTrue)'
  <2>1. OnePoll /\ RowsInv /\ HandedInv /\ LoggedInv /\ TimelineIsTrue
    BY <1>1, <1>6 DEF CalmInv, Calm
  <2>2. OnePoll'
    BY <1>2, <2>1 DEF OnePoll, PollBusy
  <2>3. RowsInv'
    BY <1>1, <1>2, <2>1 DEF RowsInv, Marked
  <2>4. QED
    BY <1>1, <2>1, <2>2, <2>3 DEF HandedInv, LoggedInv, TimelineIsTrue, NotOK
<1>7. NothingLostWithoutFault'
  <2>1. SUFFICES ASSUME faults = 0
                 PROVE  NothingLostWithoutFault'
    BY <1>1 DEF NothingLostWithoutFault
  <2>2. awaiting[a] = p
    BY <1>1, <2>1 DEF CalmInv, WaitedFor
  <2>3. batch'[a] = poll[p].out /\ batch[a] = {}
    <3>1. batch' = [batch EXCEPT ![a] = poll[p].out]
      BY <1>1, <2>2
    <3>2. a # "none" /\ p # "none"
      BY <1>3, ConstantsAssumption DEF ConstantsAssumption
    <3>3. QED
      BY <1>3, <2>2, <3>1, <3>2 DEF AwaitInv, TypeOK
  <2>4. ASSUME NEW c \in Commands, InFlight(c) PROVE InFlight(c)'
    <3>1. CASE \E b \in Accounts : c \in batch[b]
      BY <1>4, <2>3, <3>1 DEF InFlight
    <3>2. CASE c \in poll[p].rows \cup poll[p].out
      BY <1>1, <1>3, <2>3, <3>2 DEF InFlight
    <3>3. ASSUME NEW q \in Polls, q # p, c \in poll[q].rows \cup poll[q].out,
                 poll[q].account # "none", awaiting[poll[q].account] = q
          PROVE  InFlight(c)'
      <4>1. poll'[q] = poll[q] /\ poll[q].account # a
        BY <1>2, <2>2, <3>3
      <4>2. poll[q].account \in Accounts
        BY <3>3 DEF TypeOK, PollState
      <4>3. awaiting'[poll[q].account] = q
        BY <1>4, <3>3, <4>1, <4>2
      <4>4. QED
        BY <3>3, <4>1, <4>3 DEF InFlight
    <3>4. QED
      BY <2>4, <3>1, <3>2, <3>3 DEF InFlight
  <2>5. QED
    BY <1>1, <2>1, <2>4 DEF CalmInv, NothingLostWithoutFault, CandBusy
<1>8. QED
  BY <1>5, <1>6, <1>7 DEF CalmInv

\* What is executed was delivered, and has a report of its own unless it is lost.
LEMMA CalmExecute ==
  ASSUME TypeOK, HandoverInv, CalmInv, NEW a \in Accounts, NEW r \in Results,
         NEW copies \in Deliveries, ExecuteCommand(a, r, copies)
  PROVE  CalmInv'
<1> USE DEF HandoverInv
<1>1. PICK c \in batch[a] :
        /\ batch' = [batch EXCEPT ![a] = batch[a] \ {c}]
        /\ executed' = [executed EXCEPT ![c] = executed[c] + 1]
        /\ outcome' = [outcome EXCEPT ![c] = outcome[c] \cup {r}]
        /\ tasks' = tasks \cup [cmd : {c}, result : {r}, copy : copies, at : {"updating"}]
  BY DEF ExecuteCommand
<1>2. /\ UNCHANGED <<cand, status, result, timeline, poll, awaiting, handed>>
      /\ (copies = {1} /\ faults' = faults) \/ faults' = faults + 1
      /\ faults \in Nat
  BY ConstantsAssumption DEF ExecuteCommand, store, TypeOK, ConstantsAssumption
<1>3. c \in Commands
  BY DEF TypeOK
<1>4. executed[c] = 0 /\ outcome[c] = {} /\ status[c] = "delivered"
  BY <1>3 DEF BatchInv, ExecInv
<1>5. /\ executed'[c] = 1 /\ outcome'[c] = {r}
      /\ \A d \in Commands : d # c => executed'[d] = executed[d] /\ outcome'[d] = outcome[d]
      /\ \A d \in Commands, b \in Accounts : d # c /\ d \in batch[b] => d \in batch'[b]
  BY <1>1, <1>3, <1>4 DEF TypeOK
<1>6. WaitedFor' /\ DecidedInv'
  BY <1>2 DEF CalmInv, WaitedFor, DecidedInv
<1>7. ASSUME Calm' PROVE (OnePoll /\ RowsInv /\ HandedInv /\ LoggedInv /\ TimelineIsTrue)'
  <2>1. OnePoll /\ RowsInv /\ HandedInv /\ LoggedInv /\ TimelineIsTrue
    BY <1>2, <1>7 DEF CalmInv, Calm
  <2>2. OnePoll' /\ RowsInv' /\ HandedInv'
    BY <1>2, <2>1 DEF OnePoll, PollBusy, RowsInv, Marked, HandedInv
  <2>3. LoggedInv'
    BY <1>1, <1>2, <2>1 DEF LoggedInv
  <2>4. TimelineIsTrue'
    <3>1. /\ <<c, "order_result", "acked">> \notin timeline
          /\ <<c, "order_result", "failed">> \notin timeline
      BY <1>3, <1>4, <2>1 DEF TimelineIsTrue, NotOK
    <3>2. QED
      BY <1>2, <1>5, <2>1, <3>1 DEF TimelineIsTrue, NotOK
  <2>5. QED
    BY <2>2, <2>3, <2>4
<1>8. NothingLostWithoutFault'
  <2>1. SUFFICES ASSUME faults' = 0
                 PROVE  NothingLostWithoutFault'
    BY DEF NothingLostWithoutFault
  <2>2. faults = 0 /\ copies = {1}
    BY <1>2, <2>1
  <2>3. [cmd |-> c, result |-> r, copy |-> 1, at |-> "updating"] \in tasks'
    BY <1>1, <2>2
  <2>4. \E t \in tasks' : t.cmd = c
    BY <2>3
  <2>5. \A d \in Commands : d # c /\ InFlight(d) => InFlight(d)'
    BY <1>2, <1>5 DEF InFlight
  <2>6. QED
    BY <1>1, <1>2, <1>4, <1>5, <2>2, <2>4, <2>5 DEF CalmInv, NothingLostWithoutFault, CandBusy
<1>9. QED
  BY <1>6, <1>7, <1>8 DEF CalmInv

\* A result settles a delivered row, which no poll has before it any more.
LEMMA CalmReconcile ==
  ASSUME TypeOK, HandoverInv, CalmInv, NEW t \in tasks, Reconcile(t)
  PROVE  CalmInv'
<1> USE DEF HandoverInv
<1> DEFINE c == t.cmd
<1>1. UNCHANGED <<cand, timeline, poll, awaiting, batch, faults, executed, outcome, handed>>
  BY DEF Reconcile, terminal, history
<1>2. c \in Commands /\ executed[c] = 1
  BY DEF TypeOK, Task, TaskInv
<1>3. CASE status[c] # "delivered"
  <2>1. UNCHANGED <<status, result>> /\ tasks' = tasks \ {t}
    BY <1>3 DEF Reconcile, Settleable
  <2>2. WaitedFor' /\ DecidedInv'
    BY <1>1, <2>1 DEF CalmInv, WaitedFor, DecidedInv
  <2>3. ASSUME Calm' PROVE (OnePoll /\ RowsInv /\ HandedInv /\ LoggedInv /\ TimelineIsTrue)'
    BY <1>1, <2>1, <2>3 DEF CalmInv, Calm, OnePoll, PollBusy, RowsInv, Marked, HandedInv,
                            LoggedInv, TimelineIsTrue, NotOK
  <2>4. NothingLostWithoutFault'
    BY <1>1, <1>3, <2>1 DEF CalmInv, NothingLostWithoutFault, InFlight, CandBusy
  <2>5. QED
    BY <2>2, <2>3, <2>4 DEF CalmInv
<1>4. CASE status[c] = "delivered"
  <2>1. /\ status'[c] \in Terminal
        /\ \A d \in Commands : d # c => status'[d] = status[d] /\ result'[d] = result[d]
    BY <1>2, <1>4 DEF Reconcile, Settleable, Settled, TypeOK, Terminal
  <2>2. tasks' = (tasks \ {t}) \cup {[t EXCEPT !.at = "logging"]}
    BY <1>4 DEF Reconcile, Settleable
  <2>3. [t EXCEPT !.at = "logging"].cmd = c
    BY DEF TypeOK, Task
  <2>4. \A q \in Polls : poll[q].rows \in SUBSET Commands
    BY PollFields DEF TypeOK
  <2>5. WaitedFor' /\ DecidedInv'
    BY <1>1, <2>1 DEF CalmInv, WaitedFor, DecidedInv, Terminal
  <2>6. ASSUME Calm' PROVE (OnePoll /\ RowsInv /\ HandedInv /\ LoggedInv /\ TimelineIsTrue)'
    <3>1. OnePoll /\ RowsInv /\ HandedInv /\ LoggedInv /\ TimelineIsTrue
      BY <1>1, <2>6 DEF CalmInv, Calm
    <3>2. OnePoll'
      BY <1>1, <3>1 DEF OnePoll, PollBusy
    <3>3. RowsInv'
      BY <1>1, <1>4, <2>1, <2>4, <3>1 DEF RowsInv, Marked, Issued
    <3>4. HandedInv'
      BY <1>1, <1>2, <1>4, <2>1, <3>1 DEF HandedInv, Issued
    <3>5. LoggedInv'
      BY <1>2, <1>4, <2>1, <2>2, <2>3, <3>1 DEF LoggedInv, TypeOK, Task
    <3>6. TimelineIsTrue'
      <4>1. \A d \in Commands : executed[d] = 0 => status'[d] = status[d]
        BY <1>2, <2>1
      <4>2. QED
        BY <1>1, <3>1, <4>1 DEF TimelineIsTrue, NotOK
    <3>7. QED
      BY <3>2, <3>3, <3>4, <3>5, <3>6
  <2>7. NothingLostWithoutFault'
    <3>1. \A d \in Commands : d # c /\ (\E s \in tasks : s.cmd = d) => \E s \in tasks' : s.cmd = d
      BY <2>2
    <3>2. status'[c] \notin {"draft", "delivered"}
      BY <2>1 DEF Terminal
    <3>3. QED
      BY <1>1, <2>1, <3>1, <3>2 DEF CalmInv, NothingLostWithoutFault, InFlight, CandBusy
  <2>8. QED
    BY <2>5, <2>6, <2>7 DEF CalmInv
<1>5. QED
  BY <1>3, <1>4

\* What the log says of a settled row is what the execution returned.
LEMMA CalmLogResult ==
  ASSUME TypeOK, HandoverInv, CalmInv, NEW t \in tasks, LogResult(t)
  PROVE  CalmInv'
<1> USE DEF HandoverInv
<1> DEFINE c == t.cmd
           said == IF status[c] = "acked" THEN "acked" ELSE "failed"
<1>1. /\ UNCHANGED <<cand, status, result, poll, awaiting, batch, faults, executed, outcome, handed>>
      /\ t.at = "logging"
      /\ timeline' = timeline \cup {<<c, "order_result", said>>}
      /\ tasks' = tasks \ {t}
  BY DEF LogResult, LoggedResult, terminal, history
<1>2. c \in Commands /\ executed[c] = 1
  BY DEF TypeOK, Task, TaskInv
<1>3. WaitedFor' /\ DecidedInv'
  BY <1>1 DEF CalmInv, WaitedFor, DecidedInv
<1>4. ASSUME Calm PROVE status[c] \in Terminal
  BY <1>1, <1>4 DEF CalmInv, LoggedInv
<1>5. ASSUME Calm' PROVE (OnePoll /\ RowsInv /\ HandedInv /\ LoggedInv /\ TimelineIsTrue)'
  <2>1. OnePoll /\ RowsInv /\ HandedInv /\ LoggedInv /\ TimelineIsTrue /\ status[c] \in Terminal
    BY <1>1, <1>4, <1>5 DEF CalmInv, Calm
  <2>2. (OnePoll /\ RowsInv /\ HandedInv /\ LoggedInv)'
    BY <1>1, <2>1 DEF OnePoll, PollBusy, RowsInv, Marked, HandedInv, LoggedInv
  <2>3. /\ said = "acked" => "OK" \in outcome[c]
        /\ said = "failed" => NotOK(c)
    BY <1>2, <2>1 DEF ExecInv, NotOK, Terminal
  <2>4. \A d \in Commands, s \in {"acked", "failed"} :
          <<d, "order_result", s>> \in timeline' =>
            <<d, "order_result", s>> \in timeline \/ (d = c /\ s = said)
    BY <1>1
  <2>5. TimelineIsTrue'
    <3> HIDE DEF said
    <3> QED
      BY <1>1, <2>1, <2>3, <2>4 DEF TimelineIsTrue, NotOK
  <2>6. QED
    BY <2>2, <2>5
<1>6. NothingLostWithoutFault'
  <2>1. SUFFICES ASSUME faults = 0
                 PROVE  NothingLostWithoutFault'
    BY <1>1 DEF NothingLostWithoutFault
  <2>2. status[c] # "delivered"
    BY <1>4, <2>1 DEF Calm, Terminal
  <2>3. QED
    BY <1>1, <2>1, <2>2 DEF CalmInv, NothingLostWithoutFault, InFlight, CandBusy
<1>7. QED
  BY <1>3, <1>5, <1>6 DEF CalmInv

\* After a fault only SQLite owes anything, and it owes nothing to what was lost.
LEMMA CalmFault ==
  ASSUME TypeOK, HandoverInv, CalmInv,
         ServerCrash \/ \E a \in Accounts : AbandonPoll(a) \/ TerminalRestart(a)
  PROVE  CalmInv'
<1>1. /\ UNCHANGED <<status, result, timeline, executed, outcome, handed>>
      /\ faults' = faults + 1 /\ faults \in Nat
  BY ConstantsAssumption
     DEF ServerCrash, AbandonPoll, TerminalRestart, Fault, store, history, TypeOK, ConstantsAssumption
<1>2. WaitedFor' /\ NothingLostWithoutFault'
  BY <1>1 DEF WaitedFor, NothingLostWithoutFault
<1>3. CASE UNCHANGED <<cand, poll, tasks>>
  <2>1. DecidedInv'
    BY <1>1, <1>3 DEF CalmInv, DecidedInv
  <2>2. ASSUME Calm' PROVE (OnePoll /\ RowsInv /\ HandedInv /\ LoggedInv /\ TimelineIsTrue)'
    BY <1>1, <1>3, <2>2 DEF CalmInv, Calm, OnePoll, PollBusy, RowsInv, Marked, HandedInv,
                            LoggedInv, TimelineIsTrue, NotOK
  <2>3. QED
    BY <1>2, <2>1, <2>2 DEF CalmInv
<1>4. CASE ServerCrash
  <2>1. /\ cand' = [c \in Commands |-> IF CandBusy(c) THEN "dead" ELSE cand[c]]
        /\ poll' = [p \in Polls |-> IdlePoll]
        /\ tasks' = {}
    BY <1>4 DEF ServerCrash
  <2>2. DecidedInv'
    BY <1>1, <2>1 DEF CalmInv, DecidedInv
  <2>3. ASSUME Calm' PROVE (OnePoll /\ RowsInv /\ HandedInv /\ LoggedInv /\ TimelineIsTrue)'
    <3>1. HandedInv /\ TimelineIsTrue
      BY <1>1, <2>3 DEF CalmInv, Calm
    <3>2. (OnePoll /\ RowsInv /\ LoggedInv)'
      BY <2>1 DEF OnePoll, PollBusy, RowsInv, LoggedInv, IdlePoll
    <3>3. QED
      BY <1>1, <3>1, <3>2 DEF HandedInv, TimelineIsTrue, NotOK
  <2>4. QED
    BY <1>2, <2>2, <2>3 DEF CalmInv
<1>5. QED
  BY <1>3, <1>4 DEF AbandonPoll, TerminalRestart, server

LEMMA CalmNext == TypeOK /\ HandoverInv /\ CalmInv /\ [Next]_vars => CalmInv'
<1> SUFFICES ASSUME TypeOK, HandoverInv, CalmInv, [Next]_vars PROVE CalmInv'
  OBVIOUS
<1>1. ASSUME NEW c \in Commands, AcceptStep(c) PROVE CalmInv'
  BY <1>1, CalmAccept
<1>2. ASSUME NEW c \in Commands, PassExpiration(c) PROVE CalmInv'
  BY <1>2, CalmStutter DEF PassExpiration, store, server, terminal, history
<1>3. ASSUME NEW a \in Accounts, NEW m \in OperatorModes, SetRuntimeMode(a, m) PROVE CalmInv'
  BY <1>3, CalmStutter DEF SetRuntimeMode, server, terminal
<1>4. ASSUME NEW a \in Accounts, NEW p \in Polls, BeginPoll(a, p) PROVE CalmInv'
  BY <1>4, CalmBeginPoll
<1>5. ASSUME NEW p \in Polls, PollStep(p) PROVE CalmInv'
  BY <1>5, CalmSelectQueued, CalmStampPoll, CalmMarkRow, CalmLogRow, CalmAnswerPoll DEF PollStep
<1>6. ASSUME NEW a \in Accounts, NEW r \in Results, NEW copies \in Deliveries,
             ExecuteCommand(a, r, copies)
      PROVE  CalmInv'
  BY <1>6, CalmExecute
<1>7. ASSUME NEW t \in tasks, TaskStep(t) PROVE CalmInv'
  BY <1>7, CalmReconcile, CalmLogResult DEF TaskStep
<1>8. CASE ServerCrash \/ \E a \in Accounts : AbandonPoll(a) \/ TerminalRestart(a)
  BY <1>8, CalmFault
<1>9. CASE UNCHANGED vars
  BY <1>9, CalmStutter DEF vars
<1>10. QED
  BY <1>1, <1>2, <1>3, <1>4, <1>5, <1>6, <1>7, <1>8, <1>9 DEF Next

\* The invariant holds for both stores and any number of faults.
LEMMA CalmInvariant == Spec => []CalmInv
<1>1. Spec => []TypeOK /\ []HandoverInv
  BY TypeCorrect, Handover
<1>2. QED
  BY <1>1, CalmInit, CalmNext, PTL DEF Spec

-----------------------------------------------------------------------------
(* The theorems about states. *)

\* Whatever the store, a command is lost only after a fault: until then a draft
\* has its handler and a delivered row is on its way, in a terminal's hands or
\* about to be settled.
THEOREM LostOnlyByFault == Spec => []NothingLostWithoutFault
<1>1. CalmInv => NothingLostWithoutFault
  BY DEF CalmInv
<1>2. QED
  BY <1>1, CalmInvariant, PTL

\* Against SQLite no two replies of /poll list the same command.
THEOREM HandedOnce ==
  ASSUME Store = "sqlite" PROVE Spec => []HandedAtMostOnce
<1>1. CalmInv => HandedAtMostOnce
  BY DEF CalmInv, Calm, HandedInv, HandedAtMostOnce
<1>2. QED
  BY <1>1, CalmInvariant, PTL

\* Against SQLite the decision timeline agrees with the broker.
THEOREM TimelineTellsTheTruth ==
  ASSUME Store = "sqlite" PROVE Spec => []TimelineIsTrue
<1>1. CalmInv => TimelineIsTrue
  BY DEF CalmInv, Calm
<1>2. QED
  BY <1>1, CalmInvariant, PTL

-----------------------------------------------------------------------------
(* The theorems about steps. *)

\* A step of the lifecycle is a step of the pipeline for one command, or none.
PipelineStep == Pipeline!Next \/ UNCHANGED <<status, executed, outcome>>

LEMMA Becomes ==
  ASSUME NEW c \in Commands, UNCHANGED <<executed, outcome>>,
         \/ status[c] = "none" /\ status' = [status EXCEPT ![c] = "draft"]
         \/ status[c] = "draft" /\ status' = [status EXCEPT ![c] = "queued"]
         \/ status[c] = "draft" /\ status' = [status EXCEPT ![c] = "shadow_only"]
         \/ status[c] = "queued" /\ status' = [status EXCEPT ![c] = "delivered"]
         \/ status[c] = "queued" /\ status' = [status EXCEPT ![c] = "failed"]
  PROVE  Pipeline!Next
BY DEF Pipeline!Next, Pipeline!Propose, Pipeline!Approve, Pipeline!Shadow, Pipeline!Deliver,
       Pipeline!Expire, Pipeline!Become

LEMMA StepOfPipeline ==
  ASSUME Store = "sqlite", TypeOK, HandoverInv, CalmInv, [Next]_vars
  PROVE  PipelineStep
<1> USE DEF HandoverInv, PipelineStep
<1>1. ASSUME NEW c \in Commands, AcceptStep(c) PROVE PipelineStep
  <2>1. CASE ReadMode(c) \/ LogEnqueued(c)
    BY <2>1 DEF ReadMode, LogEnqueued, store, history
  <2>2. CASE SaveCandidate(c) \/ Promote(c) \/ Demote(c)
    <3>1. UNCHANGED <<executed, outcome>>
      BY <2>2 DEF SaveCandidate, Promote, Demote, history
    <3>2. \/ status[c] = "none" /\ status' = [status EXCEPT ![c] = "draft"]
          \/ status[c] = "draft" /\ status' = [status EXCEPT ![c] = "queued"]
          \/ status[c] = "draft" /\ status' = [status EXCEPT ![c] = "shadow_only"]
      BY <2>2 DEF SaveCandidate, Promote, Demote, CandInv
    <3>3. QED
      BY <3>1, <3>2, Becomes
  <2>3. QED
    BY <1>1, <2>1, <2>2 DEF AcceptStep
<1>2. ASSUME NEW p \in Polls, MarkRow(p) PROVE PipelineStep
  <2>1. PICK c \in poll[p].rows : First(c, poll[p].rows) /\ (ExpireRow(p, c) \/ DeliverRow(p, c))
    BY <1>2 DEF MarkRow
  <2>2. c \in Commands
    BY PollFields DEF TypeOK
  <2>3. status[c] = "queued"
    BY <1>2, <2>1 DEF MarkRow, CalmInv, Calm, RowsInv
  <2>4. \/ status' = [status EXCEPT ![c] = "delivered"]
        \/ status' = [status EXCEPT ![c] = "failed"]
    BY <2>1, <2>3 DEF ExpireRow, DeliverRow
  <2>5. UNCHANGED <<executed, outcome>>
    BY <1>2 DEF MarkRow, history
  <2>6. QED
    BY <2>2, <2>3, <2>4, <2>5, Becomes
<1>3. ASSUME NEW a \in Accounts, NEW r \in Results, NEW copies \in Deliveries,
             ExecuteCommand(a, r, copies)
      PROVE  PipelineStep
  <2>1. PICK c \in batch[a] :
          /\ executed' = [executed EXCEPT ![c] = executed[c] + 1]
          /\ outcome' = [outcome EXCEPT ![c] = outcome[c] \cup {r}]
    BY <1>3 DEF ExecuteCommand
  <2>2. c \in Commands /\ UNCHANGED status
    BY <1>3 DEF ExecuteCommand, store, TypeOK
  <2>3. executed[c] = 0 /\ outcome[c] = {} /\ status[c] = "delivered"
    BY <2>2 DEF BatchInv, ExecInv
  <2>4. executed' = [executed EXCEPT ![c] = 1] /\ outcome' = [outcome EXCEPT ![c] = {r}]
    BY <2>1, <2>3
  <2>5. QED
    BY <2>2, <2>3, <2>4 DEF Pipeline!Next, Pipeline!Execute, Results
<1>4. ASSUME NEW t \in tasks, Reconcile(t) PROVE PipelineStep
  <2>1. t.cmd \in Commands /\ t.result \in Results /\ outcome[t.cmd] = {t.result}
    BY DEF TypeOK, Task, TaskInv
  <2>2. UNCHANGED <<executed, outcome>>
    BY <1>4 DEF Reconcile, history
  <2>3. CASE status[t.cmd] # "delivered"
    BY <1>4, <2>2, <2>3 DEF Reconcile, Settleable
  <2>4. CASE status[t.cmd] = "delivered"
    <3>1. status' = [status EXCEPT ![t.cmd] = IF t.result = "OK" THEN "acked" ELSE "failed"]
      BY <1>4, <2>4 DEF Reconcile, Settleable, Settled
    <3>2. Pipeline!Ack(t.cmd) \/ Pipeline!Fail(t.cmd)
      BY <2>1, <2>2, <2>4, <3>1 DEF Pipeline!Ack, Pipeline!Fail, Pipeline!Become, Results
    <3>3. QED
      BY <2>1, <3>2 DEF Pipeline!Next
  <2>5. QED
    BY <2>3, <2>4
<1>5. CASE UNCHANGED <<status, executed, outcome>>
  BY <1>5
<1>6. ASSUME NEW c \in Commands, PassExpiration(c) PROVE PipelineStep
  BY <1>6 DEF PassExpiration, store, history
<1>7. ASSUME NEW a \in Accounts, NEW m \in OperatorModes, SetRuntimeMode(a, m) PROVE PipelineStep
  BY <1>7 DEF SetRuntimeMode
<1>8. ASSUME NEW a \in Accounts, NEW p \in Polls, BeginPoll(a, p) PROVE PipelineStep
  BY <1>8 DEF BeginPoll, store, history
<1>9. ASSUME NEW p \in Polls, SelectQueued(p) \/ StampPoll(p) \/ LogRow(p) \/ AnswerPoll(p)
      PROVE  PipelineStep
  BY <1>9 DEF SelectQueued, StampPoll, LogRow, AnswerPoll, store, history
<1>10. ASSUME NEW t \in tasks, LogResult(t) PROVE PipelineStep
  BY <1>10 DEF LogResult, history
<1>11. ASSUME NEW a \in Accounts, AbandonPoll(a) \/ TerminalRestart(a) PROVE PipelineStep
  BY <1>11 DEF AbandonPoll, TerminalRestart, store, history
<1>12. CASE ServerCrash
  BY <1>12 DEF ServerCrash, store, history
<1>13. CASE UNCHANGED vars
  BY <1>13 DEF vars
<1>14. QED
  BY <1>1, <1>2, <1>3, <1>4, <1>6, <1>7, <1>8, <1>9, <1>10, <1>11, <1>12, <1>13
     DEF Next, PollStep, TaskStep

\* Against SQLite the lifecycle implements the pipeline: every step of it is a
\* step of one command that the design allows, or changes nothing it promises.
THEOREM LifecycleImplementsPipeline ==
  ASSUME Store = "sqlite" PROVE Spec => ImplementsPipeline
<1>1. Init => Pipeline!Init
  BY DEF Init, Pipeline!Init
<1>2. TypeOK /\ HandoverInv /\ CalmInv /\ [Next]_vars => [Pipeline!Next]_(Pipeline!vars)
  BY StepOfPipeline DEF PipelineStep, Pipeline!vars
<1>3. Spec => []TypeOK /\ []HandoverInv /\ []CalmInv
  BY TypeCorrect, Handover, CalmInvariant
<1>4. QED
  BY <1>1, <1>2, <1>3, PTL DEF Spec, ImplementsPipeline, Pipeline!Spec

\* Against SQLite a settled row is never written again.
THEOREM SettledForGood ==
  ASSUME Store = "sqlite" PROVE Spec => TerminalStatusIsFinal
<1>1. TypeOK /\ PipelineStep =>
        \A c \in Commands : status[c] \in Terminal => status'[c] = status[c]
  BY DEF PipelineStep, TypeOK, Terminal, Pipeline!Next, Pipeline!Propose, Pipeline!Approve,
         Pipeline!Shadow, Pipeline!Deliver, Pipeline!Expire, Pipeline!Execute, Pipeline!Ack,
         Pipeline!Fail, Pipeline!Become
<1>2. TypeOK /\ HandoverInv /\ CalmInv /\ [Next]_vars =>
        [\A c \in Commands : status[c] \in Terminal => status'[c] = status[c]]_vars
  BY <1>1, StepOfPipeline
<1>3. Spec => []TypeOK /\ []HandoverInv /\ []CalmInv
  BY TypeCorrect, Handover, CalmInvariant
<1>4. QED
  BY <1>2, <1>3, PTL DEF Spec, TerminalStatusIsFinal

=============================================================================
