------------------------------ MODULE AgentProofs ------------------------------
(***************************************************************************)
(* What the agent keeps up, for any jobs, accounts, scenes and any number  *)
(* of restarts: triggers of an account are spaced, a shared insight has    *)
(* one builder whom everybody else waits for, and a result is posted again *)
(* only because an answer was lost or the agent restarted.                 *)
(***************************************************************************)
EXTENDS Agent, FiniteSetTheorems, TLAPS

-----------------------------------------------------------------------------
(* Triggers. *)

\* A trigger that was let through is remembered, by its own time or by a later
\* one of its account, unless it is so old that nothing depends on it.
Remembering(j) ==
  LET a == TargetOf[j]
  IN  started[j] # 0 =>
        /\ KindOf[j] = "trigger"
        /\ job[j] \in {"running", "ended"}
        /\ started[j] <= clock
        /\ \/ recent[a] # 0 /\ started[j] <= recent[a]
           \/ recent[a] = 0 /\ clock - started[j] > 2 * Window

TriggerInv ==
  /\ clock \in Nat /\ clock > 0
  /\ job \in [Jobs -> {"off", "due", "asking", "running", "ended"}]
  /\ recent \in [Accounts -> Nat]
  /\ \A a \in Accounts : recent[a] <= clock
  /\ started \in [Jobs -> Nat]
  /\ \A j \in Jobs : job[j] = "asking" => KindOf[j] = "trigger"
  /\ \A j \in Jobs : Remembering(j)
  /\ TriggersAreSpaced

\* Steps that leave the memory of triggers alone and start no trigger.
TriggersApart ==
  /\ UNCHANGED <<clock, recent, started>>
  /\ job' \in [Jobs -> {"off", "due", "asking", "running", "ended"}]
  /\ \A j \in Jobs : \/ job'[j] = job[j]
                     \/ job[j] = "due" /\ job'[j] = "running"
                     \/ job[j] = "due" /\ job'[j] = "asking" /\ KindOf[j] = "trigger"
                     \/ job[j] = "running" /\ job'[j] = "ended"

\* Such a step keeps what is known of triggers.
LEMMA ApartKeepsTriggers == TriggerInv /\ TriggersApart => TriggerInv'
<1> SUFFICES ASSUME TriggerInv, TriggersApart PROVE TriggerInv'
  OBVIOUS
<1>1. \A j \in Jobs : Remembering(j)'
  <2> SUFFICES ASSUME NEW j \in Jobs PROVE Remembering(j)'
    OBVIOUS
  <2>1. Remembering(j) /\ (job[j] \in {"running", "ended"} => job'[j] \in {"running", "ended"})
    BY DEF TriggerInv, TriggersApart
  <2> QED
    BY <2>1 DEF TriggersApart, Remembering
<1>2. TriggersAreSpaced'
  BY DEF TriggerInv, TriggersApart, TriggersAreSpaced
<1>3. \A j \in Jobs : job'[j] = "asking" => KindOf[j] = "trigger"
  BY DEF TriggerInv, TriggersApart
<1> QED
  BY <1>1, <1>2, <1>3 DEF TriggerInv, TriggersApart

\* Time passing keeps it: what was old enough to forget becomes older.
LEMMA TickKeepsTriggers == TriggerInv /\ Tick => TriggerInv'
<1> SUFFICES ASSUME TriggerInv, Tick PROVE TriggerInv'
  OBVIOUS
<1>1. clock' = clock + 1 /\ UNCHANGED <<job, recent, started>>
  BY DEF Tick, memory
<1>2. \A j \in Jobs : Remembering(j)'
  <2> SUFFICES ASSUME NEW j \in Jobs PROVE Remembering(j)'
    OBVIOUS
  <2>1. Remembering(j) /\ started[j] \in Nat /\ clock \in Nat /\ Window \in Nat
    BY AgentAssumption DEF TriggerInv, AgentAssumption
  <2> QED
    BY <1>1, <2>1 DEF Remembering
<1>3. TriggersAreSpaced'
  BY <1>1 DEF TriggerInv, TriggersAreSpaced
<1>4. \A a \in Accounts : recent'[a] <= clock'
  BY <1>1 DEF TriggerInv
<1> QED
  BY <1>1, <1>2, <1>3, <1>4 DEF TriggerInv

\* A restart forgets every trigger.
LEMMA CrashKeepsTriggers == TriggerInv /\ Crash => TriggerInv'
<1> SUFFICES ASSUME TriggerInv, Crash PROVE TriggerInv'
  OBVIOUS
<1>1. /\ job' \in [Jobs -> {"off", "due", "asking", "running", "ended"}]
      /\ \A j \in Jobs : job'[j] # "asking"
  BY DEF TriggerInv, Crash
<1>2. /\ recent' = [a \in Accounts |-> 0] /\ started' = [j \in Jobs |-> 0]
      /\ clock' = clock
  BY DEF Crash
<1> QED
  BY <1>1, <1>2 DEF TriggerInv, Remembering, TriggersAreSpaced

\* A trigger let through now is at least the window after each of its account
\* that was let through before: the last one is remembered, or all are old.
LEMMA AnswerKeepsTriggers ==
  ASSUME TriggerInv, NEW j \in Jobs, AnswerTrigger(j)
  PROVE  TriggerInv'
<1> DEFINE a == TargetOf[j]
<1>1. /\ job[j] = "asking" /\ KindOf[j] = "trigger" /\ a \in Accounts
      /\ Window \in Nat /\ clock \in Nat /\ clock > 0
  BY AgentAssumption DEF TriggerInv, AnswerTrigger, AgentAssumption
<1>2. \/ job' = [job EXCEPT ![j] = "ended"] /\ UNCHANGED <<clock, recent, started>>
      \/ /\ ~Recently(a) /\ UNCHANGED clock
         /\ job' = [job EXCEPT ![j] = "running"]
         /\ recent' = Remembered(a)
         /\ started' = [started EXCEPT ![j] = clock]
  BY DEF AnswerTrigger, Allowed
<1>3. started[j] = 0
  BY <1>1 DEF TriggerInv, Remembering
<1>4. CASE job' = [job EXCEPT ![j] = "ended"] /\ UNCHANGED <<clock, recent, started>>
  <2>1. \A k \in Jobs : Remembering(k)'
    BY <1>3, <1>4 DEF TriggerInv, Remembering
  <2>2. TriggersAreSpaced'
    BY <1>4 DEF TriggerInv, TriggersAreSpaced
  <2> QED
    BY <1>4, <2>1, <2>2 DEF TriggerInv
<1>5. CASE /\ ~Recently(a) /\ UNCHANGED clock
           /\ job' = [job EXCEPT ![j] = "running"]
           /\ recent' = Remembered(a)
           /\ started' = [started EXCEPT ![j] = clock]
  <2> DEFINE now == [recent EXCEPT ![a] = clock]
  <2>1. /\ now \in [Accounts -> Nat] /\ now[a] = clock
        /\ \A b \in Accounts : b # a => now[b] = recent[b]
    BY <1>1 DEF TriggerInv
  <2>2. \A b \in Accounts :
          \/ recent'[b] = now[b]
          \/ recent'[b] = 0 /\ clock - now[b] > 2 * Window
    BY <1>5 DEF Remembered
  <2>3. recent' \in [Accounts -> Nat]
    BY <1>5, <2>1 DEF Remembered
  <2> HIDE DEF now
  <2>4. recent'[a] = clock
    BY <1>1, <2>1, <2>2
  <2>5. \A b \in Accounts : recent'[b] <= clock'
    BY <1>1, <1>5, <2>1, <2>2 DEF TriggerInv
  <2>6. started' \in [Jobs -> Nat] /\ started'[j] = clock
        /\ \A k \in Jobs : k # j => started'[k] = started[k]
    BY <1>1, <1>5 DEF TriggerInv
  <2>7. /\ job' \in [Jobs -> {"off", "due", "asking", "running", "ended"}]
        /\ job'[j] = "running" /\ \A k \in Jobs : k # j => job'[k] = job[k]
    BY <1>5 DEF TriggerInv
  <2>8. ASSUME NEW k \in Jobs PROVE Remembering(k)'
    <3>1. CASE k = j
      BY <1>1, <1>5, <2>4, <2>6, <2>7, <3>1 DEF Remembering
    <3>2. CASE k # j
      <4>1. Remembering(k) /\ started[k] \in Nat
        BY DEF TriggerInv
      <4>2. CASE TargetOf[k] = a
        BY <1>1, <1>5, <2>4, <2>6, <2>7, <3>2, <4>1, <4>2 DEF Remembering
      <4>3. CASE TargetOf[k] # a /\ KindOf[k] = "trigger"
        <5>1. TargetOf[k] \in Accounts /\ now[TargetOf[k]] = recent[TargetOf[k]]
              /\ recent[TargetOf[k]] \in Nat
          BY <2>1, <4>3, AgentAssumption DEF AgentAssumption, TriggerInv
        <5> QED
          BY <1>1, <1>5, <2>2, <2>6, <2>7, <3>2, <4>1, <5>1 DEF Remembering
      <4>4. CASE KindOf[k] # "trigger"
        BY <2>6, <3>2, <4>1, <4>4 DEF Remembering
      <4> QED
        BY <4>2, <4>3, <4>4
    <3> QED
      BY <3>1, <3>2
  <2>9. ASSUME NEW k \in Jobs, k # j, TargetOf[k] = a, started[k] # 0
        PROVE  clock - started[k] >= Window
    <3>1. Remembering(k) /\ started[k] \in Nat /\ recent[a] \in Nat
      BY <1>1 DEF TriggerInv
    <3>2. recent[a] = 0 \/ clock - recent[a] >= Window
      BY <1>1, <1>5, <3>1 DEF Recently
    <3> QED
      BY <1>1, <2>9, <3>1, <3>2 DEF Remembering
  <2>10. TriggersAreSpaced'
    <3> SUFFICES ASSUME NEW i \in Jobs, NEW k \in Jobs, i # k, TargetOf[i] = TargetOf[k],
                        started'[i] # 0, started'[i] <= started'[k]
                 PROVE  started'[k] - started'[i] >= Window
      BY DEF TriggersAreSpaced
    <3>1. started[i] \in Nat /\ started[k] \in Nat
      BY DEF TriggerInv
    <3>2. CASE k = j
      BY <2>6, <2>9, <3>2
    <3>3. CASE i = j
      <4>1. started[k] <= clock /\ started'[k] = started[k] /\ started[k] # 0
        BY <1>1, <2>6, <3>1, <3>3 DEF TriggerInv, Remembering
      <4>2. clock - started[k] >= Window
        BY <2>9, <3>3, <4>1
      <4> QED
        BY <1>1, <2>6, <3>1, <3>3, <4>1, <4>2
    <3>4. CASE i # j /\ k # j
      BY <2>6, <3>4 DEF TriggerInv, TriggersAreSpaced
    <3> QED
      BY <3>2, <3>3, <3>4
  <2> QED
    BY <1>1, <1>5, <2>3, <2>5, <2>6, <2>7, <2>8, <2>10 DEF TriggerInv
<1> QED
  BY <1>2, <1>4, <1>5

\* Everything else a job, a run or a card does leaves triggers alone.
LEMMA OthersAreApart ==
  ASSUME TriggerInv,
         \/ \E j \in Jobs : \/ BeginAnalysis(j) \/ EndAnalysis(j) \/ BeginPoll(j)
                            \/ PollNext(j) \/ EndTrigger(j) \/ AskTrigger(j)
         \/ \E r \in Runs : RunStep(r)
         \/ SendCard
         \/ \E a \in Accounts : RefreshSymbols(a) \/ LogIn(a)
         \/ UNCHANGED vars
  PROVE  TriggersApart
<1>1. ASSUME NEW j \in Jobs,
             \/ BeginAnalysis(j) \/ EndAnalysis(j) \/ BeginPoll(j)
             \/ PollNext(j) \/ EndTrigger(j) \/ AskTrigger(j)
      PROVE  TriggersApart
  BY <1>1 DEF TriggerInv, TriggersApart, memory, BeginAnalysis, EndAnalysis, BeginPoll, PollNext,
              EndTrigger, AskTrigger
<1>2. ASSUME NEW r \in Runs, RunStep(r) PROVE TriggersApart
  BY <1>2 DEF TriggerInv, TriggersApart, memory, RunStep, FetchData, ViewMarket, AskInsight,
              EndBuild, FailBuild, ComposeSignal, PostResult, EndPublish
<1>3. ASSUME SendCard \/ UNCHANGED vars \/ \E a \in Accounts : RefreshSymbols(a) \/ LogIn(a)
      PROVE  TriggersApart
  BY <1>3 DEF TriggerInv, TriggersApart, memory, vars, SendCard, RefreshSymbols, LogIn
<1> QED
  BY <1>1, <1>2, <1>3

\* No trigger has been let through at first.
LEMMA InitTriggers == Init => TriggerInv
BY DEF Init, TriggerInv, Remembering, TriggersAreSpaced

\* Every step keeps what is known of triggers.
LEMMA TriggersKept == TriggerInv /\ [Next]_vars => TriggerInv'
<1> SUFFICES ASSUME TriggerInv, [Next]_vars PROVE TriggerInv'
  OBVIOUS
<1>1. CASE \E j \in Jobs : AnswerTrigger(j)
  BY <1>1, AnswerKeepsTriggers
<1>2. CASE Tick
  BY <1>2, TickKeepsTriggers
<1>3. CASE Crash
  BY <1>3, CrashKeepsTriggers
<1>4. CASE ~(Tick \/ Crash \/ \E j \in Jobs : AnswerTrigger(j))
  <2>1. TriggersApart
    BY <1>4, OthersAreApart DEF Next, JobStep
  <2> QED
    BY <2>1, ApartKeepsTriggers
<1> QED
  BY <1>1, <1>2, <1>3, <1>4

\* Two triggers of an account are let through at least the window apart, for
\* any number of accounts and triggers whose requests interleave, although old
\* ones are forgotten.
THEOREM TriggersStaySpaced == Spec => []TriggersAreSpaced
<1>1. TriggerInv => TriggersAreSpaced
  BY DEF TriggerInv
<1> QED
  BY <1>1, InitTriggers, TriggersKept, PTL DEF Spec

-----------------------------------------------------------------------------
(* The shared insight. *)

RunFields == {"pc", "shared", "end", "tries", "post", "card", "cardTries", "saved"}
Over(r) == run[r].pc \in {"idle", "ended"}
Builds(r) == At(r, "building") /\ run[r].shared

\* A run that is under way belongs to a job that runs, and of a trigger only
\* the run of its account; hence a job that begins has none, and takes no
\* builder away.
UnderWay(r) ==
  ~Over(r) => /\ job[r[1]] = "running"
              /\ KindOf[r[1]] = "trigger" => r[2] = TargetOf[r[1]]

\* The run in flight is the only one that builds the shared insight; there is
\* no usable insight meanwhile, and nobody waits without it.
InsightInv ==
  /\ TriggerInv
  /\ until \in Nat
  /\ DOMAIN run = Runs
  /\ \A r \in Runs : DOMAIN run[r] = RunFields
  /\ \A r \in Runs : UnderWay(r)
  /\ flight # NoRun => flight \in Runs /\ Builds(flight) /\ until <= clock
  /\ \A r \in Runs : Builds(r) => r = flight /\ flight # NoRun
  /\ \A r \in Runs : At(r, "waiting") => run[r].shared /\ flight # NoRun

\* A run is a pair, and never the absence of one.
LEMMA RunsArePairs ==
  \A r \in Runs : r = <<r[1], r[2]>> /\ r[1] \in Jobs /\ r[2] \in Accounts /\ r # NoRun
BY DEF Runs, NoRun

\* Steps of a job change only runs that are over, and leave the insight alone.
LEMMA JobKeepsInsight ==
  ASSUME InsightInv, TriggerInv', UNCHANGED <<clock, until, flight>>,
         DOMAIN run' = Runs,
         \A r \in Runs : \/ run'[r] = run[r]
                         \/ Over(r) /\ run'[r] = [Idle EXCEPT !.pc = "fetching"],
         \A r \in Runs : UnderWay(r)'
  PROVE  InsightInv'
<1>1. \A r \in Runs : DOMAIN run'[r] = RunFields
  BY DEF InsightInv, Idle, RunFields
<1>2. \A r \in Runs : /\ Builds(r)' <=> Builds(r)
                      /\ At(r, "waiting")' <=> At(r, "waiting")
                      /\ At(r, "waiting") => run'[r] = run[r]
  BY DEF Builds, At, Over, Idle
<1> QED
  BY <1>1, <1>2 DEF InsightInv

\* A job begins with runs that are over.
LEMMA BegunRuns ==
  ASSUME InsightInv, NEW runs, run' = Begun(runs), \A r \in runs \cap Runs : Over(r)
  PROVE  /\ DOMAIN run' = Runs
         /\ \A r \in Runs : \/ run'[r] = run[r]
                            \/ Over(r) /\ run'[r] = [Idle EXCEPT !.pc = "fetching"]
BY DEF Begun

\* The steps of the queues and of the triggers.
LEMMA JobStepKeepsInsight ==
  ASSUME InsightInv, TriggerInv', NEW j \in Jobs, JobStep(j) \/ AskTrigger(j)
  PROVE  InsightInv'
<1>1. \A r \in Runs : r = <<r[1], r[2]>> /\ r[1] \in Jobs /\ r[2] \in Accounts
  BY RunsArePairs
<1>2. \A r \in Runs : job[r[1]] # "running" => Over(r)
  BY DEF InsightInv, UnderWay
<1>3. job \in [Jobs -> {"off", "due", "asking", "running", "ended"}]
      /\ (job[j] = "asking" => KindOf[j] = "trigger")
  BY DEF InsightInv, TriggerInv
<1>4. UNCHANGED <<clock, until, flight>>
  BY DEF JobStep, BeginAnalysis, EndAnalysis, BeginPoll, PollNext, AnswerTrigger, EndTrigger, AskTrigger
<1>5. CASE BeginAnalysis(j)
  <2>1. run' = Begun({j} \X active) /\ job[j] = "due" /\ KindOf[j] = "analysis"
        /\ job' = [job EXCEPT ![j] = "running"]
    BY <1>5 DEF BeginAnalysis
  <2>2. \A r \in ({j} \X active) \cap Runs : Over(r)
    BY <1>2, <2>1
  <2>3. \A r \in Runs : UnderWay(r)'
    BY <1>1, <1>2, <1>3, <2>1 DEF InsightInv, UnderWay, Begun, Over
  <2> QED
    BY <1>4, <2>1, <2>2, <2>3, BegunRuns, JobKeepsInsight
<1>6. CASE EndAnalysis(j)
  <2>1. UNCHANGED run /\ job' = [job EXCEPT ![j] = "ended"]
        /\ \A a \in Accounts : Over(<<j, a>>)
    BY <1>6 DEF EndAnalysis, Over
  <2>2. \A r \in Runs : UnderWay(r)'
    BY <1>1, <1>3, <2>1 DEF InsightInv, UnderWay, Over
  <2> QED
    BY <1>4, <2>1, <2>2, JobKeepsInsight DEF InsightInv
<1>7. CASE BeginPoll(j) \/ AskTrigger(j)
  <2>1. UNCHANGED run /\ job[j] = "due" /\ \E w \in {"running", "asking"} : job' = [job EXCEPT ![j] = w]
    BY <1>7 DEF BeginPoll, AskTrigger
  <2>2. \A r \in Runs : UnderWay(r)'
    BY <1>1, <1>2, <1>3, <2>1 DEF InsightInv, UnderWay, Over
  <2> QED
    BY <1>4, <2>1, <2>2, JobKeepsInsight DEF InsightInv
<1>8. CASE PollNext(j)
  <2>1. KindOf[j] = "poll" /\ job[j] = "running" /\ \A a \in Accounts : Over(<<j, a>>)
    BY <1>8 DEF PollNext, Over
  <2>2. CASE job' = [job EXCEPT ![j] = "ended"] /\ UNCHANGED run
    <3>1. \A r \in Runs : UnderWay(r)'
      BY <1>1, <1>3, <2>1, <2>2 DEF InsightInv, UnderWay, Over
    <3> QED
      BY <1>4, <2>2, <3>1, JobKeepsInsight DEF InsightInv
  <2>3. ASSUME NEW a, run' = Begun({<<j, a>>}), UNCHANGED job PROVE InsightInv'
    <3>1. \A r \in {<<j, a>>} \cap Runs : Over(r)
      BY <1>1, <2>1
    <3>2. \A r \in Runs : UnderWay(r)'
      BY <1>1, <2>1, <2>3 DEF InsightInv, UnderWay, Begun, Over
    <3> QED
      BY <1>4, <2>3, <3>1, <3>2, BegunRuns, JobKeepsInsight
  <2> QED
    BY <1>8, <2>2, <2>3 DEF PollNext
<1>9. CASE AnswerTrigger(j)
  <2>1. job[j] = "asking" /\ KindOf[j] = "trigger"
    BY <1>3, <1>9 DEF AnswerTrigger
  <2>2. CASE job' = [job EXCEPT ![j] = "ended"] /\ UNCHANGED run
    <3>1. \A r \in Runs : UnderWay(r)'
      BY <1>1, <1>2, <1>3, <2>1, <2>2 DEF InsightInv, UnderWay, Over
    <3> QED
      BY <1>4, <2>2, <3>1, JobKeepsInsight DEF InsightInv
  <2>3. CASE job' = [job EXCEPT ![j] = "running"] /\ run' = Begun({<<j, TargetOf[j]>>})
    <3>1. \A r \in {<<j, TargetOf[j]>>} \cap Runs : Over(r)
      BY <1>2, <2>1
    <3>2. \A r \in Runs : UnderWay(r)'
      BY <1>1, <1>2, <1>3, <2>1, <2>3 DEF InsightInv, UnderWay, Begun, Over
    <3> QED
      BY <1>4, <2>3, <3>1, <3>2, BegunRuns, JobKeepsInsight
  <2> QED
    BY <1>9, <2>2, <2>3 DEF AnswerTrigger
<1>10. CASE EndTrigger(j)
  <2>1. KindOf[j] = "trigger" /\ Over(<<j, TargetOf[j]>>) /\ UNCHANGED run
        /\ job' = [job EXCEPT ![j] = "ended"]
    BY <1>10 DEF EndTrigger, Ended, At, Over
  <2>2. \A r \in Runs : UnderWay(r)'
    BY <1>1, <1>3, <2>1 DEF InsightInv, UnderWay, Over
  <2> QED
    BY <1>4, <2>1, <2>2, JobKeepsInsight DEF InsightInv
<1> QED
  BY <1>5, <1>6, <1>7, <1>8, <1>9, <1>10 DEF JobStep

\* The steps of one run that neither begin nor end the building of an insight.
RunMoves(r) ==
  /\ UNCHANGED <<clock, job, until, flight>>
  /\ DOMAIN run' = Runs
  /\ DOMAIN run'[r] = RunFields
  /\ run'[r].pc \notin {"building", "waiting"}
  /\ \A s \in Runs : s # r => run'[s] = run[s]
  /\ run[r].pc \notin {"idle", "ended", "building", "waiting"}

\* Such a step takes no builder away and adds none.
LEMMA MoveKeepsInsight ==
  ASSUME InsightInv, TriggerInv', NEW r \in Runs, RunMoves(r)
  PROVE  InsightInv'
<1>1. \A s \in Runs : DOMAIN run'[s] = RunFields
  BY DEF InsightInv, RunMoves
<1>2. \A s \in Runs : UnderWay(s)'
  BY DEF InsightInv, UnderWay, RunMoves, Over
<1>3. \A s \in Runs : /\ Builds(s)' <=> Builds(s)
                      /\ At(s, "waiting")' <=> At(s, "waiting")
                      /\ At(s, "waiting") => run'[s] = run[s]
  BY DEF Builds, At, RunMoves
<1> QED
  BY <1>1, <1>2, <1>3 DEF InsightInv, RunMoves

\* The steps of fetching are such steps.
LEMMA FetchMoves ==
  ASSUME InsightInv, NEW r \in Runs, FetchData(r) \/ ViewMarket(r)
  PROVE  RunMoves(r)
<1>1. DOMAIN run = Runs /\ DOMAIN run[r] = RunFields
  BY DEF InsightInv
<1>2. CASE FetchData(r)
  <2>1. \E pc, end : \/ run' = [run EXCEPT ![r] = [@ EXCEPT !.pc = "ended", !.end = end]]
                     \/ pc \in {"viewing", "asking"} /\ run' = [run EXCEPT ![r] = [@ EXCEPT !.pc = pc]]
    BY <1>2 DEF FetchData, Closed, Moved
  <2> QED
    BY <1>1, <1>2, <2>1 DEF RunMoves, FetchData, RunFields, At
<1>3. CASE ViewMarket(r)
  <2>1. \E shared : run' = [run EXCEPT ![r] = [@ EXCEPT !.pc = "asking", !.shared = shared]]
    BY <1>3 DEF ViewMarket
  <2> QED
    BY <1>1, <1>3, <2>1 DEF RunMoves, ViewMarket, RunFields, At
<1> QED
  BY <1>2, <1>3

\* So are the steps of publishing.
LEMMA PublishMoves ==
  ASSUME InsightInv, NEW r \in Runs, ComposeSignal(r) \/ PostResult(r) \/ EndPublish(r)
  PROVE  RunMoves(r)
<1>1. DOMAIN run = Runs /\ DOMAIN run[r] = RunFields
  BY DEF InsightInv
<1>2. CASE ComposeSignal(r)
  <2>1. \E card :
          run' = [run EXCEPT ![r] = [@ EXCEPT !.pc = "publishing", !.post = "trying", !.card = card]]
    BY <1>2 DEF ComposeSignal
  <2> QED
    BY <1>1, <1>2, <2>1 DEF RunMoves, ComposeSignal, RunFields, At
<1>3. CASE PostResult(r)
  <2>1. \E tries, post : run' = [run EXCEPT ![r] = [@ EXCEPT !.tries = tries, !.post = post]]
    BY <1>3 DEF PostResult, Tried
  <2> QED
    BY <1>1, <1>3, <2>1 DEF RunMoves, PostResult, RunFields, At
<1>4. CASE EndPublish(r)
  <2>1. \E saved, end :
          run' = [run EXCEPT ![r] = [@ EXCEPT !.pc = "ended", !.saved = saved, !.end = end]]
    BY <1>4 DEF EndPublish
  <2> QED
    BY <1>1, <1>4, <2>1 DEF RunMoves, EndPublish, RunFields, At
<1> QED
  BY <1>2, <1>3, <1>4

\* A run becomes a builder of the shared insight only when there is none and
\* no insight to use, and waits only when there is one.
LEMMA AskKeepsInsight ==
  ASSUME InsightInv, TriggerInv', NEW r \in Runs, AskInsight(r)
  PROVE  InsightInv'
<1>1. r # NoRun /\ DOMAIN run[r] = RunFields /\ DOMAIN run = Runs
      /\ clock \in Nat /\ until \in Nat
  BY RunsArePairs DEF InsightInv, TriggerInv
<1>2. PICK pc \in {"building", "waiting", "deciding"} :
        /\ run' = [run EXCEPT ![r] = [@ EXCEPT !.pc = pc]]
        /\ \/ ~run[r].shared /\ pc = "building" /\ UNCHANGED flight
           \/ pc = "deciding" /\ UNCHANGED flight
           \/ run[r].shared /\ pc = "building" /\ until <= clock /\ flight = NoRun /\ flight' = r
           \/ run[r].shared /\ pc = "waiting" /\ ~(until > clock) /\ ~MayBuild /\ UNCHANGED flight
  BY DEF AskInsight, Moved, MayBuild
<1>3. /\ DOMAIN run' = Runs /\ run'[r].pc = pc /\ (run'[r].shared <=> run[r].shared)
      /\ DOMAIN run'[r] = RunFields
      /\ \A s \in Runs : s # r => run'[s] = run[s]
  BY <1>1, <1>2 DEF RunFields
<1>4. run[r].pc = "asking" /\ UNCHANGED <<clock, job, until>>
  BY DEF AskInsight, At
<1>5. \A s \in Runs : DOMAIN run'[s] = RunFields
  BY <1>3 DEF InsightInv
<1>6. \A s \in Runs : UnderWay(s)'
  BY <1>3, <1>4 DEF InsightInv, UnderWay, Over
<1>7. \A s \in Runs : s # r => /\ Builds(s)' <=> Builds(s)
                               /\ At(s, "waiting")' <=> At(s, "waiting")
                               /\ run'[s] = run[s]
  BY <1>3 DEF Builds, At
<1>8. ~Builds(r) /\ flight # r
  BY <1>1, <1>4 DEF InsightInv, Builds, At
<1>9. CASE ~run[r].shared \/ pc = "deciding"
  <2>1. ~Builds(r)' /\ ~At(r, "waiting")' /\ UNCHANGED flight
    BY <1>2, <1>3, <1>9 DEF Builds, At
  <2> QED
    BY <1>3, <1>4, <1>5, <1>6, <1>7, <1>8, <2>1 DEF InsightInv
<1>10. CASE run[r].shared /\ pc = "building"
  <2>1. Builds(r)' /\ ~At(r, "waiting")' /\ flight' = r /\ flight = NoRun /\ until <= clock
    BY <1>2, <1>3, <1>10 DEF Builds, At
  <2>2. \A s \in Runs : s # r => ~Builds(s)' /\ ~At(s, "waiting")'
    BY <1>7, <2>1 DEF InsightInv
  <2> QED
    BY <1>1, <1>3, <1>4, <1>5, <1>6, <2>1, <2>2 DEF InsightInv
<1>11. CASE run[r].shared /\ pc = "waiting"
  <2>1. ~Builds(r)' /\ run'[r].shared /\ UNCHANGED flight /\ ~(until > clock) /\ ~MayBuild
    BY <1>2, <1>3, <1>11 DEF Builds, At
  <2>2. flight # NoRun
    BY <1>1, <2>1 DEF InsightInv, MayBuild
  <2> QED
    BY <1>3, <1>4, <1>5, <1>6, <1>7, <1>8, <2>1, <2>2 DEF InsightInv
<1> QED
  BY <1>2, <1>9, <1>10, <1>11

\* The end of a build, whether it succeeded or not, is the end of everybody's
\* waiting for it.
LEMMA BuiltKeepsInsight ==
  ASSUME InsightInv, TriggerInv', NEW r \in Runs, EndBuild(r) \/ FailBuild(r)
  PROVE  InsightInv'
<1>1. /\ DOMAIN run = Runs /\ \A s \in Runs : DOMAIN run[s] = RunFields
      /\ run[r].pc = "building" /\ clock \in Nat /\ Ttl \in Nat /\ until \in Nat
  BY AgentAssumption DEF InsightInv, TriggerInv, EndBuild, FailBuild, At, AgentAssumption
<1>2. \A s \in Audience(r) : s \in Runs /\ ~Over(s) /\ (s # r => At(s, "waiting") /\ run[r].shared)
  BY <1>1 DEF Audience, At, Over
<1>3. UNCHANGED <<clock, job>> /\ DOMAIN run' = Runs
  BY DEF EndBuild, FailBuild
<1>4. \A s \in Runs :
        /\ s \notin Audience(r) => run'[s] = run[s]
        /\ s \in Audience(r) => /\ DOMAIN run'[s] = RunFields
                                /\ run'[s].pc \in {"deciding", "ended"}
  <2>1. CASE EndBuild(r)
    BY <1>1, <2>1 DEF EndBuild, RunFields
  <2>2. CASE FailBuild(r)
    BY <1>1, <2>2 DEF FailBuild, RunFields
  <2> QED
    BY <2>1, <2>2
<1>5. \A s \in Runs : DOMAIN run'[s] = RunFields
  BY <1>1, <1>4
<1>6. \A s \in Runs : UnderWay(s)'
  BY <1>2, <1>3, <1>4 DEF InsightInv, UnderWay, Over
<1>7. \A s \in Runs : /\ Builds(s)' => Builds(s) /\ s # r
                      /\ At(s, "waiting")' => At(s, "waiting") /\ run'[s] = run[s]
  BY <1>4 DEF Builds, At, Audience
<1>8. CASE run[r].shared
  <2>1. Builds(r) /\ r = flight
    BY <1>1, <1>8 DEF InsightInv, Builds, At
  <2>2. \A s \in Runs : ~Builds(s)' /\ ~At(s, "waiting")'
    <3>1. \A s \in Runs : ~Builds(s)'
      BY <1>7, <2>1 DEF InsightInv
    <3>2. \A s \in Runs : At(s, "waiting") => s \in Audience(r)
      BY <1>8 DEF Audience
    <3>3. \A s \in Runs : ~At(s, "waiting")'
      BY <1>4, <1>7, <3>2 DEF At
    <3> QED
      BY <3>1, <3>3
  <2>3. flight' = NoRun /\ until' \in Nat
    <3>1. /\ flight' = IF run[r].shared THEN NoRun ELSE flight
          /\ until' \in {until, clock + Ttl}
      BY DEF EndBuild, FailBuild
    <3>2. flight' = NoRun
      BY <1>8, <3>1
    <3> QED
      BY <1>1, <3>1, <3>2
  <2> QED
    BY <1>3, <1>5, <1>6, <2>2, <2>3 DEF InsightInv
<1>9. CASE ~run[r].shared
  <2>1. UNCHANGED <<flight, until>>
    BY <1>9 DEF EndBuild, FailBuild
  <2>2. flight # NoRun => flight # r /\ flight \notin Audience(r)
    BY <1>2, <1>9 DEF InsightInv, Builds
  <2>3. flight # NoRun => Builds(flight)'
    BY <1>4, <2>1, <2>2 DEF InsightInv, Builds, At
  <2> QED
    BY <1>3, <1>5, <1>6, <1>7, <2>1, <2>3 DEF InsightInv
<1> QED
  BY <1>8, <1>9

\* Cards, listings and time touch neither the runs' places nor the insight;
\* time only makes it older.
LEMMA OutsideKeepsInsight ==
  ASSUME InsightInv, TriggerInv',
         SendCard \/ Tick \/ UNCHANGED vars \/ \E a \in Accounts : RefreshSymbols(a) \/ LogIn(a)
  PROVE  InsightInv'
<1>1. UNCHANGED <<job, until, flight>> /\ clock' \in {clock, clock + 1} /\ clock \in Nat
  BY DEF SendCard, Tick, vars, RefreshSymbols, LogIn, memory, InsightInv, TriggerInv
<1>2. /\ DOMAIN run' = Runs
      /\ \A r \in Runs : /\ DOMAIN run'[r] = RunFields
                         /\ run'[r].pc = run[r].pc
                         /\ run'[r].shared = run[r].shared
  <2>1. CASE UNCHANGED run
    BY <2>1 DEF InsightInv
  <2>2. CASE SendCard
    <3> DEFINE h == Head(cards)
    <3>1. DOMAIN run = Runs /\ \A r \in Runs : DOMAIN run[r] = RunFields
      BY DEF InsightInv
    <3>2. \/ run' = [run EXCEPT ![h] = [@ EXCEPT !.card = "sent", !.cardTries = run[h].cardTries + 1]]
          \/ run' = [run EXCEPT ![h] = [@ EXCEPT !.cardTries = run[h].cardTries + 1]]
          \/ run' = [run EXCEPT ![h] = [@ EXCEPT !.card = "failed", !.cardTries = run[h].cardTries + 1]]
      BY <2>2 DEF SendCard
    <3> HIDE DEF h
    <3>3. DOMAIN run' = Runs /\ \A r \in Runs : r # h => run'[r] = run[r]
      BY <3>1, <3>2
    <3>4. ASSUME h \in Runs
          PROVE  DOMAIN run'[h] = RunFields /\ run'[h].pc = run[h].pc
                 /\ run'[h].shared = run[h].shared
      <4>1. DOMAIN run[h] = RunFields
        BY <3>1, <3>4
      <4> QED
        BY <3>1, <3>2, <3>4, <4>1 DEF RunFields
    <3> QED
      BY <3>1, <3>3, <3>4
  <2> QED
    BY <2>1, <2>2 DEF Tick, vars, RefreshSymbols, LogIn
<1>3. \A r \in Runs : /\ UnderWay(r)' <=> UnderWay(r)
                      /\ Builds(r)' <=> Builds(r)
                      /\ At(r, "waiting")' <=> At(r, "waiting")
  BY <1>1, <1>2 DEF UnderWay, Over, Builds, At
<1>4. flight # NoRun => until <= clock'
  BY <1>1 DEF InsightInv
<1> QED
  BY <1>1, <1>2, <1>3, <1>4 DEF InsightInv

\* A restart ends every build and every wait.
LEMMA CrashKeepsInsight ==
  ASSUME InsightInv, TriggerInv', Crash
  PROVE  InsightInv'
<1>1. run' = [r \in Runs |-> IF job[r[1]] = "ended" THEN run[r] ELSE Idle]
      /\ until' = 0 /\ flight' = NoRun
  BY DEF Crash
<1>2. \A r \in Runs : Over(r)' /\ DOMAIN run'[r] = RunFields
  BY <1>1 DEF InsightInv, UnderWay, Over, Idle, RunFields
<1>3. \A r \in Runs : UnderWay(r)' /\ ~Builds(r)' /\ ~At(r, "waiting")'
  BY <1>2 DEF UnderWay, Over, Builds, At
<1> QED
  BY <1>1, <1>2, <1>3 DEF InsightInv

\* At first nobody builds.
LEMMA InitInsight == Init => InsightInv
BY InitTriggers DEF Init, InsightInv, Idle, RunFields, UnderWay, Over, Builds, At, NoRun

\* Every step keeps the insight in one pair of hands.
LEMMA InsightKept == InsightInv /\ [Next]_vars => InsightInv'
<1> SUFFICES ASSUME InsightInv, [Next]_vars PROVE InsightInv'
  OBVIOUS
<1>1. TriggerInv'
  BY TriggersKept DEF InsightInv
<1>2. CASE \E j \in Jobs : JobStep(j) \/ AskTrigger(j)
  BY <1>1, <1>2, JobStepKeepsInsight
<1>3. ASSUME NEW r \in Runs, RunStep(r) PROVE InsightInv'
  <2>1. CASE EndBuild(r) \/ FailBuild(r)
    BY <1>1, <2>1, BuiltKeepsInsight
  <2>2. CASE AskInsight(r)
    BY <1>1, <2>2, AskKeepsInsight
  <2>3. CASE ~(EndBuild(r) \/ FailBuild(r) \/ AskInsight(r))
    <3>1. RunMoves(r)
      BY <1>3, <2>3, FetchMoves, PublishMoves DEF RunStep
    <3> QED
      BY <1>1, <3>1, MoveKeepsInsight
  <2> QED
    BY <2>1, <2>2, <2>3
<1>4. CASE Crash
  BY <1>1, <1>4, CrashKeepsInsight
<1>5. CASE SendCard \/ Tick \/ UNCHANGED vars \/ \E a \in Accounts : RefreshSymbols(a) \/ LogIn(a)
  BY <1>1, <1>5, OutsideKeepsInsight
<1> QED
  BY <1>2, <1>3, <1>4, <1>5 DEF Next

\* The shared insight has one builder, for any accounts, jobs, scenes and
\* restarts; while it is built there is no insight that could be used
\* instead, and nobody waits in vain.
THEOREM InsightHasOneBuilder == Spec => []OneInsightAtATime
<1>1. InsightInv => OneInsightAtATime
  <2> SUFFICES ASSUME InsightInv PROVE OneInsightAtATime
    OBVIOUS
  <2> DEFINE builders == {r \in Runs : At(r, "building") /\ run[r].shared}
  <2>1. builders \subseteq {flight}
    BY DEF InsightInv, Builds
  <2>2. Cardinality(builders) <= 1
    <3>1. IsFiniteSet({flight}) /\ Cardinality({flight}) = 1
      BY FS_Singleton
    <3>2. Cardinality(builders) <= Cardinality({flight})
      BY <2>1, <3>1, FS_Subset
    <3> QED
      BY <3>1, <3>2
  <2>3. builders # {} => until <= clock
    BY DEF InsightInv, Builds
  <2>4. (\E r \in Runs : At(r, "waiting")) => builders # {}
    BY DEF InsightInv, Builds
  <2> QED
    BY <2>2, <2>3, <2>4 DEF OneInsightAtATime
<1> QED
  BY <1>1, InitInsight, InsightKept, PTL DEF Spec

-----------------------------------------------------------------------------
(* Posting. *)

\* What a run has posted in this life of the agent; nothing before it publishes.
Posting(r) ==
  /\ run[r].tries \in Nat /\ run[r].tries <= scene.attempts
  /\ run[r].post \in {"none", "trying", "ok", "failed"}
  /\ run[r].pc \notin {"publishing", "ended"} => run[r].post = "none"
  /\ run[r].post = "none" => run[r].tries = 0
  /\ run[r].post = "trying" => run[r].tries < scene.attempts

\* What the server has received of a run: at most what this life tried, beside what former
\* lives may have posted; and but one that was not known to be lost, in each life.
Counted(r) ==
  /\ received[r] \in Nat /\ lost[r] \in Nat
  /\ run[r].post = "ok" => received[r] > 0
  /\ received[r] <= lost[r] + crashes + (IF run[r].post = "ok" THEN 1 ELSE 0)
  /\ received[r] <= scene.attempts * crashes + run[r].tries

\* A run that a job may still begin has not begun in this life: a job that comes up has
\* begun none, and a poll none of the accounts that are left to it.
Unbegun(r) ==
  /\ job[r[1]] \in {"off", "due", "asking"} => At(r, "idle")
  /\ job[r[1]] = "running" /\ r[2] \in left[r[1]] => At(r, "idle")

PostInv ==
  /\ InsightInv
  /\ scene.attempts \in Nat \ {0} /\ crashes \in Nat
  /\ DOMAIN received = Runs /\ DOMAIN lost = Runs
  /\ DOMAIN left = Jobs /\ \A j \in Jobs : left[j] # {} => KindOf[j] = "poll"
  /\ \A r \in Runs : Posting(r) /\ Counted(r) /\ Unbegun(r)

\* Steps that post nothing: no run changes what it posted or goes back from publishing.
PostsStay ==
  /\ UNCHANGED <<scene, crashes, received, lost>>
  /\ \A r \in Runs :
       /\ run'[r].post = run[r].post /\ run'[r].tries = run[r].tries
       /\ run'[r].pc \notin {"publishing", "ended"} => run[r].pc \notin {"publishing", "ended"}

\* Such a step keeps what is known of posts, if it begins only what may be begun.
LEMMA StayKeepsPosts ==
  ASSUME PostInv, InsightInv', PostsStay, \A r \in Runs : Unbegun(r)',
         DOMAIN left' = Jobs, \A j \in Jobs : left'[j] # {} => KindOf[j] = "poll"
  PROVE  PostInv'
<1>1. \A r \in Runs : Posting(r)'
  BY DEF PostInv, Posting, PostsStay
<1>2. \A r \in Runs : Counted(r)'
  BY DEF PostInv, Counted, PostsStay
<1> QED
  BY <1>1, <1>2 DEF PostInv, PostsStay

\* A run that has not begun has posted nothing.
LEMMA IdlePostsNothing ==
  ASSUME PostInv, NEW r \in Runs, At(r, "idle")
  PROVE  run[r].post = "none" /\ run[r].tries = 0
BY DEF PostInv, Posting, At

\* The steps of the queues and of the triggers begin each run once in a life.
LEMMA JobStepKeepsPosts ==
  ASSUME PostInv, InsightInv', NEW j \in Jobs, JobStep(j) \/ AskTrigger(j)
  PROVE  PostInv'
<1>1. \A r \in Runs : r = <<r[1], r[2]>> /\ r[1] \in Jobs /\ r[2] \in Accounts
  BY RunsArePairs
<1>2. /\ job \in [Jobs -> {"off", "due", "asking", "running", "ended"}]
      /\ (job[j] = "asking" => KindOf[j] = "trigger")
      /\ DOMAIN left = Jobs /\ \A k \in Jobs : left[k] # {} => KindOf[k] = "poll"
      /\ \A r \in Runs : Unbegun(r)
  BY DEF PostInv, InsightInv, TriggerInv
<1>3. UNCHANGED <<scene, crashes, received, lost>>
  BY DEF JobStep, BeginAnalysis, EndAnalysis, BeginPoll, PollNext, AnswerTrigger, EndTrigger, AskTrigger,
         outside
<1>4. ASSUME NEW runs, run' = Begun(runs), \A r \in runs \cap Runs : At(r, "idle")
      PROVE  PostsStay
  <2>1. \A r \in Runs : \/ run'[r] = run[r]
                        \/ At(r, "idle") /\ run'[r] = [Idle EXCEPT !.pc = "fetching"]
    BY <1>4 DEF Begun
  <2> QED
    BY <1>3, <2>1, IdlePostsNothing DEF PostsStay, At, Idle
<1>5. UNCHANGED run => PostsStay
  BY <1>3 DEF PostsStay
<1>6. CASE BeginAnalysis(j)
  <2>1. /\ run' = Begun({j} \X active) /\ job[j] = "due" /\ KindOf[j] = "analysis"
        /\ job' = [job EXCEPT ![j] = "running"] /\ UNCHANGED left
    BY <1>6 DEF BeginAnalysis, memory
  <2>2. \A r \in ({j} \X active) \cap Runs : At(r, "idle")
    BY <1>1, <1>2, <2>1 DEF Unbegun
  <2>3. \A r \in Runs : Unbegun(r)'
    BY <1>1, <1>2, <2>1 DEF Unbegun, At, Begun
  <2> QED
    BY <1>2, <1>4, <2>1, <2>2, <2>3, StayKeepsPosts
<1>7. CASE EndAnalysis(j) \/ EndTrigger(j)
  <2>1. UNCHANGED <<run, left>> /\ job' = [job EXCEPT ![j] = "ended"]
    BY <1>7 DEF EndAnalysis, EndTrigger, memory
  <2>2. \A r \in Runs : Unbegun(r)'
    BY <1>1, <1>2, <2>1 DEF Unbegun, At
  <2> QED
    BY <1>2, <1>5, <2>1, <2>2, StayKeepsPosts
<1>8. CASE AskTrigger(j)
  <2>1. UNCHANGED <<run, left>> /\ job' = [job EXCEPT ![j] = "asking"] /\ job[j] = "due"
    BY <1>8 DEF AskTrigger, memory
  <2>2. \A r \in Runs : Unbegun(r)'
    BY <1>1, <1>2, <2>1 DEF Unbegun, At
  <2> QED
    BY <1>2, <1>5, <2>1, <2>2, StayKeepsPosts
<1>9. CASE BeginPoll(j)
  <2>1. /\ UNCHANGED run /\ job' = [job EXCEPT ![j] = "running"] /\ job[j] = "due" /\ KindOf[j] = "poll"
        /\ \E accounts : left' = [left EXCEPT ![j] = accounts]
    BY <1>9 DEF BeginPoll
  <2>2. \A r \in Runs : Unbegun(r)'
    BY <1>1, <1>2, <2>1 DEF Unbegun, At
  <2>3. DOMAIN left' = Jobs /\ \A k \in Jobs : left'[k] # {} => KindOf[k] = "poll"
    BY <1>2, <2>1
  <2> QED
    BY <1>5, <2>1, <2>2, <2>3, StayKeepsPosts
<1>10. CASE PollNext(j)
  <2>1. KindOf[j] = "poll" /\ job[j] = "running"
    BY <1>10 DEF PollNext
  <2>2. CASE job' = [job EXCEPT ![j] = "ended"] /\ UNCHANGED <<left, run>>
    <3>1. \A r \in Runs : Unbegun(r)'
      BY <1>1, <1>2, <2>2 DEF Unbegun, At
    <3> QED
      BY <1>2, <1>5, <2>2, <3>1, StayKeepsPosts
  <2>3. ASSUME NEW a \in left[j], left' = [left EXCEPT ![j] = @ \ {a}], run' = Begun({<<j, a>>}), UNCHANGED job
        PROVE  PostInv'
    <3>1. \A r \in {<<j, a>>} \cap Runs : At(r, "idle")
      BY <1>1, <1>2, <2>1 DEF Unbegun
    <3>2. \A r \in Runs : Unbegun(r)'
      <4> SUFFICES ASSUME NEW r \in Runs PROVE Unbegun(r)'
        OBVIOUS
      <4>1. CASE r = <<j, a>>
        BY <1>2, <2>1, <2>3, <4>1 DEF Unbegun
      <4>2. CASE r # <<j, a>>
        <5>1. run'[r] = run[r] /\ left'[r[1]] \subseteq left[r[1]]
          BY <1>1, <1>2, <2>3, <4>2 DEF Begun
        <5> QED
          BY <1>2, <2>3, <5>1 DEF Unbegun, At
      <4> QED
        BY <4>1, <4>2
    <3>3. DOMAIN left' = Jobs /\ \A k \in Jobs : left'[k] # {} => KindOf[k] = "poll"
      BY <1>2, <2>1, <2>3
    <3> QED
      BY <1>4, <2>3, <3>1, <3>2, <3>3, StayKeepsPosts
  <2> QED
    BY <1>10, <2>2, <2>3 DEF PollNext, Foremost
<1>11. CASE AnswerTrigger(j)
  <2>1. job[j] = "asking" /\ KindOf[j] = "trigger" /\ UNCHANGED left
    BY <1>2, <1>11 DEF AnswerTrigger
  <2>2. CASE job' = [job EXCEPT ![j] = "ended"] /\ UNCHANGED run
    <3>1. \A r \in Runs : Unbegun(r)'
      BY <1>1, <1>2, <2>1, <2>2 DEF Unbegun, At
    <3> QED
      BY <1>2, <1>5, <2>1, <2>2, <3>1, StayKeepsPosts
  <2>3. CASE job' = [job EXCEPT ![j] = "running"] /\ run' = Begun({<<j, TargetOf[j]>>})
    <3>1. \A r \in {<<j, TargetOf[j]>>} \cap Runs : At(r, "idle")
      BY <1>1, <1>2, <2>1 DEF Unbegun
    <3>2. \A r \in Runs : Unbegun(r)'
      BY <1>1, <1>2, <2>1, <2>3 DEF Unbegun, At, Begun
    <3> QED
      BY <1>2, <1>4, <2>1, <2>3, <3>1, <3>2, StayKeepsPosts
  <2> QED
    BY <1>11, <2>2, <2>3 DEF AnswerTrigger
<1> QED
  BY <1>6, <1>7, <1>8, <1>9, <1>10, <1>11 DEF JobStep

\* A step in which only runs that are under way change, and of which nobody goes back, keeps
\* what is known if it posts nothing.
LEMMA WorkKeepsPosts ==
  ASSUME PostInv, InsightInv', PostsStay, UNCHANGED <<job, left>>,
         \A r \in Runs : At(r, "idle") => At(r, "idle")'
  PROVE  PostInv'
<1>1. \A r \in Runs : Unbegun(r)'
  BY DEF PostInv, Unbegun
<1> QED
  BY <1>1, StayKeepsPosts DEF PostInv

\* What a run does before it publishes, and the end of its publishing, posts nothing.
LEMMA MovePostsNothing ==
  ASSUME PostInv, InsightInv', NEW r \in Runs,
         FetchData(r) \/ ViewMarket(r) \/ AskInsight(r) \/ EndPublish(r)
  PROVE  PostInv'
<1>1. DOMAIN run = Runs /\ DOMAIN run[r] = RunFields
  BY DEF PostInv, InsightInv
<1> DEFINE Quietly ==
        /\ \A s \in Runs : s # r => run'[s] = run[s]
        /\ run'[r].post = run[r].post /\ run'[r].tries = run[r].tries
        /\ run'[r].pc \notin {"publishing", "ended"} => run[r].pc \notin {"publishing", "ended"}
<1>3. Quietly
  <2>1. CASE FetchData(r)
    <3>1. \E pc, end : \/ run' = [run EXCEPT ![r] = [@ EXCEPT !.pc = "ended", !.end = end]]
                       \/ run' = [run EXCEPT ![r] = [@ EXCEPT !.pc = pc]]
      BY <2>1 DEF FetchData, Closed, Moved
    <3> QED
      BY <1>1, <2>1, <3>1 DEF FetchData, RunFields, At
  <2>2. CASE ViewMarket(r)
    <3>1. \E shared : run' = [run EXCEPT ![r] = [@ EXCEPT !.pc = "asking", !.shared = shared]]
      BY <2>2 DEF ViewMarket
    <3> QED
      BY <1>1, <2>2, <3>1 DEF ViewMarket, RunFields, At
  <2>3. CASE AskInsight(r)
    <3>1. \E pc : run' = [run EXCEPT ![r] = [@ EXCEPT !.pc = pc]]
      BY <2>3 DEF AskInsight, Moved
    <3> QED
      BY <1>1, <2>3, <3>1 DEF AskInsight, RunFields, At
  <2>4. CASE EndPublish(r)
    <3>1. \E saved, end :
            run' = [run EXCEPT ![r] = [@ EXCEPT !.pc = "ended", !.saved = saved, !.end = end]]
      BY <2>4 DEF EndPublish
    <3> QED
      BY <1>1, <3>1 DEF RunFields
  <2> QED
    BY <2>1, <2>2, <2>3, <2>4
<1>4. UNCHANGED <<scene, crashes, received, lost, job, left>> /\ run[r].pc # "idle"
  BY DEF FetchData, ViewMarket, AskInsight, EndPublish, outside, memory, At
<1> QED
  BY <1>3, <1>4, WorkKeepsPosts DEF PostsStay, At

\* Nor does the end of a build, for the builder or its audience.
LEMMA BuiltPostsNothing ==
  ASSUME PostInv, InsightInv', NEW r \in Runs, EndBuild(r) \/ FailBuild(r)
  PROVE  PostInv'
<1>1. /\ DOMAIN run = Runs /\ \A s \in Runs : DOMAIN run[s] = RunFields
      /\ run[r].pc = "building"
  BY DEF PostInv, InsightInv, EndBuild, FailBuild, At
<1>2. \A s \in Audience(r) : run[s].pc \in {"building", "waiting"}
  BY <1>1 DEF Audience, At
<1>3. \A s \in Runs :
        \/ run'[s] = run[s]
        \/ /\ s \in Audience(r)
           /\ run'[s].post = run[s].post /\ run'[s].tries = run[s].tries
  <2>1. CASE EndBuild(r)
    BY <1>1, <2>1 DEF EndBuild, RunFields
  <2>2. CASE FailBuild(r)
    BY <1>1, <2>2 DEF FailBuild, RunFields
  <2> QED
    BY <2>1, <2>2
<1>4. UNCHANGED <<scene, crashes, received, lost, job, left>>
  BY DEF EndBuild, FailBuild, outside, memory
<1> QED
  BY <1>2, <1>3, <1>4, WorkKeepsPosts DEF PostsStay, At

\* A signal is composed by a run that has posted nothing, and has as many tries as there are.
LEMMA ComposeKeepsPosts ==
  ASSUME PostInv, InsightInv', NEW r \in Runs, ComposeSignal(r)
  PROVE  PostInv'
<1>1. DOMAIN run = Runs /\ DOMAIN run[r] = RunFields
  BY DEF PostInv, InsightInv
<1>2. \E card :
        run' = [run EXCEPT ![r] = [@ EXCEPT !.pc = "publishing", !.post = "trying", !.card = card]]
  BY DEF ComposeSignal
<1>3. /\ \A s \in Runs : s # r => run'[s] = run[s]
      /\ run'[r].post = "trying" /\ run'[r].tries = run[r].tries /\ run'[r].pc = "publishing"
  BY <1>1, <1>2 DEF RunFields
<1>4. UNCHANGED <<scene, crashes, received, lost, job, left>> /\ run[r].pc = "deciding"
  BY DEF ComposeSignal, outside, memory, At
<1>5. run[r].post = "none" /\ run[r].tries = 0
  BY <1>4 DEF PostInv, Posting
<1>6. \A s \in Runs : Posting(s)'
  BY <1>3, <1>4, <1>5 DEF PostInv, Posting
<1>7. \A s \in Runs : Counted(s)'
  BY <1>3, <1>4, <1>5 DEF PostInv, Counted
<1>8. \A s \in Runs : Unbegun(s)'
  BY <1>3, <1>4 DEF PostInv, Unbegun, At
<1> QED
  BY <1>4, <1>6, <1>7, <1>8 DEF PostInv

\* A post is one try: what is received more was tried, and what is received beside one answer
\* was lost.
LEMMA PostKeepsPosts ==
  ASSUME PostInv, InsightInv', NEW r \in Runs, PostResult(r)
  PROVE  PostInv'
<1>1. /\ DOMAIN run = Runs /\ DOMAIN run[r] = RunFields
      /\ DOMAIN received = Runs /\ DOMAIN lost = Runs
      /\ scene.attempts \in Nat /\ crashes \in Nat
      /\ Posting(r) /\ Counted(r)
  BY DEF PostInv, InsightInv
<1>2. PICK answer \in {"ok", "refused", "lost"} :
        /\ run' = [run EXCEPT ![r] = Tried(r, answer)]
        /\ received' = IF answer = "refused" THEN received ELSE [received EXCEPT ![r] = @ + 1]
        /\ lost' = IF answer = "lost" THEN [lost EXCEPT ![r] = @ + 1] ELSE lost
  BY DEF PostResult
<1>3. UNCHANGED <<scene, crashes, job, left>> /\ run[r].pc = "publishing" /\ run[r].post = "trying"
  BY DEF PostResult, outside, memory, At
<1>4. /\ run'[r].tries = run[r].tries + 1 /\ run'[r].pc = "publishing"
      /\ run'[r].post = IF answer = "ok" THEN "ok" ELSE PostAfterFailure(r)
  <2>1. run'[r] = Tried(r, answer)
    BY <1>1, <1>2
  <2>2. /\ Tried(r, answer).tries = run[r].tries + 1 /\ Tried(r, answer).pc = run[r].pc
        /\ Tried(r, answer).post = IF answer = "ok" THEN "ok" ELSE PostAfterFailure(r)
    BY <1>1 DEF RunFields, Tried
  <2> QED
    BY <1>3, <2>1, <2>2
<1>5. /\ received'[r] = IF answer = "refused" THEN received[r] ELSE received[r] + 1
      /\ lost'[r] = IF answer = "lost" THEN lost[r] + 1 ELSE lost[r]
      /\ DOMAIN received' = Runs /\ DOMAIN lost' = Runs
  BY <1>1, <1>2
<1>6. \A s \in Runs : s # r => run'[s] = run[s] /\ received'[s] = received[s] /\ lost'[s] = lost[s]
  BY <1>1, <1>2
<1>7. Posting(r)'
  BY <1>1, <1>3, <1>4 DEF Posting, PostAfterFailure
<1>8. Counted(r)'
  <2> DEFINE former == scene.attempts * crashes
  <2>1. former \in Nat /\ former' = former
    BY <1>1, <1>3
  <2> HIDE DEF former
  <2>2. received[r] <= former + run[r].tries
    BY <1>1 DEF Counted, former
  <2>3. received'[r] <= former + run'[r].tries
    BY <1>1, <1>4, <1>5, <2>1, <2>2 DEF Counted, Posting
  <2>4. received'[r] <= lost'[r] + crashes + (IF run'[r].post = "ok" THEN 1 ELSE 0)
    BY <1>1, <1>3, <1>4, <1>5 DEF Counted, PostAfterFailure
  <2>5. received'[r] \in Nat /\ lost'[r] \in Nat /\ (run'[r].post = "ok" => received'[r] > 0)
    BY <1>1, <1>4, <1>5 DEF Counted, PostAfterFailure
  <2> QED
    BY <1>3, <2>1, <2>3, <2>4, <2>5 DEF Counted, former
<1>9. \A s \in Runs : Posting(s)' /\ Counted(s)'
  BY <1>3, <1>6, <1>7, <1>8 DEF PostInv, Posting, Counted
<1>10. \A s \in Runs : Unbegun(s)'
  BY <1>3, <1>4, <1>6 DEF PostInv, Unbegun, At
<1> QED
  BY <1>3, <1>5, <1>9, <1>10 DEF PostInv

\* Cards, listings and time post nothing.
LEMMA OutsideKeepsPosts ==
  ASSUME PostInv, InsightInv',
         SendCard \/ Tick \/ UNCHANGED vars \/ \E a \in Accounts : RefreshSymbols(a) \/ LogIn(a)
  PROVE  PostInv'
<1>1. UNCHANGED <<scene, crashes, received, lost, job, left>>
  BY DEF SendCard, Tick, vars, RefreshSymbols, LogIn, memory, outside
<1>2. \A r \in Runs : /\ run'[r].pc = run[r].pc
                      /\ run'[r].post = run[r].post /\ run'[r].tries = run[r].tries
  <2>1. CASE UNCHANGED run
    BY <2>1
  <2>2. CASE SendCard
    <3> DEFINE h == Head(cards)
    <3>1. DOMAIN run = Runs /\ \A r \in Runs : DOMAIN run[r] = RunFields
      BY DEF PostInv, InsightInv
    <3>2. \/ run' = [run EXCEPT ![h] = [@ EXCEPT !.card = "sent", !.cardTries = run[h].cardTries + 1]]
          \/ run' = [run EXCEPT ![h] = [@ EXCEPT !.cardTries = run[h].cardTries + 1]]
          \/ run' = [run EXCEPT ![h] = [@ EXCEPT !.card = "failed", !.cardTries = run[h].cardTries + 1]]
      BY <2>2 DEF SendCard
    <3> HIDE DEF h
    <3>3. \A r \in Runs : r # h => run'[r] = run[r]
      BY <3>1, <3>2
    <3>4. ASSUME h \in Runs
          PROVE  run'[h].pc = run[h].pc /\ run'[h].post = run[h].post /\ run'[h].tries = run[h].tries
      <4>1. DOMAIN run[h] = RunFields
        BY <3>1, <3>4
      <4> QED
        BY <3>1, <3>2, <3>4, <4>1 DEF RunFields
    <3> QED
      BY <3>3, <3>4
  <2> QED
    BY <2>1, <2>2 DEF Tick, vars, RefreshSymbols, LogIn
<1> QED
  BY <1>1, <1>2, WorkKeepsPosts DEF PostsStay, At

\* A restart begins a life: what the last one tried counts among the former ones, and a result
\* that was answered is the one that a restart may add.
LEMMA CrashKeepsPosts ==
  ASSUME PostInv, InsightInv', Crash
  PROVE  PostInv'
<1>1. /\ run' = [r \in Runs |-> IF job[r[1]] = "ended" THEN run[r] ELSE Idle]
      /\ crashes' = crashes + 1 /\ left' = [j \in Jobs |-> {}]
      /\ UNCHANGED <<scene, received, lost>>
  BY DEF Crash
<1>2. /\ scene.attempts \in Nat \ {0} /\ crashes \in Nat /\ DOMAIN run = Runs
      /\ job \in [Jobs -> {"off", "due", "asking", "running", "ended"}]
  BY DEF PostInv, InsightInv, TriggerInv
<1>3. \A r \in Runs : r[1] \in Jobs
  BY RunsArePairs
<1>4. \A r \in Runs : Posting(r)'
  BY <1>1, <1>2 DEF PostInv, Posting, Idle
<1>5. \A r \in Runs : Counted(r)'
  <2> SUFFICES ASSUME NEW r \in Runs PROVE Counted(r)'
    OBVIOUS
  <2>1. Posting(r) /\ Counted(r)
    BY DEF PostInv
  <2>2. scene.attempts * crashes' = scene.attempts * crashes + scene.attempts
    BY <1>1, <1>2
  <2>3. run'[r] = run[r] \/ run'[r] = Idle
    BY <1>1
  <2> DEFINE former == scene.attempts * crashes
  <2>4. former \in Nat /\ former' = former + scene.attempts
    BY <1>1, <1>2, <2>2
  <2>5. received[r] <= former + run[r].tries
    BY <2>1 DEF Counted
  <2> HIDE DEF former
  <2>6. received'[r] <= former' + run'[r].tries
    BY <1>1, <1>2, <2>1, <2>3, <2>4, <2>5 DEF Counted, Posting, Idle
  <2>7. received'[r] <= lost'[r] + crashes' + (IF run'[r].post = "ok" THEN 1 ELSE 0)
    BY <1>1, <1>2, <2>1, <2>3 DEF Counted, Idle
  <2>8. received'[r] \in Nat /\ lost'[r] \in Nat /\ (run'[r].post = "ok" => received'[r] > 0)
    BY <1>1, <2>1, <2>3 DEF Counted, Idle
  <2> QED
    BY <2>6, <2>7, <2>8 DEF Counted, former
<1>6. \A r \in Runs : Unbegun(r)'
  <2> SUFFICES ASSUME NEW r \in Runs PROVE Unbegun(r)'
    OBVIOUS
  <2>1. job'[r[1]] = IF job[r[1]] \in {"asking", "running"}
                       THEN IF KindOf[r[1]] = "trigger" THEN "ended" ELSE "due"
                       ELSE job[r[1]]
    BY <1>3 DEF Crash
  <2>2. CASE job[r[1]] = "ended"
    BY <2>1, <2>2 DEF Unbegun
  <2>3. CASE job[r[1]] # "ended"
    BY <1>1, <2>3 DEF Unbegun, At, Idle
  <2> QED
    BY <2>2, <2>3
<1> QED
  BY <1>1, <1>2, <1>4, <1>5, <1>6 DEF PostInv

\* A result said to be posted was received, and was received again only because an answer was
\* lost or the agent restarted; no run is posted more often than there are tries in its lives.
THEOREM ResultsArePostedOnce == Spec => []PostedOnceUnlessLost
<1>1. Init => PostInv
  <2> SUFFICES ASSUME Init PROVE PostInv
    OBVIOUS
  <2>1. InsightInv
    BY InitInsight
  <2>2. scene.attempts \in Nat \ {0} /\ crashes = 0
    BY AgentAssumption DEF AgentAssumption, Init
  <2>3. \A r \in Runs : run[r] = Idle /\ received[r] = 0 /\ lost[r] = 0
    BY DEF Init
  <2>4. \A r \in Runs : Posting(r) /\ Counted(r)
    BY <2>2, <2>3 DEF Posting, Counted, Idle
  <2>5. \A r \in Runs : Unbegun(r)
    BY <2>3 DEF Unbegun, At, Idle
  <2> QED
    BY <2>1, <2>2, <2>4, <2>5 DEF Init, PostInv
<1>2. PostInv /\ [Next]_vars => PostInv'
  <2> SUFFICES ASSUME PostInv, [Next]_vars PROVE PostInv'
    OBVIOUS
  <2>1. InsightInv'
    BY InsightKept DEF PostInv
  <2>2. CASE \E j \in Jobs : JobStep(j) \/ AskTrigger(j)
    BY <2>1, <2>2, JobStepKeepsPosts
  <2>3. CASE \E r \in Runs : RunStep(r)
    BY <2>1, <2>3, MovePostsNothing, BuiltPostsNothing, ComposeKeepsPosts, PostKeepsPosts DEF RunStep
  <2>4. CASE Crash
    BY <2>1, <2>4, CrashKeepsPosts
  <2>5. CASE SendCard \/ Tick \/ UNCHANGED vars \/ \E a \in Accounts : RefreshSymbols(a) \/ LogIn(a)
    BY <2>1, <2>5, OutsideKeepsPosts
  <2> QED
    BY <2>2, <2>3, <2>4, <2>5 DEF Next
<1>3. PostInv => PostedOnceUnlessLost
  <2> SUFFICES ASSUME PostInv, NEW r \in Runs
               PROVE  /\ run[r].post = "ok" => received[r] > 0
                      /\ received[r] <= 1 + lost[r] + crashes
                      /\ received[r] <= scene.attempts * (1 + crashes)
    BY DEF PostedOnceUnlessLost
  <2>1. Posting(r) /\ Counted(r) /\ scene.attempts \in Nat /\ crashes \in Nat
    BY DEF PostInv
  <2> DEFINE former == scene.attempts * crashes
  <2>2. former \in Nat /\ scene.attempts * (1 + crashes) = former + scene.attempts
    BY <2>1
  <2>3. received[r] <= former + run[r].tries
    BY <2>1 DEF Counted
  <2> HIDE DEF former
  <2>4. received[r] <= scene.attempts * (1 + crashes)
    BY <2>1, <2>2, <2>3 DEF Counted, Posting
  <2> QED
    BY <2>1, <2>4 DEF Counted
<1> QED
  BY <1>1, <1>2, <1>3, PTL DEF Spec

=============================================================================
