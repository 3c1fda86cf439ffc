--------------------------------- MODULE Agent ---------------------------------
(***************************************************************************)
(* The agent as a process: the analysis job, the position poll and the     *)
(* triggers start runs of one workflow, each for an account and the one    *)
(* symbol of the model.  A run fetches the payloads, resolves whose bars   *)
(* it reads, asks for the insight of the market (made once and shared, or  *)
(* its own), decides for the account and publishes: the result is posted   *)
(* to the server, with retries, and a card goes to the one queue of cards. *)
(* What a signal says is the matter of AgentSignals.                       *)
(*                                                                         *)
(* A fetch stands for all of its retries, which change nothing; those of a *)
(* post are modelled one by one, since the server acts on each.            *)
(***************************************************************************)
EXTENDS Naturals, Sequences, FiniteSets

CONSTANTS
  Jobs,          \* jobs of the queues and trigger requests
  KindOf,        \* [Jobs -> {"analysis", "poll", "trigger"}]
  TargetOf,      \* the account of a trigger
  Source,        \* the account whose bars are shared (marketBarAccount)
  Scenes,        \* what is configured and happens, one record for each, see scene
  Concurrency,   \* of the analysis queue
  Window,        \* IDEMPOTENCY_WINDOW_MS
  MaxRecent,     \* triggers remembered before the old ones are dropped
  Ttl            \* marketInsightTtlMs

VARIABLES
  scene,     \* order: the configured accounts; first: marketFirstEnabled; due: the jobs that
             \* come up; unlisted: accounts the server does not know at first; attempts: of a
             \* request and of a card; bounds: time (of the clock) and crashes
  clock, crashes,
  job,       \* where each job is
  left,      \* the accounts a poll has still to go through
  active,    \* accounts whose list in use has the symbol (accountsConfig)
  listed,    \* accounts for which the server lists the symbol
  symbols,   \* symbolsCache: "none", "yes" or "no"
  recent,    \* recentTriggers, 0 for none
  run,       \* the runs of the workflow
  until,     \* when the cached insight expires, 0 for none
  flight,    \* the run that builds the shared insight
  cards,     \* feishuQueue
  received,  \* history: results of a run the server has received
  lost,      \* history: of these, the ones whose answer was lost
  started    \* history: when a trigger was let through in this life

vars == <<scene, clock, crashes, job, left, active, listed, symbols, recent, run, until, flight, cards,
          received, lost, started>>
memory == <<left, active, symbols, recent, started>>
outside == <<scene, crashes, listed>>

Accounts == {Source} \cup UNION {{c.order[i] : i \in DOMAIN c.order} : c \in Scenes}

\* A trigger names an account of the model; windows are whole; a request is made at least once.
ASSUME AgentAssumption ==
  /\ Window \in Nat /\ Ttl \in Nat
  /\ \A j \in Jobs : KindOf[j] = "trigger" => TargetOf[j] \in Accounts
  /\ \A c \in Scenes : c.attempts \in Nat \ {0}

Configured == {scene.order[i] : i \in DOMAIN scene.order}
Runs == Jobs \X Accounts
NoRun == <<>>
Idle == [pc |-> "idle", shared |-> FALSE, end |-> "none", tries |-> 0, post |-> "none",
         card |-> "none", cardTries |-> 0, saved |-> FALSE]

Init ==
  /\ clock = 1 /\ crashes = 0
  /\ scene \in Scenes
  /\ job = [j \in Jobs |-> IF j \in scene.due THEN "due" ELSE "off"]
  /\ left = [j \in Jobs |-> {}]
  /\ active = Configured /\ listed = Accounts \ scene.unlisted
  /\ symbols = [a \in Accounts |-> "none"]
  /\ recent = [a \in Accounts |-> 0]
  /\ run = [r \in Runs |-> Idle]
  /\ until = 0 /\ flight = NoRun /\ cards = <<>>
  /\ received = [r \in Runs |-> 0] /\ lost = [r \in Runs |-> 0]
  /\ started = [j \in Jobs |-> 0]

At(r, pc) == run[r].pc = pc
Ended(r) == At(r, "ended")
Begun(runs) == [r \in Runs |-> IF r \in runs THEN [Idle EXCEPT !.pc = "fetching"] ELSE run[r]]
Running(kind) == {j \in Jobs : KindOf[j] = kind /\ job[j] = "running"}

-----------------------------------------------------------------------------
\* The queues. The analysis takes every account at once and is over when all are; the poll
\* takes one after the other.

BeginAnalysis(j) ==
  /\ KindOf[j] = "analysis" /\ job[j] = "due"
  /\ Cardinality(Running("analysis")) < Concurrency
  /\ job' = [job EXCEPT ![j] = "running"]
  /\ run' = Begun({j} \X active)
  /\ UNCHANGED <<clock, memory, outside, until, flight, cards, received, lost>>

EndAnalysis(j) ==
  /\ KindOf[j] = "analysis" /\ job[j] = "running"
  /\ \A a \in Accounts : run[<<j, a>>].pc \in {"idle", "ended"}
  /\ job' = [job EXCEPT ![j] = "ended"]
  /\ UNCHANGED <<clock, memory, outside, run, until, flight, cards, received, lost>>

\* The account of a set that the configuration names first.
Foremost(i, accounts) ==
  /\ i \in DOMAIN scene.order /\ scene.order[i] \in accounts
  /\ \A k \in DOMAIN scene.order : k < i => scene.order[k] \notin accounts

BeginPoll(j) ==
  /\ KindOf[j] = "poll" /\ job[j] = "due" /\ Running("poll") = {}
  /\ job' = [job EXCEPT ![j] = "running"]
  /\ left' = [left EXCEPT ![j] = Configured \cap active]
  /\ UNCHANGED <<clock, active, symbols, recent, started, outside, run, until, flight, cards,
                 received, lost>>

PollNext(j) ==
  /\ KindOf[j] = "poll" /\ job[j] = "running"
  /\ \A a \in Accounts : run[<<j, a>>].pc \in {"idle", "ended"}
  /\ \/ left[j] = {} /\ job' = [job EXCEPT ![j] = "ended"] /\ UNCHANGED <<left, run>>
     \/ \E i \in DOMAIN scene.order :
          /\ Foremost(i, left[j])
          /\ left' = [left EXCEPT ![j] = @ \ {scene.order[i]}]
          /\ run' = Begun({<<j, scene.order[i]>>})
          /\ UNCHANGED job
  /\ UNCHANGED <<clock, active, symbols, recent, started, outside, until, flight, cards, received, lost>>

\* refreshAccountSymbols: what the server lists; no symbols, or no answer, and the configured
\* ones are used.
RefreshSymbols(a) ==
  /\ a \in Configured
  /\ \/ active' = active \cup {a}
     \/ a \notin listed /\ active' = active \ {a}
  /\ UNCHANGED <<clock, job, left, symbols, recent, started, outside, run, until, flight, cards,
                 received, lost>>

-----------------------------------------------------------------------------
\* The symbols of an account: kept once they were fetched, none when that fails.
Listings(a) ==
  IF symbols[a] # "none" THEN {symbols[a]} ELSE {IF a \in listed THEN "yes" ELSE "no", "none"}

\* A trigger waits for the symbols of its account. Then, in one turn, it looks for a recent
\* one and takes the place of it. Mistake: it looks only before it waits.
Recently(a) == recent[a] # 0 /\ clock - recent[a] < Window
Remembered(a) ==
  LET now == [recent EXCEPT ![a] = clock]
      kept == {b \in Accounts : now[b] # 0}
  IN [b \in Accounts |-> IF Cardinality(kept) > MaxRecent /\ clock - now[b] > 2 * Window THEN 0 ELSE now[b]]

AskTrigger(j) ==
  /\ KindOf[j] = "trigger" /\ job[j] = "due"
  /\ job' = [job EXCEPT ![j] = "asking"]
  /\ UNCHANGED <<clock, memory, outside, run, until, flight, cards, received, lost>>

Unasked(j, listing) == listing = "yes"
Allowed(j, listing) == listing = "yes" /\ ~Recently(TargetOf[j])

AnswerTrigger(j) ==
  /\ job[j] = "asking"
  /\ \E listing \in Listings(TargetOf[j]) :
       /\ symbols' = [symbols EXCEPT ![TargetOf[j]] = listing]
       /\ IF Allowed(j, listing)
            THEN /\ job' = [job EXCEPT ![j] = "running"]
                 /\ recent' = Remembered(TargetOf[j])
                 /\ started' = [started EXCEPT ![j] = clock]
                 /\ run' = Begun({<<j, TargetOf[j]>>})
            ELSE /\ job' = [job EXCEPT ![j] = "ended"]
                 /\ UNCHANGED <<recent, started, run>>
  /\ UNCHANGED <<clock, left, active, outside, until, flight, cards, received, lost>>

EndTrigger(j) ==
  /\ KindOf[j] = "trigger" /\ job[j] = "running"
  /\ Ended(<<j, TargetOf[j]>>)
  /\ job' = [job EXCEPT ![j] = "ended"]
  /\ UNCHANGED <<clock, memory, outside, run, until, flight, cards, received, lost>>

-----------------------------------------------------------------------------
\* The workflow of a run.

Moved(r, pc) == [run EXCEPT ![r] = [@ EXCEPT !.pc = pc]]
Closed(r, end) == [run EXCEPT ![r] = [@ EXCEPT !.pc = "ended", !.end = end]]

\* Without a payload the run ends in error, with a closed market it is skipped unless forced.
FetchData(r) ==
  /\ At(r, "fetching")
  /\ \/ run' = Closed(r, "error")
     \/ run' = Closed(r, "skipped")
     \/ run' = Moved(r, IF scene.first THEN "viewing" ELSE "asking")
  /\ UNCHANGED <<clock, job, memory, outside, until, flight, cards, received, lost>>

\* barSourceFor: the bars of the source account if it lists the symbol and answers, else the
\* account's own; then the account's own symbols.
ViewMarket(r) ==
  /\ At(r, "viewing")
  /\ \E source \in IF r[2] = Source THEN {"none"} ELSE Listings(Source), own \in Listings(r[2]) :
     \E answered \in BOOLEAN :
       /\ symbols' = [a \in Accounts |-> IF a = r[2] THEN own
                                          ELSE IF a = Source THEN source ELSE symbols[a]]
       /\ run' = [run EXCEPT ![r] = [@ EXCEPT !.pc = "asking", !.shared = source = "yes" /\ answered]]
  /\ UNCHANGED <<clock, job, left, active, recent, started, outside, until, flight, cards, received, lost>>

\* getOrBuild: a cached insight, else the one being built, else a new one. Mistake: what is
\* being built is not looked for.
BuildAgain == until <= clock
MayBuild == until <= clock /\ flight = NoRun
AskInsight(r) ==
  /\ At(r, "asking")
  /\ IF ~run[r].shared THEN run' = Moved(r, "building") /\ UNCHANGED flight
     ELSE IF until > clock THEN run' = Moved(r, "deciding") /\ UNCHANGED flight
     ELSE IF MayBuild THEN run' = Moved(r, "building") /\ flight' = r
     ELSE run' = Moved(r, "waiting") /\ UNCHANGED flight
  /\ UNCHANGED <<clock, job, memory, outside, until, cards, received, lost>>

\* The builder and the ones that wait for it. An answer of the model that could not be used
\* is an insight, too; a build that throws leaves nothing.
Audience(r) == {r} \cup {s \in Runs : run[r].shared /\ At(s, "waiting")}

EndBuild(r) ==
  /\ At(r, "building")
  /\ run' = [s \in Runs |-> IF s \in Audience(r) THEN [run[s] EXCEPT !.pc = "deciding"] ELSE run[s]]
  /\ until' = IF run[r].shared THEN clock + Ttl ELSE until
  /\ flight' = IF run[r].shared THEN NoRun ELSE flight
  /\ UNCHANGED <<clock, job, memory, outside, cards, received, lost>>

FailBuild(r) ==
  /\ At(r, "building")
  /\ run' = [s \in Runs |-> IF s \in Audience(r) THEN [run[s] EXCEPT !.pc = "ended", !.end = "unsigned"]
                            ELSE run[s]]
  /\ flight' = IF run[r].shared THEN NoRun ELSE flight
  /\ UNCHANGED <<clock, job, memory, outside, until, cards, received, lost>>

\* The account's decision and the signal; the poll sends no card.
ComposeSignal(r) ==
  /\ At(r, "deciding")
  /\ LET carded == KindOf[r[1]] # "poll" IN
       /\ run' = [run EXCEPT ![r] = [@ EXCEPT !.pc = "publishing", !.post = "trying",
                                              !.card = IF carded THEN "queued" ELSE "none"]]
       /\ cards' = IF carded THEN Append(cards, r) ELSE cards
  /\ UNCHANGED <<clock, job, memory, outside, until, flight, received, lost>>

-----------------------------------------------------------------------------
\* Publishing.

\* A post is answered, or refused, or taken and its answer lost; an attempt that was not
\* answered is made again until there were as many as there may be. Mistake: the last failure
\* is swallowed.
Swallowed(r) == IF run[r].tries + 1 < scene.attempts THEN "trying" ELSE "ok"
PostAfterFailure(r) == IF run[r].tries + 1 < scene.attempts THEN "trying" ELSE "failed"

Tried(r, answer) ==
  [run[r] EXCEPT !.tries = @ + 1, !.post = IF answer = "ok" THEN "ok" ELSE PostAfterFailure(r)]

PostResult(r) ==
  /\ At(r, "publishing") /\ run[r].post = "trying"
  /\ \E answer \in {"ok", "refused", "lost"} :
       /\ run' = [run EXCEPT ![r] = Tried(r, answer)]
       /\ received' = IF answer = "refused" THEN received ELSE [received EXCEPT ![r] = @ + 1]
       /\ lost' = IF answer = "lost" THEN [lost EXCEPT ![r] = @ + 1] ELSE lost
  /\ UNCHANGED <<clock, job, memory, outside, until, flight, cards>>

\* One card at a time: sent, or put off while its sender is limited, or given up; the next
\* one has its turn whatever came of it.
SendCard ==
  /\ cards # <<>>
  /\ LET r == Head(cards)
         tries == run[r].cardTries + 1
     IN \/ /\ run' = [run EXCEPT ![r] = [@ EXCEPT !.card = "sent", !.cardTries = tries]]
           /\ cards' = Tail(cards)
        \/ /\ tries < scene.attempts
           /\ run' = [run EXCEPT ![r] = [@ EXCEPT !.cardTries = tries]]
           /\ UNCHANGED cards
        \/ /\ run' = [run EXCEPT ![r] = [@ EXCEPT !.card = "failed", !.cardTries = tries]]
           /\ cards' = Tail(cards)
  /\ UNCHANGED <<clock, job, memory, outside, until, flight, received, lost>>

\* Both settled. The analysis stores its signal, published or not, unless that fails.
\* Mistake: a card that failed is waited for.
Delivered(r) == run[r].post # "trying" /\ run[r].card \in {"none", "sent"}
Settled(r) == run[r].post # "trying" /\ run[r].card # "queued"

EndPublish(r) ==
  /\ At(r, "publishing")
  /\ Settled(r)
  /\ \E saved \in IF KindOf[r[1]] = "analysis" THEN BOOLEAN ELSE {FALSE} :
       run' = [run EXCEPT ![r] =
                 [@ EXCEPT !.pc = "ended", !.saved = saved,
                           !.end = IF run[r].post = "ok" \/ run[r].card = "sent" THEN "published" ELSE "unpublished"]]
  /\ UNCHANGED <<clock, job, memory, outside, until, flight, cards, received, lost>>

-----------------------------------------------------------------------------
\* A terminal logs in; the agent is restarted and its queues deliver again what was running.

LogIn(a) ==
  /\ a \notin listed
  /\ listed' = listed \cup {a}
  /\ UNCHANGED <<scene, clock, crashes, job, memory, run, until, flight, cards, received, lost>>

Crash ==
  /\ crashes < scene.crashes
  /\ crashes' = crashes + 1
  /\ job' = [j \in Jobs |-> IF job[j] \in {"asking", "running"}
                              THEN IF KindOf[j] = "trigger" THEN "ended" ELSE "due"
                              ELSE job[j]]
  /\ run' = [r \in Runs |-> IF job[r[1]] = "ended" THEN run[r] ELSE Idle]
  /\ left' = [j \in Jobs |-> {}]
  /\ active' = Configured
  /\ symbols' = [a \in Accounts |-> "none"]
  /\ recent' = [a \in Accounts |-> 0]
  /\ started' = [j \in Jobs |-> 0]
  /\ until' = 0 /\ flight' = NoRun /\ cards' = <<>>
  /\ UNCHANGED <<scene, clock, listed, received, lost>>

Tick ==
  /\ clock < scene.time
  /\ clock' = clock + 1
  /\ UNCHANGED <<job, memory, outside, run, until, flight, cards, received, lost>>

JobStep(j) ==
  BeginAnalysis(j) \/ EndAnalysis(j) \/ BeginPoll(j) \/ PollNext(j) \/ AnswerTrigger(j) \/ EndTrigger(j)
RunStep(r) ==
  \/ FetchData(r) \/ ViewMarket(r) \/ AskInsight(r) \/ EndBuild(r) \/ FailBuild(r)
  \/ ComposeSignal(r) \/ PostResult(r) \/ EndPublish(r)

Next ==
  \/ \E j \in Jobs : JobStep(j) \/ AskTrigger(j)
  \/ \E r \in Runs : RunStep(r)
  \/ SendCard
  \/ \E a \in Accounts : RefreshSymbols(a) \/ LogIn(a)
  \/ Crash \/ Tick

Spec == Init /\ [][Next]_vars

Work == (\E j \in Jobs : JobStep(j)) \/ (\E r \in Runs : RunStep(r)) \/ SendCard

\* Every request has a timeout and the event loop runs something that is ready.
FairSpec == Spec /\ WF_vars(Work)

-----------------------------------------------------------------------------
\* Two triggers of an account are let through at least the window apart, however their
\* requests for its symbols interleave (trigger.controller.ts:47-83).
TriggersAreSpaced ==
  \A i, j \in Jobs :
    i # j /\ TargetOf[i] = TargetOf[j] /\ started[i] # 0 /\ started[i] <= started[j] =>
      started[j] - started[i] >= Window

\* While a shared insight is being built there is one builder and no insight that could be
\* used instead, and whoever waits has a builder (market-insight-cache.service.ts:33-62).
OneInsightAtATime ==
  LET builders == {r \in Runs : At(r, "building") /\ run[r].shared} IN
    /\ Cardinality(builders) <= 1
    /\ builders # {} => until <= clock
    /\ (\E r \in Runs : At(r, "waiting")) => builders # {}

\* A result said to be posted was received. It was received again only because an answer
\* was lost or the agent restarted in the middle of the job (goldbot-api.ts:32-83).
PostedOnceUnlessLost ==
  \A r \in Runs :
    /\ run[r].post = "ok" => received[r] > 0
    /\ received[r] <= 1 + lost[r] + crashes
    /\ received[r] <= scene.attempts * (1 + crashes)

\* A job that was started ends, whatever fails in its runs.
JobsEnd == \A j \in Jobs : job[j] = "running" ~> job[j] = "ended"
=============================================================================
