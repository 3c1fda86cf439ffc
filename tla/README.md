# Gold Bolt: a verification development

TLA+ models of Gold Bolt, the server (`apps/app-server`), analysis agent
(`apps/app-agent`) and MetaTrader terminals (`apps/app-mt`) of an automated gold and
currency trader, with TLC runs and TLAPS proofs. Paths are relative to the repository.
`PROJECT.json` is the index: components, runs, what each definition models, what mutation
of it each property notices, findings, hazards, theorems.

Run a check with `tlc -config <Run>.cfg <MCModule>.tla`, a proof with `tlapm <Module>.tla`.

## 1. The system

```
 MT4/MT5 terminal (EA)                app-server                         app-agent
 one per account            HTTP                                HTTP
 heartbeat/tick/bars/    -------->  routes/ea  -> store       <------  scheduled and
 positions                           |   ^                             triggered LLM
 poll (1 s .. 3 s)       <--------   |   | runtime_commands            workflow
 order_result            -------->   v   |
                          scheduler, signals, positionmgr  --+
                          risk gate, ai-approve gate,      --+--> command lifecycle
                          arbitration                      --+
                          admin routes (operator)
```

| Component | State | Operations | Hard behaviour | Must hold |
|---|---|---|---|---|
| Command lifecycle (`services/command-lifecycle`) | rows of the store | acceptCandidate, reconcile | several store calls without a transaction; a crash between them; the mode changed in between; late and repeated results | a command is executed at most once; a settled row is true and final; nothing is issued that the mode did not allow |
| Store (`packages/persistence`: Postgres, SQLite, memory) | commands, modes, events, snapshots, position states, tokens, pending signals | queries | Postgres yields between queries, SQLite does not | the same promises with both |
| Terminals (`app-mt`) | rest of a reply, orders at the broker | register, report, poll, execute in order, report each result | refusals, half fills, restarts, lost requests; split orders; shared stops | no unprotected position goes unreported; limits and closes stay within what was asked |
| AI results (`app.ts`, `services/ai-approve`) | cooldown per symbol in memory | intake of a body, gate, build command | a body of several plans and verdicts; check-then-act on the daily limit, pending order and cooldown; restart | limits hold; what is queued was judged, is protected and is worth its risk |
| Risk gate (`trading-core/riskgate`) | none | market filter, sizing of a plan | limits combined by a minimum; two filters written apart | an accepted plan keeps every limit |
| Arbitration (`services/arbitration`) | `pending_signals` | submitSignal, verdict, expiry run | id recovered by time stamp; verdict against deadline | a submission acts on its own verdict and ends |
| Account data (`routes/ea.ts`, `app.ts`) | latest heartbeat, tick, bars and positions of an account | post, payload for the agent, input of the signals' filter | two clocks; values posted by old terminals; two readers that judge alike | a market that is shown as open is heard of; both readers see one account |
| Scheduler, analysis (`services/scheduler`, `services/analysis`) | cooldown of AI stops, daily baseline, breakout looks | enqueueAnalysis, enqueuePositionReview | requests not awaited, overlapping, restart | the daily loss holds; stops keep their distance; no request ends the process |
| Position manager (`trading-core/positionmgr`) | position states | evaluatePositionManagerCommands | seven rules change the same stops and flags in turn | stops only tighten, a target is taken once, flags agree with the broker |
| Signal engine (`trading-core/replay`, `smc`, `engine`) | none but the waiting breakout | proposals of five strategies, eleven filters | later filters replace what earlier ones judged | a published signal is protected and pays |
| Agent (`app-agent`) | job queue, triggers, shared insight, card queue | cron and triggered workflows, publishing | duplicate triggers, one insight built while others ask, lost answers, redelivery | triggers are spaced, one builder, every job ends, a plan fits the account it is for |
| Language model (`tools/llm-client`, analysts) | stream buffer | read, repair, convert, compose | text cut anywhere, malformed answers, tool calls | cuts do not matter; what is approved is sound |
| Tokens, indicator alerts, event stream, metrics, notifications, shadow records, web, scripts | maps in memory, append-only rows | - | - | not modelled, section 6 |

## 2. The modules

| Module | Models | Kind |
|---|---|---|
| `CommandPipeline` | what the design promises of a command's status | abstract specification |
| `CommandLifecycle` | lifecycle service, command queries of both stores, poll and order_result, terminals | state machine; implements `CommandPipeline` |
| `AIApproveGate` | order of the gate's checks, cooldown, acceptance, polls, restarts | state machine |
| `Arbitration` | submissions, verdicts, expiry runs, both stores | state machine |
| `PositionReview` | the loop of terminal and server that manages positions | state machine over `PositionRules` |
| `LiveSignals` | analyses and reviews of overlapping requests, AI stops, loss guard, breakout looks | state machine |
| `Terminal` | both trading programs against a broker that refuses | state machine over `TerminalVolumes` |
| `Agent` | queues, triggers, runs of the workflow, shared insight, publishing | state machine |
| `AIApproveRules`, `PlanIntake` | price rules and command builder; intake of an AI result | decisions |
| `RiskGate` | market filter and sizing | decisions |
| `AccountView` | posts of a terminal, what is stored of them and shown of the account | decisions |
| `StrategyConfig`, `MarketStructure`, `Signals` | parameters, structure of bars, the technical signal | decisions |
| `PositionRules` | the position manager's rules | decisions |
| `AgentSignals`, `AgentStream` | from the model's answer to a plan; reading the stream | decisions |
| `Decisions` | one question put to one of the decisions above | composition |
| `CommandLifecycleProofs`, `AIApproveGateProofs`, `ArbitrationProofs`, `TerminalProofs`, `AgentProofs`, `LiveSignalsProofs`, `DecisionsProofs`, `TradingProofs` | theorems | TLAPS |
| `MC...` | constant values for TLC | |

Operators that a comment calls "Mistake" are plausible bugs of the definition that follows
them. No specification uses them: each shows, put in the place of that definition, that a
property notices it.

### Command lifecycle

One action per store call. `SaveCandidate`, `ReadMode`, `Promote` or `Demote`,
`LogEnqueued` are `acceptCandidate` (and the AI risk alert, which skips `ReadMode`);
`SelectQueued`, `StampPoll`, `MarkRow`, `LogRow`, `AnswerPoll` are `pollCommands` and the
route around it; `Reconcile`, `LogResult` are `reconcileCommandResult`. `BeginPoll` and
`ExecuteCommand` are the terminal's timer; `AbandonPoll`, `TerminalRestart`, `ServerCrash`
and the `copies` of a report are the faults.

`Turn` is the difference of the stores. The SQLite store's functions are `async` but never
leave the event loop: their awaits resolve by microtasks, so a handler runs to its end
before another request starts. Against Postgres every query yields.

Choices: `Promote` merges the store's read of the status with its update; nothing else
writes a draft (`CandInv`), so no interleaving is lost. One terminal per account, as the
deployment has. The timeline is a set. The Postgres store's timeline writes `failed` for a
reconciled row that another poll has meanwhile set back to delivered; this is why
`TimelineIsTrue` is a property of the SQLite run.

### AI results

`PlanIntake` is the pure part of the `ai_result` handler: which plans of a body are valid
(`Valid`), the legs of a dual plan (`Legs`), the risk gate's verdict of the single plan, what
is tried and under which verdict (`PlansFor`, `Skipped`), the gate's trend and add-on rules
(`GatePasses`), the group fields of the order (`Group`), and the commands of an alert
(`AsksToClose`, `Closes`). Prices are points of gold, lots hundredths.

`AIApproveRules` has the arithmetic of the gate: intent of the order (market or limit, from
the distance to the market in ATR), protection, reward/risk at the entry and at the price a
market order fills at, and the builder's own check.

`AIApproveGate` has what the gate reads and remembers: it follows a result through the checks
of each of its plans in the order of `gate.ts` (cooldown, daily count, pending order of the
side), the building of the command and its acceptance. The clock is in cooldown units; a day is
`DayLength` of them. Requests with the same millisecond stamp are left out; the two plans of
one request share theirs.

`RiskGate` is `riskgate.ts`: the market filter of the analysis (`Blocking`, `LenientBlocking`, `Warnings`) and the gate of a plan (`EvaluateRiskGate`) with its
limits of stop, risk, margin, positions and lots for each symbol, in the symbol's points. Times
are minutes of a day; a tick time of -1 is a time of day without a date, which is what the
terminals send and the code cannot read.

### Arbitration

`NumberSignal`, `InsertSignal`, `FindSignal` are the steps of `submitSignal` up to the wait;
`Wake`, `TimeOut`, `TakeVerdict`, `Abort` those of `waitForArbitration`; `GiveVerdict` and
`BeginExpiry`/`ExpireRow` the admin routes. Time is in poll intervals.

### Positions

Prices are tenths of the H1 ATR, lots hundredths. What the indicators say is an input
(sides near a key level, fading, weak, reversing; low volatility). Rounding of lots is the
code's, halves to even. An average entry is rounded down. `Single` is the loop body of
`evaluatePositionManagerCommands`; `GroupClose` (twice), `GroupBreakeven`, `Reanchor` and
`DrawdownExit` follow in the code's order. What they advise is listed by the rule that adds it, each rule
running over all positions before the next does. A single evaluation is the question `Evaluation` of `Decisions`.

`PositionReview` closes the loop. `Post` is the terminal's report of its positions and
the review it starts (`enqueuePositionReview`): evaluate the posted positions with the stored states,
make candidates (`Makes`), queue those whose id is new (`Queued`), store the states
(`Saved`). What the indicators say at each review is any of `Signs`, in any order. `Poll` and `Execute` are the terminal's next steps; `MovePrice`, `Open` and
`NextMinute` the world's; `LoseReply`, `MissPoll` and `Crash` (a review cut after some of its commands)
the faults. With the SQLite store no request comes between the steps of a review, so it is
one step; reviews that overlap are in `LiveSignals`. The delivery itself, with
its expiry and risk clearance, is `CommandLifecycle`'s subject.

### Live signals

`LiveSignals` is what posts of bars and positions start in the scheduler, one action per store
call. `Begin` starts a request; `Guard` and `Opening` are the daily loss guard with the first
equity of the day; `Analysis` reads the snapshot and takes a look at a breakout; `Check` and
`Save` ask whether the command id exists and save it. A review goes on with `BeginStops`,
`Adjust`, `Adjusting` (the stops of the AI and their cooldown), `BeginMoves`, `Move`, `Moving`
(the position manager's commands) and `PersistStates`; `BeginCleanup`, `Cleanup` are the deletion
of states after error 4108. `TradingCoreAnalysis` is the look of a request for the analysis that is
only shown (`routes/admin.ts`, `/trading-core`). A handler that saves an id that is there breaks the primary key; nothing awaits it, so the process
ends (`Restart`), as it may at any moment. A store that leaves the event loop only at the end of
a handler is "sqlite".

### The account

`AccountView` is a post on its way to the readers: refused or normalised (`NormalBody`), replacing
what was stored of its kind (`Saved`), then shown to the agent (`Payload`, with the market's status,
the trend of the recalculated indicators and the positions' strategies) and to the filter of the server's own signals
(`LiveRuntime`). A moment has the server's clock and, in what the terminal says, the broker's.

### Signals

`StrategyConfig` is `engine/config.ts`, one row per symbol. `MarketStructure` is
`smc/detector.ts`: swings, breaks, gaps, sweeps, order blocks over a series of bars. `Signals`
is `replay.ts`: the five live strategies propose trades from prices, levels and indicators, the
filters follow in the code's order (trend of H4, structure, market, distance, reward, score,
open positions), levels and retracement replace stops and targets, and the best one is
published. Prices and ATR lie on the grid of the precision, so that rounding
to it changes nothing; indicators are inputs.

### Terminals

`Terminal` runs either program (`platform`): `OnInit` to `SendFirstReport` and `PollAndExecute` are the
timer; `TakeCommand` hands the next command of the reply to its handler, each of whose calls to
the broker is an action (`SendMarket`, `Protect5`/`Protect4`, `UnifyStops`, the legs of a split order,
`ExecutePending`, `ExecuteModify`, `ExecuteClose`, `ClosePartialStep` ...). Between two calls a pending
order may fill, the broker close a position, or the terminal restart; a call may be refused or,
on MT5, half filled. Prices stand still: the terminal computes nothing from their movement but
stops too close to the market. `TerminalVolumes` has the rounding of volumes and the splits,
in a unit finer than the broker's step.

### Agent

`Agent` runs the jobs of the two queues and the triggers; each starts runs of the workflow, one
per account. `AskTrigger` and `AnswerTrigger` are the trigger's route; a run (`RunStep`) fetches,
resolves whose bars it reads, gets the insight (cached, in flight, or built), decides and
publishes. `SendCard` is the chain of cards; `Crash` a restart, after which the queues deliver
again what was running. `AgentSignals` is what a run says: validation and repair of the model's
answer, its tool call converted into an order at the account's own price, the downgrade by
market filters, and `ComposeFinalSignal`, the signal with its plan or legs. An answer in Markdown
recommends a trade only with all of its prices (`Recommended`); one in JSON, or the tool call that is asked for when
neither can be parsed, goes through the schema (`SchemaAllows`) and keeps its zeros for the validation to downgrade. Zero
is a missing price where the code reads one as zero; the second target of a call, which the code tells from a
missing one, is a set of at most one price, so that zero in it is said. `AgentStream` reads the
streamed answer, a sequence of symbols cut into chunks.

## 3. The runs

Runs that pass:

| Run | Asks | Bounds |
|---|---|---|
| `command_postgres` | with overlapping polls, timeouts, restarts, crashes, repeated reports and an operator who changes the mode: is a command executed at most once, is a settled row true, is anything lost without a fault, is only issued what was cleared | 2 commands (one expires, one is a risk alert), 2 polls, 1 fault |
| `command_sqlite` | the same without interleaving: is every step one the pipeline allows, is the timeline true, does a queued command end | 2 commands, 2 polls, 2 faults |
| `gate` | do the daily limit, the one pending order per side and the cooldown hold across midnight, expiry, polls and a restart (SQLite) | 4 results of two accounts (one with two plans), 3 instants, days of 2 cooldowns |
| `arbitration` | does a submission act on its own verdict whatever expires and races it, and end | 2 signals of an account, 2 verdicts, 4 poll intervals, SQLite |
| `position_review` | over many reviews: is no target closed twice, do the stored flags agree with the broker, does no stop move back while polls arrive, is a lasting profit protected in the end | a position and one added, 2 prices, near a key level or not, 2 faults of two kinds |
| `live_signals` | with two requests at work: does the daily loss hold, do AI stops keep their distance, is a breakout seen twice, does no handler break a key | 2 requests, 1 position, six scenes (losses, breakouts, reviews; either store), 3 units of time, 1 process end |
| `terminal` | is no position left without stops unheard of, do the limit of a side and of a partial close hold, do shared stops move forward | both programs, 15 commands, 2 books at the start, 5 tickets, 2 faults |
| `agent` | are triggers spaced, is one insight built at a time, is a result posted once unless an answer was lost, does every job end | four scenes of jobs, triggers, accounts and restarts, see `MCAgent` |
| `decisions` | is what each decision says sound | grids of inputs: about 18 000 bodies, 5 300 gate questions, 5 bars of 4 shapes and one more, 2 positions in 5 states and 72 markets, posts of every kind on accounts that are new, silent or an hour ahead, answers cut at every two places, 47 000 answers and tool calls of the agent's model, in either format, each level of a call also left out |

Two commands and two polls are what it takes for an overtaken poll to write over a settled row and for a
second command to be behind it in the same reply; two faults are a timeout plus a crash,
restart or repeated report. A third command or poll repeats these relations with other names,
and the proofs cover every number. Three AI results are one more than the limit of the run.
Two positions make every group rule fire. The two prices of `position_review` lie
past the first lock and target and past a higher lock and the second target; the fall from one
to the other meets the stops of positions added at the top. Losing positions are
`decisions`'. Two requests are what every race of `live_signals` needs: one that checks and
one that saves; a day of three hours and a cooldown of two make a request that began before
midnight and one after it meet. In `terminal` the limit of a side is 2, so that a split order, a
pending one and the check meet it. The scenes of `agent` hold one difficulty each
(two triggers; sharing; a restart of an analysis; a poll of two accounts), because their
product repeats them.

A grid of `decisions` holds, for each limit of the code, a value on it and one on either side
of it, in every combination with the values it is compared with; what does not meet in a
condition is not multiplied.

Runs that are violated, each by a disagreement of the code with its documentation or comments
(PROJECT.json, `findings`):

| Run | What it shows |
|---|---|
| `late_delivery` | Postgres: a poll that was overtaken sets a settled row back to delivered |
| `daily_limit_postgres` | Postgres: concurrent AI results exceed the daily limit |
| `missed_poll` | two stops computed at different prices are delivered together after a poll that did not arrive, and the later, worse one replaces the better one |

The runs `command_sqlite`, `gate`, `arbitration` and `position_review` are about the SQLite store, and so are, in `live_signals`,
all properties but `BreakoutSeenTwice`. Hence `TimelineIsTrue`,
`VerdictIsKept`, `DailyLossHolds` and `HandlersNeverCollide` say nothing of the races these have against Postgres, where
a row is read, and changed by somebody else, before it is written (`postgres.ts:325`, `:653`, `scheduler/service.ts:95`, `:232`). Against
Postgres are checked `command_postgres`, `BreakoutSeenTwice` and the first two of the violated runs.

Deadlock is not checked: requests, time, faults and tickets are bounded, questions are answered
once, and a system may come to rest when they are used up.

**Fairness.** A handler that began makes progress (event loop, database), the terminal's timer
keeps posting, polling and executing, time passes. Where a handler is several actions this is
written `[]<>` of its being at rest: it ends, which is what weak fairness of each of its finitely many
steps says too. In the agent every request has a timeout and the event loop runs something
that is ready (`Work`). Operators, arbiters, callers, new candidates and
faults owe nothing. The deadline of an arbitration is a timer of the event loop.
The runs `gate`, `live_signals`, `terminal`, `decisions` check safety only and assume none.

## 4. The proofs

`CommandLifecycleProofs` proves for any finite or infinite set of commands, accounts and
polls, for either store and any number of faults (assumption: `ConstantsAssumption`, the
constants have the types of their columns):

- `TypeCorrect`: `TypeOK`.
- `Handover`: `HandoverInv`, the inductive invariant. `ExecutedAtMostOnce` alone is not inductive:
  a step may execute a command that is in a terminal's hands, so one must know that what
  is in a batch was never executed (`BatchInv`), hence that a reply a terminal waits for
  lists nothing executed (`AwaitInv`), hence that a poll lists only rows that were queued when
  it read them and cannot have been executed since through another reply (`PollInv`,
  `ExecInv`): the terminal waits for one reply at a time and begins a poll only with empty hands.
- `AtMostOnce` and `SettledIsTrue` follow from it.
- `OnlyClearedIssued`: `NothingIssuedUncleared`, by `ClearedInv`: a draft of an account that is
  live is cleared, so a handler that reads cutover promotes a cleared draft, whatever
  happens between the read and the promotion.

Its second part goes on from there. The observation it rests on: handlers need not exclude
each other altogether, it is enough that two polls of one account never mark rows at the same
time. That is so against SQLite always, and against either store until a request is given up
(`Calm`), because the terminal waits for its reply (`WaitedFor`). Then a row that comes to its turn is still
queued (`RowsInv`), so it leaves the queue once (`HandedInv`), and what a result settled
stays so until it is logged (`LoggedInv`). `CalmInv` is inductive beside `HandoverInv`, and gives:

- `LostOnlyByFault`: `NothingLostWithoutFault`, for either store;
- against SQLite `HandedOnce`, `TimelineTellsTheTruth`, `SettledForGood`, and
  `LifecycleImplementsPipeline`: each step is the pipeline's step of one command, or changes nothing
  the pipeline sees. For Postgres `late_delivery` shows that `SettledForGood` would be false.

`TerminalProofs` first proves, for any volume step and limits (`VolumeAssumption`: the step is
positive and the limits are whole steps) and any volume, that a new order is legal
(`OrderIsLegal`), that the two orders of a split are legal and leave nothing over on MT5
(`SplitLeavesNothing`) and open no more than was asked on MT4 (`SplitLeavesNothing4`), and that a partial
close stays within what is left of the request (`CloseStaysWithin`). The rest holds from any
book and commands and for any number of refusals, half fills and restarts
(`TerminalAssumption`: volumes are natural numbers, prices integers, the enabled strategies
have volumes):

- `ClosesAtMostTheRequest` (`ClosedWithinRequest`), by `TerminalInv`: before the walk of a partial close
  begins nothing is closed, and during it what was closed and what is left add up to the
  request (`TaskOK`); every order has a natural volume and whole levels (`OrdersOK`), without which
  neither the sum nor the comparison of two stops means anything. By `CloseStaysWithin`
  `StillToClose` never cuts at zero.
- `SharedStopsOnlyImprove` (`SharedStopMovesForward`), an action property, uses `OrdersOK` at each step.
- `SideIsBounded` (`SameSideBounded`), by `SidesInv`. The limit itself is not inductive: the check
  comes steps before the orders. What is, is the number of positions that count and what
  the signal in hand may still open of its side (`Reserve`: two before a split is sent, one after its near leg),
  bounded by `MaxSameDir`, one for the second leg of a split, and one for each pending order that filled.
- `NakedIsReported` (`NakedPositionIsReported`), by `StopsInv`: on MT5 a strategy's position without stop or target is
  in `accounted` (its command failed, or it was so at the start) or is the one about to be
  protected; the levels of a command reach it unless the broker refuses (`SignalOK`); and every
  entry lies beyond the smallest stop distance, so that a stop computed from it is never the 0 that means none.

The last two need `SituationAssumption`: the spread trade has symbols of its own, the book at the start is within its
limits and protected, prices are larger than the smallest stop distance, and commands carry the levels that the server
always gives them (`AIApproveRules` and `Signals` say so).

`AIApproveGateProofs` proves the gate's three promises against SQLite (each theorem assumes
`Store = "sqlite"` and finitely many requests; against Postgres `daily_limit_postgres` refutes
the first of them): `DailyLimitIsKept`, `PendingIsUnique`, `CooldownIsKept`. `GateInv` is inductive:

- `Alone`: one handler is between its steps at a time, and it was the last to arrive.
- `ChecksHold`: what a check found is still so when the command is decided, although several
  steps, and perhaps midnight, lie between. Only the handler itself writes meanwhile (`RowsOK`);
  time passing only expires more rows; and a row stamped after midnight counts for the new day,
  of which no earlier row can be (`DaysGoOn`).
- `Marked`: until the process restarts, every issued command left a mark in the cooldown map, or its
  handler is about to leave one. `CooldownSpacing` is about the marks, so it needs that they exist.

`ArbitrationProofs` proves against SQLite, for any signals, accounts, scores, waits and verdicts,
that a submission without a twin acts on the verdict of its own signal (`VerdictsAreOwn`) and
that an expiry run undoes no verdict (`VerdictsAreKept`). In `ArbitrationInv` the ids number the rows
(`Numbered`), nobody numbers a signal between another's save and search (`Alone`), and
nothing saved before is newer (`Latest`); so the search by time of creation finds the own row, even if
the clock moves between save and search, unless a twin has the same time. Rows an expiry run
has before it are pending still, because no verdict is taken before it ends (`StillPending`).

`AgentProofs` proves, for any jobs, accounts and scenes and any number of restarts of the agent
(`AgentAssumption`: lengths of time are natural numbers and triggers have an account):

- `TriggersStaySpaced`, by `TriggerInv`: a trigger that was queued is remembered with its own time
  or a later one, or is so old that forgetting it, as the clean-up at twice the window does,
  changes no answer.
- `InsightHasOneBuilder`, by `InsightInv`: whoever builds a shared insight is the run the map
  names, a run that waits waits for that one, and a run under way belongs to a running job.
  Without the last part a queue could begin a second run of the same job.
- `ResultsArePostedOnce` (`PostedOnceUnlessLost`), by `PostInv`: what the server received for a run is at most the
  answers lost, the restarts and, once it was answered, one more (`Counted`); a run in its publishing step has attempts
  left (`Posting`); and a run that some job may still begin has not begun in this life of the
  process (`Unbegun`), which is what makes a restart the only way to a second publication.

`LiveSignalsProofs` proves, for any number of overlapping requests, positions, bounds of time and
process ends, by `LiveInv`: what a handler read is still so when it writes (`InOrder`: the id is
unused, the equity passed the guard of its day, the stop keeps its distance), because against SQLite one
handler is at work (`Exclusive`); the look that waits is the last one taken (`LookIsLast`); the histories the
properties speak of are what the store and the memory say (`HistoriesAgree`). From it follow against SQLite
`NoCollision` (`HandlersNeverCollide`), `DailyLossIsKept` (`DailyLossHolds`) and `AIStopsStaySpaced` (`AIStopsSpaced`), whose
statements name the store, and against either store `BreakoutIsSeenTwice` (`BreakoutSeenTwice`): the confirmation clears the look
in the step that reads it.

`DecisionsProofs` proves the decisions for every input of their types. `DecisionInv` says that an
answer is the answer to the question; the work is in the lemmas about the operators:

- `BuiltIsSound` (`BuiltOrderIsSound`), for any plans, ticks and ATR: what is built is sound and a limit order rests on
  the side of the market it is meant for.
- `AccountsAreShown` (`AccountIsShownAsItIs`), for any stored records, post and moments: a market shown as open was said to be open and is
  heard of (`OpenWasHeard`), the filter of the signals passes none that is shown as closed while heartbeat and tick come in (`PassedIsOpen`), a position keeps the strategy it
  names when it is stored and shown (`StrategyIsSettled`), and on the same figures
  the trend shown is the one the gate of an AI plan counts (`TrendsAgree`).
- `FilterIsTheStricter` (`FilterImpliesGate`): limit by limit, the filter's is not looser than the gate's, for every symbol's row.
- `AcceptedIsSound` (`AcceptedPlanIsSound`): the lots of a plan are the smallest of the limits that are set
  (`SmallestLimit`), each a quotient rounded down (`LotsAreCarried`); no competitor escapes (`CrowdIsAllowed`).
- `StructureStays` (`StructureIsNotRepainted`): for a series of any length, a swing needs nothing after its wing, the first bar that
  fills a gap or sweeps a level stays the first (`LeastStays`), and what closed beyond a block has still done so.
- `ApprovedPlanRests` (`AgentPlanIsSound`): after the validation an opening has no level on the wrong side (`OpenedIsWellPlaced`); an
  order rebuilt at another price has the distances the insight states, in ATR and rounded up (`DistanceIsSound`,
  `RebuiltIsSound`), so its stop is behind it and its targets are not. That a level is a price, above zero, needs the
  distance to be less than the price itself: it is when the insight states it so (`Stated`), or when the call names a
  level less than a price away (`Within`). Without either the theorem claims nothing of the level; section 5 says
  what the code then sends.
- `QueuedPlansAreSound` (`QueuedPlanIsSound`): a plan that is tried is valid and, without legs, the one that was
  judged (`TriedIsValid`), so its verdict met an open market and nothing against it (`VerdictIsSound`); the gate and the builder
  place it (`GatePlacesOrder`). What the add-on rules say of sums holds of single positions: an
  average apart from the entry has a position apart from it (`ApartFromOne`), what a group won together one
  of it won (`WonTogether`). Both rest on `AverageIsBetween`, an induction over a sum.
- `CutsAreHarmless` (`CutsDoNotMatter`), for any text, any meaning of its events and any two cuts: what is left after the last event holds
  none (`RestIsPiece`), so splitting goes on from it as if the text had never been cut (`PiecesOfTwo`), and the
  events are handled in the same order (`HandledInParts`). A tool is replaced only by one with a complete input (`ProcessedIsSound`).

A fold of the community modules is a recursive function that TLAPS knows nothing of. `SumIsDefined` shows that a
function with its equation exists, for any finite set and weights, and `AllSubsets` is induction over
finite sets with the property given as a set; both are by the least counterexample (`LeastOfSome`, from the
well-foundedness of the natural numbers). In the same way `AllSequences` is induction over sequences, and the functions by which
the reading of a stream recurs exist and meet their equations (`SplittingExists`, `HandlingExists`, `ReadsExists`).

`TradingProofs` proves what the technical signals and the position manager do. For a signal it is `SignalStaysSound` (`SignalIsSound`), for any market, suggestion of the AI and positions.
The published stop is not bounded by any single filter: a level, the retracement or the AI may set it. What every step
keeps is `Promising`: the first target is ahead by up to five ATR, no target is beyond five ATR and
the score is at most ten. Each strategy proposes so (`PullbackIsPromising` to `PyramidIsPromising`), the filters
keep it (`LevelsArePromising`, `FibKeepsPromising`, `RatedIsPromising`, `AdvisedIsPromising`), and the last one asks for a ratio of 1.25
of the farther target, so that the stop lies within four ATR (`PaidIsSound`).

For the position rules it proves `AdviceHolds` (`AdviceIsSound`): for any positions, stored states and markets, each stop
that is advised is ahead of the position's own and behind the market, a part that is closed is at least
about 40 percent and at most the whole, and a flag is set exactly when its target is closed, once. What every
pass keeps is `Kept`, for one position and the rules that have run: stops advance from
rule to rule and the best one stored is none of them behind (`StopsKept`, `OrderKept`), no target is closed by two rules, and a flag is
newly set if and only if some rule closes for it (`FlagsKept`). One lemma for each pass: `SingleIsKept`,
`GroupCloseIsKept`, `BreakevenIsKept`, `ReanchorIsKept`, `DrawdownIsKept`, together `EvaluationIsKept`. The
group rules also need what their sides share (`SideTook`): a group that closes a target notes it in all its states.

For the loop around them it proves, for any positions, prices, bounds and signs of the indicators, that
no target is closed twice unless a review was cut (`TargetsTakenOnce`), the stored flags agree with the broker at rest
(`StatesAndBrokerMatch`), and no stop moves back while polls arrive (`StopsOnlyTighten`, an action property).
None of these is inductive: what they say of the broker depends on orders that are still queued or in the terminal's
reply. `ReviewInv` therefore speaks of both as one line, the orders under way:

- `ClosedOnce`: unless a review was cut, a target has at most one close, taken or under way, and then the stored state knows it.
- `FlagsAreBacked`: unless a reply was lost, what the state, or a command id of this minute, says was closed was closed or is
  under way. The ids matter: a close whose id is known is not queued a second time, and its flag is stored all the same.
- `StopsAreAhead`: until a poll is missed the queue is empty when a review begins, so all stops under way come of one
  evaluation, each ahead of the broker's and of those before it.

A review keeps it because its orders are pairwise in order (`AdvicesAreSound`, from `Kept` through
`FlattenIsRelated`, a lemma about flattened sequences whose parts are in order) and queueing them
keeps this order and drops no close whose id is new (`QueuedExtends`). Both rest on `RecursionExists`, which shows that a function
defined by recursion over a sequence exists and is as its equations say.

The assumptions give the inputs the types the code gives them: `AccountAssumption` (the records' fields as they are
post by post), `IntakeAssumption` (the fields of a plan
and of an open position, which has lots; one plan in its field; finitely many positions),
`SignalAssumption` (bars with natural prices; a frame that is long enough for a window shows its bars; a configuration within
`ConfigType`, which `ConfigAssumption` of `MCDecisions` says of every symbol's row in `engine/config.ts`), `GateAssumption` (numbers, and a moment is a
weekday and a minute of the day), `StructureAssumption` (series of bars with whole prices),
`StreamAssumption` (an answer is cut within its length, the parts of a call are numbered), `AgentAssumption` (`types/schemas.ts` and the schemas of the tools: the values of the enumerations, no negative prices;
a tick with a bid has an ask),
`EvaluationAssumption` and `ReviewAssumption` (positions with lots and natural prices; the targets in ATR that the volatility sets).

Proving corrected the model where TLC's grids could not: a plan of side "none" has no stop to compare, a
gap is found again only while its first bar is in the window, distances of a rebuilt order
are rounded up and not down, a second target may lie on the price itself, and the accounts a poll has left are a set,
walked in the order of the configuration.

Only model-checked is liveness (`QueuedIsSettled`, `SubmissionEnds`, `ProfitGetsProtected`, `JobsEnd`), which is out of the
prover's reach. Every invariant and every action property of a passing run has a theorem.

## 5. Differences between code, comments and documents

Met while modelling; the models do what the code does. The runs above show three; of the others
no run asks.

*Commands.* Two polls that overlap against Postgres may both list a command; the terminal
executes it once, because it drops the reply it no longer waits for. Commands queued before a
rollback are issued after it. The AI risk alert queues commands in shadow; its `close_all` and
`close_partial` carry no symbol or lots and the terminals refuse them. A half opened split order
settles as failed. Two signals of an account in one millisecond wait for the same row.

*AI results.* The legs of a dual plan are never risk-gated themselves: they carry the verdict of
the single plan or none; a leg's side is not compared with its field and an expired leg is queued. In
shadow the second plan of a result fails on the id of the first. Orders carry no lots
(the terminal decides), so the gate's lots bound an intent only. The builder throws on a market order
whose reward/risk at the entry it named was accepted (`command.ts:36` against
`docs/superpowers/specs/2026-07-07-ai-order-intent-design.md:82`). The shared stop of an adverse add-on is the worst open price, which
usually lies beyond the market. Terminals post a tick's time of day only, `new Date` of which is
invalid, so `tick.stale` never guards an order although
`docs/specs/2026-07-18-stale-market-status-ttl.md:338` says it does.

*Scheduler and signals.* A request for the shown analysis, and any review, takes a waiting
breakout's look without publishing; looks are shared across accounts. Against Postgres six posts
of bars may start analyses that save one id (the process ends), the baseline of the day and the
cooldown of AI stops are check-then-act, and a state stored during the cleanup after error 4108
is lost. `isStalePosition` looks for fields no terminal posts. The AI branch of `pickSLTP`,
`applyFibExtensionTP`, `checkScaleIn` and `momentum_scalp` are dead code; breaks of structure
repaint. A position without any stop never gets one from a profit lock, because a candidate
needs the old stop.

*Terminals.* `MaxPositions` is never enforced; split orders and filling pending orders overshoot
`MaxSameDir`. MT4: legs of a split succeed with refused stops, a cancel ignores the owner, a
close rounds up to the smallest lot, `OPEN`, `CLOSE_PARTIAL` and `CLOSE_ALL` have no handler, the rest of
a partly closed position gets a new ticket under which its state is not found. MT5: a half filled leg
is reported as a failed split without a ticket; the ticket search may pick an older position.
`MODIFY` overwrites the target with the one of the snapshot.

*Agent.* For a shared insight without a recommended trade, a call with a missing stop (null, empty or 0,
`trade-action-converter.ts:58`) gives a buy with a stop of zero, approved: the distance to a stop of zero is the whole price
(`comprehensive-analyst.ts:1550-1560`). `AgentPlanIsSound` states this exception. The schema that forbids such a plan
(`types/schemas.ts:260`, "active trade plan mode requires a positive stop_loss") is applied in a test only; the
server refuses the plan (`Valid` of `PlanIntake`). In the same way a second target of 0 is a target a whole price
away: twice the price for a buy, dropped for a sell. `RiskManagerService` and `MaoArbitratorService` are unused. A rebuilt limit entry with trigger
"breakout" rests on the other side of the market. After a tool call was refused, a plan made from
the analysis is still published as approved when the market is not analysed first; it is so even
when a critical filter blocks. `retries: 3` are four attempts; a 404 "no pending signal" is
retried, too. The nodes catch their errors, so the queue's own retries are unused. A truncated stream
is taken as a whole text. The insight of a failed call is cached for all accounts. A lost
answer leads to a second `ai_result`, a restart to a second publication.

## 6. Not modelled

- Indicators, harmonic and candlestick patterns: numerical code over series of floating point
  numbers, inputs of the models. Floating point is replaced by whole tenths of an ATR, hundredths of a lot,
  points or ticks.
- Prompts, the texts of what the model is told, notification formats, metrics, logs, replay
  reports, shadow records and the web console: text and numbers no decision reads back.
- Authorisation: the models start from requests that were let through. Maps in memory are changed in one
  synchronous step together with what they mirror.
- Indicator alerts: a repetition within four hours is counted and not sent, one synchronous
  step. The event stream fans out; nothing waits for it.
- `packages/breakout-cache` (no program imports it), `scripts`, `data` and migrations.
- Of components that are modelled: registration of a terminal; the raw series and texts of the payload; the cancelling of pending
  orders at their target and the single-rule evaluators of the position manager; the sizing of a technical
  signal by the risk gate; bars and positions reports of the terminals other than the list that a
  report carries; the trade history they post.

## 7. Plan

1. The cancelling of pending orders at their target; the lots of a technical signal.
2. What the operators of `Signals` and `MarketStructure` say about the single strategies, beyond the signal that is published.
