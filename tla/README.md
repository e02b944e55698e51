# A TLA+ development of the SQL tutor

The repository is an adaptive SQL tutor: a FastAPI application, six SPADE
agents on one asyncio loop (XMPP between them), PostgreSQL for the tutor's own
tables, a second PostgreSQL as the sandbox that runs student queries, a Prolog
rule base for recommendations, and scripts that make the tasks, keep them up and
clear or export the accounts.  This directory keeps a formal model of these
parts, the configurations that model-check it, and proofs.

Paths below are relative to `src/backend/` unless they start with `src/`.

## 1. Inventory

### Components, their state and their operations

| component | code | state it keeps | operations | modelled in |
|---|---|---|---|---|
| HTTP routes | `app/api/routes.py` | none of its own; the tables | `POST /attempt`, `POST /hint`, credit reset, `POST /run`, reads | the modules of the agents; `ConceptPage`, `PagedLists` |
| bridge and gateway | `app/bridge/` | `_pending`: correlation id to future | register, resolve, wait with a timeout | `AgentBridge` |
| Coordinator | `agents/coordinator.py` | `_flows` (live conversations), `state` of each | intake, EVALUATE, UPDATE, RECOMMEND, RESPOND, release | `Coordinator` |
| Evaluator | `agents/evaluator_agent.py`, `evaluation.py`, `persistence.py` | `attempts` rows | evaluate, persist, two informs, refuse | `DomainAgents`, `Evaluation`, `AttemptNumbers` |
| KnowledgeModel | `agents/knowledge_agent.py`, `knowledge_logic.py`, `bkt/`, `misconception_logic.py` | `skill_mastery` and its history, misconception counters | BKT update, inform | `BKT`, `KnowledgeModel`, `DomainAgents` |
| Gamification | `agents/gamification_*.py` | XP log, level, streak, badges | one transaction for each attempt | `Rewards`, `DomainAgents` |
| Recommender | `agents/recommender_*.py`, `app/prolog/`, `prolog/*.pl` | `recommendations_log`, Prolog facts | choose the next task | `Curriculum`, `Recommender`, `DomainAgents` |
| Hint agent | `agents/hint_*.py`, hint gate in `routes.py` | `hint_requests` | gate, build, charge | `HintCredit`, `HintService` |
| sandbox runner | `scripts/lib/sandbox_runner.py` | a transaction for each call | run, compare, explain | `Sandbox` |
| task generation | `scripts/generate_tasks.py`, `scripts/lib/`, phantom scripts | task files, batch report, list of phantoms | batch, single, regenerate, by hand | `Generation` |
| task bank | review and salvage, `export_tagged_dataset`, `manual_tasks_m6`, `import_dataset`, `regenerate_expected_result` | reviews, dataset, table `tasks` | decide, salvage, export, import, repair | `TaskBank` |
| accounts and scripts on them | `app/core/security.py`, `purge_*`, `seed_*`, `prepare_eval_baseline`, `export_eval_data` | `users` and all that hangs on them | register, look up, delete, export | `Accounts`, `KnowledgeModel` (`Purge`) |
| frontend | `src/frontend/src/` | caches and page state | submit, hint, present | the paging in `PagedLists` |

### Interactions

`POST /attempt` registers a future under a fresh correlation id (cid) and asks
the gateway agent to send `request(submit-attempt)`.  The Coordinator's intake
reads the newest attempt id of that user and task as a baseline, reserves a
conversation and starts an FSM behaviour whose template carries the cid.  The
FSM asks the Evaluator; the Evaluator runs the query in the sandbox, commits the
attempt and informs the KnowledgeModel and Gamification; the KnowledgeModel
commits the mastery and informs the FSM; the FSM asks the Recommender; the FSM
answers the gateway, whose `_Resolve` behaviour completes the future.  Errors:
`plan_unavailable` (a refuse), `coordinator_busy` (no free conversation),
`evaluation_timeout` (nothing came and nothing was found in the table),
`orchestration_timeout` (the route itself gave up).

The scripts share tables with the service and nothing else: no lock, no message.

### What is hard

* Interleaving: several conversations share one JID and one Evaluator mailbox;
  the agents commit at times the Coordinator does not see; the Evaluator, the
  sweep and `POST /run` write to one sandbox; scripts delete beside the service.
* Timeouts: three windows (route, UPDATE, RECOMMEND) race late answers; a
  statement times out while it waits for somebody else's lock.
* Partial failure: an exception in a behaviour is logged and the message is
  gone, or, where no `try` surrounds it, ends the behaviour; a job of generation
  dies between two files.
* Stale reads: the baseline is read before the conversation begins and used
  after its window; the recommendation is computed from a snapshot and resolved
  against the tables; pages are cut by OFFSET out of a list that grows.
* Delivery: an inform may come twice.
* One engine for all: the Prolog facts of a request live in a process-wide VM.

`PROJECT.json` lists each hazard at its line with the properties about it, and
says in a note where they cover a part of it only.  Three have none.
`coordinator.py:213` reads XP and badges from the tables while Gamification may
not have processed the attempt: the code calls that answer best effort and
promises nothing that could fail.  Against a number that is taken again after the
purge (`persistence.py:63`), and against what an export of the dataset drops
(`export_tagged_dataset.py:60`), nothing in the code protects; section 6 describes
what happens.

### What makes each component correct

| component | what must hold |
|---|---|
| bridge, Coordinator, agents | an answer concerns the client's own user and task; a refusal leaves no row; one row for each submission; every request answered; every conversation gives its place back; mastery is committed before a recommendation is asked for |
| attempt persistence | attempts of a user at a task are numbered 1, 2, 3, ... although no lock is held between count and insert; a call gives up only when others were really faster |
| Gamification | `users.xp` is what `xp_log` adds up to; nothing is paid twice; streaks and the count of a day follow the attempts |
| Hint service | a hint hangs on the last wrong attempt of its own student; charged for a hint and only for one; a hint that was there when asked is shown again; the rebuilt bucket never costs a student a hint |
| KnowledgeModel | the chain of `skill_mastery_history` is unbroken and ends in `skill_mastery.p_know`; no update lost, none applied more often than delivered |
| Recommender | every offer can be worked on, "all mastered" is true when said, the engine is clean between requests, a diligent student gets to the end |
| Evaluator and sandbox | nothing stays in the sandbox but what a text commits for itself; a verdict agrees with a one-to-one comparison of rows; the reference query is accepted |
| task generation and bank | a task that was reported failed and has no file is found, also after reports were put aside and brought together; an import undoes no repair and no deactivation |
| accounts | a user goes as a whole or not at all; a finished export names everybody it writes about |
| reading routes | four queries written apart agree about one page; who turns all pages misses nothing |

## 2. Plan

The order is that of the weight of the behaviour.

1. **The submission flow**: `TutorMessages`, `AgentBridge`, `Coordinator`,
   `DomainAgents`, composed in `SubmissionFlow`; the abstract `AttemptService`
   and the refinement.
2. **The hint service**: `HintCredit`, `HintService`.
3. **Gamification** and **attempt numbers**: `Rewards`, `AttemptNumbers`.
4. **Learning**: `BKT` and `Curriculum` (operators), `KnowledgeModel`,
   `Recommender`, composed with students and trouble in `Learning`.
5. **Judging**: `Sandbox`, `Evaluation` (operators over it), composed with their
   three users in `Judging`.
6. **Operations**: `Generation`, `TaskBank`, `Accounts`, each closed in itself.
7. **Screens**: `ConceptPage`, `PagedLists`; with `AttemptNumbers` in `Records`.

These are all written, and proved as section 7 says.  What remains worthwhile:
`Rewards` under the flow, to say what RESPOND may read while Gamification is still
busy; the frontend's caches of routes against each other.

## 3. The modules and the code

Where a handler awaits, a model has a step boundary, and nowhere else.  A script
that is one transaction may be many steps where others can commit between its
statements.

### Submission flow

| module | state | actions and the code they stand for |
|---|---|---|
| `TutorMessages` | `mail` (one queue for each cyclic behaviour), `routes` (conversations with a live behaviour, that is `_flows`), `inbox` (mailbox of a conversation), `ask` (what each submission is about) | `Post`, `Take`; `Dispatch`: SPADE delivers by template, and what matches none is dropped |
| `AgentBridge` | `pending`, `result`, `http`, `shown` | `Submit`, `WaitReturns`, `WaitExpires` (`post_attempt`, `AgentBridge.wait`), `GatewayResolve` |
| `Coordinator` | `intake`, `flow`, `listening`, `attempts` | intake: `IntakeReceive`, `IntakeOpen`, `IntakeRefuse`, `IntakeDies` (the baseline cannot be read), `IntakeRefusalFails` (the refusal cannot be sent); conversation: `Evaluate`, `UpdateReceive`, `UpdateRefused`, `UpdateExpires`, `SettleFinds`, `SettleGivesUp`, `Recommend`, `RecommendReceive`, `RecommendExpires`, `Respond`, `FlowFails`, `Release` |
| `DomainAgents` | `informing`, `learned`, `awarded` | Evaluator: three outcomes, two informs; KnowledgeModel, Gamification, Recommender: one step for each message; exceptions that a behaviour logs and forgets |
| `SubmissionFlow` | `faults` | composition, fairness, all properties of the flow |
| `AttemptService` | `rows`, `barred`, `reply`, `shown` | what `POST /attempt` promises |

The Evaluator evaluates and commits synchronously on the loop, so its outcome is
one step, but each of its two sends yields.  The cid of a submission is its
identity: the code draws it from `uuid4`.  A message is its kind, its cid and the
id of an attempt, the only parts of it a guard or a property tells apart.

`Service` in `SubmissionFlow` maps the abstract state: `rows` to the attempts
table, `reply` to what the client sees, and `barred` to the submissions that were
refused or whose query the Evaluator has consumed without making a row.

### Hint service

| module | state | actions and the code they stand for |
|---|---|---|
| `HintCredit` | none | `Window`, `Newest`, `Replayed`, `Remaining`, `NextRefill` (`hint_logic.hint_credit`); `TrueLevel` is the reference, counted tick by tick from the rule |
| `HintService` | `attempts`, `hints` (`hint_requests`), `http`, `unlocked`, `mailbox`, `working`, `reply`, `clock`, `enabled`, and the history `paid` | `AskDisabled`, `GateUnlock`, `GateReplay`, `GateCredit` (`post_hint`, `_hint_gate`); `AgentTakes`, `AgentFinishes`, `AgentFails` (`HintBehaviour`, `produce_hint`); `WaitReturns`, `WaitExpires`; `ResetCredit`; `Submit`, `Tick` for the world around it |

The gate is three steps because its three reads (`routes.py:317`, `321`, `334`) are
separate statements at READ COMMITTED on a thread of the pool, between which
attempts and hints are committed; the agent is two because the LLM call is awaited
between them.  `paid` keeps the hints of the attempt that were there when the gate
looked the attempt up.

### Gamification and attempt numbers

| module | state | actions and the code they stand for |
|---|---|---|
| `Rewards` | `attempts`, `informs`, `users`, `days`, `badges`, `xpLog`, `today`, `redelivered` | `PersistGamification` (all nine steps of `persist_gamification`), `PersistFails`, `Redeliver`; `Evaluate`, `Midnight` for the world around it; `ComputeXp`, `LevelForXp`, `RunEnding`, `LongestRun`, `EarnedNow` (`gamification_logic`) |
| `AttemptNumbers` | `attempts`, `stage`, `tries`, `seen`, `before` (history) | `Count`, `Insert`, `Conflict`, `OtherError` (`persist_attempt`) |

`PersistGamification` is one step although it is many statements: the agent takes
one inform at a time, the transaction is one commit, and what it reads of other
agents' tables (attempts, mastery) only changes by their own commits.

### Learning

| module | state | actions and the code they stand for |
|---|---|---|
| `BKT` | none | `Posterior`, `Learnt`, `Update` (`bkt/model.py`) and `TierDefaults` (`bkt/parameters.py`), in thousandths |
| `Curriculum` | none | the catalogue and the ontology as constants; `Snapshot` with its two masks (`build_mastery_snapshot`), `RecommendNext`, `Reason` (`rules.pl`), `ResolveTaskForConcept` |
| `KnowledgeModel` | `attempts`, `purged`, `informs`, `mastery`, `history`, `lastPoint`, `misconceptions`, `km` | `KnowledgeTake`, `KnowledgeConcept` (one round of the loop, with its await), `KnowledgeCommit`, `RecordMisconception`, `KnowledgeFails`; `Purge` (`purge_polluted_attempts.py` with its repair of the chain) |
| `Recommender` | `asks`, `rec`, `vm`, `offer`, `served` | `RecommenderTake` (snapshot), `RecommenderAsk` and `RecommenderClear` (inject, query, the `finally`), both rounds, `RecommenderReply`, the exceptions between |
| `Learning` | `trouble`, `deliveries` | students who ask and answer, redelivery, the purge, exceptions |

A commit's snapshots are one number of `lastPoint`: they concern different
concepts.  The facts `mastery/3` are triples in `vm`, so that facts left behind by
another user would be seen.  `get_tier` of the KnowledgeModel runs on the engine
outside the Recommender's lock, but on facts no request asserts.  The lock itself
is redundant in the code as it stands: one cyclic behaviour takes one request at a
time.

### Judging

| module | state | actions and the code they stand for |
|---|---|---|
| `Sandbox` | `table` (committed rows in heap order), `bloat` (dead rows), `conn` (one call of `execute` for each holder), `sandboxFaults`, and the history `kept` | `Execute`, `CommitByText`, `RunStatement`, `StatementTimeout`, `Close`, `ConnectionLost`, `Hand` (`SandboxRunner.execute`); `Vacuum`, `Rewrite` of the database |
| `Evaluation` | none | `TextVerdict`, `ResultVerdict` (`evaluate`, in its order), `Matches`, `Unmatched`, `ValuesEqual` (`compare`) |
| `Judging` | `judge` (a call of `evaluate` for the Evaluator and for the sweep) | `Begin`, `Classify`, `ExplainSubmitted`, `ExplainReference`, `ExplainFails`, `Persist`, `Conclude`; `PostRun`, `RunAnswered` |

A query is a text whose effect, output and plan are constants; its output depends
on the rows in the sandbox.  `execute` hands it to the server as it is
(`sandbox_runner.py:175`), so it may be several statements: `Commits` are the texts
that end the transaction, `TakesRole` those that set a role that may write, which on
a connection opened for reading, in autocommit, needs no COMMIT.  What such a text
writes is committed in the middle of the call (`CommitByText`), before anything else
of the call succeeds or fails, and `kept` notes it.  It is kept apart from the effect
a call holds uncommitted until `Close` or `ConnectionLost` takes it back.  The planner's choice depends on `bloat`, the
one piece of statistics that a rolled-back DML changes.

### Operations

| module | state | actions and the code they stand for |
|---|---|---|
| `Generation` | `job`, `left`, `tries`, `meta`, `cost`, `failures`, `drafted`, `report`, `parts` (reports put aside), `files`, `phantoms`, and ghosts | `StartBatch`, `StartSingle`, `StartRegeneration`, `StartManual`; `Generate` (a round of `generate_one` with the validator's verdict), `FinishTask` (`save_meta`, cost, report), `ManualTask`, `EndJob`, `JobDies`, `RenameReport`, `AggregateReports`, `IdentifyPhantoms` |
| `TaskBank` | `sandbox` (edition), `taskFiles`, `reviews`, `dataset`, `catalogue`, `bank` (table `tasks`), `repair`, and ghosts | `BootstrapPendingReviews`, `Decide`, `Salvage`, `ExportTaggedDataset`, `ManualTasksM6`, `SeedCatalogue`, `ImportDataset`, `Regenerate`, `RegenerateTask`, `SyncDataset`, `RegenerateDies`, `SeedSandbox` |
| `Accounts` | `users`, `attempts`, `inflight`, `informs`, `points`, `awards`, `rest`, `script` (an open transaction), `export`, and ghosts | `SeedAdmin`, `Register`, `PostAttempt`, `PersistAttempt`, `Follow` (late writes of the agents); `PurgeDemoUsers`, `SeedDemoUser`, `PrepareEvalBaseline` with `ScriptDeletes`, `ScriptCommits`, `ScriptFails`; `ExportBegins` to `ExportEnds` query by query |

A batch overwrites `batch_report.json` with what it has to report itself
(`generate_tasks.py:396`).  The operator keeps a report by renaming it to
`batch_report_M*.json` (`RenameReport`, external); `aggregate_batch_reports.py` reads
the renamed files in the order of their names, a later one replacing what an earlier
one says of a concept, and overwrites `batch_report.json` with the result
(`AggregateReports`).  The model's matrix is one module, with one budget.

In `Accounts` a script is one transaction at READ COMMITTED: what it has deleted
is in `script.gone`, locked for others and invisible as a deletion until the
commit; a DELETE finds what has been committed since the previous one; the foreign
keys that do not cascade refuse.  The scripts are run by one operator and are
assumed not to overlap (`Alone`, `Idle`).

### Screens

| module | state | actions and the code they stand for |
|---|---|---|
| `ConceptPage` | `tried`, `solved`, `skilled`, `open` | `Submit`, `Learn`, `Upsert`; the reads `PrimaryTaskCount`, `SolvedTaskCount`, `TaskForConcept`, `TaskDetail` are operators |
| `PagedLists` | `now`, `made`, `paid`, `walk` | `Record`, `Reward`, `Tick`; `CountRows`, `FetchRows` (the two queries of a response), `StartWalk`, `TurnPage` (the client) |

### Two compositions that only save runs

`Operations` puts `Generation`, `TaskBank` and `Accounts` at three desks,
`Records` puts `AttemptNumbers`, `ConceptPage` and `PagedLists` in three scenes.
A behaviour stays at one desk, or in one scene, from beginning to end, and the
variables of the others keep their first values, so that such a run is three
questions asked one beside the other and no interaction is claimed.  Outside the
scene "numbers" the writers' pairs are fixed, as nothing reads them.

## 4. The runs

| run | configuration | question |
|---|---|---|
| `submissions_safe` | `MCSubmissionFlow` | two submissions by one or two users, one of the tasks unknown, all three timers, one exception anywhere: whose answer, whose row, what a refusal leaves; and does the machinery implement `AttemptService`? |
| `flows_released` | `MCFlowsReleased` | two submissions for one place: does the limit hold, does every conversation end whatever one exception does, does every row but the one an exception meets reach both downstream agents? |
| `coordinator_answers` | `MCCoordinatorAnswers` | two tasks, of which the Evaluator knows one (it never answers a request for the other): without the route's own timeout, is every request answered, and is nothing lost while nothing fails and no window runs out? |
| `timeout_with_row` | `MCTimeoutMeansNoRow` | a finding, section 6 |
| `hints_safe` | `MCHintService` | two requests of a student and an admin, attempts at two tasks in between, timeouts, failures and resets: who is charged, who is turned away, is everybody answered? |
| `hint_credit` | `MCHintCredit` | the rebuilt bucket and its promised refill against the real one along every history of three requests |
| `rewards` | `MCRewards` | three attempts at two tasks over three days, failures and one redelivery: do balance, log and badges agree, are streaks and days true without the redelivery? |
| `learning` | `MCLearning` | a diligent student over four concepts, another user asking in between, a wrong answer and one piece of trouble: is the mastery accounted for, is every offer workable, is "all mastered" true, does the student get there? |
| `judging` | `MCJudging` | Evaluator, sweep and `POST /run` in one sandbox, sixteen kinds of text, one of which commits and one of which sets its role, one lost connection: does nothing else stay in the sandbox, are verdicts right, is the reference accepted? |
| `sandbox_failure_recorded` | `MCSandboxFailure` | a finding, section 6 |
| `records` | `MCRecords` | four calls of `persist_attempt` on two pairs in every interleaving; the page of concepts while tasks are solved and switched; a client that turns pages while attempts and XP arrive |
| `operations` | `MCOperations` | three jobs of generation, their reports overwritten, put aside and brought together; three tasks through review, dataset, import, repair and a new sandbox; two out of an admin, a demo user and a participant while a script deletes or exports |

### What the properties say

* Flow: `AnswerConcernsOwnTask`, `AnswerIsOwnUnlessSettled`, `RowsAsAnswered`
  (nothing of a refused submission is recorded, of any other at most one row),
  `MasteryBeforeRecommendation`, `FlowLimit`, `ImplementsService`; liveness
  `EveryFlowReleased`, `EveryRequestAnswered` (also of a request for a task the
  Evaluator does not know), `NoSubmissionLost`, and `EveryAttemptProcessed`: an
  exception costs at most the one attempt it meets, every other row reaches
  KnowledgeModel and Gamification.
* Hints: `RowsHangOnLastWrongAttempt` (own, wrong, and the last when the agent
  began, which is not what the route had found if the student went on), `ChargedForHints`
  (charged for a hint, only for one), `PaidHintIsShownAgain` (a hint that was there when
  the gate found the attempt is shown, whatever is recorded or spent between its
  reads; of one recorded later see section 6), `CreditIsFair` (never below the real bucket,
  and the refill comes when promised), `EveryHintRequestAnswered`.
* Gamification: `BalanceIsHonest`, `SolvedTaskPaysNoMore`, `StreaksAreTrue`.
* Learning: `MasteryIsAccounted` (the chain is unbroken, nothing is applied more
  often than delivered), `EngineHoldsOwnFactsOnly`, `AllMasteredIsTrue`,
  `OfferIsWorkable`, `DiligentStudentFinishes`.
* Judging: `OnlySelfCommittedStays` (the committed rows are the seeded ones or
  what the last text that committed for itself has left), `AcceptedMeansSameResult`,
  `ReferenceIsAccepted` (as long as no text has committed for itself).
* Records: `DenseNumbers`, `FailureNeedsRace`, `PageAgrees`, `WalkMissesNothing`.
* Operations: `PhantomsAreFound`, `ImportUndoesNothing`, `PurgesAreWhole`,
  `ExportNamesEveryone`.

### Bounds

* Two cids are enough for every cross-talk the properties speak of: each relates
  one submission to at most one other.  The limit needs one more than it admits,
  so `flows_released` has two against one place.  One exception, because each
  property about exceptions speaks of one conversation and its consequence.
  `MaxFaults` bounds it in `Fault`.
* `HintMax` and `Refill` are 1 or 2 in place of 5 and 4 hours: the bucket's
  arithmetic is linear in both, and the cases (empty, full, on the edge of the
  window) all occur.  `MaxTries` and `MaxTime` bound attempts and the clock.
* `StreakGoal` is 2 in place of 7, so that three days hold a streak that is
  reached, and a gap.  The clock stops with the last attempt: only the Evaluator reads it.  `MaxAttempts`, `MaxDay` and `MaxRedeliveries` bound the
  world around the agent.
* Four calls against three tries in `records`: three others on the same pair must
  be faster for one to fail; with the second pair taken by one of them, none fails.
* Four concepts: a root, one without tasks (transversal), a join behind it, and
  one with a single task (below the floor), so that both masks, both rounds and a
  repeated task occur.  `MaxWrong` and `MaxTrouble` bound wrong answers and
  trouble; the parameters of BKT are those of the code.
* Three rows, two of them equal, are enough for a comparison of sets to differ
  from one of bags.  One dead row moves the plan of the reference query over the
  planner's edge.  `MaxBloat`, `MaxSandboxFaults` bound the database's part, and
  `MaxKept` the texts that keep what they write: two, so that one comes after another.
* Three cells of two concepts: a concept with two cells is where a count for each
  concept can hide which cell is short.  Three jobs are a batch, a regeneration
  and one more; two names for reports put aside let a concept be told of twice.
  Both budgets are two tasks, less than the matrix asks for, so that a batch that is
  done and one that is cut short occur.  `MaxAstray` bounds answers for another cell.
* Three tasks: one that passed validation, one salvaged, one by hand; two editions
  of the sandbox, between which results may or may not change.
* Two users of any two of three kinds, also one after the other, two attempts, one
  script: a property of `Accounts` relates one user to one other at most, and
  `PurgesAreWhole` is proved for any number.  `MaxUsers`, `MaxAttempts`,
  `MaxScripts`.
* Three list rows and pages of one or two: rows move over a page's edge.
* Symmetry is used only in runs without liveness, over cids, users and requests
  that no definition names.

Deadlock is not checked: every instance is a finite number of requests, jobs or
steps of the clock, after which the system rightly rests.  That it does not rest
too early is what the liveness properties say.  `NoSubmissionLost` is conditional: it
speaks of the behaviours in which no exception occurs and no UPDATE window runs
out.  The exceptions that `EveryAttemptProcessed` allows for are those that occurred.

The longest runs are `coordinator_answers` (276,222 states, under three minutes with
two workers), `operations` (5.8 million, two minutes), `hints_safe` (751,792, two
minutes), `submissions_safe` (944,855) and `judging` (784,471), a minute and a half each.

## 5. Fairness

All behaviours are tasks of one asyncio loop, so a step that stays enabled is
taken: weak fairness for the gateway, the intake, each conversation and each
agent.  Timers are part of those steps (`UpdateExpires`, `WaitExpires`): every
wait in the code has a timeout and asyncio fires it.  In the hint service the
route and the agent are weakly fair, the timeout of the route is not: requests are
answered without it.  The LLM call has a timeout of its own.

In `Learning` the two agents are weakly fair, as they take whatever is in their
mailboxes, and so is a learner: he asks when he has no task and his last answer
is settled, and answers when he has one.  That is what "diligent" means in
`DiligentStudentFinishes`; it is an assumption about the student, and the property
says that the system does not stand in his way.  An update whose attempt has been
purged fails fairly, because the foreign key makes it fail.

Clients otherwise, exceptions, redeliveries, the clock, the admin and the scripts
owe nothing.  A conversation killed by an exception ends through `on_end`, which
SPADE runs.  `Judging`, `Operations` and `Records` claim no liveness.

## 6. Findings

Each is a run that TLC finds violated, of a property the repository's own text
states; `PROJECT.json` quotes the lines.

| property | what happens |
|---|---|
| `TimeoutMeansNoRow` | `_settle` looks for a row for a bounded time; the Evaluator may commit after that, so a client told `evaluation_timeout` has an attempt, mastery and XP all the same |
| `DisturbanceIsNoAttempt` | a refused or lost connection to the sandbox comes back from `execute` as an ordinary failure, is classified `execution_error` and stored as the student's wrong attempt, though the Evaluator says a disturbance of the system never is |

The passing runs show what still holds: under `_settle` the answer is one of the
same user on the same task; whatever the connection does, nothing of a transaction left
open stays in the sandbox.

### Observations without a run

Met while modelling; each shows where a property needed its condition.

* Flow.  Under `_settle`, of two overlapping submissions of one user at one task,
  one may be shown the other's row, as `attempt_since` knows a row by user, task
  and baseline.  After an exception outside its `try` (`coordinator.py:622`, `665`) the
  intake is gone, and every later submission waits for the route's own timeout.
* Hints.  The bucket is replayed from a full one at the start of its window, where it
  may have been empty (`hint_logic.py:109`), so that older requests do matter, though
  the docstring (`hint_logic.py:85`) says that the window is no approximation.  With five
  tokens and four hours: five hints at 0 h, one at 8 h, and at 20 h the code counts 5
  where 4 are due.  The error is always in the student's favour, as `CreditIsFair` says
  and section 7 proves.  Two clicks for one attempt pass the gate before the first row is committed, and both are
  charged; overlapping requests also pass on the last token.  If the agent records the
  hint for an attempt on the last token between the gate's look for it
  (`routes.py:321`) and its reading of the credit (`routes.py:334`), a second request for
  that attempt is answered 429, though the hint is paid for; asked once more, it is
  shown.  That is why `PaidHintIsShownAgain` speaks of the hints that were there when the
  gate found the attempt.
* Gamification.  A redelivered inform of an earlier day sets the streak and the
  last active day back (`gamification_persistence.py:254`).  The verdict
  `partial`, which `gamification_logic.py` says does not occur, occurs and pays
  half the XP every time, until the task is solved.
* Attempt numbers.  After the purge has removed an attempt in the middle,
  `count + 1` is taken for good, and every further submission at that task fails
  (`persistence.py:58`, `63`).  The purge also leaves the counters `attempts` and
  `correct` of `skill_mastery` as they were.
* Judging.  The docstring of `execute` says of the writing role that its transaction is
  always rolled back and that changes do not persist (`sandbox_runner.py:160`).  That holds
  of whatever the transaction still holds at `sandbox_runner.py:211`, and not of a text that
  ends the transaction or sets another role itself, as `OnlySelfCommittedStays` says;
  from then on the recorded results may be those of other rows.
  `src/docker/postgres-sandbox/zz-role-timeouts.sql:12` promises a `lock_timeout` of one
  second to the role `sandbox_readwrite`; the setting of a role takes effect at login, and
  `execute` logs in as `sandbox_admin` and says SET ROLE, so that a wait for a lock ends with
  `statement_timeout`.  In the model both are the same step, `StatementTimeout`.  Whether order counts is decided by the submitted query, not by the
  reference.  An expected result without rows accepts any statement without rows,
  so also DML without RETURNING.  `plan_is_stable` lets a reference query through
  that is at the edge of the planner's choice as long as it is on the side of the
  index (`evaluation.py:75`), which is why `ReferenceIsAccepted` names the dead
  rows that changed between the two plans.  A query that runs but cannot be
  explained becomes `plan_unavailable`.
* Generation.  The budget counts the tokens of a task's last attempt only, and
  nothing for a task without an answer (`generate_tasks.py:245`, `316`).  A
  concept in work when a batch is aborted is not in the report, so its phantoms are
  not listed.  A report that is not renamed is lost with the next batch, and with it the
  failures it counted.  A list of phantoms worked off twice, or a second batch, leaves
  failed files that hide phantoms.  A task answered for another concept or
  difficulty is filed under what it says of itself.
* Task bank.  The export of the dataset drops hand-written tasks, deactivations
  (called permanent in `manual_tasks_m6.py:399`, and said in `import_dataset.py:122`
  to survive a re-import) and repairs that only the dataset held; the next import
  reactivates.  A task rejected later, or dropped from the dataset, stays active.
  The salvage approves an empty result, which the repair refuses.
* Accounts.  A user who registers during an export makes it end with a KeyError
  after files have been written; `prepare_eval_baseline` finds nothing to do for an
  admin who has mastery or badges and no attempts; the name of the admin,
  registered before the seed, stays a student's.
* Screens.  Total and rows of a page are two queries, so an attempt between them
  can hide an old one on the last page (`torn`); on a leaderboard whose scores
  move, somebody may be shown twice or not at all.  The client goes on by its own
  page size and not by the clamped limit, which `ListsAssumption` says is the same
  today.  The profile lists only concepts with a mastery row.  The client keeps
  `/modules` for five minutes, so across an import more tasks may look solved than
  there are.  `POST /attempt` takes an inactive task, though `routes.py:590` calls
  the page the last way to one.

## 7. Proofs

No theorem bounds the number of anything; the assumptions are those declared with
the constants, each read off the code.  Sets of things that are rows or configured
entries (`Exercises`, `Cells`, `Members`, `Writers`, `Cids`) are finite, the cells of a
concept are either all written by hand or none (`ConceptOf` is what
`generate_tasks.py` skips by), the recorded result of a reference query is that
query's result on the seeded rows in whatever order they lie (`ReferenceAssumption`,
what `regenerate_expected_result` establishes), the values of a result's column have one
SQL type, as PostgreSQL's columns do, so that either all of them come as Python numbers
or each that reads as a number comes as text (`ResultAssumption`), and the ontology has no cycle.
Eight modules hold the theorems.

### The flow: `SubmissionFlowProofs`

* `TypeCorrect`: the type invariant is inductive as it stands.  Lemmas say what an
  append and a tail do to the contents of a mailbox, that `AttemptSince` is 0 or the id
  of a row of the right user and task, and what `Post`, `Take` and `Dispatch` keep; one
  lemma for each agent has a step for each action.
* `LimitHolds`: `FlowLimit` for every `MaxFlows`.  Its second half, that `routes` is
  exactly the set of live conversations, is what makes it inductive: a place is only
  taken where it was free and only given back by the conversation that holds it, also
  when an exception ended that conversation.
* `AnswersConcernOwnTask`, `AnswersAreOwnUnlessSettled`: nobody receives somebody
  else's answer.  `Provenance` follows an attempt's id along its way: the Evaluator's
  announcement, the mailbox of the KnowledgeModel, the mailbox of the conversation, the
  conversation, the mailbox of the gateway, the future, the response.  Up to the
  conversation the row is the one the submission made; from there on it may be another
  of the same user and task if the conversation settled.  `ProvenanceKept` says once
  what a step has to show (each id was there before, or came from the place upstream),
  so each action only accounts for what it moves.
* `RowsAreAsAnswered`.  That a submission is recorded once is not inductive, as its
  query might lie in two mailboxes.  `OnePlace` says that a submission is with the
  intake, with a conversation that has not asked yet, in the Evaluator's mailbox, or
  past it, and has a row only past it.  `RefusalInv` then follows a refusal on its way
  back to the client: from wherever it is, no row can come any more.
* `FlowImplementsService`: the flow implements `AttemptService` under the mapping
  `Service`.  Initial states map to initial states, and each action maps to one of the
  abstract service or to a stutter; the step that shows an answer needs all the
  invariants above, and `SilentInv`: an answer other than `ok` names no attempt.
* `RecommendationAfterMastery`, from `RecommendInv`: a `model-updated` on its way to a
  conversation concerns an attempt that has been learned, and the conversation keeps
  that attempt from then on until it is released.

### Hints: `HintProofs`

* `TypesAreKept`, `RowsHangWhereTheyShould`, `ChargesAreForHints`.  Charging is not
  inductive by itself: that a charged request is not answered with a failure needs
  that a request is in one place at most.  `PlacesInv` says so: with the route, in the
  mailbox or on the agent's desk, and nothing has come of it before the agent is done
  (`Fresh`).  `ChargeInv` adds that while a charged request is still waited for, its
  future holds a hint or nothing.  `WorkInv` keeps the attempt on the desk a wrong one
  of the right student while attempts are added.
* `PaidHintsAreShown`.  A request that had a hint when it was unlocked is at the gate
  or has been shown one: hints are only taken away by an admin's reset of his own, so
  what was there at the first read is there at the second (`PaidInv`).
* `RowsHangWhereTheyShould` says of the rows what `LatestInv` also says of the desk: of
  the attempts committed before the agent began, none is later than the one it works on.
* `CreditIsNeverTooLow`: the bucket rebuilt at a read against the rule counted tick by tick,
  for every history.  Replaying all requests ever made gives the rule's level exactly
  (`ReplayIsTrue`, by taking away the newest request), fewer requests never give a lower one
  (`TrueMonotone`), and the window is fewer requests.  The promise of `next_refill_at` then
  holds because a window only loses requests as time passes (`PromiseKept`).  `CreditInv`
  says what the lemmas need of a state: finitely many requests, none in the future.

### Sums: `SumProofs`

Balances, counts of failures and lengths of lists are sums over sets, which the
community module folds in an order of its own choosing, by a recursive function.
The library's induction theorems cannot be used here (they take a predicate as an
operator), but for a fixed statement about finite sets induction is not needed as a
theorem: among the finite counterexamples there is one with the fewest elements
(`LeastNat`, or `AllNat` as a fact of a set of numbers), and taking an element out of it leads
to a contradiction.  So `AddsExists`
shows that the fold is there, `SumAdd` that it does not depend on the order, and the rest
what a sum does when a value changes, a set grows, sets are joined or renamed, or a sum
is taken of sums.

### Gamification: `RewardsProofs`

* `SolvedTaskIsPaidOnce`: no attempt is paid twice, none after the one that solved its
  task, for any failures and redeliveries.  The code compares attempt numbers, so the
  argument needs that numbers grow with ids (`NumbersCount`), and that the log only
  names attempts that exist (`LogInv`).
* `BalancesAreHonest`, `TypesAreKept`.  `BooksInv` says of each user that the balance is
  the sum of his rows, and of each user and badge that there is one row or none (`PaidInv`).
  What one call of `persist_gamification` writes is one row for the attempt and one for each
  badge earned now; the balance is raised by what these rows add up to.
* `StreaksAreKept`.  That a streak reaches back exactly to the last gap holds
  after a step only if the day processed is not before the last one.
  `StreakInv` therefore says more: while nothing is delivered twice, the mailbox holds each
  attempt once, in the order of the days, and none of them before the last active day
  (`MailInv`); the current streak is the run ending at that day, and the longest one is at
  least the run ending at any day (`RunInv`).

### Learning: `LearningProofs`

* `TypesAreKept`, `EngineIsClean`, `AllMasteredIsProved`.  The first bounds the arithmetic:
  `Update` of a probability is one, for every tier.  `EngineIsClean` follows the facts
  through both rounds and the exceptions.  `AllMasteredIsProved` is about every ontology
  without a cycle: whenever the rules recommend nothing in the reserve round, everything
  practicable is mastered.  If it were not, `AcyclicAssumption` gives an unmastered concept
  all of whose prerequisites are mastered (`NothingLeft`); the masks on transversal and
  underfilled concepts (`Honest`) make sure that it is one that can be recommended, and
  the rules would have found it.
* `MasteryIsProved`.  The chain of a user and concept is unbroken because what an
  update in progress is about to write is the update of the newest point, also after the
  await between two concepts (`RowsReady`), and because the purge re-links what it leaves
  (`ChainInv`).  That nothing is applied more often than delivered is an account: the
  points an attempt has left, and those it may still leave from the mailbox or the desk,
  are at most its deliveries (`DeliveryInv`).
* `OffersAreWorkable`, an action property: only the Recommender's reply offers a concept,
  and what it offers is what the rules chose from the snapshot (`ChoiceInv`), looked up
  in the tables as they are now.  A chosen concept has tasks whoever has solved them, so the
  offer is never "exhausted".

### Judging: `JudgingProofs`

* `TypesAreKept`, `NothingStays`, `ReferencesAreAccepted`.  The committed rows are a
  permutation of the seeded ones, or of what the last text that committed for itself has
  made of them (`Last`).  A text may do so in the middle of any call (`EffectKept`), and
  what a call holds apart from that never reaches the table.  `ContentsAssumption` says no
  more than that contents are sequences of rows.  A reference query's answer is what was recorded, or a timeout on
  somebody's lock, or a lost connection (`RunInv`); and while a judge compares plans, the first one
  is that of the dead rows he saw (`PlanInv`), so that a mismatch means that they moved.
* `AcceptedAreTheSame`: `compare` strikes off the first row that fits, and equality of values
  is not transitive (a number as text equals a number, two spellings of it as text do not
  equal each other), so a greedy match might fail where another pairing exists.  That it never
  accepts wrongly holds for any rows (`GreedyIsSound`).  That it never misses holds because
  rows equal to one and the same row can take each other's place as long as each column
  has one type (`ValuesInterchange`, `GreedyIsComplete`): whatever the greedy choice took from
  the other pairing can be repaired by an exchange.  `FoundInv` and `ExactInv` carry
  the comparison from the step that ran the statement to the one that concludes.

### Records: `RecordsProofs`

* `NumbersStayDense`, `GivesUpOnlyInARace`, `TypesAreKept`.  Density alone is not
  inductive: an insert keeps it only because the number it finds free is the next one.
  That needs what a call has seen to be at most the present count (`SeenInv`), and then
  a free number between 1 and count + 1 is count + 1.  `SeenInv` adds up the refused
  inserts: each refusal means that the count has grown past what was seen.
* `PagesAgree`: the page of a concept agrees with itself in every state whose active
  tasks are tasks; what it needs is that the order of choice is total, so that the
  query's `LIMIT 1` leaves exactly one.
* `PagesMissNothing`: the client's walk through a list, whatever is committed and
  rewarded meanwhile.  The argument is about places: the place of a row is one more than the
  number of rows before it, an `ORDER BY` with its tie-break leaves no other order
  (`OrderIsByPos`), and a page shows the rows whose places are on it (`PageShows`).  In a
  history rows come and none goes, so a place only moves back, and the rows the
  client has passed he has been shown (`NothingSkipped`).  For the lists that did not change
  the invariant cannot speak of the past, so it says that a list only grows while
  the clock stands (`ListGrows`, which needs that sums grow with the attempts
  rewarded), and what has grown and is as it was had not changed in between (`GrownAndBack`);
  then the rows shown are those that stand there (`InPlace`).
* `ScenesAreApart`: a behaviour of the run is one of each of its scenes, so what is
  proved of a scene alone holds in the run.

### Operations: `OperationsProofs`

* `ImportsUndoNothing`: for any sequence of scripts.  Between imports the table and the
  dataset differ only in repairs the dataset was not told of (`LedgerInv`), and what a
  running repair has noted is what the table holds (`RepairInv`), so that telling the
  dataset at the very end is right.
* `PurgesAreAlwaysWhole`: wherever a script breaks off and whatever the agents commit
  beside it.  The invariant relates the statements a transaction has still to run
  (`Planned`, `Later`) to what it has deleted so far: whoever is deleted may be, and
  attempts whose user stays are the admin's.
* `ExportsNameEveryone`: the export knows users by a query of its own, made before the
  rows are read.  `ExportOK` says that all it holds stays among the users, as no script
  deletes beside it, and that the step to the identities is only taken if the map covers the rows.
* `PhantomsAreAllFound`: the report counts failures by concept and the list is made of
  cells, so the property needs an account by concept: its failures on file
  together with the tasks it is short of.  While a batch works on a concept taken up
  once, that account less what is still to do is what the batch has counted (`BatchInv`);
  after the batch it is at most what any report says (`ReportInv`), the one in force or
  one put aside (`Said`), so when the failures on file reach the reported ones nothing is
  missing.  Bringing reports together says nothing new of any concept (`ReportsKeep`).
  A concept nobody has taken up has no files (`FreshInv`, `TakenInv`), and what is on the
  list has been reported (`ListInv`).
* `DesksAreApart`: as `ScenesAreApart`, for the three desks.

### What is only model-checked

Liveness, and whatever depends on fairness: `EveryFlowReleased`, `EveryAttemptProcessed`,
`EveryRequestAnswered`, `NoSubmissionLost`, `EveryHintRequestAnswered` and
`DiligentStudentFinishes`.  The properties of section 6 are refuted by TLC.  Every
safety invariant and every action property of a passing run has its theorem.

## 8. What is left out

* What an agent computes, where a module of its own computes it: in the flow, a
  database write is the set of attempts it was made for.  The modules of parts 2
  to 7 take the flow's messages as their inputs and are not run under it.
* Text: hints, prompts, feedback, explanations, log lines, traffic records.  The
  projection of a wrong attempt that decides what the LLM may see is one boolean.
* The abstract syntax of SQL (`ast_analyzer.py`, the concept detectors): whether a
  proposal shows its concept is one boolean of `Verdict`.
* What a submitted text sets for its own call other than transaction and role
  (`statement_timeout`, `search_path`), and objects other than the one table.
* BKT is in thousandths, rounded down; the code's floats differ in the last digits,
  which no threshold in the model is close to.
* `Purge` runs while no update is under way, because it is a manual script; the
  order of two transversal concepts does not matter because none leads to another
  (`TransversalAssumption`).
* `prepare_eval_baseline` also empties `agent_messages_log` (line 435), the record of
  the agents' messages, which nothing reads back.
* Token signing and password hashing are library calls; sessions and the pool of
  connections, application start and stop carry no state between requests.
* Statistics and the sweep's other gates only read; `meta_generate_yamls` writes
  drafts that a person reviews.
* The frontend other than the turning of pages: it presents what the routes
  return.
