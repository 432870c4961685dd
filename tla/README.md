# Verification of CMO_Lua_generate

`CMO_Lua_generate` turns a scenario description into Lua for the CMO simulator,
runs it, scores the result and, generation after generation, lets language
models propose better strategies, learns from the comparison and distils what it
learned into reviewed skills. What is hard to test in it is not the text it
generates: it is a durable scheduler in background processes, Campaigns whose
Workers are daemon threads, JSON files as the only shared memory, lock files,
stores written file by file, a transaction in which an agent repairs the
program's own source, and a chain of validators that must agree with each other.
This directory holds TLA+ models of it, the TLC runs that check them and the
theorems proved about them. Source paths below are relative to
`src/src/cmo_lua_agent/` unless they say otherwise.

## 1. Inventory

| component | state it keeps | operations | hard behaviour | module |
|---|---|---|---|---|
| training store and lock (`training/store.py`, `models.py`) | `state.json`, `runner.lock`, `request.json` | `load`, `transition`, `acquire`, `release` | read-modify-write without a lock; a lock file that survives its process | `TrainingWorkflow` |
| training runner and Runtime (`training/runner.py`, `runtime.py`) | the round's snapshot of the state | reconcile, `run_once`, retries, repairs, aggregation | death between a call and its transition; commands that arrive meanwhile | `TrainingWorkflow`, `CodeRepair` |
| training service (`training/service.py`, `process.py`) | `runner-process.json` | start, inspect, pause, resume, stop | several clients, each of which may start a Runtime | `TrainingWorkflow` |
| code repair (`training/repair.py`, `recovery.py`) | recovery record, snapshot zip, working tree, commits | snapshot, agent, gate, replay, commit, push, restore | death between any two; the user's own edits | `CodeRepair` |
| Campaign control plane (`evolution/control_plane.py`, `cmo_lock.py`) | previews, operations, Worker files, control request, checkpoint, CMO lock | prepare, preview, execute, inspect, pause, stop, resume, reconcile | Worker threads race with reconciliation and with each other for CMO | `CampaignWorkers`, `GenerationExecution` |
| attempt ledger and approvals (`evolution/campaign_store.py`) | control state, operation ledger, run count | grant, authorize, start, complete, revoke, reconcile | three files, written one after the other, by two threads | `CampaignLedger` |
| preview building and proposals (`evolution/production_preview_builder.py`, `agents/strategy_proposal_agent.py`) | revision directories, previews, trace of attempts | propose, repair, gate, freeze, resume | resumed from half-written revisions; two judges of one role | `StrategyPatch`, `CandidatePreview` |
| generation executor (`evolution/production_executor.py`) | candidate outcomes, leaderboard, result | the candidate loop, gate, ranking, Phase 7 and 8, champion | reuse of what an earlier Worker left | `GenerationExecution` |
| candidate evaluation (`optimization/`) | attempts, outcome | render, run, score, repair, cancel, rank | requests between two steps, budget over restarts; which reports count | `GenerationExecution`, `CandidateScoring` |
| experience learning (`learning/`) | learning files, experience records, index, exclusions | compare, gate, save, replay, rebuild evidence | death between files and store; offline scripts on the same files | `ExperienceLearning` |
| skill evolution (`learning/skill_evolution/`) | run files, pending, curated and rejected packages, `current.json`, ledger | aggregate, author, validate, approve, reject | repeated runs after a death; a person deciding meanwhile | `SkillEvolution` |
| single-scenario workflow (`orchestration/scenario_workflow.py`, `artifacts/`) | run directory, workflow result | stages from ingest to report | failing writes, two calls of one run id | `ScenarioWorkflow` |
| contract and IR (`contract/`, `integrations/cmolua/`) | none | structure, meaning, IR, database, manifest | rules that must agree over eight stages | `ScenarioContract` |
| Lua generation (`generation/`, `src/CMOLua-main/tools/json_to_lua.py`) | none | generate, preflight, compile, render, overlay | two assemblers of one plan; a script that must load whole | `LuaGeneration`, `StrategyScript`, `MissionRuntime` |
| CMO execution (`execution/`) | batch configuration, process, results | switch, run, time out, kill, restore, judge | a process that outlives its caller, files found by their age | `CmoExecution` |
| agent loop, context, chat sessions (`orchestration/`, `cli/chat.py`) | messages, compacted copy, transcript | turn, tool batch, interrupt, compact, switch | calls must stay paired with results on disk and on the wire | `AgentSession` |
| permission hooks (`hooks/`) | none | ask, approve | one approval for one call, also in automatic recovery | `AgentSession` |
| Lua repair loop, LLM clients, CLI, bootstrap, memory | — | — | — | not modelled (section 8) |

How they interact: the chat calls tools. One of them runs the single-scenario
workflow, which makes a script of a scenario; another one executes a script in
CMO. The training tools write a request and start a Runtime process, which holds
`runner.lock`, loads `state.json`, chooses one action, calls the Campaign service
and writes the next state. `PREVIEW` asks a model for four candidate strategies
and freezes them in a revision; `EXECUTE` starts a Worker thread inside the
Runtime's process, which owns the CMO lock and has its operation in the ledger,
assembles each candidate's script, runs it through the CMO runner, ranks the
outcomes and learns from them; `WAIT_WORKER` polls what the thread has saved.
Clients change `state.json` and the Campaign's `control-request.json` at any time.
An exception of an action goes to the recovery router: retry, repair of the
source, or stop. The experiences come back as knowledge in the next preview,
and when all generations have a result, Phase 8 drafts a skill of them that a
person approves or rejects.

What makes each part correct, in a sentence each: the schedule never runs ahead
of results on disk; one scheduler and one CMO run; nothing that ran is run again;
what the broker lets through is paid for and counted; no learning from less than a whole generation, and
nothing learned that CMO did not report; no commit of code that has not passed
the gate, no loss of the user's work; a frozen candidate is the one accepted, and
executable; what CMO is ordered is what was planned; a verdict rests on its own
run; what a later stage refuses an earlier one never vouched for; a skill is active
only as it was approved; a conversation stays valid whatever interrupts it; and
whatever dies, something takes over or the Workflow stops.

## 2. Modules

```
CampaignWorkers            operations and threads of a Campaign, no Next of its own
  ^ EXTENDS                          ^ INSTANCE, refined (WorkersRefined)
TrainingWorkflow           GenerationExecution
  ^ TrainingWorkflowProofs   ^ GenerationExecutionProofs

CodeRepair             CampaignLedger             SkillEvolution             CmoExecution             AgentSession
  ^ CodeRepairProofs     ^ CampaignLedgerProofs     ^ SkillEvolutionProofs     ^ CmoExecutionProofs     ^ AgentSessionProofs

ScenarioContract    StrategyPatch        CandidateScoring        StrategyScript
  ^ LuaGeneration     ^ CandidatePreview   ^ ExperienceLearning    ^ MissionRuntime
    ^ ScenarioWorkflow  ^ CandidatePreviewProofs
```

Each module with a specification has an `MC` module with its instance. The bottom
row shows pure functions of the code as operators, and above them the
state machines that call them.

**CampaignWorkers** is the library of Campaign steps. A Worker is a status in
the sequence `workers[g]` (one entry per epoch) and, while it lives, a record in
`threads`. The calls of `EvolutionCampaignService` and `GenerationWorkerManager`
are actions between two accesses to shared files: `OpenPreview`, `BuildPreview`,
`SavePreview`, `FailPreview`; `StartOperation` (CMO lock and STARTED record),
`LaunchWorker` (Worker file and thread); `WriteResult`, `SaveCompleted`,
`AdvanceCampaign`, `ReleaseCmoLock` for a thread that succeeds, `SaveUnfinished`
for one that pauses or is cancelled, `FailWorker` for one that raises, even after its
end was saved. Reconciliation reads the store (`CurrentFinding`), then saves the Worker
(`ReconcileWorker`), then the Campaign (`ReconcileState`), with anything in between. Taking
the CMO lock and recording STARTED are one step: nothing reads between them.

**TrainingWorkflow** composes them with the scheduler. `st` is `state.json`;
each Runtime `r` has a program counter `pc[r]`, what its reconciliation read (`found[r]`)
and the state `snap[r]` its action
was chosen from, each client a program counter `ctl[c]` and the state `draft[c]`
it computed but has not written — the two halves of the unlocked
`transition`. One Runtime step is one piece of `TrainingRunner` between two
points at which another process can see or change a file. Processes start
(`StartProcess`), die (`Crash`) and end (`ProcessEnds`), with their threads. The
Runtime has no repair coordinator here; a decision to repair stops it, and
`CodeRepair` has the coordinator.

**GenerationExecution** opens the Worker of `CampaignWorkers`: its file
variables are the artifacts of one generation, its memory variables (`pc`,
`cursor`, `gathered`, `phase7`) the locals of `ProductionGenerationExecutor.run`
and `CandidateEvaluationWorkflow.evaluate`. Its steps are again the stretches
between two reads of the control request or two files that another Worker will
read. Compiler, validators, CMO and language models are choices of their outcomes, and an
exception may end a Worker anywhere (`WorkerRaises`).

**CodeRepair** is the transaction: `st` with its recovery record, the files of
the repair scope as versions (`tree`, `head`, `archive`), the commits and what
the remote has, the Runtime's program counter, and a client that can overwrite
the state. The user edits files at any time (`UserEdits`). `verified`, `users` (every
version he made, and whether during a repair) and `mine` (what he made between repairs
and has not touched during one) only observe.

**CampaignLedger** has the three files of a generation's attempts (`control`,
`ledger`, `runs`), the approvals and the Worker's operation. Two threads — the
caller and the Worker — are sequences of writes they still owe (`job`): each
store call computes its writes under the lock and performs them one by one, in
the order control state, ledger, run count, and a `Crash` may leave any prefix
of them. Both are threads of one process: the lock (`Enter`) is an `RLock` in memory and
keeps out no other. A Campaign asks through attempt slots or through single attempts; or its
Worker does not ask (`asks = FALSE`): that is production, where `RunCandidate`
(`CampaignAuthorizedCandidateRunner.run`) starts CMO under nothing but the Worker's own
operation. `launches` observes what reached CMO through the broker, `unasked` the Workers
that started it without.

**StrategyPatch** is the data of a proposal: the catalogue of leaves a
patch may change, the ranges, the strategy validator, and the two judgements of a
candidate's role (of the proposal agent and of the quality gate).
**CandidatePreview** is the process: `disk[r]` is a revision directory
(trace, quality report, frozen set, diff, snapshot, failure), `previews` and `ledger`
the Campaign's records, `job` the call under way with the attempts it gathered.
`preview_generation` and `resume_preview_from_candidate` are sequences of
actions, one per file or model reply; `Crash` leaves what was written. Of
`repair_preview_candidate` the refusals are left (`AskRepair`): the builder repairs only a novelty
failure that no step of a proposal reports any more, so every call is recorded, refused
and marked as failed. Builder and agent live as long
as their process and keep the counts of the last call (`Rest`); a call that fails before it
asks the model is charged with them. `acceptedAt` only observes.

**CandidateScoring** says which summary of a CMO run counts: evidence status,
chain of score events, the two rankings, the conclusion, and the reconstruction of
evidence from the score rules. **ExperienceLearning** is who uses it: a Worker, a
rerun and the script `rebuild_phase7_evidence.py` are tasks over `published`, `backup`,
`outcomes`, `board`, `learning`, `records`, `index` and `excluded`, one file per step;
`snapshots` are what the previews were shown, best records first and three or two of a
tactical type. `truth[slot].reset` is the finding of a `ScenarioResetProbe`, which
production does not give a standalone generation and its CMO tests do.

**SkillEvolution** has the directories `pending`, `curated`, `rejected`, the
records of decisions, `current` and the `ledger`, each as the file contents the
code distinguishes. A Phase 8 run (`run[r]`) and a person's `command`
are the write sequences of `SkillEvolutionWorkflow.run` and of `approve` and `reject`.

**ScenarioContract** gives the issues of every validator for a scenario record,
and what the IR, the database resolution and the manifest make of it;
**LuaGeneration** the tables and orders the generator writes and what the preflight
reads out of them. **ScenarioWorkflow** runs them: `call[c]` is one call of the tool
with its state in memory, `disk[r]` a run directory, and `Pipeline` the list of the
stages in the order of `ScenarioWorkflow.run`; every write, the database and
the generator may fail.

**StrategyScript** compiles a strategy to an execution plan and a plan to the lines
of a script, by the generic renderer and by the operator's template.
**MissionRuntime** plays that script: lines load under refused calls, scheduled
bodies (`events`) fire in any order, order, poll and reschedule themselves.

**CmoExecution** has the configuration files (`script`, `traced`), the external
BatchRunner of each execution (`proc`, `batch`) and the caller's locals. The process
reads the configuration when it comes to it and outlives a caller that is killed.

**AgentSession** is one terminal: `chat` with the history in memory and the
request under construction, `context` with the compacted copy, `files` and `active`
on disk. A history is a sequence of queries, replies with calls, results, summaries.

Every module names its bounds (`Max...`, `Budget`) as constants and says in
which guard they cut. Limits of the program itself are constants where the program
has them configurable (`MaxRepairs` of `GenerationExecution`, `MaxRuns` and `Cap` of `CampaignLedger`, `CallBudget`, `Threshold`)
and literals where they are literals in the code (three recovery attempts).

## 3. Runs

| run | instance | checks |
|---|---|---|
| `training_safety` | 2 generations, 2 Runtimes, 2 clients, 1 crash, 1 command, an operator who removes stale locks | `TypeOK`, `CompletedGenerationsBacked`, `GenerationsInOrder`, `CmoExclusive`, `SingleScheduler`, `AggregationAfterAllGenerations` |
| `training_liveness` | 1 generation, 2 Runtimes, 1 client, an exception or a Worker that fails, pauses or stops, 1 crash, 2 commands, 3 epochs, an operator who removes stale locks | `SettlesDown` |
| `repair_transaction` | 2 files, 2 edits by the agent or the user, 2 exceptions, a git fault, a half-way restore, 2 crashes, 2 commands; at most 4 of these together, an edit of the user counted twice | `TypeOK`, `SourceSafe`, `UserWorkKept`, `RepairEnds` |
| `generation_execution` | baseline and 1 candidate, 2 scores, 1 repair, 1 experience, 2 Workers, any 2 disturbances | `TypeOK`, `GenerationSound`, `StepsSound`, `WorkerConcludes` |
| `campaign_ledger` | 2 slots or 2 single attempts, 2 Workers, 2 approvals, 2 commands, 1 crash, a budget of one run, enforced or not; or a Worker that does not ask | `TypeOK`, `AttemptsAccounted`, `ApprovalsEnd`, `ResumeReports` |
| `candidate_preview` | 4 candidates with a good reply and every kind of refused one each, 3 revisions, 2 faults | `TypeOK`, `FrozenSetSound`, `RevisionsImmutable` |
| `experience_learning` | baseline and 2 candidates, 33 truths in 2 modes, 5 replies, 2 tasks, 1 crash, 2 snapshots | `TypeOK`, `KnowledgeSound`, `RecordsKept` |
| `skill_lifecycle` | 2 runs over 6 experiences, 2 versions, 3 starts, 2 commands | `TypeOK`, `ReviewSound` |
| `scenario_workflow` | a sound scenario of 5 units with every pair of 39 changes; single changes with one fault of each kind; two calls at once | `TypeOK`, `AnswersSound`, `VerdictStable` |
| `mission_script` | 6 units, 3 missions, 21 strategies, both executors, 2 refused calls, 2 losses | `TypeOK`, `StrikesAsPlanned`, `AircraftComeHome` |
| `cmo_execution` | a chat or a candidate, 2 executions, 2 faults, 1 crash, a BatchRunner that may hang | `TypeOK`, `ResultsSound`, `ConfigReturned`, `ExecutionReturns` |
| `agent_session` | 2 sessions, 2 starts, 1 switch, 3 queries, 2 replies of up to 2 calls, 1 abort | `TypeOK`, `SessionSound`, `TranscriptsGrow` |

The properties in words. A name in italics is a conjunct of the property before it,
defined under that name in the module.

Training and repair:

- `CompletedGenerationsBacked`: `completed_generations` is exactly the prefix
  below `current_generation`, and each member has its result on disk. It is a
  fact about a file that four kinds of writers overwrite from stale copies.
- `GenerationsInOrder`: no preview and no Worker of a generation exists before
  every earlier generation has its result.
- `SingleScheduler`, `CmoExclusive`: the two lock files exclude, also when
  clients start Runtimes concurrently and an operator deletes the locks of the dead.
- `AggregationAfterAllGenerations`: Phase 8 is neither run nor recorded, and no
  Workflow is COMPLETED, while a result is missing.
- `SettlesDown`: whatever fails, dies and is commanded, a Workflow leaves RUNNING for good,
  or is for ever in a state that needs an operator (`NeedsOperator`): a `runner.lock` whose
  owner is gone, an operation started without a Worker, a Worker saved as running without
  its thread, or a first Worker that is paused or awaits reconciliation. The instance
  reaches each of these, and without any one of them in the list TLC refutes the property:
  it says what the code leaves to a person, and that it leaves nothing else.
- `SourceSafe`: the commit recorded as last good is on the remote
  (*LastGoodPublished*); what a repair commits has passed the gate
  or was put there by the user during the repair (*CommitsVerified*); no action runs on a half-made repair, unless a restore itself
  failed or a command overwrote the record (*CleanSource*).
- `UserWorkKept`: what the user did between repairs, to files he leaves alone during
  them, is in no automatic commit, and outside repairs it is on disk, unless a restore
  failed half-way or a command overwrote the record. Edits he makes while a repair is
  under way have no such protection: they are undone or committed with it (section 7).
- `RepairEnds`: a repair under way does not stay REPAIRING, whatever commands,
  faults and deaths do.

A generation:

- `GenerationSound`: repairs count over all Workers (*RepairsWithinBudget*); at most
  one more CMO run starts after a request (*RequestHonoured*); the experience
  store never mixes two comparisons of a generation
  (*ExperiencesFromOneComparison*); the formal result covers every slot, agrees with
  the disk, and its champion is eligible and beats the baseline by the required
  margin (*ResultSound*).
- `StepsSound`: the outcome of a candidate that ran never changes
  (*EvidenceKept*), and the detailed Worker takes only steps that `CampaignWorkers`
  allows, under the mapping at the end of `GenerationExecution`
  (*WorkersRefined*): the result before the completed Worker, and after a saved end at most a
  failure. What `TrainingWorkflow` assumes of a Worker is thereby
  checked against the executor's code. The mapping has one blind spot, which its
  comment names: `resume_campaign` may set back the Campaign's index.
- `WorkerConcludes`: while a Worker is saved as running, the generation gets its
  result, or no Worker is saved as running any more.
- `AttemptsAccounted`: of the attempts that the threads of one process launch through the
  broker, none reaches CMO twice, no grant pays for more than it was given, an
  enforced budget is kept, and each is in the run count. It is a statement about the
  protocol of broker and store. It says nothing of the runs production starts without the
  broker, which nobody authorizes, limits or counts (section 7).
- `ApprovalsEnd`: nothing is authorized under a grant older than the last pause,
  stop or resume, however late the Worker acts on what it read.
- `ResumeReports`: a resume without a living Worker names every attempt that may
  have reached CMO and has no recorded end, and every Worker that started CMO without
  asking and whose row has none. The second half is all that production leaves of its runs,
  and it depends on writers that share the ledger without a lock.
- `FrozenSetSound`: four different, executable strategies that change one to ten
  leaves (*FrozenSound*), each the patch that was accepted in this revision or in the
  nearest one it was resumed from (*FrozenAsAccepted*); a candidate the quality
  report calls weak has been repaired, so the two judges of a role agree
  (*WeakCandidatesWereRepaired*); preview, operation and Campaign state rest on
  complete files (*PreviewBacked*).
- `RevisionsImmutable`: a revision with its failure report or preview never changes.
- `StrikesAsPlanned`: at most one accepted order per attack, with shooter, target,
  weapon and quantity of the strategy (*OrdersAsPlanned*); orders of one magazine
  leave the largest reserve asked for (*MagazinesKept*); an accepted script loads
  unless CMO refuses a call, and nothing is scheduled before every score rule is
  installed (*ScriptsLoad*).
- `AircraftComeHome`: no chain of polls ends with an aircraft on its route and no
  order to return.

What is learned:

- `KnowledgeSound`: ranks follow the scores of runs that count (*RanksSound*); a
  rebuild keeps CMO's report and claims no more than its events show
  (*EvidencePreserved*); a tactical record rests on candidates that ran and were
  scored, a promotable one on evidence CMO vouched for (*ExperiencesGated*); a
  replay makes the records of the first pass (*ReplayAgrees*); a later preview misses a
  record an earlier one was shown only if the record was excluded or gave its place to one
  of no less quality (*SnapshotsAccountable*).
- `RecordsKept`: no record of the store changes or disappears.
- `ReviewSound`: the active version is archived, passed and approved with the checksum
  a person named (*ApprovedDraftActive*); a version keeps the rules of the one before
  (*RevisionsAccumulate*); a draft reported for review survives later runs
  (*ReportedPackageKept*); an answered decision is complete (*AnswersDurable*).

One scenario, one execution, one chat:

- `AnswersSound`: a success has a complete, valid directory whose script creates the
  caller's units (*SuccessSound*) and orders every missile of the plan once, from
  one of its shooters at one of its targets (*PlanCarriedOut*); a refusal is that of
  the first stage that refused (*FailureExplained*); whatever stopped, the result on
  disk says so unless the state file itself could not be written or the process
  died (*StoppedRunsSaySo*); no stage refuses what an earlier one vouched for, with
  the three exceptions it names (*StagesAgree*).
- `VerdictStable`: an ended run's directory never changes, whoever uses its id again.
- `ResultsSound`: a candidate's attempt is judged by its own script, process and
  directory (*AttemptVerdictSound*); a chat's result rests on its own script and process,
  too, and names its own directory or that of an execution of the same chat nothing was
  saved of (*ResultsOfOwnScript*, *ForeignDirectoryAbandoned*): a chat takes the newest
  directory (`cmo_process_runner.py:464`), and the instance reaches such a foreign one;
  nothing reported can still be written (*ReportedProcessEnded*).
- `ConfigReturned`: script and audit profile are back after every execution that ended
  with success, timeout, failure or interrupt, unless the failure or the interrupt met the
  switch before the `try` or the restore in the `finally` themselves.
- `ExecutionReturns`: every execution returns although BatchRunner may hang.
- `SessionSound`: interrupts, compaction and switches leave no call of a request without
  its results; only the calls of a reply that the model itself cut off are open, and the
  service then refuses the request (*RequestsProtocolValid*). A request covers the whole history
  (*RequestCoversHistory*); finished tool batches are on disk when the user can type
  again (*WorkRemembered*); a tool that needs approval has the approval of that very
  call (*ApprovalsHonoured*).
- `TranscriptsGrow`: a transcript only grows, until a write is cut off.

### Why the bounds are enough

- Training: two Runtimes and two clients give every overlap of two writers; a
  third adds another copy of the same race, since each step involves one file
  and one process. Two generations are the smallest number with "the one before"
  and "not yet all". For liveness one generation is enough, since a Workflow is stuck in
  one generation at a time; no behaviour of the instance needs a fourth Worker, so the
  bound on epochs keeps no Runtime waiting.
- `repair_transaction`: two files tell the agent's file from the user's, two crashes a
  death during recovery from a death. Four disturbances together contain an edit by
  the agent, an exception and two things that go wrong; an exception, an edit by the agent
  and one by the user at any point of the repair; or a pause and its resume around an exception.
- `generation_execution`: baseline and one candidate have the first slot, the last and
  a boundary between them; two scores and a margin of one give loss, tie and
  win; two disturbances give pause-then-resume, crash-then-pause, an exception followed
  by a reuse, and a Runtime that reconciles beside a living Worker. Two Workers suffice for
  one to inherit from another. A command that would change nothing is not counted.
- `campaign_ledger`: a budget and a grant of one are exceeded by the second of two
  slots; two approvals distinguish the revoked one from its successor, two
  commands pause-then-resume; the crash falls between any two of the three writes. A
  Campaign asks in one of the two ways, so slots and single attempts share their names. The
  Worker that does not ask is checked with slots, which production grants, and without
  limits, which only the broker reads.
- `candidate_preview`: the four candidates are the code's. Each is answered with its
  good patch or one patch per reason of refusal; three revisions give a resume of a
  resume; two faults a repair that fails, or a death followed by one. A budget of 24 calls
  covers the longest proposal (17) with a resume (4) and a repair (2) after it, and a
  second proposal only if the first was short. One candidate is asked to be repaired
  (`Repaired`): what the call does depends on the revision alone.
- `experience_learning`: each truth varies one candidate or the baseline over every kind
  of report the evaluation tells apart. Two tasks give learn-then-rerun,
  rebuild-then-learn and each interrupted by the crash. Two earlier records
  show what is added to what was there; with two previews the poorer one loses its
  place to those learned in between.
- `skill_lifecycle`: one run reads a part of what the other reads, one experience
  qualifies its rule, one is excluded in between; the third start repeats a dead run, two
  commands give approve-then-reject and each repeated after a death.
- `scenario_workflow`: a rule of the validators relates at most two facts of a
  scenario, so pairs of changes reach every combination of two; faults need only
  a single change, because a stage stops at the first refusal.
- `mission_script`: two ships' attacks share a magazine, one aircraft has a base,
  route and tactics; 21 strategies are the baseline with one change per rule, nine of
  them accepted. Polls run to their limits of 2 and 3.
- `cmo_execution`: the second execution meets what the first left, alive or dead.
- `agent_session`: a window of two messages and a threshold of eight are passed by two
  queries with tools; two ratios of the token estimate compact early and late.

`training_safety` and `campaign_ledger` use symmetry (processes and clients; slots and
attempts); no run with a liveness property does. `CHECK_DEADLOCK FALSE` is set
wherever a run of the program is meant to end: a Workflow that is COMPLETED,
STOPPED or FAILED, a generation with its result, a store nobody uses any more, a
chat that was left, a script whose events are done. `scenario_workflow` checks
deadlock, with an explicit step for the state in which all calls have ended.

## 4. Fairness

- `TrainingWorkflow`: weak fairness of each live Runtime (the operating system
  schedules it) but not of exceptions; of a live Worker thread; of a client's
  call once begun, and of `Inspect`, because the chat keeps polling
  (`inspect_training`), which is also how the code restarts a dead Runtime. No
  fairness is assumed of crashes, commands, unfinished Workers or the operator.
- `CodeRepair`: the Runtime, the second half of a client's command, and the
  restart by inspect; the agent's session is bounded by its timeout, here by `MaxEdits`.
- `GenerationExecution`: the Worker thread as a whole (it is one thread, so one weak
  fairness condition over its steps), and a reconciling Runtime: one starts after a death,
  and what it began it finishes unless it dies. A CMO run
  always ends because `CmoRunner` kills it at its timeout; that is `ExecutionReturns`.
- `CmoExecution`: the steps of each caller. None of them waits for another process
  without a deadline. Nothing is assumed of BatchRunner, and none of a crash or fault.
- `MissionRuntime`: the simulator runs every event that was scheduled; it owes no
  take-off, no landing and no success of an order.

The other modules state safety only: their processes may stop anywhere, and what
they promise they promise of what is on disk at any moment.

## 5. Proofs

Every theorem holds for all values of the constants that satisfy the named
assumptions of its module. These type the constants (bounds are natural numbers,
budgets and scores integers) and beyond that say only:

- `CampaignAssumption`: there is at least one generation, and the content of a missing
  lock file is no process. `TrainingAssumption` types the rest.
- `RepairAssumption`: the repair scope has a file; the value that stands for "no commit"
  or "no snapshot" is neither. `GenerationAssumption`, `NoneAssumption`,
  `ExecutionAssumption`, `ResultAssumption` say the same of their "nothing" and of the
  names of shared files.
- `SkillAssumption`: the experience store is finite.
- `PathsAssumption`: the catalogue of a patch names leaves of the baseline, and each leaf
  belongs to an attack or a sortie; `PreviewAssumption`: the candidates a repair is asked
  for are candidates.
- `LedgerAssumption`: slots and attempts are finitely many, because approvals are compared
  by counting them; the Workers' operations have different names, none of which is a
  slot's or an attempt's.
- `SizesAssumption`: a compaction keeps at least one message and has a positive threshold;
  the value for "no session" is not the name of one.

Sets of processes, clients, callers and files may be infinite and every bound is
arbitrary. Nothing is assumed of what CMO, the models or the gate answer.

| property of a run | theorem | module |
|---|---|---|
| `TypeOK`, `CompletedGenerationsBacked`, `GenerationsInOrder`, `AggregationAfterAllGenerations` | `TypeCorrect`, `CompletedBacked`, `InOrder`, `AggregationLast` | `TrainingWorkflowProofs` |
| `SingleScheduler`, `CmoExclusive` | `OneScheduler`, `OneCmoWorker` | `TrainingWorkflowProofs` |
| `TypeOK`, `SourceSafe`, `UserWorkKept` | `SpecImplies...` | `CodeRepairProofs` |
| `TypeOK`, `GenerationSound`, `StepsSound` (with *EvidenceKept*, *WorkersRefined*) | `SpecImplies...` | `GenerationExecutionProofs` |
| `TypeOK`, `AttemptsAccounted`, `ResumeReports`, `ApprovalsEnd` | `SpecImplies...` | `CampaignLedgerProofs` |
| `TypeOK`, `FrozenSetSound`, `RevisionsImmutable` | `SpecImplies...` | `CandidatePreviewProofs` |
| `TypeOK`, `ReviewSound` | `SpecImplies...` | `SkillEvolutionProofs` |
| `TypeOK`; `ResultsSound` and `ConfigReturned` beside one chat | `SpecImplies...` | `CmoExecutionProofs` |
| `TypeOK`, `TranscriptsGrow`, `SessionSound` | `SpecImplies...` | `AgentSessionProofs` |

`TrainingWorkflowProofs`. The stored state alone is not inductive: a Runtime
writes fields it read long ago. `Inv` therefore says of every copy of the state
that is still to be written — `st`, each `snap[r]`, each `draft[c]` — that it lies
in `SafeStates`, the states whose completed prefix is backed by the results on
disk. Because results never disappear, a safe copy stays safe however long a
process holds it (`SafeStatesGrow`), and an unlocked write can lose progress
but cannot invent it. The other parts tie calls in flight to their justification:
`CallsJustified` (a Runtime previews or executes only a generation whose
predecessors are backed), `FindingsJustified` (the Worker a Runtime found dead exists, and
the result it found is still there when it acts on that), `AggregationJustified` (whoever is inside Phase 8 has all
results), and `CampaignInv`, proved action by action in the first part of the module,
which is about `CampaignWorkers` alone: a thread past `WriteResult` has its result, and a completed Worker has its result.

The last part is about the locks: in `LockInv` each lock file names the process that is inside,
and every live thread is of the process the CMO lock names; removing the lock
of a dead process preserves it since its threads died with it.

`CodeRepairProofs`: `SourceSafe` and `UserWorkKept` speak of what is stored, while the
transaction holds half of the truth in memory. `RepairInv` adds where the snapshot is
that of the repair under way (`SnapshotOfRepair`), which recorded commits the remote
already has, also in a copy a client has not yet written (`Published`), what
the gate has seen, or the user has put there, while a commit may come (`GateSeen`), and
that versions are new (`NoNewerVersion`). Why a commit leaves the user's work between
repairs out is in `Undoable` and `SnapshotOfRepair`: such a file was dirty when the repair
began, so it is in the list of changed paths only if the agent touched it, and then the
repair is undone. The difficult part is the last: a death leaves edits on disk, and
whether the next Runtime undoes them depends on the stored record alone. `RecordTells`
says that without commands and failing restores the record is that of
the repair, and `Undoable` that then disk or snapshot always holds sound files
and the record says which of the two.

`GenerationExecutionProofs`: the list a Worker gathers agrees with the outcomes on disk for
every slot it has passed (`GatheredAgrees`), so the ranking, which writes the whole list
back, changes nothing that ran; a thread exists only under the CMO lock and with its
Worker saved (`LockHeld`, `WorkerSaved`), so what it saves last is its own end. With
`EvaluatesOnce`, `RepairsCounted`, `RequestPending` and `LearnedOnce` this makes
`GenerationSound` inductive. *WorkersRefined* follows from the same invariant action by
action: each step of the executor is, under the mapping, a step of `CampaignWorkers`
or leaves it unchanged.

`CampaignLedgerProofs`: with attempt slots everything rests on the control
state, which only the holder of the store's lock writes: `SlotsAccounted` says that slots
and grants account for every launch, `SlotInHand` that what the Worker read is still so
when it acts or its act is refused, `Counted` that a start is in the run count before it
reaches CMO, and `RowsRestored` and `Listed` that a resume first brings the ledger up to the control
state and then reads it. With single attempts there is only the ledger, which a
thread writes back from a copy: `OneWriter` says why no row of a launched
attempt is in a copy older than the file. `RunsRecorded` says the same of the Workers' own rows,
which are marked without the lock: they are started or ended, in the file and in every
copy of it, before a Worker can start CMO. The proofs hold for the threads of one process,
as the model does.

`CandidatePreviewProofs`: the four strategies of a preview pass through two calls and two
files before they are frozen, and `Inv` follows each of them. `Held` says of a patch in
the hands of the call under way that it can be executed and is the one accepted last
(`Stands`); `TraceSound` says the same of the rows of a trace that may be resumed from, and
`JobRestored` of a resumed call that has read that trace and not yet made its revision.
The difficulty is that a trace also has the row of a refused patch, that of a candidate
that used up its repairs, and a resume tells it from an accepted one only by its phase and
by whether it assembles. `Rejected` keeps them apart: no refused patch is executable, and
`RejectedFrom` says which rows can only be of that kind. That a weak
candidate was repaired rests on `JudgesAgree`: what the quality gate counts as a violated
role the proposal agent has counted as a warning, although the two write the rules in
different words. `RevisionsImmutable` needs `JobDirectory` only: a call writes in the directory
it made, before its preview or failure is there.

`SkillEvolutionProofs`: a draft in the pending area never changes until a decision takes it away, an
archived version never changes, and a saved answer of the author never changes. `Core`
ties command and runs under way to them: what a command has checked is what it
copies although a Phase 8 run may write beside it (`CommandUnderWay`), and a run that starts again
writes the draft it wrote before (`RunsUnderWay`).

`CmoExecutionProofs`: `CmoInv` follows each execution. Before its caller comes to it
nothing of it exists, while the caller is at it the control point says what process,
directory and files look like, afterwards only its BatchRunner can change anything, and
that has ended if anything was saved. *AttemptVerdictSound* and *ReportedProcessEnded* hold
for any number of chats (`SpecImpliesVerdicts`). The rest needs `OneChat`: several chats
share one configuration file and only the docstring `execution/cmo_job_config.py:13` keeps
them apart; candidates have files of their own and may be any in number. `ConfigReturned`
excuses, by the control point at which they are raised, the errors and interrupts that meet
the switch or the restore; nothing else ends an execution with a changed file.

`AgentSessionProofs` follows one number, `Settled`: how much of the history an interrupt
leaves. Inside a batch of calls that is one reply less than the whole (`Places`). The
transcript on disk (`Saved`), the part a compacted copy stands for (`CopyCovers`) and the
finished batches (`FinishedKept`) lie within it, so taking the rest back loses nothing of
them and leaves the copy one of this history. `Covers` says what "stands for" means; that
continuing and compacting a copy preserve it are lemmas about sequences. With `SessionInv`
`TranscriptsGrow`, *RequestCoversHistory*, *WorkRemembered* and *ApprovalsHonoured* hold
follow (`SpecImpliesWorkKept`). *RequestsProtocolValid* needs `ValidInv`: what
is settled is a conversation, and a copy never starts, behind its summary, with results
whose reply it left out (`CutBeforeReply`). The calls of a cut reply (kind "cut") count as open, not as
answered: `orchestration/agent_loop.py:204` ends the turn with whatever that reply contains.

Each proof has one lemma per group of actions and one step per action; lemmas about the
model's operators come first. TLC evaluates the strengthened invariants on the instances
of the runs, too, except for the type sets of `CampaignLedger` and `SkillEvolution`, which
are too large to enumerate.

## 6. Only model-checked

- Liveness (`SettlesDown`, `RepairEnds`, `WorkerConcludes`, `ExecutionReturns`,
  `AircraftComeHome`): fairness and ENABLED are beyond the prover.
- `AnswersSound`: it rests on what a fold over the scenario's units computes (`Total` in
  `ScenarioContract`), and `KnowledgeSound` and the type of `ExperienceLearning` on what
  sorting returns and what the replay of a sequence of events adds up to
  (`CandidateScoring`). `StrikesAsPlanned` and the type of `MissionRuntime` rest on the lines a
  recursive pass over a plan writes. All of this is induction over data, which the prover
  cannot do; the runs compute it for every input of the instance.
- `VerdictStable`, `RecordsKept` and the type of `ScenarioWorkflow` have no such reason, and no
  proof either.

## 7. Behaviours seen while modelling, without a property

Where the code departs from a comment or document, both places are named.

Training and repair
- A stop or pause written between a Runtime's load and its write is overwritten by
  RUNNING: `transition` takes no lock (`training/store.py`), while
  `training/runner.py:764` calls STOPPED terminal.
- The `runner.lock` of a killed Runtime is never removed (`runner.py:63`) and stops every
  successor; with two clients the Runtime that loses the lock exits and takes its
  living Worker thread with it. The CMO lock of a killed process is never cleared.
- Once a generation needed a second Worker, `inspect_generation` answers with the first
  one (`runner.py:586`) and the finished generation is never listed. An exception after the
  Worker was saved as completed overwrites it with failed (`control_plane.py:377`), which
  stops the Workflow although the result is on disk; a reconciliation that read before the
  result was written sets a completed Worker back to `reconciliation_required` (`:934`).
- A repair of the same action is possible a fourth time, because settling clears the
  record in which attempts are counted (`runner.py:224`; `docs/architecture/系统学习与面试指南.md:258`
  says three). A Workflow stopped for a push that failed resumes its repair in the next
  round (`runner.py:104`; the same document, line 497).
- A settled round rewrites the recovery record as IDLE, so the loop does not sleep
  while it waits for a Worker; a transient failure of prepare leaves a back-off
  entry in a CREATED Workflow, whose Runtime exits and which inspect does not
  restart; `prepare_campaign` raises when the directory exists; an operation
  STARTED without a Worker, or a preview STARTED without a revision, is left to a
  person (the former keeps the Workflow RUNNING); a Runtime that dies after the aggregation repeats it.
- After a half-way restore the next snapshot overwrites the good one; a death between
  commit and COMMITTED restores the old source over the new commit; a second
  Runtime reconciles before it asks for the lock and may restore under a living
  repair; the replay runs the code that was loaded before the repair; an edit the user
  makes during a repair is undone with it (`repair.py:83`, `:351`), or committed with it even
  if the gate ran before it, since the paths are listed after the gate (`:213`) and the
  files are read by the commit (`:241`, `:435`); a command
  that overwrites REPAIRING followed by a death leaves the agent's edits unverified.

Generation
- A pause withdrawn between the cancellation of a candidate and the next boundary
  leaves a cancelled candidate in ranking, learning and result
  (`evolution/production_executor.py:153`; `docs/architecture/current-state.md:177`).
- A late pause is dropped when the Worker completes, and a request survives a Worker
  that fails; attempts of paused, failed and dead Workers use up a slot's repair
  budget; a third Worker may repeat a generation whose second Worker completed; after a
  re-run of failed candidates the reused learning describes the earlier outcomes; a
  reused Phase 7 result has neither experience ids nor an optimization id, so
  Phase 8 does not see these experiences; `checkpoint.json` is never deleted; a
  Worker whose process died after its result was written and its Campaign advanced
  stays "running"; ranking truncates fractional scores, the champion does not.
- Ledger: `mark_operation_*` reads and rewrites `operation-ledger.jsonl` without the
  lock that `campaign_store.py:50` says protects it, and both writers use the same
  temporary file, so a COMPLETED row can be lost. Single attempts count twice
  against the budget and never get an end row; a paused or cancelled Worker leaves its
  operation STARTED; `mark_cmo_started` counts before it records the start, so a
  crash loses counts only of attempts never launched. `get_active_approval` sorts by a hash,
  though its comment says newest; a regenerated preview leaves grants of the control
  state valid (`models.py:266`); a late `clear_control_request` can delete a newer
  pause or stop, and a pause does not stop an already authorized slot. The broker's
  slot and single-attempt calls are so far made by tests; production itself grants, pauses,
  stops and resumes, and records one operation per Worker. Its
  `authorized_candidate_runner.py:40-87` starts CMO without asking the broker, although its
  docstring (15-19) says that it takes its attempts from the `PermissionBroker`, goes around
  no operation ledger and so lets every external run be traced: nothing limits these runs to
  the grant, and `cmo_run_count` stays 0. The store's lock is shared within one process
  (`campaign_store.py:41-53`), while a chat that pauses and the Runtime whose Worker runs are two:
  there the control state, too, can lose a write.
- Preview: resuming a generation again turns a COMPLETED operation into FAILED; a
  resume reserves 4 calls and may make 16; a client error in a resume counts the last
  candidate's calls twice; `_repair_summaries` looks for a phase named "repair"
  while rows say "repair_1"; a failure of the intent stage recommends a resume that is
  always refused, and one of a proposal resumed twice as well
  (`production_preview_builder.py:595`, `:352`); a resume whose set is invalid leaves no
  `proposal-failure.json`.

Scripts and CMO
- In the operator's template three slots differ from the package
  (`/attacks/1/delay_seconds` 45 for 30, `/attacks/2/delay_seconds` 60 for 33,
  `/sorties/1/air_tactics/launch_delay_seconds` 20 for 5), so changing such a leaf
  to the skeleton's value renders the unchanged script, although
  `manual_lua_template.py:158` promises a refusal. The instance uses a template that agrees.
- With the generic renderer one `auto` weapon makes every attack automatic; only the first
  target is fired at; an air attack without a sortie is dropped silently; the patch
  catalogue allows a quantity of 0 that later checks refuse; an aircraft that takes off
  after its last launch poll gets neither route nor recall.
- A switched configuration stays when the read-back or the audit write fails, or the user
  interrupts, before the `try` (`execution/cmo_job_config.py:226`), and when an interrupt
  meets the restore (`:244`; `except Exception` does not catch it), against the comments at
  `:10` and `:54`; a chat can report the directory of an abandoned BatchRunner
  (`cmo_process_runner.py:464`); `process.wait()` (`:337`) and `taskkill` (`:534`, `:600`) have
  no timeout of their own; two
  chats on the shared configuration are excluded by a docstring only (`:13`);
  "only one CmoBatchRunner at a time" (`cmo_process_runner.py:136`) is not enforced;
  the runner's audit profile replaces the builder's (`cmo_runner.py:376`).
- A plan may fire more than the inventory holds over several strikes
  (`contract/scenario_semantic_validator.py:417`, against its line 32); strike orders of the blue
  side name a red attacker (`json_to_lua.py:556`); a second load of one weapon fails
  the whole run despite the comment at `scenario_workflow.py:226`; a death leaves a
  run "running" for good.

Learning and skills
- A generation's own experiences are not excluded from its knowledge:
  `evolution/production_knowledge.py:77` asks for `..._generation_NNN`, the records say
  `..._gNNN` (`production_executor.py:232`), and `knowledge_snapshot.py:76` filters on a
  field records do not have (`current-state.md:90` says excluded).
- The repair-signal mapper never fires; candidate quality is always read from
  `revision_000`; after a rerun the rewritten learning files may disagree with the
  store; a death between learning files and store loses the experiences for good; a
  death inside a write mixes analysis and proposals of two replies; the deltas of score
  events are not checked; the rebuild always takes `attempt_00` and fails on a missing
  copy after it changed the published summary; rule names match by substring.
- A Phase 8 run that died while it wrote its package cannot be repeated
  (`assets.py:529`, although `workflow.py:211` promises a resume); a draft in revise mode is
  read back against the new slots only (`:307`). Approving a version while another
  command runs can leave an active skill that does not load (`assets.py:655`, `:567`). A
  rejected version can never be rejected with another draft; positional slot names
  clash; `record_lifecycle` rewrites the promotion ledger; `list_summaries` needs a
  description that approval never writes.

Chat
- A torn transcript is silently replaced (`chat_session_store.py:123`); two terminals on
  one session lose updates; an interrupted batch forgets tools that ran
  (`agent_loop.py:247`); recent messages may be larger than the window; a reply cut off
  inside a tool call stays in the history with an unanswered call (`agent_loop.py:204`), so
  the service refuses every later request of the session until a compaction swallows it.

## 8. Abstractions and what is not modelled

- Files are written atomically where the code uses `os.replace`; where it writes in place
  (chat transcripts, the artifacts of a run) a write can be torn. One transition of a
  Runtime in `CodeRepair`, its three reads of the tree before the agent starts
  (`repair.py:168`), everything the gate reads, two writes of the same outcome in
  `GenerationExecution` and the configuration's read-modify-write in `CmoExecution` are
  one step each. So are, in the Worker's end and in reconciliation, the operation's row and
  the Worker's file (`control_plane.py:418`, `:893`): no step reads the row of a Worker that
  is saved.
- Language models, the repair agent, the gate, CMO and the recovery router choose
  among their outcomes. What a model writes is a member of a set with one answer per
  way it is accepted or refused.
- `GenerationExecution` counts attempts up to `MaxRepairs + 1`, has learning and
  author budgets above zero, and leaves out `awaiting_approval`, which no production
  evaluator reaches, and an exception while a failure is being recorded, after which the
  Worker stays "running" as after a death. At most one Runtime reconciles at a time there; in
  `TrainingWorkflow` each may.
- `CampaignLedger`: callers in another process, whom the store's lock does not keep out,
  validity of receipts, budget revisions, manual candidate
  repair, contents of checkpoints and the reconciliation of single operations are left out.
- `CandidatePreview`: prompts, context packs, pairwise reports, the failure profile and
  concurrent callers are left out. `MaxFaults` counts candidates with an unusable
  reply, needless calls, client errors and deaths.
- `ExperienceLearning`: scores are whole numbers, the attempts at one model answer
  are one, one learning process runs at a time. A retrieval sorts by quality and id: the
  dimensions of the strategy, the environment and the model's confidence, by which the code
  sorts as well, are those of every record. A preview takes its snapshot once
  (`knowledge_snapshot.py:69`); each of `snapshots` is another preview's.
- `SkillEvolution`: one family and one compatibility scope, hence one skill; version n
  stands for 0.n.0; a checksum is the draft it seals.
- `ScenarioContract`: rules about the JSON type of one field are one flag; an id stands
  for id and name; coordinates, units of measure and `missile_total_mismatch` are left out.
  Lua text is the tables and calls it contains.
- `MissionRuntime`: game time is not modelled, events fire in any order; CMO refuses
  calls only while the script loads; telemetry, checksums and `runtime_patch_applier`,
  to which no signal of the shipped mapper leads, are left out.
- `AgentSession`: messages have one length, display events are left out.
- Not modelled at all: the Lua repair loop (`repair/`, `lua_repair_workflow.py` and
  `workflow_checkpoint_store.py` are placeholders of five lines); LLM clients (network I/O
  behind an interface; every caller's model lets an answer be unusable or missing);
  CLI, bootstrap, display and file tools (wiring); `memory/`, `combat_*` and
  `reward` (no production path calls them); the rest of `CMOLua-main/`, `baseline/`,
  `Lua/`, `data/` and `json_data/` (vendored or generated).

## 9. Plan

1. Proofs: `VerdictStable` of `ScenarioWorkflow` and `RecordsKept` of `ExperienceLearning`; then
   *OrdersAsPlanned*, with a lemma per kind of line in the place of the induction.
2. `CodeRepair` composed with two Runtimes of `TrainingWorkflow`.
3. The rest of the control plane: manual candidate repair, `reconcile_operation`, and the
   validators of `runtime_primitives` and of the controlled input package.
