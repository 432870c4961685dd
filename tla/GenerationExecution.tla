-------------------------- MODULE GenerationExecution -------------------------
(***************************************************************************)
(* One generation from the start of a Worker to its formal result: the      *)
(* candidate loop with reuse, pause and stop, the evaluation of a candidate *)
(* with its repairs, ranking, experience learning (Phase 7), skill          *)
(* evolution (Phase 8), the champion, and what is left on disk when a       *)
(* Worker is paused, fails or dies and another one takes over.              *)
(*                                                                          *)
(* Source: evolution/production_executor.py, control_plane.py,              *)
(* optimization/candidate_evaluation_workflow.py, learning/workflow.py.     *)
(*                                                                          *)
(* Slot 0 is the rolling baseline.  A client of the Campaign tools starts,  *)
(* pauses, stops and resumes at any time; one Worker thread lives at a time *)
(* because of the CMO lock (CampaignWorkers has the race for it).           *)
(***************************************************************************)
EXTENDS Integers, Sequences, FiniteSets

CONSTANTS
    CandidateCount,  \* candidates of a generation beside the baseline
    Scores,          \* official scores a CMO run may end with
    MinimumDelta,    \* ChampionSelectionPolicy.minimum_improvement_delta
    MaxRepairs,      \* budget.max_repair_attempts_per_candidate
    Experiences,     \* experience proposals a comparison may yield
    None,            \* a file that does not exist
    Host, NoHost,    \* the process of the Workers, and a free CMO lock
    MaxEpochs,       \* bound: Workers started
    MaxDisturbances  \* bound: commands, deaths, exceptions, other Runtimes

ASSUME GenerationAssumption ==
    /\ CandidateCount \in Nat \ {0}
    /\ Scores \subseteq Int
    /\ MinimumDelta \in Int
    /\ {MaxRepairs, MaxEpochs, MaxDisturbances} \subseteq Nat
    /\ Host # NoHost

VARIABLES
    mode,        \* spec.phase8_mode
    workers,     \* statuses of the saved Workers, oldest epoch first
    orphan,      \* the operation is STARTED and its Worker not saved
    locked,      \* .cmo-instance.lock exists
    current,     \* CampaignState.current_generation: 0 this generation, 1 the next
    checkpoint,  \* checkpoint.json exists
    control,     \* action of control-request.json, or "none"
    outcomes,    \* candidate_outcome.json of each slot
    attempts,    \* attempt directories of each slot, counted to MaxRepairs + 1
    learning,    \* learning/experience-candidates.json of the comparison, or None
    store,       \* experiences of this generation in the experience store
    result,      \* generation-result.json, or None
    pc,          \* where the Worker thread is
    cursor,      \* the slot it works on
    gathered,    \* its list `outcomes`
    phase7,      \* its phase7_result
    finding,     \* where a reconciling Runtime is and what it has read
    crashed,     \* the process died and no Runtime began to reconcile since
    repairs,     \* repairs of each slot so far (observation)
    late,        \* CMO runs started since a pending request (observation)
    disturbed    \* commands, deaths and exceptions so far

disk == <<workers, orphan, locked, current, checkpoint, control, outcomes, attempts,
          learning, store, result>>
memory == <<pc, cursor, gathered, phase7>>
observed == <<crashed, repairs, late, disturbed>>
aside == <<mode, finding>>    \* what no Worker and no client changes
vars == <<aside, disk, memory, observed>>

Slots == 0 .. CandidateCount
Baseline == 0

\* "scored": success; "unscored": CMO ran but gave no score; "failed": FAILED or
\* cancelled, without a successful run.
Kind == {"missing", "scored", "unscored", "failed"}
Outcome == [kind: Kind, score: Scores \cup {0}]
Unscored(kind) == [kind |-> kind, score |-> 0]
Scored(score) == [kind |-> "scored", score |-> score]

WorkerStatus == {"running", "completed", "failed", "paused", "cancelled_incomplete",
                 "reconciliation_required"}

\* "reused": the learning files of an earlier Worker were found, whose summary
\* has neither optimization_id nor experience_ids.
Phase7 == [status: {"none", "learned", "reused"}, ids: SUBSET Experiences]
NoPhase7 == [status |-> "none", ids |-> {}]

Result == [outcomes: [Slots -> Outcome], phase7: Phase7, champion: Slots]

\* A file that does not exist holds neither a result nor experiences.
ASSUME NoneAssumption ==
    None \notin Result /\ \A records \in SUBSET Experiences : None # records

EvaluationPc == {"begin", "rendered", "start", "running"}
ExecutorPc == EvaluationPc \cup {"slot", "boundary", "learn", "saving", "skills", "champion"}
WorkerPc == ExecutorPc \cup {"written", "saved", "clear", "unlock", "failed"}

\* The steps of reconcile_generation that are left, the Worker it looked at and
\* whether the formal result was there.
Finding == [step: {"none", "worker", "state"}, epoch: Nat \ {0}, done: BOOLEAN]
NothingFound == [step |-> "none", epoch |-> 1, done |-> FALSE]

\* Every file and local variable keeps its shape.
TypeOK ==
    /\ mode \in {"per_generation", "after_all_generations"}
    /\ workers \in Seq(WorkerStatus)
    /\ {orphan, locked, checkpoint, crashed} \subseteq BOOLEAN
    /\ current \in 0 .. 1
    /\ control \in {"none", "pause", "stop"}
    /\ outcomes \in [Slots -> Outcome] /\ gathered \in [Slots -> Outcome]
    /\ attempts \in [Slots -> 0 .. MaxRepairs + 1] /\ repairs \in [Slots -> Nat]
    /\ learning \in (SUBSET Experiences) \cup {None}
    /\ store \subseteq Experiences
    /\ result \in Result \cup {None}
    /\ pc \in WorkerPc \cup {"off", "launch"}
    /\ cursor \in 0 .. CandidateCount + 1
    /\ phase7 \in Phase7
    /\ finding \in Finding
    /\ late \in Nat
    /\ disturbed \in Nat

NoOutcomes == [s \in Slots |-> Unscored("missing")]

\* The preview of the generation is ready and nothing has been executed.
Init ==
    /\ mode \in {"per_generation", "after_all_generations"}
    /\ workers = <<>>
    /\ orphan = FALSE /\ locked = FALSE /\ checkpoint = FALSE /\ crashed = FALSE
    /\ current = 0
    /\ control = "none"
    /\ outcomes = NoOutcomes /\ gathered = NoOutcomes
    /\ attempts = [s \in Slots |-> 0] /\ repairs = [s \in Slots |-> 0]
    /\ learning = None
    /\ store = {}
    /\ result = None
    /\ pc = "off"
    /\ cursor = 0
    /\ phase7 = NoPhase7
    /\ finding = NothingFound
    /\ late = 0
    /\ disturbed = 0

Disturbance ==
    /\ disturbed < MaxDisturbances
    /\ disturbed' = disturbed + 1

Newest == Len(workers)
SaveWorker(status) == workers' = [workers EXCEPT ![Newest] = status]

-----------------------------------------------------------------------------
(* execute_generation: GenerationWorkerManager.start_or_get *)

Running(e) == e \in DOMAIN workers /\ workers[e] = "running"
Active == \E e \in DOMAIN workers : Running(e)

\* The first saved Worker decides whether the generation is over.
Finished == workers # <<>> /\ Head(workers) \in {"completed", "cancelled_incomplete"}

StartOperation ==
    /\ ~Active /\ ~Finished /\ ~orphan
    /\ ~locked
    /\ Newest < MaxEpochs
    /\ locked' = TRUE
    /\ orphan' = TRUE
    /\ pc' = "launch"
    /\ UNCHANGED <<aside, workers, current, checkpoint, control, outcomes, attempts,
                   learning, store, result, cursor, gathered, phase7, observed>>

LaunchWorker ==
    /\ pc = "launch"
    /\ workers' = Append(workers, "running")
    /\ orphan' = FALSE
    /\ pc' = "slot"
    /\ cursor' = Baseline
    /\ gathered' = NoOutcomes
    /\ phase7' = NoPhase7
    /\ UNCHANGED <<aside, locked, current, checkpoint, control, outcomes, attempts,
                   learning, store, result, observed>>

-----------------------------------------------------------------------------
(* The Worker thread ends: GenerationWorkerManager._run and _finalize *)

\* The local variables of ProductionGenerationExecutor.run go with the call.
ExecutorOver ==
    /\ cursor' = Baseline
    /\ gathered' = NoOutcomes
    /\ phase7' = NoPhase7

\* Mutation of FailWorker: the thread ends and the Worker is not saved.
FailUnsaved ==
    /\ pc' = "failed"
    /\ ExecutorOver
    /\ UNCHANGED <<aside, workers, orphan, locked, current, checkpoint, control, outcomes,
                   attempts, learning, store, result, crashed,
                   repairs, late>>

\* An exception: the Worker is saved as failed, over an end already saved, and
\* the request stays.
FailWorker ==
    /\ SaveWorker("failed")
    /\ pc' = "failed"
    /\ ExecutorOver
    /\ UNCHANGED <<aside, orphan, locked, current, checkpoint, control, outcomes, attempts,
                   learning, store, result, crashed, repairs, late>>

\* The executor returned "paused" or "cancelled_incomplete".
SaveUnfinished(status) ==
    /\ SaveWorker(status)
    /\ checkpoint' = TRUE
    /\ pc' = "clear"
    /\ ExecutorOver
    /\ UNCHANGED <<aside, orphan, locked, current, control, outcomes, attempts, learning,
                   store, result, observed>>

SaveCompleted ==
    /\ pc = "written"
    /\ SaveWorker("completed")
    /\ pc' = "saved"
    /\ UNCHANGED <<aside, orphan, locked, current, checkpoint, control, outcomes, attempts,
                   learning, store, result, cursor, gathered, phase7, observed>>

\* Mutation of AdvanceCampaign: counts from the stored index, not from the Worker's.
AdvanceByOne ==
    /\ pc = "saved"
    /\ current' = current + 1
    /\ pc' = "clear"
    /\ UNCHANGED <<aside, workers, orphan, locked, checkpoint, control, outcomes, attempts,
                   learning, store, result, cursor, gathered, phase7, observed>>

AdvanceCampaign ==
    /\ pc = "saved"
    /\ current' = 1
    /\ pc' = "clear"
    /\ UNCHANGED <<aside, workers, orphan, locked, checkpoint, control, outcomes, attempts,
                   learning, store, result, cursor, gathered, phase7, observed>>

\* Also drops a request that came after the last candidate boundary.
ClearControl ==
    /\ pc = "clear"
    /\ control' = "none"
    /\ late' = 0
    /\ pc' = "unlock"
    /\ UNCHANGED <<aside, workers, orphan, locked, current, checkpoint, outcomes, attempts,
                   learning, store, result, cursor, gathered, phase7, crashed, repairs, disturbed>>

ThreadGone == pc' = "off" /\ ExecutorOver

ReleaseLock ==
    /\ pc \in {"unlock", "failed"}
    /\ locked' = FALSE
    /\ ThreadGone
    /\ UNCHANGED <<aside, workers, orphan, current, checkpoint, control, outcomes, attempts,
                   learning, store, result, observed>>

-----------------------------------------------------------------------------
(* ProductionGenerationExecutor.run: the candidate loop *)

\* execution_success, whatever the score; every outcome passes the gate.
Ran(outcome) == outcome.kind \in {"scored", "unscored"}

ReuseCandidate ==
    /\ pc = "slot" /\ cursor \in Slots
    /\ Ran(outcomes[cursor])
    /\ gathered' = [gathered EXCEPT ![cursor] = outcomes[cursor]]
    /\ cursor' = cursor + 1
    /\ UNCHANGED <<aside, disk, pc, phase7, observed>>

\* The request is read before a candidate and at the boundary after it.
AtBoundary ==
    \/ pc = "boundary"
    \/ pc = "slot" /\ cursor \in Slots /\ ~Ran(outcomes[cursor])

ObeyRequest ==
    /\ AtBoundary
    /\ \/ control = "pause" /\ SaveUnfinished("paused")
       \/ control = "stop" /\ SaveUnfinished("cancelled_incomplete")

\* Mutation of BeginCandidate: the artifacts of an earlier Worker are not looked at.
BeginAnyCandidate ==
    /\ pc = "slot" /\ cursor \in Slots
    /\ control = "none"
    /\ pc' = "begin"
    /\ UNCHANGED <<aside, disk, cursor, gathered, phase7, observed>>

BeginCandidate ==
    /\ pc = "slot" /\ cursor \in Slots
    /\ ~Ran(outcomes[cursor])
    /\ control = "none"
    /\ pc' = "begin"
    /\ UNCHANGED <<aside, disk, cursor, gathered, phase7, observed>>

NextCandidate ==
    /\ pc = "boundary"
    /\ control = "none"
    /\ pc' = "slot"
    /\ cursor' = cursor + 1
    /\ UNCHANGED <<aside, disk, gathered, phase7, observed>>

-----------------------------------------------------------------------------
(* CandidateEvaluationWorkflow.evaluate *)

FinishCandidate(outcome) ==
    /\ outcomes' = [outcomes EXCEPT ![cursor] = outcome]
    /\ gathered' = [gathered EXCEPT ![cursor] = outcome]
    /\ pc' = "boundary"
    /\ UNCHANGED <<aside, workers, orphan, locked, current, checkpoint, control, attempts,
                   learning, store, result, cursor, phase7, observed>>

\* is_cancelled, at the head of the loop and before a CMO run.
CancelCandidate ==
    /\ pc \in {"begin", "rendered"}
    /\ control # "none"
    /\ FinishCandidate(Unscored("failed"))

\* An invalid strategy, a plan the runtime cannot execute, an internal error.
RejectCandidate ==
    /\ pc = "begin"
    /\ control = "none"
    /\ FinishCandidate(Unscored("failed"))

\* Each attempt, of any Worker, gets the next attempt directory.
RenderAttempt ==
    /\ pc = "begin"
    /\ control = "none"
    /\ attempts' = [attempts EXCEPT ![cursor] = IF @ > MaxRepairs THEN @ ELSE @ + 1]
    /\ pc' = "rendered"
    /\ UNCHANGED <<aside, workers, orphan, locked, current, checkpoint, control, outcomes,
                   learning, store, result, cursor, gathered, phase7, observed>>

ClearToRun ==
    /\ pc = "rendered"
    /\ control = "none"
    /\ pc' = "start"
    /\ UNCHANGED <<aside, disk, cursor, gathered, phase7, observed>>

StartCmo ==
    /\ pc = "start"
    /\ pc' = "running"
    /\ late' = IF control = "none" THEN late ELSE late + 1
    /\ UNCHANGED <<aside, disk, cursor, gathered, phase7, crashed, repairs, disturbed>>

\* The run succeeds, with an official score or without one, or fails for good.
FinishRun ==
    /\ pc = "running"
    /\ \E outcome \in {Scored(score) : score \in Scores}
                        \cup {Unscored("unscored"), Unscored("failed")} :
          FinishCandidate(outcome)

\* Mutation of RepairAllowed: the attempt that is to come is not counted.
RepairAllowedOnceMore(slot) == attempts[slot] <= MaxRepairs + 1

\* `attempts` counts the run that has just failed.
RepairAllowed(slot) == attempts[slot] <= MaxRepairs

\* Mutation of RepairCandidate: the repaired attempt runs without asking again.
RepairAndRun ==
    /\ pc = "running"
    /\ RepairAllowed(cursor)
    /\ repairs' = [repairs EXCEPT ![cursor] = @ + 1]
    /\ pc' = "start"
    /\ UNCHANGED <<aside, disk, cursor, gathered, phase7, crashed, late, disturbed>>

RepairCandidate ==
    /\ pc = "running"
    /\ RepairAllowed(cursor)
    /\ repairs' = [repairs EXCEPT ![cursor] = @ + 1]
    /\ pc' = "begin"
    /\ UNCHANGED <<aside, disk, cursor, gathered, phase7, crashed, late, disturbed>>

-----------------------------------------------------------------------------
(* ProductionGenerationExecutor.run: from the completion gate to the result *)

\* The gate is always passed: a candidate of any kind is in a final state.
RankCandidates ==
    /\ pc = "slot" /\ cursor \notin Slots
    /\ outcomes' = gathered
    /\ pc' = "learn"
    /\ UNCHANGED <<aside, workers, orphan, locked, current, checkpoint, control, attempts,
                   learning, store, result, cursor, gathered, phase7, observed>>

\* _completed_phase7_result
ReuseLearning ==
    /\ pc = "learn"
    /\ learning # None
    /\ phase7' = [status |-> "reused", ids |-> {}]
    /\ pc' = "skills"
    /\ UNCHANGED <<aside, disk, cursor, gathered, observed>>

\* Mutation of LearnExperiences: every Worker compares the candidates again.
LearnAgain ==
    /\ pc = "learn"
    /\ \E records \in SUBSET Experiences : learning' = records
    /\ pc' = "saving"
    /\ UNCHANGED <<aside, workers, orphan, locked, current, checkpoint, control, outcomes,
                   attempts, store, result, cursor, gathered, phase7, observed>>

\* GenerationLearningWorkflow.run writes its files before the store.
LearnExperiences ==
    /\ pc = "learn"
    /\ learning = None
    /\ \E records \in SUBSET Experiences : learning' = records
    /\ pc' = "saving"
    /\ UNCHANGED <<aside, workers, orphan, locked, current, checkpoint, control, outcomes,
                   attempts, store, result, cursor, gathered, phase7, observed>>

SaveExperience ==
    /\ pc = "saving"
    /\ \E record \in learning \ store : store' = store \cup {record}
    /\ UNCHANGED <<aside, workers, orphan, locked, current, checkpoint, control, outcomes,
                   attempts, learning, result, memory, observed>>

LearningSaved ==
    /\ pc = "saving"
    /\ learning \subseteq store
    /\ phase7' = [status |-> "learned", ids |-> learning]
    /\ pc' = "skills"
    /\ UNCHANGED <<aside, disk, cursor, gathered, observed>>

\* Phase 8 is deferred to the end of the training, or runs on a fresh result.
SkillsDone ==
    /\ pc = "skills"
    /\ mode = "after_all_generations" \/ phase7.status = "learned"
    /\ pc' = "champion"
    /\ UNCHANGED <<aside, disk, cursor, gathered, phase7, observed>>

\* pending_regression_failed: a person has to review the skill.
SkillsNeedReview ==
    /\ pc = "skills"
    /\ mode = "per_generation" /\ phase7.status = "learned"
    /\ SaveUnfinished("paused")

\* A reused Phase 7 result has no optimization_id: KeyError.
SkillsRejectReuse ==
    /\ pc = "skills"
    /\ mode = "per_generation" /\ phase7.status = "reused"
    /\ FailWorker
    /\ UNCHANGED disturbed

\* An artifact cannot be read or written, a candidate's evaluation, the LLM of
\* Phase 7 or of Phase 8, or _finalize raises.
WorkerRaises ==
    /\ pc \in ExecutorPc \cup {"written", "saved", "clear"}
    /\ Disturbance
    /\ FailWorker

\* Mutation of Eligible: a run without an official score may win.
EligibleIfRan(slot) == Ran(gathered[slot])

Eligible(slot) == gathered[slot].kind = "scored"
Score(slot) == gathered[slot].score

\* rolling_baseline_ineligible
BaselineIneligible ==
    /\ pc = "champion"
    /\ ~Eligible(Baseline)
    /\ FailWorker
    /\ UNCHANGED disturbed

\* The formal adapter leaves losses, damage, weapons and fidelity at the same
\* value for all candidates: between equal scores the candidate id decides.
Best(slot) ==
    /\ slot # Baseline /\ Eligible(slot)
    /\ \A other \in {s \in Slots \ {Baseline} : Eligible(s)} :
          \/ Score(slot) > Score(other)
          \/ Score(slot) = Score(other) /\ slot <= other

Champion(slot) ==
    IF \E s \in Slots : Best(s) /\ Score(s) >= Score(Baseline) + MinimumDelta
    THEN Best(slot) ELSE slot = Baseline

\* Mutation of WriteResult: the Campaign advances before the Worker is saved.
WriteResultOnly ==
    /\ pc = "champion"
    /\ Eligible(Baseline)
    /\ \E slot \in Slots :
          /\ Champion(slot)
          /\ result' = [outcomes |-> gathered, phase7 |-> phase7, champion |-> slot]
    /\ pc' = "saved"
    /\ ExecutorOver
    /\ UNCHANGED <<aside, workers, orphan, locked, current, checkpoint, control, outcomes,
                   attempts, learning, store, observed>>

WriteResult ==
    /\ pc = "champion"
    /\ Eligible(Baseline)
    /\ \E slot \in Slots :
          /\ Champion(slot)
          /\ result' = [outcomes |-> gathered, phase7 |-> phase7, champion |-> slot]
    /\ pc' = "written"
    /\ ExecutorOver
    /\ UNCHANGED <<aside, workers, orphan, locked, current, checkpoint, control, outcomes,
                   attempts, learning, store, observed>>

-----------------------------------------------------------------------------
(* The Campaign tools, restarts and the operator *)

\* pause_campaign, stop_campaign; a command that would change nothing is no step.
Request(action) ==
    /\ control # action
    /\ Disturbance
    /\ control' = action
    /\ UNCHANGED <<aside, workers, orphan, locked, current, checkpoint, outcomes, attempts,
                   learning, store, result, memory, crashed, repairs, late>>

\* resume_campaign: the request is withdrawn and the Campaign goes back to the
\* generation of the checkpoint, which nothing ever deletes.
ResumeCampaign ==
    /\ control # "none" \/ (checkpoint /\ current = 1)
    /\ Disturbance
    /\ control' = "none"
    /\ late' = 0
    /\ current' = IF checkpoint THEN 0 ELSE current
    /\ UNCHANGED <<aside, workers, orphan, locked, checkpoint, outcomes, attempts, learning,
                   store, result, memory, crashed, repairs>>

\* reconcile_generation of the current generation, by a new Runtime, in three steps;
\* it does not ask whether the newest Worker is alive.  Without a death before it
\* the start of the Runtime counts as a disturbance.
Reconcile ==
    /\ finding.step = "none"
    /\ IF current = 0 /\ workers # <<>>
       THEN finding' = [step |-> "worker", epoch |-> Newest, done |-> result # None]
       ELSE crashed /\ UNCHANGED finding
    /\ IF crashed THEN UNCHANGED disturbed ELSE Disturbance
    /\ crashed' = FALSE
    /\ UNCHANGED <<mode, disk, memory, repairs, late>>

WorkerReconciled ==
    /\ finding.step = "worker"
    /\ workers' = [workers EXCEPT ![finding.epoch] =
                      IF finding.done THEN "completed" ELSE "reconciliation_required"]
    /\ finding' = [finding EXCEPT !.step = "state"]
    /\ UNCHANGED <<mode, orphan, locked, current, checkpoint, control, outcomes, attempts,
                   learning, store, result, memory, observed>>

StateReconciled ==
    /\ finding.step = "state"
    /\ current' = IF finding.done THEN 1 ELSE 0
    /\ finding' = NothingFound
    /\ UNCHANGED <<mode, workers, orphan, locked, checkpoint, control, outcomes, attempts,
                   learning, store, result, memory, observed>>

\* The process of the Worker dies, or the Runtime that reconciles, which has not
\* started a Worker yet.
Crash ==
    /\ Disturbance
    /\ \/ pc # "off" /\ ThreadGone /\ UNCHANGED finding
       \/ finding.step # "none" /\ finding' = NothingFound /\ UNCHANGED memory
    /\ crashed' = TRUE
    /\ UNCHANGED <<mode, disk, repairs, late>>

\* Not in the code: somebody deletes the lock file of a dead process.
RemoveStaleLock ==
    /\ pc = "off" /\ locked
    /\ locked' = FALSE
    /\ UNCHANGED <<aside, workers, orphan, current, checkpoint, control, outcomes, attempts,
                   learning, store, result, memory, observed>>

-----------------------------------------------------------------------------

\* What a live Worker thread does.
Worker ==
    \/ LaunchWorker
    \/ ReuseCandidate \/ ObeyRequest \/ BeginCandidate \/ NextCandidate
    \/ CancelCandidate \/ RejectCandidate \/ RenderAttempt \/ ClearToRun
    \/ StartCmo \/ FinishRun \/ RepairCandidate
    \/ RankCandidates \/ ReuseLearning \/ LearnExperiences \/ SaveExperience
    \/ LearningSaved \/ SkillsDone \/ SkillsNeedReview \/ SkillsRejectReuse
    \/ WorkerRaises \/ BaselineIneligible \/ WriteResult
    \/ SaveCompleted \/ AdvanceCampaign \/ ClearControl \/ ReleaseLock

Client == StartOperation \/ Request("pause") \/ Request("stop") \/ ResumeCampaign

Reconciliation == WorkerReconciled \/ StateReconciled

Next == Worker \/ Client \/ Reconcile \/ Reconciliation \/ Crash \/ RemoveStaleLock

Spec == Init /\ [][Next]_vars

\* A live thread is scheduled, and after a death a new Runtime reconciles.
FairSpec == Spec /\ WF_vars(Worker) /\ WF_vars(Reconciliation \/ (crashed /\ Reconcile))

-----------------------------------------------------------------------------
(* Properties *)

\* A candidate that ran is never run again and its outcome never changes, over
\* all Workers, pauses, failures and deaths ("only successful and complete
\* formal artifacts are reused", production_executor.py).
EvidenceKept == [][\A s \in Slots : Ran(outcomes[s]) => outcomes'[s] = outcomes[s]]_outcomes

\* The repair budget of a candidate counts over all Workers of the generation.
RepairsWithinBudget == \A s \in Slots : repairs[s] <= MaxRepairs

\* A pause or stop that is not withdrawn lets at most one more CMO run start
\* ("the Worker checks persistent pause/stop requests at safe boundaries").
RequestHonoured == late <= 1

\* What the experience store has of this generation comes from its one
\* comparison, which is made once whatever Workers come after it.
ExperiencesFromOneComparison ==
    /\ store # {} => learning # None /\ store \subseteq learning
    /\ result # None => learning # None

\* The formal result has an outcome of every slot; what ran is what is on disk,
\* and the champion is eligible and no worse than the rolling baseline needs.
ResultSound ==
    result # None =>
        /\ \A s \in Slots :
              /\ result.outcomes[s].kind # "missing"
              /\ Ran(result.outcomes[s]) => outcomes[s] = result.outcomes[s]
        /\ result.outcomes[result.champion].kind = "scored"
        /\ result.champion # Baseline =>
              result.outcomes[result.champion].score
                  >= result.outcomes[Baseline].score + MinimumDelta

\* Whatever Workers, commands, failures and deaths it took: one comparison, budgets
\* kept over all Workers, requests obeyed, and a result that says what ran.
GenerationSound ==
    RepairsWithinBudget /\ RequestHonoured /\ ExperiencesFromOneComparison /\ ResultSound

\* A Worker saved as running does not stay so: it ends, or a restart after its
\* death reconciles it, unless the generation has its result already.
WorkerConcludes == []<>(result # None \/ ~Active)

-----------------------------------------------------------------------------
(* The Worker that the other modules see *)

AbstractPhase ==
    IF pc \in ExecutorPc THEN "running"
    ELSE IF pc \in {"clear", "unlock"} THEN "closing" ELSE pc

AbstractFinding == [gen |-> 0, epoch |-> finding.epoch, done |-> finding.done]

AbstractThreads ==
    IF pc \in {"off", "launch"} THEN {}
    ELSE {[proc |-> Host, gen |-> 0, epoch |-> Newest, phase |-> AbstractPhase]}

Campaign == INSTANCE CampaignWorkers WITH
    GenerationCount <- 1, Processes <- {Host}, Free <- NoHost,
    prepared <- TRUE, previews <- [g \in {0} |-> "ready"],
    orphan <- [g \in {0} |-> orphan], workers <- [g \in {0} |-> workers],
    results <- IF result = None THEN {} ELSE {0},
    cmoLock <- IF locked THEN Host ELSE NoHost,
    threads <- AbstractThreads

\* What the rest of the system sees of a generation besides the Campaign index.
Visible == <<orphan, workers, result # None, locked, AbstractThreads>>

\* Every step of the loop, the evaluation and the phases is, for the rest of the
\* system, a step that CampaignWorkers allows its Workers or no step at all: the
\* result before the completed Worker, after a saved end at most a failure, nothing
\* after the lock is gone.  resume_campaign changes only the index of the Campaign,
\* which CampaignWorkers does not let a client change.
WorkersRefined ==
    [][Visible' # Visible =>
        \/ Campaign!StartOperation(Host, 0) \/ Campaign!LaunchWorker(Host, 0)
        \/ \E t \in AbstractThreads :
              \/ Campaign!WriteResult(t) \/ Campaign!SaveCompleted(t)
              \/ Campaign!AdvanceCampaign(t) \/ Campaign!ReleaseCmoLock(t)
              \/ Campaign!FailWorker(t)
              \/ \E status \in {"paused", "cancelled_incomplete"} :
                    Campaign!SaveUnfinished(t, status)
        \/ WorkerReconciled /\ Campaign!ReconcileWorker(AbstractFinding)
        \/ Crash /\ Campaign!KillThreads(Host)
        \/ RemoveStaleLock
      ]_vars

\* No step of a later Worker redoes or rewrites what an earlier one ran, and none
\* does to the campaign what CampaignWorkers does not allow.
StepsSound == EvidenceKept /\ WorkersRefined

=============================================================================
