----------------------- MODULE GenerationExecutionProofs -----------------------
(***************************************************************************)
(* What a generation promises, for any number of candidates, scores,        *)
(* repairs, experiences, Workers, commands and deaths: the formal result    *)
(* says what ran, a candidate that ran is not run again, a request is       *)
(* obeyed, and the rest of the system sees a Worker of CampaignWorkers.     *)
(*                                                                          *)
(* Two facts carry the proof.  The list a Worker gathers agrees with the    *)
(* outcomes on disk for every slot it has passed, hence the ranking, which  *)
(* writes the whole list back, changes nothing that ran.  And a thread      *)
(* exists only under the CMO lock and with its Worker saved, hence what it  *)
(* saves last is its own end.  A Runtime that reconciles may act on a       *)
(* finding that is no longer true, but the Worker it names still exists.    *)
(***************************************************************************)
EXTENDS GenerationExecution, SequenceTheorems, TLAPS

-----------------------------------------------------------------------------
(* The inductive invariant *)

LockHeld == pc # "off" => locked
WorkerSaved == pc \notin {"off", "launch"} => workers # <<>>

\* The candidate being evaluated has not run under any Worker.
EvaluatesOnce ==
    /\ pc \in EvaluationPc \cup {"boundary"} => cursor \in Slots
    /\ pc \in EvaluationPc => ~Ran(outcomes[cursor])

Agreed(s) == gathered[s] = outcomes[s] /\ gathered[s].kind # "missing"

AfterLoop == {"learn", "saving", "skills", "champion"}

GatheredAgrees ==
    /\ pc \in {"slot"} \cup EvaluationPc => \A s \in Slots : s < cursor => Agreed(s)
    /\ pc = "boundary" => \A s \in Slots : s <= cursor => Agreed(s)
    /\ pc \in AfterLoop => \A s \in Slots : Agreed(s)

\* Every repair followed an attempt of its own.
RepairsCounted ==
    /\ \A s \in Slots : repairs[s] <= attempts[s] /\ repairs[s] <= MaxRepairs
    /\ pc \in {"rendered", "start", "running"} => repairs[cursor] < attempts[cursor]

\* A run started against a request is the last one until the request is withdrawn.
RequestPending == late # 0 => control # "none" /\ pc # "start"

LearnedOnce == pc \in {"saving", "skills", "champion"} => learning # None

Flow ==
    /\ LockHeld /\ WorkerSaved /\ EvaluatesOnce /\ GatheredAgrees
    /\ RepairsCounted /\ RequestPending /\ LearnedOnce

\* What a reconciling Runtime has found names a Worker, however old it is by now.
FindingFresh == finding.step = "worker" => finding.epoch \in DOMAIN workers

GenerationInv == TypeOK /\ Flow /\ FindingFresh /\ GenerationSound

-----------------------------------------------------------------------------
(* Lemmas about outcomes, Workers and the champion *)

LEMMA OutcomeFacts ==
    /\ \A kind \in Kind : Unscored(kind) \in Outcome /\ Unscored(kind).kind = kind
    /\ \A score \in Scores : Scored(score) \in Outcome /\ Scored(score).kind = "scored"
    /\ NoOutcomes \in [Slots -> Outcome]
BY DEF Outcome, Kind, Unscored, Scored, NoOutcomes

LEMMA SaveWorkerTyped ==
    ASSUME workers \in Seq(WorkerStatus), workers # <<>>,
           NEW status \in WorkerStatus, SaveWorker(status)
    PROVE  /\ workers' \in Seq(WorkerStatus) /\ Len(workers') = Len(workers)
           /\ workers' # <<>>
BY DEF SaveWorker, Newest

\* The champion is the best challenger, and only if it beats the baseline by the margin.
LEMMA ChampionSound ==
    ASSUME gathered \in [Slots -> Outcome], Eligible(Baseline),
           NEW slot \in Slots, Champion(slot)
    PROVE  /\ gathered[slot].kind = "scored"
           /\ slot # Baseline =>
                 gathered[slot].score >= gathered[Baseline].score + MinimumDelta
<1>1. Baseline \in Slots /\ MinimumDelta \in Int /\ \A s \in Slots : s \in Int
  BY GenerationAssumption DEF Baseline, Slots
<1>2. \A s \in Slots : gathered[s].score \in Int
  <2>1. \A s \in Slots : gathered[s] \in Outcome
    OBVIOUS
  <2>2. \A outcome \in Outcome : outcome.score \in Scores \cup {0}
    BY DEF Outcome
  <2>3. Scores \cup {0} \subseteq Int
    BY GenerationAssumption
  <2>4. QED
    BY <2>1, <2>2, <2>3
<1>3. CASE \E s \in Slots : Best(s) /\ Score(s) >= Score(Baseline) + MinimumDelta
  <2>1. PICK s \in Slots : Best(s) /\ Score(s) >= Score(Baseline) + MinimumDelta
    BY <1>3
  <2>2. Best(slot)
    BY <1>3 DEF Champion
  <2>3. Score(slot) = Score(s)
    BY <1>1, <1>2, <2>1, <2>2 DEF Best, Score
  <2>4. QED
    BY <2>1, <2>2, <2>3 DEF Best, Eligible, Score
<1>4. CASE ~\E s \in Slots : Best(s) /\ Score(s) >= Score(Baseline) + MinimumDelta
  BY <1>4 DEF Champion, Eligible
<1>5. QED
  BY <1>3, <1>4

-----------------------------------------------------------------------------
(* The steps, by the part of the code they belong to *)

LoopStep ==
    \/ ReuseCandidate \/ ObeyRequest \/ BeginCandidate \/ NextCandidate
    \/ RankCandidates

EvaluationStep ==
    \/ CancelCandidate \/ RejectCandidate \/ RenderAttempt \/ ClearToRun
    \/ StartCmo \/ FinishRun \/ RepairCandidate

PhaseStep ==
    \/ ReuseLearning \/ LearnExperiences \/ SaveExperience \/ LearningSaved
    \/ SkillsDone \/ SkillsNeedReview \/ SkillsRejectReuse
    \/ BaselineIneligible \/ WriteResult

WorkerStep ==
    \/ StartOperation \/ LaunchWorker \/ SaveCompleted \/ AdvanceCampaign
    \/ ClearControl \/ ReleaseLock \/ WorkerRaises

OutsideStep ==
    \/ Request("pause") \/ Request("stop") \/ ResumeCampaign
    \/ Reconcile \/ Reconciliation \/ Crash \/ RemoveStaleLock

-----------------------------------------------------------------------------
(* Types *)

LEMMA ConstantFacts ==
    /\ CandidateCount \in Nat \ {0} /\ MaxRepairs \in Nat
    /\ Slots = 0 .. CandidateCount /\ Baseline = 0 /\ Baseline \in Slots
    /\ NoPhase7 \in Phase7 /\ NoOutcomes \in [Slots -> Outcome]
BY GenerationAssumption, OutcomeFacts DEF Slots, Baseline, NoPhase7, Phase7

LEMMA TypesInit == Init => TypeOK
<1> SUFFICES ASSUME Init PROVE TypeOK
  OBVIOUS
<1>1. workers \in Seq(WorkerStatus)
  BY EmptySeq DEF Init
<1>2. mode \in {"per_generation", "after_all_generations"} /\ phase7 \in Phase7
      /\ outcomes \in [Slots -> Outcome] /\ gathered \in [Slots -> Outcome]
      /\ cursor \in 0 .. CandidateCount + 1
  BY ConstantFacts DEF Init
<1>3. attempts \in [Slots -> 0 .. MaxRepairs + 1] /\ repairs \in [Slots -> Nat]
  BY ConstantFacts DEF Init
<1>4. {orphan, locked, checkpoint, crashed} \subseteq BOOLEAN
  BY DEF Init
<1>5. pc \in WorkerPc \cup {"off", "launch"} /\ current \in 0 .. 1 /\ late \in Nat /\ disturbed \in Nat
  BY DEF Init
<1>6. store \subseteq Experiences /\ learning \in (SUBSET Experiences) \cup {None}
      /\ result \in Result \cup {None} /\ control \in {"none", "pause", "stop"}
  BY DEF Init
<1>7. finding \in Finding
  BY DEF Init, NothingFound, Finding
<1>8. QED
  BY <1>1, <1>2, <1>3, <1>4, <1>5, <1>6, <1>7 DEF TypeOK

LEMMA ExecutorOverTyped ==
    ASSUME ExecutorOver
    PROVE  /\ cursor' \in 0 .. CandidateCount + 1
           /\ gathered' \in [Slots -> Outcome] /\ phase7' \in Phase7
BY ConstantFacts DEF ExecutorOver

LEMMA DisturbanceTyped == TypeOK /\ Disturbance => disturbed' \in Nat
BY DEF TypeOK, Disturbance

\* The types of what a Worker saves of itself.
LEMMA WorkerSavedTyped ==
    ASSUME TypeOK, Flow, pc \notin {"off", "launch"},
           NEW status \in WorkerStatus, SaveWorker(status)
    PROVE  workers' \in Seq(WorkerStatus) /\ Len(workers') = Len(workers) /\ workers' # <<>>
BY SaveWorkerTyped DEF TypeOK, Flow, WorkerSaved

LEMMA FailWorkerTyped ==
    ASSUME TypeOK, Flow, pc \notin {"off", "launch"}, FailWorker, disturbed' \in Nat
    PROVE  TypeOK'
<1> USE DEF aside
<1>1. workers' \in Seq(WorkerStatus)
  BY WorkerSavedTyped DEF FailWorker, WorkerStatus
<1>2. QED
  BY <1>1, ExecutorOverTyped DEF FailWorker, TypeOK, WorkerPc

LEMMA SaveUnfinishedTyped ==
    ASSUME TypeOK, Flow, pc \notin {"off", "launch"},
           NEW status \in {"paused", "cancelled_incomplete"}, SaveUnfinished(status)
    PROVE  TypeOK'
<1> USE DEF aside
<1>1. workers' \in Seq(WorkerStatus)
  BY WorkerSavedTyped DEF SaveUnfinished, WorkerStatus
<1>2. QED
  BY <1>1, ExecutorOverTyped DEF SaveUnfinished, observed, TypeOK, WorkerPc

LEMMA FinishCandidateTyped ==
    ASSUME TypeOK, Flow, pc \in EvaluationPc,
           NEW outcome \in Outcome, FinishCandidate(outcome)
    PROVE  TypeOK'
<1> USE DEF aside
<1>1. outcomes' \in [Slots -> Outcome] /\ gathered' \in [Slots -> Outcome]
  BY DEF FinishCandidate, TypeOK
<1>2. QED
  BY <1>1 DEF FinishCandidate, observed, TypeOK, WorkerPc, ExecutorPc

LEMMA EvaluationTyped ==
    ASSUME TypeOK, Flow, EvaluationStep
    PROVE  TypeOK'
<1> USE DEF aside
<1>1. pc \in EvaluationPc /\ cursor \in Slots
  BY DEF EvaluationStep, CancelCandidate, RejectCandidate, RenderAttempt, ClearToRun, StartCmo,
         FinishRun, RepairCandidate, EvaluationPc, Flow, EvaluatesOnce
<1>2. {"begin", "start", "rendered", "running"} \subseteq WorkerPc
  BY DEF WorkerPc, ExecutorPc, EvaluationPc
<1>3. CASE CancelCandidate \/ RejectCandidate
  BY <1>1, <1>3, FinishCandidateTyped, OutcomeFacts DEF CancelCandidate, RejectCandidate, Kind
<1>4. CASE FinishRun
  BY <1>1, <1>4, FinishCandidateTyped, OutcomeFacts DEF FinishRun, Kind
<1>5. CASE RenderAttempt
  <2> DEFINE next == IF attempts[cursor] > MaxRepairs THEN attempts[cursor] ELSE attempts[cursor] + 1
  <2>1. attempts' \in [Slots -> 0 .. MaxRepairs + 1]
    <3>1. attempts[cursor] \in 0 .. MaxRepairs + 1
      BY <1>1 DEF TypeOK
    <3>2. next \in 0 .. MaxRepairs + 1
      BY <3>1, ConstantFacts
    <3>3. attempts' = [attempts EXCEPT ![cursor] = next]
      BY <1>5 DEF RenderAttempt
    <3> HIDE DEF next
    <3>4. QED
      BY <3>2, <3>3 DEF TypeOK
  <2>2. QED
    BY <1>2, <1>5, <2>1 DEF RenderAttempt, TypeOK, observed
<1>6. CASE ClearToRun
  BY <1>2, <1>6 DEF ClearToRun, TypeOK, disk, observed
<1>7. CASE StartCmo
  <2>1. late' \in Nat
    BY <1>7 DEF StartCmo, TypeOK
  <2>2. QED
    BY <1>2, <1>7, <2>1 DEF StartCmo, TypeOK, disk
<1>8. CASE RepairCandidate
  <2>1. repairs' \in [Slots -> Nat]
    BY <1>1, <1>8 DEF RepairCandidate, TypeOK
  <2>2. QED
    BY <1>2, <1>8, <2>1 DEF RepairCandidate, TypeOK, disk
<1>9. QED
  BY <1>3, <1>4, <1>5, <1>6, <1>7, <1>8 DEF EvaluationStep

LEMMA LoopTyped ==
    ASSUME TypeOK, Flow, LoopStep
    PROVE  TypeOK'
<1> USE DEF aside
<1>1. {"begin", "slot", "learn"} \subseteq WorkerPc
  BY DEF WorkerPc, ExecutorPc, EvaluationPc
<1>2. CASE ReuseCandidate
  <2>1. cursor \in Slots /\ cursor + 1 \in 0 .. CandidateCount + 1
    BY <1>2, ConstantFacts DEF ReuseCandidate
  <2>2. gathered' \in [Slots -> Outcome]
    BY <1>2, <2>1 DEF ReuseCandidate, TypeOK
  <2>3. QED
    BY <1>2, <2>1, <2>2 DEF ReuseCandidate, TypeOK, disk, observed
<1>3. CASE ObeyRequest
  BY <1>3, SaveUnfinishedTyped DEF ObeyRequest, AtBoundary
<1>4. CASE BeginCandidate
  BY <1>1, <1>4 DEF BeginCandidate, TypeOK, disk, observed
<1>5. CASE NextCandidate
  <2>1. cursor + 1 \in 0 .. CandidateCount + 1
    BY <1>5, ConstantFacts DEF NextCandidate, Flow, EvaluatesOnce
  <2>2. QED
    BY <1>1, <1>5, <2>1 DEF NextCandidate, TypeOK, disk, observed
<1>6. CASE RankCandidates
  BY <1>1, <1>6 DEF RankCandidates, TypeOK, observed
<1>7. QED
  BY <1>2, <1>3, <1>4, <1>5, <1>6 DEF LoopStep

LEMMA PhasesTyped ==
    ASSUME TypeOK, Flow, PhaseStep
    PROVE  TypeOK'
<1> USE DEF aside
<1>1. {"saving", "skills", "champion", "written"} \subseteq WorkerPc
  BY DEF WorkerPc, ExecutorPc
<1>2. disturbed \in Nat
  BY DEF TypeOK
<1>3. CASE ReuseLearning
  <2>1. phase7' \in Phase7
    BY <1>3 DEF ReuseLearning, Phase7
  <2>2. QED
    BY <1>1, <1>3, <2>1 DEF ReuseLearning, TypeOK, disk, observed
<1>4. CASE LearnExperiences
  <2>1. learning' \in (SUBSET Experiences) \cup {None}
    BY <1>4 DEF LearnExperiences
  <2>2. QED
    BY <1>1, <1>4, <2>1 DEF LearnExperiences, TypeOK, observed
<1>5. CASE SaveExperience
  <2>1. learning \in SUBSET Experiences
    BY <1>5 DEF SaveExperience, Flow, LearnedOnce, TypeOK
  <2>2. store' \subseteq Experiences
    BY <1>5, <2>1 DEF SaveExperience, TypeOK
  <2>3. QED
    BY <1>5, <2>2 DEF SaveExperience, TypeOK, memory, observed
<1>6. CASE LearningSaved
  <2>1. learning \in SUBSET Experiences
    BY <1>6 DEF LearningSaved, Flow, LearnedOnce, TypeOK
  <2>2. phase7' \in Phase7
    BY <1>6, <2>1 DEF LearningSaved, Phase7
  <2>3. QED
    BY <1>1, <1>6, <2>2 DEF LearningSaved, TypeOK, disk, observed
<1>7. CASE SkillsDone
  BY <1>1, <1>7 DEF SkillsDone, TypeOK, disk, observed
<1>8. CASE SkillsNeedReview
  BY <1>8, SaveUnfinishedTyped DEF SkillsNeedReview
<1>9. CASE SkillsRejectReuse \/ BaselineIneligible
  BY <1>2, <1>9, FailWorkerTyped DEF SkillsRejectReuse, BaselineIneligible
<1>10. CASE WriteResult
  <2>1. PICK slot \in Slots :
           result' = [outcomes |-> gathered, phase7 |-> phase7, champion |-> slot]
    BY <1>10 DEF WriteResult
  <2>2. result' \in Result
    BY <2>1 DEF Result, TypeOK
  <2>3. QED
    BY <1>1, <1>10, <2>2, ExecutorOverTyped DEF WriteResult, TypeOK, observed
<1>11. QED
  BY <1>3, <1>4, <1>5, <1>6, <1>7, <1>8, <1>9, <1>10 DEF PhaseStep

LEMMA WorkersTyped ==
    ASSUME TypeOK, Flow, WorkerStep
    PROVE  TypeOK'
<1> USE DEF aside
<1>1. {"slot", "saved", "clear", "unlock"} \subseteq WorkerPc
  BY DEF WorkerPc, ExecutorPc
<1>2. CASE StartOperation
  BY <1>2 DEF StartOperation, TypeOK, observed
<1>3. CASE LaunchWorker
  <2>1. workers' \in Seq(WorkerStatus)
    BY <1>3 DEF LaunchWorker, TypeOK, WorkerStatus
  <2>2. cursor' \in 0 .. CandidateCount + 1 /\ gathered' \in [Slots -> Outcome] /\ phase7' \in Phase7
    BY <1>3, ConstantFacts DEF LaunchWorker
  <2>3. QED
    BY <1>1, <1>3, <2>1, <2>2 DEF LaunchWorker, TypeOK, observed
<1>4. CASE SaveCompleted
  <2>1. workers' \in Seq(WorkerStatus)
    BY <1>4, WorkerSavedTyped DEF SaveCompleted, WorkerStatus
  <2>2. QED
    BY <1>1, <1>4, <2>1 DEF SaveCompleted, TypeOK, observed
<1>5. CASE AdvanceCampaign
  <2>1. current' \in 0 .. 1
    BY <1>5 DEF AdvanceCampaign
  <2>2. QED
    BY <1>1, <1>5, <2>1 DEF AdvanceCampaign, TypeOK, observed
<1>6. CASE ClearControl
  <2>1. control' \in {"none", "pause", "stop"} /\ late' \in Nat
    BY <1>6 DEF ClearControl
  <2>2. QED
    BY <1>1, <1>6, <2>1 DEF ClearControl, TypeOK
<1>7. CASE ReleaseLock
  <2>1. locked' \in BOOLEAN
    BY <1>7 DEF ReleaseLock
  <2>2. QED
    BY <1>7, <2>1, ExecutorOverTyped DEF ReleaseLock, ThreadGone, TypeOK, observed
<1>8. CASE WorkerRaises
  <2>1. pc \notin {"off", "launch"}
    BY <1>8 DEF WorkerRaises, ExecutorPc, EvaluationPc
  <2>2. QED
    BY <1>8, <2>1, DisturbanceTyped, FailWorkerTyped DEF WorkerRaises
<1>9. QED
  BY <1>2, <1>3, <1>4, <1>5, <1>6, <1>7, <1>8 DEF WorkerStep

LEMMA OutsideTyped ==
    ASSUME TypeOK, Flow, FindingFresh, OutsideStep
    PROVE  TypeOK'
<1> USE DEF aside
<1>1. CASE Request("pause") \/ Request("stop")
  <2>1. disturbed' \in Nat /\ control' \in {"none", "pause", "stop"}
    BY <1>1, DisturbanceTyped DEF Request
  <2>2. QED
    BY <1>1, <2>1 DEF Request, TypeOK, memory
<1>2. CASE ResumeCampaign
  <2>1. disturbed' \in Nat /\ control' \in {"none", "pause", "stop"} /\ late' \in Nat
        /\ current' \in 0 .. 1
    BY <1>2, DisturbanceTyped DEF ResumeCampaign, TypeOK
  <2>2. QED
    BY <1>2, <2>1 DEF ResumeCampaign, TypeOK, memory
<1>3. CASE Reconcile
  <2>1. finding' \in Finding
    <3>1. CASE current = 0 /\ workers # <<>>
      <4>1. Newest \in Nat \ {0}
        BY <3>1, EmptySeq, LenProperties DEF TypeOK, Newest
      <4>2. PICK done \in BOOLEAN : done <=> result # None
        OBVIOUS
      <4>3. finding' = [step |-> "worker", epoch |-> Newest, done |-> done]
        BY <1>3, <3>1, <4>2 DEF Reconcile
      <4>4. QED
        BY <4>1, <4>3 DEF Finding
    <3>2. CASE ~(current = 0 /\ workers # <<>>)
      BY <1>3, <3>2 DEF Reconcile, TypeOK
    <3>3. QED
      BY <3>1, <3>2
  <2>2. crashed' \in BOOLEAN /\ disturbed' \in Nat
    BY <1>3, DisturbanceTyped DEF Reconcile, TypeOK
  <2>3. QED
    BY <1>3, <2>1, <2>2 DEF Reconcile, TypeOK, disk, memory
<1>4. CASE Crash
  <2>1. disturbed' \in Nat /\ crashed' \in BOOLEAN
    BY <1>4, DisturbanceTyped DEF Crash
  <2>2. finding' \in Finding
    <3>1. NothingFound \in Finding
      BY DEF NothingFound, Finding
    <3>2. finding' \in {finding, NothingFound}
      BY <1>4 DEF Crash
    <3>3. QED
      BY <3>1, <3>2 DEF TypeOK
  <2>3. (pc' = "off" /\ ExecutorOver) \/ UNCHANGED memory
    BY <1>4 DEF Crash, ThreadGone
  <2>4. /\ pc' \in WorkerPc \cup {"off", "launch"} /\ cursor' \in 0 .. CandidateCount + 1
        /\ gathered' \in [Slots -> Outcome] /\ phase7' \in Phase7
    BY <2>3, ExecutorOverTyped DEF TypeOK, memory
  <2>5. QED
    BY <1>4, <2>1, <2>2, <2>4 DEF Crash, TypeOK, disk
<1>5. CASE RemoveStaleLock
  <2>1. locked' \in BOOLEAN
    BY <1>5 DEF RemoveStaleLock
  <2>2. QED
    BY <1>5, <2>1 DEF RemoveStaleLock, TypeOK, memory, observed
<1>6. CASE WorkerReconciled
  <2>1. finding \in Finding /\ finding.epoch \in DOMAIN workers
    BY <1>6 DEF WorkerReconciled, FindingFresh, TypeOK
  <2>2. workers' \in Seq(WorkerStatus)
    BY <1>6, <2>1 DEF WorkerReconciled, TypeOK, WorkerStatus
  <2>3. finding' \in Finding
    BY <1>6, <2>1 DEF WorkerReconciled, Finding
  <2>4. QED
    BY <1>6, <2>2, <2>3 DEF WorkerReconciled, TypeOK, memory, observed
<1>7. CASE StateReconciled
  <2>1. current' \in 0 .. 1 /\ finding' \in Finding
    BY <1>7 DEF StateReconciled, NothingFound, Finding
  <2>2. QED
    BY <1>7, <2>1 DEF StateReconciled, TypeOK, memory, observed
<1>8. QED
  BY <1>1, <1>2, <1>3, <1>4, <1>5, <1>6, <1>7 DEF OutsideStep, Reconciliation

LEMMA NextSteps ==
    Next => LoopStep \/ EvaluationStep \/ PhaseStep \/ WorkerStep \/ OutsideStep
BY DEF Next, Worker, Client, LoopStep, EvaluationStep, PhaseStep, WorkerStep, OutsideStep

LEMMA TypesNext == TypeOK /\ Flow /\ FindingFresh /\ [Next]_vars => TypeOK'
<1> SUFFICES ASSUME TypeOK, Flow, FindingFresh, [Next]_vars PROVE TypeOK'
  OBVIOUS
<1>1. CASE Next
  BY <1>1, NextSteps, LoopTyped, EvaluationTyped, PhasesTyped, WorkersTyped, OutsideTyped
<1>2. CASE UNCHANGED vars
  BY <1>2 DEF vars, aside, disk, memory, observed, TypeOK
<1>3. QED
  BY <1>1, <1>2

-----------------------------------------------------------------------------
(* What a Worker may rely on *)

\* The candidate of the cursor gets an outcome.
LEMMA FinishCandidateAgrees ==
    ASSUME TypeOK, Flow, pc \in EvaluationPc,
           NEW outcome \in Outcome, outcome.kind # "missing", FinishCandidate(outcome)
    PROVE  Flow'
<1>1. cursor \in Slots /\ pc \notin {"off", "launch", "boundary"} \cup AfterLoop
  BY DEF Flow, EvaluatesOnce, EvaluationPc, AfterLoop
<1>2. /\ outcomes' = [outcomes EXCEPT ![cursor] = outcome]
      /\ gathered' = [gathered EXCEPT ![cursor] = outcome]
      /\ pc' = "boundary"
      /\ UNCHANGED <<workers, locked, control, attempts, learning, cursor, repairs, late>>
  BY DEF FinishCandidate, observed
<1>3. GatheredAgrees'
  <2>1. \A s \in Slots : s \in Int
    BY ConstantFacts
  <2>2. \A s \in Slots : s < cursor => Agreed(s)
    BY DEF Flow, GatheredAgrees
  <2>3. ASSUME NEW s \in Slots, s <= cursor PROVE Agreed(s)'
    BY <1>1, <1>2, <2>1, <2>2, <2>3 DEF Agreed, TypeOK
  <2>4. QED
    BY <1>2, <2>3 DEF GatheredAgrees, EvaluationPc, AfterLoop
<1>4. LockHeld' /\ WorkerSaved' /\ EvaluatesOnce' /\ RequestPending' /\ LearnedOnce'
  BY <1>1, <1>2
     DEF Flow, LockHeld, WorkerSaved, EvaluatesOnce, EvaluationPc, RequestPending, LearnedOnce
<1>5. RepairsCounted'
  BY <1>2 DEF Flow, RepairsCounted
<1>6. QED
  BY <1>3, <1>4, <1>5 DEF Flow

LEMMA FlowOfEvaluation ==
    ASSUME TypeOK, Flow, EvaluationStep
    PROVE  Flow'
<1>1. pc \in EvaluationPc /\ cursor \in Slots
  BY DEF EvaluationStep, CancelCandidate, RejectCandidate, RenderAttempt, ClearToRun, StartCmo,
         FinishRun, RepairCandidate, EvaluationPc, Flow, EvaluatesOnce
<1>2. CASE CancelCandidate \/ RejectCandidate
  BY <1>1, <1>2, FinishCandidateAgrees, OutcomeFacts DEF CancelCandidate, RejectCandidate, Kind
<1>3. CASE FinishRun
  <2>1. PICK outcome \in {Scored(score) : score \in Scores}
                         \cup {Unscored("unscored"), Unscored("failed")} : FinishCandidate(outcome)
    BY <1>3 DEF FinishRun
  <2>2. outcome \in Outcome /\ outcome.kind # "missing"
    BY <2>1, OutcomeFacts DEF Kind
  <2>3. QED
    BY <1>1, <2>1, <2>2, FinishCandidateAgrees
<1>4. CASE RenderAttempt \/ ClearToRun \/ StartCmo \/ RepairCandidate
  <2>1. /\ pc' \in EvaluationPc
        /\ UNCHANGED <<workers, locked, control, outcomes, learning, cursor, gathered>>
    BY <1>4 DEF RenderAttempt, ClearToRun, StartCmo, RepairCandidate, EvaluationPc, disk, observed
  <2>2. LockHeld' /\ WorkerSaved' /\ EvaluatesOnce' /\ LearnedOnce'
    BY <1>1, <2>1 DEF Flow, LockHeld, WorkerSaved, EvaluatesOnce, EvaluationPc, LearnedOnce
  <2>3. GatheredAgrees'
    BY <1>1, <2>1 DEF Flow, GatheredAgrees, Agreed, EvaluationPc, AfterLoop
  <2>4. RequestPending'
    BY <1>4 DEF RenderAttempt, ClearToRun, StartCmo, RepairCandidate, Flow, RequestPending,
                disk, observed
  <2>5. RepairsCounted'
    <3>1. /\ \A s \in Slots : attempts[s] \in Nat /\ repairs[s] \in Nat
          /\ DOMAIN attempts = Slots /\ DOMAIN repairs = Slots /\ RepairsCounted
          /\ MaxRepairs \in Nat
      <4>1. MaxRepairs \in Nat /\ RepairsCounted
        BY ConstantFacts DEF Flow
      <4>2. attempts \in [Slots -> 0 .. MaxRepairs + 1] /\ repairs \in [Slots -> Nat]
        BY DEF TypeOK
      <4>3. QED
        BY <4>1, <4>2
    <3>2. CASE RenderAttempt
      <4>1. /\ attempts' = [attempts EXCEPT ![cursor] = IF @ > MaxRepairs THEN @ ELSE @ + 1]
            /\ UNCHANGED <<repairs, cursor>>
        BY <3>2 DEF RenderAttempt, observed
      <4>2. attempts'[cursor] > repairs[cursor]
        BY <1>1, <3>1, <4>1 DEF RepairsCounted
      <4>3. \A s \in Slots : s # cursor => attempts'[s] = attempts[s]
        BY <3>1, <4>1
      <4>4. QED
        BY <1>1, <3>1, <4>1, <4>2, <4>3 DEF RepairsCounted, TypeOK
    <3>3. CASE ClearToRun
      BY <3>1, <3>3 DEF ClearToRun, RepairsCounted, disk, observed
    <3>4. CASE StartCmo
      BY <3>1, <3>4 DEF StartCmo, RepairsCounted, disk
    <3>5. CASE RepairCandidate
      <4>1. /\ repairs' = [repairs EXCEPT ![cursor] = @ + 1] /\ pc' = "begin" /\ pc = "running"
            /\ attempts[cursor] <= MaxRepairs /\ UNCHANGED <<attempts, cursor>>
        BY <3>5 DEF RepairCandidate, RepairAllowed, disk
      <4>2. /\ repairs'[cursor] = repairs[cursor] + 1
            /\ \A s \in Slots : s # cursor => repairs'[s] = repairs[s]
        BY <1>1, <3>1, <4>1
      <4>3. repairs[cursor] < attempts[cursor]
        BY <3>1, <4>1 DEF RepairsCounted
      <4>4. QED
        BY <1>1, <3>1, <4>1, <4>2, <4>3 DEF RepairsCounted
    <3>6. QED
      BY <1>4, <3>2, <3>3, <3>4, <3>5
  <2>6. QED
    BY <2>2, <2>3, <2>4, <2>5 DEF Flow
<1>5. QED
  BY <1>2, <1>3, <1>4 DEF EvaluationStep

LEMMA FlowOfLoop ==
    ASSUME TypeOK, Flow, LoopStep
    PROVE  Flow'
<1> USE DEF LoopStep
<1>1. pc \in {"slot", "boundary"}
  BY DEF ReuseCandidate, ObeyRequest, BeginCandidate, NextCandidate, RankCandidates, AtBoundary
<1>2. WorkerSaved'
  <2>1. workers # <<>>
    BY <1>1 DEF Flow, WorkerSaved
  <2>2. workers' = workers \/ \E status \in {"paused", "cancelled_incomplete"} : SaveWorker(status)
    BY DEF ReuseCandidate, ObeyRequest, BeginCandidate, NextCandidate, RankCandidates,
           SaveUnfinished, disk
  <2>3. QED
    BY <1>1, <2>1, <2>2, WorkerSavedTyped DEF WorkerSaved, WorkerStatus
<1>3. GatheredAgrees'
  <2>1. (\A s \in Slots : s \in Int) /\ cursor \in Int
    BY ConstantFacts DEF TypeOK
  <2>2. CASE ReuseCandidate
    <3>1. /\ pc = "slot" /\ cursor \in Slots /\ Ran(outcomes[cursor]) /\ cursor' = cursor + 1
          /\ gathered' = [gathered EXCEPT ![cursor] = outcomes[cursor]]
          /\ UNCHANGED <<outcomes, pc>>
      BY <2>2 DEF ReuseCandidate, disk
    <3>2. \A s \in Slots : s < cursor => Agreed(s)
      BY <3>1 DEF Flow, GatheredAgrees
    <3>3. ASSUME NEW s \in Slots, s < cursor + 1 PROVE Agreed(s)'
      BY <2>1, <3>1, <3>2, <3>3 DEF Agreed, Ran, TypeOK
    <3>4. QED
      BY <3>1, <3>3 DEF GatheredAgrees, EvaluationPc, AfterLoop
  <2>3. CASE ObeyRequest
    BY <2>3 DEF ObeyRequest, SaveUnfinished, GatheredAgrees, EvaluationPc, AfterLoop
  <2>4. CASE BeginCandidate
    BY <2>4 DEF BeginCandidate, Flow, GatheredAgrees, Agreed, EvaluationPc, AfterLoop, disk
  <2>5. CASE NextCandidate
    <3>1. /\ pc = "boundary" /\ pc' = "slot" /\ cursor' = cursor + 1
          /\ UNCHANGED <<outcomes, gathered>>
      BY <2>5 DEF NextCandidate, disk
    <3>2. QED
      BY <2>1, <3>1 DEF Flow, GatheredAgrees, Agreed, EvaluationPc, AfterLoop
  <2>6. CASE RankCandidates
    <3>1. pc = "slot" /\ cursor \notin Slots /\ pc' = "learn"
          /\ outcomes' = gathered /\ gathered' = gathered
      BY <2>6 DEF RankCandidates
    <3>2. \A s \in Slots : s < cursor
      BY <3>1, ConstantFacts DEF TypeOK
    <3>3. QED
      BY <3>1, <3>2 DEF Flow, GatheredAgrees, Agreed, EvaluationPc, AfterLoop
  <2>7. QED
    BY <2>2, <2>3, <2>4, <2>5, <2>6
<1>4. LockHeld' /\ LearnedOnce' /\ RequestPending'
  BY <1>1
     DEF Flow, LockHeld, LearnedOnce, RequestPending, ReuseCandidate, ObeyRequest, BeginCandidate,
         NextCandidate, RankCandidates, SaveUnfinished, disk, observed
<1>5. EvaluatesOnce' /\ RepairsCounted'
  BY <1>1
     DEF Flow, EvaluatesOnce, EvaluationPc, RepairsCounted, ReuseCandidate, ObeyRequest,
         BeginCandidate, NextCandidate, RankCandidates, SaveUnfinished, disk, observed
<1>6. QED
  BY <1>2, <1>3, <1>4, <1>5 DEF Flow

LEMMA FlowOfPhases ==
    ASSUME TypeOK, Flow, PhaseStep
    PROVE  Flow'
<1> USE DEF PhaseStep
<1>1. pc \in AfterLoop
  BY DEF ReuseLearning, LearnExperiences, SaveExperience, LearningSaved, SkillsDone,
         SkillsNeedReview, SkillsRejectReuse, BaselineIneligible, WriteResult,
         AfterLoop
<1>2. /\ pc' \in AfterLoop \cup {"clear", "failed", "written"}
      /\ UNCHANGED <<locked, outcomes, attempts, repairs, control, late>>
      /\ pc' \in AfterLoop => UNCHANGED gathered
      /\ learning # None => learning' = learning
  BY NoneAssumption
     DEF ReuseLearning, LearnExperiences, SaveExperience, LearningSaved, SkillsDone,
         SkillsNeedReview, SkillsRejectReuse, BaselineIneligible, WriteResult,
         SaveUnfinished, FailWorker, AfterLoop, disk, memory, observed
<1>3. WorkerSaved'
  <2>1. pc \notin {"off", "launch"}
    BY <1>1 DEF AfterLoop
  <2>2. workers' = workers \/ \E status \in {"paused", "failed"} : SaveWorker(status)
    BY DEF ReuseLearning, LearnExperiences, SaveExperience, LearningSaved, SkillsDone,
           SkillsNeedReview, SkillsRejectReuse, BaselineIneligible, WriteResult,
           SaveUnfinished, FailWorker, disk
  <2>3. QED
    BY <2>1, <2>2, WorkerSavedTyped DEF Flow, WorkerSaved, WorkerStatus
<1>4. LearnedOnce'
  BY NoneAssumption
     DEF Flow, LearnedOnce, ReuseLearning, LearnExperiences, SaveExperience, LearningSaved,
         SkillsDone, SkillsNeedReview, SkillsRejectReuse, BaselineIneligible,
         WriteResult, SaveUnfinished, FailWorker, disk, memory
<1>5. LockHeld' /\ EvaluatesOnce' /\ RepairsCounted' /\ RequestPending'
  BY <1>1, <1>2
     DEF Flow, LockHeld, EvaluatesOnce, EvaluationPc, RepairsCounted, RequestPending, AfterLoop
<1>6. GatheredAgrees'
  BY <1>1, <1>2 DEF Flow, GatheredAgrees, Agreed, EvaluationPc, AfterLoop
<1>7. QED
  BY <1>3, <1>4, <1>5, <1>6 DEF Flow

LEMMA FlowOfWorkers ==
    ASSUME TypeOK, Flow, WorkerStep
    PROVE  Flow'
<1> USE DEF WorkerStep
<1>1. WorkerSaved'
  <2>1. CASE LaunchWorker
    <3>1. workers' = Append(workers, "running") /\ workers \in Seq(WorkerStatus)
          /\ "running" \in WorkerStatus
      BY <2>1 DEF LaunchWorker, TypeOK, WorkerStatus
    <3>2. workers' # <<>>
      BY <3>1, AppendProperties
    <3>3. QED
      BY <3>2 DEF WorkerSaved
  <2>2. CASE SaveCompleted
    BY <2>2, WorkerSavedTyped DEF SaveCompleted, WorkerSaved, WorkerStatus
  <2>3. CASE WorkerRaises
    <3>1. pc \notin {"off", "launch"}
      BY <2>3 DEF WorkerRaises, ExecutorPc, EvaluationPc
    <3>2. QED
      BY <2>3, <3>1, WorkerSavedTyped DEF WorkerRaises, FailWorker, WorkerSaved, WorkerStatus
  <2>4. CASE StartOperation \/ AdvanceCampaign \/ ClearControl \/ ReleaseLock
    BY <2>4 DEF StartOperation, AdvanceCampaign, ClearControl, ReleaseLock, ThreadGone, Flow,
                WorkerSaved
  <2>5. QED
    BY <2>1, <2>2, <2>3, <2>4
<1>2. GatheredAgrees'
  <2>1. \A s \in Slots : ~(s < 0)
    BY ConstantFacts
  <2>2. QED
    BY <2>1, ConstantFacts
       DEF GatheredAgrees, EvaluationPc, AfterLoop, StartOperation, LaunchWorker, SaveCompleted,
           AdvanceCampaign, ClearControl, ReleaseLock, ThreadGone, WorkerRaises, FailWorker
<1>3. LockHeld' /\ LearnedOnce' /\ RequestPending'
  BY DEF Flow, LockHeld, LearnedOnce, RequestPending, StartOperation, LaunchWorker, SaveCompleted,
         AdvanceCampaign, ClearControl, ReleaseLock, ThreadGone, WorkerRaises, FailWorker,
         ExecutorPc, EvaluationPc, observed
<1>4. EvaluatesOnce' /\ RepairsCounted'
  BY DEF Flow, EvaluatesOnce, RepairsCounted, StartOperation, LaunchWorker,
         SaveCompleted, AdvanceCampaign, ClearControl, ReleaseLock, ThreadGone, WorkerRaises, FailWorker,
         ExecutorPc, EvaluationPc, observed
<1>5. QED
  BY <1>1, <1>2, <1>3, <1>4 DEF Flow

LEMMA FlowOfOutside ==
    ASSUME TypeOK, Flow, FindingFresh, OutsideStep
    PROVE  Flow'
<1> USE DEF OutsideStep, Reconciliation
<1>1. UNCHANGED <<outcomes, attempts, repairs, learning>>
  BY DEF Request, ResumeCampaign, Reconcile, WorkerReconciled, StateReconciled, Crash,
         RemoveStaleLock, disk, observed
<1>2. /\ pc' = "off" \/ UNCHANGED <<pc, cursor, gathered, locked>>
      /\ late' = 0 \/ (late' = late /\ control' \in {control, "pause", "stop"})
  <2>1. ASSUME NEW action \in {"pause", "stop"}, Request(action)
        PROVE  UNCHANGED <<pc, cursor, gathered, locked, late>> /\ control' = action
    BY <2>1 DEF Request, memory
  <2>2. CASE Reconcile \/ WorkerReconciled \/ StateReconciled
    BY <2>2 DEF Reconcile, WorkerReconciled, StateReconciled, disk, memory, observed
  <2>3. CASE Crash
    BY <2>3 DEF Crash, ThreadGone, disk, memory
  <2>4. CASE RemoveStaleLock
    BY <2>4 DEF RemoveStaleLock, memory, observed
  <2>5. CASE ResumeCampaign
    BY <2>5 DEF ResumeCampaign, memory
  <2>6. QED
    BY <2>1, <2>2, <2>3, <2>4, <2>5
<1>3. WorkerSaved'
  <2>1. CASE WorkerReconciled
    <3>1. workers' = [workers EXCEPT ![finding.epoch] = workers'[finding.epoch]]
          /\ finding.epoch \in DOMAIN workers /\ workers \in Seq(WorkerStatus)
      BY <2>1 DEF WorkerReconciled, FindingFresh, TypeOK
    <3>2. workers' # <<>>
      BY <3>1
    <3>3. QED
      BY <3>2 DEF WorkerSaved
  <2>2. CASE ~WorkerReconciled
    BY <1>2, <2>2
       DEF Request, ResumeCampaign, Reconcile, StateReconciled, Crash, RemoveStaleLock, disk,
           Flow, WorkerSaved
  <2>3. QED
    BY <2>1, <2>2
<1>4. LockHeld' /\ EvaluatesOnce' /\ RepairsCounted' /\ RequestPending' /\ LearnedOnce'
  BY <1>1, <1>2
     DEF Flow, LockHeld, EvaluatesOnce, EvaluationPc, RepairsCounted, RequestPending, LearnedOnce
<1>5. GatheredAgrees'
  BY <1>1, <1>2 DEF Flow, GatheredAgrees, Agreed, EvaluationPc, AfterLoop
<1>6. QED
  BY <1>3, <1>4, <1>5 DEF Flow

LEMMA FlowNext == TypeOK /\ Flow /\ FindingFresh /\ [Next]_vars => Flow'
<1> SUFFICES ASSUME TypeOK, Flow, FindingFresh, [Next]_vars PROVE Flow'
  OBVIOUS
<1>1. CASE Next
  BY <1>1, NextSteps, FlowOfLoop, FlowOfEvaluation, FlowOfPhases, FlowOfWorkers, FlowOfOutside
<1>2. CASE UNCHANGED vars
  BY <1>2
     DEF vars, disk, memory, observed, Flow, LockHeld, WorkerSaved, EvaluatesOnce, GatheredAgrees,
         Agreed, RepairsCounted, RequestPending, LearnedOnce
<1>3. QED
  BY <1>1, <1>2

\* The list of Workers only grows.
LEMMA WorkersListed ==
    ASSUME TypeOK, Flow, FindingFresh, [Next]_vars
    PROVE  DOMAIN workers \subseteq DOMAIN workers'
<1>1. workers \in Seq(WorkerStatus)
  BY DEF TypeOK
<1>2. CASE UNCHANGED workers
  BY <1>2
<1>3. CASE \E e \in DOMAIN workers : \E status : workers' = [workers EXCEPT ![e] = status]
  BY <1>1, <1>3
<1>4. CASE LaunchWorker
  BY <1>1, <1>4, AppendProperties DEF LaunchWorker, WorkerStatus
<1>5. ASSUME NEW status, SaveWorker(status), pc \notin {"off", "launch"}
      PROVE  DOMAIN workers \subseteq DOMAIN workers'
  BY <1>1, <1>5 DEF SaveWorker
<1>6. CASE LoopStep
  BY <1>2, <1>5, <1>6
     DEF LoopStep, ReuseCandidate, ObeyRequest, AtBoundary, BeginCandidate, NextCandidate,
         RankCandidates, SaveUnfinished, disk
<1>7. CASE EvaluationStep
  BY <1>2, <1>7
     DEF EvaluationStep, CancelCandidate, RejectCandidate, RenderAttempt, ClearToRun, StartCmo,
         FinishRun, RepairCandidate, FinishCandidate, disk
<1>8. CASE PhaseStep
  BY <1>2, <1>5, <1>8
     DEF PhaseStep, ReuseLearning, LearnExperiences, SaveExperience, LearningSaved, SkillsDone,
         SkillsNeedReview, SkillsRejectReuse, BaselineIneligible, WriteResult, SaveUnfinished,
         FailWorker, disk
<1>9. CASE WorkerStep
  BY <1>2, <1>4, <1>5, <1>9
     DEF WorkerStep, StartOperation, SaveCompleted, AdvanceCampaign, ClearControl, ReleaseLock,
         WorkerRaises, FailWorker, ExecutorPc, EvaluationPc
<1>10. CASE WorkerReconciled
  BY <1>3, <1>10 DEF WorkerReconciled, FindingFresh
<1>11. CASE OutsideStep /\ ~WorkerReconciled
  BY <1>2, <1>11
     DEF OutsideStep, Reconciliation, Request, ResumeCampaign, Reconcile, StateReconciled,
         Crash, RemoveStaleLock, disk
<1>12. CASE UNCHANGED vars
  BY <1>2, <1>12 DEF vars, disk
<1>13. QED
  BY <1>6, <1>7, <1>8, <1>9, <1>10, <1>11, <1>12, NextSteps

LEMMA FindingNext ==
    ASSUME TypeOK, Flow, FindingFresh, [Next]_vars
    PROVE  FindingFresh'
<1>1. CASE UNCHANGED finding
  BY <1>1, WorkersListed DEF FindingFresh
<1>2. CASE finding' = NothingFound
  BY <1>2 DEF FindingFresh, NothingFound
<1>3. CASE Reconcile
  <2>1. CASE current = 0 /\ workers # <<>>
    <3>1. Newest \in DOMAIN workers
      BY <2>1, EmptySeq, LenProperties DEF TypeOK, Newest
    <3>2. finding'.epoch = Newest /\ workers' = workers
      BY <1>3, <2>1 DEF Reconcile, disk
    <3>3. QED
      BY <3>1, <3>2 DEF FindingFresh
  <2>2. CASE ~(current = 0 /\ workers # <<>>)
    BY <1>1, <1>3, <2>2 DEF Reconcile
  <2>3. QED
    BY <2>1, <2>2
<1>4. CASE WorkerReconciled
  <2>1. finding' = [finding EXCEPT !.step = "state"] /\ finding \in Finding
    BY <1>4 DEF WorkerReconciled, TypeOK
  <2>2. finding'.step = "state"
    BY <2>1 DEF Finding
  <2>3. QED
    BY <2>2 DEF FindingFresh
<1>5. CASE LoopStep
  BY <1>1, <1>5
     DEF LoopStep, ReuseCandidate, ObeyRequest, BeginCandidate, NextCandidate, RankCandidates,
         SaveUnfinished, aside
<1>6. CASE EvaluationStep
  BY <1>1, <1>6
     DEF EvaluationStep, CancelCandidate, RejectCandidate, RenderAttempt, ClearToRun, StartCmo,
         FinishRun, RepairCandidate, FinishCandidate, aside
<1>7. CASE PhaseStep
  BY <1>1, <1>7
     DEF PhaseStep, ReuseLearning, LearnExperiences, SaveExperience, LearningSaved, SkillsDone,
         SkillsNeedReview, SkillsRejectReuse, BaselineIneligible, WriteResult, SaveUnfinished,
         FailWorker, aside
<1>8. CASE WorkerStep
  BY <1>1, <1>8
     DEF WorkerStep, StartOperation, LaunchWorker, SaveCompleted, AdvanceCampaign, ClearControl,
         ReleaseLock, WorkerRaises, FailWorker, aside
<1>9. CASE OutsideStep
  BY <1>1, <1>2, <1>3, <1>4, <1>9
     DEF OutsideStep, Reconciliation, Request, ResumeCampaign, StateReconciled, Crash,
         RemoveStaleLock, aside
<1>10. CASE UNCHANGED vars
  BY <1>1, <1>10 DEF vars, aside
<1>11. QED
  BY <1>5, <1>6, <1>7, <1>8, <1>9, <1>10, NextSteps

-----------------------------------------------------------------------------
(* What a step of the generation keeps *)

LEMMA OutcomesKept ==
    ASSUME TypeOK, Flow, [Next]_vars, NEW s \in Slots, Ran(outcomes[s])
    PROVE  outcomes'[s] = outcomes[s]
<1>1. CASE UNCHANGED outcomes
  BY <1>1
<1>2. CASE \E outcome : pc \in EvaluationPc /\ FinishCandidate(outcome)
  <2>1. cursor # s
    BY <1>2 DEF Flow, EvaluatesOnce
  <2>2. QED
    BY <1>2, <2>1 DEF FinishCandidate, TypeOK
<1>3. CASE RankCandidates
  <2>1. \A t \in Slots : t < cursor
    BY <1>3, ConstantFacts DEF RankCandidates, TypeOK
  <2>2. QED
    BY <1>3, <2>1 DEF RankCandidates, Flow, GatheredAgrees, Agreed
<1>4. CASE LoopStep /\ ~RankCandidates
  BY <1>1, <1>4
     DEF LoopStep, ReuseCandidate, ObeyRequest, BeginCandidate, NextCandidate, SaveUnfinished, disk
<1>5. CASE EvaluationStep
  BY <1>1, <1>2, <1>5
     DEF EvaluationStep, CancelCandidate, RejectCandidate, RenderAttempt, ClearToRun, StartCmo,
         FinishRun, RepairCandidate, EvaluationPc, disk
<1>6. CASE PhaseStep
  BY <1>1, <1>6
     DEF PhaseStep, ReuseLearning, LearnExperiences, SaveExperience, LearningSaved, SkillsDone,
         SkillsNeedReview, SkillsRejectReuse, BaselineIneligible, WriteResult,
         SaveUnfinished, FailWorker, disk
<1>7. CASE WorkerStep
  BY <1>1, <1>7
     DEF WorkerStep, StartOperation, LaunchWorker, SaveCompleted, AdvanceCampaign, ClearControl,
         ReleaseLock, WorkerRaises, FailWorker
<1>8. CASE OutsideStep
  BY <1>1, <1>8
     DEF OutsideStep, Reconciliation, Request, ResumeCampaign, Reconcile, WorkerReconciled,
         StateReconciled, Crash, RemoveStaleLock, disk
<1>9. CASE UNCHANGED vars
  BY <1>1, <1>9 DEF vars, disk
<1>10. QED
  BY <1>3, <1>4, <1>5, <1>6, <1>7, <1>8, <1>9, NextSteps

\* Experiences are kept once there are any, and the store only takes from them.
LEMMA ComparisonKept ==
    ASSUME TypeOK, Flow, ExperiencesFromOneComparison, [Next]_vars
    PROVE  ExperiencesFromOneComparison'
<1>1. CASE LearnExperiences
  <2>1. learning' # None /\ store = {} /\ UNCHANGED <<store, result>>
    BY <1>1, NoneAssumption DEF LearnExperiences, ExperiencesFromOneComparison
  <2>2. QED
    BY <2>1 DEF ExperiencesFromOneComparison
<1>2. CASE SaveExperience
  <2>1. learning # None /\ UNCHANGED <<learning, result>> /\ \E record \in learning : store' = store \cup {record}
    BY <1>2 DEF SaveExperience, Flow, LearnedOnce
  <2>2. QED
    BY <2>1 DEF ExperiencesFromOneComparison
<1>3. CASE WriteResult
  BY <1>3 DEF WriteResult, Flow, LearnedOnce, ExperiencesFromOneComparison
<1>4. CASE UNCHANGED <<learning, store, result>>
  BY <1>4 DEF ExperiencesFromOneComparison
<1>5. CASE LoopStep
  BY <1>4, <1>5
     DEF LoopStep, ReuseCandidate, ObeyRequest, BeginCandidate, NextCandidate, RankCandidates,
         SaveUnfinished, disk
<1>6. CASE EvaluationStep
  BY <1>4, <1>6
     DEF EvaluationStep, CancelCandidate, RejectCandidate, RenderAttempt, ClearToRun, StartCmo,
         FinishRun, RepairCandidate, FinishCandidate, disk
<1>7. CASE PhaseStep
  BY <1>1, <1>2, <1>3, <1>4, <1>7
     DEF PhaseStep, ReuseLearning, LearningSaved, SkillsDone, SkillsNeedReview,
         SkillsRejectReuse, BaselineIneligible, SaveUnfinished, FailWorker, disk
<1>8. CASE WorkerStep
  BY <1>4, <1>8
     DEF WorkerStep, StartOperation, LaunchWorker, SaveCompleted, AdvanceCampaign, ClearControl,
         ReleaseLock, WorkerRaises, FailWorker
<1>9. CASE OutsideStep
  BY <1>4, <1>9
     DEF OutsideStep, Reconciliation, Request, ResumeCampaign, Reconcile, WorkerReconciled,
         StateReconciled, Crash, RemoveStaleLock, disk
<1>10. CASE UNCHANGED vars
  BY <1>4, <1>10 DEF vars, disk
<1>11. QED
  BY <1>5, <1>6, <1>7, <1>8, <1>9, <1>10, NextSteps

\* The request is read once more between two CMO runs.
LEMMA RequestsKept ==
    ASSUME TypeOK, Flow, RequestHonoured, [Next]_vars
    PROVE  RequestHonoured'
<1>1. late \in Nat
  BY DEF TypeOK
<1>2. CASE StartCmo
  BY <1>1, <1>2 DEF StartCmo, Flow, RequestPending, RequestHonoured
<1>3. CASE late' \in {0, late}
  BY <1>3 DEF RequestHonoured
<1>4. CASE LoopStep
  BY <1>3, <1>4
     DEF LoopStep, ReuseCandidate, ObeyRequest, BeginCandidate, NextCandidate, RankCandidates,
         SaveUnfinished, observed
<1>5. CASE EvaluationStep
  BY <1>2, <1>3, <1>5
     DEF EvaluationStep, CancelCandidate, RejectCandidate, RenderAttempt, ClearToRun, FinishRun,
         RepairCandidate, FinishCandidate, observed
<1>6. CASE PhaseStep
  BY <1>3, <1>6
     DEF PhaseStep, ReuseLearning, LearnExperiences, SaveExperience, LearningSaved, SkillsDone,
         SkillsNeedReview, SkillsRejectReuse, BaselineIneligible, WriteResult,
         SaveUnfinished, FailWorker, observed
<1>7. CASE WorkerStep
  BY <1>3, <1>7
     DEF WorkerStep, StartOperation, LaunchWorker, SaveCompleted, AdvanceCampaign, ClearControl,
         ReleaseLock, WorkerRaises, FailWorker, observed
<1>8. CASE OutsideStep
  BY <1>3, <1>8
     DEF OutsideStep, Reconciliation, Request, ResumeCampaign, Reconcile, WorkerReconciled,
         StateReconciled, Crash, RemoveStaleLock, observed
<1>9. CASE UNCHANGED vars
  BY <1>3, <1>9 DEF vars, observed
<1>10. QED
  BY <1>4, <1>5, <1>6, <1>7, <1>8, <1>9, NextSteps

\* The result is written from a list that agrees with the disk, and what it says ran
\* stays as it is.
LEMMA ResultKept ==
    ASSUME TypeOK, Flow, ResultSound, [Next]_vars
    PROVE  ResultSound'
<1>1. CASE WriteResult
  <2>1. PICK slot \in Slots :
           /\ Champion(slot)
           /\ result' = [outcomes |-> gathered, phase7 |-> phase7, champion |-> slot]
    BY <1>1 DEF WriteResult
  <2>2. /\ gathered[slot].kind = "scored"
        /\ slot # Baseline => gathered[slot].score >= gathered[Baseline].score + MinimumDelta
    BY <1>1, <2>1, ChampionSound DEF WriteResult, TypeOK
  <2>3. \A s \in Slots : Agreed(s) /\ outcomes' = outcomes
    BY <1>1 DEF WriteResult, Flow, GatheredAgrees, AfterLoop
  <2>4. result'.outcomes = gathered /\ result'.champion = slot
    BY <2>1
  <2>5. QED
    BY <2>2, <2>3, <2>4 DEF ResultSound, Agreed
<1>2. CASE UNCHANGED result
  <2>1. ASSUME NEW s \in Slots, result # None, Ran(result.outcomes[s])
        PROVE  outcomes'[s] = result.outcomes[s]
    <3>1. outcomes[s] = result.outcomes[s]
      BY <2>1 DEF ResultSound
    <3>2. QED
      BY <2>1, <3>1, OutcomesKept
  <2>2. QED
    BY <1>2, <2>1 DEF ResultSound, Ran
<1>3. CASE LoopStep
  BY <1>2, <1>3
     DEF LoopStep, ReuseCandidate, ObeyRequest, BeginCandidate, NextCandidate, RankCandidates,
         SaveUnfinished, disk
<1>4. CASE EvaluationStep
  BY <1>2, <1>4
     DEF EvaluationStep, CancelCandidate, RejectCandidate, RenderAttempt, ClearToRun, StartCmo,
         FinishRun, RepairCandidate, FinishCandidate, disk
<1>5. CASE PhaseStep
  BY <1>1, <1>2, <1>5
     DEF PhaseStep, ReuseLearning, LearnExperiences, SaveExperience, LearningSaved, SkillsDone,
         SkillsNeedReview, SkillsRejectReuse, BaselineIneligible, SaveUnfinished,
         FailWorker, disk
<1>6. CASE WorkerStep
  BY <1>2, <1>6
     DEF WorkerStep, StartOperation, LaunchWorker, SaveCompleted, AdvanceCampaign, ClearControl,
         ReleaseLock, WorkerRaises, FailWorker
<1>7. CASE OutsideStep
  BY <1>2, <1>7
     DEF OutsideStep, Reconciliation, Request, ResumeCampaign, Reconcile, WorkerReconciled,
         StateReconciled, Crash, RemoveStaleLock, disk
<1>8. CASE UNCHANGED vars
  BY <1>2, <1>8 DEF vars, disk
<1>9. QED
  BY <1>3, <1>4, <1>5, <1>6, <1>7, <1>8, NextSteps

LEMMA GenerationInvInit == Init => GenerationInv
<1> SUFFICES ASSUME Init PROVE GenerationInv
  OBVIOUS
<1>1. TypeOK
  BY TypesInit
<1>2. Flow
  BY ConstantFacts, GenerationAssumption
     DEF Init, Flow, LockHeld, WorkerSaved, EvaluatesOnce, EvaluationPc, GatheredAgrees, AfterLoop,
         RepairsCounted, RequestPending, LearnedOnce
<1>3. GenerationSound
  BY GenerationAssumption
     DEF Init, GenerationSound, RepairsWithinBudget, RequestHonoured,
         ExperiencesFromOneComparison, ResultSound
<1>4. FindingFresh
  BY DEF Init, NothingFound, FindingFresh
<1>5. QED
  BY <1>1, <1>2, <1>3, <1>4 DEF GenerationInv

LEMMA GenerationInvNext == GenerationInv /\ [Next]_vars => GenerationInv'
<1> SUFFICES ASSUME GenerationInv, [Next]_vars PROVE GenerationInv'
  OBVIOUS
<1>1. TypeOK' /\ Flow' /\ FindingFresh'
  BY TypesNext, FlowNext, FindingNext DEF GenerationInv
<1>2. RepairsWithinBudget'
  BY <1>1 DEF Flow, RepairsCounted, RepairsWithinBudget
<1>3. RequestHonoured' /\ ExperiencesFromOneComparison' /\ ResultSound'
  BY RequestsKept, ComparisonKept, ResultKept DEF GenerationInv, GenerationSound
<1>4. QED
  BY <1>1, <1>2, <1>3 DEF GenerationInv, GenerationSound

\* Every reachable state satisfies the invariant (production_executor.py, control_plane.py).
THEOREM SpecImpliesGenerationInv == Spec => []GenerationInv
<1>1. Init => GenerationInv
  BY GenerationInvInit
<1>2. GenerationInv /\ [Next]_vars => GenerationInv'
  BY GenerationInvNext
<1>3. QED
  BY <1>1, <1>2, PTL DEF Spec

\* Every file of the generation and every local variable of the Worker keeps its shape.
THEOREM SpecImpliesTypeOK == Spec => []TypeOK
<1>1. GenerationInv => TypeOK
  BY DEF GenerationInv
<1>2. QED
  BY <1>1, SpecImpliesGenerationInv, PTL

\* Budgets count over all Workers, a request lets at most one more CMO run start, the
\* experiences come from one comparison, and the formal result says what ran, with a
\* champion that is eligible and beats the baseline by the margin.
THEOREM SpecImpliesGenerationSound == Spec => []GenerationSound
<1>1. GenerationInv => GenerationSound
  BY DEF GenerationInv
<1>2. QED
  BY <1>1, SpecImpliesGenerationInv, PTL

\* No Worker redoes a candidate that ran under another one, or rewrites its outcome
\* ("only successful and complete formal artifacts are reused", production_executor.py).
THEOREM SpecImpliesEvidenceKept == Spec => EvidenceKept
<1>1. GenerationInv /\ [Next]_vars => [\A s \in Slots : Ran(outcomes[s]) => outcomes'[s] = outcomes[s]]_outcomes
  BY OutcomesKept DEF GenerationInv
<1>2. QED
  BY <1>1, SpecImpliesGenerationInv, PTL DEF Spec, EvidenceKept

-----------------------------------------------------------------------------
(* The Worker that CampaignWorkers has *)

Thread(phase) == [proc |-> Host, gen |-> 0, epoch |-> Newest, phase |-> phase]

LEMMA ThreadSeen ==
    /\ pc \in {"off", "launch"} => AbstractThreads = {}
    /\ pc \in ExecutorPc => AbstractThreads = {Thread("running")}
    /\ pc \in {"clear", "unlock"} => AbstractThreads = {Thread("closing")}
    /\ pc = "failed" => AbstractThreads = {Thread("failed")}
    /\ pc = "written" => AbstractThreads = {Thread("written")}
    /\ pc = "saved" => AbstractThreads = {Thread("saved")}
BY DEF AbstractThreads, AbstractPhase, Thread, ExecutorPc, EvaluationPc

LEMMA ThreadMoves ==
    ASSUME NEW old, NEW new, AbstractThreads = {Thread(old)}, AbstractThreads' = {Thread(new)'},
           Newest' = Newest
    PROVE  Campaign!Advance(Thread(old), new)
<1>1. [Thread(old) EXCEPT !.phase = new] = Thread(new) /\ Thread(new)' = Thread(new)
  BY DEF Thread
<1>2. QED
  BY <1>1 DEF Campaign!Advance

\* Saving the newest Worker is what CampaignWorkers saves of the thread.
LEMMA SaveSeen ==
    ASSUME workers \in Seq(WorkerStatus), workers # <<>>, NEW status \in WorkerStatus,
           SaveWorker(status), NEW phase
    PROVE  Campaign!SaveWorker(Thread(phase), status) /\ Newest' = Newest
<1>1. Newest' = Newest
  BY SaveWorkerTyped DEF Newest
<1>2. Thread(phase).gen = 0 /\ Thread(phase).epoch = Newest
  BY DEF Thread
<1>3. [g \in {0} |-> workers'] = [[g \in {0} |-> workers] EXCEPT ![0] = [@ EXCEPT ![Newest] = status]]
  BY DEF SaveWorker
<1>4. QED
  BY <1>1, <1>2, <1>3 DEF Campaign!SaveWorker

Allowed ==
    \/ Campaign!StartOperation(Host, 0) \/ Campaign!LaunchWorker(Host, 0)
    \/ \E t \in AbstractThreads :
          \/ Campaign!WriteResult(t) \/ Campaign!SaveCompleted(t)
          \/ Campaign!AdvanceCampaign(t) \/ Campaign!ReleaseCmoLock(t)
          \/ Campaign!FailWorker(t)
          \/ \E status \in {"paused", "cancelled_incomplete"} :
                Campaign!SaveUnfinished(t, status)
    \/ WorkerReconciled /\ Campaign!ReconcileWorker(AbstractFinding)
    \/ Crash /\ Campaign!KillThreads(Host)
    \/ RemoveStaleLock

LEMMA ThreadsStay ==
    ASSUME UNCHANGED <<orphan, workers, result, locked>>,
           \/ pc \in ExecutorPc /\ pc' \in ExecutorPc
           \/ pc \in {"clear", "unlock"} /\ pc' \in {"clear", "unlock"}
           \/ pc' = pc
    PROVE  UNCHANGED Visible
<1>1. Newest' = Newest
  BY DEF Newest
<1>2. AbstractPhase' = AbstractPhase /\ (pc \in {"off", "launch"} <=> pc' \in {"off", "launch"})
  BY DEF AbstractPhase, ExecutorPc, EvaluationPc
<1>3. AbstractThreads' = AbstractThreads
  BY <1>1, <1>2 DEF AbstractThreads
<1>4. QED
  BY <1>3 DEF Visible

\* The executor obeys a request: the Worker is saved as it ended.
LEMMA EndSeen ==
    ASSUME TypeOK, Flow, pc \in ExecutorPc,
           NEW status \in {"paused", "cancelled_incomplete"}, SaveUnfinished(status)
    PROVE  Allowed
<1>1. workers \in Seq(WorkerStatus) /\ workers # <<>>
  BY DEF TypeOK, Flow, WorkerSaved, ExecutorPc, EvaluationPc
<1>2. SaveWorker(status) /\ pc' = "clear" /\ UNCHANGED <<orphan, current, result, locked>>
  BY DEF SaveUnfinished
<1>3. Campaign!SaveWorker(Thread("running"), status) /\ Newest' = Newest
  BY <1>1, <1>2, SaveSeen DEF WorkerStatus
<1>4. AbstractThreads = {Thread("running")} /\ AbstractThreads' = {Thread("closing")'}
  BY <1>2, ThreadSeen DEF AbstractThreads, AbstractPhase, Thread, ExecutorPc, EvaluationPc
<1>5. Campaign!Advance(Thread("running"), "closing")
  BY <1>3, <1>4, ThreadMoves
<1>6. Thread("running").phase = "running"
  BY DEF Thread
<1>7. Campaign!SaveUnfinished(Thread("running"), status)
  BY <1>2, <1>3, <1>5, <1>6 DEF Campaign!SaveUnfinished
<1>8. QED
  BY <1>4, <1>7 DEF Allowed

\* An exception, of the executor or after it: the Worker is saved as failed.
LEMMA FailureSeen ==
    ASSUME TypeOK, Flow, pc \in ExecutorPc \cup {"written", "saved", "clear"}, FailWorker
    PROVE  Allowed
<1>1. workers \in Seq(WorkerStatus) /\ workers # <<>>
  BY DEF TypeOK, Flow, WorkerSaved, ExecutorPc, EvaluationPc
<1>2. SaveWorker("failed") /\ pc' = "failed" /\ UNCHANGED <<orphan, current, result, locked>>
  BY DEF FailWorker
<1>3. PICK old : old = AbstractPhase
  OBVIOUS
<1>4. old # "failed"
  BY <1>3 DEF AbstractPhase, ExecutorPc, EvaluationPc
<1>5. Campaign!SaveWorker(Thread(old), "failed") /\ Newest' = Newest
  BY <1>1, <1>2, SaveSeen DEF WorkerStatus
<1>6. AbstractThreads = {Thread(old)} /\ AbstractThreads' = {Thread("failed")'}
  BY <1>2, <1>3 DEF AbstractThreads, AbstractPhase, Thread, ExecutorPc, EvaluationPc
<1>7. Campaign!Advance(Thread(old), "failed")
  BY <1>5, <1>6, ThreadMoves
<1>8. Thread(old).phase # "failed"
  BY <1>4 DEF Thread
<1>9. Campaign!FailWorker(Thread(old))
  BY <1>2, <1>5, <1>7, <1>8 DEF Campaign!FailWorker
<1>10. QED
  BY <1>6, <1>9 DEF Allowed

LEMMA LoopSeen == TypeOK /\ Flow /\ LoopStep => Allowed \/ UNCHANGED Visible
<1> SUFFICES ASSUME TypeOK, Flow, LoopStep PROVE Allowed \/ UNCHANGED Visible
  OBVIOUS
<1>1. {"slot", "boundary", "begin", "learn"} \subseteq ExecutorPc
  BY DEF ExecutorPc, EvaluationPc
<1>2. CASE ObeyRequest
  <2>1. PICK status \in {"paused", "cancelled_incomplete"} : SaveUnfinished(status)
    BY <1>2 DEF ObeyRequest
  <2>2. pc \in ExecutorPc
    BY <1>1, <1>2 DEF ObeyRequest, AtBoundary
  <2>3. QED
    BY <2>1, <2>2, EndSeen
<1>3. CASE ReuseCandidate \/ BeginCandidate \/ NextCandidate \/ RankCandidates
  <2>1. pc \in ExecutorPc /\ pc' \in ExecutorPc
    BY <1>1, <1>3 DEF ReuseCandidate, BeginCandidate, NextCandidate, RankCandidates
  <2>2. UNCHANGED <<orphan, workers, result, locked>>
    BY <1>3 DEF ReuseCandidate, BeginCandidate, NextCandidate, RankCandidates, disk
  <2>3. QED
    BY <2>1, <2>2, ThreadsStay
<1>4. QED
  BY <1>2, <1>3 DEF LoopStep

LEMMA EvaluationSeen == EvaluationStep => UNCHANGED Visible
<1> SUFFICES ASSUME EvaluationStep PROVE UNCHANGED Visible
  OBVIOUS
<1> USE DEF EvaluationStep
<1>1. pc \in ExecutorPc /\ pc' \in ExecutorPc
  BY DEF CancelCandidate, RejectCandidate, RenderAttempt, ClearToRun, StartCmo, FinishRun,
         RepairCandidate, FinishCandidate, ExecutorPc, EvaluationPc
<1>2. UNCHANGED <<orphan, workers, result, locked>>
  BY DEF CancelCandidate, RejectCandidate, RenderAttempt, ClearToRun, StartCmo, FinishRun,
         RepairCandidate, FinishCandidate, disk
<1>3. QED
  BY <1>1, <1>2, ThreadsStay

LEMMA PhasesSeen == TypeOK /\ Flow /\ PhaseStep => Allowed \/ UNCHANGED Visible
<1> SUFFICES ASSUME TypeOK, Flow, PhaseStep PROVE Allowed \/ UNCHANGED Visible
  OBVIOUS
<1>1. {"learn", "saving", "skills", "champion"} \subseteq ExecutorPc
  BY DEF ExecutorPc
<1>2. CASE SkillsNeedReview
  BY <1>1, <1>2, EndSeen DEF SkillsNeedReview
<1>3. CASE SkillsRejectReuse \/ BaselineIneligible
  <2>1. FailWorker /\ pc \in ExecutorPc
    BY <1>1, <1>3 DEF SkillsRejectReuse, BaselineIneligible
  <2>2. QED
    BY <2>1, FailureSeen
<1>4. CASE WriteResult
  <2>1. result' # None
    <3>1. PICK slot \in Slots :
             result' = [outcomes |-> gathered, phase7 |-> phase7, champion |-> slot]
      BY <1>4 DEF WriteResult
    <3>2. result' \in Result
      BY <3>1 DEF Result, TypeOK
    <3>3. QED
      BY <3>2, NoneAssumption
  <2>2. pc = "champion" /\ pc' = "written" /\ UNCHANGED <<orphan, workers, current, locked>>
    BY <1>4 DEF WriteResult
  <2>3. AbstractThreads = {Thread("running")} /\ AbstractThreads' = {Thread("written")'}
    BY <1>1, <2>2, ThreadSeen DEF AbstractThreads, AbstractPhase, Thread, ExecutorPc, EvaluationPc
  <2>4. Campaign!Advance(Thread("running"), "written")
    BY <2>2, <2>3, ThreadMoves DEF Newest
  <2>5. Thread("running").phase = "running" /\ Thread("running").gen = 0
    BY DEF Thread
  <2>6. Campaign!WriteResult(Thread("running"))
    BY <2>1, <2>2, <2>4, <2>5 DEF Campaign!WriteResult
  <2>7. QED
    BY <2>3, <2>6 DEF Allowed
<1>5. CASE \/ ReuseLearning \/ LearnExperiences \/ SaveExperience \/ LearningSaved \/ SkillsDone
  <2>1. pc \in ExecutorPc /\ pc' \in ExecutorPc
    BY <1>1, <1>5 DEF ReuseLearning, LearnExperiences, SaveExperience, LearningSaved, SkillsDone, memory
  <2>2. UNCHANGED <<orphan, workers, result, locked>>
    BY <1>5 DEF ReuseLearning, LearnExperiences, SaveExperience, LearningSaved, SkillsDone, disk
  <2>3. QED
    BY <2>1, <2>2, ThreadsStay
<1>6. QED
  BY <1>2, <1>3, <1>4, <1>5 DEF PhaseStep

LEMMA WorkersSeen == TypeOK /\ Flow /\ WorkerStep => Allowed \/ UNCHANGED Visible
<1> SUFFICES ASSUME TypeOK, Flow, WorkerStep PROVE Allowed \/ UNCHANGED Visible
  OBVIOUS
<1>1. CASE StartOperation
  <2>1. /\ ~Active /\ ~Finished /\ ~orphan /\ ~locked /\ orphan' /\ locked'
        /\ pc' = "launch" /\ UNCHANGED <<workers, current, result>>
    BY <1>1 DEF StartOperation
  <2>2. AbstractThreads = {} /\ AbstractThreads' = {}
    BY <2>1 DEF Flow, LockHeld, AbstractThreads
  <2>3. ~Campaign!ExecuteReusesWorker(0)
    BY <2>1 DEF Active, Running, Finished, Campaign!ExecuteReusesWorker, Campaign!HasActiveWorker
  <2>4. [g \in {0} |-> orphan'] = [[g \in {0} |-> orphan] EXCEPT ![0] = TRUE]
    BY <1>1 DEF StartOperation
  <2>5. Campaign!StartOperation(Host, 0)
    BY <2>1, <2>2, <2>3, <2>4 DEF Campaign!StartOperation
  <2>6. QED
    BY <2>5 DEF Allowed
<1>2. CASE LaunchWorker
  <2>1. /\ workers' = Append(workers, "running") /\ pc = "launch" /\ pc' = "slot"
        /\ UNCHANGED <<locked, current, result>>
    BY <1>2 DEF LaunchWorker
  <2>2. Len(workers') = Len(workers) + 1
    BY <2>1, AppendProperties DEF TypeOK, WorkerStatus
  <2>3. AbstractThreads = {} /\ AbstractThreads' = {Thread("running")'}
    BY <2>1 DEF AbstractThreads, AbstractPhase, Thread, ExecutorPc
  <2>4. Thread("running")' = [proc |-> Host, gen |-> 0, epoch |-> Len(workers) + 1, phase |-> "running"]
    BY <2>2 DEF Thread, Newest
  <2>5. [g \in {0} |-> orphan'] = [[g \in {0} |-> orphan] EXCEPT ![0] = FALSE]
    BY <1>2 DEF LaunchWorker
  <2>6. [g \in {0} |-> workers'] = [[g \in {0} |-> workers] EXCEPT ![0] = Append(@, "running")]
    BY <2>1
  <2>7. Campaign!LaunchWorker(Host, 0)
    BY <2>1, <2>3, <2>4, <2>5, <2>6 DEF Campaign!LaunchWorker
  <2>8. QED
    BY <2>7 DEF Allowed
<1>3. CASE SaveCompleted
  <2>1. /\ pc = "written" /\ pc' = "saved" /\ SaveWorker("completed")
        /\ UNCHANGED <<orphan, locked, current, result>>
    BY <1>3 DEF SaveCompleted
  <2>2. workers \in Seq(WorkerStatus) /\ workers # <<>>
    BY <2>1 DEF TypeOK, Flow, WorkerSaved
  <2>3. Campaign!SaveWorker(Thread("written"), "completed") /\ Newest' = Newest
    BY <2>1, <2>2, SaveSeen DEF WorkerStatus
  <2>4. AbstractThreads = {Thread("written")} /\ AbstractThreads' = {Thread("saved")'}
    BY <2>1 DEF AbstractThreads, AbstractPhase, Thread, ExecutorPc, EvaluationPc
  <2>5. Campaign!Advance(Thread("written"), "saved") /\ Thread("written").phase = "written"
    BY <2>3, <2>4, ThreadMoves DEF Thread
  <2>6. Campaign!SaveCompleted(Thread("written"))
    BY <2>1, <2>3, <2>5 DEF Campaign!SaveCompleted
  <2>7. QED
    BY <2>4, <2>6 DEF Allowed
<1>4. CASE AdvanceCampaign
  <2>1. /\ pc = "saved" /\ pc' = "clear" /\ current' = 1
        /\ UNCHANGED <<orphan, workers, locked, result>>
    BY <1>4 DEF AdvanceCampaign
  <2>2. AbstractThreads = {Thread("saved")} /\ AbstractThreads' = {Thread("closing")'}
    BY <2>1 DEF AbstractThreads, AbstractPhase, Thread, ExecutorPc, EvaluationPc
  <2>3. Campaign!Advance(Thread("saved"), "closing")
    BY <2>1, <2>2, ThreadMoves DEF Newest
  <2>4. Thread("saved").phase = "saved" /\ Thread("saved").gen + 1 = 1
    BY DEF Thread
  <2>5. Campaign!AdvanceCampaign(Thread("saved"))
    BY <2>1, <2>3, <2>4 DEF Campaign!AdvanceCampaign
  <2>6. QED
    BY <2>2, <2>5 DEF Allowed
<1>5. CASE ClearControl
  <2>1. pc = "clear" /\ pc' = "unlock" /\ UNCHANGED <<orphan, workers, result, locked>>
    BY <1>5 DEF ClearControl
  <2>2. QED
    BY <2>1, ThreadsStay
<1>6. CASE ReleaseLock
  <2>1. /\ pc \in {"unlock", "failed"} /\ pc' = "off" /\ ~locked'
        /\ UNCHANGED <<orphan, workers, current, result>>
    BY <1>6 DEF ReleaseLock, ThreadGone
  <2>2. PICK phase \in {"closing", "failed"} : AbstractThreads = {Thread(phase)}
    BY <2>1, ThreadSeen
  <2>3. AbstractThreads' = {} /\ Thread(phase).phase = phase
    BY <2>1 DEF AbstractThreads, Thread
  <2>4. Campaign!ReleaseCmoLock(Thread(phase))
    BY <2>1, <2>2, <2>3 DEF Campaign!ReleaseCmoLock
  <2>5. QED
    BY <2>2, <2>4 DEF Allowed
<1>7. CASE WorkerRaises
  BY <1>7, FailureSeen DEF WorkerRaises
<1>8. QED
  BY <1>1, <1>2, <1>3, <1>4, <1>5, <1>6, <1>7 DEF WorkerStep

\* What a Runtime reconciles is what it found, and the thread is left as it is.
LEMMA ReconcilingSeen ==
    ASSUME TypeOK, FindingFresh, WorkerReconciled
    PROVE  Allowed
<1> DEFINE status == IF finding.done THEN "completed" ELSE "reconciliation_required"
<1>1. /\ workers \in Seq(WorkerStatus) /\ finding.epoch \in DOMAIN workers
      /\ workers' = [workers EXCEPT ![finding.epoch] = status]
      /\ UNCHANGED <<orphan, locked, current, result, pc>>
  BY DEF WorkerReconciled, FindingFresh, TypeOK, memory
<1>2. Newest' = Newest
  BY <1>1 DEF Newest
<1>3. AbstractThreads' = AbstractThreads
  BY <1>1, <1>2 DEF AbstractThreads, AbstractPhase
<1>4. /\ AbstractFinding.gen = 0 /\ AbstractFinding.epoch = finding.epoch
      /\ AbstractFinding.done = finding.done
  BY DEF AbstractFinding
<1>5. [g \in {0} |-> workers'] =
         [[g \in {0} |-> workers] EXCEPT ![0] = [@ EXCEPT ![finding.epoch] = status]]
  BY <1>1
<1>6. Campaign!ReconcileWorker(AbstractFinding)
  BY <1>1, <1>3, <1>4, <1>5 DEF Campaign!ReconcileWorker
<1>7. QED
  BY <1>6 DEF Allowed

LEMMA OutsideSeen == TypeOK /\ FindingFresh /\ OutsideStep => Allowed \/ UNCHANGED Visible
<1> SUFFICES ASSUME TypeOK, FindingFresh, OutsideStep PROVE Allowed \/ UNCHANGED Visible
  OBVIOUS
<1>1. ASSUME NEW action \in {"pause", "stop"}, Request(action) PROVE UNCHANGED Visible
  BY <1>1, ThreadsStay DEF Request, memory
<1>2. CASE ResumeCampaign
  BY <1>2, ThreadsStay DEF ResumeCampaign, memory
<1>3. CASE Crash
  <2>1. CASE ThreadGone
    <3>1. AbstractThreads' = {}
      BY <2>1 DEF ThreadGone, AbstractThreads
    <3>2. \A t \in AbstractThreads : t.proc = Host
      BY DEF AbstractThreads
    <3>3. Campaign!KillThreads(Host)
      BY <3>1, <3>2 DEF Campaign!KillThreads
    <3>4. QED
      BY <1>3, <3>3 DEF Allowed
  <2>2. CASE UNCHANGED memory
    BY <1>3, <2>2, ThreadsStay DEF Crash, disk, memory
  <2>3. QED
    BY <1>3, <2>1, <2>2 DEF Crash
<1>4. CASE RemoveStaleLock
  BY <1>4 DEF Allowed
<1>5. CASE Reconcile \/ StateReconciled
  BY <1>5, ThreadsStay DEF Reconcile, StateReconciled, disk, memory
<1>6. CASE WorkerReconciled
  BY <1>6, ReconcilingSeen
<1>7. QED
  BY <1>1, <1>2, <1>3, <1>4, <1>5, <1>6 DEF OutsideStep, Reconciliation

LEMMA StepsSeen == GenerationInv /\ [Next]_vars => Allowed \/ UNCHANGED Visible
<1> SUFFICES ASSUME GenerationInv, [Next]_vars PROVE Allowed \/ UNCHANGED Visible
  OBVIOUS
<1>1. CASE Next
  BY <1>1, NextSteps, LoopSeen, EvaluationSeen, PhasesSeen, WorkersSeen, OutsideSeen
     DEF GenerationInv
<1>2. CASE UNCHANGED vars
  <2>1. UNCHANGED <<orphan, workers, result, locked, pc>>
    BY <1>2 DEF vars, disk, memory
  <2>2. QED
    BY <2>1, ThreadsStay
<1>3. QED
  BY <1>1, <1>2

\* What the loop, the evaluation, the phases, a death and a reconciliation do to the
\* stored Workers, the result, the lock and the thread is what CampaignWorkers allows.
THEOREM SpecImpliesWorkersRefined == Spec => WorkersRefined
<1>1. GenerationInv /\ [Next]_vars => [Visible' # Visible => Allowed]_vars
  BY StepsSeen
<1>2. QED
  BY <1>1, SpecImpliesGenerationInv, PTL DEF Spec, WorkersRefined, Allowed

\* No step redoes what ran, and none does to the campaign what CampaignWorkers does not
\* allow.
THEOREM SpecImpliesStepsSound == Spec => StepsSound
BY SpecImpliesEvidenceKept, SpecImpliesWorkersRefined DEF StepsSound

===============================================================================
