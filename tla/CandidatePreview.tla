--------------------------- MODULE CandidatePreview ---------------------------
(***************************************************************************)
(* How one generation gets its four candidates: preview_generation and     *)
(* resume_preview_from_candidate of the control plane, the revision        *)
(* directories ProductionPreviewBuilder writes, and the proposal agent     *)
(* that asks a model for one patch after the other and repairs it.         *)
(*                                                                         *)
(* Several calls follow one another; a process may die at any point of one *)
(* and leave a half-written revision behind.  The model's replies are      *)
(* arbitrary, but no more than MaxFaults of them are unusable.             *)
(***************************************************************************)
EXTENDS StrategyPatch

CONSTANTS
    Replies,        \* candidate -> the patches the model may answer with
    Plans,          \* candidate -> preferred dimensions, as the planner may choose them
    MaxRevision,    \* bound: the last revision of the generation
    MaxFaults,      \* bound: candidates with an unusable reply, needless calls and deaths of the process
    Repaired,       \* bound: candidates repair_preview_candidate is asked for
    CallBudget      \* max_strategy_proposal_calls of the campaign

ASSUME PreviewAssumption ==
    /\ MaxRevision \in Nat /\ MaxFaults \in Nat
    /\ Repaired \subseteq Candidates

Revisions == 0..MaxRevision
AllReplies == UNION {Replies[c] : c \in Candidates}
PreviewReservation == 17
ResumeReservation == 4
RepairReservation == 2
MaxRepairs == 3

NoPatch == <<>>
NoPlan == [c \in Candidates |-> {}]
NoPatches == [c \in Candidates |-> NoPatch]

\* The rows an attempt leaves in the trace; only the last of a candidate is
\* ever read back, and of a failure row only that it has no summary.
NoRow == [phase |-> "none", changes |-> NoPatch]
PatchRow(patch) == [phase |-> "patch", changes |-> patch]
FailedRow == [phase |-> "initial_failed", changes |-> NoPatch]
NoRows == [c \in Candidates |-> NoRow]

NoFailure == [code |-> "none", candidate |-> 0, stage |-> "none"]
Failure(code, candidate, stage) == [code |-> code, candidate |-> candidate, stage |-> stage]

NoReport == [adherence |-> [c \in Candidates |-> "none"], warnings |-> {}]

\* A revision directory.
Empty == [made |-> FALSE, parent |-> -1, snapshot |-> FALSE, traced |-> FALSE,
          plan |-> NoPlan, attempts |-> NoRows, resumed |-> NoRows,
          failure |-> NoFailure, quality |-> NoReport, frozen |-> NoPatches, diff |-> FALSE]

Operation(mode, revision, candidate) == <<mode, revision, candidate>>
OperationKeys == {"propose", "resume", "repair"} \X Revisions \X (Candidates \cup {0})

VARIABLES
    disk,           \* revision -> the directory
    previews,       \* revision -> candidates of the saved GenerationPreview, or NoPatches
    ledger,         \* operation -> status
    charged,        \* llm_call_counts["strategy_proposal"]
    awaiting,       \* the campaign has reached AWAITING_APPROVAL
    job,            \* the call under way
    acceptedAt,     \* (ghost) revision -> candidate -> what the agent accepted last
    faults          \* candidates with an unusable reply, needless calls and deaths so far

vars == <<disk, previews, ledger, charged, awaiting, job, acceptedAt, faults>>

Idle == [at |-> "idle", mode |-> "propose", rev |-> 0, from |-> 0, candidate |-> 0,
         tries |-> 0, plan |-> NoPlan, row |-> NoRow, attempts |-> NoRows, resumed |-> NoRows,
         patches |-> NoPatches, used |-> 0, lastUsed |-> 0, error |-> NoFailure]

\* The builder's proposal_calls and the agent's last_usage outlive a call: one
\* that fails before it asks the model is charged with the calls of the one before.
Rest == [Idle EXCEPT !.used = job.used, !.lastUsed = job.lastUsed]

Nothing == [patch |-> NoPatch, repairs |-> 0]

Init ==
    /\ disk = [r \in Revisions |-> Empty]
    /\ previews = [r \in Revisions |-> NoPatches]
    /\ ledger = [o \in OperationKeys |-> "absent"]
    /\ charged = 0
    /\ awaiting = FALSE
    /\ job = Idle
    /\ acceptedAt = [r \in Revisions |-> [c \in Candidates |-> Nothing]]
    /\ faults = 0

(***************************************************************************)
(* The control plane takes a call.                                         *)
(***************************************************************************)
OperationOfJob == Operation(job.mode, job.rev, IF job.mode = "propose" THEN 0 ELSE job.from)

HasPreview(r) == previews[r] # NoPatches

NextRevision ==
    LET used == {r \in Revisions : disk[r].made \/ HasPreview(r)}
    IN  IF used = {} THEN 0 ELSE 1 + CHOOSE r \in used : \A q \in used : q <= r

ProposalFailed == \E o \in OperationKeys : ledger[o] = "FAILED"

Open(status) == status \in {"STARTED", "UNKNOWN"}

Start(operation, call) ==
    /\ ~Open(ledger[operation])     \* preview_operation_reconciliation_required
    /\ ledger' = [ledger EXCEPT ![operation] = "STARTED"]
    /\ job' = call
    /\ UNCHANGED <<disk, previews, charged, awaiting, acceptedAt>>

\* Bound: a call nobody needs is a fault, and so is the first unusable reply
\* for a candidate (its repairs may be unusable at will).
Counted(needed) ==
    /\ needed \/ faults < MaxFaults
    /\ faults' = IF needed THEN faults ELSE faults + 1

\* preview_generation.  Without regenerate a saved preview is the answer, and
\* a failed proposal asks for an explicit regeneration.
AskPreview(regenerate) ==
    /\ job.at = "idle"
    /\ ~regenerate => ~ProposalFailed /\ \A r \in Revisions : ~HasPreview(r)
    /\ NextRevision \in Revisions
    /\ charged + PreviewReservation <= CallBudget
    /\ Start(Operation("propose", NextRevision, 0),
             [Rest EXCEPT !.at = "make", !.rev = NextRevision])
    /\ Counted(\A r \in Revisions : ~HasPreview(r))

\* The revisions whose proposal-failure.json names a candidate and recommends
\* resume_preview_from_candidate (failure_audit).
ResumeRecommended(r, candidate) ==
    /\ candidate # 0
    /\ disk[r].failure.code = "proposal_json_invalid"
    /\ disk[r].failure.candidate = candidate

\* resume_preview_from_candidate of any revision and candidate the operator
\* names; one that no audit recommends counts as a fault.
AskResume(source, candidate) ==
    /\ job.at = "idle"
    /\ source + 1 \in Revisions
    /\ Counted(ResumeRecommended(source, candidate))
    /\ charged + ResumeReservation <= CallBudget
    /\ Start(Operation("resume", source + 1, candidate),
             [Rest EXCEPT !.at = "read", !.mode = "resume", !.rev = source + 1,
                          !.from = candidate])

\* repair_preview_candidate.  The builder repairs the one novelty failure that
\* no step of a proposal reports any more: every call is started, refused and
\* marked as failed, and so it counts as a fault.
AskRepair(source, candidate) ==
    /\ job.at = "idle"
    /\ source + 1 \in Revisions
    /\ Counted(FALSE)
    /\ charged + RepairReservation <= CallBudget
    /\ Start(Operation("repair", source + 1, candidate),
             [Rest EXCEPT !.at = "fail", !.mode = "repair", !.rev = source + 1,
                          !.from = candidate])

(***************************************************************************)
(* resume_from_candidate reads the trace of its source.                    *)
(***************************************************************************)
\* Mutant: The trace of the first revision is read.
SourceFirst == disk[0]

Source == disk[job.rev - 1]

\* _candidates_from_trace: the last row of the candidate, resumed rows last.
FinalRow(revision, candidate) ==
    IF revision.resumed[candidate] # NoRow THEN revision.resumed[candidate]
                                           ELSE revision.attempts[candidate]

Restorable(revision, candidate) ==
    /\ revision.traced
    /\ revision.snapshot
    /\ revision.failure.code = "proposal_json_invalid"
    /\ revision.failure.candidate = candidate
    /\ revision.failure.stage \in {"patch_generation", "patch_repair"}
    /\ \A c \in 1..(candidate - 1) :
          /\ FinalRow(revision, c).phase = "patch"
          /\ Assembles(FinalRow(revision, c).changes)

ReadSource ==
    /\ job.at = "read"
    /\ IF Restorable(Source, job.from)
       THEN job' = [job EXCEPT
                      !.at = "make", !.plan = Source.plan, !.attempts = Source.attempts,
                      !.patches = [c \in Candidates |->
                                      IF c < job.from THEN FinalRow(Source, c).changes
                                                      ELSE NoPatch]]
       ELSE job' = [job EXCEPT !.at = "fail"]
    /\ UNCHANGED <<disk, previews, ledger, charged, awaiting, acceptedAt, faults>>

(***************************************************************************)
(* The revision directory is made exclusively; a new proposal also freezes *)
(* its knowledge first.                                                    *)
(***************************************************************************)
\* (ghost) A resumed revision starts with what was accepted for the candidates
\* before the one it resumes from, wherever that was.
AcceptedBefore ==
    [c \in Candidates |-> IF c < job.from THEN acceptedAt[job.rev - 1][c] ELSE Nothing]

\* Mutant: An existing directory is used.
MakeRevisionAnyway ==
    /\ job.at = "make"
    /\ acceptedAt' = [acceptedAt EXCEPT ![job.rev] = AcceptedBefore]
    /\ disk' = [disk EXCEPT ![job.rev].made = TRUE]
    /\ job' = [job EXCEPT !.at = IF job.mode = "propose" THEN "freeze" ELSE "patch",
                          !.candidate = job.from, !.used = 0]
    /\ UNCHANGED <<previews, ledger, charged, awaiting, faults>>

MakeRevision ==
    /\ job.at = "make"
    /\ IF disk[job.rev].made
       THEN /\ job' = [job EXCEPT !.at = "fail"]
            /\ UNCHANGED <<disk, acceptedAt>>
       ELSE /\ acceptedAt' = [acceptedAt EXCEPT ![job.rev] = AcceptedBefore]
            /\ disk' = [disk EXCEPT ![job.rev].made = TRUE]
            /\ job' = [job EXCEPT !.at = IF job.mode = "propose" THEN "freeze" ELSE "patch",
                                  !.candidate = job.from, !.used = 0]
    /\ UNCHANGED <<previews, ledger, charged, awaiting, faults>>

FreezeKnowledge ==
    /\ job.at = "freeze"
    /\ disk' = [disk EXCEPT ![job.rev].snapshot = TRUE]
    /\ job' = [job EXCEPT !.at = "plan"]
    /\ UNCHANGED <<previews, ledger, charged, awaiting, acceptedAt, faults>>

\* last_usage is that of the whole proposal, or of the last resumed candidate.
Spend(calls) ==
    [job EXCEPT !.used = @ + calls,
                !.lastUsed = IF job.mode = "propose" THEN job.used + calls ELSE calls]

Fails(call, error) == [call EXCEPT !.at = "trace", !.error = error]

\* CandidateIntentPlanner.plan: one call, which counts only when it succeeds.
PlanIntents ==
    /\ job.at = "plan"
    /\ \E plan \in Plans :
          job' = [Spend(1) EXCEPT !.at = "patch", !.candidate = 1, !.plan = plan]
    /\ UNCHANGED <<disk, previews, ledger, charged, awaiting, acceptedAt, faults>>

PlanFails(code) ==
    /\ job.at = "plan"
    /\ faults < MaxFaults
    /\ faults' = faults + 1
    /\ job' = Fails(Spend(0), Failure(code, 0, "intent_or_patch"))
    /\ UNCHANGED <<disk, previews, ledger, charged, awaiting, acceptedAt>>

(***************************************************************************)
(* _generate_candidate: one patch and at most three complete replacements. *)
(***************************************************************************)
Weak(candidate, patch) ==
    Adherence(RoleWarnings(candidate, job.plan[candidate], DOMAIN patch)) = "weak"

\* Mutant: A weak patch passes at once.
PassesWeak(candidate, patch, tries) == Assembles(patch) /\ StrategyValid(Apply(patch))

\* A weak patch asks for one repair; a repair is never refused for being weak.
Passes(candidate, patch, tries) ==
    /\ Assembles(patch)
    /\ StrategyValid(Apply(patch))
    /\ tries = 0 => ~Weak(candidate, patch)

Calls(tries) == 1 + tries

\* What a rejected candidate is charged with, whatever it used.
FailedCalls(stage) == IF stage = "patch_repair" THEN 2 ELSE 1

Accept(patch) ==
    LET c == job.candidate
        row == PatchRow(patch)
        again == job.mode = "propose" /\ \E d \in 1..(c - 1) : Apply(job.patches[d]) = Apply(patch)
        after == [Spend(Calls(job.tries)) EXCEPT
                     !.tries = 0, !.row = NoRow,
                     !.attempts[c] = IF job.mode = "propose" THEN row ELSE @,
                     !.resumed[c] = IF job.mode = "resume" THEN row ELSE @]
    IN  IF again
        THEN /\ job' = Fails(after, Failure("duplicate_accepted_strategy", 0, "intent_or_patch"))
             /\ UNCHANGED acceptedAt
        ELSE /\ job' = [after EXCEPT !.patches[c] = patch,
                                     !.at = IF c = 4 THEN "trace" ELSE "patch",
                                     !.candidate = IF c = 4 THEN 0 ELSE c + 1]
             /\ acceptedAt' = [acceptedAt EXCEPT
                                  ![job.rev][c] = [patch |-> patch, repairs |-> job.tries]]

\* The candidate is given up: its rows reach the trace of a proposal only after
\* a third repair, and never the trace of a resumed one.
GiveUp(code, stage, row) ==
    job' = Fails([Spend(FailedCalls(stage)) EXCEPT
                    !.tries = 0, !.row = NoRow,
                    !.attempts[job.candidate] =
                        IF job.mode = "propose" /\ stage = "patch_repair" THEN row ELSE @],
                 Failure(code, job.candidate, stage))

\* A first reply that is no JSON, or patches what cannot be executed.
Hopeless(code) == job.tries = 0 /\ code \in {"proposal_json_invalid", "patch_path_not_executable"}

Retry(row) == job' = [job EXCEPT !.tries = @ + 1, !.row = row]

\* Mutant: One repair more than the three.
RejectLate(code, row) ==
    \/ Hopeless(code) /\ GiveUp(code, "patch_generation", row)
    \/ job.tries > MaxRepairs /\ GiveUp(code, "patch_repair", row)
    \/ ~Hopeless(code) /\ job.tries <= MaxRepairs /\ Retry(row)

Reject(code, row) ==
    \/ Hopeless(code) /\ GiveUp(code, "patch_generation", row)
    \/ job.tries = MaxRepairs /\ GiveUp(code, "patch_repair", row)
    \/ ~Hopeless(code) /\ job.tries < MaxRepairs /\ Retry(row)

\* The last row after a rejected reply: a patch the generator refused leaves
\* none, and a first reply is followed by its failure row.
RowAfter(patch) ==
    IF job.tries = 0 THEN FailedRow
    ELSE IF Offered(patch) THEN PatchRow(patch) ELSE job.row

ReplyWithPatch(patch) ==
    /\ job.at = "patch"
    /\ patch \in Replies[job.candidate]
    /\ IF Passes(job.candidate, patch, job.tries)
       THEN Accept(patch) /\ UNCHANGED faults
       ELSE /\ Counted(job.tries > 0)
            /\ Reject(IF NonExecutable(patch) THEN "patch_path_not_executable" ELSE "invalid",
                      RowAfter(patch))
            /\ UNCHANGED acceptedAt
    /\ UNCHANGED <<disk, previews, ledger, charged, awaiting>>

\* JSON that cannot be read, or an object of another shape: no patch at all.
ReplyWithoutPatch(code) ==
    /\ job.at = "patch"
    /\ Counted(job.tries > 0)
    /\ Reject(code, IF job.tries = 0 THEN FailedRow ELSE job.row)
    /\ UNCHANGED <<disk, previews, ledger, charged, awaiting, acceptedAt>>

\* Any other error of the client ends the call; a resumed one counts the calls
\* last reported once more.
ClientFails ==
    /\ job.at = "patch"
    /\ faults < MaxFaults
    /\ faults' = faults + 1
    /\ job' = Fails([Spend(IF job.mode = "resume" THEN job.lastUsed ELSE 0) EXCEPT
                        !.tries = 0, !.row = NoRow],
                    Failure("client_error", 0, "intent_or_patch"))
    /\ UNCHANGED <<disk, previews, ledger, charged, awaiting, acceptedAt>>

(***************************************************************************)
(* What the builder writes, file by file.                                  *)
(***************************************************************************)
Write(next) ==
    /\ job' = [job EXCEPT !.at = next]
    /\ UNCHANGED <<previews, ledger, charged, awaiting, acceptedAt, faults>>

Failed == job.error # NoFailure

WriteTrace ==
    /\ job.at = "trace"
    /\ disk' = [disk EXCEPT ![job.rev] =
                  [@ EXCEPT !.traced = TRUE, !.plan = job.plan, !.attempts = job.attempts,
                            !.resumed = job.resumed,
                            !.parent = IF job.mode = "resume" THEN job.rev - 1 ELSE -1]]
    /\ Write(IF job.mode = "resume" THEN "snapshot" ELSE IF Failed THEN "failure" ELSE "check")

WriteSnapshot ==
    /\ job.at = "snapshot"
    /\ disk' = [disk EXCEPT ![job.rev].snapshot = TRUE]
    /\ Write(IF Failed THEN "failure" ELSE "check")

WriteFailure ==
    /\ job.at = "failure"
    /\ disk' = [disk EXCEPT ![job.rev].failure = job.error]
    /\ Write("fail")

\* The three gates.  A resumed set the first of them refuses leaves no report.
CheckCandidates ==
    LET refused(code, next) ==
            job' = [job EXCEPT !.at = next, !.error = Failure(code, 0, "validation")]
        valid == CandidateSetValid(job.patches)
    IN  /\ job.at = "check"
        /\ \/ ~valid /\ refused("candidate_set_invalid",
                                IF job.mode = "propose" THEN "failure" ELSE "fail")
           \/ valid /\ ~Novel(job.patches) /\ refused("novelty_duplicate_candidate", "failure")
           \/ valid /\ Novel(job.patches) /\ job' = [job EXCEPT !.at = "quality"]
        /\ UNCHANGED <<disk, previews, ledger, charged, awaiting, acceptedAt, faults>>

WriteQuality ==
    /\ job.at = "quality"
    /\ disk' = [disk EXCEPT ![job.rev].quality = QualityReport(job.patches, job.plan)]
    /\ Write(IF QualityPasses(job.patches) THEN "frozen" ELSE "failure")

\* Mutant: The differences are not written.
WriteFrozenOnly ==
    /\ job.at = "frozen"
    /\ disk' = [disk EXCEPT ![job.rev].frozen = job.patches]
    /\ Write("save")

WriteFrozen ==
    /\ job.at = "frozen"
    /\ disk' = [disk EXCEPT ![job.rev].frozen = job.patches]
    /\ Write("diff")

WriteDiff ==
    /\ job.at = "diff"
    /\ disk' = [disk EXCEPT ![job.rev].diff = TRUE]
    /\ Write("save")

(***************************************************************************)
(* The control plane settles the call.                                     *)
(***************************************************************************)
SavePreview ==
    /\ job.at = "save"
    /\ previews' = [previews EXCEPT ![job.rev] = job.patches]
    /\ job' = [job EXCEPT !.at = "complete"]
    /\ UNCHANGED <<disk, ledger, charged, awaiting, acceptedAt, faults>>

CompleteOperation ==
    /\ job.at = "complete"
    /\ ledger' = [ledger EXCEPT ![OperationOfJob] = "COMPLETED"]
    /\ job' = [job EXCEPT !.at = "charge"]
    /\ UNCHANGED <<disk, previews, charged, awaiting, acceptedAt, faults>>

ChargeCompleted ==
    /\ job.at = "charge"
    /\ charged' = charged + job.used
    /\ awaiting' = TRUE
    /\ job' = Rest
    /\ UNCHANGED <<disk, previews, ledger, acceptedAt, faults>>

FailOperation ==
    /\ job.at = "fail"
    /\ charged' = charged + job.used
    /\ ledger' = [ledger EXCEPT ![OperationOfJob] = "FAILED"]
    /\ job' = Rest
    /\ UNCHANGED <<disk, previews, awaiting, acceptedAt, faults>>

Crash ==
    /\ job.at # "idle"
    /\ faults < MaxFaults
    /\ faults' = faults + 1
    /\ job' = Idle
    /\ UNCHANGED <<disk, previews, ledger, charged, awaiting, acceptedAt>>

JobStep ==
    \/ ReadSource \/ MakeRevision \/ FreezeKnowledge
    \/ PlanIntents
    \/ \E code \in {"proposal_json_invalid", "intent_invalid"} : PlanFails(code)
    \/ \E patch \in AllReplies : ReplyWithPatch(patch)
    \/ \E code \in {"proposal_json_invalid", "invalid_patch_response_shape"} :
          ReplyWithoutPatch(code)
    \/ ClientFails
    \/ WriteTrace \/ WriteSnapshot \/ WriteFailure \/ CheckCandidates
    \/ WriteQuality \/ WriteFrozen \/ WriteDiff
    \/ SavePreview \/ CompleteOperation \/ ChargeCompleted \/ FailOperation

Next ==
    \/ \E regenerate \in BOOLEAN : AskPreview(regenerate)
    \/ \E source \in Revisions, candidate \in Candidates : AskResume(source, candidate)
    \/ \E source \in Revisions, candidate \in Repaired : AskRepair(source, candidate)
    \/ JobStep
    \/ Crash

Spec == Init /\ [][Next]_vars

(***************************************************************************)
(* Properties.                                                             *)
(***************************************************************************)
Patches == AllReplies \cup {NoPatch}
Rows == [phase : {"none", "patch", "initial_failed"}, changes : Patches]

\* The shape of the state.
TypeOK ==
    /\ \A r \in Revisions :
          /\ DOMAIN disk[r] = DOMAIN Empty
          /\ \A c \in Candidates :
                /\ disk[r].attempts[c] \in Rows
                /\ disk[r].resumed[c] \in Rows
                /\ disk[r].frozen[c] \in Patches
                /\ previews[r][c] \in Patches
                /\ acceptedAt[r][c].repairs \in 0..MaxRepairs
    /\ \A o \in OperationKeys : ledger[o] \in {"absent", "STARTED", "FAILED", "COMPLETED"}
    /\ charged \in Nat
    /\ awaiting \in BOOLEAN
    /\ DOMAIN job = DOMAIN Idle
    /\ job.tries \in 0..MaxRepairs
    /\ faults \in 0..MaxFaults

Frozen(r) == disk[r].frozen # NoPatches

\* Whatever the model answered and however often the generation was resumed, a
\* frozen set holds four different strategies, each of which changes one to ten
\* executable catalogued leaves of the baseline and nothing else, stays within
\* the value ranges and the scenario's inventory, and aims at enemies only
\* (the three gates of ProductionPreviewBuilder and the patch assembler).
FrozenSound ==
    \A r \in Revisions : Frozen(r) =>
        /\ Cardinality({Apply(disk[r].frozen[c]) : c \in Candidates}) = 4
        /\ \A c \in Candidates :
              LET strategy == Apply(disk[r].frozen[c])
                  changed == LeafDiff(strategy)
              IN  /\ Cardinality(changed) \in 1..10
                  /\ changed \subseteq Catalog
                  /\ \A leaf \in changed : ValueAllowed(leaf, strategy[leaf])
                  /\ StrategyValid(strategy)

\* A frozen candidate is exactly the patch the proposal agent accepted for it,
\* in this revision or in the nearest one it was resumed from: a rejected
\* attempt in the trace never takes the place of the accepted one
\* (_accepted_prefix_from_trace reads the last row of each candidate).
FrozenAsAccepted ==
    \A r \in Revisions : Frozen(r) =>
        \A c \in Candidates : disk[r].frozen[c] = acceptedAt[r][c].patch

\* A candidate the quality report calls weak has been through a repair: the
\* gate itself lets it pass, so the one repair _generate_candidate asks for is
\* all that is done about it, and the two judges of a role must agree.
WeakCandidatesWereRepaired ==
    \A r \in Revisions : Frozen(r) =>
        \A c \in Candidates : disk[r].quality.adherence[c] = "weak" => acceptedAt[r][c].repairs > 0

\* A saved preview, a completed operation and a campaign that awaits approval
\* are each backed by the one before, and at last by the files of the revision:
\* a death between any two of these writes leaves the earlier ones only.
PreviewBacked ==
    /\ \A r \in Revisions : HasPreview(r) =>
          /\ disk[r].frozen = previews[r]
          /\ disk[r].diff /\ disk[r].snapshot /\ disk[r].traced
          /\ disk[r].quality # NoReport
          /\ disk[r].failure = NoFailure
    /\ \A o \in OperationKeys : ledger[o] = "COMPLETED" => HasPreview(o[2])
    /\ awaiting => \E r \in Revisions : HasPreview(r)

\* A revision that has its failure report or its saved preview never changes
\* again: a regeneration, a resumed call or a repeated one writes to a directory
\* of its own or to none.
RevisionsImmutable ==
    [][\A r \in Revisions :
          disk[r].failure # NoFailure \/ HasPreview(r) =>
              disk'[r] = disk[r] /\ previews'[r] = previews[r]]_vars

\* A frozen set is what was accepted, all of it, checked and repaired, and no record of
\* the preview says more than the files of its revision.
FrozenSetSound ==
    FrozenSound /\ FrozenAsAccepted /\ WeakCandidatesWereRepaired /\ PreviewBacked

==============================================================================
