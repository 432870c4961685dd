----------------------- MODULE CandidatePreviewProofs -----------------------
(***************************************************************************)
(* What a saved preview is worth, for any number of revisions, any replies *)
(* of the model, any plans and any number of faults and deaths.            *)
(*                                                                         *)
(* The inductive invariant follows a patch from its acceptance to the      *)
(* frozen set: through the call that accepted it, the trace this call      *)
(* writes, and the calls that read the trace back.  A trace may hold the   *)
(* row of a rejected patch where an accepted one was once; what saves the  *)
(* frozen set is that such a patch is never one that could be executed.    *)
(***************************************************************************)
EXTENDS CandidatePreview, FiniteSetTheorems, TLAPS

(* The types of the state. *)
AnyPlan == Plans \cup {NoPlan}
Codes ==
    {"none", "proposal_json_invalid", "intent_invalid", "invalid_patch_response_shape",
     "patch_path_not_executable", "invalid", "client_error", "duplicate_accepted_strategy",
     "candidate_set_invalid", "novelty_duplicate_candidate"}
Failures ==
    [code : Codes, candidate : 0..4,
     stage : {"none", "intent_or_patch", "patch_generation", "patch_repair", "validation"}]
Reports == [adherence : [Candidates -> {"none", "full", "partial", "weak"}],
            warnings : SUBSET BatchWarningNames]
Directories ==
    [made : BOOLEAN, parent : Int, snapshot : BOOLEAN, traced : BOOLEAN, plan : AnyPlan,
     attempts : [Candidates -> Rows], resumed : [Candidates -> Rows], failure : Failures,
     quality : Reports, frozen : [Candidates -> Patches], diff : BOOLEAN]
Acceptances == [patch : Patches, repairs : 0..MaxRepairs]
Stages ==
    {"idle", "read", "make", "freeze", "plan", "patch", "trace", "snapshot", "failure",
     "check", "quality", "frozen", "diff", "save", "complete", "charge", "fail"}
Jobs ==
    [at : Stages, mode : {"propose", "resume", "repair"}, rev : Revisions, from : 0..4,
     candidate : 0..4, tries : 0..MaxRepairs, plan : AnyPlan, row : Rows,
     attempts : [Candidates -> Rows], resumed : [Candidates -> Rows],
     patches : [Candidates -> Patches], used : Nat, lastUsed : Nat, error : Failures]

Typed ==
    /\ disk \in [Revisions -> Directories]
    /\ previews \in [Revisions -> [Candidates -> Patches]]
    /\ ledger \in [OperationKeys -> {"absent", "STARTED", "FAILED", "COMPLETED"}]
    /\ charged \in Nat
    /\ awaiting \in BOOLEAN
    /\ job \in Jobs
    /\ acceptedAt \in [Revisions -> [Candidates -> Acceptances]]
    /\ faults \in 0..MaxFaults

Executable(patch) == Assembles(patch) /\ StrategyValid(Apply(patch))

\* An executable patch that stands for candidate c is the one accepted last, and
\* unless it was repaired its role was not missed by much.
Stands(c, patch, accepted, plan) ==
    Executable(patch) =>
        /\ patch = accepted.patch
        /\ accepted.repairs = 0 =>
              Adherence(RoleWarnings(c, plan[c], DOMAIN patch)) # "weak"

Rejected(row) == row.phase = "patch" => ~Executable(row.changes)

RowStands(c, row, accepted, plan) ==
    row.phase = "patch" => Stands(c, row.changes, accepted, plan)

RowsStand(attempts, resumed, accepted, plan) ==
    \A c \in Candidates :
        RowStands(c, attempts[c], accepted[c], plan) /\ RowStands(c, resumed[c], accepted[c], plan)

JsonFailed(error) == error.code = "proposal_json_invalid" /\ error.candidate # 0

(* What the files of a revision say. *)
TraceSound(r) ==
    JsonFailed(disk[r].failure) =>
        /\ RowsStand(disk[r].attempts, disk[r].resumed, acceptedAt[r], disk[r].plan)
        /\ \A c \in Candidates : c >= disk[r].failure.candidate => Rejected(disk[r].attempts[c])

FrozenKept(r) ==
    Frozen(r) =>
        /\ CandidateSetValid(disk[r].frozen)
        /\ disk[r].quality = QualityReport(disk[r].frozen, disk[r].plan)
        /\ disk[r].traced /\ disk[r].snapshot /\ disk[r].failure = NoFailure
        /\ \A c \in Candidates :
              /\ Assembles(disk[r].frozen[c])
              /\ Stands(c, disk[r].frozen[c], acceptedAt[r][c], disk[r].plan)

SavedKept(r) == HasPreview(r) => disk[r].frozen = previews[r] /\ disk[r].diff

RevisionSound(r) ==
    /\ ~disk[r].made => disk[r] = Empty
    /\ TraceSound(r) /\ FrozenKept(r) /\ SavedKept(r)

FilesSound == \A r \in Revisions : RevisionSound(r)

RecordsSound ==
    /\ \A o \in OperationKeys : ledger[o] = "COMPLETED" => HasPreview(o[2])
    /\ awaiting => \E r \in Revisions : HasPreview(r)

(* What the call under way holds. *)
Dir == disk[job.rev]
Accepted == acceptedAt[job.rev]

Held(c, accepted) ==
    Assembles(job.patches[c]) /\ Stands(c, job.patches[c], accepted[c], job.plan)

\* Nothing was accepted for candidate k or a later one.
RejectedFrom(k) ==
    \A c \in Candidates : c >= k => Rejected(job.attempts[c]) /\ Rejected(job.resumed[c])

Fresh == {"read", "make", "freeze", "plan"}
Proposing == {"freeze", "plan", "patch", "trace"}
Writing == {"snapshot", "failure", "check", "quality", "frozen", "diff", "save"}
Complete == {"check", "quality", "frozen", "diff", "save"}
Validated == {"quality", "frozen", "diff", "save"}

JobFresh ==
    job.at \in Fresh =>
        /\ job.error = NoFailure /\ job.resumed = NoRows /\ Rejected(job.row)
        /\ job.mode = "propose" => job.from = 0 /\ job.attempts = NoRows
        /\ job.mode = "resume" => job.from # 0 /\ job.rev - 1 \in Revisions

\* A resumed call has read its trace and not yet made its revision.
JobRestored ==
    job.at = "make" /\ job.mode = "resume" =>
        /\ \A c \in Candidates : c < job.from => Held(c, acceptedAt[job.rev - 1])
        /\ \A c \in Candidates : c < job.from =>
              RowStands(c, job.attempts[c], acceptedAt[job.rev - 1][c], job.plan)
        /\ RejectedFrom(job.from)

JobMode ==
    /\ job.at = "read" => job.mode = "resume"
    /\ job.at = "make" => job.mode \in {"propose", "resume"}
    /\ job.at \in {"freeze", "plan"} => job.mode = "propose"
    /\ job.at \in {"patch", "trace"} => job.mode = "propose" \/ job.mode = "resume"
    /\ job.at \in {"plan", "patch", "trace"} /\ job.mode = "propose" => Dir.snapshot

JobDirectory ==
    /\ job.at \in Proposing \cup Writing => Dir.made /\ Dir.failure = NoFailure /\ ~HasPreview(job.rev)
    /\ job.at \in Proposing => ~Dir.traced
    /\ job.at \in (Proposing \cup Writing) \ {"diff", "save"} => ~Frozen(job.rev)
    /\ job.at \in Proposing \cup (Writing \ {"save"}) => ~Dir.diff
    /\ job.at \in Writing =>
          Dir.traced /\ Dir.plan = job.plan /\ Dir.attempts = job.attempts /\ Dir.resumed = job.resumed
    /\ job.at \in Complete => Dir.snapshot

JobPatching ==
    job.at = "patch" =>
        /\ job.error = NoFailure /\ job.candidate # 0 /\ Rejected(job.row)
        /\ RowsStand(job.attempts, job.resumed, Accepted, job.plan)
        /\ RejectedFrom(job.candidate)
        /\ \A c \in Candidates : c < job.candidate => Held(c, Accepted)

JobFailing ==
    job.at \in {"trace", "snapshot", "failure"} =>
        /\ JsonFailed(job.error) =>
              /\ RowsStand(job.attempts, job.resumed, Accepted, job.plan)
              /\ RejectedFrom(job.error.candidate)
        /\ job.at # "failure" /\ ~Failed => \A c \in Candidates : Held(c, Accepted)

JobComplete ==
    /\ job.at \in Complete => job.error = NoFailure /\ \A c \in Candidates : Held(c, Accepted)
    /\ job.at \in Validated => CandidateSetValid(job.patches)
    /\ job.at = "frozen" => Dir.quality = QualityReport(job.patches, job.plan)
    /\ job.at \in {"diff", "save"} => Dir.frozen = job.patches
    /\ job.at = "save" => Dir.diff

JobSettled == job.at \in {"complete", "charge"} => HasPreview(job.rev)

JobSound ==
    /\ JobFresh /\ JobRestored /\ JobMode /\ JobDirectory
    /\ JobPatching /\ JobFailing /\ JobComplete /\ JobSettled

Inv == Typed /\ FilesSound /\ RecordsSound /\ JobSound

-----------------------------------------------------------------------------
(* Patches and strategies *)

\* A patch that assembles changes exactly the leaves it names.
LEMMA ChangedLeaves ==
    ASSUME NEW patch, Assembles(patch)
    PROVE  LeafDiff(Apply(patch)) = DOMAIN patch
BY PathsAssumption DEF Apply, LeafDiff, Assembles, Offered, Catalog, ChangesSomething

LEMMA NoPatchIncomplete == ~Assembles(NoPatch)
<1>1. DOMAIN NoPatch = {}
  BY DEF NoPatch
<1>2. Cardinality(DOMAIN NoPatch) = 0
  BY <1>1, FS_EmptySet
<1>3. QED
  BY <1>2 DEF Assembles, Offered, CountInBounds, MinPatchLeaves

LEMMA FourDistinct ==
    ASSUME NEW patches, Distinct(patches)
    PROVE  Cardinality({Apply(patches[c]) : c \in Candidates}) = 4
<1> DEFINE S(n) == {Apply(patches[c]) : c \in 1..n}
<1>1. Cardinality(S(0)) = 0 /\ IsFiniteSet(S(0))
  <2>1. S(0) = {}
    OBVIOUS
  <2>2. QED
    BY <2>1, FS_EmptySet
<1>2. ASSUME NEW n \in 0..3, Cardinality(S(n)) = n, IsFiniteSet(S(n))
      PROVE  Cardinality(S(n + 1)) = n + 1 /\ IsFiniteSet(S(n + 1))
  <2>1. S(n + 1) = S(n) \cup {Apply(patches[n + 1])}
    <3>1. 1..n + 1 = 1..n \cup {n + 1}
      OBVIOUS
    <3>2. QED
      BY <3>1
  <2>2. \A c \in 1..n : c \in Candidates /\ n + 1 \in Candidates /\ c # n + 1
    BY DEF Candidates
  <2>3. Apply(patches[n + 1]) \notin S(n)
    BY <2>2 DEF Distinct
  <2> DEFINE x == Apply(patches[n + 1])
             T == S(n)
  <2>4. Cardinality(T) = n /\ IsFiniteSet(T) /\ x \notin T
    BY <1>2, <2>3
  <2> HIDE DEF x, T
  <2>5. IsFiniteSet(T \cup {x}) /\ Cardinality(T \cup {x}) = n + 1
    BY <2>4, FS_AddElement
  <2>6. QED
    BY <2>1, <2>5 DEF x, T
<1>3. Cardinality(S(1)) = 1 /\ IsFiniteSet(S(1))
  BY <1>1, <1>2
<1>4. Cardinality(S(2)) = 2 /\ IsFiniteSet(S(2))
  BY <1>2, <1>3
<1>5. Cardinality(S(3)) = 3 /\ IsFiniteSet(S(3))
  BY <1>2, <1>4
<1>6. Cardinality(S(4)) = 4
  BY <1>2, <1>5
<1>7. QED
  BY <1>6 DEF Candidates

LEMMA SixFinite ==
    ASSUME NEW a, NEW b, NEW c, NEW d, NEW e, NEW f
    PROVE  IsFiniteSet({a, b, c, d, e, f})
<1>1. IsFiniteSet({a, b})
  <2>1. IsFiniteSet({a})
    BY FS_Singleton
  <2>2. {a, b} = {a} \cup {b}
    OBVIOUS
  <2>3. QED
    BY <2>1, <2>2, FS_AddElement
<1>2. IsFiniteSet({a, b, c})
  <2>1. {a, b, c} = {a, b} \cup {c}
    OBVIOUS
  <2>2. QED
    BY <1>1, <2>1, FS_AddElement
<1>3. IsFiniteSet({a, b, c, d})
  <2>1. {a, b, c, d} = {a, b, c} \cup {d}
    OBVIOUS
  <2>2. QED
    BY <1>2, <2>1, FS_AddElement
<1>4. IsFiniteSet({a, b, c, d, e})
  <2>1. {a, b, c, d, e} = {a, b, c, d} \cup {e}
    OBVIOUS
  <2>2. QED
    BY <1>3, <2>1, FS_AddElement
<1>5. {a, b, c, d, e, f} = {a, b, c, d, e} \cup {f}
  OBVIOUS
<1>6. QED
  BY <1>4, <1>5, FS_AddElement

\* Weak is: two different complaints.
LEMMA WeakMeansTwo ==
    ASSUME NEW warnings, IsFiniteSet(warnings)
    PROVE  Adherence(warnings) = "weak" <=> \E a, b \in warnings : a # b
<1>1. Cardinality(warnings) = 1 <=> \E x : warnings = {x}
  BY FS_Singleton
<1>2. QED
  BY <1>1 DEF Adherence

LEMMA AdherenceJudged == \A warnings : Adherence(warnings) # "none"
BY DEF Adherence

\* The quality gate and the proposal count the same breaks of a role.
LEMMA JudgesAgree ==
    ASSUME NEW candidate, NEW preferred, NEW leaves, leaves \subseteq Catalog,
           Adherence(RoleViolations(candidate, preferred, leaves)) = "weak"
    PROVE  Adherence(RoleWarnings(candidate, preferred, leaves)) = "weak"
<1> DEFINE V == RoleViolations(candidate, preferred, leaves)
           W == RoleWarnings(candidate, preferred, leaves)
           rules == {"changed_leaf_count", "operation_count", "dimension_count",
                     "surface_required", "sortie_required", "preferred_dimension_missing"}
           names == {"changed_leaf_count", "operation_count", "dimension_count",
                     "surface", "sortie", "preferred_dimension"}
           name(r) == IF r = "surface_required" THEN "surface"
                      ELSE IF r = "sortie_required" THEN "sortie"
                      ELSE IF r = "preferred_dimension_missing" THEN "preferred_dimension"
                      ELSE r
           surface == {o \in Attacks : \E leaf \in leaves : OperationOf(leaf) = o}
           sortie == {o \in Sorties : \E leaf \in leaves : OperationOf(leaf) = o}
<1>1. /\ surface = OperationsOf(leaves) \cap Attacks
      /\ sortie = OperationsOf(leaves) \cap Sorties
  BY DEF OperationsOf
<1>2. surface \cup sortie = OperationsOf(leaves)
  BY PathsAssumption DEF OperationsOf, OperationOf, Catalog, Operations
<1>3. \A r \in V : r \in rules /\ name(r) \in W
  BY <1>1, <1>2 DEF RoleViolations, RoleWarnings
<1>4. V \subseteq rules /\ W \subseteq names
  BY DEF RoleViolations, RoleWarnings
<1>5. IsFiniteSet(rules) /\ IsFiniteSet(names)
  BY SixFinite
<1>6. IsFiniteSet(V) /\ IsFiniteSet(W)
  BY <1>4, <1>5, FS_Subset
<1>7. PICK a \in V, b \in V : a # b
  BY <1>6, WeakMeansTwo
<1>8. name(a) # name(b)
  BY <1>4, <1>7
<1>9. QED
  BY <1>3, <1>6, <1>7, <1>8, WeakMeansTwo

-----------------------------------------------------------------------------
(* The types of what the actions use *)

LEMMA Numbers == Revisions \subseteq Nat /\ 0 \in Revisions /\ MaxFaults \in Nat
BY PreviewAssumption DEF Revisions

LEMMA Values ==
    /\ NoPatch \in Patches /\ NoPatches \in [Candidates -> Patches]
    /\ NoRow \in Rows /\ FailedRow \in Rows /\ NoRows \in [Candidates -> Rows]
    /\ \A patch \in Patches : PatchRow(patch) \in Rows
    /\ NoFailure \in Failures
    /\ NoPlan \in AnyPlan
    /\ NoReport \in Reports
    /\ Nothing \in Acceptances
<1>1. NoPatch \in Patches
  BY DEF Patches
<1>2. NoPatches \in [Candidates -> Patches]
  BY <1>1 DEF NoPatches
<1>3. /\ NoRow \in Rows /\ FailedRow \in Rows
      /\ \A patch \in Patches : PatchRow(patch) \in Rows
  BY <1>1 DEF NoRow, FailedRow, Rows, PatchRow
<1>4. NoRows \in [Candidates -> Rows]
  BY <1>3 DEF NoRows
<1>5. NoFailure \in Failures
  BY DEF NoFailure, Failures, Codes
<1>6. NoReport \in Reports
  BY DEF NoReport, Reports
<1>7. NoPlan \in AnyPlan /\ Nothing \in Acceptances
  BY <1>1 DEF AnyPlan, Nothing, Acceptances, MaxRepairs
<1>8. QED
  BY <1>1, <1>2, <1>3, <1>4, <1>5, <1>6, <1>7

LEMMA SmallNumbers ==
    0 \in 0..MaxRepairs /\ 0 \in 0..4 /\ 1 \in 0..4 /\ 0 \in Nat /\ 1 \in Nat
BY DEF MaxRepairs

LEMMA IdleTyped == Idle \in Jobs
BY Values, Numbers DEF Idle, Jobs, Stages, MaxRepairs

LEMMA RestTyped ==
    ASSUME Inv
    PROVE  Rest \in Jobs
<1>1. job.used \in Nat /\ job.lastUsed \in Nat
  BY DEF Inv, Typed, Jobs
<1>2. QED
  BY <1>1, IdleTyped DEF Rest, Jobs

LEMMA SpendTyped ==
    ASSUME job \in Jobs, NEW calls \in Nat
    PROVE  \E n, m \in Nat : Spend(calls) = [job EXCEPT !.used = n, !.lastUsed = m]
<1> DEFINE n == job.used + calls
           m == IF job.mode = "propose" THEN job.used + calls ELSE calls
<1>1. n \in Nat /\ m \in Nat
  BY DEF Jobs
<1>2. Spend(calls) = [job EXCEPT !.used = n, !.lastUsed = m]
  BY DEF Spend
<1>3. QED
  BY <1>1, <1>2

LEMMA EmptyTyped == Empty \in Directories
BY Values DEF Empty, Directories

LEMMA ReportTyped == \A patches, plan : QualityReport(patches, plan) \in Reports
<1>1. \A warnings : Adherence(warnings) \in {"none", "full", "partial", "weak"}
  BY DEF Adherence
<1>2. \A patches : BatchWarnings(patches) \in SUBSET BatchWarningNames
  BY DEF BatchWarnings
<1>3. QED
  BY <1>1, <1>2 DEF QualityReport, Reports

-----------------------------------------------------------------------------
(* The initial state *)

LEMMA InitInv == Init => Inv
<1> SUFFICES ASSUME Init PROVE Inv
  OBVIOUS
<1>1. Typed
  <2>1. disk \in [Revisions -> Directories]
    BY EmptyTyped DEF Init
  <2>2. previews \in [Revisions -> [Candidates -> Patches]]
    BY Values DEF Init
  <2>3. acceptedAt \in [Revisions -> [Candidates -> Acceptances]]
    BY Values DEF Init
  <2>4. ledger \in [OperationKeys -> {"absent", "STARTED", "FAILED", "COMPLETED"}]
    BY DEF Init
  <2>5. charged \in Nat /\ faults \in 0..MaxFaults
    BY Numbers DEF Init
  <2>6. awaiting \in BOOLEAN
    BY DEF Init
  <2>7. job \in Jobs
    BY IdleTyped DEF Init
  <2>8. QED
    BY <2>1, <2>2, <2>3, <2>4, <2>5, <2>6, <2>7 DEF Typed
<1>2. \A r \in Revisions : ~Frozen(r) /\ ~HasPreview(r) /\ ~JsonFailed(disk[r].failure)
  BY DEF Init, Frozen, HasPreview, Empty, JsonFailed, NoFailure
<1>3. FilesSound
  BY <1>2 DEF FilesSound, RevisionSound, TraceSound, FrozenKept, SavedKept, Init
<1>4. RecordsSound
  BY DEF RecordsSound, Init
<1>5. job.at = "idle"
  BY DEF Init, Idle
<1>6. JobSound
  BY <1>5 DEF JobSound, JobFresh, JobRestored, JobMode, JobDirectory, JobPatching, JobFailing,
              JobComplete, JobSettled, Fresh, Proposing, Writing, Complete, Validated
<1>7. QED
  BY <1>1, <1>3, <1>4, <1>6 DEF Inv

-----------------------------------------------------------------------------
(* The control plane *)

LEMMA FilesUnchanged ==
    ASSUME FilesSound, UNCHANGED <<disk, previews, acceptedAt>>
    PROVE  FilesSound'
BY DEF FilesSound, RevisionSound, TraceSound, FrozenKept, SavedKept, Frozen, HasPreview

LEMMA RevisionUnchanged ==
    ASSUME FilesSound, NEW r \in Revisions,
           disk'[r] = disk[r], previews'[r] = previews[r], acceptedAt'[r] = acceptedAt[r]
    PROVE  RevisionSound(r)'
BY DEF FilesSound, RevisionSound, TraceSound, FrozenKept, SavedKept, Frozen, HasPreview

LEMMA RecordsUnchanged ==
    ASSUME RecordsSound, UNCHANGED <<previews, ledger, awaiting>>
    PROVE  RecordsSound'
BY DEF RecordsSound, HasPreview

\* A call that does not complete leaves every record backed.
LEMMA NoCompletion ==
    ASSUME RecordsSound, NEW o, NEW status, status # "COMPLETED",
           ledger' = [ledger EXCEPT ![o] = status], UNCHANGED <<previews, awaiting>>, Typed
    PROVE  RecordsSound'
BY DEF RecordsSound, HasPreview, Typed

\* Nothing is held by a call at one of these stages.
LEMMA NothingHeld ==
    ASSUME job'.at \in {"idle", "fail"}
    PROVE  JobSound'
BY DEF JobSound, JobFresh, JobRestored, JobMode, JobDirectory, JobPatching, JobFailing,
       JobComplete, JobSettled, Fresh, Proposing, Writing, Complete, Validated

LEMMA OperationTyped ==
    ASSUME NEW mode \in {"propose", "resume", "repair"}, NEW r \in Revisions, NEW c \in 0..4
    PROVE  Operation(mode, r, c) \in OperationKeys /\ Operation(mode, r, c)[2] = r
BY DEF Operation, OperationKeys, Candidates

LEMMA AskPreviewKept ==
    ASSUME Inv, NEW regenerate, AskPreview(regenerate)
    PROVE  Inv'
<1>1. job' = [Rest EXCEPT !.at = "make", !.rev = NextRevision] /\ NextRevision \in Revisions
  BY DEF AskPreview, Start
<1>2. PICK o \in OperationKeys : ledger' = [ledger EXCEPT ![o] = "STARTED"]
  <2>1. Operation("propose", NextRevision, 0) \in OperationKeys
    BY <1>1, OperationTyped
  <2>2. QED
    BY <2>1 DEF AskPreview, Start
<1>3. UNCHANGED <<disk, previews, charged, awaiting, acceptedAt>>
  BY DEF AskPreview, Start
<1>4. job' \in Jobs
  BY <1>1, RestTyped DEF Jobs, Stages
<1>5. faults' \in 0..MaxFaults
  BY Numbers DEF AskPreview, Counted, Inv, Typed
<1>6. Typed'
  BY <1>2, <1>3, <1>4, <1>5 DEF Inv, Typed
<1>7. FilesSound' /\ RecordsSound'
  BY <1>2, <1>3, FilesUnchanged, NoCompletion DEF Inv
<1>8. JobSound'
  BY <1>1 DEF JobSound, JobFresh, JobRestored, JobMode, JobDirectory, JobPatching, JobFailing,
       JobComplete, JobSettled, Fresh, Proposing, Writing, Complete, Validated, Idle,
       Rest, Rejected, NoRow
<1>9. QED
  BY <1>6, <1>7, <1>8 DEF Inv

LEMMA AskResumeKept ==
    ASSUME Inv, NEW source \in Revisions, NEW candidate \in Candidates,
           AskResume(source, candidate)
    PROVE  Inv'
<1>1. /\ job' = [Rest EXCEPT !.at = "read", !.mode = "resume", !.rev = source + 1,
                            !.from = candidate]
      /\ source + 1 \in Revisions /\ candidate \in 0..4 /\ candidate # 0
  BY DEF AskResume, Start, Candidates
<1>2. PICK o \in OperationKeys : ledger' = [ledger EXCEPT ![o] = "STARTED"]
  <2>1. Operation("resume", source + 1, candidate) \in OperationKeys
    BY <1>1, OperationTyped
  <2>2. QED
    BY <2>1 DEF AskResume, Start
<1>3. UNCHANGED <<disk, previews, charged, awaiting, acceptedAt>>
  BY DEF AskResume, Start
<1>4. job' \in Jobs
  BY <1>1, RestTyped DEF Jobs, Stages
<1>5. faults' \in 0..MaxFaults
  BY Numbers DEF AskResume, Counted, Inv, Typed
<1>6. Typed'
  BY <1>2, <1>3, <1>4, <1>5 DEF Inv, Typed
<1>7. FilesSound' /\ RecordsSound'
  BY <1>2, <1>3, FilesUnchanged, NoCompletion DEF Inv
<1>8. job'.rev - 1 = source
  BY <1>1, Numbers DEF Rest, Idle
<1>9. JobSound'
  BY <1>1, <1>8 DEF JobSound, JobFresh, JobRestored, JobMode, JobDirectory, JobPatching,
       JobFailing, JobComplete, JobSettled, Fresh, Proposing, Writing, Complete, Validated,
       Idle, Rest, Rejected, NoRow
<1>10. QED
  BY <1>6, <1>7, <1>9 DEF Inv

LEMMA AskRepairKept ==
    ASSUME Inv, NEW source \in Revisions, NEW candidate \in Candidates,
           AskRepair(source, candidate)
    PROVE  Inv'
<1>1. /\ job' = [Rest EXCEPT !.at = "fail", !.mode = "repair", !.rev = source + 1,
                            !.from = candidate]
      /\ source + 1 \in Revisions /\ candidate \in 0..4 /\ candidate # 0
  BY DEF AskRepair, Start, Candidates
<1>2. PICK o \in OperationKeys : ledger' = [ledger EXCEPT ![o] = "STARTED"]
  <2>1. Operation("repair", source + 1, candidate) \in OperationKeys
    BY <1>1, OperationTyped
  <2>2. QED
    BY <2>1 DEF AskRepair, Start
<1>3. UNCHANGED <<disk, previews, charged, awaiting, acceptedAt>>
  BY DEF AskRepair, Start
<1>4. job' \in Jobs
  BY <1>1, RestTyped DEF Jobs, Stages
<1>5. faults' \in 0..MaxFaults
  BY Numbers DEF AskRepair, Counted, Inv, Typed
<1>6. Typed'
  BY <1>2, <1>3, <1>4, <1>5 DEF Inv, Typed
<1>7. FilesSound' /\ RecordsSound'
  BY <1>2, <1>3, FilesUnchanged, NoCompletion DEF Inv
<1>8. JobSound'
  BY <1>1, NothingHeld DEF Idle, Rest
<1>9. QED
  BY <1>6, <1>7, <1>8 DEF Inv

LEMMA OperationOfJobTyped ==
    ASSUME Inv
    PROVE  OperationOfJob \in OperationKeys /\ OperationOfJob[2] = job.rev
BY OperationTyped DEF OperationOfJob, Inv, Typed, Jobs

LEMMA FailOperationKept == ASSUME Inv, FailOperation PROVE Inv'
<1>1. /\ ledger' = [ledger EXCEPT ![OperationOfJob] = "FAILED"]
      /\ charged' = charged + job.used /\ job' = Rest
      /\ UNCHANGED <<disk, previews, awaiting, acceptedAt, faults>>
  BY DEF FailOperation
<1>2. charged' \in Nat
  BY <1>1 DEF Inv, Typed, Jobs
<1>3. Typed'
  BY <1>1, <1>2, RestTyped, OperationOfJobTyped DEF Inv, Typed
<1>4. FilesSound' /\ RecordsSound'
  BY <1>1, FilesUnchanged, NoCompletion DEF Inv
<1>5. JobSound'
  BY <1>1, NothingHeld DEF Idle, Rest
<1>6. QED
  BY <1>3, <1>4, <1>5 DEF Inv

LEMMA CrashKept == ASSUME Inv, Crash PROVE Inv'
<1>1. /\ job' = Idle
      /\ UNCHANGED <<disk, previews, ledger, charged, awaiting, acceptedAt>>
  BY DEF Crash
<1>2. faults' \in 0..MaxFaults
  BY Numbers DEF Crash, Inv, Typed
<1>3. Typed'
  BY <1>1, <1>2, IdleTyped DEF Inv, Typed
<1>4. FilesSound' /\ RecordsSound'
  BY <1>1, FilesUnchanged, RecordsUnchanged DEF Inv
<1>5. JobSound'
  BY <1>1, NothingHeld DEF Idle, Rest
<1>6. QED
  BY <1>3, <1>4, <1>5 DEF Inv

LEMMA CompleteOperationKept == ASSUME Inv, CompleteOperation PROVE Inv'
<1>1. /\ ledger' = [ledger EXCEPT ![OperationOfJob] = "COMPLETED"]
      /\ job' = [job EXCEPT !.at = "charge"] /\ HasPreview(job.rev)
      /\ UNCHANGED <<disk, previews, charged, awaiting, acceptedAt, faults>>
  BY DEF CompleteOperation, Inv, JobSound, JobSettled
<1>2. job' \in Jobs /\ job'.at = "charge" /\ job'.rev = job.rev
  BY <1>1 DEF Inv, Typed, Jobs, Stages
<1>3. Typed'
  BY <1>1, <1>2, OperationOfJobTyped DEF Inv, Typed
<1>4. FilesSound'
  BY <1>1, FilesUnchanged DEF Inv
<1>5. RecordsSound'
  BY <1>1, OperationOfJobTyped DEF RecordsSound, HasPreview, Inv, Typed
<1>6. JobSound'
  BY <1>1, <1>2 DEF JobSound, JobFresh, JobRestored, JobMode, JobDirectory, JobPatching,
       JobFailing, JobComplete, JobSettled, Fresh, Proposing, Writing, Complete, Validated,
       HasPreview
<1>7. QED
  BY <1>3, <1>4, <1>5, <1>6 DEF Inv

LEMMA ChargeCompletedKept == ASSUME Inv, ChargeCompleted PROVE Inv'
<1>1. /\ charged' = charged + job.used /\ awaiting' = TRUE /\ job' = Rest
      /\ HasPreview(job.rev) /\ job.rev \in Revisions
      /\ UNCHANGED <<disk, previews, ledger, acceptedAt, faults>>
  BY DEF ChargeCompleted, Inv, JobSound, JobSettled, Typed, Jobs
<1>2. charged' \in Nat /\ awaiting' \in BOOLEAN
  BY <1>1 DEF Inv, Typed, Jobs
<1>3. Typed'
  BY <1>1, <1>2, RestTyped DEF Inv, Typed
<1>4. FilesSound'
  BY <1>1, FilesUnchanged DEF Inv
<1>5. RecordsSound'
  BY <1>1 DEF RecordsSound, HasPreview, Inv
<1>6. JobSound'
  BY <1>1, NothingHeld DEF Idle, Rest
<1>7. QED
  BY <1>3, <1>4, <1>5, <1>6 DEF Inv

-----------------------------------------------------------------------------
(* The trace that is read, and the revision that is made *)

LEMMA RejectedStands ==
    ASSUME NEW c, NEW row, NEW accepted, NEW plan, Rejected(row)
    PROVE  RowStands(c, row, accepted, plan)
BY DEF Rejected, RowStands, Stands

LEMMA NoRowRejected == Rejected(NoRow) /\ Rejected(FailedRow)
BY DEF Rejected, NoRow, FailedRow

LEMMA ReadSourceKept == ASSUME Inv, ReadSource PROVE Inv'
<1> DEFINE source == disk[job.rev - 1]
           accepted == acceptedAt[job.rev - 1]
<1>1. /\ job.at = "read" /\ job.mode = "resume" /\ job.from # 0 /\ job.rev - 1 \in Revisions
      /\ job.error = NoFailure /\ job.resumed = NoRows /\ Rejected(job.row)
  BY DEF ReadSource, Inv, JobSound, JobMode, JobFresh, Fresh
<1>2. UNCHANGED <<disk, previews, ledger, charged, awaiting, acceptedAt, faults>>
  BY DEF ReadSource
<1>3. FilesSound' /\ RecordsSound'
  BY <1>2, FilesUnchanged, RecordsUnchanged DEF Inv
<1>4. CASE ~Restorable(source, job.from)
  <2>1. job' = [job EXCEPT !.at = "fail"]
    BY <1>4 DEF ReadSource, Source
  <2>2. job' \in Jobs /\ job'.at = "fail"
    BY <2>1 DEF Inv, Typed, Jobs, Stages
  <2>3. QED
    BY <1>2, <1>3, <2>2, NothingHeld DEF Inv, Typed
<1>5. CASE Restorable(source, job.from)
  <2> DEFINE patches == [c \in Candidates |->
                            IF c < job.from THEN FinalRow(source, c).changes ELSE NoPatch]
  <2>1. job' = [job EXCEPT !.at = "make", !.plan = source.plan, !.attempts = source.attempts,
                           !.patches = patches]
    BY <1>5 DEF ReadSource, Source
  <2>2. source \in Directories
    BY <1>1 DEF Inv, Typed
  <2>3. patches \in [Candidates -> Patches]
    <3>1. \A c \in Candidates : FinalRow(source, c) \in Rows
      BY <2>2 DEF FinalRow, Directories
    <3>2. QED
      BY <3>1, Values DEF Rows
  <2>4. job' \in Jobs
    BY <2>1, <2>2, <2>3 DEF Inv, Typed, Jobs, Stages, Directories
  <2> HIDE DEF patches
  <2>5. /\ job'.at = "make" /\ job'.mode = "resume" /\ job'.from = job.from /\ job'.rev = job.rev
        /\ job'.attempts = source.attempts /\ job'.resumed = NoRows /\ job'.plan = source.plan
        /\ job'.error = NoFailure /\ job'.row = job.row /\ job'.patches = patches
    BY <1>1, <2>1 DEF Inv, Typed, Jobs
  <2>6. /\ RowsStand(source.attempts, source.resumed, accepted, source.plan)
        /\ \A c \in Candidates : c >= job.from => Rejected(source.attempts[c])
    <3>1. JsonFailed(source.failure) /\ source.failure.candidate = job.from
      BY <1>1, <1>5 DEF Restorable, JsonFailed
    <3>2. QED
      BY <1>1, <3>1 DEF Inv, FilesSound, RevisionSound, TraceSound
  <2>7. ASSUME NEW c \in Candidates, c < job.from
        PROVE  /\ Assembles(patches[c])
               /\ Stands(c, patches[c], accepted[c], source.plan)
    <3>1. patches[c] = FinalRow(source, c).changes
      BY <2>7 DEF patches
    <3>2. FinalRow(source, c).phase = "patch" /\ Assembles(FinalRow(source, c).changes)
      <4>1. c \in 1..(job.from - 1)
        BY <2>7 DEF Candidates, Inv, Typed, Jobs
      <4>2. QED
        BY <1>5, <4>1 DEF Restorable
    <3>3. RowStands(c, FinalRow(source, c), accepted[c], source.plan)
      BY <2>6 DEF RowsStand, FinalRow
    <3>4. QED
      BY <3>1, <3>2, <3>3 DEF RowStands
  <2>8. JobFresh'
    BY <1>1, <2>5 DEF JobFresh
  <2>9. JobRestored'
    <3>1. \A c \in Candidates : c < job.from => Held(c, accepted)'
      BY <1>2, <2>5, <2>7 DEF Held
    <3>2. \A c \in Candidates : c < job.from =>
             RowStands(c, source.attempts[c], accepted[c], source.plan)
      BY <2>6 DEF RowsStand
    <3>3. RejectedFrom(job.from)'
      BY <2>5, <2>6, NoRowRejected DEF RejectedFrom, NoRows
    <3>4. QED
      BY <1>2, <2>5, <3>1, <3>2, <3>3 DEF JobRestored, RejectedFrom
  <2>10. JobSound'
    BY <2>5, <2>8, <2>9 DEF JobSound, JobMode, JobDirectory, JobPatching, JobFailing,
           JobComplete, JobSettled, Proposing, Writing, Complete, Validated
  <2>11. QED
    BY <1>2, <1>3, <2>4, <2>10 DEF Inv, Typed
<1>6. QED
  BY <1>4, <1>5

\* A directory that is not there yet has no preview.
LEMMA UnmadeUnsaved ==
    ASSUME Inv, NEW r \in Revisions, ~disk[r].made
    PROVE  disk[r] = Empty /\ ~HasPreview(r) /\ ~Frozen(r) /\ ~JsonFailed(disk[r].failure)
<1>1. disk[r] = Empty /\ SavedKept(r)
  BY DEF Inv, FilesSound, RevisionSound
<1>2. QED
  BY <1>1 DEF SavedKept, Empty, Frozen, JsonFailed, NoFailure

\* A step writes one revision only.
LEMMA RevisionWritten ==
    ASSUME FilesSound, NEW rev \in Revisions, RevisionSound(rev)',
           \A r \in Revisions : r # rev =>
              disk'[r] = disk[r] /\ previews'[r] = previews[r] /\ acceptedAt'[r] = acceptedAt[r]
    PROVE  FilesSound'
<1>1. ASSUME NEW r \in Revisions, r # rev PROVE RevisionSound(r)'
  BY <1>1, RevisionUnchanged
<1>2. QED
  BY <1>1 DEF FilesSound

\* A directory that is neither frozen nor failed yet says nothing.
LEMMA UnfinishedSound ==
    ASSUME NEW rev \in Revisions, disk'[rev].made, disk'[rev].failure = NoFailure,
           disk'[rev].frozen = NoPatches, previews'[rev] = NoPatches
    PROVE  RevisionSound(rev)'
BY DEF RevisionSound, TraceSound, FrozenKept, SavedKept, Frozen, HasPreview, JsonFailed, NoFailure

LEMMA DirectoryWritten ==
    ASSUME Typed, NEW rev \in Revisions, NEW d \in Directories,
           disk' = [disk EXCEPT ![rev] = d]
    PROVE  /\ disk' \in [Revisions -> Directories]
           /\ disk'[rev] = d
           /\ \A r \in Revisions : r # rev => disk'[r] = disk[r]
BY DEF Typed

LEMMA MakeRevisionKept == ASSUME Inv, MakeRevision PROVE Inv'
<1>1. /\ job.at = "make" /\ job \in Jobs /\ job.rev \in Revisions
      /\ job.mode \in {"propose", "resume"}
      /\ job.error = NoFailure /\ job.resumed = NoRows /\ Rejected(job.row)
      /\ job.mode = "propose" => job.from = 0 /\ job.attempts = NoRows
      /\ job.mode = "resume" => job.from # 0 /\ job.rev - 1 \in Revisions
  BY DEF MakeRevision, Inv, JobSound, JobMode, JobFresh, Fresh, Typed, Jobs
<1>2. UNCHANGED <<previews, ledger, charged, awaiting, faults>>
  BY DEF MakeRevision
<1>3. RecordsSound'
  BY <1>2, RecordsUnchanged DEF Inv
<1>4. CASE Dir.made
  <2>1. job' = [job EXCEPT !.at = "fail"] /\ UNCHANGED <<disk, acceptedAt>>
    BY <1>4 DEF MakeRevision, Dir
  <2>2. job' \in Jobs /\ job'.at = "fail"
    BY <1>1, <2>1 DEF Jobs, Stages
  <2>3. QED
    BY <1>2, <1>3, <2>1, <2>2, NothingHeld, FilesUnchanged DEF Inv, Typed
<1>5. CASE ~Dir.made
  <2> DEFINE next == IF job.mode = "propose" THEN "freeze" ELSE "patch"
  <2>1. /\ acceptedAt' = [acceptedAt EXCEPT ![job.rev] = AcceptedBefore]
        /\ disk' = [disk EXCEPT ![job.rev].made = TRUE]
        /\ job' = [job EXCEPT !.at = next, !.candidate = job.from, !.used = 0]
    BY <1>5 DEF MakeRevision, Dir
  <2>2. /\ job' \in Jobs
        /\ job'.at = next /\ job'.candidate = job.from /\ job'.mode = job.mode
        /\ job'.rev = job.rev /\ job'.from = job.from /\ job'.attempts = job.attempts
        /\ job'.resumed = job.resumed /\ job'.plan = job.plan /\ job'.patches = job.patches
        /\ job'.error = job.error /\ job'.row = job.row
    BY <1>1, <2>1, SmallNumbers DEF Jobs, Stages
  <2>a. PICK rev \in Revisions : rev = job.rev
    BY <1>1
  <2>3. AcceptedBefore \in [Candidates -> Acceptances]
    BY <1>1, Values DEF AcceptedBefore, Inv, Typed, Jobs, Candidates
  <2>4. /\ Dir = Empty /\ ~HasPreview(rev)
    BY <1>1, <1>5, <2>a, UnmadeUnsaved DEF Dir
  <2>b. [Empty EXCEPT !.made = TRUE] \in Directories
    BY EmptyTyped DEF Directories
  <2>c. disk' = [disk EXCEPT ![rev] = [Empty EXCEPT !.made = TRUE]]
    BY <2>1, <2>4, <2>a DEF Dir
  <2>5. acceptedAt' \in [Revisions -> [Candidates -> Acceptances]]
    BY <1>1, <2>1, <2>3 DEF Inv, Typed
  <2>6. Typed'
    BY <1>2, <2>2, <2>5, <2>b, <2>c, DirectoryWritten DEF Inv, Typed
  <2>7. /\ disk'[rev] = [Empty EXCEPT !.made = TRUE]
        /\ acceptedAt'[rev] = AcceptedBefore
        /\ \A r \in Revisions : r # rev => disk'[r] = disk[r] /\ acceptedAt'[r] = acceptedAt[r]
    BY <2>1, <2>a, <2>b, <2>c, DirectoryWritten DEF Inv, Typed
  <2>8. /\ disk'[rev].made /\ disk'[rev].failure = NoFailure /\ disk'[rev].frozen = NoPatches
        /\ ~disk'[rev].traced /\ ~disk'[rev].diff /\ previews'[rev] = NoPatches
    BY <1>2, <2>4, <2>7 DEF Empty, HasPreview
  <2>9. FilesSound'
    BY <1>2, <2>7, <2>8, UnfinishedSound, RevisionWritten DEF Inv
  <2>10. JobDirectory' /\ JobMode'
    BY <1>1, <2>2, <2>8, <2>a DEF JobDirectory, JobMode, Dir, HasPreview, Frozen,
           Proposing, Writing, Complete
  <2>11. CASE job.mode = "propose"
    <3>1. JobFresh'
      BY <1>1, <2>2, <2>11 DEF JobFresh
    <3>2. QED
      BY <1>3, <2>2, <2>6, <2>9, <2>10, <2>11, <3>1
         DEF Inv, JobSound, JobRestored, JobPatching, JobFailing, JobComplete, JobSettled,
             Complete, Validated
  <2>12. CASE job.mode = "resume"
    <3>1. /\ \A c \in Candidates : c < job.from => Held(c, acceptedAt[job.rev - 1])
          /\ \A c \in Candidates : c < job.from =>
                RowStands(c, job.attempts[c], acceptedAt[job.rev - 1][c], job.plan)
          /\ RejectedFrom(job.from)
      BY <1>1, <2>12 DEF Inv, JobSound, JobRestored
    <3>2. \A c \in Candidates : c < job.from => AcceptedBefore[c] = acceptedAt[job.rev - 1][c]
      BY DEF AcceptedBefore
    <3>3. RowsStand(job.attempts, NoRows, AcceptedBefore, job.plan)
      <4>1. ASSUME NEW c \in Candidates
            PROVE  RowStands(c, job.attempts[c], AcceptedBefore[c], job.plan)
        <5>1. c < job.from \/ c >= job.from
          BY <1>1 DEF Candidates, Jobs
        <5>2. QED
          BY <3>1, <3>2, <5>1, RejectedStands DEF RejectedFrom
      <4>2. \A c \in Candidates : RowStands(c, NoRows[c], AcceptedBefore[c], job.plan)
        BY NoRowRejected, RejectedStands DEF NoRows
      <4>3. QED
        BY <4>1, <4>2 DEF RowsStand
    <3>4. \A c \in Candidates : c < job.from => Held(c, Accepted)'
      BY <2>2, <2>7, <2>a, <3>1, <3>2 DEF Held, Accepted
    <3>5. RejectedFrom(job.from)'
      BY <2>2, <3>1 DEF RejectedFrom
    <3>6. JobPatching'
      BY <1>1, <2>2, <2>7, <2>a, <3>3, <3>4, <3>5 DEF JobPatching, Accepted, RejectedFrom
    <3>7. QED
      BY <1>3, <2>2, <2>6, <2>9, <2>10, <2>12, <3>6
         DEF Inv, JobSound, JobFresh, JobRestored, JobFailing, JobComplete, JobSettled,
             Fresh, Complete, Validated
  <2>13. QED
    BY <1>1, <2>11, <2>12
<1>6. QED
  BY <1>4, <1>5

LEMMA FreezeKnowledgeKept == ASSUME Inv, FreezeKnowledge PROVE Inv'
<1>1. /\ job.at = "freeze" /\ job \in Jobs /\ job.rev \in Revisions /\ job.mode = "propose"
      /\ JobFresh /\ JobDirectory
  BY DEF FreezeKnowledge, Inv, JobSound, JobMode, Typed, Jobs
<1>2. /\ disk' = [disk EXCEPT ![job.rev].snapshot = TRUE] /\ job' = [job EXCEPT !.at = "plan"]
      /\ UNCHANGED <<previews, ledger, charged, awaiting, acceptedAt, faults>>
  BY DEF FreezeKnowledge
<1>3. /\ job' \in Jobs /\ job'.at = "plan" /\ job'.mode = "propose" /\ job'.rev = job.rev
      /\ job'.from = job.from /\ job'.attempts = job.attempts /\ job'.resumed = job.resumed
      /\ job'.error = job.error /\ job'.row = job.row
  BY <1>1, <1>2 DEF Jobs, Stages
<1>4. Dir.made /\ Dir.failure = NoFailure /\ ~HasPreview(job.rev) /\ ~Frozen(job.rev)
  BY <1>1 DEF JobDirectory, Proposing, Writing
<1>a. PICK rev \in Revisions : rev = job.rev
  BY <1>1
<1> DEFINE d == [disk[rev] EXCEPT !.snapshot = TRUE]
<1>5. d \in Directories /\ disk' = [disk EXCEPT ![rev] = d]
  <2>1. disk[rev] \in Directories
    BY DEF Inv, Typed
  <2>2. d \in Directories
    BY <2>1 DEF Directories
  <2>3. QED
    BY <1>2, <1>a, <2>2
<1>6. Typed'
  BY <1>2, <1>3, <1>5, DirectoryWritten DEF Inv, Typed
<1>7. disk'[rev] = d /\ \A r \in Revisions : r # rev => disk'[r] = disk[r]
  BY <1>5, DirectoryWritten DEF Inv
<1>8. /\ disk'[rev].made /\ disk'[rev].failure = NoFailure /\ disk'[rev].frozen = NoPatches
      /\ ~disk'[rev].traced /\ ~disk'[rev].diff /\ disk'[rev].snapshot
      /\ previews'[rev] = NoPatches
  BY <1>1, <1>2, <1>4, <1>7, <1>a DEF Inv, Typed, Directories, Dir, Frozen, HasPreview, JobDirectory,
     Proposing, Writing
<1>9. FilesSound'
  BY <1>2, <1>7, <1>8, UnfinishedSound, RevisionWritten DEF Inv
<1>10. RecordsSound'
  BY <1>2, RecordsUnchanged DEF Inv
<1>11. JobFresh'
  BY <1>1, <1>3 DEF JobFresh, Fresh
<1>12. JobDirectory' /\ JobMode'
  BY <1>3, <1>8, <1>a DEF JobDirectory, JobMode, Dir, HasPreview, Frozen, Proposing, Writing,
         Complete
<1>13. QED
  BY <1>3, <1>6, <1>9, <1>10, <1>11, <1>12
     DEF Inv, JobSound, JobRestored, JobPatching, JobFailing, JobComplete, JobSettled, Complete,
         Validated

-----------------------------------------------------------------------------
(* The proposal agent *)

\* A step of the proposal agent changes no file and no record.
LEMMA AgentWritesNothing ==
    ASSUME Inv, UNCHANGED <<disk, previews, ledger, charged, awaiting>>, job' \in Jobs,
           acceptedAt' = acceptedAt, faults' \in 0..MaxFaults
    PROVE  Typed' /\ FilesSound' /\ RecordsSound'
<1>1. Typed'
  BY DEF Inv, Typed
<1>2. FilesSound' /\ RecordsSound'
  BY FilesUnchanged, RecordsUnchanged DEF Inv
<1>3. QED
  BY <1>1, <1>2

\* The call goes on to write its trace.
LEMMA JobTracing ==
    ASSUME Inv, job.at \in {"plan", "patch"}, UNCHANGED <<disk, previews>>,
           job'.at = "trace", job'.mode = job.mode, job'.rev = job.rev, JobFailing'
    PROVE  JobSound'
<1>1. JobDirectory /\ JobMode
  BY DEF Inv, JobSound
<1>2. JobDirectory' /\ JobMode'
  BY <1>1 DEF JobDirectory, JobMode, Dir, HasPreview, Frozen, Proposing, Writing, Complete
<1>3. QED
  BY <1>2 DEF JobSound, JobFresh, JobRestored, JobPatching, JobComplete, JobSettled, Fresh,
         Complete, Validated

LEMMA CountedBounded ==
    ASSUME Inv, NEW needed, Counted(needed)
    PROVE  faults' \in 0..MaxFaults
BY Numbers DEF Counted, Inv, Typed

LEMMA PlanIntentsKept == ASSUME Inv, PlanIntents PROVE Inv'
<1>1. /\ job.at = "plan" /\ job \in Jobs /\ job.mode = "propose"
      /\ JobFresh /\ JobDirectory /\ JobMode
  BY DEF PlanIntents, Inv, JobSound, JobMode, Typed, Jobs
<1>2. PICK plan \in Plans :
         job' = [Spend(1) EXCEPT !.at = "patch", !.candidate = 1, !.plan = plan]
  BY DEF PlanIntents
<1>3. UNCHANGED <<disk, previews, ledger, charged, awaiting, acceptedAt, faults>>
  BY DEF PlanIntents
<1>4. job' \in Jobs
  <2>1. plan \in AnyPlan
    BY DEF AnyPlan
  <2>2. QED
    <3>1. PICK n \in Nat, m \in Nat : Spend(1) = [job EXCEPT !.used = n, !.lastUsed = m]
      BY <1>1, SpendTyped
    <3>2. job' = [job EXCEPT !.used = n, !.lastUsed = m, !.at = "patch", !.candidate = 1,
                             !.plan = plan]
      BY <1>1, <1>2, <3>1 DEF Jobs
    <3>3. QED
      BY <1>1, <2>1, <3>2, SmallNumbers DEF Jobs, Stages
<1>5. /\ job'.at = "patch" /\ job'.mode = "propose" /\ job'.rev = job.rev /\ job'.candidate = 1
      /\ job'.attempts = NoRows /\ job'.resumed = NoRows /\ job'.error = NoFailure
      /\ job'.row = job.row /\ Rejected(job.row)
  BY <1>1, <1>2 DEF Jobs, JobFresh, Fresh, Spend
<1>6. Typed' /\ FilesSound' /\ RecordsSound'
  BY <1>3, <1>4, AgentWritesNothing DEF Inv, Typed
<1>7. JobDirectory' /\ JobMode'
  BY <1>1, <1>3, <1>5 DEF JobDirectory, JobMode, Dir, HasPreview, Frozen, Proposing, Writing,
         Complete
<1>8. JobPatching'
  <2>1. \A c \in Candidates : Rejected(NoRows[c])
    BY NoRowRejected DEF NoRows
  <2>2. RejectedFrom(1)'
    BY <1>5, <2>1 DEF RejectedFrom
  <2>3. \A accepted, q : RowsStand(NoRows, NoRows, accepted, q)
    BY <2>1, RejectedStands DEF RowsStand
  <2>4. \A c \in Candidates : ~(c < 1)
    BY DEF Candidates
  <2>5. QED
    BY <1>5, <2>2, <2>3, <2>4 DEF JobPatching, RejectedFrom
<1>9. QED
  BY <1>5, <1>6, <1>7, <1>8
     DEF Inv, JobSound, JobFresh, JobRestored, JobFailing, JobComplete, JobSettled, Fresh, Complete,
         Validated

\* A call that has failed writes its trace next.
LEMMA FailsTyped ==
    ASSUME NEW call \in Jobs, NEW error \in Failures
    PROVE  /\ Fails(call, error) \in Jobs /\ Fails(call, error).at = "trace"
           /\ Fails(call, error).mode = call.mode /\ Fails(call, error).rev = call.rev
           /\ Fails(call, error).error = error
<1>1. "trace" \in Stages
  BY DEF Stages
<1>2. QED
  BY <1>1 DEF Fails, Jobs

LEMMA PlanFailsKept ==
    ASSUME Inv, NEW code \in {"proposal_json_invalid", "intent_invalid"}, PlanFails(code)
    PROVE  Inv'
<1> DEFINE error == Failure(code, 0, "intent_or_patch")
<1>1. job.at = "plan" /\ job \in Jobs /\ job' = [Spend(0) EXCEPT !.at = "trace", !.error = error]
  BY DEF PlanFails, Fails, Inv, Typed
<1>2. UNCHANGED <<disk, previews, ledger, charged, awaiting, acceptedAt>>
  BY DEF PlanFails
<1>3. error \in Failures /\ error # NoFailure /\ ~JsonFailed(error)
  BY DEF Failure, Failures, Codes, NoFailure, JsonFailed
<1>4. /\ job' \in Jobs /\ job'.at = "trace" /\ job'.mode = job.mode /\ job'.rev = job.rev
      /\ job'.error = error
  <2> HIDE DEF error
  <2> DEFINE call == Spend(0)
  <2>1. PICK n \in Nat, m \in Nat : call = [job EXCEPT !.used = n, !.lastUsed = m]
    BY <1>1, SpendTyped
  <2>2. call \in Jobs /\ call.mode = job.mode /\ call.rev = job.rev
    BY <1>1, <2>1 DEF Jobs
  <2>3. job' = Fails(call, error)
    BY <1>1 DEF Fails
  <2> HIDE DEF call
  <2>4. QED
    BY <1>3, <2>2, <2>3, FailsTyped
<1>5. faults' \in 0..MaxFaults
  BY Numbers DEF PlanFails, Inv, Typed
<1>6. JobFailing'
  BY <1>3, <1>4 DEF JobFailing, Failed
<1>7. JobSound'
  BY <1>1, <1>2, <1>4, <1>6, JobTracing
<1>8. QED
  BY <1>2, <1>4, <1>5, <1>7, AgentWritesNothing DEF Inv

LEMMA ClientFailsKept == ASSUME Inv, ClientFails PROVE Inv'
<1> DEFINE error == Failure("client_error", 0, "intent_or_patch")
           more == IF job.mode = "resume" THEN job.lastUsed ELSE 0
<1>1. /\ job.at = "patch" /\ job \in Jobs
      /\ job' = [[Spend(more) EXCEPT !.tries = 0, !.row = NoRow]
                    EXCEPT !.at = "trace", !.error = error]
  BY DEF ClientFails, Fails, Inv, Typed
<1>2. UNCHANGED <<disk, previews, ledger, charged, awaiting, acceptedAt>>
  BY DEF ClientFails
<1>3. error \in Failures /\ error # NoFailure /\ ~JsonFailed(error)
  BY DEF Failure, Failures, Codes, NoFailure, JsonFailed
<1>4. more \in Nat
  BY <1>1 DEF Jobs
<1>5. /\ job' \in Jobs /\ job'.at = "trace" /\ job'.mode = job.mode /\ job'.rev = job.rev
      /\ job'.error = error
  <2> HIDE DEF more, error
  <2> DEFINE call == [Spend(more) EXCEPT !.tries = 0, !.row = NoRow]
  <2>1. PICK n \in Nat, m \in Nat : Spend(more) = [job EXCEPT !.used = n, !.lastUsed = m]
    BY <1>1, <1>4, SpendTyped
  <2>2. NoRow \in Rows /\ 0 \in 0..MaxRepairs
    BY Values, SmallNumbers
  <2>3. call \in Jobs /\ call.mode = job.mode /\ call.rev = job.rev
    BY <1>1, <2>1, <2>2 DEF Jobs
  <2>4. job' = Fails(call, error)
    BY <1>1 DEF Fails
  <2> HIDE DEF call
  <2>5. QED
    BY <1>3, <2>3, <2>4, FailsTyped
<1>6. faults' \in 0..MaxFaults
  BY Numbers DEF ClientFails, Inv, Typed
<1>7. JobFailing'
  BY <1>3, <1>5 DEF JobFailing, Failed
<1>8. JobSound'
  BY <1>1, <1>2, <1>5, <1>7, JobTracing
<1>9. QED
  BY <1>2, <1>5, <1>6, <1>8, AgentWritesNothing DEF Inv

LEMMA PatchingFacts ==
    ASSUME Inv, job.at = "patch"
    PROVE  /\ job \in Jobs /\ job.rev \in Revisions /\ job.candidate \in Candidates
           /\ job.mode \in {"propose", "resume"} /\ job.error = NoFailure /\ Rejected(job.row)
           /\ RowsStand(job.attempts, job.resumed, Accepted, job.plan)
           /\ RejectedFrom(job.candidate)
           /\ \A c \in Candidates : c < job.candidate => Held(c, Accepted)
<1>1. JobPatching /\ JobMode /\ job \in Jobs
  BY DEF Inv, JobSound, Typed
<1>2. job.candidate \in Candidates
  BY <1>1 DEF JobPatching, Jobs, Candidates
<1>3. QED
  BY <1>1, <1>2 DEF JobPatching, JobMode, Jobs

\* A candidate given up leaves a rejected row, or none.
LEMMA GiveUpKept ==
    ASSUME Inv, job.at = "patch", NEW code \in Codes, code # "none",
           NEW stage \in {"patch_generation", "patch_repair"},
           NEW row \in Rows, Rejected(row), GiveUp(code, stage, row),
           UNCHANGED <<disk, previews, ledger, charged, awaiting, acceptedAt>>,
           faults' \in 0..MaxFaults
    PROVE  Inv'
<1> DEFINE c == job.candidate
           error == Failure(code, c, stage)
           last == IF job.mode = "propose" /\ stage = "patch_repair" THEN row
                   ELSE job.attempts[c]
           attempts == [job.attempts EXCEPT ![c] = last]
<1>1. /\ job \in Jobs /\ c \in Candidates /\ c \in 0..4
      /\ RowsStand(job.attempts, job.resumed, Accepted, job.plan)
      /\ RejectedFrom(c)
  BY PatchingFacts DEF Jobs
<1>a. PICK n \in Nat, m \in Nat :
         Spend(FailedCalls(stage)) = [job EXCEPT !.used = n, !.lastUsed = m]
  <2>1. FailedCalls(stage) \in Nat
    BY DEF FailedCalls
  <2>2. QED
    BY <1>1, <2>1, SpendTyped
<1>2. job' = [job EXCEPT !.used = n, !.lastUsed = m, !.tries = 0, !.row = NoRow,
                         !.attempts = attempts, !.at = "trace", !.error = error]
  <2>1. job' = [[Spend(FailedCalls(stage)) EXCEPT
                    !.tries = 0, !.row = NoRow,
                    !.attempts[c] = IF job.mode = "propose" /\ stage = "patch_repair" THEN row ELSE @]
                  EXCEPT !.at = "trace", !.error = error]
    BY DEF GiveUp, Fails
  <2>2. QED
    BY <1>1, <1>a, <2>1 DEF Jobs
<1>3. error \in Failures /\ error # NoFailure
  BY <1>1 DEF Failure, Failures, NoFailure
<1>5. attempts \in [Candidates -> Rows] /\ Rejected(last)
  BY <1>1 DEF Jobs, RejectedFrom
<1>6. \A d \in Candidates : attempts[d] = IF d = c THEN last ELSE job.attempts[d]
  BY <1>1 DEF Jobs
<1> HIDE DEF attempts, last
<1>7. job' \in Jobs
  BY <1>1, <1>2, <1>3, <1>5, Values, SmallNumbers DEF Jobs, Stages
<1>8. /\ job'.at = "trace" /\ job'.mode = job.mode /\ job'.rev = job.rev /\ job'.plan = job.plan
      /\ job'.attempts = attempts /\ job'.resumed = job.resumed /\ job'.error = error
  BY <1>1, <1>2 DEF Jobs
<1>9. RowsStand(attempts, job.resumed, Accepted, job.plan)
  BY <1>1, <1>5, <1>6, RejectedStands DEF RowsStand
<1>10. \A d \in Candidates : d >= c => Rejected(attempts[d]) /\ Rejected(job.resumed[d])
  BY <1>1, <1>5, <1>6 DEF RejectedFrom
<1>11. error.candidate = c
  BY DEF Failure
<1>12. JobFailing'
  BY <1>3, <1>8, <1>9, <1>10, <1>11 DEF JobFailing, Failed, RejectedFrom, Accepted
<1>13. JobSound'
  BY <1>8, <1>12, JobTracing
<1>14. QED
  BY <1>7, <1>13, AgentWritesNothing DEF Inv

LEMMA RejectKept ==
    ASSUME Inv, job.at = "patch", NEW code \in Codes, code # "none",
           NEW row \in Rows, Rejected(row), Reject(code, row),
           UNCHANGED <<disk, previews, ledger, charged, awaiting, acceptedAt>>,
           faults' \in 0..MaxFaults
    PROVE  Inv'
<1>1. CASE GiveUp(code, "patch_generation", row)
  BY <1>1, GiveUpKept
<1>2. CASE GiveUp(code, "patch_repair", row)
  BY <1>2, GiveUpKept
<1>3. CASE job.tries < MaxRepairs /\ Retry(row)
  <2>1. job \in Jobs
    BY PatchingFacts
  <2>2. job.tries + 1 \in 0..MaxRepairs
    BY <1>3, <2>1 DEF Jobs, MaxRepairs
  <2>3. job' = [job EXCEPT !.tries = job.tries + 1, !.row = row]
    BY <1>3 DEF Retry
  <2>4. job' \in Jobs
    BY <2>1, <2>2, <2>3 DEF Jobs
  <2>5. /\ job'.at = job.at /\ job'.mode = job.mode /\ job'.rev = job.rev /\ job'.plan = job.plan
        /\ job'.attempts = job.attempts /\ job'.resumed = job.resumed /\ job'.error = job.error
        /\ job'.candidate = job.candidate /\ job'.patches = job.patches /\ job'.row = row
    BY <2>1, <2>3 DEF Jobs
  <2>6. JobDirectory' /\ JobMode'
    <3>1. JobDirectory /\ JobMode
      BY DEF Inv, JobSound
    <3>2. QED
      BY <2>5, <3>1 DEF JobDirectory, JobMode, Dir, HasPreview, Frozen
  <2>7. JobPatching'
    <3>1. /\ job.error = NoFailure /\ job.candidate # 0
          /\ RowsStand(job.attempts, job.resumed, Accepted, job.plan)
          /\ RejectedFrom(job.candidate)
          /\ \A c \in Candidates : c < job.candidate => Held(c, Accepted)
      BY PatchingFacts DEF Candidates
    <3>2. Accepted' = Accepted
      BY <2>5 DEF Accepted
    <3>3. RejectedFrom(job.candidate)'
      BY <2>5, <3>1 DEF RejectedFrom
    <3>4. \A c \in Candidates : c < job.candidate => Held(c, Accepted)'
      BY <2>5, <3>1, <3>2 DEF Held
    <3>5. QED
      BY <2>5, <3>1, <3>2, <3>3, <3>4 DEF JobPatching
  <2>8. JobSound'
    BY <2>5, <2>6, <2>7 DEF JobSound, JobFresh, JobRestored, JobFailing, JobComplete, JobSettled,
           Fresh, Complete, Validated
  <2>9. QED
    BY <2>4, <2>8, AgentWritesNothing DEF Inv
<1>4. QED
  BY <1>1, <1>2, <1>3 DEF Reject

LEMMA ReplyWithoutPatchKept ==
    ASSUME Inv, NEW code \in {"proposal_json_invalid", "invalid_patch_response_shape"},
           ReplyWithoutPatch(code)
    PROVE  Inv'
<1> DEFINE row == IF job.tries = 0 THEN FailedRow ELSE job.row
<1>1. job.at = "patch" /\ Reject(code, row) /\ faults' \in 0..MaxFaults
  BY CountedBounded DEF ReplyWithoutPatch
<1>2. row \in Rows /\ Rejected(row)
  BY <1>1, PatchingFacts, NoRowRejected, Values DEF Jobs
<1>3. code \in Codes /\ code # "none"
  BY DEF Codes
<1>4. QED
  BY <1>1, <1>2, <1>3, RejectKept DEF ReplyWithoutPatch

LEMMA AcceptKept ==
    ASSUME Inv, job.at = "patch", NEW patch \in Patches,
           Passes(job.candidate, patch, job.tries), Accept(patch),
           UNCHANGED <<disk, previews, ledger, charged, awaiting, faults>>
    PROVE  Inv'
<1> DEFINE c == job.candidate
           row == PatchRow(patch)
           attempts == [job.attempts EXCEPT ![c] = IF job.mode = "propose" THEN row ELSE @]
           resumed == [job.resumed EXCEPT ![c] = IF job.mode = "resume" THEN row ELSE @]
           patches == [job.patches EXCEPT ![c] = patch]
           again == job.mode = "propose" /\ \E d \in 1..(c - 1) : Apply(job.patches[d]) = Apply(patch)
           error == Failure("duplicate_accepted_strategy", 0, "intent_or_patch")
           next == IF c = 4 THEN "trace" ELSE "patch"
           candidate == IF c = 4 THEN 0 ELSE c + 1
           accepted == [patch |-> patch, repairs |-> job.tries]
<1>1. /\ job \in Jobs /\ job.rev \in Revisions /\ c \in Candidates
      /\ job.mode \in {"propose", "resume"} /\ job.error = NoFailure
      /\ RowsStand(job.attempts, job.resumed, Accepted, job.plan)
      /\ RejectedFrom(c)
      /\ \A d \in Candidates : d < c => Held(d, Accepted)
  BY PatchingFacts
<1>2. /\ attempts \in [Candidates -> Rows] /\ resumed \in [Candidates -> Rows]
      /\ \A d \in Candidates : d # c =>
            attempts[d] = job.attempts[d] /\ resumed[d] = job.resumed[d]
      /\ attempts[c] \in {row, job.attempts[c]} /\ resumed[c] \in {row, job.resumed[c]}
  <2>1. row \in Rows
    BY Values
  <2>2. QED
    BY <1>1, <2>1 DEF Jobs
<1>a. PICK n \in Nat, m \in Nat :
         Spend(Calls(job.tries)) = [job EXCEPT !.used = n, !.lastUsed = m]
  <2>1. Calls(job.tries) \in Nat
    BY <1>1 DEF Calls, Jobs, MaxRepairs
  <2>2. QED
    BY <1>1, <2>1, SpendTyped
<1>3. CASE again
  <2>1. /\ job' = [job EXCEPT !.used = n, !.lastUsed = m, !.tries = 0,
                              !.row = NoRow, !.attempts = attempts, !.resumed = resumed,
                              !.at = "trace", !.error = error]
        /\ UNCHANGED acceptedAt
    BY <1>1, <1>3, <1>a DEF Accept, Fails, Jobs
  <2>2. error \in Failures /\ error # NoFailure /\ ~JsonFailed(error)
    BY DEF Failure, Failures, Codes, NoFailure, JsonFailed
  <2> HIDE DEF attempts, resumed, again, error
  <2>3. /\ job' \in Jobs /\ job'.at = "trace" /\ job'.mode = job.mode /\ job'.rev = job.rev
        /\ job'.error = error
    BY <1>1, <1>2, <2>1, <2>2, Values, SmallNumbers DEF Jobs, Stages
  <2>4. JobFailing'
    BY <2>2, <2>3 DEF JobFailing, Failed
  <2>5. JobSound'
    BY <2>3, <2>4, JobTracing
  <2>6. QED
    BY <2>1, <2>3, <2>5, AgentWritesNothing DEF Inv, Typed
<1>4. CASE ~again
  <2>1. /\ job' = [job EXCEPT !.used = n, !.lastUsed = m, !.tries = 0,
                              !.row = NoRow, !.attempts = attempts, !.resumed = resumed,
                              !.patches = patches, !.at = next, !.candidate = candidate]
        /\ acceptedAt' = [acceptedAt EXCEPT ![job.rev][c] = accepted]
    BY <1>1, <1>4, <1>a DEF Accept, Fails, Jobs
  <2>2. accepted \in Acceptances /\ candidate \in 0..4
    BY <1>1 DEF Acceptances, Jobs, Candidates
  <2>3. /\ patches \in [Candidates -> Patches] /\ patches[c] = patch
        /\ \A d \in Candidates : d # c => patches[d] = job.patches[d]
    BY <1>1 DEF Jobs
  <2>4. Executable(patch) /\ Stands(c, patch, accepted, job.plan)
    BY DEF Passes, Executable, Stands, Weak
  <2>5. RowStands(c, row, accepted, job.plan)
    BY <2>4 DEF RowStands, PatchRow
  <2> HIDE DEF attempts, resumed, again, patches, accepted
  <2>6. job' \in Jobs
    BY <1>1, <1>2, <2>1, <2>2, <2>3, Values, SmallNumbers DEF Jobs, Stages
  <2>7. /\ job'.at = next /\ job'.mode = job.mode /\ job'.rev = job.rev /\ job'.plan = job.plan
        /\ job'.attempts = attempts /\ job'.resumed = resumed /\ job'.error = NoFailure
        /\ job'.candidate = candidate /\ job'.patches = patches /\ job'.row = NoRow
    BY <1>1, <2>1 DEF Jobs
  <2>8. PICK rev \in Revisions : rev = job.rev
    BY <1>1
  <2>9. /\ acceptedAt' \in [Revisions -> [Candidates -> Acceptances]]
        /\ acceptedAt'[rev] = [acceptedAt[rev] EXCEPT ![c] = accepted]
        /\ \A r \in Revisions : r # rev => acceptedAt'[r] = acceptedAt[r]
    BY <1>1, <2>1, <2>2, <2>8 DEF Inv, Typed
  <2>10. /\ acceptedAt'[rev][c] = accepted
         /\ \A d \in Candidates : d # c => acceptedAt'[rev][d] = Accepted[d]
    BY <1>1, <2>8, <2>9 DEF Inv, Typed, Accepted
  <2>11. Typed'
    BY <2>6, <2>9 DEF Inv, Typed
  <2>12. FilesSound'
    <3>1. disk[rev].made /\ disk[rev].failure = NoFailure /\ ~HasPreview(rev) /\ ~Frozen(rev)
      BY <2>8 DEF Inv, JobSound, JobDirectory, Proposing, Writing, Dir
    <3>2. RevisionSound(rev)'
      BY <3>1, UnfinishedSound DEF HasPreview, Frozen
    <3>3. QED
      BY <2>9, <3>2, RevisionWritten DEF Inv
  <2>13. RecordsSound'
    BY RecordsUnchanged DEF Inv
  <2>14. RowsStand(attempts, resumed, acceptedAt'[rev], job.plan)
    <3>1. ASSUME NEW d \in Candidates, d # c
          PROVE  /\ RowStands(d, attempts[d], acceptedAt'[rev][d], job.plan)
                 /\ RowStands(d, resumed[d], acceptedAt'[rev][d], job.plan)
      BY <1>1, <1>2, <2>10, <3>1 DEF RowsStand
    <3>2. /\ RowStands(c, attempts[c], accepted, job.plan)
          /\ RowStands(c, resumed[c], accepted, job.plan)
      BY <1>1, <1>2, <2>5, RejectedStands DEF RejectedFrom, Candidates
    <3>3. QED
      BY <1>1, <2>10, <3>1, <3>2 DEF RowsStand
  <2>15. \A d \in Candidates : d <= c =>
            Assembles(patches[d]) /\ Stands(d, patches[d], acceptedAt'[rev][d], job.plan)
    <3>1. ASSUME NEW d \in Candidates, d < c
          PROVE  Assembles(patches[d]) /\ Stands(d, patches[d], acceptedAt'[rev][d], job.plan)
      BY <1>1, <2>3, <2>10, <3>1 DEF Held, Candidates
    <3>2. Assembles(patches[c]) /\ Stands(c, patches[c], acceptedAt'[rev][c], job.plan)
      BY <2>3, <2>4, <2>10 DEF Executable
    <3>3. QED
      BY <1>1, <3>1, <3>2 DEF Candidates
  <2>16. JobDirectory' /\ JobMode'
    <3>1. JobDirectory /\ JobMode
      BY DEF Inv, JobSound
    <3>2. QED
      BY <2>7, <3>1 DEF JobDirectory, JobMode, Dir, HasPreview, Frozen, Proposing, Writing, Complete
  <2>17. CASE c = 4
    <3>1. \A d \in Candidates : Held(d, Accepted)'
      BY <2>7, <2>8, <2>15, <2>17 DEF Held, Accepted, Candidates
    <3>2. JobFailing'
      BY <2>7, <2>17, <3>1 DEF JobFailing, JsonFailed, NoFailure
    <3>3. QED
      BY <2>7, <2>11, <2>12, <2>13, <2>16, <2>17, <3>2
         DEF Inv, JobSound, JobFresh, JobRestored, JobPatching, JobComplete, JobSettled, Fresh,
             Complete, Validated
  <2>18. CASE c # 4
    <3>1. candidate # 0 /\ candidate = c + 1
      BY <1>1, <2>18 DEF Candidates
    <3>2. \A d \in Candidates : d >= candidate => d # c /\ d >= c
      BY <1>1, <3>1 DEF Candidates
    <3>3. \A d \in Candidates : d >= candidate => Rejected(attempts[d]) /\ Rejected(resumed[d])
      BY <1>1, <1>2, <3>2 DEF RejectedFrom
    <3>4. \A d \in Candidates : d < candidate => d <= c
      BY <1>1, <3>1 DEF Candidates
    <3>5. \A d \in Candidates : d < candidate => Held(d, Accepted)'
      BY <2>7, <2>8, <2>15, <3>4 DEF Held, Accepted
    <3>6. JobPatching'
      BY <2>7, <2>8, <2>14, <3>1, <3>3, <3>5, NoRowRejected DEF JobPatching, RejectedFrom, Accepted
    <3>7. QED
      BY <2>7, <2>11, <2>12, <2>13, <2>16, <2>18, <3>6
         DEF Inv, JobSound, JobFresh, JobRestored, JobFailing, JobComplete, JobSettled, Fresh,
             Complete, Validated
  <2>19. QED
    BY <2>17, <2>18
<1>5. QED
  BY <1>3, <1>4

LEMMA ReplyWithPatchKept ==
    ASSUME Inv, NEW patch \in AllReplies, ReplyWithPatch(patch)
    PROVE  Inv'
<1>1. job.at = "patch" /\ patch \in Patches
  BY DEF ReplyWithPatch, Patches
<1>2. CASE Passes(job.candidate, patch, job.tries)
  BY <1>1, <1>2, AcceptKept DEF ReplyWithPatch
<1>3. CASE ~Passes(job.candidate, patch, job.tries)
  <2> DEFINE code == IF NonExecutable(patch) THEN "patch_path_not_executable" ELSE "invalid"
  <2>1. Reject(code, RowAfter(patch)) /\ faults' \in 0..MaxFaults
    BY <1>3, CountedBounded DEF ReplyWithPatch
  <2>2. code \in Codes /\ code # "none"
    BY DEF Codes
  <2>3. RowAfter(patch) \in Rows
    BY <1>1, PatchingFacts, Values DEF RowAfter, Jobs
  <2>4. Rejected(RowAfter(patch))
    <3>1. job.tries # 0 => ~Executable(patch)
      BY <1>3 DEF Passes, Executable
    <3>2. job.tries # 0 => Rejected(PatchRow(patch))
      BY <3>1 DEF Rejected, PatchRow
    <3>3. QED
      BY <1>1, <3>2, PatchingFacts, NoRowRejected DEF RowAfter
  <2>5. QED
    BY <1>1, <1>3, <2>1, <2>2, <2>3, <2>4, RejectKept DEF ReplyWithPatch
<1>4. QED
  BY <1>2, <1>3

-----------------------------------------------------------------------------
(* The files of a revision *)

\* What is known of a call that writes, and of the directory it writes to.
LEMMA WritingFacts ==
    ASSUME Inv, job.at \in {"trace"} \cup Writing
    PROVE  /\ job \in Jobs /\ job.rev \in Revisions /\ Dir \in Directories
           /\ Dir.made /\ Dir.failure = NoFailure /\ ~HasPreview(job.rev)
           /\ job.at \in Writing =>
                 /\ Dir.traced /\ Dir.plan = job.plan
                 /\ Dir.attempts = job.attempts /\ Dir.resumed = job.resumed
           /\ job.at \notin {"diff", "save"} => Dir.frozen = NoPatches
           /\ job.at # "save" => ~Dir.diff
           /\ job.at \in Complete => Dir.snapshot
<1>1. job \in Jobs /\ job.rev \in Revisions /\ Dir \in Directories
  BY DEF Inv, Typed, Jobs, Dir
<1>2. JobDirectory
  BY DEF Inv, JobSound
<1>3. QED
  BY <1>1, <1>2 DEF JobDirectory, Proposing, Writing, Frozen, Dir

Becomes(rev, d) == disk' = [disk EXCEPT ![rev] = d]

\* A step that writes one directory, and moves the call on to its next stage.
LEMMA WriteStep ==
    ASSUME Inv, job.at \in {"trace"} \cup Writing, NEW rev, rev = job.rev,
           NEW d \in Directories, Becomes(rev, d),
           NEW next \in Stages, Write(next)
    PROVE  /\ Typed' /\ RecordsSound'
           /\ rev \in Revisions /\ disk'[rev] = d
           /\ RevisionSound(rev)' => FilesSound'
           /\ job' \in Jobs /\ job'.at = next /\ job'.mode = job.mode /\ job'.rev = job.rev
           /\ job'.attempts = job.attempts /\ job'.resumed = job.resumed /\ job'.plan = job.plan
           /\ job'.patches = job.patches /\ job'.error = job.error
           /\ UNCHANGED <<previews, acceptedAt>>
<1>1. job \in Jobs /\ rev \in Revisions
  BY WritingFacts
<1>2. /\ disk' \in [Revisions -> Directories] /\ disk'[rev] = d
      /\ \A r \in Revisions : r # rev => disk'[r] = disk[r]
  BY <1>1, DirectoryWritten DEF Inv, Becomes
<1>3. /\ job' \in Jobs /\ job'.at = next /\ job'.mode = job.mode /\ job'.rev = job.rev
      /\ job'.attempts = job.attempts /\ job'.resumed = job.resumed /\ job'.plan = job.plan
      /\ job'.patches = job.patches /\ job'.error = job.error
  BY <1>1 DEF Jobs, Write
<1>4. Typed'
  BY <1>2, <1>3 DEF Inv, Typed, Write
<1>5. RecordsSound'
  BY RecordsUnchanged DEF Inv, Write
<1>6. RevisionSound(rev)' => FilesSound'
  BY <1>1, <1>2, RevisionWritten DEF Inv, Write
<1>7. QED
  BY <1>1, <1>2, <1>3, <1>4, <1>5, <1>6 DEF Write

LEMMA WriteTraceKept == ASSUME Inv, WriteTrace PROVE Inv'
<1> DEFINE next == IF job.mode = "resume" THEN "snapshot" ELSE IF Failed THEN "failure" ELSE "check"
<1>1. job.at = "trace" /\ job.at \in {"trace"} \cup Writing
  BY DEF WriteTrace
<1>2. PICK rev : rev = job.rev
  OBVIOUS
<1>d. PICK d : d = [disk[rev] EXCEPT
                   !.traced = TRUE, !.plan = job.plan, !.attempts = job.attempts,
                   !.resumed = job.resumed,
                   !.parent = IF job.mode = "resume" THEN job.rev - 1 ELSE -1]
  OBVIOUS
<1>3. /\ job \in Jobs /\ disk[rev] \in Directories /\ disk[rev].made
      /\ disk[rev].failure = NoFailure /\ disk[rev].frozen = NoPatches /\ ~disk[rev].diff
      /\ ~HasPreview(rev) /\ rev \in Nat
  BY <1>1, <1>2, WritingFacts, Numbers DEF Dir
<1>4. d \in Directories
  <2>1. (IF job.mode = "resume" THEN job.rev - 1 ELSE -1) \in Int
    BY <1>2, <1>3
  <2>2. QED
    BY <1>3, <1>d, <2>1 DEF Directories, Jobs
<1>5. Becomes(rev, d)
  BY <1>2, <1>d DEF Becomes, WriteTrace
<1>6. /\ d.traced /\ d.plan = job.plan /\ d.attempts = job.attempts /\ d.resumed = job.resumed
      /\ d.made /\ d.failure = NoFailure /\ d.frozen = NoPatches /\ ~d.diff
      /\ d.snapshot = disk[rev].snapshot
  BY <1>3, <1>d DEF Directories
<1>7. /\ Typed' /\ RecordsSound' /\ rev \in Revisions /\ disk'[rev] = d
      /\ RevisionSound(rev)' => FilesSound'
      /\ job' \in Jobs /\ job'.at = next /\ job'.mode = job.mode /\ job'.rev = rev
      /\ job'.attempts = job.attempts /\ job'.resumed = job.resumed /\ job'.plan = job.plan
      /\ job'.patches = job.patches /\ job'.error = job.error
      /\ UNCHANGED <<previews, acceptedAt>>
  <2>1. Write(next)
    BY DEF WriteTrace
  <2>2. next \in Stages
    BY DEF Stages
  <2> HIDE DEF next
  <2>3. QED
    BY <1>1, <1>2, <1>4, <1>5, <2>1, <2>2, WriteStep
<1>8. FilesSound'
  BY <1>3, <1>6, <1>7, UnfinishedSound DEF HasPreview
<1>9. next \in {"snapshot", "failure", "check"} /\ (next = "check" => job.mode = "propose" /\ ~Failed)
  BY <1>1 DEF Inv, JobSound, JobMode
<1>10. job.mode = "propose" => d.snapshot
  BY <1>1, <1>2, <1>6 DEF Inv, JobSound, JobMode, Dir
<1>11. JobDirectory'
  BY <1>3, <1>6, <1>7, <1>9, <1>10 DEF JobDirectory, Dir, HasPreview, Frozen, Proposing, Writing,
         Complete
<1>12. Accepted' = Accepted
  BY <1>2, <1>7 DEF Accepted
<1>13. /\ JsonFailed(job.error) =>
              RowsStand(job.attempts, job.resumed, Accepted, job.plan) /\ RejectedFrom(job.error.candidate)
       /\ ~Failed => \A c \in Candidates : Held(c, Accepted)
  BY <1>1 DEF Inv, JobSound, JobFailing
<1>14. RejectedFrom(job.error.candidate) <=> RejectedFrom(job.error.candidate)'
  BY <1>7 DEF RejectedFrom
<1>15. \A c \in Candidates : Held(c, Accepted) <=> Held(c, Accepted)'
  BY <1>7, <1>12 DEF Held
<1>16. JobFailing'
  BY <1>7, <1>9, <1>12, <1>13, <1>14, <1>15 DEF JobFailing, Failed
<1>17. JobComplete'
  BY <1>7, <1>9, <1>13, <1>15 DEF JobComplete, Failed, Complete, Validated
<1>18. QED
  BY <1>7, <1>8, <1>9, <1>11, <1>16, <1>17
     DEF Inv, JobSound, JobFresh, JobRestored, JobMode, JobPatching, JobSettled, Fresh

LEMMA WriteSnapshotKept == ASSUME Inv, WriteSnapshot PROVE Inv'
<1> DEFINE next == IF Failed THEN "failure" ELSE "check"
<1>1. job.at = "snapshot" /\ job.at \in {"trace"} \cup Writing
  BY DEF WriteSnapshot, Writing
<1>2. PICK rev : rev = job.rev
  OBVIOUS
<1>d. PICK d : d = [disk[rev] EXCEPT !.snapshot = TRUE]
  OBVIOUS
<1>3. /\ job \in Jobs /\ disk[rev] \in Directories /\ disk[rev].made
      /\ disk[rev].failure = NoFailure /\ disk[rev].frozen = NoPatches /\ ~disk[rev].diff
      /\ ~HasPreview(rev) /\ disk[rev].traced /\ disk[rev].plan = job.plan
      /\ disk[rev].attempts = job.attempts /\ disk[rev].resumed = job.resumed
  BY <1>1, <1>2, WritingFacts DEF Dir, Writing
<1>4. d \in Directories
  BY <1>3, <1>d DEF Directories
<1>5. Becomes(rev, d)
  BY <1>2, <1>d DEF Becomes, WriteSnapshot
<1>6. /\ d.traced /\ d.plan = job.plan /\ d.attempts = job.attempts /\ d.resumed = job.resumed
      /\ d.made /\ d.failure = NoFailure /\ d.frozen = NoPatches /\ ~d.diff /\ d.snapshot
  BY <1>3, <1>d DEF Directories
<1>7. /\ Typed' /\ RecordsSound' /\ rev \in Revisions /\ disk'[rev] = d
      /\ RevisionSound(rev)' => FilesSound'
      /\ job' \in Jobs /\ job'.at = next /\ job'.mode = job.mode /\ job'.rev = rev
      /\ job'.attempts = job.attempts /\ job'.resumed = job.resumed /\ job'.plan = job.plan
      /\ job'.patches = job.patches /\ job'.error = job.error
      /\ UNCHANGED <<previews, acceptedAt>>
  <2>1. Write(next)
    BY DEF WriteSnapshot
  <2>2. next \in Stages
    BY DEF Stages
  <2> HIDE DEF next
  <2>3. QED
    BY <1>1, <1>2, <1>4, <1>5, <2>1, <2>2, WriteStep
<1>8. FilesSound'
  BY <1>3, <1>6, <1>7, UnfinishedSound DEF HasPreview
<1>9. JobDirectory'
  BY <1>3, <1>6, <1>7 DEF JobDirectory, Dir, HasPreview, Frozen, Proposing, Writing, Complete
<1>10. Accepted' = Accepted
  BY <1>2, <1>7 DEF Accepted
<1>11. /\ JsonFailed(job.error) =>
              RowsStand(job.attempts, job.resumed, Accepted, job.plan) /\ RejectedFrom(job.error.candidate)
       /\ ~Failed => \A c \in Candidates : Held(c, Accepted)
  BY <1>1 DEF Inv, JobSound, JobFailing
<1>12. RejectedFrom(job.error.candidate) <=> RejectedFrom(job.error.candidate)'
  BY <1>7 DEF RejectedFrom
<1>13. \A c \in Candidates : Held(c, Accepted) <=> Held(c, Accepted)'
  BY <1>7, <1>10 DEF Held
<1>14. JobFailing'
  BY <1>7, <1>10, <1>11, <1>12, <1>13 DEF JobFailing, Failed
<1>15. JobComplete'
  BY <1>7, <1>11, <1>13 DEF JobComplete, Failed, Complete, Validated
<1>16. QED
  BY <1>7, <1>8, <1>9, <1>14, <1>15
     DEF Inv, JobSound, JobFresh, JobRestored, JobMode, JobPatching, JobSettled, Fresh

LEMMA WriteFailureKept == ASSUME Inv, WriteFailure PROVE Inv'
<1>1. job.at = "failure" /\ job.at \in {"trace"} \cup Writing
  BY DEF WriteFailure, Writing
<1>2. PICK rev : rev = job.rev
  OBVIOUS
<1>d. PICK d : d = [disk[rev] EXCEPT !.failure = job.error]
  OBVIOUS
<1>3. /\ job \in Jobs /\ disk[rev] \in Directories /\ disk[rev].made
      /\ disk[rev].frozen = NoPatches /\ ~HasPreview(rev) /\ disk[rev].plan = job.plan
      /\ disk[rev].attempts = job.attempts /\ disk[rev].resumed = job.resumed
  BY <1>1, <1>2, WritingFacts DEF Dir, Writing
<1>4. d \in Directories
  BY <1>3, <1>d DEF Directories, Jobs
<1>5. Becomes(rev, d)
  BY <1>2, <1>d DEF Becomes, WriteFailure
<1>6. /\ d.plan = job.plan /\ d.attempts = job.attempts /\ d.resumed = job.resumed
      /\ d.made /\ d.failure = job.error /\ d.frozen = NoPatches
  BY <1>3, <1>d DEF Directories
<1>7. /\ Typed' /\ RecordsSound' /\ rev \in Revisions /\ disk'[rev] = d
      /\ RevisionSound(rev)' => FilesSound'
      /\ job'.at = "fail" /\ UNCHANGED <<previews, acceptedAt>>
  <2>1. Write("fail")
    BY DEF WriteFailure
  <2>2. "fail" \in Stages
    BY DEF Stages
  <2>3. QED
    BY <1>1, <1>2, <1>4, <1>5, <2>1, <2>2, WriteStep
<1>8. JsonFailed(job.error) =>
         /\ RowsStand(job.attempts, job.resumed, acceptedAt[rev], job.plan)
         /\ \A c \in Candidates : c >= job.error.candidate => Rejected(job.attempts[c])
  BY <1>1, <1>2 DEF Inv, JobSound, JobFailing, RejectedFrom, Accepted
<1>9. TraceSound(rev)'
  BY <1>6, <1>7, <1>8 DEF TraceSound
<1>10. RevisionSound(rev)'
  BY <1>3, <1>6, <1>7, <1>9 DEF RevisionSound, FrozenKept, SavedKept, Frozen, HasPreview
<1>11. QED
  BY <1>7, <1>10, NothingHeld DEF Inv

-----------------------------------------------------------------------------
(* The gates, and the frozen set *)

\* A complete set, from the gates to the saved preview.
LEMMA CompleteFacts ==
    ASSUME Inv, job.at \in Complete
    PROVE  /\ job.error = NoFailure
           /\ \A c \in Candidates : Held(c, Accepted)
           /\ job.at \in Validated => CandidateSetValid(job.patches)
BY DEF Inv, JobSound, JobComplete

\* A stage of a complete set asks for nothing but what concerns the set.
LEMMA CompleteSound ==
    ASSUME job'.at \in Complete, JobDirectory', JobComplete'
    PROVE  JobSound'
BY DEF JobSound, JobFresh, JobRestored, JobMode, JobPatching, JobFailing, JobSettled, Fresh,
       Complete

LEMMA CheckCandidatesKept == ASSUME Inv, CheckCandidates PROVE Inv'
<1>1. /\ job.at = "check" /\ job.at \in Complete /\ job.at \in {"trace"} \cup Writing
      /\ UNCHANGED <<disk, previews, ledger, charged, awaiting, acceptedAt, faults>>
  BY DEF CheckCandidates, Complete, Writing
<1>2. job \in Jobs
  BY DEF Inv, Typed
<1>3. faults' \in 0..MaxFaults
  BY <1>1 DEF Inv, Typed
<1>4. JobDirectory /\ JobComplete
  BY DEF Inv, JobSound
<1>5. CASE CandidateSetValid(job.patches) /\ Novel(job.patches) /\ job' = [job EXCEPT !.at = "quality"]
  <2>1. /\ job' \in Jobs /\ job'.at = "quality" /\ job'.mode = job.mode /\ job'.rev = job.rev
        /\ job'.attempts = job.attempts /\ job'.resumed = job.resumed /\ job'.plan = job.plan
        /\ job'.patches = job.patches /\ job'.error = job.error
    BY <1>2, <1>5 DEF Jobs, Stages
  <2>2. JobDirectory'
    BY <1>1, <1>4, <2>1 DEF JobDirectory, Dir, HasPreview, Frozen, Proposing, Writing, Complete
  <2>3. Accepted' = Accepted
    BY <1>1, <2>1 DEF Accepted
  <2>4. \A c \in Candidates : Held(c, Accepted)'
    BY <1>1, <2>1, <2>3, CompleteFacts DEF Held
  <2>5. JobComplete'
    BY <1>1, <1>5, <2>1, <2>4, CompleteFacts DEF JobComplete
  <2>6. JobSound'
    BY <2>1, <2>2, <2>5, CompleteSound DEF Complete
  <2>7. QED
    BY <1>1, <1>3, <2>1, <2>6, AgentWritesNothing DEF Inv
<1>6. ASSUME NEW code \in {"candidate_set_invalid", "novelty_duplicate_candidate"},
             NEW next \in {"failure", "fail"},
             job' = [job EXCEPT !.at = next, !.error = Failure(code, 0, "validation")]
      PROVE  Inv'
  <2>1. Failure(code, 0, "validation") \in Failures /\ ~JsonFailed(Failure(code, 0, "validation"))
    BY DEF Failure, Failures, Codes, JsonFailed
  <2>2. /\ job' \in Jobs /\ job'.at = next /\ job'.mode = job.mode /\ job'.rev = job.rev
        /\ job'.attempts = job.attempts /\ job'.resumed = job.resumed /\ job'.plan = job.plan
        /\ job'.error = Failure(code, 0, "validation")
    BY <1>2, <1>6, <2>1 DEF Jobs, Stages
  <2>3. JobSound'
    <3>1. CASE next = "fail"
      BY <2>2, <3>1, NothingHeld
    <3>2. CASE next = "failure"
      <4>1. JobDirectory'
        BY <1>1, <1>4, <2>2, <3>2
           DEF JobDirectory, Dir, HasPreview, Frozen, Proposing, Writing, Complete
      <4>2. JobFailing'
        BY <2>1, <2>2, <3>2 DEF JobFailing
      <4>3. QED
        BY <2>2, <3>2, <4>1, <4>2
           DEF JobSound, JobFresh, JobRestored, JobMode, JobPatching, JobComplete, JobSettled, Fresh,
               Complete, Validated
    <3>3. QED
      BY <3>1, <3>2
  <2>4. QED
    BY <1>1, <1>3, <2>2, <2>3, AgentWritesNothing DEF Inv
<1>7. QED
  BY <1>5, <1>6 DEF CheckCandidates

LEMMA WriteQualityKept == ASSUME Inv, WriteQuality PROVE Inv'
<1>1. job.at = "quality" /\ job.at \in {"trace"} \cup Writing /\ job.at \in Complete
  BY DEF WriteQuality, Writing, Complete
<1>2. CandidateSetValid(job.patches) /\ \A c \in Candidates : Held(c, Accepted)
  BY <1>1, CompleteFacts DEF Validated
<1>3. QualityPasses(job.patches)
  BY <1>2 DEF CandidateSetValid, QualityPasses
<1>4. PICK rev : rev = job.rev
  OBVIOUS
<1>5. PICK d : d = [disk[rev] EXCEPT !.quality = QualityReport(job.patches, job.plan)]
  OBVIOUS
<1>6. /\ job \in Jobs /\ disk[rev] \in Directories /\ disk[rev].made
      /\ disk[rev].failure = NoFailure /\ disk[rev].frozen = NoPatches /\ ~disk[rev].diff
      /\ ~HasPreview(rev) /\ disk[rev].traced /\ disk[rev].plan = job.plan /\ disk[rev].snapshot
      /\ disk[rev].attempts = job.attempts /\ disk[rev].resumed = job.resumed
  BY <1>1, <1>4, WritingFacts DEF Dir, Writing
<1>7. d \in Directories
  BY <1>5, <1>6, ReportTyped DEF Directories
<1>8. Becomes(rev, d) /\ Write("frozen") /\ "frozen" \in Stages
  BY <1>3, <1>4, <1>5 DEF WriteQuality, Becomes, Stages
<1>9. /\ d.traced /\ d.plan = job.plan /\ d.attempts = job.attempts /\ d.resumed = job.resumed
      /\ d.made /\ d.failure = NoFailure /\ d.frozen = NoPatches /\ ~d.diff /\ d.snapshot
      /\ d.quality = QualityReport(job.patches, job.plan)
  BY <1>5, <1>6 DEF Directories
<1>10. /\ Typed' /\ RecordsSound' /\ rev \in Revisions /\ disk'[rev] = d
       /\ RevisionSound(rev)' => FilesSound'
       /\ job'.at = "frozen" /\ job'.rev = rev
       /\ job'.attempts = job.attempts /\ job'.resumed = job.resumed /\ job'.plan = job.plan
       /\ job'.patches = job.patches /\ job'.error = job.error
       /\ UNCHANGED <<previews, acceptedAt>>
  BY <1>1, <1>4, <1>7, <1>8, WriteStep
<1>11. FilesSound'
  BY <1>6, <1>9, <1>10, UnfinishedSound DEF HasPreview
<1>12. JobDirectory'
  BY <1>6, <1>9, <1>10 DEF JobDirectory, Dir, HasPreview, Frozen, Proposing, Writing, Complete
<1>13. Accepted' = Accepted
  BY <1>4, <1>10 DEF Accepted
<1>14. \A c \in Candidates : Held(c, Accepted)'
  BY <1>2, <1>10, <1>13 DEF Held
<1>15. JobComplete'
  BY <1>1, <1>2, <1>9, <1>10, <1>14, CompleteFacts DEF JobComplete, Dir
<1>16. JobSound'
  BY <1>10, <1>12, <1>15, CompleteSound DEF Complete
<1>17. QED
  BY <1>10, <1>11, <1>16 DEF Inv

LEMMA WriteFrozenKept == ASSUME Inv, WriteFrozen PROVE Inv'
<1>1. job.at = "frozen" /\ job.at \in {"trace"} \cup Writing /\ job.at \in Complete
  BY DEF WriteFrozen, Writing, Complete
<1>2. CandidateSetValid(job.patches) /\ \A c \in Candidates : Held(c, Accepted)
  BY <1>1, CompleteFacts DEF Validated
<1>3. PICK rev : rev = job.rev
  OBVIOUS
<1>4. PICK d : d = [disk[rev] EXCEPT !.frozen = job.patches]
  OBVIOUS
<1>5. /\ job \in Jobs /\ disk[rev] \in Directories /\ disk[rev].made
      /\ disk[rev].failure = NoFailure /\ ~disk[rev].diff
      /\ ~HasPreview(rev) /\ disk[rev].traced /\ disk[rev].plan = job.plan /\ disk[rev].snapshot
      /\ disk[rev].attempts = job.attempts /\ disk[rev].resumed = job.resumed
  BY <1>1, <1>3, WritingFacts DEF Dir, Writing
<1>6. disk[rev].quality = QualityReport(job.patches, job.plan)
  BY <1>1, <1>3 DEF Inv, JobSound, JobComplete, Dir
<1>7. d \in Directories
  BY <1>4, <1>5 DEF Directories, Jobs
<1>8. Becomes(rev, d) /\ Write("diff") /\ "diff" \in Stages
  BY <1>3, <1>4 DEF WriteFrozen, Becomes, Stages
<1>9. /\ d.traced /\ d.plan = job.plan /\ d.attempts = job.attempts /\ d.resumed = job.resumed
      /\ d.made /\ d.failure = NoFailure /\ d.frozen = job.patches /\ ~d.diff /\ d.snapshot
      /\ d.quality = QualityReport(job.patches, job.plan)
  BY <1>4, <1>5, <1>6 DEF Directories
<1>10. /\ Typed' /\ RecordsSound' /\ rev \in Revisions /\ disk'[rev] = d
       /\ RevisionSound(rev)' => FilesSound'
       /\ job'.at = "diff" /\ job'.rev = rev
       /\ job'.attempts = job.attempts /\ job'.resumed = job.resumed /\ job'.plan = job.plan
       /\ job'.patches = job.patches /\ job'.error = job.error
       /\ UNCHANGED <<previews, acceptedAt>>
  BY <1>1, <1>3, <1>7, <1>8, WriteStep
<1>11. \A c \in Candidates :
          /\ Assembles(job.patches[c])
          /\ Stands(c, job.patches[c], acceptedAt[rev][c], job.plan)
  BY <1>2, <1>3 DEF Held, Accepted
<1>12. FrozenKept(rev)'
  BY <1>2, <1>9, <1>10, <1>11 DEF FrozenKept
<1>13. RevisionSound(rev)'
  BY <1>5, <1>9, <1>10, <1>12 DEF RevisionSound, TraceSound, SavedKept, HasPreview, JsonFailed,
         NoFailure
<1>14. JobDirectory'
  BY <1>5, <1>9, <1>10 DEF JobDirectory, Dir, HasPreview, Proposing, Writing, Complete
<1>15. Accepted' = Accepted
  BY <1>3, <1>10 DEF Accepted
<1>16. \A c \in Candidates : Held(c, Accepted)'
  BY <1>2, <1>10, <1>15 DEF Held
<1>17. JobComplete'
  BY <1>1, <1>2, <1>9, <1>10, <1>16, CompleteFacts DEF JobComplete, Dir
<1>18. JobSound'
  BY <1>10, <1>14, <1>17, CompleteSound DEF Complete
<1>19. QED
  BY <1>10, <1>13, <1>18 DEF Inv

LEMMA WriteDiffKept == ASSUME Inv, WriteDiff PROVE Inv'
<1>1. job.at = "diff" /\ job.at \in {"trace"} \cup Writing /\ job.at \in Complete
  BY DEF WriteDiff, Writing, Complete
<1>2. CandidateSetValid(job.patches) /\ \A c \in Candidates : Held(c, Accepted)
  BY <1>1, CompleteFacts DEF Validated
<1>3. PICK rev : rev = job.rev
  OBVIOUS
<1>4. PICK d : d = [disk[rev] EXCEPT !.diff = TRUE]
  OBVIOUS
<1>5. /\ job \in Jobs /\ rev \in Revisions /\ disk[rev] \in Directories /\ disk[rev].made
      /\ disk[rev].failure = NoFailure /\ ~HasPreview(rev) /\ disk[rev].traced
      /\ disk[rev].plan = job.plan /\ disk[rev].snapshot
      /\ disk[rev].attempts = job.attempts /\ disk[rev].resumed = job.resumed
  BY <1>1, <1>3, WritingFacts DEF Dir, Writing
<1>6. disk[rev].frozen = job.patches
  BY <1>1, <1>3 DEF Inv, JobSound, JobComplete, Dir
<1>7. d \in Directories
  BY <1>4, <1>5 DEF Directories
<1>8. Becomes(rev, d) /\ Write("save") /\ "save" \in Stages
  BY <1>3, <1>4 DEF WriteDiff, Becomes, Stages
<1>9. /\ d.traced /\ d.plan = job.plan /\ d.attempts = job.attempts /\ d.resumed = job.resumed
      /\ d.made /\ d.failure = NoFailure /\ d.frozen = disk[rev].frozen /\ d.diff /\ d.snapshot
      /\ d.quality = disk[rev].quality
  BY <1>4, <1>5 DEF Directories
<1>10. /\ Typed' /\ RecordsSound' /\ disk'[rev] = d
       /\ RevisionSound(rev)' => FilesSound'
       /\ job'.at = "save" /\ job'.rev = rev
       /\ job'.attempts = job.attempts /\ job'.resumed = job.resumed /\ job'.plan = job.plan
       /\ job'.patches = job.patches /\ job'.error = job.error
       /\ UNCHANGED <<previews, acceptedAt>>
  BY <1>1, <1>3, <1>7, <1>8, WriteStep
<1>11. FrozenKept(rev)'
  <2>1. FrozenKept(rev)
    BY <1>5 DEF Inv, FilesSound, RevisionSound
  <2>2. QED
    BY <1>5, <1>9, <1>10, <2>1 DEF FrozenKept, Frozen
<1>12. RevisionSound(rev)'
  BY <1>5, <1>9, <1>10, <1>11 DEF RevisionSound, TraceSound, SavedKept, HasPreview, JsonFailed,
         NoFailure
<1>13. JobDirectory'
  BY <1>5, <1>9, <1>10 DEF JobDirectory, Dir, HasPreview, Proposing, Writing, Complete
<1>14. Accepted' = Accepted
  BY <1>3, <1>10 DEF Accepted
<1>15. \A c \in Candidates : Held(c, Accepted)'
  BY <1>2, <1>10, <1>14 DEF Held
<1>16. JobComplete'
  BY <1>1, <1>2, <1>6, <1>9, <1>10, <1>15, CompleteFacts DEF JobComplete, Dir
<1>17. JobSound'
  BY <1>10, <1>13, <1>16, CompleteSound DEF Complete
<1>18. QED
  BY <1>10, <1>12, <1>17 DEF Inv

LEMMA SavePreviewKept == ASSUME Inv, SavePreview PROVE Inv'
<1>1. job.at = "save" /\ job.at \in {"trace"} \cup Writing /\ job.at \in Complete
  BY DEF SavePreview, Writing, Complete
<1>2. \A c \in Candidates : Assembles(job.patches[c])
  BY <1>1, CompleteFacts DEF Held
<1>3. job.patches # NoPatches
  <2>1. 1 \in Candidates /\ NoPatches[1] = NoPatch
    BY DEF Candidates, NoPatches
  <2>2. QED
    BY <1>2, <2>1, NoPatchIncomplete
<1>4. PICK rev \in Revisions : rev = job.rev
  BY <1>1, WritingFacts
<1>5. /\ job \in Jobs /\ disk[rev].made /\ disk[rev].failure = NoFailure
  BY <1>1, <1>4, WritingFacts DEF Dir
<1>6. disk[rev].frozen = job.patches /\ disk[rev].diff
  BY <1>1, <1>4 DEF Inv, JobSound, JobComplete, Dir
<1>7. /\ previews' = [previews EXCEPT ![rev] = job.patches]
      /\ job' = [job EXCEPT !.at = "complete"]
      /\ UNCHANGED <<disk, ledger, charged, awaiting, acceptedAt, faults>>
  BY <1>4 DEF SavePreview
<1>8. job' \in Jobs /\ job'.at = "complete" /\ job'.rev = rev
  BY <1>4, <1>5, <1>7 DEF Jobs, Stages
<1>9. /\ previews' \in [Revisions -> [Candidates -> Patches]]
      /\ previews'[rev] = job.patches
      /\ \A r \in Revisions : r # rev => previews'[r] = previews[r]
  BY <1>4, <1>5, <1>7 DEF Inv, Typed, Jobs
<1>10. Typed'
  BY <1>7, <1>8, <1>9 DEF Inv, Typed
<1>11. RevisionSound(rev)'
  <2>1. FrozenKept(rev)
    BY <1>4 DEF Inv, FilesSound, RevisionSound
  <2>2. FrozenKept(rev)'
    BY <1>7, <2>1 DEF FrozenKept, Frozen
  <2>3. QED
    BY <1>5, <1>6, <1>7, <1>9, <2>2 DEF RevisionSound, TraceSound, SavedKept, JsonFailed, NoFailure
<1>12. FilesSound'
  BY <1>4, <1>7, <1>9, <1>11, RevisionWritten DEF Inv
<1>13. \A r \in Revisions : HasPreview(r) \/ r = rev => HasPreview(r)'
  BY <1>3, <1>9 DEF HasPreview
<1>14. RecordsSound'
  <2>1. \A o \in OperationKeys : o[2] \in Revisions
    BY DEF OperationKeys
  <2>2. QED
    BY <1>7, <1>13, <2>1 DEF RecordsSound, Inv
<1>15. JobSettled'
  BY <1>4, <1>8, <1>13 DEF JobSettled
<1>16. QED
  BY <1>8, <1>10, <1>12, <1>14, <1>15
     DEF Inv, JobSound, JobFresh, JobRestored, JobMode, JobDirectory, JobPatching, JobFailing,
         JobComplete, Fresh, Proposing, Writing, Complete, Validated

-----------------------------------------------------------------------------
(* The invariant *)

LEMMA StutterKept == ASSUME Inv, UNCHANGED vars PROVE Inv'
<1>1. Typed'
  BY DEF vars, Inv, Typed
<1>2. FilesSound' /\ RecordsSound'
  BY FilesUnchanged, RecordsUnchanged DEF vars, Inv
<1>3. JobSound'
  BY DEF vars, Inv, JobSound, JobFresh, JobRestored, JobMode, JobDirectory, JobPatching, JobFailing,
         JobComplete, JobSettled, Held, RejectedFrom, Accepted, Dir, Frozen, HasPreview, Failed
<1>4. QED
  BY <1>1, <1>2, <1>3 DEF Inv

LEMMA NextInv == ASSUME Inv, [Next]_vars PROVE Inv'
<1>1. CASE \E regenerate \in BOOLEAN : AskPreview(regenerate)
  BY <1>1, AskPreviewKept
<1>2. CASE \E source \in Revisions, candidate \in Candidates : AskResume(source, candidate)
  BY <1>2, AskResumeKept
<1>3. CASE \E source \in Revisions, candidate \in Repaired : AskRepair(source, candidate)
  BY <1>3, AskRepairKept, PreviewAssumption
<1>4. CASE JobStep
  <2>1. CASE ReadSource \/ MakeRevision \/ FreezeKnowledge
    BY <2>1, ReadSourceKept, MakeRevisionKept, FreezeKnowledgeKept
  <2>2. CASE \/ PlanIntents
             \/ \E code \in {"proposal_json_invalid", "intent_invalid"} : PlanFails(code)
    BY <2>2, PlanIntentsKept, PlanFailsKept
  <2>3. CASE \/ \E patch \in AllReplies : ReplyWithPatch(patch)
             \/ \E code \in {"proposal_json_invalid", "invalid_patch_response_shape"} :
                    ReplyWithoutPatch(code)
             \/ ClientFails
    BY <2>3, ReplyWithPatchKept, ReplyWithoutPatchKept, ClientFailsKept
  <2>4. CASE WriteTrace \/ WriteSnapshot \/ WriteFailure \/ CheckCandidates
    BY <2>4, WriteTraceKept, WriteSnapshotKept, WriteFailureKept, CheckCandidatesKept
  <2>5. CASE WriteQuality \/ WriteFrozen \/ WriteDiff
    BY <2>5, WriteQualityKept, WriteFrozenKept, WriteDiffKept
  <2>6. CASE SavePreview \/ CompleteOperation \/ ChargeCompleted \/ FailOperation
    BY <2>6, SavePreviewKept, CompleteOperationKept, ChargeCompletedKept, FailOperationKept
  <2>7. QED
    BY <1>4, <2>1, <2>2, <2>3, <2>4, <2>5, <2>6 DEF JobStep
<1>5. CASE Crash
  BY <1>5, CrashKept
<1>6. CASE UNCHANGED vars
  BY <1>6, StutterKept
<1>7. QED
  BY <1>1, <1>2, <1>3, <1>4, <1>5, <1>6 DEF Next

\* The inductive invariant of the previews holds: every patch that stands in a
\* trace, in a call under way or in a frozen set is the one accepted last or one
\* that cannot be executed, whatever the model replies and wherever a process
\* dies (CandidateProposalAgent, ProductionPreviewBuilder).
THEOREM SpecImpliesInv == Spec => []Inv
<1>1. Init => Inv
  BY InitInv
<1>2. Inv /\ [Next]_vars => Inv'
  BY NextInv
<1>3. QED
  BY <1>1, <1>2, PTL DEF Spec

\* The directories, the ledger and the call keep their shape (TypeOK): no row,
\* patch or count leaves its type, and no candidate is repaired more than three
\* times (_generate_candidate).
THEOREM SpecImpliesTypeOK == Spec => []TypeOK
<1>1. Inv => TypeOK
  <2> SUFFICES ASSUME Inv PROVE TypeOK
    OBVIOUS
  <2>1. \A r \in Revisions : disk[r] \in Directories
    BY DEF Inv, Typed
  <2>2. \A r \in Revisions : DOMAIN disk[r] = DOMAIN Empty
    BY <2>1, EmptyTyped DEF Directories
  <2>3. \A r \in Revisions : \A c \in Candidates :
           /\ disk[r].attempts[c] \in Rows /\ disk[r].resumed[c] \in Rows
           /\ disk[r].frozen[c] \in Patches
    BY <2>1 DEF Directories
  <2>4. \A r \in Revisions : \A c \in Candidates :
           previews[r][c] \in Patches /\ acceptedAt[r][c].repairs \in 0..MaxRepairs
    BY DEF Inv, Typed, Acceptances
  <2>5. DOMAIN job = DOMAIN Idle /\ job.tries \in 0..MaxRepairs
    BY IdleTyped DEF Inv, Typed, Jobs
  <2>6. QED
    BY <2>2, <2>3, <2>4, <2>5 DEF Inv, Typed, TypeOK
<1>2. QED
  BY <1>1, SpecImpliesInv, PTL

-----------------------------------------------------------------------------
(* The frozen set *)

LEMMA FrozenExecutable ==
    ASSUME Inv, NEW r \in Revisions, Frozen(r), NEW c \in Candidates
    PROVE  /\ Assembles(disk[r].frozen[c]) /\ StrategyValid(Apply(disk[r].frozen[c]))
           /\ Stands(c, disk[r].frozen[c], acceptedAt[r][c], disk[r].plan)
           /\ Distinct(disk[r].frozen)
           /\ disk[r].quality = QualityReport(disk[r].frozen, disk[r].plan)
BY DEF Inv, FilesSound, RevisionSound, FrozenKept, CandidateSetValid

LEMMA ReportedAdherence ==
    ASSUME NEW patches, NEW plan, NEW c \in Candidates, NEW report,
           report = QualityReport(patches, plan)
    PROVE  report.adherence[c] =
               Adherence(RoleViolations(c, plan[c], LeafDiff(Apply(patches[c]))))
BY DEF QualityReport

LEMMA InvFrozenSound == ASSUME Inv PROVE FrozenSound
<1> SUFFICES ASSUME NEW r \in Revisions, Frozen(r)
             PROVE  /\ Cardinality({Apply(disk[r].frozen[c]) : c \in Candidates}) = 4
                    /\ \A c \in Candidates :
                          LET strategy == Apply(disk[r].frozen[c])
                              changed == LeafDiff(strategy)
                          IN  /\ Cardinality(changed) \in 1..10
                              /\ changed \subseteq Catalog
                              /\ \A leaf \in changed : ValueAllowed(leaf, strategy[leaf])
                              /\ StrategyValid(strategy)
  BY DEF FrozenSound
<1>1. PICK patches : patches = disk[r].frozen
  OBVIOUS
<1>2. Cardinality({Apply(patches[c]) : c \in Candidates}) = 4
  <2>1. Distinct(patches)
    BY <1>1, FrozenExecutable DEF Candidates
  <2>2. QED
    BY <2>1, FourDistinct
<1>3. ASSUME NEW c \in Candidates
      PROVE  LET strategy == Apply(patches[c])
                 changed == LeafDiff(strategy)
             IN  /\ Cardinality(changed) \in 1..10
                 /\ changed \subseteq Catalog
                 /\ \A leaf \in changed : ValueAllowed(leaf, strategy[leaf])
                 /\ StrategyValid(strategy)
  <2>1. PICK patch : patch = patches[c]
    OBVIOUS
  <2>2. Assembles(patch) /\ StrategyValid(Apply(patch))
    BY <1>1, <2>1, FrozenExecutable
  <2>3. LeafDiff(Apply(patch)) = DOMAIN patch
    BY <2>2, ChangedLeaves
  <2>4. Cardinality(DOMAIN patch) \in 1..10 /\ DOMAIN patch \subseteq Catalog
    BY <2>2 DEF Assembles, Offered, CountInBounds, MinPatchLeaves, MaxPatchLeaves
  <2>5. \A leaf \in DOMAIN patch : Apply(patch)[leaf] = patch[leaf]
    BY <2>4, PathsAssumption DEF Apply, Catalog
  <2>6. \A leaf \in DOMAIN patch : ValueAllowed(leaf, Apply(patch)[leaf])
    BY <2>2, <2>5 DEF Assembles
  <2>7. QED
    BY <2>1, <2>2, <2>3, <2>4, <2>6
<1>4. QED
  BY <1>1, <1>2, <1>3

LEMMA InvFrozenAsAccepted == ASSUME Inv PROVE FrozenAsAccepted
BY FrozenExecutable DEF FrozenAsAccepted, Stands, Executable

LEMMA InvWeakRepaired == ASSUME Inv PROVE WeakCandidatesWereRepaired
<1> SUFFICES ASSUME NEW r \in Revisions, Frozen(r), NEW c \in Candidates,
                    disk[r].quality.adherence[c] = "weak"
             PROVE  acceptedAt[r][c].repairs > 0
  BY DEF WeakCandidatesWereRepaired
<1>1. PICK patch : patch = disk[r].frozen[c]
  OBVIOUS
<1>2. Assembles(patch) /\ Stands(c, patch, acceptedAt[r][c], disk[r].plan) /\ Executable(patch)
  BY <1>1, FrozenExecutable DEF Executable
<1>3. LeafDiff(Apply(patch)) = DOMAIN patch /\ DOMAIN patch \subseteq Catalog
  BY <1>2, ChangedLeaves DEF Assembles, Offered
<1>4. Adherence(RoleViolations(c, disk[r].plan[c], DOMAIN patch)) = "weak"
  <2>1. disk[r].quality = QualityReport(disk[r].frozen, disk[r].plan)
    BY FrozenExecutable
  <2>2. disk[r].quality.adherence[c] =
            Adherence(RoleViolations(c, disk[r].plan[c], LeafDiff(Apply(disk[r].frozen[c]))))
    BY <2>1, ReportedAdherence
  <2>3. QED
    BY <1>1, <1>3, <2>2
<1>5. Adherence(RoleWarnings(c, disk[r].plan[c], DOMAIN patch)) = "weak"
  BY <1>3, <1>4, JudgesAgree
<1>6. acceptedAt[r][c].repairs # 0
  BY <1>2, <1>5 DEF Stands
<1>7. acceptedAt[r][c].repairs \in 0..MaxRepairs
  BY DEF Inv, Typed, Acceptances
<1>8. QED
  BY <1>6, <1>7 DEF MaxRepairs

LEMMA InvPreviewBacked == ASSUME Inv PROVE PreviewBacked
<1>1. ASSUME NEW r \in Revisions, HasPreview(r)
      PROVE  /\ disk[r].frozen = previews[r]
             /\ disk[r].diff /\ disk[r].snapshot /\ disk[r].traced
             /\ disk[r].quality # NoReport
             /\ disk[r].failure = NoFailure
  <2>1. disk[r].frozen = previews[r] /\ disk[r].diff /\ Frozen(r)
    BY <1>1 DEF Inv, FilesSound, RevisionSound, SavedKept, HasPreview, Frozen
  <2>2. disk[r].snapshot /\ disk[r].traced /\ disk[r].failure = NoFailure
    BY <2>1 DEF Inv, FilesSound, RevisionSound, FrozenKept
  <2>3. 1 \in Candidates
    BY DEF Candidates
  <2>4. disk[r].quality.adherence[1] # "none"
    <3>1. disk[r].quality = QualityReport(disk[r].frozen, disk[r].plan)
      BY <2>1, <2>3, FrozenExecutable
    <3>2. disk[r].quality.adherence[1] =
              Adherence(RoleViolations(1, disk[r].plan[1], LeafDiff(Apply(disk[r].frozen[1]))))
      BY <2>3, <3>1, ReportedAdherence
    <3>3. QED
      BY <3>2, AdherenceJudged
  <2>5. disk[r].quality # NoReport
    BY <2>3, <2>4 DEF NoReport
  <2>6. QED
    BY <2>1, <2>2, <2>5
<1>2. QED
  BY <1>1 DEF PreviewBacked, Inv, RecordsSound

\* A frozen set is four different executable strategies, each exactly what the
\* agent accepted last for its candidate and weak only after a repair; and every
\* saved preview, completed operation and approval rests on complete files,
\* wherever a call died (resume_preview_from_candidate, SavePreview, the gates).
THEOREM SpecImpliesFrozenSetSound == Spec => []FrozenSetSound
<1>1. Inv => FrozenSetSound
  BY InvFrozenSound, InvFrozenAsAccepted, InvWeakRepaired, InvPreviewBacked DEF FrozenSetSound
<1>2. QED
  BY <1>1, SpecImpliesInv, PTL

-----------------------------------------------------------------------------
(* Finished revisions *)

Finished(r) == disk[r].failure # NoFailure \/ HasPreview(r)

Kept(r) == disk'[r] = disk[r] /\ previews'[r] = previews[r]

\* No step of a builder that writes has a finished revision before it.
LEMMA WritesUnfinished ==
    ASSUME Inv, NEW r \in Revisions, Finished(r)
    PROVE  job.at \in Proposing \cup Writing => r # job.rev
BY DEF Inv, JobSound, JobDirectory, Finished, Dir

LEMMA FinishedMade ==
    ASSUME Inv, NEW r \in Revisions, Finished(r)
    PROVE  disk[r].made
<1>1. CASE disk[r].made
  BY <1>1
<1>2. CASE ~disk[r].made
  <2>1. disk[r] = Empty
    BY <1>2 DEF Inv, FilesSound, RevisionSound
  <2>2. ~Frozen(r) /\ disk[r].failure = NoFailure
    BY <2>1 DEF Frozen, Empty
  <2>3. HasPreview(r) => Frozen(r)
    BY DEF Inv, FilesSound, RevisionSound, SavedKept, HasPreview, Frozen
  <2>4. QED
    BY <2>2, <2>3 DEF Finished
<1>3. QED
  BY <1>1, <1>2

LEMMA StepKeepsFinished ==
    ASSUME Inv, Next, NEW r \in Revisions, Finished(r)
    PROVE  Kept(r)
<1>1. job.rev \in Revisions /\ disk \in [Revisions -> Directories]
      /\ previews \in [Revisions -> [Candidates -> Patches]]
  BY DEF Inv, Typed, Jobs
<1>2. CASE \/ \E regenerate \in BOOLEAN : AskPreview(regenerate)
           \/ \E source \in Revisions, candidate \in Candidates : AskResume(source, candidate)
           \/ \E source \in Revisions, candidate \in Repaired : AskRepair(source, candidate)
  BY <1>2 DEF AskPreview, AskResume, AskRepair, Start, Kept
<1>3. CASE JobStep
  <2>1. CASE ReadSource
    BY <2>1 DEF ReadSource, Kept
  <2>2. CASE MakeRevision
    <3>1. CASE disk[job.rev].made
      BY <2>2, <3>1 DEF MakeRevision, Kept
    <3>2. CASE ~disk[job.rev].made
      <4>1. r # job.rev
        BY <3>2, FinishedMade
      <4>2. disk' = [disk EXCEPT ![job.rev].made = TRUE] /\ previews' = previews
        BY <2>2, <3>2 DEF MakeRevision
      <4>3. QED
        BY <1>1, <4>1, <4>2 DEF Kept
    <3>3. QED
      BY <3>1, <3>2
  <2>3. CASE FreezeKnowledge
    BY <1>1, <2>3, WritesUnfinished DEF FreezeKnowledge, Kept, Proposing, Writing
  <2>4. CASE \/ PlanIntents
             \/ \E code \in {"proposal_json_invalid", "intent_invalid"} : PlanFails(code)
             \/ \E patch \in AllReplies : ReplyWithPatch(patch)
             \/ \E code \in {"proposal_json_invalid", "invalid_patch_response_shape"} :
                    ReplyWithoutPatch(code)
             \/ ClientFails
    BY <2>4 DEF PlanIntents, PlanFails, ReplyWithPatch, ReplyWithoutPatch, ClientFails, Kept
  <2>5. CASE WriteTrace
    BY <1>1, <2>5, WritesUnfinished DEF WriteTrace, Write, Kept, Proposing, Writing
  <2>6. CASE WriteSnapshot
    BY <1>1, <2>6, WritesUnfinished DEF WriteSnapshot, Write, Kept, Proposing, Writing
  <2>7. CASE WriteFailure
    BY <1>1, <2>7, WritesUnfinished DEF WriteFailure, Write, Kept, Proposing, Writing
  <2>8. CASE WriteQuality
    BY <1>1, <2>8, WritesUnfinished DEF WriteQuality, Write, Kept, Proposing, Writing
  <2>9. CASE WriteFrozen
    BY <1>1, <2>9, WritesUnfinished DEF WriteFrozen, Write, Kept, Proposing, Writing
  <2>10. CASE WriteDiff
    BY <1>1, <2>10, WritesUnfinished DEF WriteDiff, Write, Kept, Proposing, Writing
  <2>11. CASE SavePreview
    BY <1>1, <2>11, WritesUnfinished DEF SavePreview, Kept, Proposing, Writing
  <2>12. CASE CheckCandidates
    BY <2>12 DEF CheckCandidates, Kept
  <2>13. CASE CompleteOperation \/ ChargeCompleted \/ FailOperation
    BY <2>13 DEF CompleteOperation, ChargeCompleted, FailOperation, Kept
  <2>14. QED
    BY <1>3, <2>1, <2>2, <2>3, <2>4, <2>5, <2>6, <2>7, <2>8, <2>9, <2>10, <2>11, <2>12, <2>13
       DEF JobStep
<1>4. CASE Crash
  BY <1>4 DEF Crash, Kept
<1>5. QED
  BY <1>2, <1>3, <1>4 DEF Next

\* Once a revision has its failure report or its saved preview, no call of any
\* kind, finished or cut short, changes a file of it or its preview
\* (preview directories are made exclusively).
THEOREM SpecImpliesRevisionsImmutable == Spec => RevisionsImmutable
<1>1. Inv /\ [Next]_vars =>
        [\A r \in Revisions :
            disk[r].failure # NoFailure \/ HasPreview(r) =>
                disk'[r] = disk[r] /\ previews'[r] = previews[r]]_vars
  BY StepKeepsFinished DEF Finished, Kept
<1>2. QED
  BY <1>1, SpecImpliesInv, PTL DEF Spec, RevisionsImmutable
=============================================================================
