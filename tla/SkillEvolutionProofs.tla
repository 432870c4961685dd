------------------------- MODULE SkillEvolutionProofs -------------------------
(***************************************************************************)
(* What Phase 8 and the review commands promise each other, for any number  *)
(* of runs, versions, experiences and commands, with deaths between any two *)
(* writes.                                                                  *)
(*                                                                          *)
(* Three facts carry the proof.  A draft in the pending area never changes  *)
(* and only a rejection takes it away, hence what a command has checked is   *)
(* what it copies although Phase 8 may write the package meanwhile.  An      *)
(* archived version never changes, hence what it was extended from, approved *)
(* for and answered with stays true.  A saved answer of the author never     *)
(* changes, hence a run that starts again writes the draft it wrote before.  *)
(***************************************************************************)
EXTENDS SkillEvolution, FiniteSetTheorems, SequenceTheorems, TLAPS

-----------------------------------------------------------------------------
(* Types, with the domains of all functions *)

Evidence == UNION {[slots -> SUBSET Experiences] : slots \in SUBSET Slot}
DraftSet == [records : SUBSET Experiences, clean : BOOLEAN, slots : Evidence]
Packages == [draft : DraftSet, meta : Stamps, rest : BOOLEAN, report : Stamps]
Area == [Versions -> Packages \cup {None}]

Errors == {"none", "input_conflict", "active_unloadable", "author_failed",
           "checkpoint_conflict", "slot_unknown", "slot_conflict", "pending_conflict",
           "package_gone", "file_missing"}

Memory == [pc : {"idle", "author", "assemble", "metadata", "rest", "validate", "seal",
                 "sealreport", "record", "ended"},
           records : SUBSET Experiences, evidence : Evidence, active : 0..MaxVersion,
           content : Content, version : 0..MaxVersion, error : Errors]

Commands == [op : {"none", "approve", "reject"},
             pc : {"none", "check", "copy", "place", "record", "point", "log"},
             version : 0..MaxVersion, sum : DraftSet \cup {None}, copy : Packages \cup {None}]

Decisions == [type : {"approve", "reject"}, version : Versions, sum : DraftSet]

StoreTypes ==
    /\ pending \in Area /\ curated \in Area /\ rejected \in Area
    /\ DOMAIN approvals = Versions /\ DOMAIN rejections = Versions
    /\ current \in [version : Versions, sum : DraftSet] \cup {None}

RunTypes ==
    /\ manifest \in [Runs -> (SUBSET Experiences) \cup {None}]
    /\ checkpoint \in [Runs -> Response \cup {None}]
    /\ result \in [Runs -> Statuses \cup {None}]
    /\ run \in [Runs -> Memory]

SkillTypes ==
    /\ excluded \subseteq Experiences
    /\ StoreTypes /\ RunTypes
    /\ command \in Commands
    /\ answered \subseteq Decisions
    /\ starts \in 0..MaxStarts /\ commands \in 0..MaxCommands

-----------------------------------------------------------------------------
(* The inductive invariant *)

\* The version a draft revises is archived, and its rules are in the draft.
Archived(version) == version # 0 => curated[version] # None

Extends(draft, version) ==
    LET old == Inherited(version - 1) IN
    /\ Archived(version - 1)
    /\ \A slot \in DOMAIN old : slot \in DOMAIN draft.slots /\ draft.slots[slot] = old[slot]

DraftsExtend ==
    \A v \in Versions :
        /\ pending[v] # None => Extends(pending[v].draft, v)
        /\ curated[v] # None => Extends(curated[v].draft, v)

\* How far the command of the reviewer has come.
ApprovalUnderWay ==
    LET v == command.version
        sum == command.sum
    IN  command.op = "approve" =>
            /\ command.pc \in {"copy", "place", "record", "point", "log"} => Passed(sum)
            /\ At("approve", "copy") => pending[v] # None /\ pending[v].draft = sum
            /\ At("approve", "place") =>
                  /\ command.copy # None /\ command.copy.draft = sum
                  /\ Extends(command.copy.draft, v)
                  /\ curated[v] = None
            /\ command.pc \in {"record", "point", "log"} =>
                  curated[v] # None /\ curated[v].draft = sum
            /\ command.pc \in {"point", "log"} => approvals[v] = sum

RejectionUnderWay ==
    LET v == command.version
        sum == command.sum
    IN  command.op = "reject" =>
            /\ command.pc \in {"record", "log"} => rejected[v] # None /\ rejected[v].draft = sum
            /\ At("reject", "log") => rejections[v] = sum

CommandUnderWay ==
    /\ command.pc # "none" => /\ command.op \in {"approve", "reject"}
                              /\ command.version \in Versions /\ command.sum \in DraftSet
    /\ ApprovalUnderWay /\ RejectionUnderWay

OneRun == \A r, s \in Runs : Working(r) /\ Working(s) => r = s

Writing == {"metadata", "rest", "validate", "seal", "sealreport", "record"}

\* What run r remembers agrees with what it has saved, and the package it writes, if it
\* is still there, with both.
SavedAnswer(r) ==
    checkpoint[r] # None =>
        /\ checkpoint[r].active + 1 \in Versions
        /\ Archived(checkpoint[r].active)
        /\ DOMAIN Inherited(checkpoint[r].active) \subseteq checkpoint[r].content.slots

RunUnderWay(r) ==
    LET me == run[r] IN
    /\ Working(r) => me.active + 1 \in Versions /\ Archived(me.active)
    /\ me.pc \in {"assemble"} \cup Writing =>
          checkpoint[r] = [records |-> me.records, active |-> me.active, content |-> me.content]
    /\ me.pc = "assemble" =>
          me.content.slots \subseteq DOMAIN Inherited(me.active) \cup DOMAIN me.evidence
    /\ me.pc \in Writing =>
          /\ me.version = me.active + 1
          /\ pending[me.version] # None =>
                /\ pending[me.version].draft.records = me.records
                /\ DOMAIN pending[me.version].draft.slots = me.content.slots

Reported(r) == result[r] \in {"pending_review", "pending_regression_failed"}

HoldsReport(area, r) ==
    LET package == area[checkpoint[r].active + 1] IN
    /\ package # None
    /\ package.draft.records = checkpoint[r].records
    /\ DOMAIN package.draft.slots = checkpoint[r].content.slots

ReportKept(r) ==
    Reported(r) =>
        /\ checkpoint[r] # None
        /\ HoldsReport(pending, r) \/ HoldsReport(curated, r) \/ HoldsReport(rejected, r)

RunsUnderWay ==
    /\ OneRun
    /\ \A r \in Runs : SavedAnswer(r) /\ RunUnderWay(r) /\ ReportKept(r)

Core ==
    /\ DraftsExtend /\ CommandUnderWay /\ RunsUnderWay
    /\ ApprovedDraftActive /\ AnswersDurable

SkillInv == SkillTypes /\ Core


-----------------------------------------------------------------------------
(* Lemmas about the operators of the model *)

LEMMA VersionFacts ==
    /\ MaxVersion \in Nat
    /\ \A v \in Versions : v \in 0..MaxVersion /\ v - 1 \in 0..MaxVersion /\ v # 0
    /\ \A n \in 0..MaxVersion : n # 0 => n \in Versions
    /\ \A n \in 0..MaxVersion : n < MaxVersion => n + 1 \in Versions
    /\ \A n \in Int : n + 1 \in Versions => n \in 0..MaxVersion /\ (n + 1) - 1 = n
BY SkillAssumption DEF Versions

LEMMA EmptyTyped ==
    /\ << >> \in Evidence /\ DOMAIN << >> = {}
    /\ NoContent \in Content
    /\ Idle \in Memory /\ NoCommand \in Commands
<1>1. << >> \in Evidence /\ DOMAIN << >> = {}
  <2>1. << >> \in Seq(SUBSET Experiences) /\ Len(<< >>) = 0
    BY EmptySeq
  <2>2. << >> \in [1..0 -> SUBSET Experiences]
    BY <2>1, LenProperties
  <2>3. 1..0 = {}
    OBVIOUS
  <2>4. << >> \in [{} -> SUBSET Experiences]
    BY <2>2, <2>3
  <2>5. QED
    BY <2>4 DEF Evidence
<1>2. NoContent \in Content
  BY DEF NoContent, Content
<1>3. 0 \in 0..MaxVersion
  BY SkillAssumption
<1>4. Idle \in Memory
  <2>1. \A ev \in Evidence, content \in Content, zero \in 0..MaxVersion :
           [pc |-> "idle", records |-> {}, evidence |-> ev, active |-> zero,
            content |-> content, version |-> zero, error |-> "none"] \in Memory
    BY DEF Memory, Errors
  <2>2. QED
    BY <1>1, <1>2, <1>3, <2>1 DEF Idle
<1>5. NoCommand \in Commands
  BY <1>3 DEF NoCommand, Commands
<1>6. QED
  BY <1>1, <1>2, <1>4, <1>5

\* A set of optimizations is no larger than the set of experiences they come from.
LEMMA OptimizationsFinite ==
    ASSUME NEW records \in SUBSET Experiences, NEW key
    PROVE  /\ IsFiniteSet(Optimizations(records, key))
           /\ Cardinality(Optimizations(records, key)) <= Cardinality(Experiences)
           /\ Cardinality(Experiences) \in Nat
<1> DEFINE rows == {e \in Aggregated(records) : Record[e].key = key}
           opts == Optimizations(records, key)
           f == [e \in rows |-> Record[e].opt]
<1>1. rows \in SUBSET Experiences
  BY DEF Aggregated
<1>2. IsFiniteSet(rows) /\ Cardinality(rows) <= Cardinality(Experiences)
  BY <1>1, SkillAssumption, FS_Subset
<1>3. f \in Surjection(rows, opts)
  BY DEF Surjection, Optimizations
<1>4. IsFiniteSet(opts) /\ Cardinality(opts) <= Cardinality(rows)
  BY <1>2, <1>3, FS_Surjection
<1>5. Cardinality(rows) \in Nat /\ Cardinality(opts) \in Nat /\ Cardinality(Experiences) \in Nat
  BY <1>2, <1>4, SkillAssumption, FS_CardinalityType
<1>6. QED
  BY <1>2, <1>4, <1>5

LEMMA RankTyped ==
    ASSUME NEW records \in SUBSET Experiences, NEW key, NEW stance,
           NEW opt \in WithStance(records, key, stance)
    PROVE  /\ Rank(records, key, stance, opt) \in 1..Cardinality(Experiences)
           /\ Rank(records, key, stance, opt) <= Cardinality(Optimizations(Experiences, key))
<1> DEFINE below == {o \in WithStance(records, key, stance) : o <= opt}
           opts == Optimizations(Experiences, key)
<1>1. below \in SUBSET opts
  BY DEF WithStance, Optimizations, Aggregated
<1>2. Experiences \in SUBSET Experiences
  OBVIOUS
<1>3. /\ IsFiniteSet(opts) /\ Cardinality(opts) <= Cardinality(Experiences)
      /\ Cardinality(Experiences) \in Nat
  BY <1>2, OptimizationsFinite
<1>4. IsFiniteSet(below) /\ Cardinality(below) <= Cardinality(opts)
  BY <1>1, <1>3, FS_Subset
<1>5. opt \in below
  <2>1. opt \in Int
    BY SkillAssumption DEF WithStance, Optimizations, Aggregated
  <2>2. QED
    BY <2>1
<1>6. Cardinality(below) # 0
  BY <1>4, <1>5, FS_EmptySet
<1>7. Cardinality(below) \in Nat /\ Cardinality(opts) \in Nat
  BY <1>3, <1>4, FS_CardinalityType
<1>8. QED
  BY <1>3, <1>4, <1>6, <1>7 DEF Rank

\* What aggregation hands to the author: slots with the experiences behind them.
LEMMA SlotMapTyped ==
    ASSUME NEW records \in SUBSET Experiences
    PROVE  SlotMap(records) \in Evidence
<1>1. Slots(records) \in SUBSET Slot
  <2>1. SUFFICES ASSUME NEW key \in Keys(records), NEW stance \in Stances,
                        NEW opt \in WithStance(records, key, stance)
                 PROVE  [key |-> key, stance |-> stance, n |-> Rank(records, key, stance, opt)] \in Slot
    BY DEF Slots
  <2>2. key \in Keys(Experiences)
    BY DEF Keys, Aggregated
  <2>3. /\ Rank(records, key, stance, opt) \in 1..Cardinality(Experiences)
        /\ Rank(records, key, stance, opt) <= Cardinality(Optimizations(Experiences, key))
    BY RankTyped
  <2>4. QED
    BY <2>2, <2>3 DEF Slot
<1>2. \A key, opt : Rows(records, key, opt) \in SUBSET Experiences
  BY DEF Rows, Aggregated
<1>3. SlotMap(records) \in [Slots(records) -> SUBSET Experiences]
  BY <1>2 DEF SlotMap
<1>4. QED
  BY <1>1, <1>3 DEF Evidence

LEMMA NoneIsNoPackage ==
    ASSUME NEW package \in Packages
    PROVE  package # None
<1>1. package.draft \in DraftSet /\ package.draft.slots \in Evidence
  BY DEF Packages, DraftSet
<1>2. PICK slots \in SUBSET Slot : package.draft.slots \in [slots -> SUBSET Experiences]
  BY <1>1 DEF Evidence
<1>3. package.draft \in DraftsWith(slots)
  BY <1>1, <1>2 DEF DraftSet, DraftsWith
<1>4. package \in PackagesWith(slots)
  BY <1>3 DEF Packages, PackagesWith
<1>5. QED
  BY <1>4, NoneAssumption

LEMMA InheritedTyped ==
    ASSUME StoreTypes, NEW v \in 0..MaxVersion, Archived(v)
    PROVE  Inherited(v) \in Evidence
<1>1. CASE v = 0
  BY <1>1, EmptyTyped DEF Inherited
<1>2. CASE v # 0
  <2>1. v \in Versions
    BY <1>2, VersionFacts
  <2>2. curated[v] \in Packages
    BY <1>2, <2>1 DEF Archived, StoreTypes, Area
  <2>3. curated[v].draft \in DraftSet
    BY <2>2 DEF Packages
  <2>4. QED
    BY <1>2, <2>3 DEF Inherited, DraftSet
<1>3. QED
  BY <1>1, <1>2

LEMMA DraftTyped ==
    ASSUME StoreTypes, NEW me \in Memory, Archived(me.active),
           me.content.slots \subseteq DOMAIN Inherited(me.active) \cup DOMAIN me.evidence
    PROVE  /\ Draft(me) \in DraftSet
           /\ Draft(me).records = me.records /\ Draft(me).clean = me.content.clean
           /\ DOMAIN Draft(me).slots = me.content.slots
<1> DEFINE inherited == Inherited(me.active)
           slots == [slot \in me.content.slots |->
                        IF slot \in DOMAIN me.evidence THEN me.evidence[slot] ELSE inherited[slot]]
<1>1. inherited \in Evidence
  BY InheritedTyped DEF Memory
<1>2. PICK old \in SUBSET Slot, new \in SUBSET Slot :
         inherited \in [old -> SUBSET Experiences] /\ me.evidence \in [new -> SUBSET Experiences]
  BY <1>1 DEF Evidence, Memory
<1>3. me.content.slots \in SUBSET Slot /\ me.content.clean \in BOOLEAN /\ me.records \in SUBSET Experiences
  BY DEF Memory, Content
<1>4. slots \in [me.content.slots -> SUBSET Experiences]
  BY <1>2
<1>5. slots \in Evidence
  BY <1>3, <1>4 DEF Evidence
<1>6. Draft(me) = [records |-> me.records, clean |-> me.content.clean, slots |-> slots]
  BY DEF Draft
<1>7. DOMAIN slots = me.content.slots
  OBVIOUS
<1> HIDE DEF slots
<1>8. QED
  BY <1>3, <1>5, <1>6, <1>7 DEF DraftSet

\* A draft without a clash keeps the rules of the version it revises.
LEMMA DraftExtends ==
    ASSUME NEW me \in Memory, me.active + 1 \in Versions, Archived(me.active),
           DOMAIN Inherited(me.active) \subseteq me.content.slots,
           ~SlotsClash(Inherited(me.active), me.evidence)
    PROVE  Extends(Draft(me), me.active + 1)
<1>1. (me.active + 1) - 1 = me.active
  BY VersionFacts DEF Memory
<1>2. Draft(me).slots = [slot \in me.content.slots |->
                            IF slot \in DOMAIN me.evidence THEN me.evidence[slot]
                            ELSE Inherited(me.active)[slot]]
  BY DEF Draft
<1>3. QED
  BY <1>1, <1>2 DEF Extends, SlotsClash


-----------------------------------------------------------------------------
(* A step of a run: types, and what it leaves alone *)

RunChanged(r, me) == run' = [run EXCEPT ![r] = me]

LEMMA RunChangedTyped ==
    ASSUME RunTypes, NEW r \in Runs, NEW me \in Memory, RunChanged(r, me)
    PROVE  /\ run' \in [Runs -> Memory] /\ run'[r] = me
           /\ \A s \in Runs \ {r} : run'[s] = run[s]
BY DEF RunTypes, RunChanged

LEMMA FailTyped ==
    ASSUME RunTypes, NEW r \in Runs, NEW error \in Errors, Fail(r, error)
    PROVE  /\ run' \in [Runs -> Memory] /\ run'[r].pc = "ended"
           /\ \A s \in Runs \ {r} : run'[s] = run[s]
<1> DEFINE me == [Idle EXCEPT !.pc = "ended", !.error = error]
<1>1. me \in Memory /\ me.pc = "ended"
  BY EmptyTyped DEF Memory
<1>2. RunChanged(r, me)
  BY DEF Fail, RunChanged
<1> HIDE DEF me
<1>3. QED
  BY <1>1, <1>2, RunChangedTyped

LEMMA GotoTyped ==
    ASSUME RunTypes, NEW r \in Runs,
           NEW next \in {"rest", "validate", "seal", "sealreport", "record"}, Goto(r, next)
    PROVE  /\ run' \in [Runs -> Memory]
           /\ run'[r] = [run[r] EXCEPT !.pc = next]
           /\ \A s \in Runs \ {r} : run'[s] = run[s]
<1>1. run[r] \in Memory
  BY DEF RunTypes
<1>2. [run[r] EXCEPT !.pc = next] \in Memory
  BY <1>1 DEF Memory
<1>3. RunChanged(r, [run[r] EXCEPT !.pc = next])
  BY DEF Goto, RunChanged, RunTypes
<1>4. QED
  BY <1>2, <1>3, RunChangedTyped

\* What a step of run r leaves alone.
OutsideKept(r) ==
    /\ UNCHANGED <<excluded, curated, rejected, approvals, rejections, current, command,
                   answered, commands>>
    /\ ledger \subseteq ledger'
    /\ \A s \in Runs \ {r} :
          run'[s] = run[s] /\ checkpoint'[s] = checkpoint[s] /\ result'[s] = result[s]
    /\ \A v \in Versions : pending[v] # None =>
          pending'[v] # None /\ pending'[v].draft = pending[v].draft

LEMMA BeginTyped ==
    ASSUME SkillTypes, NEW r \in Runs, Begin(r)
    PROVE  /\ SkillTypes' /\ OutsideKept(r)
           /\ UNCHANGED <<pending, checkpoint>>
           /\ result'[r] \in {result[r], "NO_PROMOTABLE_EXPERIENCE"}
           /\ \A s \in Runs \ {r} : ~Working(s)
           /\ \/ run'[r].pc = "ended"
              \/ /\ run'[r].pc = "author" /\ run'[r].active = ActiveVersion
                 /\ ActiveVersion < MaxVersion
<1> DEFINE records == Input[r] \ excluded
           author == [Idle EXCEPT !.pc = "author", !.records = records,
                                  !.evidence = SlotMap(records), !.active = ActiveVersion]
           ended == [Idle EXCEPT !.pc = "ended"]
<1>1. records \in SUBSET Experiences /\ RunTypes /\ StoreTypes
  BY SkillAssumption DEF SkillTypes
<1>2. ActiveVersion \in 0..MaxVersion
  BY <1>1, VersionFacts DEF ActiveVersion, StoreTypes
<1>3. SlotMap(records) \in Evidence
  BY <1>1, SlotMapTyped
<1>4. /\ author \in Memory /\ author.pc = "author" /\ author.active = ActiveVersion
      /\ ended \in Memory /\ ended.pc = "ended"
  <2> HIDE DEF records
  <2>1. QED
    BY <1>1, <1>2, <1>3, EmptyTyped DEF Memory
<1>5. /\ \/ Fail(r, "input_conflict") /\ UNCHANGED <<manifest, result>>
         \/ Fail(r, "active_unloadable") /\ UNCHANGED <<manifest, result>>
         \/ /\ manifest' = [manifest EXCEPT ![r] = records]
            /\ RunChanged(r, author) /\ UNCHANGED result
         \/ /\ manifest' = [manifest EXCEPT ![r] = records]
            /\ result' = [result EXCEPT ![r] = "NO_PROMOTABLE_EXPERIENCE"]
            /\ RunChanged(r, ended)
      /\ ActiveVersion < MaxVersion /\ (\A s \in Runs : ~Working(s))
      /\ starts < MaxStarts /\ starts' = starts + 1
      /\ UNCHANGED <<excluded, checkpoint, store, command, answered, commands>>
  BY DEF Begin, RunChanged
<1> HIDE DEF records, author, ended
<1>6. /\ run' \in [Runs -> Memory] /\ \A s \in Runs \ {r} : run'[s] = run[s]
      /\ run'[r].pc = "ended" \/ run'[r] = author
  BY <1>1, <1>4, <1>5, FailTyped, RunChangedTyped DEF Errors
<1>7. /\ manifest' \in [Runs -> (SUBSET Experiences) \cup {None}]
      /\ result' \in [Runs -> Statuses \cup {None}]
      /\ result'[r] \in {result[r], "NO_PROMOTABLE_EXPERIENCE"}
      /\ \A s \in Runs \ {r} : result'[s] = result[s]
  BY <1>1, <1>5 DEF RunTypes, Statuses
<1>8. RunTypes'
  BY <1>1, <1>5, <1>6, <1>7 DEF RunTypes
<1>9. UNCHANGED <<pending, curated, rejected, approvals, rejections, current, ledger>>
  BY <1>5 DEF store
<1>10. StoreTypes'
  BY <1>1, <1>9 DEF StoreTypes
<1>11. starts' \in 0..MaxStarts
  BY <1>5, SkillAssumption DEF SkillTypes
<1>12. SkillTypes'
  BY <1>5, <1>8, <1>10, <1>11 DEF SkillTypes
<1>13. OutsideKept(r)
  BY <1>5, <1>6, <1>7, <1>9 DEF OutsideKept
<1>14. QED
  BY <1>4, <1>5, <1>6, <1>7, <1>9, <1>12, <1>13


\* A step that writes neither manifests nor counters nor what the commands decide.
LEMMA TypesKept ==
    ASSUME SkillTypes, pending' \in Area,
           checkpoint' \in [Runs -> Response \cup {None}],
           result' \in [Runs -> Statuses \cup {None}],
           run' \in [Runs -> Memory],
           UNCHANGED <<excluded, manifest, curated, rejected, approvals, rejections, current,
                       command, answered, starts, commands>>
    PROVE  SkillTypes'
BY DEF SkillTypes, RunTypes, StoreTypes

-----------------------------------------------------------------------------
(* Drafts stay what they are *)

\* No draft is changed; only a rejection moves one.
DraftsStay ==
    \A v \in Versions :
        /\ pending[v] # None =>
              \/ pending'[v] # None /\ pending'[v].draft = pending[v].draft
              \/ rejected'[v] # None /\ rejected'[v].draft = pending[v].draft
        /\ curated[v] # None => curated'[v] = curated[v]
        /\ rejected[v] # None => rejected'[v] = rejected[v]

LEMMA ArchiveStays ==
    ASSUME DraftsStay, NEW n \in 0..MaxVersion, Archived(n)
    PROVE  Archived(n)' /\ Inherited(n)' = Inherited(n)
BY VersionFacts DEF DraftsStay, Archived, Inherited

LEMMA ExtendsStays ==
    ASSUME DraftsStay, NEW v \in Versions, NEW draft, Extends(draft, v)
    PROVE  Extends(draft, v)'
<1>1. v - 1 \in 0..MaxVersion
  BY VersionFacts
<1>2. QED
  BY <1>1, ArchiveStays DEF Extends

LEMMA AnswerStays ==
    ASSUME SkillTypes, DraftsStay, NEW r \in Runs, SavedAnswer(r), checkpoint'[r] = checkpoint[r]
    PROVE  SavedAnswer(r)'
<1>1. SUFFICES ASSUME checkpoint[r] # None
               PROVE  /\ Archived(checkpoint[r].active)'
                      /\ Inherited(checkpoint[r].active)' = Inherited(checkpoint[r].active)
  BY DEF SavedAnswer
<1>2. PICK n \in 0..MaxVersion : n = checkpoint[r].active
  BY <1>1 DEF SkillTypes, RunTypes, Response
<1>3. Archived(n)
  BY <1>1, <1>2 DEF SavedAnswer
<1>4. Archived(n)' /\ Inherited(n)' = Inherited(n)
  BY <1>2, <1>3, ArchiveStays
<1>5. QED
  BY <1>2, <1>4

LEMMA ReportStays ==
    ASSUME SkillTypes, DraftsStay, NEW r \in Runs, SavedAnswer(r), ReportKept(r),
           checkpoint[r] # None => checkpoint'[r] = checkpoint[r],
           result'[r] \in {result[r], "NO_PROMOTABLE_EXPERIENCE"}
    PROVE  ReportKept(r)'
<1>1. SUFFICES ASSUME Reported(r)
               PROVE  /\ checkpoint'[r] # None
                      /\ HoldsReport(pending, r)' \/ HoldsReport(curated, r)' \/ HoldsReport(rejected, r)'
  BY DEF ReportKept, Reported
<1>2. checkpoint[r] # None /\ checkpoint'[r] = checkpoint[r]
  BY <1>1 DEF ReportKept
<1>3. PICK v \in Versions : v = checkpoint[r].active + 1
  BY <1>2 DEF SavedAnswer
<1>4. HoldsReport(pending, r) \/ HoldsReport(curated, r) \/ HoldsReport(rejected, r)
  BY <1>1 DEF ReportKept
<1>5. QED
  BY <1>2, <1>3, <1>4 DEF HoldsReport, DraftsStay

\* What the invariant says of one run, its answer and its report.
OwnRun(r) == SavedAnswer(r) /\ RunUnderWay(r) /\ ReportKept(r)

LEMMA OutsideKeepsDrafts == ASSUME NEW r \in Runs, OutsideKept(r) PROVE DraftsStay
BY DEF OutsideKept, DraftsStay

LEMMA RestingRun ==
    ASSUME SkillTypes, DraftsStay, NEW r \in Runs, OwnRun(r),
           checkpoint'[r] = checkpoint[r], run'[r].pc \in {"idle", "ended"},
           result'[r] \in {result[r], "NO_PROMOTABLE_EXPERIENCE"}
    PROVE  OwnRun(r)'
<1>1. RunUnderWay(r)'
  BY DEF RunUnderWay, Working, Writing
<1>2. QED
  BY <1>1, AnswerStays, ReportStays DEF OwnRun

\* Runs that do not work, the commands and the archive do not notice a step of run r.
LEMMA OthersUnaware ==
    ASSUME SkillInv, NEW r \in Runs, OutsideKept(r),
           \A s \in Runs \ {r} : ~Working(s),
           \A v \in Versions :
               pending'[v] # None /\ pending[v] = None => Extends(pending[v].draft, v)',
           OwnRun(r)'
    PROVE  Core'
<1>1. DraftsStay
  BY OutsideKeepsDrafts
<1>2. DraftsExtend'
  <2>1. ASSUME NEW v \in Versions, curated'[v] # None PROVE Extends(curated[v].draft, v)'
    <3>1. PICK d : d = curated[v].draft
      OBVIOUS
    <3>2. curated' = curated /\ Extends(d, v)
      BY <2>1, <3>1 DEF SkillInv, Core, DraftsExtend, OutsideKept
    <3>3. QED
      BY <1>1, <3>1, <3>2, ExtendsStays
  <2>2. ASSUME NEW v \in Versions, pending'[v] # None PROVE Extends(pending[v].draft, v)'
    <3>1. CASE pending[v] # None
      <4>1. PICK d : d = pending[v].draft
        OBVIOUS
      <4>2. Extends(d, v) /\ pending'[v].draft = d
        BY <3>1, <4>1 DEF SkillInv, Core, DraftsExtend, OutsideKept
      <4>3. QED
        BY <1>1, <4>2, ExtendsStays
    <3>2. CASE pending[v] = None
      BY <2>2, <3>2
    <3>3. QED
      BY <3>1, <3>2
  <2>3. QED
    BY <2>1, <2>2 DEF DraftsExtend
<1>3. CommandUnderWay'
  <2>1. /\ UNCHANGED <<curated, rejected, approvals, rejections, command>>
        /\ CommandUnderWay
    BY DEF OutsideKept, SkillInv, Core
  <2>2. At("approve", "copy") => pending'[command.version] # None
                                /\ pending'[command.version].draft = command.sum
    BY <2>1 DEF CommandUnderWay, ApprovalUnderWay, At, OutsideKept
  <2>3. ASSUME At("approve", "place") PROVE Extends(command.copy.draft, command.version)'
    <3>0. PICK d : d = command.copy.draft
      OBVIOUS
    <3>1. PICK v \in Versions : v = command.version
      BY <2>1, <2>3 DEF CommandUnderWay, At
    <3>2. Extends(d, v)
      BY <2>1, <2>3, <3>0, <3>1 DEF CommandUnderWay, ApprovalUnderWay, At
    <3>3. QED
      BY <1>1, <2>1, <3>0, <3>1, <3>2, ExtendsStays
  <2>4. ApprovalUnderWay'
    BY <2>1, <2>2, <2>3 DEF CommandUnderWay, ApprovalUnderWay, At
  <2>5. RejectionUnderWay'
    BY <2>1 DEF CommandUnderWay, RejectionUnderWay, At
  <2>6. QED
    BY <2>1, <2>4, <2>5 DEF CommandUnderWay
<1>4. RunsUnderWay'
  <2>1. ASSUME NEW s \in Runs \ {r} PROVE ~Working(s)' /\ SavedAnswer(s)' /\ RunUnderWay(s)' /\ ReportKept(s)'
    <3>1. run'[s] = run[s] /\ checkpoint'[s] = checkpoint[s] /\ result'[s] = result[s]
      BY DEF OutsideKept
    <3>2. run'[s].pc \in {"idle", "ended"} /\ ~Working(s)'
      BY <3>1 DEF Working
    <3>3. OwnRun(s)
      BY DEF SkillInv, Core, RunsUnderWay, OwnRun
    <3>4. QED
      BY <1>1, <3>1, <3>2, <3>3, RestingRun DEF OwnRun, SkillInv
  <2>2. OneRun'
    BY <2>1 DEF OneRun
  <2>3. QED
    BY <2>1, <2>2 DEF RunsUnderWay, OwnRun
<1>5. ApprovedDraftActive' /\ AnswersDurable'
  BY DEF OutsideKept, SkillInv, Core, ApprovedDraftActive, AnswersDurable
<1>6. QED
  BY <1>2, <1>3, <1>4, <1>5 DEF Core


-----------------------------------------------------------------------------
(* The steps of a run *)

LEMMA BeginKeeps ==
    ASSUME SkillInv, NEW r \in Runs, Begin(r)
    PROVE  SkillInv'
<1>1. SkillTypes /\ OwnRun(r) /\ ApprovedDraftActive
  BY DEF SkillInv, Core, RunsUnderWay, OwnRun
<1>2. /\ SkillTypes' /\ OutsideKept(r) /\ UNCHANGED <<pending, checkpoint>>
      /\ result'[r] \in {result[r], "NO_PROMOTABLE_EXPERIENCE"}
      /\ \A s \in Runs \ {r} : ~Working(s)
  BY <1>1, BeginTyped
<1>3. DraftsStay
  BY <1>2, OutsideKeepsDrafts
<1>4. RunUnderWay(r)'
  <2>1. CASE run'[r].pc = "ended"
    BY <2>1 DEF RunUnderWay, Working, Writing
  <2>2. CASE /\ run'[r].pc = "author" /\ run'[r].active = ActiveVersion
             /\ ActiveVersion < MaxVersion
    <3>1. ActiveVersion \in 0..MaxVersion /\ Archived(ActiveVersion)
      BY <1>1, VersionFacts DEF ActiveVersion, Archived, ApprovedDraftActive, SkillTypes, StoreTypes
    <3>2. PICK n \in 0..MaxVersion : n = ActiveVersion
      BY <3>1
    <3>3. n + 1 \in Versions /\ Archived(n)'
      BY <1>3, <2>2, <3>1, <3>2, ArchiveStays, VersionFacts
    <3>4. QED
      BY <2>2, <3>2, <3>3 DEF RunUnderWay, Working, Writing
  <2>3. QED
    BY <1>1, <2>1, <2>2, BeginTyped
<1>5. OwnRun(r)'
  BY <1>1, <1>2, <1>3, <1>4, AnswerStays, ReportStays DEF OwnRun
<1>6. Core'
  BY <1>2, <1>5, OthersUnaware
<1>7. QED
  BY <1>2, <1>6 DEF SkillInv

\* A run that works is the only one.
LEMMA OnlyOne ==
    ASSUME SkillInv, NEW r \in Runs, Working(r)
    PROVE  /\ SkillTypes /\ StoreTypes /\ RunTypes /\ run[r] \in Memory
           /\ OwnRun(r) /\ \A s \in Runs \ {r} : ~Working(s)
           /\ run[r].active + 1 \in Versions /\ run[r].active \in 0..MaxVersion
           /\ Archived(run[r].active)
BY DEF SkillInv, SkillTypes, RunTypes, Core, RunsUnderWay, OneRun, OwnRun, RunUnderWay, Memory

\* A step that only ends the run, or only changes its memory.
LEMMA MemoryStep ==
    ASSUME SkillInv, NEW r \in Runs, Working(r),
           run' \in [Runs -> Memory], \A s \in Runs \ {r} : run'[s] = run[s],
           UNCHANGED <<excluded, files, store, command, answered, starts, commands>>,
           run'[r].pc \in {"idle", "ended"} \/ RunUnderWay(r)'
    PROVE  SkillInv'
<1>1. SkillTypes /\ OwnRun(r) /\ \A s \in Runs \ {r} : ~Working(s)
  BY OnlyOne
<1>2. UNCHANGED <<manifest, checkpoint, result, pending, curated, rejected, approvals,
                  rejections, current, ledger>>
  BY DEF files, store
<1>3. SkillTypes'
  BY <1>1, <1>2, TypesKept DEF SkillTypes, StoreTypes, RunTypes
<1>4. OutsideKept(r)
  BY <1>2 DEF OutsideKept
<1>5. DraftsStay
  BY <1>4, OutsideKeepsDrafts
<1>6. OwnRun(r)'
  <2>1. CASE run'[r].pc \in {"idle", "ended"}
    BY <1>1, <1>2, <1>5, <2>1, RestingRun
  <2>2. CASE RunUnderWay(r)'
    BY <1>1, <1>2, <1>5, <2>2, AnswerStays, ReportStays DEF OwnRun
  <2>3. QED
    BY <2>1, <2>2
<1>7. Core'
  BY <1>1, <1>2, <1>4, <1>6, OthersUnaware
<1>8. QED
  BY <1>3, <1>7 DEF SkillInv

LEMMA RunDiesKeeps ==
    ASSUME SkillInv, NEW r \in Runs, RunDies(r)
    PROVE  SkillInv'
<1>1. Working(r) /\ RunChanged(r, Idle)
      /\ UNCHANGED <<excluded, files, store, command, answered, starts, commands>>
  BY DEF RunDies, RunChanged
<1>2. run' \in [Runs -> Memory] /\ run'[r] = Idle /\ \A s \in Runs \ {r} : run'[s] = run[s]
  BY <1>1, EmptyTyped, OnlyOne, RunChangedTyped
<1>3. Idle.pc = "idle"
  BY DEF Idle
<1>4. QED
  BY <1>1, <1>2, <1>3, MemoryStep

LEMMA ReuseAuthorKeeps ==
    ASSUME SkillInv, NEW r \in Runs, ReuseAuthor(r)
    PROVE  SkillInv'
<1> DEFINE me == run[r]
           saved == checkpoint[r]
<1>1. Working(r) /\ me.pc = "author"
  BY DEF ReuseAuthor, Working
<1>2. /\ RunTypes /\ me \in Memory /\ SavedAnswer(r) /\ RunUnderWay(r)
      /\ me.active + 1 \in Versions /\ Archived(me.active) /\ me.active \in 0..MaxVersion
  BY <1>1, OnlyOne DEF OwnRun
<1>3. UNCHANGED <<excluded, files, store, command, answered, starts, commands>>
  BY DEF ReuseAuthor
<1>4. CASE \E error \in Errors : Fail(r, error)
  BY <1>1, <1>2, <1>3, <1>4, FailTyped, MemoryStep
<1>5. CASE /\ saved # None /\ saved.records = me.records /\ saved.active = me.active
           /\ ReadBack(saved.content, me)
           /\ run' = [run EXCEPT ![r].content = saved.content, ![r].pc = "assemble"]
  <2> DEFINE next == [me EXCEPT !.content = saved.content, !.pc = "assemble"]
  <2>1. saved \in Response
    BY <1>2, <1>5 DEF RunTypes
  <2>2. saved = [records |-> saved.records, active |-> saved.active, content |-> saved.content]
        /\ saved.content \in Content
    BY <2>1 DEF Response
  <2>3. /\ next \in Memory /\ next.pc = "assemble" /\ next.content = saved.content
        /\ next.records = me.records /\ next.active = me.active /\ next.evidence = me.evidence
    BY <1>2, <2>2 DEF Memory
  <2>4. RunChanged(r, next)
    BY <1>2, <1>5 DEF RunChanged, RunTypes
  <2> HIDE DEF next
  <2>5. run' \in [Runs -> Memory] /\ run'[r] = next /\ \A s \in Runs \ {r} : run'[s] = run[s]
    BY <1>2, <2>3, <2>4, RunChangedTyped
  <2>6. checkpoint' = checkpoint /\ curated' = curated
    BY <1>3 DEF files, store
  <2>7. saved.content.slots \subseteq DOMAIN me.evidence
    BY <1>5 DEF ReadBack
  <2>8. RunUnderWay(r)'
    BY <1>2, <1>5, <2>2, <2>3, <2>5, <2>6, <2>7 DEF RunUnderWay, Working, Writing, Archived
  <2>9. QED
    BY <1>1, <1>3, <2>5, <2>8, MemoryStep
<1>6. QED
  BY <1>4, <1>5 DEF ReuseAuthor, Errors


LEMMA AskAuthorKeeps ==
    ASSUME SkillInv, NEW r \in Runs, AskAuthor(r)
    PROVE  SkillInv'
<1> DEFINE me == run[r]
<1>1. Working(r) /\ me.pc = "author" /\ checkpoint[r] = None
  BY DEF AskAuthor, Working
<1>2. /\ SkillTypes /\ StoreTypes /\ RunTypes /\ me \in Memory /\ OwnRun(r)
      /\ me.active + 1 \in Versions /\ Archived(me.active) /\ me.active \in 0..MaxVersion
      /\ \A s \in Runs \ {r} : ~Working(s)
  BY <1>1, OnlyOne
<1>3. UNCHANGED <<excluded, manifest, result, store, command, answered, starts, commands>>
  BY DEF AskAuthor
<1>4. CASE Fail(r, "author_failed") /\ UNCHANGED checkpoint
  BY <1>1, <1>2, <1>3, <1>4, FailTyped, MemoryStep DEF Errors, files
<1>5. CASE \E content \in Answers(me) :
              /\ checkpoint' = [checkpoint EXCEPT ![r] =
                    [records |-> me.records, active |-> me.active, content |-> content]]
              /\ run' = [run EXCEPT ![r].content = content, ![r].pc = "assemble"]
  <2>1. PICK content \in Answers(me) :
           /\ checkpoint' = [checkpoint EXCEPT ![r] =
                 [records |-> me.records, active |-> me.active, content |-> content]]
           /\ run' = [run EXCEPT ![r].content = content, ![r].pc = "assemble"]
    BY <1>5
  <2> DEFINE saved == [records |-> me.records, active |-> me.active, content |-> content]
             next == [me EXCEPT !.content = content, !.pc = "assemble"]
  <2>2. PICK used \in SUBSET DOMAIN me.evidence, clean \in BOOLEAN :
           content = [slots |-> DOMAIN Inherited(me.active) \cup used, clean |-> clean]
    <3>1. PICK clean \in BOOLEAN,
               used \in {slots \in SUBSET DOMAIN me.evidence :
                          /\ Cardinality(DOMAIN me.evidence \ slots) <= MaxUnused
                          /\ slots # {} \/ me.active # 0} :
             content = [slots |-> Revised(me.active, used), clean |-> clean]
      <4> DEFINE usable == {slots \in SUBSET DOMAIN me.evidence :
                               /\ Cardinality(DOMAIN me.evidence \ slots) <= MaxUnused
                               /\ slots # {} \/ me.active # 0}
                 answer(clean, used) == [slots |-> Revised(me.active, used), clean |-> clean]
      <4>1. content \in {answer(clean, used) : clean \in BOOLEAN, used \in usable}
        BY DEF Answers
      <4> HIDE DEF usable, answer
      <4>2. PICK clean \in BOOLEAN, used \in usable : content = answer(clean, used)
        BY <4>1
      <4>3. QED
        BY <4>2 DEF usable, answer
    <3>2. QED
      BY <3>1 DEF Revised
  <2>3. DOMAIN me.evidence \subseteq Slot /\ DOMAIN Inherited(me.active) \subseteq Slot
    BY <1>2, InheritedTyped DEF Evidence, Memory
  <2>4. content \in Content /\ content.slots = DOMAIN Inherited(me.active) \cup used
    BY <2>2, <2>3 DEF Content
  <2>5. /\ saved \in Response /\ saved # None
        /\ saved.active = me.active /\ saved.content = content
    BY <1>2, <2>4, NoneAssumption DEF Response, Memory
  <2>6. /\ next \in Memory /\ next.pc = "assemble" /\ next.content = content
        /\ next.records = me.records /\ next.active = me.active /\ next.evidence = me.evidence
    BY <1>2, <2>4 DEF Memory
  <2>7. RunChanged(r, next) /\ checkpoint' = [checkpoint EXCEPT ![r] = saved]
    BY <1>2, <2>1 DEF RunChanged, RunTypes
  <2> HIDE DEF next
  <2>8. run' \in [Runs -> Memory] /\ run'[r] = next /\ \A s \in Runs \ {r} : run'[s] = run[s]
    BY <1>2, <2>6, <2>7, RunChangedTyped
  <2>9. /\ checkpoint' \in [Runs -> Response \cup {None}] /\ checkpoint'[r] = saved
        /\ \A s \in Runs \ {r} : checkpoint'[s] = checkpoint[s]
    BY <1>2, <2>5, <2>7 DEF RunTypes
  <2>10. UNCHANGED <<pending, curated, rejected, approvals, rejections, current, ledger>>
    BY <1>3 DEF store
  <2>11. SkillTypes'
    BY <1>2, <1>3, <2>8, <2>9, <2>10, TypesKept DEF SkillTypes, StoreTypes, RunTypes
  <2>12. OutsideKept(r)
    BY <1>3, <2>8, <2>9, <2>10 DEF OutsideKept
  <2>13. RunUnderWay(r)'
    BY <1>2, <2>4, <2>5, <2>6, <2>8, <2>9, <2>10
       DEF RunUnderWay, Working, Writing, Archived, Inherited
  <2>14. SavedAnswer(r)'
    BY <1>2, <2>4, <2>5, <2>9, <2>10 DEF SavedAnswer, Archived, Inherited
  <2>15. ReportKept(r)'
    BY <1>1, <1>2, <1>3 DEF OwnRun, ReportKept, Reported
  <2>16. Core'
    BY <1>2, <2>10, <2>12, <2>13, <2>14, <2>15, OthersUnaware DEF OwnRun
  <2>17. QED
    BY <2>11, <2>16 DEF SkillInv
<1>6. QED
  BY <1>4, <1>5 DEF AskAuthor

\* A step that writes into the pending area and moves the run on.
LEMMA PendingStep ==
    ASSUME SkillInv, NEW r \in Runs, Working(r),
           run' \in [Runs -> Memory], \A s \in Runs \ {r} : run'[s] = run[s],
           UNCHANGED <<excluded, files, curated, rejected, approvals, rejections, current,
                       ledger, command, answered, starts, commands>>,
           pending' \in Area,
           \A v \in Versions :
               /\ pending[v] # None => pending'[v] # None /\ pending'[v].draft = pending[v].draft
               /\ pending'[v] # None /\ pending[v] = None => Extends(pending[v].draft, v)',
           RunUnderWay(r)'
    PROVE  SkillInv'
<1>1. SkillTypes /\ OwnRun(r) /\ \A s \in Runs \ {r} : ~Working(s)
  BY OnlyOne
<1>2. UNCHANGED <<manifest, checkpoint, result>>
  BY DEF files
<1>3. SkillTypes'
  BY <1>1, <1>2, TypesKept DEF SkillTypes, StoreTypes, RunTypes
<1>4. OutsideKept(r)
  BY <1>2 DEF OutsideKept
<1>5. DraftsStay
  BY <1>4, OutsideKeepsDrafts
<1>6. OwnRun(r)'
  BY <1>1, <1>2, <1>5, AnswerStays, ReportStays DEF OwnRun
<1>7. Core'
  BY <1>1, <1>4, <1>6, OthersUnaware
<1>8. QED
  BY <1>3, <1>7 DEF SkillInv

LEMMA AssembleKeeps ==
    ASSUME SkillInv, NEW r \in Runs, Assemble(r)
    PROVE  SkillInv'
<1> DEFINE me == run[r]
           v == me.active + 1
<1>1. Working(r) /\ me.pc = "assemble"
  BY DEF Assemble, Working
<1>2. /\ SkillTypes /\ StoreTypes /\ RunTypes /\ me \in Memory /\ OwnRun(r)
      /\ v \in Versions /\ Archived(me.active) /\ me.active \in 0..MaxVersion
  BY <1>1, OnlyOne
<1>3. UNCHANGED <<excluded, files, curated, rejected, approvals, rejections, current, ledger,
                  command, answered, starts, commands>>
  BY DEF Assemble
<1>4. /\ checkpoint[r] = [records |-> me.records, active |-> me.active, content |-> me.content]
      /\ me.content.slots \subseteq DOMAIN Inherited(me.active) \cup DOMAIN me.evidence
      /\ DOMAIN Inherited(me.active) \subseteq me.content.slots
  <2>1. checkpoint[r] = [records |-> me.records, active |-> me.active, content |-> me.content]
    BY <1>1, <1>2 DEF OwnRun, RunUnderWay
  <2>2. checkpoint[r] # None
    BY <1>2, <2>1, NoneAssumption DEF Response, Memory
  <2>3. QED
    BY <1>1, <1>2, <2>1, <2>2 DEF OwnRun, RunUnderWay, SavedAnswer
<1>5. /\ Draft(me) \in DraftSet
      /\ Draft(me).records = me.records /\ DOMAIN Draft(me).slots = me.content.slots
  BY <1>2, <1>4, DraftTyped
<1>6. CASE (Fail(r, "slot_conflict") \/ Fail(r, "pending_conflict")) /\ UNCHANGED pending
  BY <1>1, <1>2, <1>3, <1>6, FailTyped, MemoryStep DEF Errors, store
<1>7. CASE /\ pending[v] # None /\ ~Occupied(pending[v], Draft(me))
           /\ run' = [run EXCEPT ![r].pc = "validate", ![r].version = v]
           /\ UNCHANGED pending
  <2> DEFINE next == [me EXCEPT !.pc = "validate", !.version = v]
  <2>1. /\ next \in Memory /\ next.pc = "validate" /\ next.version = v /\ next.content = me.content
        /\ next.records = me.records /\ next.active = me.active
    BY <1>2, VersionFacts DEF Memory
  <2>2. RunChanged(r, next)
    BY <1>2, <1>7 DEF RunChanged, RunTypes
  <2> HIDE DEF next
  <2>3. run' \in [Runs -> Memory] /\ run'[r] = next /\ \A s \in Runs \ {r} : run'[s] = run[s]
    BY <1>2, <2>1, <2>2, RunChangedTyped
  <2>4. pending[v].draft = Draft(me)
    BY <1>7 DEF Occupied
  <2>5. RunUnderWay(r)'
    BY <1>2, <1>3, <1>4, <1>5, <1>7, <2>1, <2>3, <2>4
       DEF RunUnderWay, Working, Writing, Archived, files
  <2>6. QED
    BY <1>1, <1>3, <1>7, <2>3, <2>5, MemoryStep DEF store
<1>8. CASE /\ ~SlotsClash(Inherited(me.active), me.evidence)
           /\ pending[v] = None
           /\ pending' = [pending EXCEPT ![v] = Opened(Draft(me))]
           /\ run' = [run EXCEPT ![r].pc = "metadata", ![r].version = v]
  <2> DEFINE next == [me EXCEPT !.pc = "metadata", !.version = v]
  <2>1. /\ next \in Memory /\ next.pc = "metadata" /\ next.version = v /\ next.content = me.content
        /\ next.records = me.records /\ next.active = me.active
    BY <1>2, VersionFacts DEF Memory
  <2>2. RunChanged(r, next)
    BY <1>2, <1>8 DEF RunChanged, RunTypes
  <2> HIDE DEF next
  <2>3. run' \in [Runs -> Memory] /\ run'[r] = next /\ \A s \in Runs \ {r} : run'[s] = run[s]
    BY <1>2, <2>1, <2>2, RunChangedTyped
  <2>4. PICK d \in DraftSet : d = Draft(me)
    BY <1>5
  <2>5. Opened(d) \in Packages /\ Opened(d).draft = d
    BY DEF Opened, Packages, Stamps
  <2>6. /\ pending' \in Area /\ pending'[v] = Opened(d)
        /\ \A u \in Versions : u # v => pending'[u] = pending[u]
    BY <1>2, <1>8, <2>4, <2>5 DEF StoreTypes, Area
  <2>7. PICK w \in Versions : w = v
    BY <1>2
  <2>8. Extends(d, w)'
    <3>1. Extends(d, w)
      BY <1>2, <1>4, <1>8, <2>4, <2>7, DraftExtends
    <3>2. QED
      BY <1>3, <3>1 DEF Extends, Archived, Inherited
  <2>9. \A u \in Versions :
           /\ pending[u] # None => pending'[u] # None /\ pending'[u].draft = pending[u].draft
           /\ pending'[u] # None /\ pending[u] = None => Extends(pending[u].draft, u)'
    BY <1>8, <2>5, <2>6, <2>7, <2>8
  <2>10. RunUnderWay(r)'
    BY <1>2, <1>3, <1>4, <1>5, <2>1, <2>3, <2>4, <2>5, <2>6
       DEF RunUnderWay, Working, Writing, Archived, files
  <2>11. QED
    BY <1>1, <1>3, <2>3, <2>6, <2>9, <2>10, PendingStep
<1>9. QED
  BY <1>6, <1>7, <1>8 DEF Assemble


\* Whatever is written into the package, its draft stays.
LEMMA WriteKeeps ==
    ASSUME SkillInv, NEW r \in Runs, run[r].pc \in Writing,
           NEW next \in {"rest", "validate", "seal", "sealreport", "record"},
           NEW package,
           pending[run[r].version] # None =>
               package \in Packages /\ package.draft = pending[run[r].version].draft,
           WritePackage(r, package, next)
    PROVE  SkillInv'
<1> DEFINE me == run[r]
           v == me.version
<1>1. Working(r)
  BY DEF Working, Writing
<1>2. /\ SkillTypes /\ StoreTypes /\ RunTypes /\ me \in Memory /\ OwnRun(r)
      /\ me.active + 1 \in Versions /\ Archived(me.active) /\ v = me.active + 1
  BY <1>1, OnlyOne DEF OwnRun, RunUnderWay
<1>3. UNCHANGED <<excluded, files, curated, rejected, approvals, rejections, current, ledger,
                  command, answered, starts, commands>>
  BY DEF WritePackage
<1>4. CASE Fail(r, "package_gone") /\ UNCHANGED pending
  BY <1>1, <1>2, <1>3, <1>4, FailTyped, MemoryStep DEF Errors, store
<1>5. CASE /\ pending[v] # None /\ pending' = [pending EXCEPT ![v] = package]
           /\ Goto(r, next)
  <2>1. /\ run' \in [Runs -> Memory] /\ \A s \in Runs \ {r} : run'[s] = run[s]
        /\ run'[r] = [me EXCEPT !.pc = next]
    BY <1>2, <1>5, GotoTyped
  <2>2. /\ run'[r].pc = next /\ run'[r].version = me.version /\ run'[r].content = me.content
        /\ run'[r].records = me.records /\ run'[r].active = me.active
    BY <1>2, <2>1 DEF Memory
  <2>3. /\ pending' \in Area /\ pending'[v] = package
        /\ \A u \in Versions : u # v => pending'[u] = pending[u]
    BY <1>2, <1>5 DEF StoreTypes, Area
  <2>4. \A u \in Versions :
           /\ pending[u] # None => pending'[u] # None /\ pending'[u].draft = pending[u].draft
           /\ pending'[u] # None /\ pending[u] = None => Extends(pending[u].draft, u)'
    <3>1. pending'[v] # None
      BY <1>5, <2>3, NoneIsNoPackage
    <3>2. QED
      BY <1>5, <2>3, <3>1
  <2>5. RunUnderWay(r)'
    BY <1>2, <1>3, <1>5, <2>2, <2>3 DEF OwnRun, RunUnderWay, Working, Writing, Archived, files
  <2>6. QED
    BY <1>1, <1>3, <2>1, <2>3, <2>4, <2>5, PendingStep
<1>6. QED
  BY <1>4, <1>5 DEF WritePackage

LEMMA WritesKeep ==
    ASSUME SkillInv, NEW r \in Runs,
           \/ WriteMetadata(r) \/ WriteRest(r) \/ Validate(r) \/ Seal(r) \/ SealReport(r)
    PROVE  SkillInv'
<1> DEFINE v == run[r].version
<1>1. run[r].pc \in Writing /\ Working(r)
  BY DEF WriteMetadata, WriteRest, Validate, Seal, SealReport, Writing, Working
<1>2. SkillTypes /\ RunTypes /\ pending \in Area /\ v \in Versions
  BY <1>1, OnlyOne DEF StoreTypes, OwnRun, RunUnderWay
<1>3. pending[v] # None => pending[v] \in Packages
  BY <1>2 DEF Area
<1>4. ASSUME NEW p \in Packages, NEW stamp \in Stamps
      PROVE  /\ [p EXCEPT !.meta = stamp] \in Packages /\ [p EXCEPT !.meta = stamp].draft = p.draft
             /\ [p EXCEPT !.rest = TRUE] \in Packages /\ [p EXCEPT !.rest = TRUE].draft = p.draft
             /\ [p EXCEPT !.report = stamp] \in Packages /\ [p EXCEPT !.report = stamp].draft = p.draft
             /\ [p EXCEPT !.report = stamp, !.meta = stamp] \in Packages
             /\ [p EXCEPT !.report = stamp, !.meta = stamp].draft = p.draft
  BY DEF Packages
<1>5. "sentinel" \in Stamps /\ "final" \in Stamps
  BY DEF Stamps
<1>6. CASE WriteMetadata(r)
  BY <1>1, <1>3, <1>4, <1>5, <1>6, WriteKeeps DEF WriteMetadata, Package
<1>7. CASE WriteRest(r)
  BY <1>1, <1>3, <1>4, <1>5, <1>7, WriteKeeps DEF WriteRest, Package
<1>8. CASE Validate(r)
  <2>1. CASE Package(r) # None /\ Package(r).rest
    BY <1>1, <1>3, <1>4, <1>5, <1>8, <2>1, WriteKeeps DEF Validate, Package
  <2>2. CASE ~(Package(r) # None /\ Package(r).rest)
    <3>1. /\ Fail(r, "file_missing")
          /\ UNCHANGED <<excluded, files, store, command, answered, starts, commands>>
      BY <1>8, <2>2 DEF Validate
    <3>2. QED
      BY <1>1, <1>2, <3>1, FailTyped, MemoryStep DEF Errors
  <2>3. QED
    BY <2>1, <2>2
<1>9. CASE Seal(r)
  BY <1>1, <1>3, <1>4, <1>5, <1>9, WriteKeeps DEF Seal, Package
<1>10. CASE SealReport(r)
  BY <1>1, <1>3, <1>4, <1>5, <1>10, WriteKeeps DEF SealReport, Package
<1>11. QED
  BY <1>6, <1>7, <1>8, <1>9, <1>10

\* The run reports the package it wrote, which holds the answer it saved.
LEMMA ConcludeKeeps ==
    ASSUME SkillInv, NEW r \in Runs, Conclude(r)
    PROVE  SkillInv'
<1> DEFINE me == run[r]
           v == me.version
           status == IF Passed(Package(r).draft) THEN "pending_review"
                     ELSE "pending_regression_failed"
           ended == [Idle EXCEPT !.pc = "ended"]
<1>1. Working(r) /\ me.pc = "record"
  BY DEF Conclude, Working
<1>2. /\ SkillTypes /\ StoreTypes /\ RunTypes /\ me \in Memory /\ OwnRun(r)
      /\ me.active + 1 \in Versions /\ v = me.active + 1
      /\ \A s \in Runs \ {r} : ~Working(s)
  BY <1>1, OnlyOne DEF OwnRun, RunUnderWay, Writing
<1>3. UNCHANGED <<excluded, manifest, checkpoint, pending, curated, rejected, approvals,
                  rejections, current, command, answered, starts, commands>>
  BY DEF Conclude
<1>4. CASE Fail(r, "package_gone") /\ UNCHANGED <<ledger, result>>
  BY <1>1, <1>2, <1>3, <1>4, FailTyped, MemoryStep DEF Errors, files, store
<1>5. CASE Package(r) # None
  <2>1. /\ ledger \subseteq ledger' /\ result' = [result EXCEPT ![r] = status]
        /\ RunChanged(r, ended)
    BY <1>5 DEF Conclude, RunChanged
  <2>2. ended \in Memory /\ ended.pc = "ended"
    BY EmptyTyped DEF Memory
  <2> HIDE DEF ended
  <2>3. run' \in [Runs -> Memory] /\ run'[r] = ended /\ \A s \in Runs \ {r} : run'[s] = run[s]
    BY <1>2, <2>1, <2>2, RunChangedTyped
  <2>4. status \in {"pending_review", "pending_regression_failed"}
    OBVIOUS
  <2> HIDE DEF status
  <2>5. /\ result' \in [Runs -> Statuses \cup {None}]
        /\ \A s \in Runs \ {r} : result'[s] = result[s]
    BY <1>2, <2>1, <2>4 DEF RunTypes, Statuses
  <2>6. SkillTypes'
    BY <1>2, <1>3, <2>3, <2>5, TypesKept DEF StoreTypes, RunTypes
  <2>7. OutsideKept(r)
    BY <1>3, <2>1, <2>3, <2>5 DEF OutsideKept
  <2>8. DraftsStay
    BY <2>7, OutsideKeepsDrafts
  <2>9. checkpoint[r] = [records |-> me.records, active |-> me.active, content |-> me.content]
        /\ pending[v].draft.records = me.records
        /\ DOMAIN pending[v].draft.slots = me.content.slots
    BY <1>1, <1>2, <1>5 DEF OwnRun, RunUnderWay, Writing, Package
  <2>10. checkpoint[r] # None
    BY <1>2, <2>9, NoneAssumption DEF Response, Memory
  <2>11. HoldsReport(pending, r)
    BY <1>2, <1>5, <2>9 DEF HoldsReport, Package
  <2>12. ReportKept(r)'
    BY <1>3, <2>10, <2>11 DEF ReportKept, HoldsReport
  <2>13. RunUnderWay(r)'
    BY <2>2, <2>3 DEF RunUnderWay, Working, Writing
  <2>14. SavedAnswer(r)'
    BY <1>2, <1>3, <2>8, AnswerStays DEF OwnRun
  <2>15. Core'
    BY <1>2, <1>3, <2>7, <2>12, <2>13, <2>14, OthersUnaware DEF OwnRun
  <2>16. QED
    BY <2>6, <2>15 DEF SkillInv
<1>6. QED
  BY <1>4, <1>5 DEF Conclude

-----------------------------------------------------------------------------
(* The steps of the commands *)

LEMMA CommandFacts ==
    ASSUME SkillInv
    PROVE  /\ SkillTypes /\ StoreTypes /\ RunTypes /\ command \in Commands
           /\ pending \in Area /\ curated \in Area /\ rejected \in Area
           /\ command.pc # "none" => /\ command.op \in {"approve", "reject"}
                                     /\ command.version \in Versions /\ command.sum \in DraftSet
           /\ DraftsExtend /\ CommandUnderWay /\ ApprovedDraftActive /\ AnswersDurable
BY DEF SkillInv, SkillTypes, StoreTypes, Core, CommandUnderWay

\* The runs go on whatever a command does, as long as it changes no draft.
LEMMA CommandStep ==
    ASSUME SkillInv, UNCHANGED <<manifest, checkpoint, result, run, starts>>,
           StoreTypes', command' \in Commands, answered' \subseteq Decisions,
           excluded' \subseteq Experiences, commands' \in 0..MaxCommands,
           DraftsStay,
           \A v \in Versions : pending'[v] \in {pending[v], None},
           \A v \in Versions :
               curated'[v] # None /\ curated[v] = None => Extends(curated[v].draft, v)',
           CommandUnderWay', ApprovedDraftActive', AnswersDurable'
    PROVE  SkillInv'
<1>1. SkillTypes'
  BY CommandFacts DEF SkillTypes, RunTypes
<1>2. DraftsExtend'
  <2>1. ASSUME NEW v \in Versions, pending'[v] # None PROVE Extends(pending[v].draft, v)'
    <3>1. PICK d : d = pending[v].draft
      OBVIOUS
    <3>2. pending'[v] = pending[v] /\ Extends(d, v)
      BY <2>1, <3>1, CommandFacts DEF DraftsExtend
    <3>3. QED
      BY <3>1, <3>2, ExtendsStays
  <2>2. ASSUME NEW v \in Versions, curated'[v] # None PROVE Extends(curated[v].draft, v)'
    <3>1. CASE curated[v] = None
      BY <2>2, <3>1
    <3>2. CASE curated[v] # None
      <4>1. PICK d : d = curated[v].draft
        OBVIOUS
      <4>2. curated'[v] = curated[v] /\ Extends(d, v)
        BY <3>2, <4>1, CommandFacts DEF DraftsExtend, DraftsStay
      <4>3. QED
        BY <4>1, <4>2, ExtendsStays
    <3>3. QED
      BY <3>1, <3>2
  <2>3. QED
    BY <2>1, <2>2 DEF DraftsExtend
<1>3. ASSUME NEW r \in Runs PROVE SavedAnswer(r)' /\ RunUnderWay(r)' /\ ReportKept(r)'
  <2>1. SkillTypes /\ OwnRun(r) /\ run[r] \in Memory
    BY DEF SkillInv, SkillTypes, RunTypes, Core, RunsUnderWay, OwnRun
  <2>2. SavedAnswer(r)' /\ ReportKept(r)'
    BY <2>1, AnswerStays, ReportStays DEF OwnRun
  <2>3. PICK n \in 0..MaxVersion : n = run[r].active
    BY <2>1 DEF Memory
  <2>4. CASE Working(r)
    <3>1. Archived(n)' /\ Inherited(n)' = Inherited(n) /\ n + 1 \in Versions
      BY <2>1, <2>3, <2>4, ArchiveStays DEF OwnRun, RunUnderWay
    <3>2. QED
      BY <2>1, <2>2, <2>3, <2>4, <3>1 DEF OwnRun, RunUnderWay, Working, Writing
  <2>5. CASE ~Working(r)
    BY <2>2, <2>5 DEF RunUnderWay, Working, Writing
  <2>6. QED
    BY <2>4, <2>5
<1>4. RunsUnderWay'
  <2>1. OneRun'
    BY DEF SkillInv, Core, RunsUnderWay, OneRun, Working
  <2>2. QED
    BY <1>3, <2>1 DEF RunsUnderWay
<1>5. QED
  BY <1>1, <1>2, <1>4 DEF SkillInv, Core

\* A command that has only looked.
LEMMA LookingStep ==
    ASSUME SkillInv, UNCHANGED <<files, store, run, answered, starts>>,
           command' \in Commands, excluded' \subseteq Experiences, commands' \in 0..MaxCommands,
           CommandUnderWay'
    PROVE  SkillInv'
<1>1. UNCHANGED <<manifest, checkpoint, result, pending, curated, rejected, approvals,
                  rejections, current, ledger>>
  BY DEF files, store
<1>2. StoreTypes' /\ answered' \subseteq Decisions
  BY <1>1, CommandFacts DEF StoreTypes, SkillTypes
<1>3. DraftsStay
  BY <1>1 DEF DraftsStay
<1>4. ApprovedDraftActive' /\ AnswersDurable'
  BY <1>1, CommandFacts DEF ApprovedDraftActive, AnswersDurable
<1>5. QED
  BY <1>1, <1>2, <1>3, <1>4, CommandStep

LEMMA EndsQuietly ==
    ASSUME command' = NoCommand
    PROVE  command' \in Commands /\ CommandUnderWay'
BY EmptyTyped DEF NoCommand, CommandUnderWay, ApprovalUnderWay, RejectionUnderWay, At

LEMMA ProceedTyped ==
    ASSUME command \in Commands,
           NEW pc \in {"copy", "place", "record", "point", "log"}, Proceed(pc)
    PROVE  /\ command' \in Commands /\ command'.pc = pc /\ command'.op = command.op
           /\ command'.version = command.version /\ command'.sum = command.sum
           /\ command'.copy = command.copy /\ answered' = answered
BY DEF Proceed, Commands

LEMMA CommandDiesKeeps ==
    ASSUME SkillInv, CommandDies
    PROVE  SkillInv'
<1>1. /\ command' = NoCommand /\ UNCHANGED answered
      /\ UNCHANGED <<excluded, files, store, run, starts, commands>>
  BY DEF CommandDies, EndCommand
<1>2. excluded \subseteq Experiences /\ commands \in 0..MaxCommands
  BY CommandFacts DEF SkillTypes
<1>3. QED
  BY <1>1, <1>2, EndsQuietly, LookingStep

LEMMA ExcludeKeeps ==
    ASSUME SkillInv, NEW e \in Experiences, Exclude(e)
    PROVE  SkillInv'
<1>1. /\ commands < MaxCommands /\ commands' = commands + 1 /\ excluded' = excluded \cup {e}
      /\ UNCHANGED <<files, store, run, command, answered, starts>>
  BY DEF Exclude
<1>2. excluded' \subseteq Experiences /\ commands' \in 0..MaxCommands
  BY <1>1, CommandFacts, SkillAssumption DEF SkillTypes
<1>3. command' \in Commands /\ CommandUnderWay'
  <2>1. UNCHANGED <<pending, curated, rejected, approvals, rejections>>
    BY <1>1 DEF store
  <2>2. CommandUnderWay /\ command \in Commands
    BY CommandFacts
  <2>3. ApprovalUnderWay' /\ RejectionUnderWay'
    BY <1>1, <2>1, <2>2 DEF CommandUnderWay, ApprovalUnderWay, RejectionUnderWay, At,
                            Extends, Archived, Inherited
  <2>4. QED
    BY <1>1, <2>2, <2>3 DEF CommandUnderWay
<1>4. QED
  BY <1>1, <1>2, <1>3, LookingStep

LEMMA StartCommandKeeps ==
    ASSUME SkillInv, NEW op \in {"approve", "reject"}, NEW v \in Versions, StartCommand(op, v)
    PROVE  SkillInv'
<1>1. /\ commands < MaxCommands /\ commands' = commands + 1
      /\ UNCHANGED <<excluded, files, store, run, answered, starts>>
  BY DEF StartCommand
<1>2. PICK sum \in Known(v) :
         command' = [op |-> op, pc |-> "check", version |-> v, sum |-> sum, copy |-> None]
  BY DEF StartCommand
<1>3. sum \in DraftSet
  <2>1. \A package \in Packages : package.draft \in DraftSet
    BY DEF Packages
  <2>2. \A package \in {pending[v], curated[v], rejected[v]} \ {None} : package \in Packages
    BY CommandFacts DEF Area
  <2>3. QED
    BY <2>1, <2>2 DEF Known
<1>4. excluded' \subseteq Experiences /\ commands' \in 0..MaxCommands
  BY <1>1, CommandFacts, SkillAssumption DEF SkillTypes
<1>5. command' \in Commands
  BY <1>2, <1>3, VersionFacts DEF Commands
<1>6. /\ command'.pc = "check" /\ command'.op = op /\ command'.version = v
      /\ command'.sum = sum
  BY <1>2
<1>7. CommandUnderWay'
  BY <1>3, <1>6 DEF CommandUnderWay, ApprovalUnderWay, RejectionUnderWay, At
<1>8. QED
  BY <1>1, <1>4, <1>5, <1>7, LookingStep

LEMMA CheckApprovalKeeps ==
    ASSUME SkillInv, CheckApproval
    PROVE  SkillInv'
<1>1. /\ At("approve", "check")
      /\ UNCHANGED <<excluded, files, store, run, starts, commands>>
  BY DEF CheckApproval
<1>2. excluded \subseteq Experiences /\ commands \in 0..MaxCommands
  BY CommandFacts DEF SkillTypes
<1>3. CASE EndCommand
  BY <1>1, <1>2, <1>3, EndsQuietly, LookingStep DEF EndCommand
<1>4. CASE Approvable(pending[command.version], command.sum) /\ Proceed("copy")
  <2>1. /\ command' \in Commands /\ command'.pc = "copy" /\ command'.op = command.op
        /\ command'.version = command.version /\ command'.sum = command.sum /\ answered' = answered
    BY <1>4, CommandFacts, ProceedTyped
  <2>2. pending[command.version] # None /\ pending[command.version].draft = command.sum
        /\ Passed(command.sum) /\ pending' = pending
    BY <1>1, <1>4 DEF Approvable, Seals, store
  <2>3. CommandUnderWay'
    BY <1>1, <2>1, <2>2, CommandFacts
       DEF CommandUnderWay, ApprovalUnderWay, RejectionUnderWay, At
  <2>4. QED
    BY <1>1, <1>2, <2>1, <2>3, LookingStep
<1>5. QED
  BY <1>3, <1>4 DEF CheckApproval

LEMMA CopyPackageKeeps ==
    ASSUME SkillInv, CopyPackage
    PROVE  SkillInv'
<1> DEFINE v == command.version
<1>1. /\ At("approve", "copy")
      /\ UNCHANGED <<excluded, files, store, run, starts, commands>>
  BY DEF CopyPackage
<1>2. excluded \subseteq Experiences /\ commands \in 0..MaxCommands
  BY CommandFacts DEF SkillTypes
<1>3. UNCHANGED <<pending, curated, rejected, approvals, rejections>>
  BY <1>1 DEF store
<1>4. Passed(command.sum) /\ pending[v] # None /\ pending[v].draft = command.sum
      /\ v \in Versions /\ command.sum \in DraftSet /\ Extends(pending[v].draft, v)
  BY <1>1, CommandFacts DEF CommandUnderWay, ApprovalUnderWay, At, DraftsExtend
<1>5. CASE EndCommand
  BY <1>1, <1>2, <1>5, EndsQuietly, LookingStep DEF EndCommand
<1>6. CASE curated[v] # None /\ Seals(curated[v], command.sum) /\ Proceed("record")
  <2>1. /\ command' \in Commands /\ command'.pc = "record" /\ command'.op = command.op
        /\ command'.version = command.version /\ command'.sum = command.sum /\ answered' = answered
    BY <1>6, CommandFacts, ProceedTyped
  <2>2. curated[v].draft = command.sum
    BY <1>6 DEF Seals
  <2>3. CommandUnderWay'
    BY <1>1, <1>3, <1>4, <1>6, <2>1, <2>2
       DEF CommandUnderWay, ApprovalUnderWay, RejectionUnderWay, At
  <2>4. QED
    BY <1>1, <1>2, <2>1, <2>3, LookingStep
<1>7. CASE /\ curated[v] = None
           /\ command' = [command EXCEPT !.pc = "place", !.copy = pending[v]]
           /\ UNCHANGED answered
  <2>1. pending[v] \in Packages
    BY <1>4, CommandFacts DEF Area
  <2>2. PICK p \in Packages : p = pending[v]
    BY <2>1
  <2>3. /\ command' \in Commands /\ command'.pc = "place" /\ command'.op = command.op
        /\ command'.version = v /\ command'.sum = command.sum /\ command'.copy = p
    BY <1>7, <2>2, CommandFacts DEF Commands
  <2>4. Extends(p.draft, v)'
    BY <1>3, <1>4, <2>2, <2>3 DEF Extends, Archived, Inherited
  <2>5. CommandUnderWay'
    BY <1>1, <1>3, <1>4, <1>7, <2>2, <2>3, <2>4
       DEF CommandUnderWay, ApprovalUnderWay, RejectionUnderWay, At
  <2>6. QED
    BY <1>1, <1>2, <1>7, <2>3, <2>5, LookingStep
<1>8. QED
  BY <1>4, <1>5, <1>6, <1>7 DEF CopyPackage

\* The version is placed once: no archived version changes.
LEMMA PlaceVersionKeeps ==
    ASSUME SkillInv, PlaceVersion
    PROVE  SkillInv'
<1>1. /\ At("approve", "place") /\ curated' = [curated EXCEPT ![command.version] = command.copy]
      /\ Proceed("record")
      /\ UNCHANGED <<excluded, manifest, checkpoint, result, pending, rejected, approvals,
                     rejections, current, ledger, run, starts, commands>>
  BY DEF PlaceVersion, files
<1>2. PICK v \in Versions, p \in Packages : v = command.version /\ p = command.copy
  BY <1>1, CommandFacts DEF CommandUnderWay, ApprovalUnderWay, At, Commands
<1>3. /\ Passed(command.sum) /\ p.draft = command.sum /\ Extends(p.draft, v)
      /\ curated[v] = None /\ p # None
  BY <1>1, <1>2, CommandFacts DEF CommandUnderWay, ApprovalUnderWay, At
<1>4. /\ command' \in Commands /\ command'.pc = "record" /\ command'.op = command.op
      /\ command'.version = v /\ command'.sum = command.sum /\ answered' = answered
  BY <1>1, <1>2, CommandFacts, ProceedTyped
<1>5. curated' \in Area /\ curated'[v] = p /\ \A u \in Versions : u # v => curated'[u] = curated[u]
  BY <1>1, <1>2, CommandFacts DEF Area
<1>6. DraftsStay
  BY <1>1, <1>3, <1>5 DEF DraftsStay
<1>7. Extends(p.draft, v)'
  <2>1. PICK d : d = p.draft
    OBVIOUS
  <2>2. QED
    BY <1>3, <1>6, <2>1, ExtendsStays
<1>8. StoreTypes' /\ answered' \subseteq Decisions /\ excluded' \subseteq Experiences
      /\ commands' \in 0..MaxCommands
  BY <1>1, <1>4, <1>5, CommandFacts DEF StoreTypes, SkillTypes
<1>9. CommandUnderWay'
  BY <1>1, <1>2, <1>3, <1>4, <1>5, CommandFacts
     DEF CommandUnderWay, ApprovalUnderWay, RejectionUnderWay, At
<1>10. ApprovedDraftActive'
  BY <1>1, <1>3, <1>5, CommandFacts DEF ApprovedDraftActive, StoreTypes
<1>11. AnswersDurable'
  BY <1>1, <1>3, <1>4, <1>5, CommandFacts DEF AnswersDurable, SkillTypes, Decisions
<1>12. \A u \in Versions :
          /\ pending'[u] \in {pending[u], None}
          /\ curated'[u] # None /\ curated[u] = None => Extends(curated[u].draft, u)'
  BY <1>1, <1>3, <1>5, <1>7
<1>13. QED
  BY <1>1, <1>4, <1>6, <1>8, <1>9, <1>10, <1>11, <1>12, CommandStep

\* What a decision writes about a version that is archived or rejected already.
LEMMA DecidingStep ==
    ASSUME SkillInv,
           UNCHANGED <<excluded, files, pending, curated, rejected, run, starts, commands>>,
           DOMAIN approvals' = Versions, DOMAIN rejections' = Versions,
           current' \in [version : Versions, sum : DraftSet] \cup {None},
           command' \in Commands, answered' \subseteq Decisions,
           CommandUnderWay', ApprovedDraftActive', AnswersDurable'
    PROVE  SkillInv'
<1>1. StoreTypes' /\ excluded' \subseteq Experiences /\ commands' \in 0..MaxCommands
  BY CommandFacts DEF StoreTypes, SkillTypes
<1>2. DraftsStay
  BY DEF DraftsStay
<1>3. QED
  BY <1>1, <1>2, CommandStep DEF files

LEMMA RecordApprovalKeeps ==
    ASSUME SkillInv, RecordApproval
    PROVE  SkillInv'
<1>1. /\ At("approve", "record")
      /\ approvals' = [approvals EXCEPT ![command.version] = command.sum]
      /\ Proceed("point")
      /\ UNCHANGED <<excluded, files, pending, curated, rejected, rejections, current, ledger,
                     run, starts, commands>>
  BY DEF RecordApproval
<1>2. PICK v \in Versions : v = command.version
  BY <1>1, CommandFacts DEF At
<1>3. Passed(command.sum) /\ curated[v] # None /\ curated[v].draft = command.sum
  BY <1>1, <1>2, CommandFacts DEF CommandUnderWay, ApprovalUnderWay, At
<1>4. /\ command' \in Commands /\ command'.pc = "point" /\ command'.op = command.op
      /\ command'.version = v /\ command'.sum = command.sum /\ answered' = answered
  BY <1>1, <1>2, CommandFacts, ProceedTyped
<1>5. /\ DOMAIN approvals' = Versions /\ approvals'[v] = command.sum
      /\ \A u \in Versions : u # v => approvals'[u] = approvals[u]
  BY <1>1, <1>2, CommandFacts DEF StoreTypes
<1>6. CommandUnderWay'
  BY <1>1, <1>2, <1>3, <1>4, <1>5, CommandFacts
     DEF CommandUnderWay, ApprovalUnderWay, RejectionUnderWay, At
<1>7. ApprovedDraftActive'
  BY <1>1, <1>3, <1>5, CommandFacts DEF ApprovedDraftActive, StoreTypes
<1>8. AnswersDurable'
  BY <1>1, <1>3, <1>4, <1>5, CommandFacts DEF AnswersDurable, SkillTypes, Decisions
<1>9. QED
  BY <1>1, <1>4, <1>5, <1>6, <1>7, <1>8, CommandFacts, DecidingStep DEF StoreTypes, SkillTypes

LEMMA PointCurrentKeeps ==
    ASSUME SkillInv, PointCurrent
    PROVE  SkillInv'
<1>1. /\ At("approve", "point")
      /\ current' = [version |-> command.version, sum |-> command.sum]
      /\ Proceed("log")
      /\ UNCHANGED <<excluded, files, pending, curated, rejected, approvals, rejections, ledger,
                     run, starts, commands>>
  BY DEF PointCurrent
<1>2. command.version \in Versions /\ command.sum \in DraftSet
  BY <1>1, CommandFacts DEF At
<1>3. /\ Passed(command.sum)
      /\ curated[command.version] # None /\ curated[command.version].draft = command.sum
      /\ approvals[command.version] = command.sum
  BY <1>1, CommandFacts DEF CommandUnderWay, ApprovalUnderWay, At
<1>4. /\ command' \in Commands /\ command'.pc = "log" /\ command'.op = command.op
      /\ command'.version = command.version /\ command'.sum = command.sum /\ answered' = answered
  BY <1>1, CommandFacts, ProceedTyped
<1>5. current' \in [version : Versions, sum : DraftSet] \cup {None}
  BY <1>1, <1>2
<1>6. CommandUnderWay'
  BY <1>1, <1>2, <1>3, <1>4, CommandFacts
     DEF CommandUnderWay, ApprovalUnderWay, RejectionUnderWay, At
<1>7. ApprovedDraftActive'
  BY <1>1, <1>3 DEF ApprovedDraftActive
<1>8. AnswersDurable'
  BY <1>1, <1>4, CommandFacts DEF AnswersDurable
<1>9. QED
  BY <1>1, <1>4, <1>5, <1>6, <1>7, <1>8, CommandFacts, DecidingStep DEF StoreTypes, SkillTypes

LEMMA LogDecisionKeeps ==
    ASSUME SkillInv, LogDecision
    PROVE  SkillInv'
<1> DEFINE event == Event(command.op, command.version, command.sum)
<1>1. /\ command.pc = "log" /\ ledger' = ledger \cup {event}
      /\ answered' = answered \cup {event} /\ command' = NoCommand
      /\ UNCHANGED <<excluded, files, pending, curated, rejected, approvals, rejections, current,
                     run, starts, commands>>
  BY DEF LogDecision, Answer
<1>2. /\ command.op \in {"approve", "reject"} /\ command.version \in Versions
      /\ command.sum \in DraftSet
  BY <1>1, CommandFacts
<1>3. /\ event \in Decisions /\ event.type = command.op /\ event.version = command.version
      /\ event.sum = command.sum
  BY <1>2 DEF Event, Decisions
<1> HIDE DEF event
<1>4. answered' \subseteq Decisions
  BY <1>1, <1>3, CommandFacts DEF SkillTypes
<1>5. command.op = "approve" =>
          /\ curated[command.version] # None /\ curated[command.version].draft = command.sum
          /\ approvals[command.version] = command.sum
  BY <1>1, CommandFacts DEF CommandUnderWay, ApprovalUnderWay
<1>6. command.op = "reject" =>
          /\ rejected[command.version] # None /\ rejected[command.version].draft = command.sum
          /\ rejections[command.version] = command.sum
  BY <1>1, CommandFacts DEF CommandUnderWay, RejectionUnderWay, At
<1>7. AnswersDurable'
  BY <1>1, <1>3, <1>5, <1>6, CommandFacts DEF AnswersDurable
<1>8. ApprovedDraftActive'
  BY <1>1, CommandFacts DEF ApprovedDraftActive
<1>9. QED
  BY <1>1, <1>4, <1>7, <1>8, CommandFacts, EndsQuietly, DecidingStep DEF StoreTypes

LEMMA RecordRejectionKeeps ==
    ASSUME SkillInv, RecordRejection
    PROVE  SkillInv'
<1>1. /\ At("reject", "record")
      /\ rejections' = [rejections EXCEPT ![command.version] = command.sum]
      /\ Proceed("log")
      /\ UNCHANGED <<excluded, files, pending, curated, rejected, approvals, current, ledger,
                     run, starts, commands>>
  BY DEF RecordRejection
<1>2. PICK v \in Versions : v = command.version
  BY <1>1, CommandFacts DEF At
<1>3. rejected[v] # None /\ rejected[v].draft = command.sum
  BY <1>1, <1>2, CommandFacts DEF CommandUnderWay, RejectionUnderWay, At
<1>4. /\ command' \in Commands /\ command'.pc = "log" /\ command'.op = command.op
      /\ command'.version = v /\ command'.sum = command.sum /\ answered' = answered
  BY <1>1, <1>2, CommandFacts, ProceedTyped
<1>5. /\ DOMAIN rejections' = Versions /\ rejections'[v] = command.sum
      /\ \A u \in Versions : u # v => rejections'[u] = rejections[u]
  BY <1>1, <1>2, CommandFacts DEF StoreTypes
<1>6. CommandUnderWay'
  BY <1>1, <1>2, <1>3, <1>4, <1>5, CommandFacts
     DEF CommandUnderWay, ApprovalUnderWay, RejectionUnderWay, At
<1>7. ApprovedDraftActive'
  BY <1>1, CommandFacts DEF ApprovedDraftActive
<1>8. AnswersDurable'
  BY <1>1, <1>3, <1>4, <1>5, CommandFacts DEF AnswersDurable, SkillTypes, Decisions
<1>9. QED
  BY <1>1, <1>4, <1>5, <1>6, <1>7, <1>8, CommandFacts, DecidingStep DEF StoreTypes, SkillTypes

\* A rejection that is answered again, given up, or recorded for a version rejected
\* before, and one that moves the package away.
LEMMA CheckRejectionKeeps ==
    ASSUME SkillInv, CheckRejection
    PROVE  SkillInv'
<1> DEFINE there == pending[command.version]
           past == rejected[command.version]
           event == Event(command.op, command.version, command.sum)
<1>1. /\ At("reject", "check")
      /\ UNCHANGED <<excluded, files, curated, approvals, rejections, current, ledger,
                     run, starts, commands>>
  BY DEF CheckRejection
<1>2. command.version \in Versions /\ command.sum \in DraftSet
  BY <1>1, CommandFacts DEF At
<1>3. ApprovedDraftActive' /\ StoreTypes /\ answered \subseteq Decisions
  BY <1>1, CommandFacts DEF ApprovedDraftActive, SkillTypes
<1>4. CASE EndCommand /\ UNCHANGED <<pending, rejected>>
  <2>1. AnswersDurable' /\ answered' \subseteq Decisions
    BY <1>1, <1>3, <1>4, CommandFacts DEF AnswersDurable, EndCommand
  <2>2. QED
    BY <1>1, <1>3, <1>4, <2>1, EndsQuietly, DecidingStep DEF EndCommand, StoreTypes
<1>5. CASE /\ past # None /\ Seals(past, command.sum) /\ rejections[command.version] = command.sum
           /\ Answer /\ UNCHANGED <<pending, rejected>>
  <2>1. answered' = answered \cup {event} /\ command' = NoCommand
    BY <1>5 DEF Answer
  <2>2. /\ event \in Decisions /\ event.type = "reject" /\ event.version = command.version
        /\ event.sum = command.sum
    BY <1>1, <1>2 DEF Event, Decisions, At
  <2> HIDE DEF event
  <2>3. AnswersDurable' /\ answered' \subseteq Decisions
    BY <1>1, <1>3, <1>5, <2>1, <2>2, CommandFacts DEF AnswersDurable, Seals
  <2>4. QED
    BY <1>1, <1>3, <1>5, <2>1, <2>3, EndsQuietly, DecidingStep DEF StoreTypes
<1>6. CASE past # None /\ past.draft = command.sum /\ Proceed("record") /\ UNCHANGED <<pending, rejected>>
  <2>1. /\ command' \in Commands /\ command'.pc = "record" /\ command'.op = command.op
        /\ command'.version = command.version /\ command'.sum = command.sum /\ answered' = answered
    BY <1>6, CommandFacts, ProceedTyped
  <2>2. CommandUnderWay'
    BY <1>1, <1>2, <1>6, <2>1 DEF CommandUnderWay, ApprovalUnderWay, RejectionUnderWay, At
  <2>3. AnswersDurable'
    BY <1>1, <1>6, <2>1, CommandFacts DEF AnswersDurable
  <2>4. QED
    BY <1>1, <1>3, <1>6, <2>1, <2>2, <2>3, DecidingStep DEF StoreTypes
<1>7. CASE /\ there # None /\ Seals(there, command.sum) /\ past = None
           /\ rejected' = [rejected EXCEPT ![command.version] = there]
           /\ pending' = [pending EXCEPT ![command.version] = None]
           /\ Proceed("record")
  <2>1. PICK v \in Versions, p \in Packages : v = command.version /\ p = there
    BY <1>2, <1>7, CommandFacts DEF Area
  <2>2. /\ command' \in Commands /\ command'.pc = "record" /\ command'.op = command.op
        /\ command'.version = command.version /\ command'.sum = command.sum /\ answered' = answered
    BY <1>7, CommandFacts, ProceedTyped
  <2>3. /\ rejected' \in Area /\ rejected'[v] = p
        /\ \A u \in Versions : u # v => rejected'[u] = rejected[u]
    BY <1>7, <2>1, CommandFacts DEF Area
  <2>4. /\ pending' \in Area /\ pending'[v] = None
        /\ \A u \in Versions : u # v => pending'[u] = pending[u]
    BY <1>7, <2>1, CommandFacts DEF Area
  <2>5. p # None /\ p.draft = command.sum /\ pending[v] = p /\ rejected[v] = None
    BY <1>7, <2>1 DEF Seals
  <2>6. DraftsStay
    BY <1>1, <2>3, <2>4, <2>5 DEF DraftsStay
  <2>7. CommandUnderWay'
    BY <1>1, <1>2, <2>1, <2>2, <2>3, <2>5
       DEF CommandUnderWay, ApprovalUnderWay, RejectionUnderWay, At
  <2>8. AnswersDurable'
    BY <1>1, <1>3, <2>2, <2>3, <2>5, CommandFacts DEF AnswersDurable, Decisions
  <2>9. UNCHANGED <<manifest, checkpoint, result, run, starts>>
    BY <1>1 DEF files
  <2>10. StoreTypes' /\ answered' \subseteq Decisions /\ excluded' \subseteq Experiences
        /\ commands' \in 0..MaxCommands
    BY <1>1, <1>3, <2>2, <2>3, <2>4, CommandFacts DEF StoreTypes, SkillTypes
  <2>11. \A u \in Versions :
            /\ pending'[u] \in {pending[u], None}
            /\ ~(curated'[u] # None /\ curated[u] = None)
    BY <1>1, <2>1, <2>4
  <2>12. QED
    BY <1>3, <2>2, <2>6, <2>7, <2>8, <2>9, <2>10, <2>11, CommandStep
<1>8. QED
  BY <1>4, <1>5, <1>6, <1>7 DEF CheckRejection, Seals

-----------------------------------------------------------------------------
(* The inductive invariant *)

LEMMA SkillInvInit == Init => SkillInv
<1> SUFFICES ASSUME Init PROVE SkillInv
  OBVIOUS
<1> USE DEF Init
<1>1. SkillTypes
  <2>1. StoreTypes
    BY DEF StoreTypes, Area
  <2>2. RunTypes
    BY EmptyTyped DEF RunTypes
  <2>3. starts \in 0..MaxStarts /\ commands \in 0..MaxCommands
    BY SkillAssumption
  <2>4. QED
    BY <2>1, <2>2, <2>3, EmptyTyped DEF SkillTypes
<1>2. DraftsExtend /\ ApprovedDraftActive /\ AnswersDurable
  BY DEF DraftsExtend, ApprovedDraftActive, AnswersDurable
<1>3. CommandUnderWay
  BY DEF NoCommand, CommandUnderWay, ApprovalUnderWay, RejectionUnderWay, At
<1>4. \A r \in Runs : run[r].pc = "idle" /\ checkpoint[r] = None /\ result[r] = None
  BY DEF Idle
<1>5. RunsUnderWay
  <2>1. ASSUME NEW r \in Runs PROVE ~Working(r) /\ SavedAnswer(r) /\ RunUnderWay(r)
    BY <1>4 DEF Working, SavedAnswer, RunUnderWay, Writing
  <2>2. ASSUME NEW r \in Runs PROVE ReportKept(r)
    BY <1>4, NoneAssumption DEF ReportKept, Reported, Statuses
  <2>3. QED
    BY <2>1, <2>2 DEF RunsUnderWay, OneRun
<1>6. QED
  BY <1>1, <1>2, <1>3, <1>5 DEF SkillInv, Core

LEMMA SkillInvNext == SkillInv /\ [Next]_vars => SkillInv'
<1> SUFFICES ASSUME SkillInv, [Next]_vars PROVE SkillInv'
  OBVIOUS
<1>1. ASSUME NEW r \in Runs, Phase8(r) PROVE SkillInv'
  BY <1>1, BeginKeeps, AskAuthorKeeps, ReuseAuthorKeeps, AssembleKeeps, WritesKeep,
     ConcludeKeeps, RunDiesKeeps DEF Phase8
<1>2. ASSUME NEW op \in {"approve", "reject"}, NEW v \in Versions, StartCommand(op, v) PROVE SkillInv'
  BY <1>2, StartCommandKeeps
<1>3. CASE Approve
  BY <1>3, CheckApprovalKeeps, CopyPackageKeeps, PlaceVersionKeeps, RecordApprovalKeeps,
     PointCurrentKeeps DEF Approve
<1>4. CASE Reject
  BY <1>4, CheckRejectionKeeps, RecordRejectionKeeps DEF Reject
<1>5. CASE LogDecision
  BY <1>5, LogDecisionKeeps
<1>6. CASE CommandDies
  BY <1>6, CommandDiesKeeps
<1>7. ASSUME NEW e \in Experiences, Exclude(e) PROVE SkillInv'
  BY <1>7, ExcludeKeeps
<1>8. CASE UNCHANGED vars
  <2>1. UNCHANGED <<manifest, checkpoint, result, pending, curated, rejected, approvals,
                    rejections, current, ledger, run, command, answered, starts, commands,
                    excluded>>
    BY <1>8 DEF vars, files, store
  <2>2. SkillTypes'
    BY <2>1, CommandFacts DEF SkillTypes, StoreTypes, RunTypes
  <2>3. CommandUnderWay'
    BY <2>1, CommandFacts DEF CommandUnderWay, ApprovalUnderWay, RejectionUnderWay, At,
                              Extends, Archived, Inherited
  <2>4. QED
    BY <2>1, <2>2, <2>3, LookingStep DEF SkillTypes, files, store
<1>9. QED
  BY <1>1, <1>2, <1>3, <1>4, <1>5, <1>6, <1>7, <1>8 DEF Next

\* Every reachable state satisfies the invariant (workflow.py, assets.py, cli.py).
THEOREM SpecImpliesSkillInv == Spec => []SkillInv
<1>1. Init => SkillInv
  BY SkillInvInit
<1>2. SkillInv /\ [Next]_vars => SkillInv'
  BY SkillInvNext
<1>3. QED
  BY <1>1, <1>2, PTL DEF Spec

LEMMA SkillInvTypes == SkillInv => TypeOK
<1> SUFFICES ASSUME SkillInv PROVE TypeOK
  OBVIOUS
<1>1. SkillTypes /\ StoreTypes /\ RunTypes /\ command \in Commands
  BY CommandFacts
<1>2. ASSUME NEW r \in Runs
      PROVE  /\ manifest[r] = None \/ manifest[r] \subseteq Experiences
             /\ checkpoint[r] \in Response \cup {None}
             /\ result[r] \in Statuses \cup {None}
             /\ run[r].pc \in {"idle", "author", "assemble", "metadata", "rest", "validate",
                               "seal", "sealreport", "record", "ended"}
             /\ run[r].records \subseteq Experiences
             /\ {run[r].active, run[r].version} \subseteq 0..MaxVersion
  BY <1>1 DEF RunTypes, Memory
<1>3. ASSUME NEW package \in Packages PROVE Drafts(package)
  <2>1. package.draft \in DraftSet /\ package.draft.slots \in Evidence
    BY DEF Packages, DraftSet
  <2>2. PICK slots \in SUBSET Slot : package.draft.slots \in [slots -> SUBSET Experiences]
    BY <2>1 DEF Evidence
  <2>3. QED
    BY <2>1, <2>2 DEF Packages, DraftSet, Drafts
<1>4. ASSUME NEW v \in Versions, NEW area \in {pending, curated, rejected}, area[v] # None
      PROVE  Drafts(area[v])
  BY <1>1, <1>3, <1>4 DEF StoreTypes, Area
<1>5. current # None => current.version \in Versions
  BY <1>1 DEF StoreTypes
<1>6. QED
  BY <1>1, <1>2, <1>4, <1>5 DEF TypeOK, SkillTypes, Commands

\* Whatever Phase 8 and the review commands write, and wherever they die, the files of
\* the runs and of the store keep their types.
THEOREM SpecImpliesTypeOK == Spec => []TypeOK
<1>1. SkillInv => TypeOK
  BY SkillInvTypes
<1>2. QED
  BY <1>1, SpecImpliesSkillInv, PTL

LEMMA SkillInvSound == SkillInv => ReviewSound
<1> SUFFICES ASSUME SkillInv PROVE ReviewSound
  OBVIOUS
<1>1. RevisionsAccumulate
  <2>1. SUFFICES ASSUME NEW v \in Versions \ {1}, curated[v] # None
                 PROVE  /\ curated[v - 1] # None
                        /\ \A slot \in DOMAIN curated[v - 1].draft.slots :
                              /\ slot \in DOMAIN curated[v].draft.slots
                              /\ curated[v].draft.slots[slot] = curated[v - 1].draft.slots[slot]
    BY DEF RevisionsAccumulate
  <2>2. Extends(curated[v].draft, v) /\ v - 1 # 0
    BY <2>1, CommandFacts, VersionFacts DEF DraftsExtend, Versions
  <2>3. QED
    BY <2>2 DEF Extends, Archived, Inherited
<1>2. ReportedPackageKept
  <2>1. SUFFICES ASSUME NEW r \in Runs, Reported(r)
                 PROVE  \E area \in {pending, curated, rejected} : HoldsReport(area, r)
    BY DEF ReportedPackageKept, Reported, HoldsReport
  <2>2. HoldsReport(pending, r) \/ HoldsReport(curated, r) \/ HoldsReport(rejected, r)
    BY <2>1 DEF SkillInv, Core, RunsUnderWay, ReportKept
  <2>3. QED
    BY <2>2
<1>3. QED
  BY <1>1, <1>2, CommandFacts DEF ReviewSound

\* What is active was approved and holds what the person named, an answered decision is
\* complete, a revision only adds, and a reported draft stays, for every number of runs,
\* versions and commands and with deaths anywhere (assets.py approve and reject).
THEOREM SpecImpliesReviewSound == Spec => []ReviewSound
<1>1. SkillInv => ReviewSound
  BY SkillInvSound
<1>2. QED
  BY <1>1, SpecImpliesSkillInv, PTL

===============================================================================
