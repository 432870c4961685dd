---------------------------- MODULE SkillEvolution ----------------------------
(***************************************************************************)
(* Skill evolution (Phase 8) and the store of reviewed skills: experiences  *)
(* are aggregated and validated, the author (an LLM) drafts or revises the  *)
(* skill of the family, the draft is written file by file as a pending      *)
(* package, checked and sealed with a checksum, and a person approves or    *)
(* rejects it with a command of its own.                                    *)
(*                                                                          *)
(* Source: learning/skill_evolution/{workflow,aggregation,validation,       *)
(* promotion,assets,regression,active_loader,cli}.py and                    *)
(* agents/skill_author_agent.py.                                            *)
(*                                                                          *)
(* There is one family and one compatibility scope (catalog.py,             *)
(* aggregation.py:69), hence one skill.  Version n stands for 0.n.0.  A     *)
(* checksum is the draft it seals: the report is a function of the draft.   *)
(***************************************************************************)
EXTENDS Integers, FiniteSets, FiniteSetsExt

CONSTANTS
    Runs,         \* phase8_run_id of the training workflows
    Experiences,  \* records of the experience store
    Record,       \* Record[e]: what aggregation reads of experience e
    Input,        \* Input[r]: experience_ids the workflow of run r produced
    None,         \* a file or directory that does not exist
    Excludable,   \* experiences that may be excluded after they were saved
    MaxUnused,    \* bound: slots an answer of the author leaves unused
    MaxVersion,   \* bound: minor versions
    MaxStarts,    \* bound: starts of Phase 8 runs
    MaxCommands   \* bound: commands of the reviewer and of the maintenance

Stances == {"support", "qualify", "contradict"}

ASSUME SkillAssumption ==
    /\ IsFiniteSet(Experiences)
    /\ \A e \in Experiences :
          /\ Record[e].stance \in Stances
          /\ Record[e].opt \in Int
          /\ Record[e].quality \in 0..100
          /\ {Record[e].tactical, Record[e].valid} \subseteq BOOLEAN
    /\ \A r \in Runs : Input[r] \subseteq Experiences
    /\ Excludable \subseteq Experiences
    /\ {MaxUnused, MaxVersion, MaxStarts, MaxCommands} \subseteq Nat

VARIABLES
    excluded,    \* exclusions.jsonl of the experience store
    manifest,    \* aggregation-manifest.json of each run, or None
    checkpoint,  \* skill-author-response.json of each run, or None
    result,      \* status in phase8-result.json of each run, or None
    pending,     \* pending/<skill>/<version>, or None
    curated,     \* curated/<skill>/versions/<version>, or None
    rejected,    \* rejected/<skill>/<version>, or None
    approvals,   \* checksum in approval-record.json of each version, or None
    rejections,  \* checksum in rejection-record.json of each version, or None
    current,     \* version and checksum in current.json, or None
    ledger,      \* promotion-ledger.jsonl
    run,         \* memory of the Phase 8 runs
    command,     \* the command the reviewer is running
    answered,    \* commands that returned a record (observation)
    starts,      \* starts so far
    commands     \* commands so far

store == <<pending, curated, rejected, approvals, rejections, current, ledger>>
files == <<manifest, checkpoint, result>>
vars == <<excluded, files, store, run, command, answered, starts, commands>>

Versions == 1..MaxVersion

-----------------------------------------------------------------------------
(* Aggregation and validation: pure functions of a set of records.          *)

\* Records that are not scoreable, not tactical or not classified are left out.
Aggregated(records) == {e \in records : Record[e].tactical}

Keys(records) == {Record[e].key : e \in Aggregated(records)}

Rows(records, key, opt) ==
    {e \in Aggregated(records) : Record[e].key = key /\ Record[e].opt = opt}

Optimizations(records, key) ==
    {Record[e].opt : e \in {x \in Aggregated(records) : Record[x].key = key}}

\* One optimization is one piece of evidence; its least favourable row decides.
Stance(records, key, opt) ==
    LET stances == {Record[e].stance : e \in Rows(records, key, opt)}
    IN  CASE "contradict" \in stances -> "contradict"
          [] "contradict" \notin stances /\ "qualify" \in stances -> "qualify"
          [] OTHER -> "support"

WithStance(records, key, stance) ==
    {opt \in Optimizations(records, key) : Stance(records, key, opt) = stance}

\* Quality in percent, the mean over the rows of an optimization.
Quality(records, key, opt) ==
    LET rows == Rows(records, key, opt)
    IN  MapThenSumSet(LAMBDA e : Record[e].quality, rows) \div Cardinality(rows)

MeanQuality(records, key) ==
    LET opts == Optimizations(records, key)
    IN  MapThenSumSet(LAMBDA o : Quality(records, key, o), opts) \div Cardinality(opts)

Eligible(records, key) ==
    LET support == Cardinality(WithStance(records, key, "support"))
    IN  /\ Cardinality(Optimizations(records, key)) >= 2
        /\ support >= 2
        /\ support > Cardinality(WithStance(records, key, "contradict"))
        /\ MeanQuality(records, key) >= 50
        /\ \A e \in Aggregated(records) : Record[e].key = key => Record[e].valid

\* decide: every key of the family must be eligible.
Promotable(records) ==
    Keys(records) # {} /\ \A key \in Keys(records) : Eligible(records, key)

\* Slots are numbered in the order of the optimizations: <key>_<stance>_<n>.
RankFromZero(records, key, stance, opt) ==
    Cardinality({o \in WithStance(records, key, stance) : o < opt})

Rank(records, key, stance, opt) ==
    Cardinality({o \in WithStance(records, key, stance) : o <= opt})

Slots(records) ==
    UNION {{[key |-> key, stance |-> stance, n |-> Rank(records, key, stance, opt)] :
               opt \in WithStance(records, key, stance)} :
           key \in Keys(records), stance \in Stances}

SlotMap(records) ==
    [slot \in Slots(records) |->
        Rows(records, slot.key,
             CHOOSE opt \in WithStance(records, slot.key, slot.stance) :
                 Rank(records, slot.key, slot.stance, opt) = slot.n)]

\* A rule of a skill names the slot of its evidence.  An answer of the author is saved
\* with what it was asked about; a package is its draft and the state of its files.
Slot ==
    {slot \in [key : Keys(Experiences), stance : Stances, n : 1..Cardinality(Experiences)] :
        slot.n <= Cardinality(Optimizations(Experiences, slot.key))}
Content == [slots : SUBSET Slot, clean : BOOLEAN]
Response == [records : SUBSET Experiences, active : 0..MaxVersion, content : Content]
Stamps == {"none", "sentinel", "final"}
DraftsWith(slots) ==
    [records : SUBSET Experiences, clean : BOOLEAN, slots : [slots -> SUBSET Experiences]]
PackagesWith(slots) ==
    [draft : DraftsWith(slots), meta : Stamps, rest : BOOLEAN, report : Stamps]

Statuses == {"NO_PROMOTABLE_EXPERIENCE", "pending_review", "pending_regression_failed"}

\* What does not exist is no status, no answer and no package.
ASSUME NoneAssumption ==
    /\ None \notin Statuses \cup Response
    /\ \A slots \in SUBSET Slot : None \notin PackagesWith(slots)

-----------------------------------------------------------------------------
(* Packages.                                                                *)

\* package_checksum in metadata.json and in the report: absent, the sentinel, or
\* the checksum of the package.  `rest`: the files written after metadata.json.
Opened(draft) == [draft |-> draft, meta |-> "none", rest |-> FALSE, report |-> "none"]

\* compute_skill_package_checksum succeeds and gives `draft`.
Seals(package, draft) ==
    package.meta # "none" /\ package.rest /\ package.report # "none" /\ package.draft = draft

\* The regression report passes all three validations.
Passed(draft) == draft.clean /\ draft.slots # << >>

InheritedNothing(version) == << >>

\* Slots and evidence of the active version, which a revision inherits.
Inherited(version) == IF version = 0 THEN << >> ELSE curated[version].draft.slots

NoContent == [slots |-> {}, clean |-> TRUE]

Idle == [pc |-> "idle", records |-> {}, evidence |-> << >>, active |-> 0,
         content |-> NoContent, version |-> 0, error |-> "none"]

NoCommand == [op |-> "none", pc |-> "none", version |-> 0, sum |-> None, copy |-> None]

Working(r) == run[r].pc \notin {"idle", "ended"}

Init ==
    /\ excluded = {}
    /\ manifest = [r \in Runs |-> None]
    /\ checkpoint = [r \in Runs |-> None]
    /\ result = [r \in Runs |-> None]
    /\ pending = [v \in Versions |-> None]
    /\ curated = [v \in Versions |-> None]
    /\ rejected = [v \in Versions |-> None]
    /\ approvals = [v \in Versions |-> None]
    /\ rejections = [v \in Versions |-> None]
    /\ current = None
    /\ ledger = {}
    /\ run = [r \in Runs |-> Idle]
    /\ command = NoCommand
    /\ answered = {}
    /\ starts = 0
    /\ commands = 0

-----------------------------------------------------------------------------
(* SkillEvolutionWorkflow.run                                               *)

Fail(r, error) ==
    run' = [run EXCEPT ![r] = [Idle EXCEPT !.pc = "ended", !.error = error]]

Goto(r, pc) == run' = [run EXCEPT ![r].pc = pc]

\* ActiveSkillLoader.load: the package current.json points to is the one it names.
Loadable ==
    current # None =>
        /\ curated[current.version] # None
        /\ curated[current.version].meta = "final"
        /\ Seals(curated[current.version], current.sum)

ActiveVersion == IF current = None THEN 0 ELSE current.version

Begin(r) ==
    LET records == Input[r] \ excluded IN
    /\ \A other \in Runs : ~Working(other)  \* one Runtime at a time
    /\ starts < MaxStarts
    /\ ActiveVersion < MaxVersion
    /\ starts' = starts + 1
    /\ \/ /\ manifest[r] \notin {None, records}
          /\ Fail(r, "input_conflict")
          /\ UNCHANGED <<manifest, result>>
       \/ /\ manifest[r] \in {None, records}
          /\ Keys(records) # {} /\ ~Loadable
          /\ Fail(r, "active_unloadable")
          /\ UNCHANGED <<manifest, result>>
       \/ /\ manifest[r] \in {None, records}
          /\ Loadable /\ Promotable(records)
          /\ manifest' = [manifest EXCEPT ![r] = records]
          /\ run' = [run EXCEPT ![r] = [Idle EXCEPT !.pc = "author", !.records = records,
                                                    !.evidence = SlotMap(records),
                                                    !.active = ActiveVersion]]
          /\ UNCHANGED result
       \/ /\ manifest[r] \in {None, records}
          /\ (Keys(records) # {} => Loadable) /\ ~Promotable(records)
          /\ manifest' = [manifest EXCEPT ![r] = records]
          /\ result' = [result EXCEPT ![r] = "NO_PROMOTABLE_EXPERIENCE"]
          /\ run' = [run EXCEPT ![r] = [Idle EXCEPT !.pc = "ended"]]
    /\ UNCHANGED <<excluded, checkpoint, store, command, answered, commands>>

\* apply_skill_revision: the rules of the active skill stay and new ones are added.
Revised(active, used) == DOMAIN Inherited(active) \cup used

\* The answers the parsers of SkillAuthorAgent accept.
Answers(me) ==
    {[slots |-> Revised(me.active, used), clean |-> clean] :
        clean \in BOOLEAN,
        used \in {slots \in SUBSET DOMAIN me.evidence :
                    /\ Cardinality(DOMAIN me.evidence \ slots) <= MaxUnused
                    /\ slots # {} \/ me.active # 0}}

\* create or revise: the answer is written before anything is built from it.
AskAuthor(r) ==
    LET me == run[r] IN
    /\ me.pc = "author" /\ checkpoint[r] = None
    /\ \/ Fail(r, "author_failed") /\ UNCHANGED checkpoint
       \/ \E content \in Answers(me) :
             /\ checkpoint' = [checkpoint EXCEPT ![r] =
                    [records |-> me.records, active |-> me.active, content |-> content]]
             /\ run' = [run EXCEPT ![r].content = content, ![r].pc = "assemble"]
    /\ UNCHANGED <<excluded, manifest, result, store, command, answered, starts, commands>>

\* skill_draft_from_dict: a saved answer is read back against the slots of this context.
ReadBack(content, me) == content.slots \subseteq DOMAIN me.evidence

\* A saved answer is used again when it was given for the same experiences and the
\* same active skill.
ReuseAuthor(r) ==
    LET me == run[r]
        saved == checkpoint[r]
        same == <<saved.records, saved.active>> = <<me.records, me.active>> IN
    /\ me.pc = "author" /\ saved # None
    /\ \/ ~same /\ Fail(r, "checkpoint_conflict")
       \/ same /\ ~ReadBack(saved.content, me) /\ Fail(r, "slot_unknown")
       \/ /\ same /\ ReadBack(saved.content, me)
          /\ run' = [run EXCEPT ![r].content = saved.content, ![r].pc = "assemble"]
    /\ UNCHANGED <<excluded, files, store, command, answered, starts, commands>>

\* skill_source_slot_conflict: a slot inherited with other evidence.
SlotsClash(inherited, new) ==
    \E slot \in DOMAIN inherited \cap DOMAIN new : inherited[slot] # new[slot]

Draft(me) ==
    LET inherited == Inherited(me.active)
        new == me.evidence
    IN  [records |-> me.records, clean |-> me.content.clean,
         slots |-> [slot \in me.content.slots |->
                       IF slot \in DOMAIN new THEN new[slot] ELSE inherited[slot]]]

OccupiedByFragment(package, draft) ==
    package # None /\ package.meta = "none"

\* pending_skill_conflict: another draft has the version, or an unfinished directory.
Occupied(package, draft) ==
    package # None /\ (package.meta = "none" \/ package.draft # draft)

\* assemble_pending and the check at the head of write_pending.
Assemble(r) ==
    LET me == run[r]
        version == me.active + 1
        clash == SlotsClash(Inherited(me.active), me.evidence)
        occupied == Occupied(pending[version], Draft(me)) IN
    /\ me.pc = "assemble"
    /\ \/ clash /\ Fail(r, "slot_conflict") /\ UNCHANGED pending
       \/ ~clash /\ occupied /\ Fail(r, "pending_conflict") /\ UNCHANGED pending
       \/ /\ ~clash /\ ~occupied
          /\ pending[version] # None
          /\ run' = [run EXCEPT ![r].pc = "validate", ![r].version = version]
          /\ UNCHANGED pending
       \/ /\ ~clash /\ ~occupied
          /\ pending[version] = None
          /\ pending' = [pending EXCEPT ![version] = Opened(Draft(me))]
          /\ run' = [run EXCEPT ![r].pc = "metadata", ![r].version = version]
    /\ UNCHANGED <<excluded, files, curated, rejected, approvals, rejections, current, ledger,
                   command, answered, starts, commands>>

\* A write into the pending package of the run; the directory may have moved away.
WritePackage(r, package, next) ==
    /\ \/ /\ pending[run[r].version] = None
          /\ Fail(r, "package_gone") /\ UNCHANGED pending
       \/ /\ pending[run[r].version] # None
          /\ pending' = [pending EXCEPT ![run[r].version] = package]
          /\ Goto(r, next)
    /\ UNCHANGED <<excluded, files, curated, rejected, approvals, rejections, current, ledger,
                   command, answered, starts, commands>>

Package(r) == pending[run[r].version]

WriteMetadata(r) ==
    /\ run[r].pc = "metadata"
    /\ WritePackage(r, [Package(r) EXCEPT !.meta = "sentinel"], "rest")

WriteRest(r) ==
    /\ run[r].pc = "rest"
    /\ WritePackage(r, [Package(r) EXCEPT !.rest = TRUE], "validate")

\* SkillRegressionService.validate reads the evidence manifest of the package; then
\* save_regression_report writes the report and the metadata with the sentinel.  (A
\* death between the two leaves what one between Seal and SealReport leaves.)
Validate(r) ==
    /\ run[r].pc = "validate"
    /\ IF Package(r) # None /\ Package(r).rest
       THEN WritePackage(r, [Package(r) EXCEPT !.report = "sentinel", !.meta = "sentinel"], "seal")
       ELSE /\ Fail(r, "file_missing")
            /\ UNCHANGED <<excluded, files, store, command, answered, starts, commands>>

\* Then the metadata and after it the report with the checksum of the package.
Seal(r) ==
    /\ run[r].pc = "seal"
    /\ WritePackage(r, [Package(r) EXCEPT !.meta = "final"], "sealreport")

SealReport(r) ==
    /\ run[r].pc = "sealreport"
    /\ WritePackage(r, [Package(r) EXCEPT !.report = "final"], "record")

Event(type, version, sum) == [type |-> type, version |-> version, sum |-> sum]

\* Both ledger events, the indexes, the manifest of packages and phase8-result.json.
Conclude(r) ==
    LET version == run[r].version IN
    /\ run[r].pc = "record"
    /\ IF Package(r) = None
       THEN Fail(r, "package_gone") /\ UNCHANGED <<ledger, result>>
       ELSE /\ ledger' = ledger \cup {Event(type, version, Package(r).draft) :
                                         type \in {"regression_completed", "pending_created"}}
            /\ result' = [result EXCEPT ![r] = IF Passed(Package(r).draft) THEN "pending_review"
                                               ELSE "pending_regression_failed"]
            /\ run' = [run EXCEPT ![r] = [Idle EXCEPT !.pc = "ended"]]
    /\ UNCHANGED <<excluded, manifest, checkpoint, pending, curated, rejected, approvals,
                   rejections, current, command, answered, starts, commands>>

\* The Runtime dies; the training loop may start the run again.
RunDies(r) ==
    /\ Working(r)
    /\ run' = [run EXCEPT ![r] = Idle]
    /\ UNCHANGED <<excluded, files, store, command, answered, starts, commands>>

-----------------------------------------------------------------------------
(* manage-phase8-skill approve / reject: one process per command.           *)

\* Checksums a person may have copied from a review or an earlier answer.
Known(version) ==
    {package.draft : package \in {pending[version], curated[version], rejected[version]} \ {None}}

StartCommand(op, version) ==
    /\ command = NoCommand
    /\ commands < MaxCommands
    /\ commands' = commands + 1
    /\ \E sum \in Known(version) :
          command' = [op |-> op, pc |-> "check", version |-> version, sum |-> sum, copy |-> None]
    /\ UNCHANGED <<excluded, files, store, run, answered, starts>>

\* The command raises, or its process dies.
EndCommand == command' = NoCommand /\ UNCHANGED answered
Proceed(pc) == command' = [command EXCEPT !.pc = pc] /\ UNCHANGED answered
Answer ==
    /\ answered' = answered \cup {Event(command.op, command.version, command.sum)}
    /\ command' = NoCommand

CommandDies ==
    /\ command # NoCommand
    /\ EndCommand
    /\ UNCHANGED <<excluded, files, store, run, starts, commands>>

\* _validate_for_approval
Approvable(package, sum) ==
    /\ package # None
    /\ Seals(package, sum)
    /\ package.meta = "final" /\ package.report = "final"
    /\ Passed(package.draft)

At(op, pc) == command.op = op /\ command.pc = pc

CheckApproval ==
    /\ At("approve", "check")
    /\ IF Approvable(pending[command.version], command.sum) THEN Proceed("copy") ELSE EndCommand
    /\ UNCHANGED <<excluded, files, store, run, starts, commands>>

\* An archived version is verified and kept; otherwise the pending tree is copied.
CopyPackage ==
    LET version == command.version IN
    /\ At("approve", "copy")
    /\ \/ /\ curated[version] # None
          /\ IF Seals(curated[version], command.sum) /\ curated[version].meta = "final"
             THEN Proceed("record") ELSE EndCommand
       \/ /\ curated[version] = None
          /\ IF pending[version] = None THEN EndCommand
             ELSE /\ command' = [command EXCEPT !.pc = "place", !.copy = pending[version]]
                  /\ UNCHANGED answered
    /\ UNCHANGED <<excluded, files, store, run, starts, commands>>

PlaceThenPoint ==
    /\ At("approve", "place")
    /\ curated' = [curated EXCEPT ![command.version] = command.copy]
    /\ Proceed("point")
    /\ UNCHANGED <<excluded, files, pending, rejected, approvals, rejections, current, ledger,
                   run, starts, commands>>

PlaceVersion ==
    /\ At("approve", "place")
    /\ curated' = [curated EXCEPT ![command.version] = command.copy]
    /\ Proceed("record")
    /\ UNCHANGED <<excluded, files, pending, rejected, approvals, rejections, current, ledger,
                   run, starts, commands>>

RecordApproval ==
    /\ At("approve", "record")
    /\ approvals' = [approvals EXCEPT ![command.version] = command.sum]
    /\ Proceed("point")
    /\ UNCHANGED <<excluded, files, pending, curated, rejected, rejections, current, ledger,
                   run, starts, commands>>

PointAndAnswer ==
    /\ At("approve", "point")
    /\ current' = [version |-> command.version, sum |-> command.sum]
    /\ Answer
    /\ UNCHANGED <<excluded, files, pending, curated, rejected, approvals, rejections, ledger,
                   run, starts, commands>>

PointCurrent ==
    /\ At("approve", "point")
    /\ current' = [version |-> command.version, sum |-> command.sum]
    /\ Proceed("log")
    /\ UNCHANGED <<excluded, files, pending, curated, rejected, approvals, rejections, ledger,
                   run, starts, commands>>

LogDecision ==
    /\ command.pc = "log"
    /\ ledger' = ledger \cup {Event(command.op, command.version, command.sum)}
    /\ Answer
    /\ UNCHANGED <<excluded, files, pending, curated, rejected, approvals, rejections, current,
                   run, starts, commands>>

\* reject: an archived rejection is answered again, a pending package is moved unless
\* the version was rejected before.
CheckRejection ==
    LET version == command.version
        there == pending[version]
        past == rejected[version] IN
    /\ At("reject", "check")
    /\ \/ /\ there = None
          /\ IF past # None /\ past.meta = "final" /\ Seals(past, command.sum)
                /\ rejections[version] = command.sum
             THEN Answer ELSE EndCommand
          /\ UNCHANGED <<pending, rejected>>
       \/ /\ there # None /\ ~(there.meta = "final" /\ Seals(there, command.sum))
          /\ EndCommand /\ UNCHANGED <<pending, rejected>>
       \/ /\ there # None /\ there.meta = "final" /\ Seals(there, command.sum)
          /\ past # None
          /\ IF past.meta = "final" /\ past.draft = command.sum
             THEN Proceed("record") ELSE EndCommand
          /\ UNCHANGED <<pending, rejected>>
       \/ /\ there # None /\ there.meta = "final" /\ Seals(there, command.sum)
          /\ past = None
          /\ rejected' = [rejected EXCEPT ![version] = there]
          /\ pending' = [pending EXCEPT ![version] = None]
          /\ Proceed("record")
    /\ UNCHANGED <<excluded, files, curated, approvals, rejections, current, ledger,
                   run, starts, commands>>

RecordRejection ==
    /\ At("reject", "record")
    /\ rejections' = [rejections EXCEPT ![command.version] = command.sum]
    /\ Proceed("log")
    /\ UNCHANGED <<excluded, files, pending, curated, rejected, approvals, current, ledger,
                   run, starts, commands>>

\* ExperienceStore.record_exclusions, from the maintenance of the store.
Exclude(e) ==
    /\ e \in Excludable \ excluded
    /\ commands < MaxCommands
    /\ commands' = commands + 1
    /\ excluded' = excluded \cup {e}
    /\ UNCHANGED <<files, store, run, command, answered, starts>>

-----------------------------------------------------------------------------
Phase8(r) ==
    \/ Begin(r) \/ AskAuthor(r) \/ ReuseAuthor(r) \/ Assemble(r)
    \/ WriteMetadata(r) \/ WriteRest(r) \/ Validate(r) \/ Seal(r) \/ SealReport(r)
    \/ Conclude(r) \/ RunDies(r)

Approve == CheckApproval \/ CopyPackage \/ PlaceVersion \/ RecordApproval \/ PointCurrent
Reject == CheckRejection \/ RecordRejection

Next ==
    \/ \E r \in Runs : Phase8(r)
    \/ \E op \in {"approve", "reject"}, v \in Versions : StartCommand(op, v)
    \/ Approve \/ Reject \/ LogDecision \/ CommandDies
    \/ \E e \in Experiences : Exclude(e)

Spec == Init /\ [][Next]_vars

-----------------------------------------------------------------------------
(* Properties.                                                              *)

Drafts(package) ==
    /\ package.draft.records \subseteq Experiences
    /\ {package.meta, package.report} \subseteq Stamps
    /\ {package.rest, package.draft.clean} \subseteq BOOLEAN
    /\ DOMAIN package.draft.slots \subseteq Slot
    /\ \A slot \in DOMAIN package.draft.slots : package.draft.slots[slot] \subseteq Experiences

\* Types of the store, of the files of the runs and of both processes.
TypeOK ==
    /\ excluded \subseteq Experiences
    /\ \A r \in Runs :
          /\ manifest[r] = None \/ manifest[r] \subseteq Experiences
          /\ checkpoint[r] \in Response \cup {None}
          /\ result[r] \in Statuses \cup {None}
          /\ run[r].pc \in {"idle", "author", "assemble", "metadata", "rest", "validate",
                            "seal", "sealreport", "record", "ended"}
          /\ run[r].records \subseteq Experiences
          /\ {run[r].active, run[r].version} \subseteq 0..MaxVersion
    /\ \A v \in Versions, area \in {pending, curated, rejected} :
          area[v] # None => Drafts(area[v])
    /\ current # None => current.version \in Versions
    /\ command.pc \in {"none", "check", "copy", "place", "record", "point", "log"}
    /\ starts \in 0..MaxStarts /\ commands \in 0..MaxCommands

\* Whatever dies between two writes, and whatever Phase 8 does meanwhile: the version
\* current.json names is archived, holds the draft of the checksum a person named, passed
\* its validations and has the record of the approval (assets.py approve).
ApprovedDraftActive ==
    current # None =>
        /\ curated[current.version] # None
        /\ curated[current.version].draft = current.sum
        /\ Passed(current.sum)
        /\ approvals[current.version] = current.sum

\* A revision keeps every rule of the version before it, with the evidence it was
\* bound to, also when versions are approved out of order or approved again.
RevisionsAccumulate ==
    \A v \in Versions \ {1} : curated[v] # None =>
        /\ curated[v - 1] # None
        /\ LET old == curated[v - 1].draft.slots
               new == curated[v].draft.slots
           IN  \A slot \in DOMAIN old : slot \in DOMAIN new /\ new[slot] = old[slot]

\* The package a run reported for review is never overwritten by a later run: it is
\* among the pending, archived or rejected ones with the content its author wrote.
ReportedPackageKept ==
    \A r \in Runs : result[r] \in {"pending_review", "pending_regression_failed"} =>
        \E area \in {pending, curated, rejected} :
            LET package == area[checkpoint[r].active + 1]
            IN  /\ package # None
                /\ package.draft.records = checkpoint[r].records
                /\ DOMAIN package.draft.slots = checkpoint[r].content.slots

\* An approval that was answered is complete: archive, record and ledger event exist,
\* also when earlier attempts at it died half-way and a rejection came later.
AnswersDurable ==
    \A a \in answered :
        /\ a.type = "approve" => /\ curated[a.version] # None /\ curated[a.version].draft = a.sum
                                 /\ approvals[a.version] = a.sum
                                 /\ a \in ledger
        /\ a.type = "reject" => /\ rejected[a.version] # None /\ rejected[a.version].draft = a.sum
                                /\ rejections[a.version] = a.sum

\* Phase 8 and the review commands, dying anywhere and meeting each other anywhere,
\* neither lose nor change what one of them reported: what is active was approved, an
\* answered decision is complete, a reported draft stays, a revision only adds.
ReviewSound ==
    ApprovedDraftActive /\ RevisionsAccumulate /\ ReportedPackageKept /\ AnswersDurable

=============================================================================
