------------------------- MODULE ExperienceLearning -------------------------
(* Experience learning (Phase 7) from the results of a generation: the views  *)
(* of the candidates, the comparison a language model makes of them, the      *)
(* gate its proposals pass, the files of the learning directory and the       *)
(* experience store; with the Worker and the two offline scripts that learn,  *)
(* and the snapshot of knowledge a preview takes from the store.  The results *)
(* are those of a standalone Phase 6 run or of a Campaign.  Sources:          *)
(* learning/builders.py, learning/workflow.py, learning/store.py,             *)
(* agents/comparative_learning_agent.py, scripts/rebuild_phase7_evidence.py,  *)
(* scripts/run_phase7_learning.py, evolution/production_knowledge.py.         *)
EXTENDS CandidateScoring, FiniteSetsExt

CONSTANTS
    None,
    Truths,        \* what may have happened: per slot, the run and what it published
    Replies,       \* usable answers of the language model: sequences of proposals
    EarlierRecords,\* records of earlier generations in the store, by id
    MaxTasks,      \* bound on Workers and scripts that learn
    MaxCrashes,
    MaxSnapshots

VARIABLES
    mode,          \* "phase6" or "campaign"
    truth,         \* [ran, repairs, reset, report, downed] of every slot
    published,     \* execution-summary.json below batch-results
    local,         \* the copy of a Campaign in the attempt directory
    backup,        \* execution-summary.pre-phase7-reconstruction.json
    outcomes,      \* candidate_outcome.json, or None
    board,         \* leaderboard and conclusion, or None
    learning,      \* the files of the learning directory
    records,       \* the store: its records by id
    index,         \* ids of index.jsonl
    excluded,      \* ids of exclusions.jsonl
    task,          \* the Worker or script that is running
    snapshots,     \* the records shown to the previews of this generation, in order
    tasks, crashes

evidence == <<truth, published, local, backup>>
results  == <<mode, outcomes, board>>
store    == <<records, index, excluded>>
bounds   == <<tasks, crashes>>
vars     == <<results, evidence, learning, store, task, snapshots, bounds>>

-----------------------------------------------------------------------------
(* What is learned from and what is learned *)

\* A file of the directory of a slot: the copy of the attempt, or else the published one.
Summary(slot) == IF local[slot] # NoReport THEN local[slot] ELSE published[slot]

\* CandidateLearningView: what the gate reads of it.
View(slot) ==
    [trusted |-> /\ outcomes[slot].execution
                 /\ outcomes[slot].scoreable /\ HasScore(Summary(slot))
                 /\ outcomes[slot].semantic,
     status  |-> IF Summary(slot) = NoReport THEN "MISSING" ELSE Summary(slot).status]

Views == [slot \in Slots |-> View(slot)]

Types == {"tactical_positive", "tactical_negative", "evidence_limitation"}
Tactical == {"tactical_positive", "tactical_negative"}

\* ExperienceProposal: `known` says that its key is one of the catalogue, `countered`
\* that it names conditions under which it does not hold.
Proposal == [key: {"known", "unclassified"}, type: Types, stance: {"support", "contradict", "qualify"},
             support: SUBSET Nat, contradict: SUBSET Nat, countered: BOOLEAN]

Trusted(views, slots) == {s \in slots : views[s].trusted}

\* The proposal passes every check of ExperienceCandidateAssembler.assemble.
Accepted(views, p) ==
    /\ p.support \cup p.contradict \subseteq Slots
    /\ p.support \cap p.contradict = {}
    /\ p.stance = "support" => Trusted(views, p.support) # {}
    /\ p.stance = "contradict" => Trusted(views, p.contradict) # {}
    /\ p.stance = "qualify" => /\ Trusted(views, p.support \cup p.contradict) # {}
                               /\ p.countered

\* The candidates that bear the stance of the proposal.
Relevant(p) ==
    CASE p.stance = "support" -> p.support
      [] p.stance = "contradict" -> p.contradict
      [] p.stance = "qualify" -> p.support \cup p.contradict

\* _scoring_status: a conflict counts as missing.
ScoringStatus(views, slots) ==
    LET statuses == {views[s].status : s \in slots} IN
    CASE statuses = {"COMPLETE"} -> "COMPLETE"
      [] statuses # {"COMPLETE"} /\ statuses # {} /\ statuses \subseteq {"COMPLETE", "DERIVED"} ->
            "DERIVED"
      [] OTHER -> "MISSING"

\* Mutation of Kind: a supporter that cannot be trusted does not matter.
KindOfAnySupport(views, p) ==
    IF \/ p.type \in Tactical /\ p.key = "unclassified"
       \/ ScoringStatus(views, Relevant(p)) = "MISSING"
    THEN "evidence_limitation" ELSE p.type

\* A tactical proposal needs supporters that can all be trusted, a known key and evidence
\* of the scores.
Kind(views, p) ==
    IF \/ p.type \in Tactical /\ (p.support = {} \/ Trusted(views, p.support) # p.support)
       \/ p.type \in Tactical /\ p.key = "unclassified"
       \/ ScoringStatus(views, Relevant(p)) = "MISSING"
    THEN "evidence_limitation" ELSE p.type

\* Percentage of the relevant candidates that can be trusted, at most 40 without evidence.
Quality(views, p) ==
    LET share == (100 * Cardinality(Trusted(views, Relevant(p)))) \div Max({1, Cardinality(Relevant(p))})
    IN  IF ScoringStatus(views, Relevant(p)) = "MISSING" THEN Min({share, 40}) ELSE share

\* generation_result.json: {campaign}_g{index:03d} of a Campaign.
OptimizationId == IF mode = "campaign" THEN "c_g000" ELSE "phase6"

Record(views, p) ==
    [source |-> OptimizationId, key |-> p.key, type |-> Kind(views, p), stance |-> p.stance,
     support |-> p.support, contradict |-> p.contradict, quality |-> Quality(views, p),
     status |-> ScoringStatus(views, Relevant(p)),
     promotable |-> ScoringStatus(views, Relevant(p)) = "COMPLETE"]

\* _assemble_individually: the id holds the place of the proposal in the answer.
Assembled(views, prefix, reply) ==
    LET kept == SelectSeq([i \in 1 .. Len(reply) |-> i], LAMBDA i : Accepted(views, reply[i]))
    IN  [k \in 1 .. Len(kept) |->
            [id |-> <<prefix, kept[k]>>, record |-> Record(views, reply[kept[k]])]]

-----------------------------------------------------------------------------
(* The results of the generation *)

NoFiles == [views |-> FALSE, analysis |-> FALSE, proposals |-> None, candidates |-> None,
            comparisons |-> FALSE]

Idle == [kind |-> "none", pc |-> "idle"]

Init ==
    /\ mode \in {"phase6", "campaign"}
    /\ truth \in Truths
    /\ published = [slot \in Slots |-> truth[slot].report]
    /\ local = [slot \in Slots |->
                   IF mode = "campaign" /\ truth[slot].ran /\ HasScore(truth[slot].report)
                   THEN truth[slot].report ELSE NoReport]
    /\ backup = [slot \in Slots |-> NoReport]
    /\ outcomes = None /\ board = None
    /\ learning = NoFiles
    /\ records = EarlierRecords /\ index = DOMAIN EarlierRecords /\ excluded = {}
    /\ task = Idle
    /\ snapshots = <<>>
    /\ tasks = 0 /\ crashes = 0

\* Mutation of EvaluateCandidates: the run of a candidate counts whatever became of it.
EvaluateAnyRun ==
    /\ outcomes = None
    /\ outcomes' = [slot \in Slots |->
                       IF mode = "phase6"
                       THEN StrictOutcome(slot, truth[slot].report, truth[slot].repairs,
                                          truth[slot].reset)
                       ELSE OfficialOutcome(truth[slot].report, truth[slot].repairs)]
    /\ UNCHANGED <<mode, board, evidence, learning, store, task, snapshots, bounds>>

EvaluateCandidates ==
    /\ outcomes = None
    /\ outcomes' = [slot \in Slots |->
           CASE ~truth[slot].ran -> NotExecuted(truth[slot].repairs)
             [] truth[slot].ran /\ mode = "phase6" ->
                    StrictOutcome(slot, truth[slot].report, truth[slot].repairs, truth[slot].reset)
             [] truth[slot].ran /\ mode = "campaign" ->
                    OfficialOutcome(truth[slot].report, truth[slot].repairs)]
    /\ UNCHANGED <<mode, board, evidence, learning, store, task, snapshots, bounds>>

\* Writes the leaderboard, the diffs and generation_result.json.
RankGeneration ==
    /\ outcomes # None /\ board = None
    /\ board' = [ranks |-> Ranks(mode, outcomes),
                 conclusion |-> IF mode = "phase6" THEN Conclusion(outcomes) ELSE "none"]
    /\ UNCHANGED <<mode, outcomes, evidence, learning, store, task, snapshots, bounds>>

-----------------------------------------------------------------------------
(* GenerationLearningWorkflow.run *)

\* A run for a task: `pass` 2 replays the saved answer of pass 1.
Learner(kind, prefix) ==
    [kind |-> kind, pc |-> "compare", prefix |-> prefix, pass |-> 1, reply |-> <<>>,
     batch |-> <<>>, first |-> <<>>]

Start(kind) ==
    /\ board # None /\ task = Idle /\ tasks < MaxTasks
    /\ tasks' = tasks + 1

\* _completed_phase7_result: what a Worker finds of an earlier one.
LearnedBefore == learning.views /\ learning.analysis /\ learning.candidates # None

\* A Worker that finds a complete result goes on without learning.
StartWorker ==
    /\ mode = "campaign"
    /\ ~LearnedBefore
    /\ Start("worker")
    /\ task' = Learner("worker", 1)
    /\ UNCHANGED <<results, evidence, learning, store, snapshots, crashes>>

\* run_phase7_learning.py, with the default prefix or one of its own.
StartRerun(prefix) ==
    /\ Start("rerun")
    /\ task' = Learner("rerun", prefix)
    /\ UNCHANGED <<results, evidence, learning, store, snapshots, crashes>>

At(pc) == task.kind # "none" /\ task.pc = pc

EndTask ==
    /\ task' = Idle
    /\ UNCHANGED <<results, evidence, learning, store, snapshots, bounds>>

\* The views are built before the model is asked; their content does not change meanwhile.
Compare ==
    /\ At("compare") /\ task.pass = 1
    /\ \E reply \in Replies :
          task' = [task EXCEPT !.pc = "views", !.reply = reply,
                               !.batch = Assembled(Views, task.prefix, reply)]
    /\ UNCHANGED <<results, evidence, learning, store, snapshots, bounds>>

\* All four answers of the model break the response contract, or the client fails.
CompareFails == At("compare") /\ task.pass = 1 /\ EndTask

\* reuse_saved_response
Replay ==
    /\ At("compare") /\ task.pass = 2
    /\ learning.analysis /\ learning.proposals # None /\ learning.comparisons
    /\ task' = [task EXCEPT !.pc = "views", !.reply = learning.proposals,
                            !.batch = Assembled(Views, task.prefix, learning.proposals)]
    /\ UNCHANGED <<results, evidence, learning, store, snapshots, bounds>>

\* One file after the other, each replaced at once.
WriteFile(pc, next, files) ==
    /\ At(pc)
    /\ learning' = files
    /\ task' = [task EXCEPT !.pc = next]
    /\ UNCHANGED <<results, evidence, store, snapshots, bounds>>

WriteViews == WriteFile("views", "analysis", [learning EXCEPT !.views = TRUE])
WriteAnalysis == WriteFile("analysis", "proposals", [learning EXCEPT !.analysis = TRUE])

\* Mutation of WriteProposals: proposals that were rejected are not kept.
WriteAcceptedProposals ==
    WriteFile("proposals", "candidates",
              [learning EXCEPT !.proposals = SelectSeq(task.reply, LAMBDA p : Accepted(Views, p))])

WriteProposals == WriteFile("proposals", "candidates", [learning EXCEPT !.proposals = task.reply])
WriteCandidates == WriteFile("candidates", "comparisons", [learning EXCEPT !.candidates = task.batch])
WriteComparisons == WriteFile("comparisons", "save", [learning EXCEPT !.comparisons = TRUE])

-----------------------------------------------------------------------------
(* ExperienceStore.save *)

Unsaved == {k \in DOMAIN task.batch : task.batch[k].id \notin DOMAIN records}

Conflicting(k) ==
    /\ task.batch[k].id \in DOMAIN records
    /\ records[task.batch[k].id] # task.batch[k].record

\* The next of the batch to be looked at: the ones before are in the store.
IsNext(k) ==
    /\ k \in DOMAIN task.batch
    /\ k \in Unsaved \/ Conflicting(k)
    /\ \A j \in 1 .. k - 1 : j \notin Unsaved /\ ~Conflicting(j)

\* Mutation of SaveRecord: the record of a later answer replaces an earlier one.
SaveOverRecord(k) ==
    /\ At("save")
    /\ IsNext(k)
    /\ records' = (task.batch[k].id :> task.batch[k].record) @@ records
    /\ UNCHANGED <<results, evidence, learning, index, excluded, task, snapshots, bounds>>

\* Mutation of SaveRecord: the index names the whole batch before it is saved.
IndexBatchFirst(k) ==
    /\ At("save")
    /\ IsNext(k) /\ ~Conflicting(k)
    /\ records' = (task.batch[k].id :> task.batch[k].record) @@ records
    /\ index' = index \cup {task.batch[j].id : j \in DOMAIN task.batch}
    /\ UNCHANGED <<results, evidence, learning, excluded, task, snapshots, bounds>>

SaveRecord(k) ==
    /\ At("save")
    /\ IsNext(k) /\ ~Conflicting(k)
    /\ records' = (task.batch[k].id :> task.batch[k].record) @@ records
    /\ UNCHANGED <<results, evidence, learning, index, excluded, task, snapshots, bounds>>

\* experience conflict: the records saved so far stay, the index is not rebuilt.
SaveConflict(k) == At("save") /\ IsNext(k) /\ Conflicting(k) /\ EndTask

\* Mutation of RebuildIndex: the index is rebuilt from the batch.
IndexBatch ==
    /\ At("save")
    /\ ~\E k \in DOMAIN task.batch : IsNext(k)
    /\ index' = {task.batch[k].id : k \in DOMAIN task.batch}
    /\ task' = Idle
    /\ UNCHANGED <<results, evidence, learning, records, excluded, snapshots, bounds>>

\* After the last record the index is rebuilt from all of them.  The rerun then replays
\* its saved answer; the others are done.
RebuildIndex ==
    /\ At("save")
    /\ ~\E k \in DOMAIN task.batch : IsNext(k)
    /\ index' = DOMAIN records
    /\ task' = IF task.kind # "rerun" THEN Idle
               ELSE IF task.pass = 1
               THEN [task EXCEPT !.pc = "compare", !.pass = 2, !.first = task.batch]
               ELSE [task EXCEPT !.pc = "agree"]
    /\ UNCHANGED <<results, evidence, learning, records, excluded, snapshots, bounds>>

\* The script raises when the replay differs from the first pass.
EndRerun == At("agree") /\ task.first = task.batch /\ EndTask

\* exclude_non_retrievable_records: maintenance, which leaves the records as they are.
ExcludeRecords ==
    /\ task = Idle
    /\ \E id \in DOMAIN records : records[id].key = "unclassified" /\ id \notin excluded
    /\ excluded' = excluded \cup {id \in DOMAIN records : records[id].key = "unclassified"}
    /\ UNCHANGED <<results, evidence, learning, records, index, task, snapshots, bounds>>

-----------------------------------------------------------------------------
(* rebuild_phase7_evidence.py *)

StartRebuild ==
    /\ Start("rebuild")
    /\ task' = [kind |-> "rebuild", pc |-> "check", slot |-> Baseline]
    /\ UNCHANGED <<results, evidence, learning, store, snapshots, crashes>>

RebuildAt(pc) == task.kind = "rebuild" /\ At(pc)

\* The first attempt of the slot published a summary with an official score, and its Lua
\* has rules.  An attempt that was repaired published none.
Rebuildable(slot) == truth[slot].repairs = 0 /\ HasScore(published[slot]) /\ Rules # <<>>

\* Otherwise the script raises, and leaves the slots before it as they are.
RebuildRefused == RebuildAt("check") /\ ~Rebuildable(task.slot) /\ EndTask

\* Mutation of BackUp: the summary is copied before every reconstruction.
BackUpAgain ==
    /\ RebuildAt("check")
    /\ Rebuildable(task.slot)
    /\ backup' = [backup EXCEPT ![task.slot] = published[task.slot]]
    /\ task' = [task EXCEPT !.pc = "enrich"]
    /\ UNCHANGED <<results, truth, published, local, learning, store, snapshots, bounds>>

\* The original is copied once.
BackUp ==
    /\ RebuildAt("check")
    /\ Rebuildable(task.slot)
    /\ backup' = [backup EXCEPT ![task.slot] = IF @ = NoReport THEN published[task.slot] ELSE @]
    /\ task' = [task EXCEPT !.pc = "enrich"]
    /\ UNCHANGED <<results, truth, published, local, learning, store, snapshots, bounds>>

Enrich ==
    /\ RebuildAt("enrich")
    /\ published' = [published EXCEPT ![task.slot] = Reconstructed(@, truth[task.slot].downed)]
    /\ task' = [task EXCEPT !.pc = "synchronize"]
    /\ UNCHANGED <<results, truth, local, backup, learning, store, snapshots, bounds>>

\* Only a Campaign keeps the copy the script wants to bring up to date.
NoCopy == RebuildAt("synchronize") /\ local[task.slot] = NoReport /\ EndTask

Synchronize ==
    /\ RebuildAt("synchronize")
    /\ local[task.slot] # NoReport
    /\ local' = [local EXCEPT ![task.slot] = published[task.slot]]
    /\ task' = IF task.slot + 1 \in Slots
               THEN [task EXCEPT !.pc = "check", !.slot = @ + 1]
               ELSE [task EXCEPT !.pc = "rebuilt"]
    /\ UNCHANGED <<results, truth, published, backup, learning, store, snapshots, bounds>>

LearnFromRebuilt ==
    /\ RebuildAt("rebuilt")
    /\ task' = Learner("rebuild", 1)
    /\ UNCHANGED <<results, evidence, learning, store, snapshots, bounds>>

SkipLearning == RebuildAt("rebuilt") /\ EndTask

-----------------------------------------------------------------------------
(* What the next strategies are planned with, and the death of a process *)

\* Mutation of Before: the records of the least evidence come first.
PoorerFirst(i, j) ==
    \/ records[i].quality < records[j].quality
    \/ records[i].quality = records[j].quality /\ i[1] > j[1]

\* A better record comes first; between equals the lower id does.  Of what the retriever
\* sorts by, the dimensions, environment and confidence are alike for all the records.
Before(i, j) ==
    \/ records[i].quality > records[j].quality
    \/ /\ records[i].quality = records[j].quality
       /\ \/ i[1] < j[1]
          \/ i[1] = j[1] /\ i[2] < j[2]

Leading(ids, n) == {i \in ids : Cardinality({j \in ids : Before(j, i)}) < n}

\* ExperienceRetriever.retrieve: no production environment names a mission type.
Retrieved(query) ==
    LET found  == {i \in index \ excluded : records[i].source # query}
        OfType(types) == {i \in found : records[i].type \in types}
    IN  Leading(OfType({"tactical_positive"}), 3) \cup Leading(OfType({"tactical_negative"}), 2)
            \cup OfType({"evidence_limitation"})

\* The current_optimization_id of the query: {campaign}_generation_{index:03d}.
QueryId == "c_generation_000"

\* KnowledgeSnapshotService.freeze, for a preview of this generation.  A card names no
\* generation, which counts as an earlier one.
FreezeKnowledge ==
    /\ mode = "campaign"
    /\ Len(snapshots) < MaxSnapshots
    /\ snapshots' = Append(snapshots, Retrieved(QueryId))
    /\ UNCHANGED <<results, evidence, learning, store, task, bounds>>

Crash ==
    /\ task # Idle /\ crashes < MaxCrashes
    /\ crashes' = crashes + 1
    /\ task' = Idle
    /\ UNCHANGED <<results, evidence, learning, store, snapshots, tasks>>

Learn ==
    \/ Compare \/ CompareFails \/ Replay
    \/ WriteViews \/ WriteAnalysis \/ WriteProposals \/ WriteCandidates \/ WriteComparisons
    \/ \E k \in 1 .. 2 : SaveRecord(k) \/ SaveConflict(k)
    \/ RebuildIndex \/ EndRerun

Rebuild ==
    \/ StartRebuild \/ RebuildRefused \/ BackUp \/ Enrich \/ NoCopy \/ Synchronize
    \/ LearnFromRebuilt \/ SkipLearning

Next ==
    \/ EvaluateCandidates \/ RankGeneration
    \/ StartWorker \/ \E prefix \in {1, 2} : StartRerun(prefix)
    \/ Learn \/ Rebuild
    \/ ExcludeRecords \/ FreezeKnowledge \/ Crash

Spec == Init /\ [][Next]_vars

-----------------------------------------------------------------------------
(* Properties *)

TaskOK ==
    \/ task = Idle
    \/ /\ task.kind = "rebuild"
       /\ task.pc \in {"check", "enrich", "synchronize", "rebuilt"}
    \/ /\ task.kind \in {"worker", "rerun", "rebuild"}
       /\ task.pc \in {"compare", "views", "analysis", "proposals", "candidates",
                       "comparisons", "save", "agree"}
       /\ \A k \in DOMAIN task.batch : task.batch[k].record.type \in Types
       /\ \A k \in DOMAIN task.reply : task.reply[k] \in Proposal

\* Every file holds what its writer puts there.
TypeOK ==
    /\ mode \in {"phase6", "campaign"}
    /\ \A slot \in Slots :
          {published[slot], local[slot], backup[slot]} \subseteq Report \cup {NoReport}
    /\ outcomes # None => outcomes \in [Slots -> Outcome]
    /\ board # None => board.ranks \in [Slots -> 0 .. Cardinality(Slots)]
    /\ learning.views \in BOOLEAN /\ learning.analysis \in BOOLEAN
    /\ index \subseteq DOMAIN records /\ excluded \subseteq DOMAIN records
    /\ TaskOK
    /\ tasks \in 0 .. MaxTasks /\ crashes \in 0 .. MaxCrashes
    /\ Len(snapshots) <= MaxSnapshots

\* Some order of the reported events leads from the initial to the final score, event by
\* event and in the order of their numbers.
Leads(report) ==
    IF report.events = {} THEN report.initial = report.final
    ELSE \E way \in [1 .. Cardinality(report.events) -> report.events] :
            /\ way[1].before = report.initial
            /\ way[Len(way)].after = report.final
            /\ \A i \in 1 .. Len(way) - 1 :
                  way[i].seq < way[i + 1].seq /\ way[i].after = way[i + 1].before

\* The leaderboard numbers the runs it ranks from one, the better score first, and ranks
\* only what CMO ran to the end and scored; a standalone generation ranks a slot only by a
\* report of its own whose events explain the score, from a scenario that no probe found
\* in the state another run had left.  It calls the baseline beaten only if
\* one of the scores is better than the baseline's.
RanksSound ==
    board # None =>
        LET ranked == {s \in Slots : board.ranks[s] # 0} IN
        /\ {board.ranks[s] : s \in ranked} = 1 .. Cardinality(ranked)
        /\ \A s, t \in ranked : truth[s].report.final > truth[t].report.final
                                    => board.ranks[s] < board.ranks[t]
        /\ \A s \in ranked : truth[s].ran /\ HasScore(truth[s].report)
        /\ mode = "phase6" => \A s \in ranked :
              /\ truth[s].reset
              /\ truth[s].report.candidate = s
              /\ truth[s].report.chain = "VALID" => Leads(truth[s].report)
        /\ board.conclusion = "candidate_improved_over_baseline" =>
              \E s \in ranked : truth[s].report.final > truth[Baseline].report.final

\* However often the evidence of a finished generation is rebuilt, and wherever that stops,
\* the report of CMO is still there; what replaced it has the same scores, never counts as
\* complete, and as derived only with events that account for the whole change.
EvidencePreserved ==
    \A slot \in Slots :
        /\ backup[slot] # NoReport => backup[slot] = truth[slot].report
        /\ published[slot] # truth[slot].report =>
              /\ backup[slot] = truth[slot].report
              /\ published[slot].final = truth[slot].report.final
              /\ published[slot].status \in {"DERIVED", "CONFLICTING"}
              /\ published[slot].status = "DERIVED" => Leads(published[slot])

\* A record says that a tactic works or fails only from candidates that all ran and were
\* scored, and is offered to a Skill only if CMO itself vouched for the evidence of every
\* candidate it rests on: neither a rebuild nor a replay upgrades a record.
ExperiencesGated ==
    \A id \in DOMAIN records \ DOMAIN EarlierRecords :
        LET record == records[id] IN
        /\ record.type \in Tactical =>
              /\ record.support # {} /\ record.key # "unclassified"
              /\ \A s \in record.support : truth[s].ran /\ HasScore(truth[s].report)
        /\ record.promotable => \A s \in Relevant(record) : truth[s].report.status = "COMPLETE"

\* The store only grows: no answer, replay or maintenance changes or loses a record, and
\* what the index or the exclusions name exists.
RecordsKept ==
    [][\A id \in DOMAIN records : id \in DOMAIN records' /\ records'[id] = records[id]]_vars

\* run_phase7_learning.py, "Phase 7 replay is not idempotent": learning again from the
\* files of the first pass makes the experiences of the first pass.
ReplayAgrees == At("agree") => task.first = task.batch

\* A later preview is shown every record an earlier one was shown, whatever was learned,
\* rebuilt or lost in between, unless maintenance has excluded the record or all the places
\* of its type went to records of no less quality.
SnapshotsAccountable ==
    \A i, j \in DOMAIN snapshots : i < j =>
        \A id \in snapshots[i] \ snapshots[j] :
            \/ id \in excluded
            \/ LET ahead == {other \in snapshots[j] : /\ records[other].type = records[id].type
                                                    /\ records[other].quality >= records[id].quality}
               IN  \/ records[id].type = "tactical_positive" /\ Cardinality(ahead) = 3
                   \/ records[id].type = "tactical_negative" /\ Cardinality(ahead) = 2

\* From the reports of CMO to the experience store and the next preview nothing is ranked,
\* rebuilt, replayed, learned or shown that the reports and the records do not say.
KnowledgeSound ==
    RanksSound /\ EvidencePreserved /\ ExperiencesGated /\ ReplayAgrees /\ SnapshotsAccountable

=============================================================================
