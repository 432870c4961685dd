-------------------------- MODULE CandidateScoring --------------------------
(* From the summary a CMO run publishes to the leaderboard of a generation:   *)
(* Phase 3 evaluation and the official-score evaluation of a Campaign         *)
(* (evaluation/phase3_evaluation.py,                                          *)
(* optimization/candidate_evaluation_workflow.py), the two rankings           *)
(* (optimization/candidate_comparator.py, evolution/production_executor.py)   *)
(* and the offline reconstruction of score evidence                           *)
(* (learning/evidence_reconstruction.py).                                     *)
EXTENDS Integers, Sequences, FiniteSets, SequencesExt

CONSTANTS
    Candidates,   \* the candidate slots, numbered in the order of their ids
    NoReport,     \* no execution-summary.json
    NoScore,      \* no number where a score is expected
    Rules,        \* the native score rules of the rendered Lua, in order
    Alike         \* pairs of a rule's unit and a reported unit, one name in the other

ASSUME CandidatesNumbered == Candidates \subseteq Nat \ {0}

\* "baseline" comes before every candidate id.
Baseline == 0
Slots == {Baseline} \cup Candidates

Statuses == {"COMPLETE", "DERIVED", "MISSING", "CONFLICTING"}

\* score_events: the points of an event and the score around it.
ScoreEvent == [seq: Nat, before: Int, after: Int, delta: Int]

\* execution-summary.json: the candidate it names, whether it names the scoring side,
\* a VALID official score, units the scenario knows, and the evidence of the score.
Report == [candidate: Slots, side: BOOLEAN, valid: BOOLEAN, known: BOOLEAN,
           initial: Int \cup {NoScore}, final: Int \cup {NoScore}, delta: Int \cup {NoScore},
           chain: {"VALID", "INVALID", "DERIVED_VALID"},
           events: SUBSET ScoreEvent, status: Statuses]

HasScore(report) == report # NoReport /\ report.final # NoScore

Points(events) == MapThenSumSet(LAMBDA event : event.delta, events)

-----------------------------------------------------------------------------
(* The two evaluations of a run that CMO completed *)

\* Mutation of ChainAccepted: the chain need not start and end at the official score.
ChainWithoutEndpoints(report) ==
    LET events  == IF report.chain = "VALID" THEN report.events ELSE {}
        ordered == SetToSortSeq(events, LAMBDA e, f : e.seq < f.seq)
    IN  /\ events = {} => report.delta = 0
        /\ \A e, f \in events : e.seq = f.seq => e = f
        /\ \A i \in 1 .. Len(ordered) - 1 : ordered[i].after = ordered[i + 1].before
        /\ events # {} => Points(events) = report.delta

\* The events in the order of their sequence numbers lead from the initial to the final
\* score.  The events of a chain that is not VALID are dropped.
ChainAccepted(report) ==
    LET events  == IF report.chain = "VALID" THEN report.events ELSE {}
        ordered == SetToSortSeq(events, LAMBDA e, f : e.seq < f.seq)
    IN  /\ events = {} => report.delta = 0
        /\ \A e, f \in events : e.seq = f.seq => e = f
        /\ events # {} => /\ Head(ordered).before = report.initial
                          /\ Last(ordered).after = report.final
                          /\ Points(events) = report.delta
        /\ \A i \in 1 .. Len(ordered) - 1 : ordered[i].after = ordered[i + 1].before

\* _parse_execution_summary raises no ValueError.
Parsed(slot, report) ==
    /\ report # NoReport
    /\ report.candidate = slot
    /\ report.side
    /\ report.valid
    /\ NoScore \notin {report.initial, report.final, report.delta}
    /\ report.delta = report.final - report.initial
    /\ ChainAccepted(report)

\* `reset` is FALSE when a ScenarioResetProbe did not find the scenario reset for the run,
\* as it never does for a run that failed.
Outcome == [execution: BOOLEAN, executable: BOOLEAN, semantic: BOOLEAN, scoreable: BOOLEAN,
            reset: BOOLEAN, score: Int \cup {NoScore}, repairs: Nat]

\* A run that failed for good, whatever it published.
NotExecuted(repairs) ==
    [execution |-> FALSE, executable |-> FALSE, semantic |-> FALSE, scoreable |-> FALSE,
     reset |-> FALSE, score |-> NoScore, repairs |-> repairs]

\* Phase3EvaluationService: what is not parsed is also reported as semantically invalid.
StrictOutcome(slot, report, repairs, reset) ==
    LET sound == Parsed(slot, report) /\ report.known IN
    [execution |-> TRUE, executable |-> TRUE, semantic |-> sound, scoreable |-> sound,
     reset |-> reset,
     score |-> IF Parsed(slot, report) THEN report.final ELSE NoScore, repairs |-> repairs]

\* _official_score_only_evaluation: any number is a score, and the reset counts as verified.
OfficialOutcome(report, repairs) ==
    [execution |-> TRUE, executable |-> TRUE, semantic |-> TRUE, scoreable |-> HasScore(report),
     reset |-> TRUE,
     score |-> IF HasScore(report) THEN report.final ELSE NoScore, repairs |-> repairs]

-----------------------------------------------------------------------------
(* The leaderboard *)

\* Mutation of Category: a run on a scenario that was not reset is ranked.
CategoryOfAnyReset(outcome) ==
    CASE ~outcome.executable -> "execution_failed"
      [] outcome.executable /\ ~outcome.semantic -> "semantic_invalid"
      [] outcome.executable /\ outcome.semantic
            /\ (~outcome.scoreable \/ outcome.score = NoScore) -> "unscorable"
      [] OTHER -> "ranked_success"

\* CandidateComparator.  That the formal renderer made the Lua and that one contract covers
\* all the runs, which it also asks for, holds in every run of these workflows.
Category(outcome) ==
    LET executed == outcome.executable /\ outcome.reset IN
    CASE ~executed -> "execution_failed"
      [] executed /\ ~outcome.semantic -> "semantic_invalid"
      [] executed /\ outcome.semantic
            /\ (~outcome.scoreable \/ outcome.score = NoScore) -> "unscorable"
      [] OTHER -> "ranked_success"

Rankable(mode, outcome) ==
    IF mode = "phase6"
    THEN Category(outcome) = "ranked_success"
    ELSE outcome.execution /\ outcome.scoreable /\ outcome.score # NoScore

\* Mutation of Precedes: of two candidates the one repaired less comes first.
FewerRepairsFirst(mode, outcomes, a, b) ==
    \/ outcomes[a].repairs < outcomes[b].repairs
    \/ outcomes[a].repairs = outcomes[b].repairs /\ outcomes[a].score > outcomes[b].score
    \/ outcomes[a].repairs = outcomes[b].repairs /\ outcomes[a].score = outcomes[b].score /\ a < b

\* Between equal scores the Comparator prefers fewer repairs, so fewer attempts, then the
\* lower id; a Campaign only looks at the id.
Precedes(mode, outcomes, a, b) ==
    \/ outcomes[a].score > outcomes[b].score
    \/ /\ outcomes[a].score = outcomes[b].score
       /\ \/ mode = "phase6" /\ outcomes[a].repairs < outcomes[b].repairs
          \/ (mode = "phase6" => outcomes[a].repairs = outcomes[b].repairs) /\ a < b

\* The place of each slot, 0 for one that is not ranked.
Ranks(mode, outcomes) ==
    LET ranked  == {s \in Slots : Rankable(mode, outcomes[s])}
        ordered == SetToSortSeq(ranked, LAMBDA a, b : Precedes(mode, outcomes, a, b))
    IN  [s \in Slots |-> IF s \in ranked
                         THEN CHOOSE i \in 1 .. Len(ordered) : ordered[i] = s
                         ELSE 0]

\* conclusion_status of optimization_summary.json, which a standalone generation writes.
Conclusion(outcomes) ==
    LET ranks  == Ranks("phase6", outcomes)
        ranked == {s \in Candidates : ranks[s] # 0}
        best   == CHOOSE s \in ranked : \A t \in ranked : ranks[s] <= ranks[t]
    IN  CASE ranks[Baseline] = 0 -> "baseline_unavailable"
          [] ranks[Baseline] # 0 /\ ranked = {} -> "no_scoreable_candidate"
          [] ranks[Baseline] # 0 /\ ranked # {} ->
                IF outcomes[best].score > outcomes[Baseline].score
                THEN "candidate_improved_over_baseline" ELSE "baseline_remains_best"

-----------------------------------------------------------------------------
(* ResultEvidenceReconstructor *)

\* The first rule not used yet that names the unit explains its loss.
Explained(state, unit) ==
    LET open == {i \in 1 .. Len(Rules) : i \notin state.used /\ <<Rules[i].unit, unit>> \in Alike}
        i    == CHOOSE k \in open : \A l \in open : k <= l
        n    == Cardinality(state.events) + 1
    IN  IF open = {} THEN state
        ELSE [used   |-> state.used \cup {i},
              score  |-> state.score + Rules[i].points,
              events |-> state.events \cup
                  {[seq |-> n, before |-> state.score, after |-> state.score + Rules[i].points,
                    delta |-> Rules[i].points]}]

\* _derive_score_events, from the destroyed units of combat-summary.csv.
Derived(initial, downed) ==
    FoldLeft(Explained, [used |-> {}, score |-> initial, events |-> {}], downed).events

\* Mutation of Reconstructed: any derived event makes the evidence complete.
ReconstructedBlindly(report, downed) ==
    [report EXCEPT !.events = Derived(report.initial, downed), !.chain = "DERIVED_VALID",
                   !.status = "DERIVED"]

\* With no event and no change of the score the evidence counts as derived.
Reconstructed(report, downed) ==
    LET events == Derived(report.initial, downed)
        agrees == Points(events) = report.final - report.initial
    IN  [report EXCEPT !.events = events,
                       !.chain  = IF agrees THEN "DERIVED_VALID" ELSE "INVALID",
                       !.status = IF agrees THEN "DERIVED" ELSE "CONFLICTING"]
=============================================================================
