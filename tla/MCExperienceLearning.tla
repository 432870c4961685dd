----------------------- MODULE MCExperienceLearning -----------------------
(* Two candidates beside the baseline, two score rules, and one report, answer
   or failure of every kind the evaluations and the gate tell apart. *)
EXTENDS ExperienceLearning

MCRules == <<[unit |-> "carrier", points |-> 4], [unit |-> "frigate", points |-> 6]>>
MCAlike == {<<"carrier", "carrier">>, <<"frigate", "frigate">>}

Event(n, before, after) == [seq |-> n, before |-> before, after |-> after, delta |-> after - before]

\* A run that sank the carrier and the frigate.
Sound(slot) ==
    [candidate |-> slot, side |-> TRUE, valid |-> TRUE, known |-> TRUE,
     initial |-> 0, final |-> 10, delta |-> 10, chain |-> "VALID",
     events |-> {Event(1, 0, 4), Event(2, 4, 10)}, status |-> "COMPLETE"]

\* A run that sank only the carrier.
Lower(slot) ==
    [Sound(slot) EXCEPT !.final = 4, !.delta = 4, !.events = {Event(1, 0, 4)}]

Zero(slot) == [Sound(slot) EXCEPT !.final = 0, !.delta = 0, !.events = {}]

\* The events of a score were not collected.
Silent(slot) == [Sound(slot) EXCEPT !.chain = "INVALID", !.events = {}, !.status = "MISSING"]

Run(report) == [ran |-> TRUE, repairs |-> 0, reset |-> TRUE, report |-> report, downed |-> <<"carrier", "frigate">>]

Reports(slot) ==
    {Sound(slot), Lower(slot), Zero(slot), Silent(slot),
     Sound(3 - slot),
     [Sound(slot) EXCEPT !.known = FALSE],
     [Sound(slot) EXCEPT !.valid = FALSE],
     [Sound(slot) EXCEPT !.final = NoScore, !.delta = NoScore],
     [Sound(slot) EXCEPT !.events = {Event(1, 0, 4), Event(2, 5, 11)}],
     [Sound(slot) EXCEPT !.events = {Event(1, 1, 5), Event(2, 5, 11)}],
     [Sound(slot) EXCEPT !.events = {Event(1, 0, 4), Event(1, 4, 10)}],
     NoReport}

Runs(slot) ==
    {Run(report) : report \in Reports(slot)}
    \cup {[Run(Sound(slot)) EXCEPT !.repairs = 2],
          [Run(Sound(slot)) EXCEPT !.ran = FALSE],
          [Run(Sound(slot)) EXCEPT !.reset = FALSE],
          [Run(Silent(slot)) EXCEPT !.downed = <<"carrier", "carrier">>]}

\* One of the candidates is like any of these, the other one plain.
MCTruths ==
    LET baselines == {Run(Zero(Baseline)), Run(NoReport), Run(Silent(Baseline))} IN
    {(0 :> Run(Zero(0))) @@ (1 :> first) @@ (2 :> Run(Lower(2))) : first \in Runs(1)}
    \cup {(0 :> Run(Zero(0))) @@ (1 :> Run(Sound(1))) @@ (2 :> second) : second \in Runs(2)}
    \cup {(0 :> baseline) @@ (1 :> Run(Lower(1))) @@ (2 :> Run(Lower(2))) : baseline \in baselines}

Claim == [key |-> "known", type |-> "tactical_positive", stance |-> "support",
          support |-> {1}, contradict |-> {}, countered |-> FALSE]

Both == [Claim EXCEPT !.support = {1, 2}]
Against == [Claim EXCEPT !.type = "tactical_negative", !.stance = "contradict",
                         !.support = {}, !.contradict = {1}]
Qualified == [Claim EXCEPT !.type = "tactical_negative", !.stance = "qualify", !.contradict = {2}, !.countered = TRUE]
Limit == [Claim EXCEPT !.type = "evidence_limitation", !.support = {2}]
Unknown == [Claim EXCEPT !.key = "unclassified"]
Stranger == [Claim EXCEPT !.support = {7}]
Overlap == [Claim EXCEPT !.contradict = {1}]

MCReplies == {<<Claim, Both>>, <<Against, Qualified>>, <<Stranger, Unknown>>,
              <<Overlap, Limit>>, <<Both>>}

\* One record on evidence of half the candidates, one on all of it.
MCEarlierRecords ==
    LET record == [source |-> "b_g000", key |-> "known", type |-> "tactical_positive",
                   stance |-> "qualify", support |-> {1}, contradict |-> {2}, quality |-> 50,
                   status |-> "COMPLETE", promotable |-> TRUE]
    IN  (<<0, 1>> :> record)
        @@ (<<0, 2>> :> [record EXCEPT !.type = "tactical_negative", !.quality = 100])
=============================================================================
