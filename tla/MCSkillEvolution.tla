--------------------------- MODULE MCSkillEvolution ---------------------------
(* Instances of SkillEvolution for TLC.                                       *)
EXTENDS SkillEvolution

CONSTANTS e1, e2, e3, e4, e5, e6, w1, w2

Row(key, opt, stance, quality) ==
    [key |-> key, opt |-> opt, stance |-> stance, quality |-> quality,
     tactical |-> TRUE, valid |-> TRUE]

\* Three optimizations support one key.  Two more support another one, and a third one
\* about it has a supporting and a contradicting row.
MCExperiences == {e1, e2, e3, e4, e5, e6}
MCRecord ==
    [e \in MCExperiences |->
        CASE e = e1 -> Row("salvo", 1, "support", 90)
          [] e = e2 -> Row("salvo", 2, "support", 40)
          [] e = e3 -> Row("salvo", 3, "support", 60)
          [] e = e4 -> Row("route", 3, "support", 80)
          [] e = e5 -> Row("route", 4, "support", 60)
          [] e = e6 -> Row("route", 4, "qualify", 60)]

\* The later run reads what the earlier one read, and more.
MCRuns == {w1, w2}
MCInput == [r \in MCRuns |-> CASE r = w1 -> {e1, e2, e3}
                               [] r = w2 -> MCExperiences \ {e6}]
=============================================================================
