-------------------------- MODULE MCMissionRuntime --------------------------
(* A small version of the 6v4 scenario: one armed ship, a carrier and its     *)
(* aircraft against two ships and a submarine.                                *)
EXTENDS MissionRuntime, TLC

MCUnits == {"blue_cg59", "blue_cvn70", "blue_ssn", "red_055", "red_j15", "red_liaoning"}
MCSide == [u \in MCUnits |->
             IF u \in {"blue_cg59", "blue_cvn70", "blue_ssn"} THEN "blue" ELSE "red"]
MCPlatform == [u \in MCUnits |-> CASE u = "red_j15" -> "aircraft"
                                   [] u = "blue_ssn" -> "submarine"
                                   [] OTHER -> "ship"]
MCHome == [u \in MCUnits |-> IF u = "red_j15" THEN "red_liaoning" ELSE None]
MCStock == [u \in MCUnits |-> CASE u = "red_055" -> [ssm |-> 3]
                                [] u = "red_j15" -> [asm |-> 1]
                                [] OTHER -> <<>>]
MCScored == {"blue_cg59", "red_j15", "red_liaoning"}
MCRank == [blue_cg59 |-> 1, blue_cvn70 |-> 2, blue_ssn |-> 3, red_055 |-> 4,
           red_055_a |-> 5, red_055_b |-> 6, red_j15 |-> 7, red_j15_attack |-> 8,
           red_liaoning |-> 9, setup |-> 10]

Mission(id, shooter, target, weapon) ==
    [id |-> id, type |-> "ship_attack", unit |-> shooter, target |-> target,
     selection |-> "explicit", weapon |-> weapon, fire |-> 1, delay |-> 1]

MCMissions ==
    << Mission("red_055_a", "red_055", "blue_cg59", "ssm"),
       [reserve |-> 1] @@ Mission("red_055_b", "red_055", "blue_cvn70", "ssm"),
       [type |-> "aircraft_attack", selection |-> Auto,
        base |-> "red_liaoning", route |-> <<"mid", "approach">>]
         @@ Mission("red_j15_attack", "red_j15", "blue_cvn70", None) >>

\* One change of the baseline each.
WithAttack(i, f, v) == [Baseline EXCEPT !.attacks[i] = [@ EXCEPT ![f] = v]]
WithSortie(f, v) == [Baseline EXCEPT !.sorties[1] = [@ EXCEPT ![f] = v]]
Chosen(s) == [s EXCEPT !.attacks[3].weapon = "asm"]

MCStrategies ==
    { Baseline, Chosen(Baseline),
      WithAttack(1, "targets", <<"blue_cvn70">>),
      WithAttack(1, "targets", <<"blue_cvn70", "blue_cg59">>),
      WithAttack(1, "targets", <<"blue_cg59", "blue_cg59">>),
      WithAttack(1, "targets", <<"blue_ssn">>),
      WithAttack(1, "targets", <<"red_liaoning">>),
      WithAttack(1, "shooter", "blue_ssn"),
      WithAttack(1, "weapon", "asm"),
      WithAttack(1, "fire", 0), WithAttack(1, "fire", 2), Chosen(WithAttack(1, "fire", 2)),
      WithAttack(1, "delay", 2),
      WithAttack(3, "shooter", "red_055"),
      WithSortie("base", "red_055"), WithSortie("target", "red_055"),
      WithSortie("route", <<"mid">>), WithSortie("route", <<"mid", OffMap>>),
      WithSortie("tactics", "late"),
      [Baseline EXCEPT !.sorties = <<>>],
      [Baseline EXCEPT !.sorties = @ \o <<[@[1] EXCEPT !.id = "red_055_b"]>>] }

Row(id, shooter, target, weapon, quantity, delay) ==
    [id |-> id, shooter |-> shooter, target |-> target, weapon |-> weapon,
     quantity |-> quantity, delay |-> delay]

\* The template agrees with the package it was made for.
MCTemplate == << Row("red_055_a", "red_055", "blue_cg59", "ssm", 1, 1),
                 Row("red_055_b", "red_055", "blue_cvn70", "ssm", 1, 1),
                 Row("red_j15_attack", "red_j15", "blue_cvn70", Auto, 1, 1) >>

MCSlots ==
    LET Slot(row, field, allowed) == [row |-> row, field |-> field, allowed |-> allowed]
        targets == {"blue_cg59", "blue_cvn70"}
    IN [p \in {<<"attacks", i, "targets", 1>> : i \in 1..2}
                \cup {<<"attacks", i, f, 1>> : i \in 1..2, f \in {"fire", "delay"}}
                \cup {<<"attacks", 3, "delay", 1>>, <<"sorties", 1, "target", 1>>} |->
          CASE p[3] = "targets" -> Slot(p[2], "target", targets)
            [] p[3] = "fire" -> Slot(p[2], "quantity", 1..16)
            [] p[3] = "delay" -> Slot(p[2], "delay", 0..600)
            [] OTHER -> Slot(3, "target", targets)]
=============================================================================
