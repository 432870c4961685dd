-------------------------- MODULE MCScenarioWorkflow --------------------------
EXTENDS ScenarioWorkflow

CONSTANTS c1, c2, r1, r2

\* 10 is a ship, 11 an aircraft with loadout 5, 12 a ship and a facility; weapon
\* 20 is the only one of its name, 21 and 22 share theirs.
MCPlatforms == {[category |-> "ship", dbid |-> 10], [category |-> "aircraft", dbid |-> 11],
                [category |-> "ship", dbid |-> 12], [category |-> "facility", dbid |-> 12]}
MCLoadoutOwners == 5 :> {11} @@ 6 :> {}
MCWeaponName == 20 :> "missile" @@ 21 :> "rocket" @@ 22 :> "rocket"

Missile == <<"missile", "plain">>
Rocket  == <<"rocket", "plain">>

Load(weapon, dbid, loaded) ==
    [weapon |-> weapon, dbid |-> dbid, loaded |-> loaded, fired |-> 0, targets |-> {}]

Unit(id, side, type, dbid, base, loads) ==
    [id |-> id, side |-> side, type |-> type, base |-> base,
     position |-> IF base = NoId THEN "numbers" ELSE "omitted", carried |-> {},
     dbid |-> dbid, category |-> NoCategory, loadout |-> IF dbid = 11 THEN 5 ELSE 0,
     named |-> {}, loads |-> loads]

Strike(shooters, targets, fired) ==
    [form |-> IF Len(shooters) = 1 THEN "one" ELSE "many", shooters |-> shooters,
     targets |-> targets, weapon |-> Missile, dbid |-> 20, loaded |-> fired, fired |-> fired]

Claimed(loaded, fired) ==
    [given |-> TRUE, totals |-> Missile :> [loaded |-> loaded, fired |-> fired]]

\* A carrier with an aircraft and a ship against two ships.
Sound ==
    [shaped |-> TRUE,
     units |-> << Unit("r1", "red", "ship", 10, NoId, <<Load(Missile, 20, 3)>>),
                  [Unit("r2", "red", "carrier", 10, NoId, <<>>) EXCEPT !.carried = {"r3"}],
                  Unit("r3", "red", "aircraft", 11, "r2", <<Load(Missile, 0, 2)>>),
                  Unit("b1", "blue", "ship", 10, NoId, <<Load(Missile, 20, 3)>>),
                  Unit("b2", "blue", "ship", 10, NoId, <<>>) >>,
     strikes |-> << Strike(<<"r1", "r3">>, <<"b1", "b2">>, 5), Strike(<<"r3">>, <<"b1">>, 2) >>,
     summary |-> [given |-> FALSE, totals |-> <<>>], sorties |-> "none", runtimeField |-> FALSE]

\* One thing about the sound scenario that a user may write otherwise.
Changes == {"none", "shape", "position labels", "position claimed", "both shooters",
    "duplicate id", "unknown base", "enemy base", "unknown aircraft", "enemy aircraft",
    "load fired", "load target", "unknown target", "friendly target", "unknown shooter",
    "mixed shooters", "strike fired", "strike loaded", "two strikes", "three shooters",
    "blue strike", "spelling", "summary", "wrong summary", "ambiguous platform",
    "claimed category", "unknown platform", "unknown loadout", "ship loadout", "wrong loadout",
    "blue aircraft", "unmarked aircraft", "unknown weapon", "named weapon", "wrong weapon",
    "two loads", "no target", "partial sortie", "runtime field", "no loadout"}

Change(s, what) ==
    CASE what = "none" -> s
      [] what = "shape" -> [s EXCEPT !.shaped = FALSE]
      [] what = "position labels" -> [s EXCEPT !.units[1].position = "labels"]
      [] what = "position claimed" -> [s EXCEPT !.units[3].position = "claimed"]
      [] what = "both shooters" -> [s EXCEPT !.strikes[1].form = "both"]
      [] what = "duplicate id" -> [s EXCEPT !.units[5].id = "b1"]
      [] what = "unknown base" -> [s EXCEPT !.units[3].base = "x"]
      [] what = "enemy base" -> [s EXCEPT !.units[3].base = "b1"]
      [] what = "unknown aircraft" -> [s EXCEPT !.units[2].carried = {"x"}]
      [] what = "enemy aircraft" -> [s EXCEPT !.units[2].carried = {"b1"}]
      [] what = "load fired" -> [s EXCEPT !.units[1].loads[1].fired = 4]
      [] what = "load target" -> [s EXCEPT !.units[1].loads[1].targets = {"r2"}]
      [] what = "unknown target" -> [s EXCEPT !.strikes[2].targets = <<"x">>]
      [] what = "friendly target" -> [s EXCEPT !.strikes[2].targets = <<"r1">>]
      [] what = "unknown shooter" -> [s EXCEPT !.strikes[2].shooters = <<"x">>]
      [] what = "mixed shooters" -> [s EXCEPT !.strikes[1].shooters = <<"r1", "b2">>]
      [] what = "strike fired" -> [s EXCEPT !.strikes[2].fired = 3]
      [] what = "strike loaded" -> [s EXCEPT !.strikes[2].loaded = 3]
      [] what = "two strikes" -> [s EXCEPT !.strikes = Append(@, Strike(<<"r1">>, <<"b2">>, 2))]
      [] what = "three shooters" -> [s EXCEPT !.strikes[1].shooters = <<"r1", "r2", "r3">>]
      [] what = "blue strike" -> [s EXCEPT !.strikes = Append(@, Strike(<<"b1">>, <<"r1">>, 1))]
      [] what = "spelling" -> [s EXCEPT !.units[3].loads[1].weapon = <<"missile", "other">>]
      [] what = "summary" -> [s EXCEPT !.summary = Claimed(7, 7)]
      [] what = "wrong summary" -> [s EXCEPT !.summary = Claimed(7, 6)]
      [] what = "ambiguous platform" -> [s EXCEPT !.units[5].dbid = 12]
      [] what = "claimed category" -> [s EXCEPT !.units[5].dbid = 12, !.units[5].category = "facility"]
      [] what = "unknown platform" -> [s EXCEPT !.units[4].dbid = 13]
      [] what = "unknown loadout" -> [s EXCEPT !.units[3].loadout = 7]
      [] what = "ship loadout" -> [s EXCEPT !.units[1].loadout = 5]
      [] what = "wrong loadout" -> [s EXCEPT !.units[3].loadout = 6]
      [] what = "blue aircraft" -> [s EXCEPT !.units[5] = [Unit("b2", "blue", "aircraft", 11, NoId, <<>>)
                                                           EXCEPT !.loadout = 5],
                                             !.units[3].loadout = 0]
      [] what = "unmarked aircraft" -> [s EXCEPT !.units[3].type = "ship"]
      [] what = "unknown weapon" -> [s EXCEPT !.units[4].loads[1].dbid = 23]
      [] what = "named weapon" -> [s EXCEPT !.strikes[2].weapon = Rocket, !.strikes[2].dbid = 0]
      [] what = "wrong weapon" -> [s EXCEPT !.strikes[2].dbid = 21]
      [] what = "two loads" -> [s EXCEPT !.units[1].loads = @ \o <<Load(Missile, 20, 1)>>]
      [] what = "no target" -> [s EXCEPT !.strikes[1].targets = <<>>]
      [] what = "partial sortie" -> [s EXCEPT !.sorties = "partial"]
      [] what = "runtime field" -> [s EXCEPT !.runtimeField = TRUE]
      [] what = "no loadout" -> [s EXCEPT !.units[3].loadout = 0]

Request(s, res, run, baseline) ==
    [scenario |-> s, resolutions |-> res, run |-> run, baseline |-> baseline, readable |-> TRUE]

Alone(req, file, state, outside, crash) ==
    [requests |-> (c1 :> req @@ c2 :> NoRequest),
     budget |-> [file |-> file, state |-> state, outside |-> outside, crash |-> crash]]

Ambiguous == Change(Sound, "ambiguous platform")
Chosen    == "b2" :> [category |-> "ship", dbid |-> 12]

\* Every pair of changes runs undisturbed, every single one with faults.
Undisturbed == {Alone(Request(Change(Change(Sound, a), b), <<>>, Automatic, "none"), 0, 0, 0, 0)
                : a, b \in Changes}
Disturbed   == {Alone(Request(Change(Sound, a), <<>>, Automatic, "match"), 1, 1, 1, 1)
                : a \in {"none", "ambiguous platform", "unknown platform", "friendly target",
                         "unmarked aircraft", "two loads"}}
Answers     == {Alone([Request(Ambiguous, res, Automatic, baseline) EXCEPT !.readable = readable],
                      0, 0, 0, 0) :
                res \in {<<>>, Chosen, "x" :> Chosen["b2"],
                         "b2" :> [category |-> "aircraft", dbid |-> 11]},
                baseline \in {"none", "match", "refused"}, readable \in BOOLEAN}

\* Two calls at once, for one run id or for two.
Together == {[requests |-> (c1 :> Request(Sound, <<>>, first, "none")
                            @@ c2 :> Request(s, Chosen, second, "none")),
              budget |-> [file |-> 1, state |-> 0, outside |-> 0, crash |-> 1]]
             : s \in {Ambiguous}, first \in {r1, Automatic}, second \in {r1, Automatic}}

MCPlans == Undisturbed \cup Disturbed \cup Answers \cup Together
=============================================================================
