-------------------------- MODULE ScenarioContract --------------------------
(***************************************************************************)
(* What the validators of the JSON-to-Lua pipeline compute of a scenario:  *)
(* structure, meaning, the intermediate representation (IR), the look-up   *)
(* in the CMO database, the manifest and the advice of the strategy        *)
(* validator (src/cmo_lua_agent/contract).  Each operator gives the issues *)
(* of one stage; a stage passes when it has none.                          *)
(*                                                                         *)
(* A scenario is a record                                                  *)
(*   shaped    every field present and of its JSON type                    *)
(*   units     sequence of units: id, side, type, base, position, carried, *)
(*             dbid, category, loadout, named (what the database named of  *)
(*             it), loads (weapon, dbid, loaded, fired, targets)           *)
(*   strikes   sequence of strikes: form, shooters, targets, weapon, dbid, *)
(*             loaded, fired                                               *)
(*   summary   whether given, and the totals it claims per weapon          *)
(*   sorties   "none", "complete" or "partial" (an unvalidated extension)  *)
(*   runtimeField  a top-level field reserved for the running system       *)
(* A weapon is written <<name, spelling>>: one name may be spelled in ways *)
(* that differ in case.  An id stands for a unit's id and name; 0 is an    *)
(* absent number.  Rules that only concern the JSON type of one field      *)
(* (missing, not a number, blank) are all the one flag `shaped`.           *)
(***************************************************************************)
EXTENDS Naturals, Sequences, FiniteSets, SequencesExt

CONSTANTS
    Platforms,     \* the records [category, dbid] of the database
    LoadoutOwners, \* loadout -> the aircraft DBIDs it belongs to
    WeaponName     \* weapon DBID -> its name in the database

NoId       == "no id"
NoCategory == "no category"
Sides      == {"red", "blue"}
Categories == {"aircraft", "ship", "submarine", "facility"}

ASSUME DatabaseAssumption ==
    /\ Platforms \subseteq [category : Categories, dbid : Nat \ {0}]
    /\ DOMAIN LoadoutOwners \subseteq Nat \ {0}
    /\ DOMAIN WeaponName \subseteq Nat \ {0}

Issue(code, holds) == IF holds THEN {code} ELSE {}

IdsOf(s)       == {s.units[i].id : i \in DOMAIN s.units}
UnitNamed(s, id) == s.units[CHOOSE i \in DOMAIN s.units :
                        /\ s.units[i].id = id
                        /\ \A j \in DOMAIN s.units : s.units[j].id = id => i <= j]
SideOf(s, id)  == UnitNamed(s, id).side
Total(seq, f(_)) == FoldLeft(LAMBDA sum, x : sum + f(x), 0, seq)

-----------------------------------------------------------------------------
(* Structure: scenario_schema_validator.py *)

PositionShaped(u) ==
    \/ u.base = NoId /\ u.position \in {"numbers", "claimed"}
    \/ u.base # NoId /\ u.position \in {"numbers", "claimed", "labels", "omitted"}

QuantitiesShaped(entry) == entry.loaded \in Nat /\ entry.fired \in Nat

\* A load may name targets; a DBID it gives is positive, 0 being none.
LoadShaped(load) == QuantitiesShaped(load) /\ load.dbid \in Nat

\* Exactly one of shooter and shooters, and neither list empty.
StrikeShaped(strike) ==
    /\ strike.form # "both"
    /\ strike.shooters # <<>> /\ strike.targets # <<>>
    /\ QuantitiesShaped(strike) /\ strike.dbid \in Nat

SchemaIssues(s) ==
    Issue("field", ~s.shaped)
    \cup Issue("position", \E i \in DOMAIN s.units : ~PositionShaped(s.units[i]))
    \cup Issue("weapon_load", \E i \in DOMAIN s.units :
                \E l \in DOMAIN s.units[i].loads : ~LoadShaped(s.units[i].loads[l]))
    \cup Issue("strike", \E k \in DOMAIN s.strikes : ~StrikeShaped(s.strikes[k]))

-----------------------------------------------------------------------------
(* Meaning: scenario_semantic_validator.py *)

\* A unit with a base and no coordinates of its own takes its base's; a single
\* shooter becomes a list of one.
Normalized(s) ==
    [s EXCEPT
        !.units = [i \in DOMAIN s.units |->
            IF s.units[i].base # NoId /\ s.units[i].position \in {"labels", "omitted"}
            THEN [s.units[i] EXCEPT !.position = "inherited"] ELSE s.units[i]],
        !.strikes = [k \in DOMAIN s.strikes |->
            IF s.strikes[k].form = "one"
            THEN [s.strikes[k] EXCEPT !.form = "many"] ELSE s.strikes[k]]]

ReferenceIssues(s, u) ==
    Issue("unknown_base", u.base \notin IdsOf(s) \cup {NoId})
    \cup Issue("cross_side_base", u.base \in IdsOf(s) /\ SideOf(s, u.base) # u.side)
    \cup Issue("unknown_aircraft", ~(u.carried \subseteq IdsOf(s)))
    \cup Issue("cross_side_aircraft",
               \E a \in u.carried \cap IdsOf(s) : SideOf(s, a) # u.side)

TargetIssues(s, targets, side) ==
    Issue("unknown_target", ~(targets \subseteq IdsOf(s)))
    \cup Issue("friendly_target", \E t \in targets \cap IdsOf(s) : SideOf(s, t) = side)

LoadIssues(s, u) ==
    UNION {Issue("ammo_exceeded", u.loads[l].fired > u.loads[l].loaded)
           \cup TargetIssues(s, u.loads[l].targets, u.side) : l \in DOMAIN u.loads}

WeaponMatches(strike, load) ==
    /\ strike.weapon = load.weapon
    /\ strike.dbid # 0 /\ load.dbid # 0 => strike.dbid = load.dbid

\* Only when every shooter carries the weapon itself is the strike held
\* against what they carry together.
InventoryIssues(s, strike) ==
    LET carried(id) == SelectSeq(UnitNamed(s, id).loads, LAMBDA l : WeaponMatches(strike, l))
        available   == Total(strike.shooters,
                             LAMBDA id : Total(carried(id), LAMBDA l : l.loaded))
    IN  Issue("ammo_inventory_exceeded",
              /\ Range(strike.shooters) \subseteq IdsOf(s)
              /\ \A id \in Range(strike.shooters) : carried(id) # <<>>
              /\ strike.loaded > available \/ strike.fired > available)

StrikeIssues(s, strike) ==
    LET known == Range(strike.shooters) \cap IdsOf(s)
        sides == {SideOf(s, id) : id \in known}
        side  == IF Cardinality(sides) = 1 THEN CHOOSE x \in sides : TRUE ELSE NoId
    IN  Issue("unknown_shooter", ~(Range(strike.shooters) \subseteq IdsOf(s)))
        \cup Issue("mixed_shooter_sides", Cardinality(sides) > 1)
        \cup TargetIssues(s, Range(strike.targets), side)
        \cup Issue("ammo_exceeded", strike.fired > strike.loaded)
        \cup InventoryIssues(s, strike)

StrikeTotal(s, weapon, f(_)) ==
    Total(SelectSeq(s.strikes, LAMBDA k : k.weapon = weapon), f)

SummaryIssues(s) ==
    LET named == {s.strikes[k].weapon : k \in DOMAIN s.strikes}
    IN  IF ~s.summary.given THEN {} ELSE
        Issue("missile_summary_mismatch",
              \/ ~(named \subseteq DOMAIN s.summary.totals)
              \/ \E w \in DOMAIN s.summary.totals :
                    \/ s.summary.totals[w].loaded # StrikeTotal(s, w, LAMBDA k : k.loaded)
                    \/ s.summary.totals[w].fired # StrikeTotal(s, w, LAMBDA k : k.fired))

SemanticIssues(s) ==
    Issue("duplicate_unit_id", Cardinality(IdsOf(s)) # Len(s.units))
    \cup UNION {ReferenceIssues(s, s.units[i]) \cup LoadIssues(s, s.units[i])
                : i \in DOMAIN s.units}
    \cup UNION {StrikeIssues(s, s.strikes[k]) : k \in DOMAIN s.strikes}
    \cup SummaryIssues(s)

-----------------------------------------------------------------------------
(* Intermediate representation: ir_builder.py, ir_validator.py *)

\* Units are indexed by id, a later one replacing an earlier one of that id.
BuiltIR(s) ==
    [unitById  |-> [id \in IdsOf(s) |->
                       s.units[CHOOSE i \in DOMAIN s.units :
                           /\ s.units[i].id = id
                           /\ \A j \in DOMAIN s.units : s.units[j].id = id => j <= i]],
     unitIds   |-> [side \in Sides |->
                       LET mine == SelectSeq(s.units, LAMBDA u : u.side = side)
                       IN  [i \in DOMAIN mine |-> mine[i].id]],
     strikes   |-> s.strikes,
     sorties   |-> s.sorties,
     runtimeField |-> s.runtimeField]

\* Every unit is listed once, by the side it belongs to.
MembershipSound(ir) ==
    LET all == ir.unitIds["red"] \o ir.unitIds["blue"] IN
    /\ Cardinality(Range(all)) = Len(all)
    /\ Range(all) = DOMAIN ir.unitById
    /\ \A side \in Sides : \A id \in Range(ir.unitIds[side]) \cap DOMAIN ir.unitById :
          ir.unitById[id].side = side

\* A position is four numbers, or it is inherited and nothing is left of it.
PositionSound(u) ==
    \/ u.position = "numbers"
    \/ u.position = "inherited" /\ u.base # NoId

StrikeReferencesSound(ir, strike) ==
    /\ strike.form = "many"
    /\ strike.shooters # <<>> /\ strike.targets # <<>>
    /\ Range(strike.shooters) \cup Range(strike.targets) \subseteq DOMAIN ir.unitById

IRIssues(ir) ==
    Issue("unit_membership", ~MembershipSound(ir))
    \cup Issue("position", \E id \in DOMAIN ir.unitById : ~PositionSound(ir.unitById[id]))
    \cup Issue("strike_reference", \E k \in DOMAIN ir.strikes :
                ~StrikeReferencesSound(ir, ir.strikes[k]))

-----------------------------------------------------------------------------
(* Database: database_resolver.py.  A resolution names, for some units, the *)
(* platform the user confirmed.                                             *)

ResolutionsAccepted(ir, res) == DOMAIN res \subseteq DOMAIN ir.unitById

\* The platforms with a DBID: a query of one category's table, or of all four.
GetPlatforms(dbid, category) ==
    {p \in Platforms : p.dbid = dbid /\ category \in {NoCategory, p.category}}

BelongsToAircraft(loadout, dbid) == dbid \in LoadoutOwners[loadout]

\* Mutant: the search stops at the first category that knows the DBID.
CandidatesFirstMatch(u) ==
    LET all == GetPlatforms(u.dbid, u.category)
    IN  IF all = {} THEN {} ELSE {CHOOSE p \in all : TRUE}

\* The platforms a unit may stand for: of the category asked for, or of any.
Candidates(u) == GetPlatforms(u.dbid, u.category)

Confirmed(u, res) ==
    IF u.id \in DOMAIN res
    THEN [u EXCEPT !.dbid = res[u.id].dbid, !.category = res[u.id].category] ELSE u

\* The database ignores the case of a weapon's name.
Folded(weapon) == weapon[1]

WeaponsNamed(weapon) == {d \in DOMAIN WeaponName : WeaponName[d] = Folded(weapon)}

WeaponIssues(entry) ==
    IF entry.dbid # 0
    THEN Issue("weapon_not_found", entry.dbid \notin DOMAIN WeaponName)
         \cup Issue("weapon_name_mismatch", /\ entry.dbid \in DOMAIN WeaponName
                                            /\ WeaponName[entry.dbid] # Folded(entry.weapon))
    ELSE Issue("weapon_not_found", WeaponsNamed(entry.weapon) = {})
         \cup Issue("weapon_ambiguous", Cardinality(WeaponsNamed(entry.weapon)) > 1)

\* Mutant: The DBID found for a name is reported and not kept.
WeaponResolvedUnkept(entry) == entry

\* A weapon given by its name alone gets the only DBID of that name.
WeaponResolved(entry) ==
    IF entry.dbid = 0 /\ Cardinality(WeaponsNamed(entry.weapon)) = 1
    THEN [entry EXCEPT !.dbid = CHOOSE d \in WeaponsNamed(entry.weapon) : TRUE]
    ELSE entry

LoadoutIssues(u) ==
    LET found == Candidates(u) IN
    IF u.loadout = 0 THEN {} ELSE
    IF u.loadout \notin DOMAIN LoadoutOwners THEN {"loadout_not_found"} ELSE
    IF found = {} THEN {} ELSE
    LET platform == CHOOSE p \in found : TRUE IN
    Issue("loadout_requires_aircraft", platform.category # "aircraft")
    \cup Issue("loadout_mismatch", /\ platform.category = "aircraft"
                                   /\ ~BelongsToAircraft(u.loadout, u.dbid))

\* More than one candidate is the user's decision: nothing else of that unit is
\* looked at.
UnitIssues(u) ==
    IF u.category = NoCategory /\ Cardinality(Candidates(u)) > 1
    THEN {"platform_resolution_required"}
    ELSE Issue("platform_not_found", Candidates(u) = {})
         \cup LoadoutIssues(u)
         \cup UNION {WeaponIssues(u.loads[l]) : l \in DOMAIN u.loads}

UnitResolved(u) ==
    IF u.category = NoCategory /\ Cardinality(Candidates(u)) > 1 THEN u ELSE
    [u EXCEPT !.category = IF Candidates(u) = {} THEN @
                           ELSE (CHOOSE p \in Candidates(u) : TRUE).category,
              !.named = (IF Candidates(u) = {} THEN {} ELSE {"platform"})
                        \cup (IF u.loadout \in DOMAIN LoadoutOwners THEN {"loadout"} ELSE {}),
              !.loads = [l \in DOMAIN @ |-> WeaponResolved(@[l])]]

DatabaseIssues(ir, res) ==
    UNION {UnitIssues(Confirmed(ir.unitById[id], res)) : id \in DOMAIN ir.unitById}
    \cup UNION {WeaponIssues(ir.strikes[k]) : k \in DOMAIN ir.strikes}

Resolved(ir, res) ==
    [ir EXCEPT
        !.unitById = [id \in DOMAIN @ |-> UnitResolved(Confirmed(@[id], res))],
        !.strikes  = [k \in DOMAIN @ |-> WeaponResolved(@[k])]]

-----------------------------------------------------------------------------
(* Manifest: manifest_builder.py.  The units go back below their sides. *)

BuiltManifest(ir) ==
    [units   |-> [side \in Sides |->
                     [i \in DOMAIN ir.unitIds[side] |-> ir.unitById[ir.unitIds[side][i]]]],
     strikes |-> ir.strikes]

ManifestUnits(m)   == Range(m.units["red"]) \cup Range(m.units["blue"])
ManifestWeapons(m) == Range(m.strikes) \cup UNION {Range(u.loads) : u \in ManifestUnits(m)}

ManifestIssues(ir) ==
    LET m   == BuiltManifest(ir)
        ids == ir.unitIds["red"] \o ir.unitIds["blue"]
    IN  Issue("runtime_field_forbidden", ir.runtimeField)
        \cup Issue("unknown_unit_reference", ~(Range(ids) \subseteq DOMAIN ir.unitById))
        \cup Issue("duplicate_side_unit", Cardinality(Range(ids)) # Len(ids))
        \cup Issue("side_mismatch", \E side \in Sides :
                    \E u \in Range(m.units[side]) : u.side # side)
        \cup Issue("unresolved_platform", \E u \in ManifestUnits(m) :
                    "platform" \notin u.named \/ u.category = NoCategory)
        \cup Issue("unresolved_loadout", \E u \in ManifestUnits(m) :
                    u.loadout # 0 /\ "loadout" \notin u.named)
        \cup Issue("singular_shooter_forbidden", \E k \in DOMAIN m.strikes :
                    m.strikes[k].form # "many")
        \cup Issue("missing_weapon_dbid", \E w \in ManifestWeapons(m) : w.dbid = 0)

-----------------------------------------------------------------------------
(* Strategy: scenario_definition_builder.py, strategy_validator.py *)

\* The definition's constructor refuses a scenario without units and a unit
\* with two loads of one weapon; a sortie that lacks a field is a KeyError.
DefinitionBuilds(ir) ==
    /\ DOMAIN ir.unitById # {}
    /\ \A id \in DOMAIN ir.unitById :
          LET loads == ir.unitById[id].loads
          IN  \A l, k \in DOMAIN loads : loads[l].dbid = loads[k].dbid => l = k
    /\ ir.sorties # "partial"

Attack(strike) ==
    [shooter |-> strike.shooters[1], targets |-> strike.targets, dbid |-> strike.dbid,
     fire |-> strike.fired,
     reserve |-> IF strike.loaded > strike.fired THEN strike.loaded - strike.fired ELSE 0]

Attacks(ir) == [k \in DOMAIN ir.strikes |-> Attack(ir.strikes[k])]

Inventory(ir, attack) ==
    SelectSeq(ir.unitById[attack.shooter].loads, LAMBDA l : l.dbid = attack.dbid)

StrategyIssues(ir) ==
    LET attacks     == Attacks(ir)
        stored(a)   == Inventory(ir, a)
        limit(a)    == stored(a)[1].loaded
        counted     == SelectSeq(attacks, LAMBDA a :
                           stored(a) # <<>> /\ a.fire + a.reserve <= limit(a))
        alike(a)    == SelectSeq(counted, LAMBDA b : b.shooter = a.shooter /\ b.dbid = a.dbid)
        reserve(a)  == CHOOSE r \in {b.reserve : b \in Range(alike(a))} :
                           \A b \in Range(alike(a)) : b.reserve <= r
    IN  Issue("weapon_not_available", \E a \in Range(attacks) : stored(a) = <<>>)
        \cup Issue("ammo_exceeded", \E a \in Range(attacks) :
                    stored(a) # <<>> /\ a.fire + a.reserve > limit(a))
        \cup Issue("friendly_target", \E a \in Range(attacks) : \E t \in Range(a.targets) :
                    ir.unitById[t].side = ir.unitById[a.shooter].side)
        \cup Issue("total_ammo_exceeded", \E a \in Range(counted) :
                    Total(alike(a), LAMBDA b : b.fire) + reserve(a) > limit(a))
=============================================================================
