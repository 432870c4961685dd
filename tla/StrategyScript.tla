--------------------------- MODULE StrategyScript ---------------------------
(* From a StrategySpec to the script CMO plays: the validation of a strategy  *)
(* against the scenario (contract/strategy_validator.py), its compilation     *)
(* into an execution plan (generation/execution_plan_compiler.py), the check  *)
(* of the plan (capability_validator.py, runtime_primitives.py), the order of *)
(* the scored plan (scored_lua_assembly.py) and the two ways a script is      *)
(* assembled: the generic renderer (lua_renderer.py) and the operator's       *)
(* template (manual_lua_template.py, manual_template_assembly.py).            *)
(*                                                                            *)
(* A strategy is [attacks, sorties]; an attack                                *)
(* [id, shooter, targets, weapon, fire, reserve, delay], with weapon Auto for *)
(* weapon_selection = "auto"; a sortie                                        *)
(* [id, aircraft, target, base, route, tactics].  A script is a sequence of   *)
(* lines [do, name] and the order each attack's events carry.                 *)
EXTENDS Integers, Sequences, FiniteSets
LOCAL INSTANCE SequencesExt
LOCAL INSTANCE FiniteSetsExt
LOCAL INSTANCE Functions

CONSTANTS Units,     \* unit ids of the scenario
          Side,      \* unit -> side
          Platform,  \* unit -> platform type
          Home,      \* unit -> base unit, None for a unit without one
          Stock,     \* unit -> (weapon -> max_quantity)
          Scored,    \* the units whose loss changes the score
          Rank,      \* the place of every id in string order
          Missions,  \* missions of the scenario IR of the controlled input package
          Template,  \* the attack rows of the operator's template
          Slots      \* strategy leaf -> [row, field, allowed]

Auto == "auto"
None == "none"
OffMap == "off the map"
DefaultTactics == "default"

Ships == {u \in Units : Platform[u] = "ship"}
Aircraft == {u \in Units : Platform[u] = "aircraft"}
InOrder(S) ==
    [k \in 1..Cardinality(S) |->
       CHOOSE a \in S : Cardinality({b \in S : Rank[b] < Rank[a]}) = k - 1]
EachOf(n, F(_)) == FlattenSeq([i \in 1..n |-> F(i)])

\* ScenarioUnit, WeaponInventory
UnitSound(u) == /\ Home[u] \in Units \cup {None}
                /\ Range(Stock[u]) \subseteq Nat

ASSUME ScenarioAssumption == /\ Scored \subseteq Ships \cup Aircraft
                             /\ \A u \in Units : UnitSound(u)

-----------------------------------------------------------------------------
(* The constructors of strategy_models.py and the baseline strategy, which    *)
(* BaselineStrategyBuilder derives from the missions of the scenario.         *)

DirectiveSound(a) == /\ a.targets # <<>>
                     /\ {a.fire, a.delay, a.reserve} \subseteq Nat

Distinct(directives) == IsInjective([i \in DOMAIN directives |-> directives[i].id])

HasRoute(x) == x.route # <<>>

WellFormed(s) ==
    /\ \A i \in DOMAIN s.attacks : DirectiveSound(s.attacks[i])
    /\ \A i \in DOMAIN s.sorties : HasRoute(s.sorties[i])
    /\ Distinct(s.attacks) /\ Distinct(s.sorties)

\* mission.get(field, default)
Given(m, field, default) == IF field \in DOMAIN m THEN m[field] ELSE default

AttackOf(m) ==
    [id |-> m.id, shooter |-> m.unit, targets |-> <<m.target>>,
     weapon |-> IF m.selection = Auto THEN Auto ELSE m.weapon,
     fire |-> m.fire, reserve |-> Given(m, "reserve", 0), delay |-> Given(m, "delay", 0)]

\* An aircraft's mission is an attack and a sortie of the same id.
SortieOf(m) ==
    [id |-> m.id, aircraft |-> m.unit, target |-> m.target, base |-> m.base,
     route |-> m.route, tactics |-> Given(m, "tactics", DefaultTactics)]

Baseline ==
    [attacks |-> [i \in DOMAIN Missions |-> AttackOf(Missions[i])],
     sorties |-> LET flown == SelectSeq(Missions, LAMBDA m : m.type = "aircraft_attack")
                 IN [i \in DOMAIN flown |-> SortieOf(flown[i])]]

\* What build does not refuse.
Derivable(m) == /\ m.type \in {"ship_attack", "aircraft_attack"}
                /\ {m.unit, m.target} \subseteq Units
                /\ m.selection \in {Auto, "manual", "explicit"}

ASSUME MissionAssumption == /\ \A i \in DOMAIN Missions : Derivable(Missions[i])
                            /\ WellFormed(Baseline)

-----------------------------------------------------------------------------
(* StrategyValidator.validate                                                *)

AttackSound(a) ==
    /\ a.shooter \in Units
    /\ a.weapon # Auto => /\ a.weapon \in DOMAIN Stock[a.shooter]
                          /\ a.fire + a.reserve <= Stock[a.shooter][a.weapon]
    /\ \A t \in Range(a.targets) : t \in Units /\ Side[t] # Side[a.shooter]

\* The indexes of the attacks that draw on the magazine attack i draws on.
SameMagazine(s, i) ==
    {j \in DOMAIN s.attacks : /\ s.attacks[j].shooter = s.attacks[i].shooter
                              /\ s.attacks[j].weapon = s.attacks[i].weapon}

\* A defect: each directive is compared with the magazine on its own.
MagazineSoundAlone(s, i) ==
    s.attacks[i].weapon # Auto =>
      s.attacks[i].fire + s.attacks[i].reserve
        <= Stock[s.attacks[i].shooter][s.attacks[i].weapon]

MagazineSound(s, i) ==
    LET a == s.attacks[i]
    IN a.weapon # Auto =>
         MapThenSumSet(LAMBDA j : s.attacks[j].fire, SameMagazine(s, i))
           + Max({s.attacks[j].reserve : j \in SameMagazine(s, i)})
           <= Stock[a.shooter][a.weapon]

SortieSound(x) ==
    /\ x.aircraft \in Units
    /\ Home[x.aircraft] = x.base
    /\ x.target \in Units /\ Side[x.target] # Side[x.aircraft]
    /\ OffMap \notin Range(x.route)

Valid(s) ==
    /\ \A i \in DOMAIN s.attacks : AttackSound(s.attacks[i])
    /\ \A i \in DOMAIN s.attacks : MagazineSound(s, i)
    /\ \A i \in DOMAIN s.sorties : SortieSound(s.sorties[i])

-----------------------------------------------------------------------------
(* ExecutionPlanCompiler.compile.  An operation is known by its kind and the *)
(* id it is about, as operation_id is; deps holds such pairs.                *)

Op(kind, name, deps) == [kind |-> kind, name |-> name, deps |-> deps]
IdOf(op) == <<op.kind, op.name>>

CapabilityGap(s) ==
    \E i \in DOMAIN s.attacks : s.attacks[i].shooter \notin Ships \cup Aircraft

\* air_attacks is keyed by the shooter: a later attack replaces an earlier one.
AirAttacks(s, u) == {i \in DOMAIN s.attacks : s.attacks[i].shooter = u}
AirAttackOf(s, x) == s.attacks[Max(AirAttacks(s, x.aircraft))]
Flown(s) == SelectSeq(s.sorties, LAMBDA x : x.aircraft \in Aircraft)

\* What raises inside the compiler: a ship attack naming a target twice, a
\* sortie whose aircraft attacks nothing, two sorties of one aircraft.
Compilable(s) ==
    /\ ~CapabilityGap(s)
    /\ \A i \in DOMAIN s.attacks :
         s.attacks[i].shooter \in Ships => IsInjective(s.attacks[i].targets)
    /\ \A i \in DOMAIN Flown(s) : AirAttacks(s, Flown(s)[i].aircraft) # {}
    /\ \A i, j \in DOMAIN Flown(s) :
         i # j => Flown(s)[i].aircraft # Flown(s)[j].aircraft

UnitOp(u) ==
    Op("unit", u, {<<"sides", "setup">>}
                    \cup IF u \in Aircraft /\ Home[u] # None
                         THEN {<<"unit", Home[u]>>} ELSE {})

ContactOp(t) == Op("contact", t, {<<"unit", t>>, <<"side_state", "setup">>})

TargetIds(s) ==
    UNION {Range(s.attacks[i].targets) : i \in DOMAIN s.attacks}
      \cup {s.sorties[i].target : i \in DOMAIN s.sorties}

InventoryOps(s, i) ==
    LET u == s.attacks[i].shooter
    IN IF u \in Ships /\ \A j \in 1..(i - 1) : s.attacks[j].shooter # u
       THEN <<Op("inventory", u, {<<"unit", u>>})>> ELSE <<>>

ShipAttackOps(s, i) ==
    LET a == s.attacks[i]
    IN IF a.shooter \in Ships
       THEN <<Op("attack", a.id, {<<"inventory", a.shooter>>}
                   \cup {<<"contact", t>> : t \in Range(a.targets)})>>
       ELSE <<>>

SortieOps(s, x) ==
    LET attack == AirAttackOf(s, x).id
    IN << Op("aircraft", x.id, {<<"unit", x.aircraft>>, <<"unit", x.base>>}),
          Op("air_launch", x.id, {<<"aircraft", x.id>>}),
          Op("air_airborne", x.id, {<<"air_launch", x.id>>}),
          Op("air_route", x.id, {<<"air_airborne", x.id>>}),
          Op("air_range", x.id, {<<"air_route", x.id>>, <<"contact", x.target>>}),
          Op("air_attack", attack, {<<"air_range", x.id>>}),
          Op("air_return", x.id, {<<"air_attack", attack>>}) >>

Plan(s) ==
    LET units == InOrder(Ships \cup Aircraft)
        targets == InOrder(TargetIds(s))
    IN <<Op("sides", "setup", {}), Op("side_state", "setup", {<<"sides", "setup">>})>>
         \o [i \in DOMAIN units |-> UnitOp(units[i])]
         \o [i \in DOMAIN targets |-> ContactOp(targets[i])]
         \o EachOf(Len(s.attacks), LAMBDA i : InventoryOps(s, i))
         \o EachOf(Len(s.attacks), LAMBDA i : ShipAttackOps(s, i))
         \o EachOf(Len(Flown(s)), LAMBDA i : SortieOps(s, Flown(s)[i]))

(* CapabilityValidator.validate: every dependency is in the plan and a ship  *)
(* attack fires at least one weapon.                                         *)
Capable(s) ==
    /\ \A op \in Range(Plan(s)) : op.deps \subseteq {IdOf(o) : o \in Range(Plan(s))}
    /\ \A i \in DOMAIN s.attacks :
         s.attacks[i].shooter \in Ships => s.attacks[i].fire > 0

-----------------------------------------------------------------------------
(* normalize_scored_execution_plan: the least ready operation is taken next, *)
(* initialisation before the rest and then by operation_id.                  *)

InitKinds == {"sides", "side_state", "unit", "contact", "inventory", "aircraft"}
IdOrder == <<"air_airborne", "air_attack", "air_launch", "air_range", "air_return",
             "air_route", "aircraft", "attack", "contact", "inventory",
             "side_state", "sides", "unit">>
Phase(op) == IF op.kind \in InitKinds THEN 0 ELSE 1
KindRank(op) == CHOOSE i \in DOMAIN IdOrder : IdOrder[i] = op.kind
SortKey(op) == <<Phase(op), KindRank(op), Rank[op.name]>>

Precedes(o, p) ==
    LET a == SortKey(o)
        b == SortKey(p)
    IN \/ a[1] < b[1]
       \/ a[1] = b[1] /\ a[2] < b[2]
       \/ a[1] = b[1] /\ a[2] = b[2] /\ a[3] < b[3]

\* A defect: the scored plan keeps the compiler's order.
CompilerOrder(plan) == plan

Normalized(plan) ==
    LET order[n \in 0..Len(plan)] ==
          IF n = 0 THEN <<>>
          ELSE LET done == order[n - 1]
                   ready == {o \in Range(plan) \ Range(done) :
                               o.deps \subseteq {IdOf(d) : d \in Range(done)}}
               IN Append(done, CHOOSE o \in ready :
                                 \A p \in ready : p = o \/ Precedes(o, p))
    IN order[Len(plan)]

-----------------------------------------------------------------------------
(* The generic renderer.  Operations that only log, or that prepare sides,   *)
(* contacts and magazines with calls whose answer nothing reads, are no      *)
(* lines here.                                                               *)

Line(do, name) == [do |-> do, name |-> name]
ScoreLines == [i \in DOMAIN InOrder(Scored) |-> Line("score", InOrder(Scored)[i])]

\* The score rules go in after the first initialisation that is followed by
\* something else.
ScorePoint(plan) ==
    Min({i \in DOMAIN plan : /\ Phase(plan[i]) = 0
                             /\ i < Len(plan) => Phase(plan[i + 1]) # 0})

OpLines(s, op) ==
    CASE op.kind = "unit" -> <<Line("create", op.name)>>
      [] op.kind = "attack" -> <<Line("schedule", op.name)>>
      [] op.kind = "air_launch" ->
           LET x == CHOOSE x \in Range(s.sorties) : x.id = op.name
           IN <<Line("schedule", AirAttackOf(s, x).id)>>
      [] OTHER -> <<>>

RenderedLines(s) ==
    LET plan == Normalized(Plan(s))
    IN EachOf(Len(plan), LAMBDA i : OpLines(s, plan[i])
                           \o IF i = ScorePoint(plan) THEN ScoreLines ELSE <<>>)

\* Non-default tactics have no renderer and a route of one point no context.
Renderable(s) ==
    \A i \in DOMAIN Flown(s) : /\ Flown(s)[i].tactics = DefaultTactics
                               /\ Len(Flown(s)[i].route) >= 2

\* The attacks that reach the script: an air attack without a sortie does not.
Carried(s) ==
    {a \in Range(s.attacks) :
       \/ a.shooter \in Ships
       \/ \E i \in DOMAIN Flown(s) : AirAttackOf(s, Flown(s)[i]) = a}

\* One attack of automatic weapon choice puts the whole script in that mode.
AutoMode(s) == \E a \in Carried(s) : a.weapon = Auto

RenderedOrders(s) ==
    [id \in {a.id : a \in Carried(s)} |->
       LET a == CHOOSE c \in Carried(s) : c.id = id
       IN [shooter |-> a.shooter, target |-> a.targets[1], delay |-> a.delay,
           weapon |-> IF AutoMode(s) THEN Auto ELSE a.weapon,
           quantity |-> a.fire]]

-----------------------------------------------------------------------------
(* The operator's template: its rows with the slots a strategy changes.      *)

Leaf(s, p) ==
    IF p[3] \in {"targets", "route"} THEN s[p[1]][p[2]][p[3]][p[4]]
    ELSE s[p[1]][p[2]][p[3]]

LeavesOf(s) ==
    {<<"attacks", i, f, 1>> : i \in DOMAIN s.attacks,
                              f \in {"shooter", "weapon", "fire", "reserve", "delay"}}
      \cup UNION {{<<"attacks", i, "targets", k>> : k \in DOMAIN s.attacks[i].targets}
                    : i \in DOMAIN s.attacks}
      \cup {<<"sorties", i, f, 1>> : i \in DOMAIN s.sorties,
                                     f \in {"aircraft", "target", "base", "tactics"}}
      \cup UNION {{<<"sorties", i, "route", k>> : k \in DOMAIN s.sorties[i].route}
                    : i \in DOMAIN s.sorties}

\* strategy_leaf_diff raises unless directives and arrays correspond; a change
\* between chosen and automatic weapon changes the keys of the attack.
SameShape(s) ==
    /\ [i \in DOMAIN s.attacks |-> s.attacks[i].id]
         = [i \in DOMAIN Baseline.attacks |-> Baseline.attacks[i].id]
    /\ [i \in DOMAIN s.sorties |-> s.sorties[i].id]
         = [i \in DOMAIN Baseline.sorties |-> Baseline.sorties[i].id]
    /\ LeavesOf(s) = LeavesOf(Baseline)
    /\ \A i \in DOMAIN s.attacks :
         (s.attacks[i].weapon = Auto) = (Baseline.attacks[i].weapon = Auto)

ChangedLeaves(s) == {p \in LeavesOf(Baseline) : Leaf(s, p) # Leaf(Baseline, p)}

Overlayable(s) ==
    /\ SameShape(s)
    /\ \A p \in ChangedLeaves(s) :
         p \in DOMAIN Slots /\ Leaf(s, p) \in Slots[p].allowed

\* A defect: the overlay's updates are dropped.
OverlayDropped(s) == Template

\* Slots the strategy leaves alone keep the value of the template.
Overlay(s) ==
    [r \in DOMAIN Template |->
       [f \in DOMAIN Template[r] |->
          LET own == {p \in ChangedLeaves(s) : /\ Slots[p].row = r
                                               /\ Slots[p].field = f}
          IN IF own = {} THEN Template[r][f] ELSE Leaf(s, CHOOSE p \in own : TRUE)]]

TemplateLines ==
    LET ships == InOrder(Ships)
        planes == InOrder(Aircraft)
        Named(do, q) == [i \in DOMAIN q |-> Line(do, q[i])]
        rows == [r \in DOMAIN Template |-> Template[r].id]
    IN Named("validate", rows) \o Named("create", ships) \o Named("create", planes)
         \o Named("arm", InOrder({u \in Ships : DOMAIN Stock[u] # {}}))
         \o ScoreLines \o Named("schedule", rows)

TemplateOrders(rows) ==
    [id \in {rows[r].id : r \in DOMAIN rows} |->
       LET row == rows[CHOOSE r \in DOMAIN rows : rows[r].id = id]
       IN [shooter |-> row.shooter, target |-> row.target, delay |-> row.delay,
           weapon |-> row.weapon, quantity |-> row.quantity]]

-----------------------------------------------------------------------------
(* CandidateEvaluationWorkflow: validate, compile, check, assemble.          *)

Executors == {"renderer", "template"}

Accepted(executor, s) ==
    /\ Valid(s)
    /\ Compilable(s)
    /\ Capable(s)
    /\ IF executor = "renderer" THEN Renderable(s) ELSE Overlayable(s)

Script(executor, s) ==
    IF executor = "renderer"
    THEN [lines |-> RenderedLines(s), orders |-> RenderedOrders(s)]
    ELSE [lines |-> TemplateLines, orders |-> TemplateOrders(Overlay(s))]
=============================================================================
