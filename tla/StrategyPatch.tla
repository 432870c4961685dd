---------------------------- MODULE StrategyPatch ----------------------------
(***************************************************************************)
(* The data of a proposal: which leaves of the baseline strategy a model   *)
(* may patch and with which values, when the patched strategy is one the   *)
(* scenario can execute, and how a candidate is judged against the role it *)
(* was generated for -- once by the proposal (CandidateIntentConformance-  *)
(* Validator) and once more by the quality gate (CandidateQualityEvaluator)*)
(*                                                                         *)
(* A leaf is <<operation, field>>; a strategy is a function of leaves; a   *)
(* patch is a function of some of them.                                    *)
(***************************************************************************)
EXTENDS Integers, FiniteSets
LOCAL INSTANCE FiniteSetsExt

CONSTANTS
    Attacks, Sorties,   \* operations of the baseline, by array position
    Platform,           \* operation -> the shooter or the aircraft
    PlatformType,       \* operation -> the type of that unit
    Weapon,             \* attack -> weapon_dbid, or AutoWeapon
    Inventory,          \* <<platform, weapon>> -> max_quantity
    Side,               \* unit -> side
    Baseline,           \* leaf -> scalar
    AllowedPaths        \* the package's allowed_strategy_paths

AutoWeapon == 0
Operations == Attacks \cup Sorties

\* build_patchable_leaf_catalog refuses a path the baseline does not resolve, and
\* every leaf of the baseline is one of an attack or a sortie.
ASSUME PathsAssumption ==
    /\ AllowedPaths \subseteq DOMAIN Baseline
    /\ \A leaf \in DOMAIN Baseline : leaf[1] \in Operations

Candidates == 1..4
MinPatchLeaves == 1
MaxPatchLeaves == 10

OperationOf(leaf) == leaf[1]
Field(leaf) == leaf[2]

SemanticDimension(leaf) ==
    CASE Field(leaf) = "launch_delay_seconds" -> "air_launch_timing"
      [] Field(leaf) = "ingress_altitude_m" -> "air_ingress_altitude"
      [] Field(leaf) \in {"popup_altitude_m", "popup_range_nm", "attack_range_nm"} ->
            "air_attack_range"
      [] Field(leaf) \in {"target_id", "target_ids"} -> "target_assignment"
      [] Field(leaf) = "fire_quantity" -> "fire_quantity"
      [] Field(leaf) \in {"delay_seconds", "fire_delay_seconds"} -> "attack_timing"
      [] Field(leaf) \in {"latitude", "longitude"} -> "air_route"
      [] Field(leaf) = "reserve_quantity" -> "ammunition_reserve"
      [] Field(leaf) = "return_delay_seconds" -> "risk_policy"
      [] OTHER -> "other"

Dimensions(leaves) == {SemanticDimension(leaf) : leaf \in leaves}
OperationsOf(leaves) == {OperationOf(leaf) : leaf \in leaves}

(***************************************************************************)
(* The catalog: the allowed leaves the runtime executes.  A sortie's fire  *)
(* delay is not preserved by the execution plan.                           *)
(***************************************************************************)
IsExecutable(leaf) == ~(OperationOf(leaf) \in Sorties /\ Field(leaf) = "fire_delay_seconds")
Catalog == {leaf \in AllowedPaths : IsExecutable(leaf)}

CapabilityRange(field) ==
    CASE field = "launch_delay_seconds" -> 0..120
      [] field = "ingress_altitude_m" -> 100..2000
      [] field = "popup_altitude_m" -> 3000..12000
      [] field \in {"popup_range_nm", "attack_range_nm"} -> 30..140

InventoryOf(attack) == Inventory[<<Platform[attack], Weapon[attack]>>]

WeaponsAboard(platform) == {w \in DOMAIN Inventory : w[1] = platform}

\* An automatic weapon is bounded by the platform's only inventory, or by the
\* quantity the baseline already fires.
QuantityMaximum(leaf) ==
    LET attack == OperationOf(leaf)
        other == IF Field(leaf) = "fire_quantity" THEN "reserve_quantity" ELSE "fire_quantity"
        aboard == WeaponsAboard(Platform[attack])
    IN  IF Weapon[attack] # AutoWeapon
        THEN InventoryOf(attack) - Baseline[<<attack, other>>]
        ELSE IF Cardinality(aboard) = 1
             THEN Inventory[CHOOSE w \in aboard : TRUE] - Baseline[<<attack, other>>]
             ELSE Baseline[<<attack, "fire_quantity">>]

EnemyTargets(operation) == {u \in DOMAIN Side : Side[u] # Side[Platform[operation]]}

ValueAllowed(leaf, value) ==
    CASE Field(leaf) \in {"launch_delay_seconds", "ingress_altitude_m", "popup_altitude_m",
                          "popup_range_nm", "attack_range_nm"} ->
            value \in CapabilityRange(Field(leaf))
      [] Field(leaf) = "latitude" -> value \in -90..90
      [] Field(leaf) = "longitude" -> value \in -180..180
      [] Field(leaf) \in {"fire_quantity", "reserve_quantity"} ->
            value \in 0..QuantityMaximum(leaf)
      [] Field(leaf) \in {"target_id", "target_ids"} ->
            value \in EnemyTargets(OperationOf(leaf))
      [] OTHER -> value \in 0..86400

(***************************************************************************)
(* StrategyPatchAssembler.assemble.                                        *)
(***************************************************************************)
Apply(patch) ==
    [leaf \in DOMAIN Baseline |->
        IF leaf \in DOMAIN patch THEN patch[leaf] ELSE Baseline[leaf]]

CountInBounds(patch) == Cardinality(DOMAIN patch) \in MinPatchLeaves..MaxPatchLeaves

NonExecutable(patch) == \E leaf \in DOMAIN patch : ~IsExecutable(leaf)

\* What CandidatePatchGenerator.generate lets through: an offered patch.
Offered(patch) ==
    ~NonExecutable(patch) /\ CountInBounds(patch) /\ DOMAIN patch \subseteq Catalog

ChangesSomething(leaf, value) == value # Baseline[leaf]

\* AirTactics refuses an attack range beyond the popup range and an ingress
\* above the popup altitude: two legal values of one patch can clash.
Rebuilds(strategy) ==
    \A s \in Sorties :
        /\ {<<s, "attack_range_nm">>, <<s, "popup_range_nm">>} \subseteq DOMAIN strategy =>
              strategy[<<s, "attack_range_nm">>] < strategy[<<s, "popup_range_nm">>]
        /\ {<<s, "ingress_altitude_m">>, <<s, "popup_altitude_m">>} \subseteq DOMAIN strategy =>
              strategy[<<s, "ingress_altitude_m">>] < strategy[<<s, "popup_altitude_m">>]

Assembles(patch) ==
    /\ Offered(patch)
    /\ \A leaf \in DOMAIN patch :
          ValueAllowed(leaf, patch[leaf]) /\ ChangesSomething(leaf, patch[leaf])
    /\ Rebuilds(Apply(patch))

LeafDiff(strategy) == {leaf \in DOMAIN strategy : strategy[leaf] # Baseline[leaf]}

(***************************************************************************)
(* StrategyValidator.validate: the scenario's inventory, sides and map.    *)
(***************************************************************************)
Fires(strategy, attack) == strategy[<<attack, "fire_quantity">>]
Reserves(strategy, attack) == strategy[<<attack, "reserve_quantity">>]

Explicit == {a \in Attacks : Weapon[a] # AutoWeapon}

SharersOf(attack) ==
    {a \in Explicit : Platform[a] = Platform[attack] /\ Weapon[a] = Weapon[attack]}

TotalReserve(strategy, attack) == Max({Reserves(strategy, a) : a \in SharersOf(attack)})

\* The quantities of every attack of one shooter with one weapon add up; the
\* reserves do not, the largest one is kept.
TotalAmmoWithin(strategy, attack, reserve) ==
    MapThenSumSet(LAMBDA a : Fires(strategy, a), SharersOf(attack)) + reserve
        <= InventoryOf(attack)

AmmoWithinInventory(strategy) ==
    \A a \in Explicit :
        /\ Fires(strategy, a) + Reserves(strategy, a) <= InventoryOf(a)
        /\ TotalAmmoWithin(strategy, a, TotalReserve(strategy, a))

TargetsHostile(strategy) ==
    \A leaf \in DOMAIN strategy :
        Field(leaf) \in {"target_id", "target_ids"} =>
            strategy[leaf] \in EnemyTargets(OperationOf(leaf))

RouteOnMap(strategy) ==
    \A leaf \in DOMAIN strategy :
        /\ Field(leaf) = "latitude" => strategy[leaf] \in -90..90
        /\ Field(leaf) = "longitude" => strategy[leaf] \in -180..180

StrategyValid(strategy) ==
    AmmoWithinInventory(strategy) /\ TargetsHostile(strategy) /\ RouteOnMap(strategy)

(***************************************************************************)
(* The roles.  Candidates are numbered from 1; preferred is the set of     *)
(* dimensions the planner recommended for the candidate.                   *)
(***************************************************************************)
RoleSpec(candidate) ==
    CASE candidate \in {1, 2} ->
            [leaves |-> 3..5, operations |-> 2..MaxPatchLeaves, dimensions |-> 2..MaxPatchLeaves,
             together |-> FALSE]
      [] candidate = 3 ->
            [leaves |-> 5..8, operations |-> 3..MaxPatchLeaves, dimensions |-> 3..MaxPatchLeaves,
             together |-> TRUE]
      [] candidate = 4 ->
            [leaves |-> 1..2, operations |-> 1..1, dimensions |-> 1..1, together |-> FALSE]

Adherence(warnings) ==
    CASE warnings = {} -> "full"
      [] Cardinality(warnings) = 1 -> "partial"
      [] OTHER -> "weak"

\* CandidateIntentConformanceValidator: what the proposal finds unlike the role.
RoleWarnings(candidate, preferred, leaves) ==
    LET role == RoleSpec(candidate)
    IN  {rule \in {"changed_leaf_count", "operation_count", "dimension_count",
                   "surface", "sortie", "preferred_dimension"} :
           \/ rule = "changed_leaf_count" /\ Cardinality(leaves) \notin role.leaves
           \/ rule = "operation_count" /\ Cardinality(OperationsOf(leaves)) \notin role.operations
           \/ rule = "dimension_count" /\ Cardinality(Dimensions(leaves)) \notin role.dimensions
           \/ rule = "surface" /\ role.together /\ OperationsOf(leaves) \cap Attacks = {}
           \/ rule = "sortie" /\ role.together /\ OperationsOf(leaves) \cap Sorties = {}
           \/ rule = "preferred_dimension" /\ Dimensions(leaves) \cap preferred = {}}

\* _role_conformance of the quality gate counts once more, over the operations
\* of the baseline.
RoleViolations(candidate, preferred, leaves) ==
    LET role == RoleSpec(candidate)
        surface == {o \in Attacks : \E leaf \in leaves : OperationOf(leaf) = o}
        sortie == {o \in Sorties : \E leaf \in leaves : OperationOf(leaf) = o}
    IN  {rule \in {"changed_leaf_count", "operation_count", "dimension_count",
                   "surface_required", "sortie_required", "preferred_dimension_missing"} :
           \/ rule = "changed_leaf_count" /\ Cardinality(leaves) \notin role.leaves
           \/ rule = "operation_count" /\ Cardinality(surface \cup sortie) \notin role.operations
           \/ rule = "dimension_count" /\ Cardinality(Dimensions(leaves)) \notin role.dimensions
           \/ rule = "surface_required" /\ role.together /\ surface = {}
           \/ rule = "sortie_required" /\ role.together /\ sortie = {}
           \/ rule = "preferred_dimension_missing" /\ Dimensions(leaves) \cap preferred = {}}

(***************************************************************************)
(* The gates a complete set of four patches passes.                        *)
(***************************************************************************)
\* Mutant: Repeated strategies are not looked for.
DistinctUnchecked(patches) == \A c \in Candidates : patches[c] = patches[c]

Distinct(patches) ==
    LET strategies == [c \in Candidates |-> Apply(patches[c])]
    IN  \A c, d \in Candidates : c # d => strategies[c] # strategies[d]

CandidateSetValid(patches) ==
    /\ Distinct(patches)
    /\ \A c \in Candidates :
          /\ StrategyValid(Apply(patches[c]))
          /\ {leaf \in LeafDiff(Apply(patches[c])) : IsExecutable(leaf)} # {}
          /\ ~NonExecutable(patches[c])

Novel(patches) ==
    Distinct(patches) /\ \A c \in Candidates : LeafDiff(Apply(patches[c])) # {}

\* Only repeated strategies fail the quality gate; all else is a warning.
QualityPasses(patches) == Distinct(patches)

\* path_jaccard of two candidates of at least 0.8.
Alike(left, right) ==
    5 * Cardinality(left \cap right) >= 4 * Cardinality(left \cup right)

BatchWarningNames ==
    {"operation_coverage", "dimension_coverage", "platform_type_coverage",
     "surface_sortie_candidate_required", "same_operation_set", "path_jaccard_high"}

BatchWarnings(patches) ==
    LET changed == [c \in Candidates |-> LeafDiff(Apply(patches[c]))]
        touched == [c \in Candidates |-> OperationsOf(changed[c])]
        all == UNION {touched[c] : c \in Candidates}
        dimensions == Dimensions(UNION {changed[c] : c \in Candidates})
        mixed(c) == touched[c] \cap Attacks # {} /\ touched[c] \cap Sorties # {}
    IN  {warning \in BatchWarningNames :
           \/ warning = "operation_coverage" /\ Cardinality(all) < 4
           \/ warning = "dimension_coverage" /\ Cardinality(dimensions) < 3
           \/ warning = "platform_type_coverage" /\ Cardinality({PlatformType[o] : o \in all}) < 2
           \/ warning = "surface_sortie_candidate_required" /\ \A c \in Candidates : ~mixed(c)
           \/ warning = "same_operation_set" /\ touched[1] = touched[2] /\ touched[2] = touched[3]
           \/ /\ warning = "path_jaccard_high"
              /\ \E c, d \in Candidates : c < d /\ Alike(changed[c], changed[d])}

QualityReport(patches, preferred) ==
    [adherence |-> [c \in Candidates |->
                       Adherence(RoleViolations(c, preferred[c], LeafDiff(Apply(patches[c]))))],
     warnings |-> BatchWarnings(patches)]
==============================================================================
