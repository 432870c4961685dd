---------------------------- MODULE LuaGeneration ----------------------------
(***************************************************************************)
(* The script the CMOLua generator writes of a resolved manifest           *)
(* (src/CMOLua-main/tools/json_to_lua.py) and what the preflight reads out *)
(* of it (generation/lua_preflight_validator.py).  The Lua text is the     *)
(* tables and calls it contains; sides, banners, the static sections and   *)
(* coordinates, which no rule here depends on, are left out.               *)
(***************************************************************************)
EXTENDS ScenarioContract

(* The generator *)

\* What a unit is built as follows its type text, never its database category.
Classify(u) ==
    IF u.type = "aircraft" THEN "aircraft"
    ELSE IF u.type = "carrier" \/ u.carried # {} THEN "carrier"
    ELSE "ship"

UnitIndex(m) ==
    [id \in {u.id : u \in ManifestUnits(m)} |->
        CHOOSE u \in ManifestUnits(m) : u.id = id]

Warnings(m) ==
    LET planes == {u \in Range(m.units["red"]) : Classify(u) = "aircraft"}
    IN  Issue("no base", \E u \in planes : u.base \notin DOMAIN UnitIndex(m))
        \cup Issue("no loadout", \E u \in planes : u.loadout = 0)

Entry(u) == [name |-> u.id, dbid |-> u.dbid,
             loadout |-> IF Classify(u) = "aircraft" THEN u.loadout ELSE 0]
BlueEntry(u) == [name |-> u.id, dbid |-> u.dbid, loadout |-> 0]

\* Red units but carriers are rearmed with what the manifest loads them with.
Reloads(m) ==
    UNION {{[name |-> u.id, dbid |-> u.loads[l].dbid, quantity |-> u.loads[l].loaded]
            : l \in {i \in DOMAIN u.loads : u.loads[i].loaded > 0 /\ u.loads[i].dbid # 0}}
           : u \in {r \in Range(m.units["red"]) : Classify(r) # "carrier"}}

Pairs(shooters, targets) ==
    IF shooters = <<>> \/ targets = <<>> THEN <<>>
    ELSE IF Len(shooters) = 1 /\ Len(targets) # 1
    THEN [i \in DOMAIN targets |-> <<shooters[1], targets[i]>>]
    ELSE [i \in DOMAIN shooters |->
             <<shooters[i], targets[((i - 1) % Len(targets)) + 1]>>]

\* Mutant: The remainder of the division is lost.
SplitQuantityEvenly(total, n) == [i \in 1..n |-> total \div n]

\* As even as it goes, the first parts taking the remainder.
SplitQuantity(total, n) ==
    [i \in 1..n |-> total \div n + (IF i <= total % n THEN 1 ELSE 0)]

Orders(strike) ==
    LET pairs  == Pairs(strike.shooters, strike.targets)
        shares == SplitQuantity(strike.fired, Len(pairs))
        all    == [i \in DOMAIN pairs |-> [attacker |-> pairs[i][1], target |-> pairs[i][2],
                                           quantity |-> shares[i]]]
    IN  IF pairs = <<>> THEN <<>> ELSE SelectSeq(all, LAMBDA o : o.quantity > 0)

Generated(m) ==
    [red     |-> [i \in DOMAIN m.units["red"] |-> Entry(m.units["red"][i])],
     blue    |-> [i \in DOMAIN m.units["blue"] |-> BlueEntry(m.units["blue"][i])],
     reloads |-> Reloads(m),
     orders  |-> [k \in DOMAIN m.strikes |-> Orders(m.strikes[k])],
     warnings |-> Warnings(m)]

-----------------------------------------------------------------------------
(* The preflight.  It takes a name or a number for present when it occurs   *)
(* anywhere in the text.                                                    *)

Created(lua) == Range(lua.red) \cup Range(lua.blue)

NamesIn(lua) ==
    {e.name : e \in Created(lua)} \cup {r.name : r \in lua.reloads}
    \cup UNION {{o.attacker : o \in Range(lua.orders[k])} \cup
                {o.target : o \in Range(lua.orders[k])} : k \in DOMAIN lua.orders}

\* The warnings that block: the generator's wording of the two it can give of
\* a resolved manifest matches no blocking pattern.
BlockingWarnings == {"dbid"}

PreflightIssues(lua, m, outputExists) ==
    Issue("output_exists", outputExists)
    \cup Issue("unit_name_missing", \E u \in ManifestUnits(m) : u.id \notin NamesIn(lua))
    \cup Issue("unit_dbid_missing", \E u \in ManifestUnits(m) :
                  u.dbid \notin {e.dbid : e \in Created(lua)})
    \cup Issue("loadout_missing", \E u \in ManifestUnits(m) :
                  u.loadout # 0 /\ u.loadout \notin {e.loadout : e \in Created(lua)})
    \cup Issue("generator_warning_blocking", lua.warnings \cap BlockingWarnings # {})
=============================================================================
