------------------------- MODULE MCCandidatePreview -------------------------
(* A destroyer with two attacks that share one missile inventory and an
   aircraft with one sortie; one good patch for every role and one patch for
   every way a patch is refused. *)
EXTENDS CandidatePreview, TLC

MCAttacks == {"a0", "a1"}
MCSorties == {"s0"}
MCPlatform == [o \in {"a0", "a1"} |-> "destroyer"] @@ [o \in {"s0"} |-> "fighter"]
MCPlatformType == [o \in {"a0", "a1"} |-> "ship"] @@ [o \in {"s0"} |-> "aircraft"]
MCWeapon == [a \in {"a0", "a1"} |-> 7]
MCInventory == <<"destroyer", 7>> :> 8
MCSide == [u \in {"destroyer", "fighter"} |-> "red"] @@ [u \in {"carrier", "frigate"} |-> "blue"]

MCBaseline ==
    [leaf \in {"a0", "a1"} \X {"fire_quantity"} |-> 3]
    @@ [leaf \in {"a0", "a1"} \X {"reserve_quantity"} |-> 1]
    @@ [leaf \in {"a0", "a1"} \X {"delay_seconds"} |-> 0]
    @@ [leaf \in {"a0", "a1", "s0"} \X {"target_id"} |-> "carrier"]
    @@ (<<"s0", "launch_delay_seconds">> :> 5)
    @@ (<<"s0", "attack_range_nm">> :> 80)
    @@ (<<"s0", "popup_range_nm">> :> 95)
    @@ (<<"s0", "latitude">> :> 20)
    @@ (<<"s0", "fire_delay_seconds">> :> 0)

MCAllowedPaths == DOMAIN MCBaseline

Exploit ==
    (<<"a0", "fire_quantity">> :> 4) @@ (<<"a0", "delay_seconds">> :> 30)
    @@ (<<"s0", "launch_delay_seconds">> :> 20)
Repair ==
    (<<"a1", "target_id">> :> "frigate") @@ (<<"s0", "attack_range_nm">> :> 60)
    @@ (<<"s0", "latitude">> :> 21)
Explore ==
    (<<"a0", "target_id">> :> "frigate") @@ (<<"a1", "delay_seconds">> :> 60)
    @@ (<<"s0", "launch_delay_seconds">> :> 40) @@ (<<"s0", "latitude">> :> 19)
    @@ (<<"a1", "reserve_quantity">> :> 2)
Control == <<"a0", "delay_seconds">> :> 15
Small == <<"s0", "latitude">> :> 18

\* Five missiles of each attack are within its own limit and over the ship's.
Overdrawn ==
    (<<"a0", "fire_quantity">> :> 5) @@ (<<"a1", "fire_quantity">> :> 5)
    @@ (<<"s0", "latitude">> :> 22)
Clash == (<<"s0", "attack_range_nm">> :> 100) @@ (<<"a0", "delay_seconds">> :> 45)
FireDelay == <<"s0", "fire_delay_seconds">> :> 30

Own == <<Exploit, Repair, Explore, Control>>

\* Together the candidates meet every way to be refused: beyond the inventory,
\* not executable, a repeated strategy, values that clash, too small for the role.
Refused == <<{Overdrawn}, {Exploit, Clash}, {Small}, {FireDelay}>>

MCReplies == [c \in Candidates |-> {Own[c]} \cup Refused[c]]

MCPlans == {[c \in Candidates |-> IF c = 2 THEN {"fire_quantity"} ELSE {"attack_timing"}]}
=============================================================================
