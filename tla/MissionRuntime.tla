--------------------------- MODULE MissionRuntime ---------------------------
(* One candidate strategy on its way through CMO: it is assembled into a      *)
(* script or refused, CMO runs the script line by line, and the events the    *)
(* script scheduled then fire, each Lua body scheduling its successor before  *)
(* it removes its own event.  The bodies are those of generation/             *)
(* lua_renderer.py ("renderer") and of baseline/6v4/manual-template/          *)
(* manual_baseline_template.lua ("template").                                 *)
(*                                                                            *)
(* CMO answers as it likes: a call of the loading script may be refused, a    *)
(* target may be out of contact or range, an order may be turned down, a unit *)
(* may be lost.  Game time is not modelled: scheduled events fire in any      *)
(* order.                                                                     *)
EXTENDS StrategyScript
LOCAL INSTANCE FiniteSetsExt

CONSTANTS Strategies,   \* the strategies proposed
          MaxShip,      \* max_attempts of a template ship attack
          MaxLaunch,    \* launch attempts
          MaxAttack,    \* attack attempts of an aircraft
          MaxRefusals,  \* calls CMO refuses while the script loads
          MaxLosses     \* units destroyed

ASSUME StrategiesAssumption == \A s \in Strategies : WellFormed(s)

ASSUME BoundsAssumption ==
    /\ MaxShip \in Nat \ {0} /\ MaxLaunch \in Nat \ {0} /\ MaxAttack \in Nat \ {0}
    /\ MaxRefusals \in Nat /\ MaxLosses \in Nat

VARIABLES strategy, executor,
          stage,     \* proposed, refused, loading, aborted or playing
          script,    \* the assembled script
          pc,        \* the next line to load
          refusals,  \* calls refused so far
          exists,    \* units in the scenario
          rules,     \* units whose loss scores
          events,    \* scheduled bodies [body, attack, attempt]
          orders,    \* attack -> the orders CMO accepted for it
          wanted,    \* aircraft asked to launch
          flying,    \* aircraft operating
          routed,    \* aircraft given their route
          recalled,  \* aircraft sent home
          losses

vars == <<strategy, executor, stage, script, pc, refusals, exists, rules, events,
          orders, wanted, flying, routed, recalled, losses>>
plan == <<strategy, executor>>
air == <<wanted, flying, routed, recalled>>

NoScript == [lines |-> <<>>, orders |-> <<>>]
Bodies == {"ship", "launch", "strike", "home"}
Attempts == 1..Max({MaxShip, MaxLaunch + 1, MaxAttack})

TypeOK ==
    /\ strategy \in Strategies
    /\ executor \in Executors
    /\ stage \in {"proposed", "refused", "loading", "aborted", "playing"}
    /\ pc \in 1..(Len(script.lines) + 1)
    /\ refusals \in 0..MaxRefusals
    /\ losses \in 0..MaxLosses
    /\ exists \subseteq Units
    /\ rules \subseteq Scored
    /\ events \subseteq [body : Bodies, attack : DOMAIN script.orders, attempt : Attempts]
    /\ DOMAIN orders = DOMAIN script.orders
    /\ flying \subseteq Aircraft \cap exists
    /\ wanted \cup routed \cup recalled \subseteq Aircraft

Init ==
    /\ strategy \in Strategies
    /\ executor \in Executors
    /\ stage = "proposed"
    /\ script = NoScript
    /\ pc = 1 /\ refusals = 0 /\ losses = 0
    /\ exists = {} /\ rules = {} /\ events = {}
    /\ orders = <<>>
    /\ wanted = {} /\ flying = {} /\ routed = {} /\ recalled = {}

-----------------------------------------------------------------------------
(* Assembly                                                                  *)

Refuse ==
    /\ stage = "proposed"
    /\ ~Accepted(executor, strategy)
    /\ stage' = "refused"
    /\ UNCHANGED <<plan, script, pc, refusals, exists, rules, events, orders, air, losses>>

Assemble ==
    /\ stage = "proposed"
    /\ Accepted(executor, strategy)
    /\ stage' = "loading"
    /\ script' = Script(executor, strategy)
    /\ orders' = [a \in DOMAIN script'.orders |-> <<>>]
    /\ UNCHANGED <<plan, pc, refusals, exists, rules, events, air, losses>>

-----------------------------------------------------------------------------
(* The script loads.                                                         *)

At(do) == stage = "loading" /\ pc <= Len(script.lines) /\ script.lines[pc].do = do
Name == script.lines[pc].name
NextLine == pc' = pc + 1 /\ stage' = stage
Abort == stage' = "aborted" /\ pc' = pc
Answer(ok) ==
    /\ ~ok => refusals < MaxRefusals
    /\ refusals' = IF ok THEN refusals ELSE refusals + 1

\* ScenEdit_AddUnit needs the base of an aircraft to be there.
HomeReady(u) == u \in Aircraft => Home[u] \in exists \cup {None}

\* The renderer goes on without the unit, the template asserts it.
CreateUnit ==
    /\ At("create")
    /\ \E ok \in BOOLEAN :
         /\ Answer(ok)
         /\ exists' = exists \cup IF ok /\ HomeReady(Name) THEN {Name} ELSE {}
         /\ IF executor = "template" /\ Name \notin exists' THEN Abort ELSE NextLine
    /\ UNCHANGED <<plan, script, rules, events, orders, air, losses>>

\* validate_strategy: a known blue target and a salvo the ship can hold.
ValidateRow ==
    /\ At("validate")
    /\ LET order == script.orders[Name]
       IN IF /\ order.target \in Units
             /\ Side[order.target] # Side[order.shooter]
             /\ order.weapon # Auto => order.quantity <= Stock[order.shooter][order.weapon]
          THEN NextLine ELSE Abort
    /\ UNCHANGED <<plan, script, refusals, exists, rules, events, orders, air, losses>>

ArmShip ==
    /\ At("arm")
    /\ \E ok \in BOOLEAN : Answer(ok) /\ IF ok /\ Name \in exists THEN NextLine ELSE Abort
    /\ UNCHANGED <<plan, script, exists, rules, events, orders, air, losses>>

\* install_score_rule: error() when the unit is missing or a call is refused.
InstallScoreRule ==
    /\ At("score")
    /\ \E ok \in BOOLEAN :
         /\ Answer(ok)
         /\ IF ok /\ Name \in exists
            THEN rules' = rules \cup {Name} /\ NextLine
            ELSE rules' = rules /\ Abort
    /\ UNCHANGED <<plan, script, exists, events, orders, air, losses>>

Event(body, a, n) == [body |-> body, attack |-> a, attempt |-> n]
FirstBody(a) == IF script.orders[a].shooter \in Ships THEN "ship" ELSE "launch"

\* A refused scheduling call is only logged.
Schedule ==
    /\ At("schedule")
    /\ \E ok \in BOOLEAN :
         /\ Answer(ok)
         /\ events' = events \cup IF ok THEN {Event(FirstBody(Name), Name, 1)} ELSE {}
    /\ NextLine
    /\ UNCHANGED <<plan, script, exists, rules, orders, air, losses>>

Play ==
    /\ stage = "loading" /\ pc > Len(script.lines)
    /\ stage' = "playing"
    /\ UNCHANGED <<plan, script, pc, refusals, exists, rules, events, orders, air, losses>>

-----------------------------------------------------------------------------
(* The scheduled bodies.  e leaves the calendar after its body has run, so a *)
(* body that schedules an event of the same name schedules nothing.          *)

Shooter(e) == script.orders[e.attack].shooter
Target(e) == script.orders[e.attack].target
Fired(e, new) == events' = (events \cup new) \ {e}
Again(e) == {[e EXCEPT !.attempt = @ + 1]}
OrderGiven(e) == orders' = [orders EXCEPT ![e.attack] = Append(@, script.orders[e.attack])]

\* fire_at / baseline_ship_attack_poll.  The renderer tries once.
ShipAttack(e) ==
    /\ e.body = "ship"
    /\ \E hit \in BOOLEAN :
         /\ hit => {Shooter(e), Target(e)} \subseteq exists
         /\ IF hit THEN OrderGiven(e) ELSE orders' = orders
         /\ Fired(e, IF /\ executor = "template" /\ ~hit
                        /\ {Shooter(e), Target(e)} \subseteq exists
                        /\ e.attempt < MaxShip
                     THEN Again(e) ELSE {})
    /\ UNCHANGED air

\* A defect: the launch is asked for without end.
LaunchNeverGivenUp(e) == Shooter(e) \notin exists

\* air_launch_poll / baseline_air_launch_poll
LaunchGivenUp(e) ==
    \/ Shooter(e) \notin exists
    \/ executor = "template" /\ Target(e) \notin exists
    \/ /\ Shooter(e) \notin flying
       /\ IF executor = "template" THEN e.attempt >= MaxLaunch ELSE e.attempt > MaxLaunch

LaunchPoll(e) ==
    /\ e.body = "launch"
    /\ LET a == Shooter(e)
           up == a \in flying /\ ~LaunchGivenUp(e)
           ask == a \notin flying /\ ~LaunchGivenUp(e)
       IN /\ routed' = routed \cup IF up THEN {a} ELSE {}
          /\ wanted' = wanted \cup IF ask THEN {a} ELSE {}
          /\ Fired(e, CASE up -> {Event("strike", e.attack, 1)}
                        [] ask -> Again(e)
                        [] OTHER -> {})
    /\ UNCHANGED <<orders, flying, recalled>>

\* air_attack_poll / baseline_air_attack_poll
NoStrikeLeft(e) == Target(e) \in exists => e.attempt >= MaxAttack

\* A defect: a strike whose target is gone just ends, as a launch does.
CalledBackOnTimeout(e, hit) ==
    IF /\ Shooter(e) \in flying /\ ~hit
       /\ Target(e) \in exists /\ e.attempt >= MaxAttack
    THEN {Shooter(e)} ELSE {}

CalledBack(e, hit) ==
    IF Shooter(e) \in flying /\ ~hit /\ NoStrikeLeft(e) THEN {Shooter(e)} ELSE {}

StrikePoll(e) ==
    /\ e.body = "strike"
    /\ \E hit \in BOOLEAN :
         /\ hit => Shooter(e) \in flying /\ Target(e) \in exists
         /\ IF hit THEN OrderGiven(e) ELSE orders' = orders
         /\ recalled' = recalled \cup CalledBack(e, hit)
         /\ Fired(e, CASE hit -> {Event("home", e.attack, 1)}
                       [] ~hit /\ Shooter(e) \in flying /\ ~NoStrikeLeft(e) -> Again(e)
                       [] OTHER -> {})
    /\ UNCHANGED <<wanted, flying, routed>>

\* The body scheduled after an accepted attack / baseline_air_rtb.  What CMO
\* answers is read by nothing but the landing trace.
ReturnHome(e) ==
    /\ e.body = "home"
    /\ recalled' = recalled \cup ({Shooter(e)} \cap exists)
    /\ Fired(e, {})
    /\ UNCHANGED <<orders, wanted, flying, routed>>

Fire ==
    /\ stage = "playing"
    /\ \E e \in events : ShipAttack(e) \/ LaunchPoll(e) \/ StrikePoll(e) \/ ReturnHome(e)
    /\ UNCHANGED <<plan, stage, script, pc, refusals, exists, rules, losses>>

-----------------------------------------------------------------------------
(* CMO                                                                       *)

TakeOff(a) ==
    /\ stage = "playing"
    /\ a \in wanted \cap exists /\ a \notin flying
    /\ flying' = flying \cup {a}
    /\ wanted' = wanted \ {a}
    /\ UNCHANGED <<plan, stage, script, pc, refusals, exists, rules, events, orders,
                   routed, recalled, losses>>

Land(a) ==
    /\ stage = "playing"
    /\ a \in flying
    /\ flying' = flying \ {a}
    /\ UNCHANGED <<plan, stage, script, pc, refusals, exists, rules, events, orders,
                   wanted, routed, recalled, losses>>

Lose(u) ==
    /\ stage = "playing"
    /\ u \in exists /\ losses < MaxLosses
    /\ exists' = exists \ {u}
    /\ flying' = flying \ {u}
    /\ losses' = losses + 1
    /\ UNCHANGED <<plan, stage, script, pc, refusals, rules, events, orders,
                   wanted, routed, recalled>>

Next ==
    \/ Refuse \/ Assemble
    \/ CreateUnit \/ ValidateRow \/ ArmShip \/ InstallScoreRule \/ Schedule \/ Play
    \/ Fire
    \/ \E a \in Aircraft : TakeOff(a) \/ Land(a)
    \/ \E u \in Units : Lose(u)

Spec == Init /\ [][Next]_vars

\* CMO runs every event it has scheduled; it owes no take-off and no landing.
FairSpec == Spec /\ WF_vars(Fire)

-----------------------------------------------------------------------------
(* Properties                                                                *)

Directive(id) == CHOOSE a \in {strategy.attacks[i] : i \in DOMAIN strategy.attacks} : a.id = id

\* What CMO was ordered to do is what the strategy says: at most one accepted
\* order per attack, from its shooter at its first target, with its weapon and
\* quantity where the script chooses weapons at all -- through compilation or
\* overlay, polling and retries.
OrdersAsPlanned ==
    \A id \in DOMAIN orders :
      /\ Len(orders[id]) <= 1
      /\ \A i \in DOMAIN orders[id] :
           LET given == orders[id][i]
           IN /\ given.shooter = Directive(id).shooter
              /\ given.target = Directive(id).targets[1]
              /\ given.weapon # Auto =>
                   /\ given.weapon = Directive(id).weapon
                   /\ given.quantity = Directive(id).fire

\* The chosen-weapon orders of one shooter together leave the largest reserve
\* its directives ask for, whatever was retried.
MagazinesKept ==
    \A i \in DOMAIN strategy.attacks :
      LET a == strategy.attacks[i]
          given == {j \in SameMagazine(strategy, i) :
                      /\ strategy.attacks[j].id \in DOMAIN orders
                      /\ \E o \in DOMAIN orders[strategy.attacks[j].id] :
                           orders[strategy.attacks[j].id][o].weapon # Auto}
      IN given # {} =>
           MapThenSumSet(LAMBDA j : Len(orders[strategy.attacks[j].id])
                                      * strategy.attacks[j].fire, given)
             + Max({strategy.attacks[j].reserve : j \in SameMagazine(strategy, i)})
             <= Stock[a.shooter][a.weapon]

\* A script that was accepted loads unless CMO refuses a call, and nothing is
\* scheduled or ordered before every score rule is installed: no strike goes
\* unscored.
ScriptsLoad ==
    /\ stage = "aborted" => refusals > 0
    /\ events # {} => rules = Scored

\* An aircraft sent on its route is called back, or is no longer in the air:
\* no chain of polls ends with a strike aircraft out there and no order.
AircraftComeHome ==
    \A a \in Aircraft : (a \in routed /\ a \in flying) ~> (a \in recalled \/ a \notin flying)

\* A strike is flown as the strategy has it: the orders are those of the plan, together
\* within the magazines, and only after the script has loaded whole.
StrikesAsPlanned == OrdersAsPlanned /\ MagazinesKept /\ ScriptsLoad

=============================================================================
