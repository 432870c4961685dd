--------------------------- MODULE ScenarioWorkflow ---------------------------
(***************************************************************************)
(* One JSON-to-Lua run: the generate_cmo_lua tool                          *)
(* (tools/generate_cmo_lua_tool.py), ScenarioWorkflow.run                  *)
(* (orchestration/scenario_workflow.py), its context and state machine     *)
(* (workflow_context.py, workflow_state.py) and the run directory          *)
(* (artifacts/run_artifact_store.py), for several calls at once.           *)
(*                                                                         *)
(* A call keeps its workflow state in memory and writes it to              *)
(* result/workflow_result.json after every change: any of those writes,    *)
(* of the writes of an artifact and of the calls to the database and the   *)
(* generator may fail, and the process may die between and during writes.  *)
(***************************************************************************)
EXTENDS LuaGeneration

CONSTANTS
    Callers,   \* concurrent calls of the tool
    Runs,      \* run ids
    Plans      \* what may be asked and go wrong: records [requests, budget]

Automatic == "automatic run id"
NoRun     == "no run"
NoAnswer  == "no answer"
NoLua     == [orders |-> <<>>]
NoRequest == [run |-> NoRun]

\* The steps of ScenarioWorkflow.run, in the order of the code.
Pipeline == <<
    "make run", "make folders", "persist created",
    "advance input", "load source",
    "advance schema", "check schema",
    "advance semantic", "check semantic",
    "advance ir", "save ir", "check ir",
    "advance database", "check database",
    "save definition", "save hint", "check strategy", "baseline", "save difference",
    "advance manifest", "check manifest", "save contract", "save manifest",
    "advance generation", "check preflight", "save original",
    "complete", "save result", "answer" >>

Place(step)  == CHOOSE i \in DOMAIN Pipeline : Pipeline[i] = step
After(step)  == Pipeline[Place(step) + 1]

Stages == <<"created", "input", "schema", "semantic", "ir", "database", "manifest",
            "generation", "completed">>

Advances ==
    [step \in {"advance input", "advance schema", "advance semantic", "advance ir",
               "advance database", "advance manifest", "advance generation"} |->
        CASE step = "advance input" -> "input"
          [] step = "advance schema" -> "schema"
          [] step = "advance semantic" -> "semantic"
          [] step = "advance ir" -> "ir"
          [] step = "advance database" -> "database"
          [] step = "advance manifest" -> "manifest"
          [] step = "advance generation" -> "generation"]

\* The artifacts that only record what a stage made.
Saves ==
    [step \in {"save ir", "save definition", "save hint", "save difference",
               "save contract", "save manifest"} |->
        CASE step = "save ir" -> "scenario_ir"
          [] step = "save definition" -> "scenario_definition"
          [] step = "save hint" -> "initial_strategy_hint"
          [] step = "save difference" -> "initial_hint_vs_baseline"
          [] step = "save contract" -> "scenario_contract"
          [] step = "save manifest" -> "resolved_manifest"]

Check ==
    [step \in {"check schema", "check semantic", "check ir", "check database",
               "check strategy", "check manifest", "check preflight"} |->
        CASE step = "check schema" -> "schema"
          [] step = "check semantic" -> "semantic"
          [] step = "check ir" -> "ir"
          [] step = "check database" -> "database"
          [] step = "check strategy" -> "strategy"
          [] step = "check manifest" -> "manifest"
          [] step = "check preflight" -> "preflight"]

Verdict(issues) == IF issues = {} THEN "valid" ELSE "invalid"

Reports == {"schema", "semantic", "ir", "database", "strategy", "manifest", "preflight"}
Files   == {Saves[step] : step \in DOMAIN Saves} \cup Reports
           \cup {"source", "baseline_strategy", "original", "rejected"}

State(status, stage, code) == [status |-> status, stage |-> stage, code |-> code]
NoState == State("none", "created", "none")
Terminal == {"completed", "failed", "needs_user_input"}

EmptyRun == [exists |-> FALSE, folders |-> FALSE,
             files |-> [f \in Files |-> "absent"],
             result |-> NoState, final |-> FALSE, lua |-> NoLua]

VARIABLES
    request, \* request[c]: the scenario, resolutions, run id and baseline asked with
    call,    \* call[c]: pc, run and workflow state in memory, how it stopped
    disk,    \* disk[r]: the run directory
    faults   \* what may still go wrong, and what did

vars == <<request, call, disk, faults>>

Init ==
    \E plan \in Plans :
        /\ request = plan.requests
        /\ faults = [left |-> plan.budget, met |-> {}]
        /\ call = [c \in Callers |->
              [pc |-> IF plan.requests[c] = NoRequest THEN "idle" ELSE "make run",
               run |-> NoRun, state |-> NoState, code |-> "none", error |-> "none",
               answer |-> NoAnswer]]
        /\ disk = [r \in Runs |-> EmptyRun]

-----------------------------------------------------------------------------
(* What the stages of c compute *)

Scenario(c)   == request[c].scenario
IR(c)         == BuiltIR(Normalized(Scenario(c)))
ResolvedIR(c) == Resolved(IR(c), request[c].resolutions)
Manifest(c)   == BuiltManifest(ResolvedIR(c))
Lua(c)        == Generated(Manifest(c))

Found(c, report) ==
    CASE report = "schema"    -> SchemaIssues(Scenario(c))
      [] report = "semantic"  -> SemanticIssues(Normalized(Scenario(c)))
      [] report = "ir"        -> IRIssues(IR(c))
      [] report = "database"  -> DatabaseIssues(IR(c), request[c].resolutions)
      [] report = "strategy"  -> StrategyIssues(ResolvedIR(c))
      [] report = "manifest"  -> ManifestIssues(ResolvedIR(c))
      [] report = "preflight" -> PreflightIssues(Lua(c), Manifest(c),
                                     disk[call[c].run].files["original"] # "absent")

-----------------------------------------------------------------------------
(* Writes *)

Spend(kind) ==
    /\ faults.left[kind] > 0
    /\ faults' = [left |-> [faults.left EXCEPT ![kind] = @ - 1], met |-> faults.met \cup {kind}]

Moved(c, pc)     == [call EXCEPT ![c].pc = pc]
Failing(c, code) == [call EXCEPT ![c].pc = "fail", ![c].code = code]

\* An exception: run() records it in the state and raises it to the tool.
Raise(c, code, error) ==
    call' = [call EXCEPT ![c].pc = "record", ![c].code = code, ![c].error = error]

\* The tool's answer to an exception it catches.
Refuse(c, error) ==
    call' = [call EXCEPT ![c].pc = "answered", ![c].error = error, ![c].answer = "error"]

Saved(c, state) == [disk EXCEPT ![call[c].run].result = state, ![call[c].run].final = FALSE]

\* The artifact a step of c writes, if it gets as far as writing.
Writing(c) ==
    CASE call[c].pc = "load source" -> IF request[c].readable THEN {"source"} ELSE {}
      [] call[c].pc = "save definition" ->
            IF DefinitionBuilds(ResolvedIR(c)) THEN {"scenario_definition"} ELSE {}
      [] call[c].pc \in DOMAIN Saves \ {"save definition"} -> {Saves[call[c].pc]}
      [] call[c].pc = "check database" ->
            IF ResolutionsAccepted(IR(c), request[c].resolutions) THEN {"database"} ELSE {}
      [] call[c].pc \in DOMAIN Check \ {"check database"} -> {Check[call[c].pc]}
      [] call[c].pc = "baseline" ->
            IF request[c].baseline = "match" THEN {"baseline_strategy"} ELSE {}
      [] call[c].pc = "save original" -> {"original"}
      [] call[c].pc = "save rejected" -> {"rejected"}
      [] OTHER -> {}

\* An artifact is created exclusively: one that exists is an error.  A write
\* that fails removes what it began.
Write(c, content, next) ==
    \E file \in Writing(c) :
        IF disk[call[c].run].files[file] = "absent"
        THEN /\ disk' = [disk EXCEPT ![call[c].run].files[file] = content,
                             ![call[c].run].lua = IF file = "original" THEN Lua(c) ELSE @]
             /\ call' = next
        ELSE /\ Raise(c, "artifact_persistence_failed", "other")
             /\ UNCHANGED disk

FailWrite(c) ==
    /\ Writing(c) # {}
    /\ Spend("file")
    /\ Raise(c, "artifact_persistence_failed", "other")
    /\ UNCHANGED <<request, disk>>

-----------------------------------------------------------------------------
(* The run directory *)

\* Mutant: A run directory that exists is used again.
MakeRunAgain(c) ==
    /\ call[c].pc = "make run"
    /\ \E r \in Runs :
          /\ request[c].run \in {r, Automatic}
          /\ request[c].run = Automatic => ~disk[r].exists
          /\ disk' = [disk EXCEPT ![r].exists = TRUE]
          /\ call' = [call EXCEPT ![c].pc = After(@), ![c].run = r]
    /\ UNCHANGED <<request, faults>>

MakeRun(c) ==
    /\ call[c].pc = "make run"
    /\ \E r \in Runs :
          /\ request[c].run \in {r, Automatic}
          /\ request[c].run = Automatic => ~disk[r].exists
          /\ IF disk[r].exists
             THEN Refuse(c, "other") /\ UNCHANGED disk
             ELSE /\ disk' = [disk EXCEPT ![r].exists = TRUE]
                  /\ call' = [call EXCEPT ![c].pc = After(@), ![c].run = r]
    /\ UNCHANGED <<request, faults>>

MakeFolders(c) ==
    /\ call[c].pc = "make folders"
    /\ disk' = [disk EXCEPT ![call[c].run].folders = TRUE]
    /\ call' = Moved(c, After(call[c].pc))
    /\ UNCHANGED <<request, faults>>

\* A folder that cannot be made takes the run directory with it; what rmtree
\* cannot remove stays.
FailFolders(c) ==
    /\ call[c].pc = "make folders"
    /\ Spend("file")
    /\ \E left \in BOOLEAN : disk' = [disk EXCEPT ![call[c].run].exists = left]
    /\ call' = [call EXCEPT ![c].pc = "answered", ![c].error = "other",
                            ![c].answer = "error", ![c].run = NoRun]
    /\ UNCHANGED request

\* The first state is written before run() catches anything.
PersistCreated(c) ==
    /\ call[c].pc = "persist created"
    /\ disk' = Saved(c, State("created", "created", "none"))
    /\ call' = [call EXCEPT ![c].pc = After(@), ![c].state = State("created", "created", "none")]
    /\ UNCHANGED <<request, faults>>

FailPersistCreated(c) ==
    /\ call[c].pc = "persist created"
    /\ Spend("state")
    /\ Refuse(c, "other")
    /\ UNCHANGED <<request, disk>>

-----------------------------------------------------------------------------
(* The stages *)

\* A run that renders a candidate begins with a manifest.
AllowedTransitions ==
    {<<Stages[i], Stages[i + 1]>> : i \in 1..(Len(Stages) - 2)} \cup {<<"created", "manifest">>}

CanAdvance(state, stage) ==
    state.status \notin Terminal /\ <<state.stage, stage>> \in AllowedTransitions

Advanced(c) == State("running", Advances[call[c].pc], "none")

Advance(c) ==
    /\ call[c].pc \in DOMAIN Advances
    /\ CanAdvance(call[c].state, Advances[call[c].pc])
    /\ disk' = Saved(c, Advanced(c))
    /\ call' = [call EXCEPT ![c].pc = After(@), ![c].state = Advanced(c)]
    /\ UNCHANGED <<request, faults>>

FailAdvance(c) ==
    /\ call[c].pc \in DOMAIN Advances
    /\ CanAdvance(call[c].state, Advances[call[c].pc])
    /\ Spend("state")
    /\ call' = [call EXCEPT ![c].pc = "record", ![c].state = Advanced(c),
                            ![c].code = "artifact_persistence_failed", ![c].error = "other"]
    /\ UNCHANGED <<request, disk>>

LoadSource(c) ==
    /\ call[c].pc = "load source"
    /\ request[c].readable
    /\ Write(c, "saved", Moved(c, After(call[c].pc)))
    /\ UNCHANGED <<request, faults>>

Save(c) ==
    /\ call[c].pc \in DOMAIN Saves
    /\ Write(c, "saved", Moved(c, After(call[c].pc)))
    /\ UNCHANGED <<request, faults>>

\* Values the code finds unusable where no report has refused them.
ValueRefused(c) ==
    /\ \/ call[c].pc = "load source" /\ ~request[c].readable
       \/ call[c].pc = "check database"
          /\ ~ResolutionsAccepted(IR(c), request[c].resolutions)
       \/ call[c].pc = "save definition" /\ ~DefinitionBuilds(ResolvedIR(c))
       \/ call[c].pc = "baseline" /\ request[c].baseline = "refused"
    /\ Raise(c, "workflow_exception",
             IF call[c].pc = "save definition" /\ Scenario(c).sorties = "partial"
             THEN "other" ELSE "value")
    /\ UNCHANGED <<request, disk, faults>>

\* Mutant: The verdict is acted on without keeping the report.
ValidateUnreported(c) ==
    /\ call[c].pc \in DOMAIN Check \ {"check strategy", "check preflight"}
    /\ LET report == Check[call[c].pc]
           issues == Found(c, report)
       IN  IF issues = {} THEN Write(c, Verdict(issues), Moved(c, After(call[c].pc)))
           ELSE /\ UNCHANGED disk
                /\ call' = IF "platform_resolution_required" \in issues
                           THEN Moved(c, "needs input") ELSE Failing(c, report)
    /\ UNCHANGED <<request, faults>>

\* The report of a stage is written before its verdict is acted on.  A platform
\* the user must choose takes precedence over every other database error.
Validate(c) ==
    /\ call[c].pc \in DOMAIN Check \ {"check strategy", "check preflight"}
    /\ LET report == Check[call[c].pc]
           issues == Found(c, report)
       IN  Write(c, Verdict(issues),
               IF issues = {} THEN Moved(c, After(call[c].pc))
               ELSE IF "platform_resolution_required" \in issues THEN Moved(c, "needs input")
               ELSE Failing(c, report))
    /\ UNCHANGED <<request, faults>>

\* What the strategy validator finds is recorded and nothing else.
CheckStrategy(c) ==
    /\ call[c].pc = "check strategy"
    /\ Write(c, Verdict(Found(c, "strategy")), Moved(c, After(call[c].pc)))
    /\ UNCHANGED <<request, faults>>

\* The configured baseline, if any, must be of this scenario and valid in it.
Baseline(c) ==
    /\ call[c].pc = "baseline"
    /\ IF request[c].baseline = "none"
       THEN call' = Moved(c, "advance manifest") /\ UNCHANGED disk
       ELSE Write(c, "saved", Moved(c, After(call[c].pc)))
    /\ UNCHANGED <<request, faults>>

\* The generator reads the manifest from the run directory.
Generate(c) ==
    /\ call[c].pc = "check preflight"
    /\ disk[call[c].run].files["resolved_manifest"] = "saved"
    /\ LET issues == Found(c, "preflight")
       IN  Write(c, Verdict(issues),
                 Moved(c, IF issues = {} THEN After(call[c].pc) ELSE "save rejected"))
    /\ UNCHANGED <<request, faults>>

\* Its text is kept as original or rejected by what the preflight said.
SaveLua(c) ==
    /\ call[c].pc \in {"save original", "save rejected"}
    /\ Write(c, "saved", IF call[c].pc = "save original" THEN Moved(c, After(call[c].pc))
                         ELSE Failing(c, "preflight"))
    /\ UNCHANGED <<request, faults>>

\* The database file or the external generator fails.
OutsideFails(c) ==
    /\ call[c].pc \in {"check database", "check preflight"}
    /\ Spend("outside")
    /\ Raise(c, IF call[c].pc = "check database" THEN "database_infrastructure_failed"
                ELSE "generation_failed", "other")
    /\ UNCHANGED <<request, disk>>

-----------------------------------------------------------------------------
(* The end of a run *)

Ending == {"complete", "fail", "needs input"}

\* Mutant: A stopped run has a stage of its own.
EndStateStageLost(c) ==
    CASE call[c].pc = "complete"    -> State("completed", "completed", "none")
      [] call[c].pc = "fail"        -> State("failed", "failed", call[c].code)
      [] call[c].pc = "needs input" -> State("needs_user_input", call[c].state.stage,
                                             "platform_resolution_required")

EndState(c) ==
    CASE call[c].pc = "complete"    -> State("completed", "completed", "none")
      [] call[c].pc = "fail"        -> State("failed", call[c].state.stage, call[c].code)
      [] call[c].pc = "needs input" -> State("needs_user_input", call[c].state.stage,
                                             "platform_resolution_required")

CanEnd(c) ==
    /\ call[c].pc \in Ending
    /\ call[c].state.status \notin Terminal
    /\ call[c].pc = "complete" =>
          /\ call[c].state.stage = "generation"
          /\ disk[call[c].run].files["original"] = "saved"
          /\ disk[call[c].run].files["rejected"] = "absent"

EndRun(c) ==
    /\ CanEnd(c)
    /\ disk' = Saved(c, EndState(c))
    /\ call' = [call EXCEPT ![c].pc = "save result", ![c].state = EndState(c)]
    /\ UNCHANGED <<request, faults>>

\* The state in memory is final whether or not it reaches the disk.
FailEndRun(c) ==
    /\ CanEnd(c)
    /\ Spend("state")
    /\ call' = [call EXCEPT ![c].pc = "record", ![c].state = EndState(c),
                            ![c].code = "artifact_persistence_failed", ![c].error = "other"]
    /\ UNCHANGED <<request, disk>>

\* The result replaces the state in the same file.
SaveResult(c) ==
    /\ call[c].pc = "save result"
    /\ disk' = [disk EXCEPT ![call[c].run].result = call[c].state, ![call[c].run].final = TRUE]
    /\ call' = [call EXCEPT ![c].pc = "answered", ![c].answer = call[c].state.status]
    /\ UNCHANGED <<request, faults>>

FailSaveResult(c) ==
    /\ call[c].pc = "save result"
    /\ Spend("state")
    /\ Raise(c, "artifact_persistence_failed", "other")
    /\ UNCHANGED <<request, disk>>

\* Mutant: An exception reaches the tool without being recorded.
RecordNothing(c) ==
    /\ call[c].pc = "record"
    /\ call' = [call EXCEPT ![c].pc = "answered", ![c].answer = "error"]
    /\ UNCHANGED <<request, disk, faults>>

\* An exception is recorded unless the state in memory has ended already, and
\* a record that cannot be written is given up silently.
Record(c) ==
    /\ call[c].pc = "record"
    /\ LET failed == State("failed", call[c].state.stage, call[c].code)
       IN  /\ disk' = IF call[c].state.status \in Terminal THEN disk ELSE Saved(c, failed)
           /\ call' = [call EXCEPT ![c].pc = "answered", ![c].answer = "error",
                           ![c].state = IF call[c].state.status \in Terminal THEN @ ELSE failed]
    /\ UNCHANGED <<request, faults>>

FailRecord(c) ==
    /\ call[c].pc = "record"
    /\ call[c].state.status \notin Terminal
    /\ Spend("state")
    /\ call' = [call EXCEPT ![c].pc = "answered", ![c].answer = "error",
                    ![c].state = State("failed", @.stage, call[c].code)]
    /\ UNCHANGED <<request, disk>>

\* The process dies, or is interrupted (run() catches Exception only); an
\* artifact it was writing may stay torn.  The state file is replaced whole.
Crash(c) ==
    /\ call[c].pc \notin {"idle", "make run", "answered", "dead"}
    /\ Spend("crash")
    /\ \/ UNCHANGED disk
       \/ \E file \in Writing(c) :
             /\ disk[call[c].run].files[file] = "absent"
             /\ disk' = [disk EXCEPT ![call[c].run].files[file] = "torn"]
    /\ call' = Moved(c, "dead")
    /\ UNCHANGED request

Step(c) ==
    \/ MakeRun(c) \/ MakeFolders(c) \/ FailFolders(c)
    \/ PersistCreated(c) \/ FailPersistCreated(c)
    \/ Advance(c) \/ FailAdvance(c)
    \/ LoadSource(c) \/ Save(c) \/ ValueRefused(c) \/ FailWrite(c)
    \/ Validate(c) \/ CheckStrategy(c) \/ Baseline(c)
    \/ Generate(c) \/ SaveLua(c) \/ OutsideFails(c)
    \/ EndRun(c) \/ FailEndRun(c) \/ SaveResult(c) \/ FailSaveResult(c)
    \/ Record(c) \/ FailRecord(c)

\* Every call has been answered or its process is gone.
Ended ==
    /\ \A c \in Callers : call[c].pc \in {"idle", "answered", "dead"}
    /\ UNCHANGED vars

Next == (\E c \in Callers : Step(c) \/ Crash(c)) \/ Ended

Spec == Init /\ [][Next]_vars

-----------------------------------------------------------------------------
(* Properties *)

TypeOK ==
    /\ \A c \in Callers :
          /\ call[c].pc \in Range(Pipeline) \cup {"idle", "fail", "needs input", "record",
                                "save rejected", "answered", "dead"}
          /\ call[c].run \in Runs \cup {NoRun}
          /\ call[c].answer \in {NoAnswer, "completed", "failed", "needs_user_input", "error"}
          /\ call[c].state.stage \in Range(Stages)
    /\ \A r \in Runs :
          /\ disk[r].files \in [Files -> {"absent", "torn", "saved", "valid", "invalid"}]
          /\ disk[r].result.stage \in Range(Stages)
    /\ \A kind \in DOMAIN faults.left : faults.left[kind] \in Nat

\* The run of an answered call, by what it was answered.
Answered(c, kind) == call[c].pc = "answered" /\ call[c].answer = kind

PlatformOf(u, res) == IF u.id \in DOMAIN res THEN res[u.id] ELSE [category |-> u.category,
                                                                  dbid |-> u.dbid]

\* A call answered with success has a directory that proves it: its result and
\* state say completed, every stage that can refuse the scenario left a whole
\* and valid report, the script is there and no rejected one, and the script
\* creates every unit of the caller's own scenario, and nothing else, as the
\* one platform its DBID stands for or the user confirmed
\* (scenario_workflow.py:289, workflow_context.py:265).
SuccessSound ==
    \A c \in Callers : Answered(c, "completed") =>
        LET run == disk[call[c].run]
            s   == Scenario(c)
            res == request[c].resolutions
        IN  /\ run.final /\ run.result.status = "completed"
            /\ \A report \in Reports \ {"strategy"} : run.files[report] = "valid"
            /\ run.files["original"] = "saved" /\ run.files["rejected"] = "absent"
            /\ run.files["resolved_manifest"] = "saved"
            /\ \A i \in DOMAIN s.units :
                  LET asked == PlatformOf(s.units[i], res) IN
                  /\ [name |-> s.units[i].id, dbid |-> asked.dbid]
                        \in {[name |-> e.name, dbid |-> e.dbid] : e \in Created(run.lua)}
                  /\ Cardinality({p \in Platforms : /\ p.dbid = asked.dbid
                                        /\ asked.category \in {NoCategory, p.category}}) = 1
            /\ Len(run.lua.red) + Len(run.lua.blue) = Len(s.units)

\* The script of a successful run carries out the plan it was given: of every
\* strike each missile is ordered exactly once, from one of its shooters at one
\* of its targets, by units the script creates
\* (json_to_lua.py:547, and the stages that vouch for the references).
PlanCarriedOut ==
    \A c \in Callers : Answered(c, "completed") =>
        LET lua   == disk[call[c].run].lua
            names == {e.name : e \in Created(lua)}
        IN  \A k \in DOMAIN Scenario(c).strikes :
                LET strike   == Scenario(c).strikes[k]
                    shooters == Range(strike.shooters)
                IN  /\ Total(lua.orders[k], LAMBDA o : o.quantity) = strike.fired
                    /\ \A o \in Range(lua.orders[k]) :
                          /\ o.attacker \in shooters \cap names
                          /\ o.target \in Range(strike.targets) \cap names
                          /\ SideOf(Scenario(c), o.attacker) # SideOf(Scenario(c), o.target)

StageFiles == <<"source", "schema", "semantic", "scenario_ir", "ir", "database",
                "scenario_definition", "initial_strategy_hint", "strategy",
                "baseline_strategy", "initial_hint_vs_baseline", "manifest",
                "scenario_contract", "resolved_manifest", "preflight", "original">>

\* A call told that a stage refused its scenario, or that the user must choose a
\* platform, finds that stage's report invalid, all before it valid, nothing of
\* a later stage in the directory, and a result that names that stage
\* (scenario_workflow.py:303, 324).
FailureExplained ==
    \A c \in Callers : Answered(c, "failed") \/ Answered(c, "needs_user_input") =>
        LET run    == disk[call[c].run]
            report == IF Answered(c, "failed") THEN run.result.code ELSE "database"
            place  == CHOOSE i \in DOMAIN StageFiles : StageFiles[i] = report
        IN  /\ run.final /\ run.result.status = call[c].answer
            /\ run.result.stage = IF report = "preflight" THEN "generation" ELSE report
            /\ run.files[report] = "invalid"
            /\ \A i \in DOMAIN StageFiles :
                  /\ i < place => run.files[StageFiles[i]] # "invalid" \/ StageFiles[i] = "strategy"
                  /\ i > place => run.files[StageFiles[i]] = "absent"

\* A run that stopped says so on disk: whatever failed, unless the state file
\* itself could not be written or the process died, the result of the run is an
\* ended one ("a failure must save workflow_result.json too",
\* docs/plans/json-to-lua-mvp-plan.md:1028).
StoppedRunsSaySo ==
    \A c \in Callers :
        call[c].pc = "answered" /\ call[c].run # NoRun /\ "state" \notin faults.met
        => disk[call[c].run].result.status \in Terminal

\* What an ended run left behind is never changed: its verdict, its script and
\* its artifacts stay, whoever asks for the same run id later
\* (run_artifact_store.py:268, 502).
VerdictStable ==
    [][\A r \in Runs : disk[r].result.status \in Terminal =>
          /\ disk'[r].result = disk[r].result
          /\ disk'[r].files = disk[r].files
          /\ disk'[r].lua = disk[r].lua]_vars

\* No stage finds what an earlier one vouched for: a scenario with a meaning has
\* a sound IR unless it says itself that a position was inherited; what the
\* database resolved makes a complete manifest unless a field of the running
\* system came along; and the preflight accepts the generator's script unless a
\* unit has a loadout the script cannot give it
\* (ir_validator.py:39, manifest_builder.py:72, lua_preflight_validator.py:83).
StagesAgree ==
    \A c \in Callers : call[c].pc = "make folders" =>
        LET s == Scenario(c) IN
        /\ SchemaIssues(s) = {} /\ SemanticIssues(Normalized(s)) = {} =>
              /\ IRIssues(IR(c)) \subseteq {"position"}
              /\ IRIssues(IR(c)) # {} => \E i \in DOMAIN s.units : s.units[i].position = "claimed"
              /\ ResolutionsAccepted(IR(c), request[c].resolutions)
                 /\ DatabaseIssues(IR(c), request[c].resolutions) = {} =>
                    /\ ManifestIssues(ResolvedIR(c)) \subseteq {"runtime_field_forbidden"}
                    /\ PreflightIssues(Lua(c), Manifest(c), FALSE) \subseteq {"loadout_missing"}

\* Every answer a caller gets is true of the directory it names: a success of a whole,
\* valid run whose script carries out the caller's own plan, a refusal of the stage that
\* refused although none before it did, and a run that stopped of an ended result.
AnswersSound ==
    SuccessSound /\ PlanCarriedOut /\ FailureExplained /\ StoppedRunsSaySo /\ StagesAgree

=============================================================================
