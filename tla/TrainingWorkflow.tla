--------------------------- MODULE TrainingWorkflow --------------------------
(***************************************************************************)
(* The durable training scheduler: state.json and its unlocked              *)
(* read-modify-write `transition`, the runner.lock file, the background     *)
(* Runtime processes (training.runtime.run_workflow around                  *)
(* TrainingRunner.run), the pid metadata, and the clients that call         *)
(* TrainingService.inspect and control while a Runtime works.  The Campaign *)
(* calls are those of CampaignWorkers.                                      *)
(*                                                                          *)
(* A Runtime step is one piece of TrainingRunner between two points where   *)
(* another process can read or write the same files: the dispatch of        *)
(* _run_once on the state it loaded, a call of the driver (with the load of *)
(* the transition that follows, which commutes with it), and the write of   *)
(* that transition.                                                         *)
(* The Runtime has no repair coordinator here: a CODE_REPAIR decision stops *)
(* the Workflow.  The coordinator is the subject of CodeRepair.             *)
(***************************************************************************)
EXTENDS CampaignWorkers

CONSTANTS
    Clients,             \* callers of TrainingService (Chat, CLI)
    UnfinishedOutcomes,  \* ways a Worker may end without a result
    OperatorUnlocks,     \* may a person delete the lock files of dead processes?
    MaxFaults,           \* bound: exceptions of driver calls and unfinished Workers
    MaxCrashes,          \* bound: processes killed
    MaxCommands,         \* bound: pause, resume and stop commands
    MaxEpochs            \* bound: Workers started for one generation

ASSUME TrainingAssumption ==
    /\ UnfinishedOutcomes \subseteq {"failed", "paused", "cancelled_incomplete"}
    /\ OperatorUnlocks \in BOOLEAN
    /\ {MaxFaults, MaxCrashes, MaxCommands, MaxEpochs} \subseteq Nat
    /\ Clients \cap Processes = {}

VARIABLES
    st,          \* state.json
    lock,        \* process named in runner.lock, or Free
    pid,         \* process named in runner-process.json, or Free
    pc,          \* where each Runtime is
    snap,        \* the state a Runtime's current action was chosen from
    found,       \* what the reconciliation of a Runtime has read
    ctl,         \* where each client call is
    draft,       \* the state a transition has computed and not yet written
    phase8Runs,  \* calls of run_training_phase8 that aggregated (observation)
    spent        \* faults, crashes and commands so far

trainingVars == <<st, lock, pid, pc, snap, found, ctl, draft, phase8Runs, spent>>
vars == <<trainingVars, campaignVars>>

-----------------------------------------------------------------------------
(* state.json *)

Status == {"CREATED", "RUNNING", "PAUSED", "COMPLETED", "FAILED", "STOPPED"}
Stage == {"PREPARE", "EVOLUTION", "PHASE8", "REPORT"}
TrainingAction ==
    {"VALIDATE_INPUT", "PREVIEW", "EXECUTE", "WAIT_WORKER", "SUMMARIZE", "IDLE"}
Phase8Status == {"NOT_STARTED", "COMPLETED", "FAILED"}

\* state.runner["recovery"]; status "none" when the key is absent.
Recovery == [status: {"none", "IDLE", "FAILED"}, attempts: Nat,
             stage: Stage, task: TrainingAction, gen: 0 .. GenerationCount]

NoRecovery == [status |-> "none", attempts |-> 0,
               stage |-> "PREPARE", task |-> "IDLE", gen |-> 0]
IdleRecovery == [NoRecovery EXCEPT !.status = "IDLE"]

\* `retry` says whether state.runner has a "retry" entry.
TrainingState ==
    [status: Status, stage: Stage, action: TrainingAction,
     gen: 0 .. GenerationCount, completed: SUBSET Generations,
     campaign: BOOLEAN, phase8: Phase8Status, retry: BOOLEAN,
     recovery: Recovery]

InitialState ==
    [status |-> "CREATED", stage |-> "PREPARE", action |-> "VALIDATE_INPUT",
     gen |-> 0, completed |-> {}, campaign |-> FALSE,
     phase8 |-> "NOT_STARTED", retry |-> FALSE, recovery |-> NoRecovery]

\* The state `transition` computes from the file when no runner is given: the
\* back-off entry is dropped, everything that is not a change is inherited.
Loaded == [st EXCEPT !.retry = FALSE]

-----------------------------------------------------------------------------
(* Processes *)

CallPc == {"prepare", "preview", "build", "execute", "launch", "inspect",
           "phase8", "finish"}
LockedPc == CallPc \cup {"round", "write", "settle", "writeSettled",
                         "failed", "writeFailure", "release"}
ReconcilePc == {"reconcileWorker", "reconcileState"}
RuntimePc ==
    LockedPc \cup ReconcilePc \cup {"off", "reconcile", "acquire", "sleep", "exiting"}

ClientPc == {"idle", "write", "resumeLoad", "resumeWrite", "check", "start"}

Alive(p) == p # Free /\ pc[p] # "off"

TrainingTypeOK ==
    /\ st \in TrainingState
    /\ lock \in Processes \cup {Free}
    /\ pid \in Processes \cup {Free}
    /\ pc \in [Processes -> RuntimePc]
    /\ snap \in [Processes -> TrainingState]
    /\ found \in [Processes -> Finding]
    /\ ctl \in [Clients -> ClientPc]
    /\ draft \in [Processes \cup Clients -> TrainingState]
    /\ phase8Runs \in Nat
    /\ spent \in [faults: Nat, crashes: Nat, commands: Nat]

NothingFound == [gen |-> 0, epoch |-> 1, done |-> FALSE]

\* TrainingService.start has written the store and is about to start a process.
Init ==
    /\ CampaignInit
    /\ st = InitialState
    /\ lock = Free
    /\ pid = Free
    /\ pc = [r \in Processes |-> "off"]
    /\ snap = [r \in Processes |-> InitialState]
    /\ found = [r \in Processes |-> NothingFound]
    /\ \E c \in Clients : ctl = [d \in Clients |-> IF d = c THEN "start" ELSE "idle"]
    /\ draft = [a \in Processes \cup Clients |-> InitialState]
    /\ phase8Runs = 0
    /\ spent = [faults |-> 0, crashes |-> 0, commands |-> 0]

Goto(r, label) == pc' = [pc EXCEPT ![r] = label]

\* A process ends: its memory and its daemon threads go, the files stay.
Exit(r) ==
    /\ Goto(r, "off")
    /\ snap' = [snap EXCEPT ![r] = InitialState]
    /\ found' = [found EXCEPT ![r] = NothingFound]
    /\ draft' = [draft EXCEPT ![r] = InitialState]
    /\ KillThreads(r)
    /\ UNCHANGED <<prepared, previews, orphan, workers, results, current, cmoLock>>

-----------------------------------------------------------------------------
(* run_workflow: reconcile, then run until the status is not RUNNING *)

\* Outside the lock; three steps that other processes see one by one.
Reconcile(r) ==
    /\ pc[r] = "reconcile"
    /\ IF st.campaign /\ Reconcilable
       THEN found' = [found EXCEPT ![r] = CurrentFinding] /\ Goto(r, "reconcileWorker")
       ELSE UNCHANGED found /\ Goto(r, "acquire")
    /\ UNCHANGED <<st, lock, pid, snap, ctl, draft, phase8Runs, spent, campaignVars>>

WorkerReconciled(r) ==
    /\ pc[r] = "reconcileWorker"
    /\ ReconcileWorker(found[r])
    /\ Goto(r, "reconcileState")
    /\ UNCHANGED <<st, lock, pid, snap, found, ctl, draft, phase8Runs, spent>>

StateReconciled(r) ==
    /\ pc[r] = "reconcileState"
    /\ ReconcileState(found[r])
    /\ found' = [found EXCEPT ![r] = NothingFound]
    /\ Goto(r, "acquire")
    /\ UNCHANGED <<st, lock, pid, snap, ctl, draft, phase8Runs, spent>>

\* Mutation of Acquire: the lock file is created even when it exists.
AcquireUnchecked(r) ==
    /\ pc[r] = "acquire"
    /\ lock' = r
    /\ Goto(r, "round")
    /\ UNCHANGED <<st, pid, snap, found, ctl, draft, phase8Runs, spent, campaignVars>>

Acquire(r) ==
    /\ pc[r] = "acquire"
    /\ lock = Free
    /\ lock' = r
    /\ Goto(r, "round")
    /\ UNCHANGED <<st, pid, snap, found, ctl, draft, phase8Runs, spent, campaignVars>>

\* training_workflow_locked is not caught: the process dies.
AcquireRejected(r) ==
    /\ pc[r] = "acquire"
    /\ lock # Free
    /\ Exit(r)
    /\ UNCHANGED <<st, lock, pid, ctl, phase8Runs, spent>>

\* `run` leaves the lock; run_workflow goes on only while the state it was
\* handed is RUNNING.
Release(r) ==
    /\ pc[r] = "release"
    /\ lock' = Free
    /\ Goto(r, IF snap[r].status = "RUNNING" THEN "sleep" ELSE "exiting")
    /\ snap' = [snap EXCEPT ![r] = InitialState]
    /\ UNCHANGED <<st, pid, found, ctl, draft, phase8Runs, spent, campaignVars>>

Wake(r) ==
    /\ pc[r] = "sleep"
    /\ Goto(r, "acquire")
    /\ UNCHANGED <<st, lock, pid, snap, found, ctl, draft, phase8Runs, spent, campaignVars>>

ProcessEnds(r) ==
    /\ pc[r] = "exiting"
    /\ Exit(r)
    /\ UNCHANGED <<st, lock, pid, ctl, phase8Runs, spent>>

-----------------------------------------------------------------------------
(* TrainingRunner.run and run_once *)

Halted(s) == s.status \in {"PAUSED", "STOPPED", "FAILED"}
\* Mutation of AllGenerationsDone: one generation too early.
AlmostAllGenerationsDone(s) == Cardinality(s.completed) >= GenerationCount - 1

AllGenerationsDone(s) == Cardinality(s.completed) >= GenerationCount

\* _run_once: the driver call the loaded state asks for, "none" when it
\* returns that state unchanged.
CallFor(s) ==
    IF Halted(s) THEN "none"
    ELSE IF ~s.campaign THEN "prepare"
    ELSE IF AllGenerationsDone(s)
         THEN IF s.phase8 = "NOT_STARTED" THEN "phase8" ELSE "finish"
    ELSE CASE s.action \in {"VALIDATE_INPUT", "PREVIEW"} -> "preview"
           [] s.action = "EXECUTE" -> "execute"
           [] s.action \in {"SUMMARIZE", "WAIT_WORKER"} -> "inspect"
           [] OTHER -> "none"

\* A state that still has a back-off entry or any recovery record, an idle
\* one included, is settled by one more transition.
NeedsSettling(s) == s.retry \/ s.recovery.status # "none"

\* Where `run` goes with the state an action returned.
AfterAction(s, moved) ==
    IF NeedsSettling(s) THEN "settle"
    ELSE IF s.action = "IDLE" \/ ~moved THEN "release"
    ELSE "round"

BeginRound(r) ==
    /\ pc[r] = "round"
    /\ snap' = [snap EXCEPT ![r] = st]
    /\ Goto(r, IF CallFor(st) = "none" THEN AfterAction(st, FALSE) ELSE CallFor(st))
    /\ UNCHANGED <<st, lock, pid, found, ctl, draft, phase8Runs, spent, campaignVars>>

\* A driver call is over; `next` is the transition it is followed by.
Prepared(r, next) ==
    /\ draft' = [draft EXCEPT ![r] = next]
    /\ Goto(r, "write")
    /\ UNCHANGED <<st, lock, pid, snap, found, ctl, spent>>

Write(r) ==
    /\ pc[r] = "write"
    /\ st' = draft[r]
    /\ snap' = [snap EXCEPT ![r] = draft[r]]
    /\ draft' = [draft EXCEPT ![r] = InitialState]
    /\ Goto(r, AfterAction(draft[r], TRUE))
    /\ UNCHANGED <<lock, pid, found, ctl, phase8Runs, spent, campaignVars>>

Settle(r) ==
    /\ pc[r] = "settle"
    /\ draft' = [draft EXCEPT ![r] = [Loaded EXCEPT !.recovery = IdleRecovery]]
    /\ Goto(r, "writeSettled")
    /\ UNCHANGED <<st, lock, pid, snap, found, ctl, phase8Runs, spent, campaignVars>>

WriteSettled(r) ==
    /\ pc[r] = "writeSettled"
    /\ st' = draft[r]
    /\ snap' = [snap EXCEPT ![r] = draft[r]]
    /\ draft' = [draft EXCEPT ![r] = InitialState]
    /\ Goto(r, IF draft[r].action = "IDLE" THEN "release" ELSE "round")
    /\ UNCHANGED <<lock, pid, found, ctl, phase8Runs, spent, campaignVars>>

-----------------------------------------------------------------------------
(* The driver calls of _run_once *)

PrepareCall(r) ==
    /\ pc[r] = "prepare"
    /\ PrepareCampaign
    /\ Prepared(r, [Loaded EXCEPT !.campaign = TRUE, !.status = "RUNNING",
                                  !.stage = "EVOLUTION", !.action = "PREVIEW"])
    /\ UNCHANGED phase8Runs

Previewed == [Loaded EXCEPT !.status = "RUNNING", !.stage = "EVOLUTION",
                            !.action = "EXECUTE"]

PreviewReused(r) ==
    /\ pc[r] = "preview"
    /\ previews[snap[r].gen] = "ready"
    /\ Prepared(r, Previewed)
    /\ UNCHANGED <<phase8Runs, campaignVars>>

PreviewOpened(r) ==
    /\ pc[r] = "preview"
    /\ OpenPreview(snap[r].gen)
    /\ Goto(r, "build")
    /\ UNCHANGED <<st, lock, pid, snap, found, ctl, draft, phase8Runs, spent>>

PreviewBuilding(r) ==
    /\ pc[r] = "build"
    /\ previews[snap[r].gen] = "opened"
    /\ BuildPreview(snap[r].gen)
    /\ UNCHANGED trainingVars

PreviewSaved(r) ==
    /\ pc[r] = "build"
    /\ previews[snap[r].gen] = "building"
    /\ SavePreview(snap[r].gen)
    /\ Prepared(r, Previewed)
    /\ UNCHANGED phase8Runs

Executed == [Loaded EXCEPT !.action = "SUMMARIZE"]

ExecuteReused(r) ==
    /\ pc[r] = "execute"
    /\ ExecuteReusesWorker(snap[r].gen)
    /\ Prepared(r, Executed)
    /\ UNCHANGED <<phase8Runs, campaignVars>>

ExecuteStarted(r) ==
    /\ pc[r] = "execute"
    /\ Len(workers[snap[r].gen]) < MaxEpochs
    /\ StartOperation(r, snap[r].gen)
    /\ Goto(r, "launch")
    /\ UNCHANGED <<st, lock, pid, snap, found, ctl, draft, phase8Runs, spent>>

ExecuteLaunched(r) ==
    /\ pc[r] = "launch"
    /\ LaunchWorker(r, snap[r].gen)
    /\ Prepared(r, Executed)
    /\ UNCHANGED phase8Runs

\* SUMMARIZE and WAIT_WORKER both read the persisted status of the Worker.
WorkerFailed(r) ==
    /\ pc[r] = "inspect"
    /\ InspectStatus(snap[r].gen) \in {"failed", "cancelled_incomplete"}
    /\ Prepared(r, [Loaded EXCEPT !.status = "FAILED", !.action = "IDLE"])
    /\ UNCHANGED <<phase8Runs, campaignVars>>

\* Mutation of GenerationCompleted: any Worker that did not fail counts.
GenerationAssumedCompleted(r) ==
    /\ pc[r] = "inspect"
    /\ snap[r].action = "SUMMARIZE"
    /\ Prepared(r, [Loaded EXCEPT !.completed = snap[r].completed \cup {snap[r].gen},
                                  !.gen = snap[r].gen + 1, !.action = "PREVIEW"])
    /\ UNCHANGED <<phase8Runs, campaignVars>>

GenerationCompleted(r) ==
    /\ pc[r] = "inspect"
    /\ snap[r].action = "SUMMARIZE"
    /\ InspectStatus(snap[r].gen) = "completed"
    /\ Prepared(r, [Loaded EXCEPT !.completed = snap[r].completed \cup {snap[r].gen},
                                  !.gen = snap[r].gen + 1, !.action = "PREVIEW"])
    /\ UNCHANGED <<phase8Runs, campaignVars>>

StartWaiting(r) ==
    /\ pc[r] = "inspect"
    /\ snap[r].action = "SUMMARIZE"
    /\ InspectStatus(snap[r].gen) \notin {"completed", "failed", "cancelled_incomplete"}
    /\ Prepared(r, [Loaded EXCEPT !.action = "WAIT_WORKER"])
    /\ UNCHANGED <<phase8Runs, campaignVars>>

StopWaiting(r) ==
    /\ pc[r] = "inspect"
    /\ snap[r].action = "WAIT_WORKER"
    /\ InspectStatus(snap[r].gen) = "completed"
    /\ Prepared(r, Executed)
    /\ UNCHANGED <<phase8Runs, campaignVars>>

KeepWaiting(r) ==
    /\ pc[r] = "inspect"
    /\ snap[r].action = "WAIT_WORKER"
    /\ InspectStatus(snap[r].gen) \notin {"completed", "failed", "cancelled_incomplete"}
    /\ Goto(r, AfterAction(snap[r], FALSE))
    /\ UNCHANGED <<st, lock, pid, snap, found, ctl, draft, phase8Runs, spent, campaignVars>>

Phase8Call(r) ==
    /\ pc[r] = "phase8"
    /\ phase8Runs' = phase8Runs + 1
    /\ Prepared(r, [Loaded EXCEPT !.status = "COMPLETED", !.stage = "REPORT",
                                  !.action = "IDLE", !.phase8 = "COMPLETED"])
    /\ UNCHANGED campaignVars

\* The aggregation ends with a status _phase8_finished does not accept.
Phase8Unfinished(r) ==
    /\ pc[r] = "phase8"
    /\ spent.faults < MaxFaults
    /\ spent' = [spent EXCEPT !.faults = @ + 1]
    /\ draft' = [draft EXCEPT ![r] = [Loaded EXCEPT
                    !.status = "FAILED", !.stage = "PHASE8",
                    !.action = "IDLE", !.phase8 = "FAILED"]]
    /\ Goto(r, "write")
    /\ UNCHANGED <<st, lock, pid, snap, found, ctl, phase8Runs, campaignVars>>

Finish(r) ==
    /\ pc[r] = "finish"
    /\ Prepared(r, [Loaded EXCEPT !.status = "COMPLETED", !.stage = "REPORT",
                                  !.action = "IDLE"])
    /\ UNCHANGED <<phase8Runs, campaignVars>>

-----------------------------------------------------------------------------
(* A driver call raises: classification, router, recovery budget *)

\* Mutation of NextRecovery: every failure is the first of its incident.
NextRecoveryForgets(s) ==
    [status |-> "FAILED", attempts |-> 1, stage |-> s.stage, task |-> s.action, gen |-> s.gen]

\* _next_recovery: failures of the same stage, action and generation add up.
NextRecovery(s) ==
    LET previous == s.recovery
        same == /\ previous.status = "FAILED"
                /\ previous.stage = s.stage
                /\ previous.task = s.action
                /\ previous.gen = s.gen
    IN [status |-> "FAILED", attempts |-> IF same THEN previous.attempts + 1 ELSE 1,
        stage |-> s.stage, task |-> s.action, gen |-> s.gen]

\* The failed call is recorded against the state the handler loads.
Raise(r) ==
    /\ snap' = [snap EXCEPT ![r] = st]
    /\ Goto(r, "failed")

CallRejected(r) ==
    /\ \/ pc[r] = "prepare" /\ PrepareRejected
       \/ pc[r] = "preview" /\ PreviewRejected(snap[r].gen)
       \/ pc[r] = "execute" /\ StartRejected(snap[r].gen)
    /\ Raise(r)
    /\ UNCHANGED <<st, lock, pid, found, ctl, draft, phase8Runs, spent, campaignVars>>

\* Any other exception, before the call has changed the Campaign.
CallRaises(r) ==
    /\ pc[r] \in {"prepare", "preview", "execute", "inspect", "phase8"}
    /\ spent.faults < MaxFaults
    /\ spent' = [spent EXCEPT !.faults = @ + 1]
    /\ Raise(r)
    /\ UNCHANGED <<st, lock, pid, found, ctl, draft, phase8Runs, campaignVars>>

ProposalRaises(r) ==
    /\ pc[r] = "build"
    /\ spent.faults < MaxFaults
    /\ spent' = [spent EXCEPT !.faults = @ + 1]
    /\ FailPreview(snap[r].gen)
    /\ Raise(r)
    /\ UNCHANGED <<st, lock, pid, found, ctl, draft, phase8Runs>>

\* After the router's decision `transition` loads the state once more, and
\* overwrites its runner entry with the one computed from the first load.
\* The third failure stops the Workflow whatever the router says.
StopAfterFailure(r) ==
    /\ pc[r] = "failed"
    /\ draft' = [draft EXCEPT ![r] = [st EXCEPT
                    !.status = "STOPPED", !.action = "IDLE",
                    !.retry = snap[r].retry, !.recovery = NextRecovery(snap[r])]]
    /\ Goto(r, "writeFailure")
    /\ UNCHANGED <<st, lock, pid, snap, found, ctl, phase8Runs, spent, campaignVars>>

\* RETRY, and DOMAIN_REPAIR of an invalid proposal, keep the action and back off.
RetryAfterFailure(r) ==
    /\ pc[r] = "failed"
    /\ NextRecovery(snap[r]).attempts < 3
    /\ draft' = [draft EXCEPT ![r] = [st EXCEPT
                    !.retry = TRUE, !.recovery = NextRecovery(snap[r])]]
    /\ Goto(r, "writeFailure")
    /\ UNCHANGED <<st, lock, pid, snap, found, ctl, phase8Runs, spent, campaignVars>>

\* The state returned after a failure has a back-off entry or is IDLE: run ends.
WriteFailure(r) ==
    /\ pc[r] = "writeFailure"
    /\ st' = draft[r]
    /\ snap' = [snap EXCEPT ![r] = draft[r]]
    /\ draft' = [draft EXCEPT ![r] = InitialState]
    /\ Goto(r, "release")
    /\ UNCHANGED <<lock, pid, found, ctl, phase8Runs, spent, campaignVars>>

-----------------------------------------------------------------------------
(* TrainingService: control and inspect, called from another process *)

ClientGoto(c, label) == ctl' = [ctl EXCEPT ![c] = label]

\* The read half of a control transition.
ControlLoad(c, status, action, label) ==
    /\ draft' = [draft EXCEPT ![c] = [Loaded EXCEPT !.status = status, !.action = action]]
    /\ ClientGoto(c, label)
    /\ UNCHANGED <<st, lock, pid, pc, snap, found, phase8Runs, campaignVars>>

CountCommand ==
    /\ spent.commands < MaxCommands
    /\ spent' = [spent EXCEPT !.commands = @ + 1]

Pause(c) == ctl[c] = "idle" /\ CountCommand /\ ControlLoad(c, "PAUSED", "IDLE", "write")

Stop(c) == ctl[c] = "idle" /\ CountCommand /\ ControlLoad(c, "STOPPED", "IDLE", "write")

Resume(c) ==
    /\ ctl[c] = "idle"
    /\ CountCommand
    /\ ClientGoto(c, IF st.status = "PAUSED" THEN "resumeLoad" ELSE "check")
    /\ UNCHANGED <<st, lock, pid, pc, snap, found, draft, phase8Runs, campaignVars>>

ResumeLoad(c) ==
    /\ ctl[c] = "resumeLoad"
    /\ ControlLoad(c, "RUNNING", "PREVIEW", "resumeWrite")
    /\ UNCHANGED spent

ControlWrite(c) ==
    /\ ctl[c] \in {"write", "resumeWrite"}
    /\ st' = draft[c]
    /\ draft' = [draft EXCEPT ![c] = InitialState]
    /\ ClientGoto(c, IF ctl[c] = "write" THEN "idle" ELSE "check")
    /\ UNCHANGED <<lock, pid, pc, snap, found, phase8Runs, spent, campaignVars>>

CheckProcess(c) ==
    /\ ctl[c] = "check"
    /\ ClientGoto(c, IF Alive(pid) THEN "idle" ELSE "start")
    /\ UNCHANGED <<st, lock, pid, pc, snap, found, draft, phase8Runs, spent, campaignVars>>

\* Only an inspection that loaded a RUNNING Workflow looks for its process.
Inspect(c) ==
    /\ ctl[c] = "idle"
    /\ st.status = "RUNNING"
    /\ ClientGoto(c, "check")
    /\ UNCHANGED <<st, lock, pid, pc, snap, found, draft, phase8Runs, spent, campaignVars>>

StartProcess(c, r) ==
    /\ ctl[c] = "start"
    /\ pc[r] = "off"
    /\ Goto(r, "reconcile")
    /\ pid' = r
    /\ ClientGoto(c, "idle")
    /\ UNCHANGED <<st, lock, snap, found, draft, phase8Runs, spent, campaignVars>>

-----------------------------------------------------------------------------
(* Workers, crashes and the operator *)

WorkerThread ==
    /\ \E t \in threads :
          WriteResult(t) \/ SaveCompleted(t) \/ AdvanceCampaign(t) \/ ReleaseCmoLock(t)
    /\ UNCHANGED trainingVars

WorkerUnfinished ==
    /\ spent.faults < MaxFaults
    /\ spent' = [spent EXCEPT !.faults = @ + 1]
    /\ \E t \in threads :
          \/ "failed" \in UnfinishedOutcomes /\ FailWorker(t)
          \/ \E outcome \in UnfinishedOutcomes \ {"failed"} : SaveUnfinished(t, outcome)
    /\ UNCHANGED <<st, lock, pid, pc, snap, found, ctl, draft, phase8Runs>>

Crash(r) ==
    /\ pc[r] # "off"
    /\ spent.crashes < MaxCrashes
    /\ spent' = [spent EXCEPT !.crashes = @ + 1]
    /\ Exit(r)
    /\ UNCHANGED <<st, lock, pid, ctl, phase8Runs>>

\* Not in the code: somebody deletes the lock files of dead processes by hand.
RemoveStaleLocks ==
    /\ OperatorUnlocks
    /\ lock # Free => pc[lock] = "off"
    /\ cmoLock # Free => pc[cmoLock] = "off"
    /\ <<lock, cmoLock>> # <<Free, Free>>
    /\ lock' = Free
    /\ cmoLock' = Free
    /\ UNCHANGED <<st, pid, pc, snap, found, ctl, draft, phase8Runs, spent, prepared,
                   previews, orphan, workers, results, current, threads>>

-----------------------------------------------------------------------------

\* What a live Runtime does when nothing raises.
Proceed(r) ==
    \/ Reconcile(r) \/ WorkerReconciled(r) \/ StateReconciled(r)
    \/ Acquire(r) \/ AcquireRejected(r) \/ BeginRound(r)
    \/ PrepareCall(r) \/ PreviewReused(r) \/ PreviewOpened(r) \/ PreviewBuilding(r)
    \/ PreviewSaved(r) \/ ExecuteReused(r) \/ ExecuteStarted(r) \/ ExecuteLaunched(r)
    \/ WorkerFailed(r) \/ GenerationCompleted(r) \/ StartWaiting(r) \/ StopWaiting(r)
    \/ KeepWaiting(r) \/ Phase8Call(r) \/ Finish(r) \/ CallRejected(r)
    \/ StopAfterFailure(r) \/ RetryAfterFailure(r)
    \/ Write(r) \/ Settle(r) \/ WriteSettled(r) \/ WriteFailure(r)
    \/ Release(r) \/ Wake(r) \/ ProcessEnds(r)

Runtime(r) == Proceed(r) \/ CallRaises(r) \/ ProposalRaises(r) \/ Phase8Unfinished(r)

\* The rest of a client call that has begun.
ClientContinues(c) ==
    \/ ResumeLoad(c) \/ ControlWrite(c) \/ CheckProcess(c)
    \/ \E r \in Processes : StartProcess(c, r)

Client(c) == Pause(c) \/ Stop(c) \/ Resume(c) \/ Inspect(c) \/ ClientContinues(c)

Next ==
    \/ \E r \in Processes : Runtime(r) \/ Crash(r)
    \/ \E c \in Clients : Client(c)
    \/ WorkerThread
    \/ WorkerUnfinished
    \/ RemoveStaleLocks

Spec == Init /\ [][Next]_vars

\* A live process and a live thread are scheduled, a client finishes the call
\* it began and keeps polling inspect.
FairSpec ==
    /\ Spec
    /\ \A r \in Processes : WF_vars(Proceed(r))
    /\ \A c \in Clients : WF_vars(ClientContinues(c)) /\ WF_vars(Inspect(c))
    /\ WF_vars(WorkerThread)

-----------------------------------------------------------------------------
(* Properties *)

\* Every variable keeps the shape the stored files and the processes can have.
TypeOK == CampaignTypeOK /\ TrainingTypeOK

\* completed_generations, "the only scheduling fact" of which generation has a
\* formal result, is exactly the prefix before current_generation and each of
\* its members has a result on disk, whatever transitions overwrote each other,
\* crashed or were restarted (runner.py, SUMMARIZE branch).
BackedPrefix(s) == s.completed = 0 .. s.gen - 1 /\ s.completed \subseteq results
CompletedGenerationsBacked == BackedPrefix(st)

\* At most one Runtime is between acquire and release of runner.lock.
SingleScheduler ==
    \A r, q \in Processes : pc[r] \in LockedPc /\ pc[q] \in LockedPc => r = q

\* Phase 8 sees the results of all generations: it never runs or is recorded,
\* and no Workflow is COMPLETED, while one of them is missing (runner.py:
\* "only after the formal results of all generations are on disk").
AggregationAfterAllGenerations ==
    phase8Runs > 0 \/ st.phase8 # "NOT_STARTED" \/ st.status = "COMPLETED" =>
        results = Generations

\* What no step of the code repairs: the lock file of a dead Runtime, an operation
\* started without a Worker, a Worker whose thread is gone, and a first Worker whose
\* stored status neither completes its generation nor fails it.
Abandoned(g) ==
    \/ orphan[g]
    \/ \E e \in DOMAIN workers[g] :
          workers[g][e] = "running" /\ \A t \in threads : t.gen # g \/ t.epoch # e
    \/ workers[g] # <<>> /\ Head(workers[g]) \in {"paused", "reconciliation_required"}

NeedsOperator ==
    \/ lock # Free /\ pc[lock] \notin LockedPc
    \/ \E g \in Generations : Abandoned(g)

\* However calls fail, processes die and commands overwrite each other, a Workflow
\* does not stay RUNNING for ever (it completes, fails, runs out of its recovery
\* budget or stays where a command put it), unless the Campaign or runner.lock is
\* for ever in one of the states that need an operator (run_workflow runs "until a
\* terminal state or manual handling").
SettlesDown == <>[](st.status # "RUNNING") \/ <>[]NeedsOperator

=============================================================================
