------------------------------ MODULE CodeRepair ------------------------------
(***************************************************************************)
(* The code-repair transaction of a training Workflow: the recovery record  *)
(* in state.json, the zip snapshot of src/, scripts/ and tests/, the agent  *)
(* that edits these files, the verification gate, the replay of the failed  *)
(* action, the commit and the push, and what a restarted Runtime does with  *)
(* each record it may find.                                                 *)
(*                                                                          *)
(* Source: training/runner.py (run_once, _execute_code_repair,              *)
(* _resume_code_repair, reconcile) and training/repair.py.                  *)
(*                                                                          *)
(* One Runtime lives at a time: the race of two is in TrainingWorkflow.  A  *)
(* `transition` of the Runtime is one step, a client's is two, so that a    *)
(* command can overwrite what the Runtime wrote; the opposite race is in    *)
(* TrainingWorkflow.  The Workflow is the two actions PREVIEW and EXECUTE,  *)
(* the last one standing for everything after it.                           *)
(***************************************************************************)
EXTENDS Integers, FiniteSets

CONSTANTS
    Files,         \* files of the repair scope
    None,          \* no commit, no snapshot
    MaxEdits,      \* bound: edits of files by the agent and the user
    MaxFailures,   \* bound: exceptions of actions
    MaxFaults,     \* bound: failures of git commit and git push
    MaxRestores,   \* bound: restores that fail half-way
    MaxCrashes,    \* bound: deaths of the Runtime
    MaxCommands,   \* bound: pause, stop and resume commands
    MaxTotal       \* bound: all of these together, an edit of the user counted twice

ASSUME RepairAssumption ==
    /\ {MaxEdits, MaxFailures, MaxFaults, MaxRestores, MaxCrashes, MaxCommands, MaxTotal}
           \subseteq Nat
    /\ Files # {}
    /\ None \notin Nat \cup [Files -> 0 .. MaxEdits]

VARIABLES
    st,        \* state.json
    pc,        \* where the Runtime is
    job,       \* local variables of _execute_code_repair and repair
    locked,    \* runner.lock exists
    tree,      \* version of each file on disk
    head,      \* version of each file in the HEAD commit
    commits,   \* commits made by repairs; the number is the identity of HEAD
    remote,    \* the commit the remote repository has
    archive,   \* contents of repair-snapshot.zip, or None
    edits,     \* number of edits so far; an edit gives its file a new version
    verified,  \* versions that have passed the gate (observation)
    users,     \* versions the user made, TRUE if during a repair (observation)
    mine,      \* version the user gave a file between repairs and has not edited
               \* in one, 0 if there is none (observation)
    ctl,       \* "idle", or the command a client has computed and not written
    draft,     \* the state a client's transition has computed
    spent      \* exceptions, faults, crashes and commands so far

source == <<tree, head, commits, remote, archive, edits, verified, users, mine>>
client == <<ctl, draft>>
vars == <<st, pc, job, locked, source, client, spent>>

-----------------------------------------------------------------------------
(* state.json *)

Version == 0 .. MaxEdits
Content == [Files -> Version]
Commit == Nat \cup {None}
Action == {"PREVIEW", "EXECUTE", "IDLE"}

\* runner["recovery"]: status "none" when it is absent; task "IDLE", attempts 0
\* and code FALSE when those keys are absent.
Recovery ==
    [status: {"none", "IDLE", "FAILED", "REPAIRING", "VERIFYING", "COMMITTED"},
     attempts: Nat, code: BOOLEAN, task: Action, ready: BOOLEAN,
     snapshot: BOOLEAN, commit: Commit, pushed: BOOLEAN]

NoRecovery == [status |-> "none", attempts |-> 0, code |-> FALSE, task |-> "IDLE",
               ready |-> FALSE, snapshot |-> FALSE, commit |-> None, pushed |-> FALSE]
IdleRecovery == [NoRecovery EXCEPT !.status = "IDLE"]

State ==
    [status: {"RUNNING", "REPAIRING", "PAUSED", "STOPPED", "COMPLETED"},
     action: Action, retry: BOOLEAN, recovery: Recovery, lastGood: Nat]

InitialState == [status |-> "RUNNING", action |-> "PREVIEW", retry |-> FALSE,
                 recovery |-> NoRecovery, lastGood |-> 0]

RepairPc == {"repair", "opened", "agent", "verify", "gated", "replay", "commit", "committed",
             "push", "pushed", "close", "undo", "undone", "failed", "stop"}
RuntimePc == RepairPc \cup {"off", "reconcile", "adopt", "restored", "acquire",
                            "round", "act", "goSleep", "goExit", "sleep"}

\* `found` is the record of the failure the repair was started for, `lastGood`
\* the commit its state named, `changed` the paths that a commit would take.
Job == [found: Recovery, before: Content, dirty: SUBSET Files, changed: SUBSET Files,
        commit: Commit, lastGood: Nat]
NoJob == [found |-> NoRecovery, before |-> [f \in Files |-> 0], dirty |-> {},
          changed |-> {}, commit |-> None, lastGood |-> 0]

\* Every variable keeps the shape of the stored files and of the Runtime's locals.
TypeOK ==
    /\ st \in State
    /\ pc \in RuntimePc
    /\ job \in Job
    /\ locked \in BOOLEAN
    /\ tree \in Content /\ head \in Content
    /\ commits \in Nat /\ remote \in Nat
    /\ archive \in Content \cup {None}
    /\ edits \in Version
    /\ verified \subseteq Files \X Version
    /\ users \subseteq Files \X Version \X BOOLEAN
    /\ mine \in Content
    /\ ctl \in {"idle", "write", "resume"}
    /\ draft \in State
    /\ spent \in [failures: Nat, faults: Nat, restores: Nat, crashes: Nat, commands: Nat]

\* establish_training_baseline has committed and pushed the repair scope.
Init ==
    /\ st = InitialState
    /\ pc = "reconcile"
    /\ job = NoJob
    /\ locked = FALSE
    /\ tree = [f \in Files |-> 0] /\ head = [f \in Files |-> 0]
    /\ commits = 0 /\ remote = 0
    /\ archive = None
    /\ edits = 0
    /\ verified = {} /\ users = {}
    /\ mine = [f \in Files |-> 0]
    /\ ctl = "idle" /\ draft = InitialState
    /\ spent = [failures |-> 0, faults |-> 0, restores |-> 0, crashes |-> 0, commands |-> 0]

BelowTotal ==
    edits + Cardinality(users) + spent.failures + spent.faults + spent.restores + spent.crashes
        + spent.commands < MaxTotal

Spend(kind, bound) ==
    /\ spent[kind] < bound
    /\ BelowTotal
    /\ spent' = [spent EXCEPT ![kind] = @ + 1]

\* `run` ends with state s: run_workflow goes on only while s is RUNNING.
Return(s) == pc' = IF s.status = "RUNNING" THEN "goSleep" ELSE "goExit"

Stopped(recovery) ==
    [st EXCEPT !.status = "STOPPED", !.action = "IDLE", !.recovery = recovery]

-----------------------------------------------------------------------------
(* reconcile: the record a new Runtime finds *)

\* Mutation of InFlight: only the first half of a repair is recognised.
Repairing(s) == s.recovery.status = "REPAIRING"

InFlight(s) == s.recovery.status \in {"REPAIRING", "VERIFYING"}

NothingToReconcile ==
    /\ pc = "reconcile"
    /\ st.recovery.status # "COMMITTED" /\ ~InFlight(st)
    /\ pc' = "acquire"
    /\ UNCHANGED <<st, job, locked, source, client, spent>>

Adopt(commit) ==
    /\ job' = [NoJob EXCEPT !.commit = commit]
    /\ pc' = "adopt"

\* Mutation of PushCommitted: the recorded commit is adopted as it is.
AdoptUnpushed ==
    /\ pc = "reconcile"
    /\ st.recovery.status = "COMMITTED"
    /\ st.recovery.commit # None
    /\ Adopt(st.recovery.commit)
    /\ UNCHANGED <<st, locked, source, client, spent>>

\* Mutation of PushCommitted: a record without a commit is not told apart.
AdoptAnything ==
    /\ pc = "reconcile"
    /\ st.recovery.status = "COMMITTED"
    /\ remote' = commits
    /\ Adopt(st.recovery.commit)
    /\ UNCHANGED <<st, locked, tree, head, commits, archive, edits, verified, users, mine,
                   client, spent>>

\* resume_committed: the push is repeated only when HEAD is the recorded commit.
PushCommitted ==
    /\ pc = "reconcile"
    /\ st.recovery.status = "COMMITTED"
    /\ st.recovery.commit # None
    /\ st.recovery.pushed \/ st.recovery.commit = commits
    /\ remote' = IF st.recovery.pushed THEN remote ELSE commits
    /\ Adopt(st.recovery.commit)
    /\ UNCHANGED <<st, locked, tree, head, commits, archive, edits, verified, users,
                   mine, client, spent>>

AdoptCommit ==
    /\ pc = "adopt"
    /\ archive' = None
    /\ st' = [st EXCEPT !.status = "RUNNING", !.retry = FALSE,
                        !.recovery = IdleRecovery, !.lastGood = job.commit]
    /\ pc' = "acquire"
    /\ job' = NoJob
    /\ UNCHANGED <<locked, tree, head, commits, remote, edits, verified, users, mine,
                   client, spent>>

CommittedUnusable ==
    /\ pc = "reconcile"
    /\ st.recovery.status = "COMMITTED"
    /\ \/ /\ st.recovery.commit = None \/ (~st.recovery.pushed /\ st.recovery.commit # commits)
          /\ UNCHANGED spent
       \/ /\ st.recovery.commit # None /\ ~st.recovery.pushed
          /\ Spend("faults", MaxFaults)
    /\ st' = Stopped([st.recovery EXCEPT !.status = "FAILED"])
    /\ pc' = "acquire"
    /\ UNCHANGED <<job, locked, source, client>>

\* Restoring stops at the first file it cannot replace.
RestoreHalf ==
    /\ Spend("restores", MaxRestores)
    /\ \E done \in SUBSET Files :
          tree' = [f \in Files |-> IF f \in done THEN archive[f] ELSE tree[f]]
    /\ UNCHANGED <<head, commits, remote, archive, edits, verified, users, mine>>

\* Mutation of Restore: the snapshot goes and the edits stay.
DiscardOnly ==
    /\ archive' = None
    /\ UNCHANGED <<tree, head, commits, remote, edits, verified, users, mine>>

Restore ==
    /\ tree' = archive
    /\ archive' = None
    /\ UNCHANGED <<head, commits, remote, edits, verified, users, mine>>

RestoreInterrupted ==
    /\ pc = "reconcile"
    /\ InFlight(st)
    /\ st.recovery.snapshot /\ archive # None
    /\ Restore
    /\ job' = [NoJob EXCEPT !.found = st.recovery]
    /\ pc' = "restored"
    /\ UNCHANGED <<st, locked, client, spent>>

\* A repair that was interrupted counts as one attempt.
RecordRestored ==
    /\ pc = "restored"
    /\ LET attempts == job.found.attempts + 1
           recovery == [job.found EXCEPT !.status = "FAILED", !.attempts = attempts,
                                           !.ready = TRUE, !.snapshot = FALSE]
       IN st' = IF attempts > 3 THEN Stopped(recovery)
                ELSE [st EXCEPT !.status = "RUNNING", !.recovery = recovery]
    /\ pc' = "acquire"
    /\ job' = NoJob
    /\ UNCHANGED <<locked, source, client, spent>>

InterruptedUnusable ==
    /\ pc = "reconcile"
    /\ InFlight(st)
    /\ \/ (~st.recovery.snapshot \/ archive = None) /\ UNCHANGED <<source, spent>>
       \/ st.recovery.snapshot /\ archive # None /\ RestoreHalf
    /\ st' = Stopped([st.recovery EXCEPT !.status = "FAILED"])
    /\ pc' = "acquire"
    /\ UNCHANGED <<job, locked, client>>

-----------------------------------------------------------------------------
(* run, run_once and run_workflow *)

Acquire ==
    /\ pc = "acquire"
    /\ ~locked
    /\ locked' = TRUE
    /\ pc' = "round"
    /\ UNCHANGED <<st, job, source, client, spent>>

AcquireRejected ==
    /\ pc = "acquire"
    /\ locked
    /\ pc' = "off"
    /\ UNCHANGED <<st, job, locked, source, client, spent>>

Release ==
    /\ pc \in {"goSleep", "goExit"}
    /\ locked' = FALSE
    /\ job' = NoJob
    /\ pc' = IF pc = "goSleep" THEN "sleep" ELSE "off"
    /\ UNCHANGED <<st, source, client, spent>>

Wake ==
    /\ pc = "sleep"
    /\ pc' = "acquire"
    /\ UNCHANGED <<st, job, locked, source, client, spent>>

\* _pending_code_repair, asked before anything else, the status included.
Pending(recovery) ==
    /\ recovery.code
    /\ recovery.status = "FAILED"
    /\ recovery.attempts < 3 \/ recovery.ready

BeginRepair(found, lastGood) ==
    /\ job' = [NoJob EXCEPT !.found = found, !.lastGood = lastGood]
    /\ pc' = "repair"

\* _resume_code_repair
ResumeRepair ==
    /\ pc = "round"
    /\ Pending(st.recovery)
    /\ LET recovery == IF st.recovery.ready
                       THEN [st.recovery EXCEPT !.ready = FALSE]
                       ELSE [st.recovery EXCEPT !.attempts = @ + 1]
       IN IF recovery.attempts > 3
          THEN /\ st' = Stopped(recovery)
               /\ Return(st')
               /\ UNCHANGED job
          ELSE /\ st' = [st EXCEPT !.status = "RUNNING", !.retry = FALSE,
                                   !.recovery = recovery]
               /\ BeginRepair(recovery, st.lastGood)
    /\ UNCHANGED <<locked, source, client, spent>>

Idle(s) == s.status \in {"PAUSED", "STOPPED", "COMPLETED"} \/ s.action = "IDLE"

Settled(s) ==
    IF s.retry \/ s.recovery.status # "none"
    THEN [s EXCEPT !.retry = FALSE, !.recovery = IdleRecovery] ELSE s

NothingToDo ==
    /\ pc = "round"
    /\ ~Pending(st.recovery)
    /\ Idle(st)
    /\ st' = Settled(st)
    /\ Return(st')
    /\ UNCHANGED <<job, locked, source, client, spent>>

BeginAction ==
    /\ pc = "round"
    /\ ~Pending(st.recovery)
    /\ ~Idle(st)
    /\ pc' = "act"
    /\ UNCHANGED <<st, job, locked, source, client, spent>>

\* The transition of the action and the one that settles the incident.
ActionSucceeds ==
    /\ pc = "act"
    /\ st' = Settled(IF st.action = "PREVIEW"
                     THEN [st EXCEPT !.status = "RUNNING", !.action = "EXECUTE"]
                     ELSE [st EXCEPT !.status = "COMPLETED", !.action = "IDLE"])
    /\ IF st'.action = "IDLE" THEN Return(st') ELSE pc' = "round"
    /\ UNCHANGED <<job, locked, source, client, spent>>

\* _next_recovery
NextRecovery(code) ==
    [NoRecovery EXCEPT
        !.status = "FAILED", !.code = code, !.task = st.action,
        !.attempts = IF st.recovery.task = st.action THEN st.recovery.attempts + 1 ELSE 1]

\* RETRY and DOMAIN_REPAIR back off; STOP and the third failure stop.
ActionFails ==
    /\ pc = "act"
    /\ Spend("failures", MaxFailures)
    /\ LET recovery == NextRecovery(FALSE)
       IN \/ st' = Stopped(recovery)
          \/ /\ recovery.attempts < 3
             /\ st' = [st EXCEPT !.retry = TRUE, !.recovery = recovery]
    /\ Return(st')
    /\ UNCHANGED <<job, locked, source, client>>

\* CODE_REPAIR, whatever the number of attempts; nothing is stored yet.
ActionNeedsRepair ==
    /\ pc = "act"
    /\ Spend("failures", MaxFailures)
    /\ BeginRepair(NextRecovery(TRUE), st.lastGood)
    /\ UNCHANGED <<st, locked, source, client>>

-----------------------------------------------------------------------------
(* CodeRepairCoordinator.repair *)

\* `persisted`: the stored record, or the failure's own one.
Persisted == IF st.recovery.status = "none" THEN job.found ELSE st.recovery

\* The progress callback: a record that is there, an IDLE one included, is
\* updated; the failure's own record is used only when there is none.
Progress(status) ==
    [st EXCEPT !.status = IF status = "FAILED" THEN "RUNNING" ELSE "REPAIRING",
               !.recovery = [Persisted EXCEPT !.status = status]]

Changed == {f \in Files : tree[f] # job.before[f]}

\* The classifier and the router disagree about a new failure: one that is not
\* CODE for the classifier is not repaired.
RepairSkipped ==
    /\ pc = "repair"
    /\ st.recovery # job.found
    /\ pc' = "failed"
    /\ UNCHANGED <<st, job, locked, source, client, spent>>

OpenRepair ==
    /\ pc = "repair"
    /\ job' = [job EXCEPT !.before = tree, !.dirty = {f \in Files : tree[f] # head[f]}]
    /\ archive' = tree
    /\ pc' = "opened"
    /\ UNCHANGED <<st, locked, tree, head, commits, remote, edits, verified, users, mine,
                   client, spent>>

ReportRepairing ==
    /\ pc = "opened"
    /\ st' = [Progress("REPAIRING") EXCEPT !.recovery.snapshot = TRUE]
    /\ pc' = "agent"
    /\ UNCHANGED <<job, locked, source, client, spent>>

AgentEdits ==
    /\ pc = "agent"
    /\ edits < MaxEdits /\ BelowTotal
    /\ \E f \in Files : tree' = [tree EXCEPT ![f] = edits + 1]
    /\ edits' = edits + 1
    /\ UNCHANGED <<st, pc, job, locked, head, commits, remote, archive, verified, users,
                   mine, client, spent>>

\* Mutation of AgentCompletes: the agent's word is taken for the gate's.
AgentTrusted ==
    /\ pc = "agent"
    /\ st' = Progress("VERIFYING")
    /\ pc' = "gated"
    /\ UNCHANGED <<job, locked, source, client, spent>>

AgentCompletes ==
    /\ pc = "agent"
    /\ st' = Progress("VERIFYING")
    /\ pc' = "verify"
    /\ UNCHANGED <<job, locked, source, client, spent>>

Undo(label) ==
    /\ pc = label
    /\ pc' = "undo"
    /\ UNCHANGED <<st, job, locked, source, client, spent>>

AgentFails == Undo("agent")

VerificationFails == Undo("verify")

ReplayFails == Undo("replay")

VerificationPasses ==
    /\ pc = "verify"
    /\ verified' = verified \cup {<<f, tree[f]>> : f \in Files}
    /\ pc' = "gated"
    /\ UNCHANGED <<st, job, locked, tree, head, commits, remote, archive, edits,
                   users, mine, client, spent>>

\* What differs now is what will be committed, unless one of these files was dirty
\* before the repair.
ListChanged ==
    /\ pc = "gated"
    /\ Changed \cap job.dirty = {}
    /\ job' = [job EXCEPT !.changed = Changed]
    /\ pc' = "replay"
    /\ UNCHANGED <<st, locked, source, client, spent>>

DirtyPathTouched == Changed \cap job.dirty # {} /\ Undo("gated")

\* _reconcile_failed_action stores the action that follows the failed one.
ReplaySucceeds ==
    /\ pc = "replay"
    /\ st' = [st EXCEPT !.action = "EXECUTE", !.retry = FALSE]
    /\ pc' = "commit"
    /\ UNCHANGED <<job, locked, source, client, spent>>

NothingToCommit ==
    /\ pc = "commit"
    /\ job.changed = {}
    /\ pc' = "committed"
    /\ UNCHANGED <<st, job, locked, source, client, spent>>

\* Mutation of CommitRepair: everything that differs is committed.
CommitAll ==
    /\ pc = "commit"
    /\ job.changed # {}
    /\ head' = tree
    /\ commits' = commits + 1
    /\ job' = [job EXCEPT !.commit = commits + 1]
    /\ pc' = "committed"
    /\ UNCHANGED <<st, locked, tree, remote, archive, edits, verified, users, mine,
                   client, spent>>

\* git commit --only with the paths of this repair.
CommitRepair ==
    /\ pc = "commit"
    /\ job.changed # {}
    /\ \E f \in job.changed : tree[f] # head[f]
    /\ head' = [f \in Files |-> IF f \in job.changed THEN tree[f] ELSE head[f]]
    /\ commits' = commits + 1
    /\ job' = [job EXCEPT !.commit = commits + 1]
    /\ pc' = "committed"
    /\ UNCHANGED <<st, locked, tree, remote, archive, edits, verified, users, mine,
                   client, spent>>

\* The verified source stays because the replay may have produced artifacts.
CommitFails ==
    /\ pc = "commit"
    /\ job.changed # {}
    /\ IF \E f \in job.changed : tree[f] # head[f]
       THEN Spend("faults", MaxFaults) ELSE UNCHANGED spent
    /\ st' = Progress("FAILED")
    /\ pc' = "stop"
    /\ UNCHANGED <<job, locked, source, client>>

ReportCommitted ==
    /\ pc = "committed"
    /\ st' = [Progress("COMMITTED") EXCEPT !.recovery.commit = job.commit,
                                           !.recovery.pushed = FALSE]
    /\ pc' = IF job.commit = None THEN "pushed" ELSE "push"
    /\ UNCHANGED <<job, locked, source, client, spent>>

PushRepair ==
    /\ pc = "push"
    /\ remote' = commits
    /\ pc' = "pushed"
    /\ UNCHANGED <<st, job, locked, tree, head, commits, archive, edits, verified, users,
                   mine, client, spent>>

PushFails ==
    /\ pc = "push"
    /\ Spend("faults", MaxFaults)
    /\ st' = [Progress("FAILED") EXCEPT !.recovery.commit = job.commit]
    /\ pc' = "stop"
    /\ UNCHANGED <<job, locked, source, client>>

ReportPushed ==
    /\ pc = "pushed"
    /\ st' = [Progress("COMMITTED") EXCEPT !.recovery.commit = job.commit,
                                           !.recovery.pushed = TRUE]
    /\ pc' = "close"
    /\ UNCHANGED <<job, locked, source, client, spent>>

\* The snapshot is discarded and the Runner closes the incident.
CloseRepair ==
    /\ pc = "close"
    /\ archive' = None
    /\ st' = [st EXCEPT !.status = "RUNNING", !.retry = FALSE, !.recovery = IdleRecovery,
                        !.lastGood = IF job.commit = None THEN @ ELSE job.commit]
    /\ job' = NoJob
    /\ IF st.action = "IDLE" THEN Return(st') ELSE pc' = "round"
    /\ UNCHANGED <<locked, tree, head, commits, remote, edits, verified, users, mine,
                   client, spent>>

\* _restore_and_report
UndoRepair ==
    /\ pc = "undo"
    /\ \/ Restore /\ UNCHANGED spent
       \/ RestoreHalf
    /\ pc' = "undone"
    /\ UNCHANGED <<st, job, locked, client>>

ReportUndone ==
    /\ pc = "undone"
    /\ st' = Progress("FAILED")
    /\ pc' = "failed"
    /\ UNCHANGED <<job, locked, source, client, spent>>

\* Back in _execute_code_repair: HEAD must still be the last good commit, and
\* the attempts counted are those of the failure's own record.
RepairFailed ==
    /\ pc = "failed"
    /\ st' = IF commits # job.lastGood \/ job.found.attempts >= 3
             THEN Stopped(IF commits # job.lastGood THEN Persisted
                          ELSE [Persisted EXCEPT !.status = "FAILED"])
             ELSE [st EXCEPT !.status = "RUNNING", !.retry = TRUE,
                             !.recovery = [Persisted EXCEPT !.status = "FAILED"]]
    /\ Return(st')
    /\ UNCHANGED <<job, locked, source, client, spent>>

StopForGit ==
    /\ pc = "stop"
    /\ st' = Stopped(Persisted)
    /\ Return(st')
    /\ UNCHANGED <<job, locked, source, client, spent>>

-----------------------------------------------------------------------------
(* The user, clients of TrainingService, and crashes *)

UnderRepair == pc \in RepairPc \/ InFlight(st)

\* The user edits a file at any time, also while agent, gate or replay are at work.
UserEdits ==
    /\ edits < MaxEdits /\ BelowTotal
    /\ \E f \in Files :
          /\ tree' = [tree EXCEPT ![f] = edits + 1]
          /\ users' = users \cup {<<f, edits + 1, UnderRepair>>}
          /\ mine' = [mine EXCEPT ![f] = IF UnderRepair THEN 0 ELSE edits + 1]
    /\ edits' = edits + 1
    /\ UNCHANGED <<st, pc, job, locked, head, commits, remote, archive, verified,
                   client, spent>>

Command(status, action, label) ==
    /\ ctl = "idle"
    /\ Spend("commands", MaxCommands)
    /\ draft' = [st EXCEPT !.status = status, !.action = action, !.retry = FALSE]
    /\ ctl' = label
    /\ UNCHANGED <<st, pc, job, locked, source>>

Pause == Command("PAUSED", "IDLE", "write")
Stop == Command("STOPPED", "IDLE", "write")
Resume == st.status = "PAUSED" /\ Command("RUNNING", "PREVIEW", "resume")

\* resume of a Workflow that is not PAUSED only starts a Runtime.
ResumeUnpaused ==
    /\ ctl = "idle"
    /\ st.status # "PAUSED" /\ pc = "off"
    /\ Spend("commands", MaxCommands)
    /\ pc' = "reconcile"
    /\ UNCHANGED <<st, job, locked, source, client>>

CommandWrite ==
    /\ ctl # "idle"
    /\ st' = draft
    /\ ctl' = "idle"
    /\ draft' = InitialState
    /\ pc' = IF ctl = "resume" /\ pc = "off" THEN "reconcile" ELSE pc
    /\ UNCHANGED <<job, locked, source, spent>>

\* inspect finds no process of a Workflow that is RUNNING or REPAIRING.
InspectRestarts ==
    /\ pc = "off"
    /\ st.status \in {"RUNNING", "REPAIRING"}
    /\ pc' = "reconcile"
    /\ UNCHANGED <<st, job, locked, source, client, spent>>

Crash ==
    /\ pc # "off"
    /\ Spend("crashes", MaxCrashes)
    /\ pc' = "off"
    /\ job' = NoJob
    /\ UNCHANGED <<st, locked, source, client>>

\* Not in the code: somebody deletes the lock file of a dead Runtime.
RemoveStaleLock ==
    /\ pc = "off"
    /\ locked
    /\ locked' = FALSE
    /\ UNCHANGED <<st, pc, job, source, client, spent>>

-----------------------------------------------------------------------------

\* The Runtime, with the outcomes of the agent, the gate and the replay.
Runtime ==
    \/ NothingToReconcile \/ PushCommitted \/ AdoptCommit \/ CommittedUnusable
    \/ RestoreInterrupted \/ RecordRestored \/ InterruptedUnusable
    \/ Acquire \/ AcquireRejected \/ Release \/ Wake
    \/ ResumeRepair \/ NothingToDo \/ BeginAction
    \/ ActionSucceeds \/ ActionFails \/ ActionNeedsRepair
    \/ RepairSkipped \/ OpenRepair \/ ReportRepairing
    \/ AgentEdits \/ AgentCompletes \/ AgentFails
    \/ VerificationPasses \/ VerificationFails \/ ListChanged \/ DirtyPathTouched
    \/ ReplaySucceeds \/ ReplayFails
    \/ NothingToCommit \/ CommitRepair \/ CommitFails \/ ReportCommitted
    \/ PushRepair \/ PushFails \/ ReportPushed \/ CloseRepair
    \/ UndoRepair \/ ReportUndone \/ RepairFailed \/ StopForGit

Next ==
    \/ Runtime
    \/ UserEdits
    \/ Pause \/ Stop \/ Resume \/ ResumeUnpaused \/ CommandWrite
    \/ InspectRestarts \/ Crash \/ RemoveStaleLock

Spec == Init /\ [][Next]_vars

\* A live Runtime is scheduled, clients finish what they began and poll inspect.
FairSpec == Spec /\ WF_vars(Runtime) /\ WF_vars(CommandWrite) /\ WF_vars(InspectRestarts)

-----------------------------------------------------------------------------
(* Properties *)

\* last_good_commit, the base a later repair is compared with, is a commit the
\* remote repository has, whatever died between commit, push and transition.
LastGoodPublished == st.lastGood <= remote

\* HEAD moves only to file versions that went through VerificationGate ("the
\* agent's own tests cannot replace the gate", repair.py), or that the user put
\* on disk behind the gate's back, during the repair.
CommitsVerified ==
    \A f \in Files :
        head[f] = 0 \/ <<f, head[f]>> \in verified \/ <<f, head[f], TRUE>> \in users

FromUser(f, version) == \E during \in BOOLEAN : <<f, version, during>> \in users

\* No edit of the agent that the gate has not seen is on disk when an action of
\* the Workflow runs: a failed or interrupted repair has been undone by then,
\* unless a restore failed half-way or a command overwrote the recovery record.
CleanSource ==
    pc = "act" /\ spent.restores = 0 /\ spent.commands = 0 =>
        \A f \in Files :
            tree[f] = 0 \/ <<f, tree[f]>> \in verified \/ FromUser(f, tree[f])

\* Whatever commit, push, restart or undo was cut short: what the Workflow calls
\* good is published, what is committed was verified, what it runs on is clean.
SourceSafe == LastGoodPublished /\ CommitsVerified /\ CleanSource

\* Work the user did between repairs, on files he left alone during them, is in no
\* automatic commit, and outside a repair it is on disk, unless a restore failed
\* half-way (_dirty_paths: "keeps the agent from mixing the user's work into the
\* commit").  An edit made during a repair has no such protection.
UserWorkKept ==
    \A f \in Files : mine[f] # 0 =>
        /\ head[f] # mine[f]
        /\ ~UnderRepair /\ spent.restores = 0 /\ spent.commands = 0
              => tree[f] = mine[f]

\* A Workflow does not stay REPAIRING: a Runtime that dies at any point of a
\* repair is replaced, and the replacement finishes or undoes it.
RepairEnds == st.status = "REPAIRING" ~> st.status # "REPAIRING"

=============================================================================
