--------------------------- MODULE CodeRepairProofs ---------------------------
(***************************************************************************)
(* What the code-repair transaction guarantees for every number of files,   *)
(* edits, crashes and commands: the stored commit is published, commits     *)
(* hold what the gate has seen or the user edited during the repair, the    *)
(* Workflow runs on clean files, and the user's edits between repairs, on   *)
(* files he leaves alone during them, survive.                              *)
(*                                                                          *)
(* None of these is inductive.  Six invariants support them:                *)
(*   NoNewerVersion    edits make new versions;                             *)
(*   SnapshotOfRepair  where the snapshot is what the repair started from;  *)
(*   Published         which recorded commits the remote already has;       *)
(*   GateSeen          what the gate has seen while a commit may come;      *)
(*   RecordTells       without commands and failing restores, the stored    *)
(*                     record says when there are edits to undo;            *)
(*   Undoable          then disk or snapshot always holds sound files, and  *)
(*                     that record says which of the two.                   *)
(***************************************************************************)
EXTENDS CodeRepair, TLAPS

\* Between the snapshot and the end of the edits.
Covered == {"opened", "agent", "verify", "gated", "replay", "commit", "undo"}

\* undo restores from a snapshot that exists and is the one of this repair; the
\* files differ from it only by versions newer than the user's.
SnapshotOfRepair ==
    /\ pc \in Covered => archive = job.before
    /\ pc \in {"opened", "agent", "verify", "gated"} =>
          \A f \in Files : mine[f] # 0 /\ tree[f] = mine[f] => job.before[f] = mine[f]
    /\ pc \in {"replay", "commit"} =>
          \A f \in job.changed : mine[f] # 0 => tree[f] # mine[f]
    /\ pc \in RepairPc => job.found.status = "FAILED"
    /\ job.found.status # "COMMITTED"
    /\ pc = "adopt" => job.commit # None

\* A new version is newer than everything stored.
NoNewerVersion ==
    \A f \in Files :
        /\ tree[f] <= edits /\ head[f] <= edits /\ mine[f] <= edits
        /\ archive # None => archive[f] <= edits
        /\ job.before[f] <= edits

ClaimsPublished(recovery) ==
    recovery.status = "COMMITTED" /\ recovery.pushed /\ recovery.commit # None =>
        recovery.commit <= remote

Published ==
    /\ remote <= commits
    /\ st.lastGood <= remote /\ draft.lastGood <= remote
    /\ ClaimsPublished(st.recovery) /\ ClaimsPublished(draft.recovery)
    /\ job.commit # None =>
          /\ job.commit <= commits
          /\ pc \in {"pushed", "close", "adopt"} => job.commit <= remote

GateSeen ==
    /\ CommitsVerified
    /\ pc \in {"gated", "replay", "commit"} =>
          \A f \in Files : <<f, tree[f]>> \in verified \/ <<f, tree[f], TRUE>> \in users
    /\ \A f \in Files : mine[f] # 0 => head[f] # mine[f]

\* The user's version of a file the user has edited between repairs, otherwise a
\* verified one or one of the user's.
Sound(content) ==
    \A f \in Files :
        IF mine[f] # 0 THEN content[f] = mine[f] /\ FromUser(f, mine[f])
        ELSE content[f] = 0 \/ <<f, content[f]>> \in verified \/ FromUser(f, content[f])

Undisturbed == spent.restores = 0 /\ spent.commands = 0

\* Files under repair may be unsound; the record of a Runtime that died says so.
Edited ==
    \/ pc \in {"agent", "verify", "gated", "undo"}
    \/ pc \in {"off", "reconcile"} /\ InFlight(st) /\ archive # None

RecordTells ==
    Undisturbed =>
        /\ ctl = "idle"
        /\ pc \in {"agent", "verify", "gated", "replay", "undo", "restored"} => InFlight(st)
        /\ InFlight(st) =>
              /\ st.recovery.snapshot
              /\ pc \in {"off", "reconcile", "restored", "agent", "verify", "gated", "replay",
                         "commit", "committed", "undo", "undone"}

Undoable ==
    Undisturbed =>
        /\ pc \in {"opened", "agent", "verify", "gated"} =>
              \A f \in Files : mine[f] # 0 => f \in job.dirty
        /\ archive # None /\ (InFlight(st) \/ pc \in Covered) => Sound(archive)
        /\ ~Edited => Sound(tree)

RepairInv ==
    /\ TypeOK /\ SnapshotOfRepair /\ NoNewerVersion /\ Published /\ GateSeen
    /\ RecordTells /\ Undoable

-----------------------------------------------------------------------------
(* Types *)

LEMMA RecordsTyped ==
    ASSUME TypeOK
    PROVE  /\ Persisted \in Recovery
           /\ \A status \in {"FAILED", "REPAIRING", "VERIFYING", "COMMITTED"} :
                 Progress(status) \in State
           /\ \A recovery \in Recovery : Stopped(recovery) \in State
           /\ Settled(st) \in State
           /\ \A code \in BOOLEAN : NextRecovery(code) \in Recovery
           /\ NoJob \in Job /\ NoRecovery \in Recovery /\ IdleRecovery \in Recovery
           /\ InitialState \in State
<1>1. st \in State /\ job \in Job /\ tree \in Content
  BY DEF TypeOK
<1>2. NoRecovery \in Recovery /\ IdleRecovery \in Recovery
  BY DEF NoRecovery, IdleRecovery, Recovery, Action, Commit
<1>3. Persisted \in Recovery
  BY <1>1 DEF Persisted, State, Job
<1>4. NoJob \in Job
  BY <1>2, RepairAssumption DEF NoJob, Job, Commit, Content, Version
<1>5. InitialState \in State
  BY <1>2 DEF InitialState, State, Action
<1>6. Settled(st) \in State
  BY <1>1, <1>2 DEF Settled, State
<1>7. \A code \in BOOLEAN : NextRecovery(code) \in Recovery
  <2>1. st.recovery \in Recovery /\ st.action \in Action
    BY <1>1 DEF State
  <2>2. st.recovery.attempts \in Nat
    BY <2>1 DEF Recovery
  <2>3. \A code \in BOOLEAN, task \in Action, n \in Nat :
          [NoRecovery EXCEPT !.status = "FAILED", !.code = code, !.task = task,
                             !.attempts = n] \in Recovery
    BY <1>2 DEF Recovery
  <2>4. st.recovery.attempts + 1 \in Nat /\ 1 \in Nat
    BY <2>2
  <2>5. QED
    BY <2>1, <2>3, <2>4 DEF NextRecovery
<1>8. \A recovery \in Recovery : Stopped(recovery) \in State
  BY <1>1 DEF Stopped, State, Action
<1>9. \A status \in {"FAILED", "REPAIRING", "VERIFYING", "COMMITTED"} :
          Progress(status) \in State
  <2>1. \A status \in {"FAILED", "REPAIRING", "VERIFYING", "COMMITTED"} :
            [Persisted EXCEPT !.status = status] \in Recovery
    BY <1>3 DEF Recovery
  <2>2. QED
    BY <1>1, <2>1 DEF Progress, State
<1>10. QED
  BY <1>2, <1>3, <1>4, <1>5, <1>6, <1>7, <1>8, <1>9

LEMMA ProgressFields ==
    ASSUME TypeOK
    PROVE  \A status \in {"FAILED", "REPAIRING", "VERIFYING", "COMMITTED"} :
              /\ Progress(status) \in State
              /\ Progress(status).lastGood = st.lastGood
              /\ Progress(status).action = st.action
              /\ Progress(status).recovery \in Recovery
              /\ Progress(status).recovery.status = status
              /\ Progress(status).recovery.snapshot = Persisted.snapshot
<1> TAKE status \in {"FAILED", "REPAIRING", "VERIFYING", "COMMITTED"}
<1>1. Progress(status) \in State /\ Persisted \in Recovery /\ st \in State
  BY RecordsTyped DEF TypeOK
<1>2. Progress(status).recovery = [Persisted EXCEPT !.status = status]
  BY <1>1 DEF Progress, State
<1>3. /\ Progress(status).recovery.status = status
      /\ Progress(status).recovery.snapshot = Persisted.snapshot
  BY <1>1, <1>2 DEF Recovery
<1>4. Progress(status).lastGood = st.lastGood /\ Progress(status).action = st.action
  BY <1>1 DEF Progress, State
<1>5. QED
  BY <1>1, <1>3, <1>4 DEF State

LEMMA RecoveryUpdatesTyped ==
    ASSUME NEW s \in State, NEW commit \in Commit, NEW pushed \in BOOLEAN
    PROVE  /\ [s EXCEPT !.recovery.snapshot = TRUE] \in State
           /\ [s EXCEPT !.recovery.commit = commit] \in State
           /\ [s EXCEPT !.recovery.commit = commit, !.recovery.pushed = pushed] \in State
<1>1. s.recovery \in Recovery
  BY DEF State
<1>2. /\ [s.recovery EXCEPT !.snapshot = TRUE] \in Recovery
      /\ [s.recovery EXCEPT !.commit = commit] \in Recovery
      /\ [s.recovery EXCEPT !.commit = commit, !.pushed = pushed] \in Recovery
  BY <1>1 DEF Recovery
<1>3. QED
  BY <1>1, <1>2 DEF State, Recovery

\* TypeOK needs to know that undo finds a snapshot and adopt a commit.
LEMMA ReconcileTyped ==
    ASSUME TypeOK, SnapshotOfRepair,
           \/ NothingToReconcile \/ PushCommitted \/ AdoptCommit \/ CommittedUnusable
           \/ RestoreInterrupted \/ RecordRestored \/ InterruptedUnusable
    PROVE  TypeOK'
<1> USE RecordsTyped DEF RuntimePc, RepairPc, source, client
<1>1. CASE NothingToReconcile
  BY <1>1 DEF NothingToReconcile, TypeOK
<1>2. CASE PushCommitted
  BY <1>2 DEF PushCommitted, Adopt, TypeOK, State, Recovery, Job
<1>3. CASE AdoptCommit
  BY <1>3 DEF AdoptCommit, TypeOK, State, Job, SnapshotOfRepair, Commit
<1>4. CASE CommittedUnusable
  BY <1>4 DEF CommittedUnusable, Spend, TypeOK, State, Recovery
<1>5. CASE RestoreInterrupted
  BY <1>5 DEF RestoreInterrupted, Restore, TypeOK, State, Job
<1>6. CASE RecordRestored
  <2>1. job.found \in Recovery /\ st \in State
    BY DEF TypeOK, Job
  <2>2. \A n \in Nat :
          [job.found EXCEPT !.status = "FAILED", !.attempts = n,
                            !.ready = TRUE, !.snapshot = FALSE] \in Recovery
    BY <2>1 DEF Recovery
  <2>3. job.found.attempts + 1 \in Nat
    BY <2>1 DEF Recovery
  <2> DEFINE recovery == [job.found EXCEPT !.status = "FAILED",
                              !.attempts = job.found.attempts + 1,
                              !.ready = TRUE, !.snapshot = FALSE]
  <2>4. recovery \in Recovery
    BY <2>2, <2>3
  <2>5. \/ st' = Stopped(recovery)
        \/ st' = [st EXCEPT !.status = "RUNNING", !.recovery = recovery]
    BY <1>6 DEF RecordRestored
  <2> HIDE DEF recovery
  <2>6. /\ Stopped(recovery) \in State
        /\ [st EXCEPT !.status = "RUNNING", !.recovery = recovery] \in State
    <3>1. Stopped(recovery) \in State
      BY <2>1, <2>4 DEF State, Stopped, Action
    <3>2. [st EXCEPT !.status = "RUNNING", !.recovery = recovery] \in State
      BY <2>1, <2>4 DEF State
    <3>3. QED
      BY <3>1, <3>2
  <2>7. st' \in State
    BY <2>5, <2>6
  <2>8. QED
    BY <1>6, <2>7 DEF RecordRestored, TypeOK
<1>7. CASE InterruptedUnusable
  BY <1>7 DEF InterruptedUnusable, RestoreHalf, Spend, TypeOK, State, Recovery, Content
<1>8. QED
  BY <1>1, <1>2, <1>3, <1>4, <1>5, <1>6, <1>7

LEMMA RoundTyped ==
    ASSUME TypeOK,
           \/ Acquire \/ AcquireRejected \/ Release \/ Wake
           \/ ResumeRepair \/ NothingToDo \/ BeginAction
           \/ ActionSucceeds \/ ActionFails \/ ActionNeedsRepair
    PROVE  TypeOK'
<1> USE RecordsTyped DEF RuntimePc, RepairPc, source, client
<1>1. CASE Acquire \/ AcquireRejected \/ Release \/ Wake \/ BeginAction
  BY <1>1 DEF Acquire, AcquireRejected, Release, Wake, BeginAction, TypeOK
<1>2. CASE ResumeRepair
  <2> DEFINE recovery == IF st.recovery.ready
                         THEN [st.recovery EXCEPT !.ready = FALSE]
                         ELSE [st.recovery EXCEPT !.attempts = @ + 1]
  <2>1. st \in State /\ job \in Job /\ st.recovery \in Recovery /\ st.lastGood \in Nat
    BY DEF TypeOK, State
  <2>2. recovery \in Recovery
    <3>1. [st.recovery EXCEPT !.ready = FALSE] \in Recovery
      BY <2>1 DEF Recovery
    <3>2. [st.recovery EXCEPT !.attempts = @ + 1] \in Recovery
      BY <2>1 DEF Recovery
    <3>3. QED
      BY <3>1, <3>2
  <2> HIDE DEF recovery
  <2>3. Stopped(recovery) \in State
    BY <2>2
  <2>4. [st EXCEPT !.status = "RUNNING", !.retry = FALSE, !.recovery = recovery] \in State
    BY <2>1, <2>2 DEF State
  <2>5. [NoJob EXCEPT !.found = recovery, !.lastGood = st.lastGood] \in Job
    BY <2>1, <2>2 DEF Job
  <2>6. /\ st' \in State /\ job' \in Job /\ pc' \in {"goSleep", "goExit", "repair"}
        /\ UNCHANGED <<locked, source, client, spent>>
    BY <1>2, <2>1, <2>3, <2>4, <2>5 DEF ResumeRepair, BeginRepair, Return, recovery
  <2>7. QED
    BY <2>6 DEF TypeOK
<1>3. CASE NothingToDo
  BY <1>3 DEF NothingToDo, Return, TypeOK
<1>4. CASE ActionSucceeds
  <2>1. st \in State
    BY DEF TypeOK
  <2>2. \A s \in State : Settled(s) \in State
    BY DEF Settled, State
  <2>3. /\ [st EXCEPT !.status = "RUNNING", !.action = "EXECUTE"] \in State
        /\ [st EXCEPT !.status = "COMPLETED", !.action = "IDLE"] \in State
    BY <2>1 DEF State, Action
  <2>4. /\ st' \in State /\ pc' \in {"goSleep", "goExit", "round"}
        /\ UNCHANGED <<job, locked, source, client, spent>>
    BY <1>4, <2>2, <2>3 DEF ActionSucceeds, Return
  <2>5. QED
    BY <2>4 DEF TypeOK
<1>5. CASE ActionFails
  <2> DEFINE recovery == NextRecovery(FALSE)
  <2>1. st \in State /\ recovery \in Recovery
    BY DEF TypeOK
  <2> HIDE DEF recovery
  <2>2. Stopped(recovery) \in State
    BY <2>1
  <2>3. [st EXCEPT !.retry = TRUE, !.recovery = recovery] \in State
    BY <2>1 DEF State
  <2>4. /\ st' \in State /\ pc' \in {"goSleep", "goExit"}
        /\ spent' = [spent EXCEPT !["failures"] = @ + 1]
        /\ UNCHANGED <<job, locked, source, client>>
    BY <1>5, <2>2, <2>3 DEF ActionFails, Spend, Return, recovery
  <2>5. QED
    BY <2>4 DEF TypeOK
<1>6. CASE ActionNeedsRepair
  <2>1. NextRecovery(TRUE) \in Recovery /\ st.lastGood \in Nat
    BY DEF TypeOK, State
  <2>2. [NoJob EXCEPT !.found = NextRecovery(TRUE), !.lastGood = st.lastGood] \in Job
    BY <2>1 DEF Job
  <2>3. QED
    BY <1>6, <2>2 DEF ActionNeedsRepair, BeginRepair, Spend, TypeOK
<1>7. QED
  BY <1>1, <1>2, <1>3, <1>4, <1>5, <1>6

LEMMA EditingTyped ==
    ASSUME TypeOK, SnapshotOfRepair,
           \/ RepairSkipped \/ OpenRepair \/ ReportRepairing
           \/ AgentEdits \/ AgentCompletes \/ AgentFails
           \/ VerificationPasses \/ VerificationFails \/ ListChanged \/ DirtyPathTouched
           \/ ReplaySucceeds \/ ReplayFails
           \/ UndoRepair \/ ReportUndone
    PROVE  TypeOK'
<1> USE RecordsTyped DEF RuntimePc, RepairPc, source, client
<1>1. CASE RepairSkipped \/ AgentFails \/ VerificationFails \/ DirtyPathTouched \/ ReplayFails
  BY <1>1 DEF RepairSkipped, AgentFails, VerificationFails, DirtyPathTouched, ReplayFails,
              Undo, TypeOK
<1>2. CASE OpenRepair
  BY <1>2 DEF OpenRepair, TypeOK, Job
<1>3. CASE ReportRepairing
  BY <1>3, RecoveryUpdatesTyped DEF ReportRepairing, TypeOK, Commit
<1>4. CASE AgentEdits
  BY <1>4, RepairAssumption DEF AgentEdits, TypeOK, Content, Version
<1>5. CASE AgentCompletes
  BY <1>5 DEF AgentCompletes, TypeOK
<1>6. CASE VerificationPasses
  BY <1>6 DEF VerificationPasses, TypeOK, Content
<1>7. CASE ReplaySucceeds
  <2>1. st' \in State
    BY <1>7 DEF ReplaySucceeds, TypeOK, State, Action
  <2>2. QED
    BY <1>7, <2>1 DEF ReplaySucceeds, TypeOK
<1>8. CASE UndoRepair
  BY <1>8 DEF UndoRepair, Restore, RestoreHalf, Spend, TypeOK, Job, Content, SnapshotOfRepair,
              Covered
<1>9. CASE ReportUndone
  BY <1>9 DEF ReportUndone, TypeOK
<1>10. CASE ListChanged
  BY <1>10 DEF ListChanged, Changed, TypeOK, Job
<1>11. QED
  BY <1>1, <1>2, <1>3, <1>4, <1>5, <1>6, <1>7, <1>8, <1>9, <1>10

LEMMA ClosingTyped ==
    ASSUME TypeOK,
           \/ NothingToCommit \/ CommitRepair \/ CommitFails \/ ReportCommitted
           \/ PushRepair \/ PushFails \/ ReportPushed \/ CloseRepair
           \/ RepairFailed \/ StopForGit
    PROVE  TypeOK'
<1> USE RecordsTyped DEF RuntimePc, RepairPc, source, client
<1>1. CASE NothingToCommit
  BY <1>1 DEF NothingToCommit, TypeOK
<1>2. CASE CommitRepair
  BY <1>2 DEF CommitRepair, TypeOK, Job, Content, Commit
<1>3. CASE CommitFails
  BY <1>3 DEF CommitFails, Spend, TypeOK
<1>4. CASE ReportCommitted
  <2>1. job.commit \in Commit
    BY DEF TypeOK, Job
  <2>2. QED
    BY <1>4, <2>1, RecoveryUpdatesTyped DEF ReportCommitted, TypeOK
<1>5. CASE PushRepair
  BY <1>5 DEF PushRepair, TypeOK
<1>6. CASE PushFails
  BY <1>6 DEF PushFails, Spend, TypeOK, State, Recovery, Job
<1>7. CASE ReportPushed
  <2>1. job.commit \in Commit
    BY DEF TypeOK, Job
  <2>2. QED
    BY <1>7, <2>1, RecoveryUpdatesTyped DEF ReportPushed, TypeOK
<1>8. CASE CloseRepair
  <2>1. st \in State /\ job.commit \in Commit
    BY DEF TypeOK, Job
  <2>2. \A good \in Nat :
          [st EXCEPT !.status = "RUNNING", !.retry = FALSE, !.recovery = IdleRecovery,
                     !.lastGood = good] \in State
    BY <2>1 DEF State
  <2>3. (IF job.commit = None THEN st.lastGood ELSE job.commit) \in Nat
    BY <2>1 DEF State, Commit
  <2>4. st' \in State
    BY <1>8, <2>2, <2>3 DEF CloseRepair
  <2>5. QED
    BY <1>8, <2>4 DEF CloseRepair, Return, TypeOK
<1>9. CASE RepairFailed
  <2>1. st \in State /\ Persisted \in Recovery
    BY DEF TypeOK
  <2>2. [Persisted EXCEPT !.status = "FAILED"] \in Recovery
    BY <2>1 DEF Recovery
  <2>3. st' \in State
    BY <1>9, <2>1, <2>2 DEF RepairFailed, State
  <2>4. QED
    BY <1>9, <2>3 DEF RepairFailed, Return, TypeOK
<1>10. CASE StopForGit
  BY <1>10 DEF StopForGit, Return, TypeOK
<1>11. QED
  BY <1>1, <1>2, <1>3, <1>4, <1>5, <1>6, <1>7, <1>8, <1>9, <1>10

Others ==
    \/ UserEdits
    \/ Pause \/ Stop \/ Resume \/ ResumeUnpaused \/ CommandWrite
    \/ InspectRestarts \/ Crash \/ RemoveStaleLock

LEMMA OthersTyped ==
    ASSUME TypeOK, Others
    PROVE  TypeOK'
<1> USE RecordsTyped DEF RuntimePc, RepairPc, source, client
<1>1. CASE UserEdits
  <2>1. UnderRepair \in BOOLEAN
    BY DEF UnderRepair, InFlight
  <2>2. PICK f \in Files :
          /\ tree' = [tree EXCEPT ![f] = edits + 1]
          /\ users' = users \cup {<<f, edits + 1, UnderRepair>>}
          /\ mine' = [mine EXCEPT ![f] = IF UnderRepair THEN 0 ELSE edits + 1]
    BY <1>1 DEF UserEdits
  <2>3. /\ edits < MaxEdits /\ edits' = edits + 1
        /\ UNCHANGED <<st, pc, job, locked, head, commits, remote, archive, verified,
                       client, spent>>
    BY <1>1 DEF UserEdits
  <2>4. edits + 1 \in Version /\ 0 \in Version
    BY <2>3, RepairAssumption DEF TypeOK, Version
  <2>5. tree' \in Content /\ mine' \in Content
    BY <2>2, <2>4 DEF TypeOK, Content
  <2>6. users' \subseteq Files \X Version \X BOOLEAN
    BY <2>1, <2>2, <2>4 DEF TypeOK
  <2>7. QED
    BY <2>3, <2>4, <2>5, <2>6 DEF TypeOK
<1>2. CASE Pause \/ Stop \/ Resume
  <2>1. \A status \in {"PAUSED", "STOPPED", "RUNNING"}, action \in {"IDLE", "PREVIEW"} :
          [st EXCEPT !.status = status, !.action = action, !.retry = FALSE] \in State
    BY DEF TypeOK, State, Action
  <2>2. QED
    BY <1>2, <2>1 DEF Pause, Stop, Resume, Command, Spend, TypeOK
<1>3. CASE ResumeUnpaused
  BY <1>3 DEF ResumeUnpaused, Spend, TypeOK
<1>4. CASE CommandWrite \/ InspectRestarts \/ RemoveStaleLock
  BY <1>4 DEF CommandWrite, InspectRestarts, RemoveStaleLock, TypeOK
<1>5. CASE Crash
  BY <1>5 DEF Crash, Spend, TypeOK
<1>6. QED
  BY <1>1, <1>2, <1>3, <1>4, <1>5 DEF Others

-----------------------------------------------------------------------------
(* The snapshot and the versions *)

\* Steps that leave job, files and snapshot as they are.
FilesKept == UNCHANGED <<tree, head, archive, edits, mine, job>>

LEMMA SnapshotKept ==
    ASSUME TypeOK, SnapshotOfRepair, NoNewerVersion, Next
    PROVE  SnapshotOfRepair'
<1> USE DEF RepairPc, Covered, source, client
<1>1. CASE NothingToReconcile \/ CommittedUnusable \/ RestoreInterrupted \/ RecordRestored
           \/ InterruptedUnusable \/ PushCommitted \/ AdoptCommit
  <2>1. /\ pc' \in {"acquire", "restored", "adopt"}
        /\ job'.found.status # "COMMITTED"
    BY <1>1 DEF NothingToReconcile, CommittedUnusable, RestoreInterrupted, RecordRestored,
                InterruptedUnusable, PushCommitted, AdoptCommit, Adopt, InFlight, NoJob,
                NoRecovery, SnapshotOfRepair
  <2>2. pc' = "adopt" => job'.commit # None
    BY <1>1 DEF NothingToReconcile, CommittedUnusable, RestoreInterrupted, RecordRestored,
                InterruptedUnusable, PushCommitted, AdoptCommit, Adopt, NoJob
  <2>3. QED
    BY <2>1, <2>2 DEF SnapshotOfRepair
<1>2. CASE Acquire \/ AcquireRejected \/ Release \/ Wake \/ NothingToDo \/ BeginAction
           \/ ActionSucceeds \/ ActionFails
  <2>1. pc' \in {"off", "sleep", "acquire", "act", "round", "goSleep", "goExit"}
    BY <1>2 DEF Acquire, AcquireRejected, Release, Wake, NothingToDo, BeginAction,
                ActionSucceeds, ActionFails, Return
  <2>2. job' \in {job, NoJob}
    BY <1>2 DEF Acquire, AcquireRejected, Release, Wake, NothingToDo, BeginAction,
                ActionSucceeds, ActionFails
  <2>3. QED
    BY <2>1, <2>2 DEF SnapshotOfRepair, NoJob, NoRecovery
<1>3. CASE ResumeRepair
  <2> DEFINE recovery == IF st.recovery.ready
                         THEN [st.recovery EXCEPT !.ready = FALSE]
                         ELSE [st.recovery EXCEPT !.attempts = @ + 1]
  <2>1. st.recovery \in Recovery /\ st.recovery.status = "FAILED"
    BY <1>3 DEF ResumeRepair, Pending, TypeOK, State
  <2>2. recovery.status = "FAILED"
    BY <2>1 DEF Recovery
  <2> HIDE DEF recovery
  <2>3. \/ job' = job /\ pc' \in {"goSleep", "goExit"}
        \/ pc' = "repair" /\ job' = [NoJob EXCEPT !.found = recovery, !.lastGood = st.lastGood]
    BY <1>3 DEF ResumeRepair, BeginRepair, Return, recovery
  <2>4. QED
    BY <2>2, <2>3 DEF SnapshotOfRepair, NoJob
<1>4. CASE ActionNeedsRepair
  <2>1. pc' = "repair" /\ job'.found.status = "FAILED"
    BY <1>4 DEF ActionNeedsRepair, BeginRepair, NextRecovery, NoRecovery, NoJob
  <2>2. QED
    BY <2>1 DEF SnapshotOfRepair
<1>5. CASE OpenRepair
  BY <1>5 DEF OpenRepair, SnapshotOfRepair, TypeOK, Job
<1>6. CASE AgentEdits
  BY <1>6 DEF AgentEdits, SnapshotOfRepair, NoNewerVersion, TypeOK, Content, Version
<1>7. CASE RepairSkipped \/ ReportRepairing \/ AgentCompletes \/ AgentFails
           \/ VerificationPasses \/ VerificationFails \/ DirtyPathTouched \/ ReplaySucceeds
           \/ ReplayFails
  BY <1>7 DEF RepairSkipped, ReportRepairing, AgentCompletes, AgentFails, Undo,
              VerificationPasses, VerificationFails, DirtyPathTouched, ReplaySucceeds,
              ReplayFails, SnapshotOfRepair
<1>8. CASE CommitRepair
  BY <1>8 DEF CommitRepair, SnapshotOfRepair, TypeOK, Job
<1>9. CASE NothingToCommit \/ CommitFails \/ ReportCommitted \/ PushRepair \/ PushFails
           \/ ReportPushed \/ UndoRepair \/ ReportUndone \/ RepairFailed \/ StopForGit
  BY <1>9 DEF NothingToCommit, CommitFails, ReportCommitted, PushRepair, PushFails,
              ReportPushed, UndoRepair, ReportUndone, RepairFailed, StopForGit, Return,
              SnapshotOfRepair
<1>10. CASE CloseRepair \/ Crash
  BY <1>10 DEF CloseRepair, Crash, Return, NoJob, NoRecovery, SnapshotOfRepair
<1>11. CASE UserEdits
  <2>1. PICK f \in Files :
          /\ tree' = [tree EXCEPT ![f] = edits + 1]
          /\ mine' = [mine EXCEPT ![f] = IF UnderRepair THEN 0 ELSE edits + 1]
    BY <1>11 DEF UserEdits
  <2>2. UNCHANGED <<pc, job, archive>> /\ tree \in Content /\ mine \in Content
    BY <1>11 DEF UserEdits, TypeOK
  <2>3. CASE pc \in RepairPc
    <3>1. \A g \in Files : mine'[g] # 0 => mine'[g] = mine[g] /\ tree'[g] = tree[g]
      BY <2>1, <2>2, <2>3 DEF UnderRepair, Content
    <3>2. QED
      BY <2>2, <3>1 DEF SnapshotOfRepair, TypeOK, Job
  <2>4. CASE pc \notin RepairPc
    BY <2>2, <2>4 DEF SnapshotOfRepair
  <2>5. QED
    BY <2>3, <2>4
<1>12. CASE Pause \/ Stop \/ Resume \/ ResumeUnpaused \/ CommandWrite \/ InspectRestarts
            \/ RemoveStaleLock
  BY <1>12 DEF Pause, Stop, Resume, Command, ResumeUnpaused, CommandWrite, InspectRestarts,
               RemoveStaleLock, SnapshotOfRepair
<1>13. CASE ListChanged
  <2>1. /\ job' = [job EXCEPT !.changed = Changed] /\ pc = "gated" /\ pc' = "replay"
        /\ UNCHANGED <<tree, archive, mine>>
    BY <1>13 DEF ListChanged
  <2>2. \A f \in Changed : mine[f] # 0 => tree[f] # mine[f]
    BY <2>1 DEF SnapshotOfRepair, Changed
  <2>3. QED
    BY <2>1, <2>2 DEF SnapshotOfRepair, TypeOK, Job
<1>14. QED
  BY <1>1, <1>2, <1>3, <1>4, <1>5, <1>6, <1>7, <1>8, <1>9, <1>10, <1>11, <1>12, <1>13
     DEF Next, Runtime

LEMMA VersionsKept ==
    ASSUME TypeOK, SnapshotOfRepair, NoNewerVersion, Next
    PROVE  NoNewerVersion'
<1> USE DEF source, client
<1>1. CASE NothingToReconcile \/ CommittedUnusable \/ Acquire \/ AcquireRejected \/ Wake
           \/ NothingToDo \/ BeginAction \/ ActionSucceeds \/ ActionFails \/ RepairSkipped
           \/ ReportRepairing \/ AgentCompletes \/ AgentFails \/ VerificationPasses
           \/ VerificationFails \/ DirtyPathTouched \/ ReplaySucceeds \/ ReplayFails
           \/ NothingToCommit
           \/ CommitFails \/ ReportCommitted \/ PushRepair \/ PushFails \/ ReportPushed
           \/ ReportUndone \/ RepairFailed \/ StopForGit \/ Pause \/ Stop \/ Resume
           \/ ResumeUnpaused \/ CommandWrite \/ InspectRestarts \/ RemoveStaleLock
  <2>1. FilesKept
    BY <1>1
       DEF NothingToReconcile, CommittedUnusable, Acquire, AcquireRejected, Wake,
           NothingToDo, BeginAction, ActionSucceeds, ActionFails, RepairSkipped,
           ReportRepairing, AgentCompletes, AgentFails, Undo, VerificationPasses,
           VerificationFails, DirtyPathTouched, ReplaySucceeds, ReplayFails,
           NothingToCommit, CommitFails, ReportCommitted, PushRepair, PushFails, ReportPushed, ReportUndone,
           RepairFailed, StopForGit, Pause, Stop, Resume, Command, ResumeUnpaused,
           CommandWrite, InspectRestarts, RemoveStaleLock, FilesKept
  <2>2. QED
    BY <2>1 DEF FilesKept, NoNewerVersion
<1>2. CASE \/ PushCommitted \/ RecordRestored \/ Release \/ ResumeRepair \/ ActionNeedsRepair
           \/ Crash \/ AdoptCommit \/ CloseRepair
  <2>1. UNCHANGED <<tree, head, edits, mine>> /\ archive' \in {archive, None}
    BY <1>2 DEF PushCommitted, Adopt, RecordRestored, Release, ResumeRepair, BeginRepair,
                ActionNeedsRepair, Crash, AdoptCommit, CloseRepair
  <2>2. job' = job \/ job'.before = NoJob.before
    BY <1>2 DEF PushCommitted, Adopt, RecordRestored, Release, ResumeRepair, BeginRepair,
                ActionNeedsRepair, Crash, AdoptCommit, CloseRepair, NoJob
  <2>3. edits \in Nat /\ \A f \in Files : NoJob.before[f] = 0
    BY RepairAssumption DEF TypeOK, Version, NoJob
  <2>4. QED
    BY <2>1, <2>2, <2>3 DEF NoNewerVersion
<1>3. CASE RestoreInterrupted \/ InterruptedUnusable
  BY <1>3, RepairAssumption
     DEF RestoreInterrupted, InterruptedUnusable, Restore, RestoreHalf, NoJob,
         NoNewerVersion, TypeOK, Version, Content
<1>4. CASE UndoRepair
  BY <1>4, RepairAssumption
     DEF UndoRepair, Restore, RestoreHalf, SnapshotOfRepair, Covered, NoNewerVersion,
         TypeOK, Job, Content
<1>5. CASE OpenRepair
  BY <1>5 DEF OpenRepair, NoNewerVersion, TypeOK, Job
<1>6. CASE CommitRepair \/ ListChanged
  BY <1>6 DEF CommitRepair, ListChanged, NoNewerVersion, TypeOK, Job
<1>7. CASE AgentEdits \/ UserEdits
  BY <1>7, RepairAssumption
     DEF AgentEdits, UserEdits, NoNewerVersion, TypeOK, Content, Version, Job
<1>8. QED
  BY <1>1, <1>2, <1>3, <1>4, <1>5, <1>6, <1>7 DEF Next, Runtime

-----------------------------------------------------------------------------
(* What is published *)

\* Nothing is called COMMITTED by the Runtime but the repair under way.
LEMMA NotCommitted ==
    ASSUME TypeOK, SnapshotOfRepair
    PROVE  /\ st.recovery.status # "COMMITTED" => Persisted.status # "COMMITTED"
           /\ ClaimsPublished(st.recovery) => ClaimsPublished(Persisted)
           /\ \A status \in {"FAILED", "REPAIRING", "VERIFYING"} :
                 ClaimsPublished([Persisted EXCEPT !.status = status])
           /\ ClaimsPublished(NoRecovery) /\ ClaimsPublished(IdleRecovery)
BY RecordsTyped DEF Persisted, SnapshotOfRepair, ClaimsPublished, NoRecovery, IdleRecovery,
                    Recovery

\* A write of state.json by the Runtime that neither commits nor pushes.
LEMMA WriteKeepsPublished ==
    ASSUME TypeOK, Published,
           UNCHANGED <<commits, remote, draft>>,
           st'.lastGood = st.lastGood,
           ClaimsPublished(st'.recovery),
           job'.commit \in {job.commit, None},
           pc' \in {"pushed", "close", "adopt"} => job'.commit = None
    PROVE  Published'
BY DEF Published, ClaimsPublished

LEMMA PublishedKept ==
    ASSUME TypeOK, SnapshotOfRepair, Published, Next
    PROVE  Published'
<1> USE DEF source, client
<1>1. CASE \/ NothingToReconcile \/ Acquire \/ AcquireRejected \/ Release \/ Wake
           \/ BeginAction \/ RepairSkipped \/ OpenRepair \/ AgentEdits \/ AgentFails
           \/ VerificationPasses \/ VerificationFails \/ ListChanged \/ DirtyPathTouched
           \/ ReplayFails \/ NothingToCommit
           \/ UndoRepair \/ UserEdits \/ InspectRestarts \/ RemoveStaleLock
           \/ ResumeUnpaused \/ Crash \/ RestoreInterrupted
  <2>1. commits' = commits /\ remote' = remote /\ st' = st /\ draft' = draft
    BY <1>1 DEF NothingToReconcile, Acquire, AcquireRejected, Release, Wake, BeginAction,
                RepairSkipped, OpenRepair, AgentEdits, AgentFails, Undo, VerificationPasses,
                VerificationFails, ListChanged, DirtyPathTouched, ReplayFails,
                NothingToCommit, UndoRepair, Restore,
                RestoreHalf, UserEdits, InspectRestarts, RemoveStaleLock, ResumeUnpaused,
                Crash, RestoreInterrupted
  <2>2. pc' \notin {"pushed", "close", "adopt"} \/ pc' = pc
    BY <1>1 DEF NothingToReconcile, Acquire, AcquireRejected, Release, Wake, BeginAction,
                RepairSkipped, OpenRepair, AgentEdits, AgentFails, Undo, VerificationPasses,
                VerificationFails, ListChanged, DirtyPathTouched, ReplayFails,
                NothingToCommit, UndoRepair, UserEdits,
                InspectRestarts, RemoveStaleLock, ResumeUnpaused, Crash, RestoreInterrupted
  <2>3. job'.commit \in {job.commit, None}
    <3>1. CASE Release \/ Crash \/ RestoreInterrupted
      BY <3>1 DEF Release, Crash, RestoreInterrupted, NoJob
    <3>2. CASE OpenRepair \/ ListChanged
      BY <3>2 DEF OpenRepair, ListChanged, TypeOK, Job
    <3>3. CASE ~(Release \/ Crash \/ RestoreInterrupted \/ OpenRepair \/ ListChanged)
      BY <1>1, <3>3
         DEF NothingToReconcile, Acquire, AcquireRejected, Wake, BeginAction, RepairSkipped,
             AgentEdits, AgentFails, Undo, VerificationPasses, VerificationFails,
             DirtyPathTouched, ReplayFails, NothingToCommit, UndoRepair, UserEdits, InspectRestarts,
             RemoveStaleLock, ResumeUnpaused
    <3>4. QED
      BY <3>1, <3>2, <3>3
  <2>4. QED
    BY <2>1, <2>2, <2>3 DEF Published, ClaimsPublished
<1>2. CASE CommittedUnusable \/ InterruptedUnusable
  <2>1. /\ UNCHANGED <<commits, remote, draft, job>> /\ pc' = "acquire"
        /\ st' = Stopped([st.recovery EXCEPT !.status = "FAILED"])
    BY <1>2 DEF CommittedUnusable, InterruptedUnusable, RestoreHalf
  <2>2. st.recovery \in Recovery /\ st \in State
    BY DEF TypeOK, State
  <2>3. st'.lastGood = st.lastGood /\ ClaimsPublished(st'.recovery)
    BY <2>1, <2>2 DEF Stopped, ClaimsPublished, State, Recovery
  <2>4. QED
    BY <2>1, <2>3, WriteKeepsPublished
<1>3. CASE RecordRestored
  <2>1. job.found \in Recovery /\ st \in State
    BY DEF TypeOK, Job
  <2>2. \A n : [job.found EXCEPT !.status = "FAILED", !.attempts = n,
                                 !.ready = TRUE, !.snapshot = FALSE].status = "FAILED"
    BY <2>1 DEF Recovery
  <2>3. st'.lastGood = st.lastGood /\ st'.recovery.status = "FAILED"
    BY <1>3, <2>1, <2>2 DEF RecordRestored, Stopped, State
  <2>4. QED
    BY <1>3, <2>3, WriteKeepsPublished DEF RecordRestored, NoJob, ClaimsPublished
<1>4. CASE ResumeRepair
  <2> DEFINE recovery == IF st.recovery.ready
                         THEN [st.recovery EXCEPT !.ready = FALSE]
                         ELSE [st.recovery EXCEPT !.attempts = @ + 1]
  <2>1. st.recovery \in Recovery /\ st.recovery.status = "FAILED" /\ st \in State
    BY <1>4 DEF ResumeRepair, Pending, TypeOK, State
  <2>2. recovery.status = "FAILED"
    BY <2>1 DEF Recovery
  <2>3. /\ UNCHANGED <<commits, remote, draft>>
        /\ \/ job' = job /\ pc' \in {"goSleep", "goExit"} /\ st' = Stopped(recovery)
           \/ /\ job' = [NoJob EXCEPT !.found = recovery, !.lastGood = st.lastGood]
              /\ pc' = "repair"
              /\ st' = [st EXCEPT !.status = "RUNNING", !.retry = FALSE, !.recovery = recovery]
    BY <1>4 DEF ResumeRepair, BeginRepair, Return, recovery
  <2> HIDE DEF recovery
  <2>4. st'.lastGood = st.lastGood /\ st'.recovery = recovery
    BY <2>1, <2>3 DEF Stopped, State
  <2>5. job'.commit \in {job.commit, None} /\ pc' \notin {"pushed", "close", "adopt"}
    BY <2>3 DEF NoJob
  <2>6. QED
    BY <2>2, <2>3, <2>4, <2>5, WriteKeepsPublished DEF ClaimsPublished
<1>5. CASE NothingToDo \/ ActionSucceeds
  <2>1. \A s \in State : s.recovery = st.recovery /\ s.lastGood = st.lastGood =>
            /\ Settled(s).lastGood = st.lastGood
            /\ Settled(s).recovery \in {st.recovery, IdleRecovery}
    BY DEF Settled, State
  <2>2. /\ [st EXCEPT !.status = "RUNNING", !.action = "EXECUTE"] \in State
        /\ [st EXCEPT !.status = "COMPLETED", !.action = "IDLE"] \in State
        /\ st \in State
    BY DEF TypeOK, State, Action
  <2>3. st'.lastGood = st.lastGood /\ st'.recovery \in {st.recovery, IdleRecovery}
    BY <1>5, <2>1, <2>2 DEF NothingToDo, ActionSucceeds, State
  <2>4. UNCHANGED <<commits, remote, draft, job>> /\ pc' \in {"goSleep", "goExit", "round"}
    BY <1>5 DEF NothingToDo, ActionSucceeds, Return
  <2>5. QED
    BY <2>3, <2>4, NotCommitted, WriteKeepsPublished DEF Published
<1>6. CASE ActionFails
  <2>1. NextRecovery(FALSE).status = "FAILED"
    BY DEF NextRecovery, NoRecovery
  <2>2. /\ UNCHANGED <<commits, remote, draft, job>> /\ pc' \in {"goSleep", "goExit"}
        /\ \/ st' = Stopped(NextRecovery(FALSE))
           \/ st' = [st EXCEPT !.retry = TRUE, !.recovery = NextRecovery(FALSE)]
    BY <1>6 DEF ActionFails, Return
  <2>3. st'.lastGood = st.lastGood /\ st'.recovery = NextRecovery(FALSE)
    BY <2>2 DEF Stopped, TypeOK, State
  <2>4. QED
    BY <2>1, <2>2, <2>3, WriteKeepsPublished DEF ClaimsPublished
<1>7. CASE ActionNeedsRepair
  <2>1. UNCHANGED <<commits, remote, draft, st>> /\ job'.commit = None /\ pc' = "repair"
    BY <1>7 DEF ActionNeedsRepair, BeginRepair, NoJob
  <2>2. QED
    BY <2>1 DEF Published, ClaimsPublished
<1>8. CASE \/ ReportRepairing \/ AgentCompletes \/ CommitFails \/ ReportCommitted \/ PushFails
           \/ ReportUndone
  <2>1. /\ UNCHANGED <<commits, remote, draft, job>>
        /\ pc' \in {"agent", "verify", "stop", "pushed", "push", "failed"}
        /\ pc' = "pushed" => job.commit = None
    BY <1>8 DEF ReportRepairing, AgentCompletes, CommitFails, ReportCommitted, PushFails,
                ReportUndone
  <2>2. \/ \E status \in {"FAILED", "REPAIRING", "VERIFYING"} :
              \/ st' = Progress(status)
              \/ st' = [Progress(status) EXCEPT !.recovery.snapshot = TRUE]
              \/ st' = [Progress(status) EXCEPT !.recovery.commit = job.commit]
        \/ st' = [Progress("COMMITTED") EXCEPT !.recovery.commit = job.commit,
                                               !.recovery.pushed = FALSE]
    BY <1>8 DEF ReportRepairing, AgentCompletes, CommitFails, ReportCommitted, PushFails,
                ReportUndone
  <2>3. \A status \in {"FAILED", "REPAIRING", "VERIFYING", "COMMITTED"} :
            /\ Progress(status).lastGood = st.lastGood
            /\ Progress(status) \in State
            /\ Progress(status).recovery \in Recovery
            /\ Progress(status).recovery.status = status
    BY ProgressFields
  <2>4. st'.lastGood = st.lastGood
    <3>1. CASE st' = [Progress("COMMITTED") EXCEPT !.recovery.commit = job.commit,
                                                   !.recovery.pushed = FALSE]
      BY <2>3, <3>1 DEF State
    <3>2. ASSUME NEW status \in {"FAILED", "REPAIRING", "VERIFYING"},
                 \/ st' = Progress(status)
                 \/ st' = [Progress(status) EXCEPT !.recovery.snapshot = TRUE]
                 \/ st' = [Progress(status) EXCEPT !.recovery.commit = job.commit]
          PROVE  st'.lastGood = st.lastGood
      BY <2>3, <3>2 DEF State
    <3>3. QED
      BY <2>2, <3>1, <3>2
  <2>5. st'.recovery.status = "COMMITTED" => ~st'.recovery.pushed
    <3>1. CASE st' = [Progress("COMMITTED") EXCEPT !.recovery.commit = job.commit,
                                                   !.recovery.pushed = FALSE]
      <4>1. \A s \in State : \A commit : s.recovery \in Recovery =>
              ~[s EXCEPT !.recovery.commit = commit,
                         !.recovery.pushed = FALSE].recovery.pushed
        BY DEF State, Recovery
      <4>2. QED
        BY <2>3, <3>1, <4>1
    <3>2. ASSUME NEW status \in {"FAILED", "REPAIRING", "VERIFYING"},
                 \/ st' = Progress(status)
                 \/ st' = [Progress(status) EXCEPT !.recovery.snapshot = TRUE]
                 \/ st' = [Progress(status) EXCEPT !.recovery.commit = job.commit]
          PROVE  st'.recovery.status = status
      BY <2>3, <3>2 DEF State, Recovery
    <3>3. QED
      BY <2>2, <3>1, <3>2
  <2>6. QED
    BY <2>1, <2>4, <2>5, WriteKeepsPublished DEF ClaimsPublished
<1>9. CASE ReplaySucceeds
  <2>1. /\ UNCHANGED <<commits, remote, draft, job>> /\ pc' = "commit"
        /\ st'.lastGood = st.lastGood /\ st'.recovery = st.recovery
    BY <1>9 DEF ReplaySucceeds, TypeOK, State
  <2>2. QED
    BY <2>1, WriteKeepsPublished DEF Published
<1>10. CASE RepairFailed \/ StopForGit
  <2>1. \/ st' = Stopped(Persisted)
        \/ st' = Stopped([Persisted EXCEPT !.status = "FAILED"])
        \/ st' = [st EXCEPT !.status = "RUNNING", !.retry = TRUE,
                            !.recovery = [Persisted EXCEPT !.status = "FAILED"]]
    BY <1>10 DEF RepairFailed, StopForGit
  <2>2. /\ st'.lastGood = st.lastGood
        /\ st'.recovery \in {Persisted, [Persisted EXCEPT !.status = "FAILED"]}
    BY <2>1 DEF Stopped, TypeOK, State
  <2>3. UNCHANGED <<commits, remote, draft, job>> /\ pc' \in {"goSleep", "goExit"}
    BY <1>10 DEF RepairFailed, StopForGit, Return
  <2>4. ClaimsPublished(st'.recovery)
    BY <2>2, NotCommitted DEF Published
  <2>5. QED
    BY <2>2, <2>3, <2>4, WriteKeepsPublished
<1>11. CASE PushCommitted
  <2>1. /\ job'.commit = st.recovery.commit /\ st.recovery.commit # None
        /\ UNCHANGED <<st, commits, draft>>
        /\ remote' = IF st.recovery.pushed THEN remote ELSE commits
        /\ st.recovery.status = "COMMITTED"
        /\ st.recovery.pushed \/ st.recovery.commit = commits
    BY <1>11 DEF PushCommitted, Adopt, NoJob
  <2>2. QED
    BY <2>1 DEF Published, ClaimsPublished, TypeOK, State, Recovery, Commit
<1>12. CASE AdoptCommit
  <2>1. /\ st'.lastGood = job.commit /\ st'.recovery = IdleRecovery /\ job'.commit = None
        /\ job.commit # None /\ pc = "adopt"
        /\ UNCHANGED <<commits, remote, draft>>
    BY <1>12 DEF AdoptCommit, NoJob, TypeOK, State, SnapshotOfRepair
  <2>2. QED
    BY <2>1, NotCommitted DEF Published, ClaimsPublished
<1>13. CASE CommitRepair
  <2>1. /\ commits' = commits + 1 /\ job'.commit = commits + 1 /\ pc' = "committed"
        /\ UNCHANGED <<st, remote, draft>>
    BY <1>13 DEF CommitRepair, TypeOK, Job
  <2>2. QED
    BY <2>1 DEF Published, ClaimsPublished, TypeOK
<1>14. CASE PushRepair
  <2>1. remote' = commits /\ UNCHANGED <<st, commits, draft, job>>
    BY <1>14 DEF PushRepair
  <2>2. QED
    BY <2>1 DEF Published, ClaimsPublished, TypeOK, State, Recovery, Commit
<1>15. CASE ReportPushed
  <2>1. Progress("COMMITTED") \in State
    BY RecordsTyped
  <2>2. /\ st'.recovery.commit = job.commit /\ st'.lastGood = st.lastGood
        /\ pc = "pushed" /\ pc' = "close" /\ UNCHANGED <<commits, remote, draft, job>>
    BY <1>15, <2>1 DEF ReportPushed, Progress, TypeOK, State, Recovery
  <2>3. QED
    BY <2>2 DEF Published, ClaimsPublished
<1>16. CASE CloseRepair
  <2>1. /\ st'.lastGood = IF job.commit = None THEN st.lastGood ELSE job.commit
        /\ st'.recovery = IdleRecovery /\ job'.commit = None /\ pc = "close"
        /\ UNCHANGED <<commits, remote, draft>>
    BY <1>16 DEF CloseRepair, NoJob, TypeOK, State
  <2>2. QED
    BY <2>1, NotCommitted DEF Published, ClaimsPublished
<1>17. CASE Pause \/ Stop \/ Resume
  <2>1. /\ draft'.lastGood = st.lastGood /\ draft'.recovery = st.recovery
        /\ UNCHANGED <<st, commits, remote, job, pc>>
    BY <1>17 DEF Pause, Stop, Resume, Command, TypeOK, State
  <2>2. QED
    BY <2>1 DEF Published, ClaimsPublished
<1>18. CASE CommandWrite
  <2>1. /\ st' = draft /\ draft' = InitialState /\ UNCHANGED <<commits, remote, job>>
        /\ pc' = pc \/ pc' = "reconcile"
    BY <1>18 DEF CommandWrite
  <2>2. QED
    BY <2>1, NotCommitted DEF Published, ClaimsPublished, InitialState, TypeOK
<1>19. QED
  BY <1>1, <1>2, <1>3, <1>4, <1>5, <1>6, <1>7, <1>8, <1>9, <1>10, <1>11, <1>12, <1>13,
     <1>14, <1>15, <1>16, <1>17, <1>18 DEF Next, Runtime

-----------------------------------------------------------------------------
(* What the gate has seen *)

LEMMA GateKept ==
    ASSUME TypeOK, SnapshotOfRepair, NoNewerVersion, GateSeen, Next
    PROVE  GateSeen'
<1> USE DEF source, client, GateSeen, CommitsVerified
<1>1. CASE \/ NothingToReconcile \/ PushCommitted \/ AdoptCommit \/ CommittedUnusable
           \/ RestoreInterrupted \/ RecordRestored \/ InterruptedUnusable
           \/ Acquire \/ AcquireRejected \/ Release \/ Wake \/ ResumeRepair \/ NothingToDo
           \/ BeginAction \/ ActionSucceeds \/ ActionFails \/ ActionNeedsRepair
  <2>1. UNCHANGED <<head, verified, users, mine>>
    BY <1>1 DEF NothingToReconcile, PushCommitted, AdoptCommit, CommittedUnusable,
                RestoreInterrupted, Restore, RecordRestored, InterruptedUnusable,
                RestoreHalf, Acquire, AcquireRejected, Release, Wake, ResumeRepair,
                NothingToDo, BeginAction, ActionSucceeds, ActionFails, ActionNeedsRepair
  <2>2. pc' \notin {"gated", "replay", "commit"}
    BY <1>1 DEF NothingToReconcile, PushCommitted, Adopt, AdoptCommit, CommittedUnusable,
                RestoreInterrupted, RecordRestored, InterruptedUnusable, Acquire,
                AcquireRejected, Release, Wake, ResumeRepair, BeginRepair, Return,
                NothingToDo, BeginAction, ActionSucceeds, ActionFails, ActionNeedsRepair
  <2>3. QED
    BY <2>1, <2>2
<1>2. CASE \/ RepairSkipped \/ OpenRepair \/ ReportRepairing \/ AgentEdits \/ AgentCompletes
           \/ AgentFails \/ VerificationFails \/ DirtyPathTouched \/ ReplayFails
           \/ NothingToCommit \/ CommitFails
           \/ ReportCommitted \/ PushRepair \/ PushFails \/ ReportPushed \/ CloseRepair
           \/ UndoRepair \/ ReportUndone \/ RepairFailed \/ StopForGit
  <2>1. UNCHANGED <<head, verified, users, mine>>
    BY <1>2 DEF RepairSkipped, OpenRepair, ReportRepairing, AgentEdits, AgentCompletes,
                AgentFails, VerificationFails, DirtyPathTouched, ReplayFails, Undo,
                NothingToCommit, CommitFails, ReportCommitted, PushRepair, PushFails, ReportPushed,
                CloseRepair, UndoRepair, Restore, RestoreHalf, ReportUndone, RepairFailed,
                StopForGit
  <2>2. pc' \notin {"gated", "replay", "commit"}
    BY <1>2 DEF RepairSkipped, OpenRepair, ReportRepairing, AgentEdits, AgentCompletes,
                AgentFails, VerificationFails, DirtyPathTouched, ReplayFails, Undo,
                NothingToCommit, CommitFails, ReportCommitted, PushRepair, PushFails, ReportPushed,
                CloseRepair, UndoRepair, ReportUndone, RepairFailed, StopForGit, Return
  <2>3. QED
    BY <2>1, <2>2
<1>3. CASE VerificationPasses
  <2>1. /\ verified' = verified \cup {<<f, tree[f]>> : f \in Files}
        /\ UNCHANGED <<head, tree, users, mine>>
    BY <1>3 DEF VerificationPasses
  <2>2. QED
    BY <2>1
<1>4. CASE ListChanged \/ ReplaySucceeds
  <2>1. pc \in {"gated", "replay"} /\ UNCHANGED <<head, tree, verified, users, mine>>
    BY <1>4 DEF ListChanged, ReplaySucceeds
  <2>2. QED
    BY <2>1
<1>5. CASE CommitRepair
  <2>1. \A f \in Files : f \in job.changed /\ mine[f] # 0 => tree[f] # mine[f]
    BY <1>5 DEF CommitRepair, SnapshotOfRepair
  <2>2. \A f \in Files : head'[f] = IF f \in job.changed THEN tree[f] ELSE head[f]
    BY <1>5 DEF CommitRepair
  <2>3. UNCHANGED <<tree, verified, users, mine>> /\ pc = "commit" /\ pc' = "committed"
    BY <1>5 DEF CommitRepair
  <2>4. QED
    BY <2>1, <2>2, <2>3
<1>6. CASE UserEdits
  <2>1. PICK f \in Files :
          /\ tree' = [tree EXCEPT ![f] = edits + 1]
          /\ users' = users \cup {<<f, edits + 1, UnderRepair>>}
          /\ mine' = [mine EXCEPT ![f] = IF UnderRepair THEN 0 ELSE edits + 1]
    BY <1>6 DEF UserEdits
  <2>2. /\ UNCHANGED <<pc, head, verified>>
        /\ tree \in Content /\ mine \in Content /\ head \in Content
    BY <1>6 DEF UserEdits, TypeOK
  <2>3. \A g \in Files : mine'[g] # 0 => mine'[g] = mine[g] \/ mine'[g] = edits + 1
    BY <2>1, <2>2 DEF Content
  <2>4. \A g \in Files : head[g] # edits + 1
    BY <2>2, RepairAssumption DEF NoNewerVersion, TypeOK, Content, Version
  <2>5. \A g \in Files : mine'[g] # 0 => head'[g] # mine'[g]
    BY <2>2, <2>3, <2>4
  <2>6. ASSUME pc \in {"gated", "replay", "commit"}, NEW g \in Files
        PROVE  <<g, tree'[g]>> \in verified' \/ <<g, tree'[g], TRUE>> \in users'
    <3>1. UnderRepair
      BY <2>6 DEF UnderRepair, RepairPc
    <3>2. CASE g = f
      BY <2>1, <2>2, <3>1, <3>2 DEF Content
    <3>3. CASE g # f
      BY <2>1, <2>2, <2>6, <3>3 DEF Content
    <3>4. QED
      BY <3>2, <3>3
  <2>7. QED
    BY <2>1, <2>2, <2>5, <2>6
<1>7. CASE Pause \/ Stop \/ Resume \/ ResumeUnpaused \/ CommandWrite \/ InspectRestarts
           \/ Crash \/ RemoveStaleLock
  BY <1>7 DEF Pause, Stop, Resume, Command, ResumeUnpaused, CommandWrite, InspectRestarts,
              Crash, RemoveStaleLock
<1>8. QED
  BY <1>1, <1>2, <1>3, <1>4, <1>5, <1>6, <1>7 DEF Next, Runtime

-----------------------------------------------------------------------------
(* What the record tells a new Runtime *)

LEMMA FieldsAfterExcept ==
    ASSUME NEW s \in State, NEW commit, NEW pushed \in BOOLEAN
    PROVE  /\ [s EXCEPT !.recovery.snapshot = TRUE].recovery.snapshot
           /\ [s EXCEPT !.recovery.snapshot = TRUE].recovery.status = s.recovery.status
           /\ [s EXCEPT !.recovery.commit = commit].recovery.status = s.recovery.status
           /\ [s EXCEPT !.recovery.commit = commit,
                        !.recovery.pushed = pushed].recovery.status = s.recovery.status
<1>1. s.recovery \in Recovery
  BY DEF State
<1>2. QED
  BY <1>1 DEF State, Recovery

LEMMA StatusAfter ==
    ASSUME TypeOK
    PROVE  /\ CommittedUnusable \/ InterruptedUnusable \/ RecordRestored \/ ResumeRepair
                \/ ActionFails \/ CommitFails \/ PushFails \/ ReportUndone =>
                  st'.recovery.status = "FAILED"
           /\ AdoptCommit \/ CloseRepair => st'.recovery.status = "IDLE"
           /\ NothingToDo \/ ActionSucceeds =>
                  st'.recovery = st.recovery \/ st'.recovery.status = "IDLE"
           /\ ReportRepairing =>
                  st'.recovery.status = "REPAIRING" /\ st'.recovery.snapshot
           /\ AgentCompletes =>
                  st'.recovery.status = "VERIFYING" /\ st'.recovery.snapshot = Persisted.snapshot
           /\ ReplaySucceeds => st'.recovery = st.recovery
           /\ ReportCommitted \/ ReportPushed => st'.recovery.status = "COMMITTED"
           /\ RepairFailed \/ StopForGit =>
                  st'.recovery = Persisted \/ st'.recovery.status = "FAILED"
<1>1. st \in State /\ st.recovery \in Recovery /\ job.found \in Recovery
  BY DEF TypeOK, State, Job
<1>2. /\ \A recovery : Stopped(recovery).recovery = recovery
      /\ \A recovery : [st EXCEPT !.status = "RUNNING", !.recovery = recovery].recovery = recovery
      /\ \A recovery : [st EXCEPT !.retry = TRUE, !.recovery = recovery].recovery = recovery
      /\ \A recovery : [st EXCEPT !.status = "RUNNING", !.retry = TRUE,
                                  !.recovery = recovery].recovery = recovery
      /\ \A recovery : [st EXCEPT !.status = "RUNNING", !.retry = FALSE,
                                  !.recovery = recovery].recovery = recovery
  BY <1>1 DEF Stopped, State
<1>3. \A recovery \in Recovery : [recovery EXCEPT !.status = "FAILED"].status = "FAILED"
  BY DEF Recovery
<1>4. CommittedUnusable \/ InterruptedUnusable => st'.recovery.status = "FAILED"
  <2>1. CommittedUnusable \/ InterruptedUnusable =>
          st' = Stopped([st.recovery EXCEPT !.status = "FAILED"])
    BY DEF CommittedUnusable, InterruptedUnusable
  <2>2. Stopped([st.recovery EXCEPT !.status = "FAILED"]).recovery
           = [st.recovery EXCEPT !.status = "FAILED"]
    BY <1>2
  <2>3. [st.recovery EXCEPT !.status = "FAILED"].status = "FAILED"
    BY <1>1, <1>3
  <2>4. QED
    BY <2>1, <2>2, <2>3
<1>5. RecordRestored => st'.recovery.status = "FAILED"
  <2> DEFINE recovery == [job.found EXCEPT !.status = "FAILED",
                                           !.attempts = job.found.attempts + 1,
                                           !.ready = TRUE, !.snapshot = FALSE]
  <2>1. recovery.status = "FAILED"
    BY <1>1 DEF Recovery
  <2>2. RecordRestored =>
          \/ st' = Stopped(recovery)
          \/ st' = [st EXCEPT !.status = "RUNNING", !.recovery = recovery]
    BY DEF RecordRestored
  <2> HIDE DEF recovery
  <2>3. QED
    BY <1>2, <2>1, <2>2
<1>6. ResumeRepair => st'.recovery.status = "FAILED"
  <2> DEFINE recovery == IF st.recovery.ready
                         THEN [st.recovery EXCEPT !.ready = FALSE]
                         ELSE [st.recovery EXCEPT !.attempts = @ + 1]
  <2>1. recovery.status = st.recovery.status
    BY <1>1 DEF Recovery
  <2>2. ResumeRepair =>
          /\ st.recovery.status = "FAILED"
          /\ \/ st' = Stopped(recovery)
             \/ st' = [st EXCEPT !.status = "RUNNING", !.retry = FALSE, !.recovery = recovery]
    BY DEF ResumeRepair, Pending
  <2> HIDE DEF recovery
  <2>3. QED
    BY <1>2, <2>1, <2>2
<1>7. ActionFails => st'.recovery.status = "FAILED"
  <2>1. NextRecovery(FALSE).status = "FAILED"
    BY DEF NextRecovery, NoRecovery
  <2>2. QED
    BY <1>2, <2>1 DEF ActionFails
<1>8. CommitFails \/ PushFails \/ ReportUndone => st'.recovery.status = "FAILED"
  <2>1. CommitFails \/ PushFails \/ ReportUndone =>
          \/ st' = Progress("FAILED")
          \/ st' = [Progress("FAILED") EXCEPT !.recovery.commit = job.commit]
    BY DEF CommitFails, PushFails, ReportUndone
  <2>2. Progress("FAILED") \in State /\ Progress("FAILED").recovery.status = "FAILED"
    BY ProgressFields
  <2>3. [Progress("FAILED") EXCEPT !.recovery.commit = job.commit].recovery.status = "FAILED"
    BY <2>2, FieldsAfterExcept
  <2>4. QED
    BY <2>1, <2>2, <2>3
<1>9. AdoptCommit \/ CloseRepair => st'.recovery.status = "IDLE"
  <2>1. AdoptCommit \/ CloseRepair => st'.recovery = IdleRecovery
    BY <1>1 DEF AdoptCommit, CloseRepair, State
  <2>2. QED
    BY <2>1 DEF IdleRecovery, NoRecovery
<1>10. NothingToDo \/ ActionSucceeds =>
          st'.recovery = st.recovery \/ st'.recovery.status = "IDLE"
  <2>1. \A s \in State : s.recovery = st.recovery =>
            Settled(s).recovery \in {st.recovery, IdleRecovery}
    BY DEF Settled, State
  <2>2. /\ [st EXCEPT !.status = "RUNNING", !.action = "EXECUTE"] \in State
        /\ [st EXCEPT !.status = "COMPLETED", !.action = "IDLE"] \in State
    BY <1>1 DEF State, Action
  <2>3. IdleRecovery.status = "IDLE"
    BY DEF IdleRecovery, NoRecovery
  <2>4. NothingToDo => st'.recovery = st.recovery \/ st'.recovery.status = "IDLE"
    BY <1>1, <2>1, <2>3 DEF NothingToDo
  <2>5. ActionSucceeds => st'.recovery = st.recovery \/ st'.recovery.status = "IDLE"
    <3>1. /\ [st EXCEPT !.status = "RUNNING", !.action = "EXECUTE"].recovery = st.recovery
          /\ [st EXCEPT !.status = "COMPLETED", !.action = "IDLE"].recovery = st.recovery
      BY <1>1 DEF State
    <3>2. QED
      BY <2>1, <2>2, <2>3, <3>1 DEF ActionSucceeds
  <2>6. QED
    BY <2>4, <2>5
<1>11. ReportRepairing => st'.recovery.status = "REPAIRING" /\ st'.recovery.snapshot
  BY ProgressFields, FieldsAfterExcept DEF ReportRepairing
<1>12. AgentCompletes =>
          st'.recovery.status = "VERIFYING" /\ st'.recovery.snapshot = Persisted.snapshot
  BY ProgressFields DEF AgentCompletes
<1>13. ReplaySucceeds => st'.recovery = st.recovery
  BY <1>1 DEF ReplaySucceeds, State
<1>14. ReportCommitted \/ ReportPushed => st'.recovery.status = "COMMITTED"
  <2>1. ReportCommitted \/ ReportPushed =>
          \/ st' = [Progress("COMMITTED") EXCEPT !.recovery.commit = job.commit,
                                                 !.recovery.pushed = FALSE]
          \/ st' = [Progress("COMMITTED") EXCEPT !.recovery.commit = job.commit,
                                                 !.recovery.pushed = TRUE]
    BY DEF ReportCommitted, ReportPushed
  <2>2. Progress("COMMITTED") \in State /\ Progress("COMMITTED").recovery.status = "COMMITTED"
    BY ProgressFields
  <2>3. [Progress("COMMITTED") EXCEPT !.recovery.commit = job.commit,
                                      !.recovery.pushed = FALSE].recovery.status = "COMMITTED"
    BY <2>2, FieldsAfterExcept
  <2>4. [Progress("COMMITTED") EXCEPT !.recovery.commit = job.commit,
                                      !.recovery.pushed = TRUE].recovery.status = "COMMITTED"
    BY <2>2, FieldsAfterExcept
  <2>5. QED
    BY <2>1, <2>3, <2>4
<1>15. RepairFailed \/ StopForGit =>
          st'.recovery = Persisted \/ st'.recovery.status = "FAILED"
  <2>1. [Persisted EXCEPT !.status = "FAILED"].status = "FAILED"
    BY <1>1, <1>3 DEF Persisted
  <2>2. RepairFailed \/ StopForGit =>
          \E recovery \in {Persisted, [Persisted EXCEPT !.status = "FAILED"]} :
             \/ st' = Stopped(recovery)
             \/ st' = [st EXCEPT !.status = "RUNNING", !.retry = TRUE, !.recovery = recovery]
    BY DEF RepairFailed, StopForGit
  <2>3. \A recovery :
          /\ Stopped(recovery).recovery = recovery
          /\ [st EXCEPT !.status = "RUNNING", !.retry = TRUE, !.recovery = recovery].recovery = recovery
    BY <1>1 DEF Stopped, State
  <2>4. QED
    BY <2>1, <2>2, <2>3
<1>16. QED
  BY <1>4, <1>5, <1>6, <1>7, <1>8, <1>9, <1>10, <1>11, <1>12, <1>13, <1>14, <1>15

LEMMA SpendsOne ==
    ASSUME TypeOK,
           NEW kind \in {"failures", "faults", "restores", "crashes", "commands"}, NEW bound,
           Spend(kind, bound)
    PROVE  /\ spent'.restores = IF kind = "restores" THEN spent.restores + 1 ELSE spent.restores
           /\ spent'.commands = IF kind = "commands" THEN spent.commands + 1 ELSE spent.commands
BY DEF Spend, TypeOK

\* Undisturbed behaviors have had no command and no restore that failed half-way.
LEMMA StaysUndisturbed ==
    ASSUME TypeOK, RecordTells, Next, Undisturbed'
    PROVE  /\ Undisturbed
           /\ ~RestoreHalf
           /\ ~(Pause \/ Stop \/ Resume \/ ResumeUnpaused \/ CommandWrite)
<1>1. spent.restores \in Nat /\ spent.commands \in Nat
  BY DEF TypeOK
<1>2. ~RestoreHalf
  BY <1>1, SpendsOne DEF RestoreHalf, Undisturbed
<1>3. ~(Pause \/ Stop \/ Resume \/ ResumeUnpaused)
  BY <1>1, SpendsOne DEF Pause, Stop, Resume, Command, ResumeUnpaused, Undisturbed
<1>4. spent' = spent \/ \E kind \in {"failures", "faults", "crashes"} : \E bound : Spend(kind, bound)
  <2>1. CASE \/ NothingToReconcile \/ PushCommitted \/ AdoptCommit \/ CommittedUnusable
             \/ RestoreInterrupted \/ RecordRestored \/ InterruptedUnusable
    BY <1>2, <2>1
       DEF NothingToReconcile, PushCommitted, AdoptCommit, CommittedUnusable,
           RestoreInterrupted, RecordRestored, InterruptedUnusable
  <2>2. CASE \/ Acquire \/ AcquireRejected \/ Release \/ Wake
             \/ ResumeRepair \/ NothingToDo \/ BeginAction
             \/ ActionSucceeds \/ ActionFails \/ ActionNeedsRepair
    BY <2>2 DEF Acquire, AcquireRejected, Release, Wake, ResumeRepair, NothingToDo,
                BeginAction, ActionSucceeds, ActionFails, ActionNeedsRepair
  <2>3. CASE \/ RepairSkipped \/ OpenRepair \/ ReportRepairing
             \/ AgentEdits \/ AgentCompletes \/ AgentFails
             \/ VerificationPasses \/ VerificationFails \/ ListChanged \/ DirtyPathTouched
             \/ ReplaySucceeds \/ ReplayFails
    BY <2>3 DEF RepairSkipped, OpenRepair, ReportRepairing, AgentEdits, AgentCompletes,
                AgentFails, VerificationPasses, VerificationFails, ListChanged,
                DirtyPathTouched, ReplaySucceeds, ReplayFails, Undo
  <2>4. CASE \/ NothingToCommit \/ CommitRepair \/ CommitFails \/ ReportCommitted
             \/ PushRepair \/ PushFails \/ ReportPushed \/ CloseRepair
             \/ UndoRepair \/ ReportUndone \/ RepairFailed \/ StopForGit
    BY <1>2, <2>4
       DEF NothingToCommit, CommitRepair, CommitFails, ReportCommitted, PushRepair,
           PushFails, ReportPushed, CloseRepair, UndoRepair, ReportUndone, RepairFailed,
           StopForGit
  <2>5. CASE UserEdits \/ CommandWrite \/ InspectRestarts \/ Crash \/ RemoveStaleLock
    BY <2>5 DEF UserEdits, CommandWrite, InspectRestarts, Crash, RemoveStaleLock
  <2>6. QED
    BY <1>3, <2>1, <2>2, <2>3, <2>4, <2>5 DEF Next, Runtime
<1>5. Undisturbed
  BY <1>4, SpendsOne DEF Undisturbed
<1>6. ~CommandWrite
  BY <1>5 DEF CommandWrite, RecordTells
<1>7. QED
  BY <1>2, <1>3, <1>5, <1>6

LEMMA RecordKept ==
    ASSUME TypeOK, SnapshotOfRepair, RecordTells, Next
    PROVE  RecordTells'
<1> DEFINE Editing == {"agent", "verify", "gated", "replay", "undo", "restored"}
           Unsettled == {"off", "reconcile", "restored", "agent", "verify", "gated",
                         "replay", "commit", "committed", "undo", "undone"}
<1> SUFFICES ASSUME Undisturbed'
             PROVE  /\ ctl' = "idle"
                    /\ pc' \in Editing => InFlight(st)'
                    /\ InFlight(st)' => st'.recovery.snapshot /\ pc' \in Unsettled
  BY DEF RecordTells
<1> USE DEF source, client, InFlight
<1>1. /\ ctl = "idle"
      /\ pc \in Editing => InFlight(st)
      /\ InFlight(st) => st.recovery.snapshot /\ pc \in Unsettled
  BY StaysUndisturbed DEF RecordTells
<1>2. CASE \/ NothingToReconcile \/ PushCommitted \/ AdoptCommit \/ CommittedUnusable
           \/ RecordRestored \/ InterruptedUnusable
  <2>1. st'.recovery.status \notin {"REPAIRING", "VERIFYING"}
    <3>1. CASE NothingToReconcile \/ PushCommitted
      BY <3>1 DEF NothingToReconcile, PushCommitted
    <3>2. CASE ~(NothingToReconcile \/ PushCommitted)
      BY <1>2, <3>2, StatusAfter
    <3>3. QED
      BY <3>1, <3>2
  <2>2. ctl' = ctl /\ pc' \in {"acquire", "adopt"}
    BY <1>2
       DEF NothingToReconcile, PushCommitted, AdoptCommit, CommittedUnusable,
           RecordRestored, InterruptedUnusable, Adopt
  <2>3. QED
    BY <1>1, <2>1, <2>2
<1>3. CASE RestoreInterrupted
  BY <1>1, <1>3 DEF RestoreInterrupted
<1>4. CASE \/ Acquire \/ AcquireRejected \/ Release \/ Wake
           \/ ResumeRepair \/ NothingToDo \/ BeginAction
           \/ ActionSucceeds \/ ActionFails \/ ActionNeedsRepair
  <2>1. st'.recovery = st.recovery \/ st'.recovery.status \in {"IDLE", "FAILED"}
    BY <1>4, StatusAfter DEF Acquire, AcquireRejected, Release, Wake, BeginAction,
                             ActionNeedsRepair
  <2>2. pc \in {"acquire", "goSleep", "goExit", "sleep", "round", "act"} /\ ctl' = ctl
    BY <1>4 DEF Acquire, AcquireRejected, Release, Wake, ResumeRepair, NothingToDo,
                BeginAction, ActionSucceeds, ActionFails, ActionNeedsRepair
  <2>3. pc' \in {"round", "off", "sleep", "acquire", "act", "repair", "goSleep", "goExit"}
    BY <1>4 DEF Acquire, AcquireRejected, Release, Wake, ResumeRepair, NothingToDo,
                BeginAction, ActionSucceeds, ActionFails, ActionNeedsRepair, BeginRepair,
                Return
  <2>4. QED
    BY <1>1, <2>1, <2>2, <2>3
<1>5. CASE \/ RepairSkipped \/ OpenRepair \/ AgentEdits \/ AgentFails
           \/ VerificationPasses \/ VerificationFails \/ ListChanged \/ DirtyPathTouched
           \/ ReplayFails
  BY <1>1, <1>5 DEF RepairSkipped, OpenRepair, AgentEdits, AgentFails, Undo,
                    VerificationPasses, VerificationFails, ListChanged, DirtyPathTouched,
                    ReplayFails
<1>6. CASE ReportRepairing
  BY <1>1, <1>6, StatusAfter DEF ReportRepairing
<1>7. CASE AgentCompletes
  <2>1. Persisted = st.recovery
    BY <1>1, <1>7 DEF AgentCompletes, Persisted
  <2>2. QED
    BY <1>1, <1>7, <2>1, StatusAfter DEF AgentCompletes
<1>8. CASE ReplaySucceeds
  BY <1>1, <1>8, StatusAfter DEF ReplaySucceeds
<1>9. CASE CommitFails \/ ReportCommitted \/ PushFails \/ ReportPushed \/ CloseRepair
           \/ ReportUndone
  <2>1. st'.recovery.status \in {"FAILED", "COMMITTED", "IDLE"}
    BY <1>9, StatusAfter
  <2>2. ctl' = ctl /\ pc' \notin Editing
    BY <1>9 DEF CommitFails, ReportCommitted, PushFails, ReportPushed, CloseRepair,
                ReportUndone, Return
  <2>3. QED
    BY <1>1, <2>1, <2>2
<1>10. CASE NothingToCommit \/ CommitRepair \/ PushRepair
  BY <1>1, <1>10 DEF NothingToCommit, CommitRepair, PushRepair
<1>11. CASE UndoRepair
  BY <1>1, <1>11 DEF UndoRepair
<1>12. CASE RepairFailed \/ StopForGit
  <2>1. ~InFlight(st) /\ pc \in RepairPc /\ ctl' = ctl /\ pc' \in {"goSleep", "goExit"}
    BY <1>1, <1>12 DEF RepairFailed, StopForGit, RepairPc, Return
  <2>2. Persisted.status \notin {"REPAIRING", "VERIFYING"}
    BY <2>1 DEF Persisted, SnapshotOfRepair
  <2>3. QED
    BY <1>1, <1>12, <2>1, <2>2, StatusAfter
<1>13. CASE UserEdits \/ InspectRestarts \/ Crash \/ RemoveStaleLock
  BY <1>1, <1>13 DEF UserEdits, InspectRestarts, Crash, RemoveStaleLock
<1>14. QED
  BY <1>2, <1>3, <1>4, <1>5, <1>6, <1>7, <1>8, <1>9, <1>10, <1>11, <1>12, <1>13,
     StaysUndisturbed DEF Next, Runtime

-----------------------------------------------------------------------------
(* What is on disk, and what the snapshot would bring back *)

LEMMA SnapshotExists ==
    ASSUME TypeOK, SnapshotOfRepair, pc \in Covered
    PROVE  archive # None
BY RepairAssumption DEF TypeOK, SnapshotOfRepair, Job, Content, Version

\* Steps that end with the files sound, or leave them to be undone.
LEMMA UndoableFrame ==
    ASSUME Undoable, Undisturbed,
           UNCHANGED <<tree, archive, job, users, mine>>, verified \subseteq verified',
           pc' \in {"opened", "agent", "verify", "gated"} =>
              pc \in {"opened", "agent", "verify", "gated"},
           archive # None /\ (InFlight(st)' \/ pc' \in Covered) => InFlight(st) \/ pc \in Covered,
           Edited => Edited'
    PROVE  Undoable'
BY DEF Undoable, Sound, FromUser

LEMMA UndoableKept ==
    ASSUME TypeOK, SnapshotOfRepair, GateSeen, RecordTells, RecordTells', Undoable, Next
    PROVE  Undoable'
<1> SUFFICES ASSUME Undisturbed'
             PROVE  Undoable'
  BY DEF Undoable
<1> USE DEF source, client
<1>1. /\ Undisturbed
      /\ ~RestoreHalf
      /\ ~(Pause \/ Stop \/ Resume \/ ResumeUnpaused \/ CommandWrite)
  BY StaysUndisturbed
<1>2. /\ pc \in {"agent", "verify", "gated", "replay", "undo", "restored"} => InFlight(st)
      /\ InFlight(st) =>
            /\ st.recovery.snapshot
            /\ pc \in {"off", "reconcile", "restored", "agent", "verify", "gated", "replay",
                       "commit", "committed", "undo", "undone"}
  BY <1>1 DEF RecordTells
<1>3. InFlight(st)' =>
        pc' \in {"off", "reconcile", "restored", "agent", "verify", "gated", "replay",
                 "commit", "committed", "undo", "undone"}
  BY DEF RecordTells
<1>4. CASE \/ NothingToReconcile \/ PushCommitted \/ CommittedUnusable \/ RecordRestored
           \/ InterruptedUnusable
  <2>1. UNCHANGED <<tree, archive, mine, users, verified>> /\ pc' \in {"acquire", "adopt"}
    BY <1>1, <1>4 DEF NothingToReconcile, PushCommitted, Adopt, CommittedUnusable,
                      RecordRestored, InterruptedUnusable
  <2>2. ~Edited
    BY <1>1, <1>2, <1>4
       DEF NothingToReconcile, PushCommitted, CommittedUnusable, RecordRestored,
           InterruptedUnusable, Edited, InFlight
  <2>3. QED
    BY <1>1, <1>3, <2>1, <2>2 DEF Undoable, Covered, Sound, FromUser
<1>5. CASE AdoptCommit \/ CloseRepair
  <2>1. /\ UNCHANGED <<tree, mine, users, verified>> /\ archive' = None /\ pc \in {"adopt", "close"}
        /\ pc' \in {"acquire", "round", "goSleep", "goExit"}
    BY <1>5 DEF AdoptCommit, CloseRepair, Return
  <2>2. QED
    BY <1>1, <2>1 DEF Undoable, Edited, Sound, FromUser
<1>6. CASE RestoreInterrupted \/ UndoRepair
  <2>1. /\ tree' = archive /\ archive' = None /\ UNCHANGED <<mine, users, verified>>
        /\ pc' \in {"restored", "undone"}
    BY <1>1, <1>6 DEF RestoreInterrupted, UndoRepair, Restore
  <2>2. archive # None /\ (InFlight(st) \/ pc \in Covered)
    BY <1>6, SnapshotExists DEF RestoreInterrupted, UndoRepair, Covered
  <2>3. QED
    BY <1>1, <2>1, <2>2 DEF Undoable, Sound, FromUser
<1>7. CASE \/ Acquire \/ AcquireRejected \/ Release \/ Wake
           \/ ResumeRepair \/ NothingToDo \/ BeginAction
           \/ ActionSucceeds \/ ActionFails \/ ActionNeedsRepair
  <2>1. /\ UNCHANGED <<tree, archive, mine, users, verified>>
        /\ pc \in {"acquire", "goSleep", "goExit", "sleep", "round", "act"}
    BY <1>7 DEF Acquire, AcquireRejected, Release, Wake, ResumeRepair, NothingToDo,
                BeginAction, ActionSucceeds, ActionFails, ActionNeedsRepair
  <2>2. /\ pc' \in {"round", "off", "sleep", "acquire", "act", "repair", "goSleep", "goExit"}
        /\ pc' = "off" => st' = st
    BY <1>7 DEF Acquire, AcquireRejected, Release, Wake, ResumeRepair, NothingToDo,
                BeginAction, ActionSucceeds, ActionFails, ActionNeedsRepair, BeginRepair,
                Return
  <2>3. ~InFlight(st)'
    BY <1>2, <1>3, <2>1, <2>2 DEF InFlight
  <2>4. QED
    BY <1>1, <2>1, <2>2, <2>3 DEF Undoable, Covered, Edited, Sound, FromUser
<1>8. CASE OpenRepair
  <2>1. /\ archive' = tree /\ pc = "repair" /\ pc' = "opened"
        /\ job'.dirty = {f \in Files : tree[f] # head[f]}
        /\ UNCHANGED <<st, tree, head, mine, users, verified>>
    BY <1>8 DEF OpenRepair, TypeOK, Job
  <2>2. Sound(tree)
    BY <1>1, <2>1 DEF Undoable, Edited
  <2>3. \A f \in Files : mine[f] # 0 => f \in job'.dirty
    BY <2>1, <2>2 DEF Sound, GateSeen
  <2>4. QED
    BY <2>1, <2>2, <2>3 DEF Undoable, Sound, FromUser
<1>9. CASE AgentEdits
  <2>1. /\ UNCHANGED <<st, pc, job, archive, mine, users, verified>> /\ pc = "agent"
    BY <1>9 DEF AgentEdits
  <2>2. QED
    BY <1>1, <2>1 DEF Undoable, Edited, Sound, FromUser, InFlight
<1>10. CASE \/ RepairSkipped \/ ReportRepairing \/ AgentCompletes \/ AgentFails
            \/ VerificationPasses \/ VerificationFails \/ DirtyPathTouched
            \/ ReplaySucceeds \/ ReplayFails
  <2>1. UNCHANGED <<tree, archive, job, mine, users>> /\ verified \subseteq verified'
    BY <1>10 DEF RepairSkipped, ReportRepairing, AgentCompletes, AgentFails, Undo,
                 VerificationPasses, VerificationFails, DirtyPathTouched, ReplaySucceeds,
                 ReplayFails
  <2>2. \/ pc = "repair" /\ pc' = "failed"
        \/ /\ pc \in {"opened", "agent"}
           /\ pc' \in {"agent", "verify", "undo"}
        \/ pc \in {"verify", "gated", "replay"} /\ pc' = "undo"
        \/ pc = "verify" /\ pc' = "gated"
        \/ pc = "replay" /\ pc' = "commit"
    BY <1>10 DEF RepairSkipped, ReportRepairing, AgentCompletes, AgentFails, Undo,
                 VerificationPasses, VerificationFails, DirtyPathTouched, ReplaySucceeds,
                 ReplayFails
  <2>3. QED
    BY <1>1, <1>3, <2>1, <2>2, UndoableFrame DEF Covered, Edited
<1>11. CASE ListChanged
  <2>1. /\ Changed \cap job.dirty = {} /\ pc = "gated" /\ pc' = "replay"
        /\ UNCHANGED <<st, tree, archive, mine, users, verified>>
    BY <1>11 DEF ListChanged
  <2>2. archive = job.before /\ archive # None
    BY <2>1, SnapshotExists DEF SnapshotOfRepair, Covered
  <2>3. Sound(archive)
    BY <1>1, <2>1, <2>2 DEF Undoable, Covered
  <2>4. \A f \in Files : mine[f] # 0 => f \in job.dirty /\ archive[f] = mine[f]
    BY <1>1, <2>1, <2>3 DEF Undoable, Sound
  <2>5. \A f \in Files : mine[f] # 0 => tree[f] = mine[f] /\ FromUser(f, mine[f])
    BY <2>1, <2>2, <2>3, <2>4 DEF Changed, Sound
  <2>6. \A f \in Files : <<f, tree[f]>> \in verified \/ FromUser(f, tree[f])
    BY <2>1 DEF GateSeen, FromUser
  <2>7. Sound(tree)
    BY <2>5, <2>6 DEF Sound
  <2>8. QED
    BY <2>1, <2>3, <2>7 DEF Undoable, Sound, FromUser
<1>12. CASE \/ NothingToCommit \/ CommitRepair \/ CommitFails \/ ReportCommitted \/ PushRepair
            \/ PushFails \/ ReportPushed \/ ReportUndone \/ RepairFailed \/ StopForGit
  <2>1. UNCHANGED <<tree, archive, mine, users, verified>>
    BY <1>12 DEF NothingToCommit, CommitRepair, CommitFails, ReportCommitted, PushRepair,
                 PushFails, ReportPushed, ReportUndone, RepairFailed, StopForGit
  <2>2. /\ pc \in {"commit", "committed", "push", "pushed", "undone", "failed", "stop"}
        /\ \/ pc' \in {"stop", "push", "pushed", "close", "failed", "goSleep", "goExit"}
           \/ pc' = "committed" /\ st' = st
    BY <1>12 DEF NothingToCommit, CommitRepair, CommitFails, ReportCommitted, PushRepair,
                 PushFails, ReportPushed, ReportUndone, RepairFailed, StopForGit, Return
  <2>3. QED
    BY <1>1, <1>3, <2>1, <2>2 DEF Undoable, Covered, Edited, Sound, FromUser, InFlight
<1>13. CASE UserEdits
  <2>1. PICK f \in Files :
          /\ tree' = [tree EXCEPT ![f] = edits + 1]
          /\ users' = users \cup {<<f, edits + 1, UnderRepair>>}
          /\ mine' = [mine EXCEPT ![f] = IF UnderRepair THEN 0 ELSE edits + 1]
    BY <1>13 DEF UserEdits
  <2>2. /\ UNCHANGED <<st, pc, job, archive, verified>>
        /\ tree \in Content /\ mine \in Content /\ edits + 1 # 0
    BY <1>13, RepairAssumption DEF UserEdits, TypeOK, Version
  <2>3. UnderRepair \in BOOLEAN
    BY DEF UnderRepair, InFlight
  <2>4. users \subseteq users'
    BY <2>1
  <2>5. \E during \in BOOLEAN : <<f, edits + 1, during>> \in users'
    BY <2>1, <2>3
  <2>6. \A g \in Files : g # f => tree'[g] = tree[g] /\ mine'[g] = mine[g]
    BY <2>1, <2>2 DEF Content
  <2>7. /\ tree'[f] = edits + 1
        /\ mine'[f] = IF UnderRepair THEN 0 ELSE edits + 1
    BY <2>1, <2>2 DEF Content
  <2>8. Sound(tree) => Sound(tree)'
    <3> SUFFICES ASSUME Sound(tree), NEW g \in Files
                 PROVE  IF mine'[g] # 0
                        THEN tree'[g] = mine'[g] /\ FromUser(g, mine[g])'
                        ELSE \/ tree'[g] = 0 \/ <<g, tree'[g]>> \in verified'
                             \/ FromUser(g, tree[g])'
      BY DEF Sound
    <3>1. CASE g = f
      BY <2>5, <2>7, <3>1 DEF FromUser
    <3>2. CASE g # f
      <4>1. tree'[g] = tree[g] /\ mine'[g] = mine[g]
        BY <2>6, <3>2
      <4>2. QED
        BY <2>2, <2>4, <4>1 DEF Sound, FromUser
    <3>3. QED
      BY <3>1, <3>2
  <2>9. UnderRepair /\ Sound(archive) => Sound(archive)'
    <3> SUFFICES ASSUME UnderRepair, Sound(archive), NEW g \in Files
                 PROVE  IF mine'[g] # 0
                        THEN archive[g] = mine'[g] /\ FromUser(g, mine[g])'
                        ELSE \/ archive[g] = 0 \/ <<g, archive[g]>> \in verified
                             \/ FromUser(g, archive[g])'
      BY <2>2 DEF Sound
    <3>1. CASE g = f
      <4>1. archive[f] = 0 \/ <<f, archive[f]>> \in verified \/ FromUser(f, archive[f])
        BY DEF Sound
      <4>2. archive'[f] = archive[f] /\ mine'[f] = 0
        BY <2>2, <2>7
      <4>3. FromUser(f, archive[f]) => FromUser(f, archive[f])'
        BY <2>4, <4>2 DEF FromUser
      <4>4. QED
        BY <3>1, <4>1, <4>2, <4>3
    <3>2. CASE g # f
      <4>1. mine'[g] = mine[g]
        BY <2>6, <3>2
      <4>2. QED
        BY <2>2, <2>4, <4>1 DEF Sound, FromUser
    <3>3. QED
      BY <3>1, <3>2
  <2>10. InFlight(st) \/ pc \in Covered => UnderRepair
    BY DEF UnderRepair, Covered, RepairPc
  <2>11. pc \in {"opened", "agent", "verify", "gated"} =>
            \A g \in Files : mine'[g] # 0 => mine'[g] = mine[g]
    BY <2>6, <2>7, <2>10 DEF Covered
  <2>12. ~Edited' => ~Edited
    BY <2>2 DEF Edited, InFlight
  <2>13. QED
    BY <1>1, <2>2, <2>8, <2>9, <2>10, <2>11, <2>12 DEF Undoable, InFlight
<1>14. CASE Crash \/ InspectRestarts \/ RemoveStaleLock
  <2>1. /\ UNCHANGED <<st, tree, archive, mine, users, verified>>
        /\ pc' \in {"off", "reconcile"}
    BY <1>14 DEF Crash, InspectRestarts, RemoveStaleLock
  <2>2. Edited => Edited'
    BY <1>2, <2>1, SnapshotExists DEF Edited, Covered, InFlight
  <2>3. QED
    BY <1>1, <2>1, <2>2 DEF Undoable, Covered, Sound, FromUser, InFlight
<1>15. QED
  BY <1>1, <1>4, <1>5, <1>6, <1>7, <1>8, <1>9, <1>10, <1>11, <1>12, <1>13, <1>14
     DEF Next, Runtime

-----------------------------------------------------------------------------
(* The theorems *)

LEMMA InitRepairInv ==
    ASSUME Init
    PROVE  RepairInv
<1> USE RepairAssumption DEF Init
<1>1. InitialState \in State /\ NoJob \in Job
  BY DEF InitialState, NoRecovery, State, Recovery, Action, Commit, NoJob, Job, Content,
         Version
<1>2. TypeOK
  <2>1. edits \in Version /\ tree \in Content /\ head \in Content /\ mine \in Content
    BY DEF Content, Version
  <2>2. /\ commits \in Nat /\ remote \in Nat /\ pc \in RuntimePc
        /\ verified \subseteq Files \X Version /\ users \subseteq Files \X Version \X BOOLEAN
        /\ spent \in [failures: Nat, faults: Nat, restores: Nat, crashes: Nat, commands: Nat]
    BY DEF RuntimePc
  <2>3. QED
    BY <1>1, <2>1, <2>2 DEF TypeOK
<1>3. SnapshotOfRepair /\ NoNewerVersion
  BY DEF SnapshotOfRepair, NoNewerVersion, NoJob, NoRecovery, Covered, RepairPc
<1>4. Published /\ GateSeen
  BY DEF Published, ClaimsPublished, GateSeen, CommitsVerified, InitialState, NoRecovery,
         NoJob
<1>5. RecordTells /\ Undoable
  BY DEF RecordTells, Undoable, InFlight, InitialState, NoRecovery, Covered, Sound
<1>6. QED
  BY <1>2, <1>3, <1>4, <1>5 DEF RepairInv

LEMMA StepRepairInv ==
    ASSUME RepairInv, [Next]_vars
    PROVE  RepairInv'
<1>1. CASE Next
  <2>1. TypeOK'
    BY <1>1, ReconcileTyped, RoundTyped, EditingTyped, ClosingTyped, OthersTyped
       DEF RepairInv, Next, Runtime, Others
  <2>2. SnapshotOfRepair' /\ NoNewerVersion'
    BY <1>1, SnapshotKept, VersionsKept DEF RepairInv
  <2>3. Published' /\ GateSeen'
    BY <1>1, PublishedKept, GateKept DEF RepairInv
  <2>4. RecordTells'
    BY <1>1, RecordKept DEF RepairInv
  <2>5. Undoable'
    BY <1>1, <2>4, UndoableKept DEF RepairInv
  <2>6. QED
    BY <2>1, <2>2, <2>3, <2>4, <2>5 DEF RepairInv
<1>2. CASE UNCHANGED vars
  <2>1. UNCHANGED <<st, pc, job, locked, tree, head, commits, remote, archive, edits,
                    verified, users, mine, ctl, draft, spent>>
    BY <1>2 DEF vars, source, client
  <2>2. TypeOK' /\ SnapshotOfRepair' /\ NoNewerVersion'
    BY <2>1 DEF RepairInv, TypeOK, SnapshotOfRepair, NoNewerVersion
  <2>3. Published' /\ GateSeen'
    BY <2>1 DEF RepairInv, Published, ClaimsPublished, GateSeen, CommitsVerified
  <2>4. RecordTells' /\ Undoable'
    BY <2>1 DEF RepairInv, RecordTells, Undoable, Undisturbed, Edited, InFlight, Sound,
                  FromUser
  <2>5. QED
    BY <2>2, <2>3, <2>4 DEF RepairInv
<1>3. QED
  BY <1>1, <1>2

\* Every state the transaction can reach satisfies the inductive invariant.
THEOREM SpecImpliesRepairInv == Spec => []RepairInv
BY InitRepairInv, StepRepairInv, PTL DEF Spec

\* state.json, the Runtime's locals and the files keep their shape.
THEOREM SpecImpliesTypeOK == Spec => []TypeOK
<1>1. RepairInv => TypeOK
  BY DEF RepairInv
<1>2. QED
  BY <1>1, SpecImpliesRepairInv, PTL

\* What the Workflow calls good is published, what is committed went through the
\* gate or was put there by the user during the repair, and an action of the Workflow
\* runs on files that are undone, verified or the user's.
THEOREM SpecImpliesSourceSafe == Spec => []SourceSafe
<1>1. RepairInv => LastGoodPublished /\ CommitsVerified
  BY DEF RepairInv, Published, GateSeen, LastGoodPublished
<1>2. RepairInv => CleanSource
  BY DEF RepairInv, Undoable, Undisturbed, Edited, Sound, CleanSource
<1>3. QED
  BY <1>1, <1>2, SpecImpliesRepairInv, PTL DEF SourceSafe

\* Work of the user between repairs, on files left alone during them, is in no
\* automatic commit and is on disk outside repairs.
THEOREM SpecImpliesUserWorkKept == Spec => []UserWorkKept
<1>1. RepairInv => UserWorkKept
  BY DEF RepairInv, GateSeen, Undoable, Undisturbed, Edited, Sound, UserWorkKept, UnderRepair,
         RepairPc
<1>2. QED
  BY <1>1, SpecImpliesRepairInv, PTL

===============================================================================
