--------------------------- MODULE CampaignWorkers ---------------------------
(***************************************************************************)
(* The part of the evolution layer a Training Workflow drives: the stored   *)
(* Campaign (previews, one list of Workers per generation, the operation of *)
(* a Worker being started, the formal generation result), the lock file of  *)
(* the CMO instance, and the daemon threads that run a generation inside    *)
(* the process that started them.  Everything but `threads` is on disk and  *)
(* survives the death of that process.                                      *)
(*                                                                          *)
(* Source: evolution/control_plane.py, campaign_store.py, cmo_lock.py,      *)
(* production_executor.py and the driver in training/runtime.py.            *)
(* The actions are the calls of the driver split where the process can die  *)
(* or another process can observe the store; a module that composes them    *)
(* says who calls them and when.                                            *)
(***************************************************************************)
EXTENDS Integers, Sequences, FiniteSets

CONSTANTS
    GenerationCount,    \* generations the user asked for (request.json)
    Processes,          \* operating-system processes that may host Workers
    Free                \* content of a lock file that does not exist

ASSUME CampaignAssumption ==
    /\ GenerationCount \in Nat \ {0}
    /\ Free \notin Processes

Generations == 0 .. GenerationCount - 1

VARIABLES
    prepared,    \* the Campaign directory and its spec exist
    previews,    \* state of the newest strategy proposal of each generation
    orphan,      \* generation -> an operation is STARTED but no Worker is saved
    workers,     \* generation -> statuses of its saved Workers, oldest epoch first
    results,     \* generations whose generation-result.json exists
    current,     \* CampaignState.current_generation
    cmoLock,     \* process named in .cmo-instance.lock, or Free
    threads      \* live Worker threads

campaignVars ==
    <<prepared, previews, orphan, workers, results, current, cmoLock, threads>>

\* "opened": the operation is STARTED and the revision directory is missing;
\* "building": the directory exists; "failed": the operation is FAILED.
PreviewStatus == {"none", "opened", "building", "failed", "ready"}

WorkerStatus ==
    {"running", "completed", "failed", "paused", "cancelled_incomplete",
     "reconciliation_required"}

\* "running": executor.run; "written": generation-result.json is on disk;
\* "saved": the Worker is saved as completed; "closing": its end is saved;
\* "failed": its failure is saved, only the CMO lock is left.
ThreadPhase == {"running", "written", "saved", "closing", "failed"}

Thread == [proc: Processes, gen: Generations, epoch: Nat \ {0}, phase: ThreadPhase]

\* What reconcile_generation has read before it writes: the newest Worker of a
\* generation and whether the formal result is on disk.
Finding == [gen: Generations, epoch: Nat \ {0}, done: BOOLEAN]

CampaignTypeOK ==
    /\ prepared \in BOOLEAN
    /\ previews \in [Generations -> PreviewStatus]
    /\ orphan \in [Generations -> BOOLEAN]
    /\ workers \in [Generations -> Seq(WorkerStatus)]
    /\ results \subseteq Generations
    /\ current \in 0 .. GenerationCount
    /\ cmoLock \in Processes \cup {Free}
    /\ threads \subseteq Thread

CampaignInit ==
    /\ prepared = FALSE
    /\ previews = [g \in Generations |-> "none"]
    /\ orphan = [g \in Generations |-> FALSE]
    /\ workers = [g \in Generations |-> <<>>]
    /\ results = {}
    /\ current = 0
    /\ cmoLock = Free
    /\ threads = {}

-----------------------------------------------------------------------------
(* Reading the store *)

\* get_active_worker: some saved Worker of the generation is "running".
HasActiveWorker(g) == \E e \in DOMAIN workers[g] : workers[g][e] = "running"

\* inspect_generation: the running Worker, else the first one saved.
InspectStatus(g) ==
    IF HasActiveWorker(g) THEN "running"
    ELSE IF workers[g] = <<>> THEN "ready"
    ELSE Head(workers[g])

\* start_or_get returns a saved Worker, or an operation it must not repeat,
\* and starts nothing.
ExecuteReusesWorker(g) ==
    \/ HasActiveWorker(g)
    \/ workers[g] # <<>> /\ Head(workers[g]) \in {"completed", "cancelled_incomplete"}
    \/ orphan[g]

-----------------------------------------------------------------------------
(* prepare_campaign *)

PrepareCampaign ==
    /\ ~prepared
    /\ prepared' = TRUE
    /\ UNCHANGED <<previews, orphan, workers, results, current, cmoLock, threads>>

PrepareRejected == prepared    \* campaign_already_exists

-----------------------------------------------------------------------------
(* preview_generation, behind the driver's single regeneration *)

\* mark_operation_started.  After a FAILED proposal the driver asks again with
\* regenerate_preview; after an unfinished one whose directory exists the next
\* revision is a new operation.
OpenPreview(g) ==
    /\ previews[g] \in {"none", "failed", "building"}
    /\ previews' = [previews EXCEPT ![g] = "opened"]
    /\ UNCHANGED <<prepared, orphan, workers, results, current, cmoLock, threads>>

\* preview_operation_reconciliation_required: the operation of the next
\* revision is STARTED and nothing ever closes it.
PreviewRejected(g) == previews[g] = "opened"

\* PreviewBuilder.build creates the revision directory before the proposals.
BuildPreview(g) ==
    /\ previews' = [previews EXCEPT ![g] = "building"]
    /\ UNCHANGED <<prepared, orphan, workers, results, current, cmoLock, threads>>

SavePreview(g) ==
    /\ previews' = [previews EXCEPT ![g] = "ready"]
    /\ current' = g
    /\ UNCHANGED <<prepared, orphan, workers, results, cmoLock, threads>>

FailPreview(g) ==
    /\ previews' = [previews EXCEPT ![g] = "failed"]
    /\ UNCHANGED <<prepared, orphan, workers, results, current, cmoLock, threads>>

-----------------------------------------------------------------------------
(* execute_generation: GenerationWorkerManager.start_or_get *)

\* Mutation of StartOperation: the CMO instance lock is not looked at.
StartOperationUnlocked(p, g) ==
    /\ previews[g] = "ready"
    /\ ~ExecuteReusesWorker(g)
    /\ cmoLock' = p
    /\ orphan' = [orphan EXCEPT ![g] = TRUE]
    /\ UNCHANGED <<prepared, previews, workers, results, current, threads>>

\* The lock is taken and the operation is STARTED before the Worker is saved.
StartOperation(p, g) ==
    /\ previews[g] = "ready"
    /\ ~ExecuteReusesWorker(g)
    /\ cmoLock = Free
    /\ cmoLock' = p
    /\ orphan' = [orphan EXCEPT ![g] = TRUE]
    /\ UNCHANGED <<prepared, previews, workers, results, current, threads>>

\* cmo_instance_locked
StartRejected(g) == ~ExecuteReusesWorker(g) /\ cmoLock # Free

LaunchWorker(p, g) ==
    /\ workers' = [workers EXCEPT ![g] = Append(@, "running")]
    /\ orphan' = [orphan EXCEPT ![g] = FALSE]
    /\ threads' = threads \cup {[proc |-> p, gen |-> g,
                                 epoch |-> Len(workers[g]) + 1, phase |-> "running"]}
    /\ UNCHANGED <<prepared, previews, results, current, cmoLock>>

-----------------------------------------------------------------------------
(* The Worker thread: GenerationWorkerManager._run and _finalize *)

Advance(t, phase) == threads' = (threads \ {t}) \cup {[t EXCEPT !.phase = phase]}

SaveWorker(t, status) == workers' = [workers EXCEPT ![t.gen][t.epoch] = status]

\* The executor writes generation-result.json and returns "completed".
WriteResult(t) ==
    /\ t.phase = "running"
    /\ results' = results \cup {t.gen}
    /\ Advance(t, "written")
    /\ UNCHANGED <<prepared, previews, orphan, workers, current, cmoLock>>

\* Mutation of SaveCompleted: the Worker is saved before the result is written.
SaveCompletedFirst(t) ==
    /\ t.phase = "running"
    /\ SaveWorker(t, "completed")
    /\ Advance(t, "saved")
    /\ UNCHANGED <<prepared, previews, orphan, results, current, cmoLock>>

SaveCompleted(t) ==
    /\ t.phase = "written"
    /\ SaveWorker(t, "completed")
    /\ Advance(t, "saved")
    /\ UNCHANGED <<prepared, previews, orphan, results, current, cmoLock>>

\* Mutation of AdvanceCampaign: counts from the stored index, not from the Worker's.
AdvanceCampaignByOne(t) ==
    /\ t.phase = "saved"
    /\ current' = current + 1
    /\ Advance(t, "closing")
    /\ UNCHANGED <<prepared, previews, orphan, workers, results, cmoLock>>

AdvanceCampaign(t) ==
    /\ t.phase = "saved"
    /\ current' = t.gen + 1
    /\ Advance(t, "closing")
    /\ UNCHANGED <<prepared, previews, orphan, workers, results, cmoLock>>

\* A pause or stop the executor obeyed at a candidate boundary: no result is written.
SaveUnfinished(t, status) ==
    /\ t.phase = "running"
    /\ SaveWorker(t, status)
    /\ Advance(t, "closing")
    /\ UNCHANGED <<prepared, previews, orphan, results, current, cmoLock>>

\* An exception, of the executor or of _finalize: the Worker is saved as failed,
\* over whatever end was saved before it.
FailWorker(t) ==
    /\ t.phase # "failed"
    /\ SaveWorker(t, "failed")
    /\ Advance(t, "failed")
    /\ UNCHANGED <<prepared, previews, orphan, results, current, cmoLock>>

ReleaseCmoLock(t) ==
    /\ t.phase \in {"closing", "failed"}
    /\ cmoLock' = Free
    /\ threads' = threads \ {t}
    /\ UNCHANGED <<prepared, previews, orphan, workers, results, current>>

-----------------------------------------------------------------------------
(* reconcile_campaign: reconcile_generation of the current generation, which  *)
(* reads the store, saves the Worker and then the Campaign, unlocked          *)

Newest(g) == Len(workers[g])

Reconcilable == current \in Generations /\ workers[current] # <<>>

\* Only the newest Worker is looked at, and whether its thread lives is not asked.
CurrentFinding ==
    [gen |-> current, epoch |-> Newest(current), done |-> current \in results]

ReconcileWorker(found) ==
    /\ workers' = [workers EXCEPT ![found.gen][found.epoch] =
                      IF found.done THEN "completed" ELSE "reconciliation_required"]
    /\ UNCHANGED <<prepared, previews, orphan, results, current, cmoLock, threads>>

\* With a result the stored index only grows; without one it is set back.
ReconcileState(found) ==
    /\ current' = IF found.done /\ current > found.gen THEN current
                  ELSE IF found.done THEN found.gen + 1 ELSE found.gen
    /\ UNCHANGED <<prepared, previews, orphan, workers, results, cmoLock, threads>>

\* Daemon threads end with the process; what they had on disk stays.
KillThreads(p) == threads' = {t \in threads : t.proc # p}

-----------------------------------------------------------------------------
(* Properties of every module that composes these actions *)

\* No generation is previewed or executed before all earlier ones have their
\* formal result: the rolling baseline of generation g is the champion of g - 1.
GenerationsInOrder ==
    \A g \in Generations :
        previews[g] # "none" \/ workers[g] # <<>> => 0 .. g - 1 \subseteq results

\* At most one Worker runs CMO at any time, over all generations and processes.
CmoExclusive == \A t, u \in threads : t = u

=============================================================================
