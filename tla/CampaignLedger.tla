--------------------------- MODULE CampaignLedger ---------------------------
(* The approvals, attempts and budget of one generation in a Campaign store   *)
(* (evolution/campaign_store.py), as CampaignPermissionBroker and             *)
(* EvolutionCampaignService (evolution/control_plane.py) use it: the caller   *)
(* (chat or Runtime) approves, executes, pauses, resumes and reconciles while *)
(* the Worker thread asks for one CMO attempt after the other.                *)
(*                                                                            *)
(* campaign-control-state.json is written first, then operation-ledger.jsonl  *)
(* is rewritten from it, then the run count of campaign-state.json; the       *)
(* process may die between any two writes.  The store's lock covers all of    *)
(* this but not mark_operation_started/completed/failed/unknown, which read   *)
(* the ledger and write it back unprotected.                                  *)
(*                                                                            *)
(* A Campaign asks through attempt slots (authorize_attempt_slot) or through  *)
(* single attempts (authorize_cmo_attempt); approvals are numbered.           *)
(*                                                                            *)
(* The broker is the protocol of the docs and the tests.  Production grants   *)
(* slots but its candidate runner never asks the broker (asks = FALSE): it    *)
(* starts CMO under the Worker's own operation.  All threads are those of one *)
(* process; the store's lock does not reach further.                          *)
EXTENDS Integers, Sequences, FiniteSets, Functions

CONSTANTS Slots,         \* approved_operation_ids of every grant
          Attempts,      \* input checksums of single attempts
          Runs,          \* the operations of successive Workers
          Limits,        \* may enforce_count_limits be on, off or both
          MaxRuns,       \* max_cmo_runs
          Cap,           \* maximum_cmo_attempts of an approval
          MaxApprovals, MaxCommands, MaxCrashes   \* bounds

ASSUME LedgerAssumption ==
    /\ IsFiniteSet(Slots) /\ IsFiniteSet(Attempts)
    /\ Runs \in Seq(Range(Runs)) /\ IsInjective(Runs)
    /\ Range(Runs) \cap (Slots \cup Attempts) = {}
    /\ Limits \subseteq BOOLEAN
    /\ MaxRuns \in Nat /\ Cap \in Nat /\ MaxApprovals \in Nat
    /\ MaxCommands \in Nat /\ MaxCrashes \in Nat

Threads == {"caller", "worker"}
Ops == Slots \cup Attempts \cup Range(Runs)
Nothing == <<>>

VARIABLES api,        \* "slots" or "attempts"
          enforced,   \* enforce_count_limits
          asks,       \* the candidate runner asks the broker
          control,    \* campaign-control-state.json
          ledger,     \* operation-ledger.jsonl: operation -> status
          runs,       \* cmo_run_count of campaign-state.json
          approvals,  \* approvals/*.json: number -> still valid
          reserved,   \* attempt-reservations.json: attempt -> approval
          request,    \* control-request.json exists
          expired,    \* approvals whose expires_at has passed
          workers,    \* statuses of the saved Workers, oldest first
          at,         \* thread -> where it is
          job,        \* thread -> the writes it still owes
          held,       \* what the Worker has in hand: [op, approval, outcome]
          reported,   \* answer of the resume in progress: [pending, ops, alone]
          launches,   \* operation -> the approvals CMO was started under
          revoked,    \* approvals issued before the last pause or resume
          unasked,    \* the Workers under which CMO was started without asking
          spent       \* [commands, crashes]

disk == <<control, ledger, runs, approvals, reserved, request, workers>>
history == <<launches, revoked, unasked>>
vars == <<api, enforced, asks, disk, expired, at, job, held, reported, history, spent>>

NoJob == [step |-> "none", update |-> Nothing, rows |-> Nothing,
          locked |-> FALSE, counts |-> FALSE]
NoAttempt == [op |-> "none", approval |-> 0, outcome |-> "none"]
NoReport == [pending |-> {}, ops |-> {}, alone |-> FALSE]

Over(new, old) ==
    [x \in DOMAIN new \cup DOMAIN old |-> IF x \in DOMAIN new THEN new[x] ELSE old[x]]

OpStatus == {"prepared", "authorized", "started", "completed", "failed", "unknown"}
SlotStatus == {"available", "authorized", "started", "completed", "failed", "unknown"}
Outcomes == {"completed", "awaiting_approval", "failed", "paused", "cancelled_incomplete"}

TypeOK ==
    /\ control.started \in Nat
    /\ \A g \in DOMAIN control.grants :
         control.grants[g] \in [valid : BOOLEAN, authorized : 0..Cap]
    /\ DOMAIN control.slots \in {{}, Slots} /\ DOMAIN control.ops = DOMAIN control.slots
    /\ \A s \in DOMAIN control.slots :
         control.slots[s] \in [status : SlotStatus,
                               approval : 0..Len(control.grants)]
    /\ DOMAIN ledger \subseteq Ops /\ Range(ledger) \subseteq OpStatus
    /\ runs \in Nat /\ unasked \subseteq Range(Runs)
    /\ DOMAIN reserved \subseteq Attempts
    /\ Range(workers) \subseteq Outcomes \cup {"running", "reconciliation_required"}
    /\ job["worker"].locked => ~job["caller"].locked

Init ==
    /\ api \in {"slots", "attempts"}
    /\ enforced \in Limits
    /\ asks \in BOOLEAN
    /\ ~asks => api = "slots" /\ ~enforced   \* the limits are the broker's
    /\ control = [open |-> FALSE, started |-> 0, grants |-> <<>>,
                  slots |-> Nothing, ops |-> Nothing]
    /\ ledger = Nothing /\ runs = 0 /\ approvals = <<>> /\ reserved = Nothing
    /\ request = FALSE /\ expired = {} /\ workers = <<>>
    /\ at = [caller |-> "idle", worker |-> "none"]
    /\ job = [t \in Threads |-> NoJob]
    /\ held = NoAttempt /\ reported = NoReport
    /\ launches = [op \in Slots \cup Attempts |-> <<>>]
    /\ revoked = 0 /\ unasked = {}
    /\ spent = [commands |-> 0, crashes |-> 0]

-----------------------------------------------------------------------------
(* Writing the store                                                         *)

Ready(t) == job[t] = NoJob
Goto(t, label) == at' = [at EXCEPT ![t] = label]
Here(t, label) == at[t] = label /\ Ready(t)

\* A defect: the lock keeps no thread out.
EnterFreely(t) == Ready(t)

\* with self._lock: an RLock that the stores of one process share, so it keeps
\* out the process's other threads and no other process.
Enter(t) == \A u \in Threads \ {t} : ~job[u].locked

Owe(t, update, locked, counts) ==
    job' = [job EXCEPT ![t] = [step |-> "read", update |-> update, rows |-> Nothing,
                               locked |-> locked, counts |-> counts]]

\* A defect: only the rows this operation touched are rewritten.
RowsTouched(new) == [o \in {p \in DOMAIN new.ops :
                              /\ p \in DOMAIN control.ops
                              /\ new.ops[p] # control.ops[p]} |-> new.ops[o]]

\* The rows a commit rewrites: those of every operation in the control state.
RowsOf(new) == new.ops

\* _commit_control_state, and after a start the run count.
Commit(t, new, counts) == control' = new /\ Owe(t, RowsOf(new), TRUE, counts)

\* _append, or the _transition of a function that holds the lock
Record(t, op, status) == Owe(t, [o \in {op} |-> status], TRUE, FALSE)

\* mark_operation_*: the same without the lock
Mark(t, op, status) == Owe(t, [o \in {op} |-> status], FALSE, FALSE)

ReadRows(t) ==
    /\ job[t].step = "read"
    /\ job' = [job EXCEPT ![t].step = "write", ![t].rows = Over(job[t].update, ledger)]
    /\ UNCHANGED <<api, enforced, asks, disk, expired, at, held, reported, history, spent>>

WriteRows(t) ==
    /\ job[t].step = "write"
    /\ ledger' = job[t].rows
    /\ job' = [job EXCEPT ![t] = IF job[t].counts THEN [@ EXCEPT !.step = "count"] ELSE NoJob]
    /\ UNCHANGED <<api, enforced, asks, control, runs, approvals, reserved, request, workers,
                   expired, at, held, reported, history, spent>>

CountRun(t) ==
    /\ job[t].step = "count"
    /\ runs' = runs + 1
    /\ job' = [job EXCEPT ![t] = NoJob]
    /\ UNCHANGED <<api, enforced, asks, control, ledger, approvals, reserved, request, workers,
                   expired, at, held, reported, history, spent>>

-----------------------------------------------------------------------------
(* The caller approves.                                                      *)

Issued == Len(control.grants) + Len(approvals)

\* initialize_control_state
Opened == [control EXCEPT !.open = TRUE]

\* persist_permission_grant: the control state is initialised on first use.
OpenControl ==
    /\ Here("caller", "idle")
    /\ api = "slots" /\ Issued < MaxApprovals
    /\ Goto("caller", "granting")
    /\ IF control.open THEN UNCHANGED <<control, job>>
       ELSE Enter("caller") /\ Commit("caller", Opened, FALSE)
    /\ UNCHANGED <<api, enforced, asks, ledger, runs, approvals, reserved, request, workers,
                   expired, held, reported, history, spent>>

\* persist_generation_approval: refused while a slot is in use or used up.
Granted ==
    [control EXCEPT
       !.grants = Append(@, [valid |-> TRUE, authorized |-> 0]),
       !.slots = [s \in Slots |-> [approval |-> Len(control.grants) + 1,
                                   status |-> "available"]],
       !.ops = Over(@, [s \in Slots |-> "prepared"])]

PersistGrant ==
    /\ Here("caller", "granting")
    /\ Enter("caller")
    /\ Goto("caller", "idle")
    /\ IF \A s \in DOMAIN control.slots : control.slots[s].status = "available"
       THEN Commit("caller", Granted, FALSE)
       ELSE UNCHANGED <<control, job>>
    /\ UNCHANGED <<api, enforced, asks, ledger, runs, approvals, reserved, request, workers,
                   expired, held, reported, history, spent>>

\* authorize_generation
AuthorizeGeneration ==
    /\ Here("caller", "idle")
    /\ api = "attempts" /\ Issued < MaxApprovals
    /\ approvals' = Append(approvals, TRUE)
    /\ UNCHANGED <<api, enforced, asks, control, ledger, runs, reserved, request, workers,
                   expired, at, job, held, reported, history, spent>>

NoneValid == [i \in DOMAIN approvals |-> FALSE]

\* preview_generation with regeneration: the grants of the control state stay.
RegeneratePreview ==
    /\ Here("caller", "idle")
    /\ NoneValid # approvals
    /\ approvals' = NoneValid
    /\ UNCHANGED <<api, enforced, asks, control, ledger, runs, reserved, request, workers,
                   expired, at, job, held, reported, history, spent>>

Expire ==
    /\ \E i \in (1..Issued) \ expired : expired' = expired \cup {i}
    /\ UNCHANGED <<api, enforced, asks, disk, at, job, held, reported, history, spent>>

-----------------------------------------------------------------------------
(* The caller executes and reconciles: start_or_get, reconcile_generation.   *)

NextRun == Runs[Len(workers) + 1]

Execute ==
    /\ Here("caller", "idle") /\ at["worker"] = "none"
    /\ \A e \in DOMAIN workers : workers[e] # "running"
    /\ workers # <<>> => Head(workers) \notin {"completed", "cancelled_incomplete"}
    /\ Len(workers) < Len(Runs)
    /\ NextRun \in DOMAIN ledger => ledger[NextRun] \notin {"started", "unknown"}
    /\ Enter("caller")
    /\ IF NextRun \in DOMAIN ledger THEN job' = job ELSE Record("caller", NextRun, "prepared")
    /\ Goto("caller", "starting")
    /\ UNCHANGED <<api, enforced, asks, disk, expired, held, reported, history, spent>>

MarkStarted ==
    /\ Here("caller", "starting")
    /\ Mark("caller", NextRun, "started")
    /\ Goto("caller", "saving")
    /\ UNCHANGED <<api, enforced, asks, disk, expired, held, reported, history, spent>>

StartWorker ==
    /\ Here("caller", "saving")
    /\ workers' = Append(workers, "running")
    /\ at' = [caller |-> "idle", worker |-> "run"]
    /\ UNCHANGED <<api, enforced, asks, control, ledger, runs, approvals, reserved, request,
                   expired, job, held, reported, history, spent>>

LastRun == Runs[Len(workers)]

\* After a restart, without a generation-result.json.
ReconcileGeneration ==
    /\ Here("caller", "idle") /\ at["worker"] = "none"
    /\ workers # <<>> /\ workers[Len(workers)] = "running"
    /\ IF ledger[LastRun] \in {"started", "unknown"}
       THEN Mark("caller", LastRun, "unknown") ELSE job' = job
    /\ Goto("caller", "reconciled")
    /\ UNCHANGED <<api, enforced, asks, disk, expired, held, reported, history, spent>>

SaveReconciled ==
    /\ Here("caller", "reconciled")
    /\ workers' = [workers EXCEPT ![Len(workers)] = "reconciliation_required"]
    /\ Goto("caller", "idle")
    /\ UNCHANGED <<api, enforced, asks, control, ledger, runs, approvals, reserved, request,
                   expired, job, held, reported, history, spent>>

-----------------------------------------------------------------------------
(* The caller pauses, stops and resumes.                                     *)

Command ==
    /\ spent.commands < MaxCommands
    /\ spent' = [spent EXCEPT !.commands = @ + 1]

Invalidated(ctl) ==
    [ctl EXCEPT !.grants = [g \in DOMAIN ctl.grants |-> [ctl.grants[g] EXCEPT !.valid = FALSE]]]

\* pause_campaign, stop_campaign: the request, then the approvals.
PauseOrStop ==
    /\ Here("caller", "idle")
    /\ Command
    /\ request' = TRUE
    /\ Goto("caller", IF control.open THEN "revoking" ELSE "idle")
    /\ UNCHANGED <<api, enforced, asks, control, ledger, runs, approvals, reserved, workers,
                   expired, job, held, reported, history>>

Revoke ==
    /\ Here("caller", "revoking")
    /\ Enter("caller")
    /\ Commit("caller", Invalidated(control), FALSE)
    /\ revoked' = Len(control.grants)
    /\ Goto("caller", "idle")
    /\ UNCHANGED <<api, enforced, asks, ledger, runs, approvals, reserved, request, workers,
                   expired, held, reported, launches, unasked, spent>>

Resume ==
    /\ Here("caller", "idle")
    /\ Command
    /\ approvals' = NoneValid
    /\ reported' = [NoReport EXCEPT !.alone = at["worker"] = "none"]
    /\ Goto("caller", IF control.open THEN "reconciling" ELSE "clearing")
    /\ UNCHANGED <<api, enforced, asks, control, ledger, runs, reserved, request, workers,
                   expired, job, held, history>>

\* reconcile_control_state_for_resume
Reconciled ==
    LET back == {s \in DOMAIN control.slots : control.slots[s].status = "authorized"}
    IN [Invalidated(control) EXCEPT
          !.slots = [s \in DOMAIN @ |-> IF s \in back
                                        THEN [approval |-> 0, status |-> "available"] ELSE @[s]],
          !.ops = [s \in DOMAIN @ |-> IF s \in back THEN "prepared" ELSE @[s]]]

Reconcile ==
    /\ Here("caller", "reconciling")
    /\ Enter("caller")
    /\ Commit("caller", Reconciled, FALSE)
    /\ reported' = [reported EXCEPT !.pending =
                      {s \in DOMAIN control.slots : control.slots[s].status = "unknown"}]
    /\ revoked' = Len(control.grants)
    /\ Goto("caller", "clearing")
    /\ UNCHANGED <<api, enforced, asks, ledger, runs, approvals, reserved, request, workers,
                   expired, held, launches, unasked, spent>>

ClearOnResume ==
    /\ Here("caller", "clearing")
    /\ request' = FALSE
    /\ Goto("caller", "listing")
    /\ UNCHANGED <<api, enforced, asks, control, ledger, runs, approvals, reserved, workers,
                   expired, job, held, reported, history, spent>>

ListUnresolved ==
    /\ Here("caller", "listing")
    /\ reported' = [reported EXCEPT !.ops = reported.pending \cup
                      {o \in DOMAIN ledger : ledger[o] \in {"started", "unknown"}}]
    /\ Goto("caller", "resumed")
    /\ UNCHANGED <<api, enforced, asks, disk, expired, job, held, history, spent>>

Resumed ==
    /\ Here("caller", "resumed")
    /\ reported' = NoReport
    /\ Goto("caller", "idle")
    /\ UNCHANGED <<api, enforced, asks, disk, expired, job, held, history, spent>>

-----------------------------------------------------------------------------
(* The Worker asks for an attempt: CampaignPermissionBroker.                 *)

StillRunning == workers[Len(workers)] = "running"

\* A pending control request or a Worker no longer running refuses it.
Ask ==
    /\ Here("worker", "run")
    /\ asks /\ ~request /\ StillRunning
    /\ \E op \in IF api = "slots" THEN Slots ELSE Attempts :
         held' = [NoAttempt EXCEPT !.op = op]
    /\ Goto("worker", "asked")
    /\ UNCHANGED <<api, enforced, asks, disk, expired, job, reported, history, spent>>

\* The slot names its approval.
LoadSlot ==
    /\ Here("worker", "asked") /\ api = "slots"
    /\ IF held.op \in DOMAIN control.slots /\ control.slots[held.op].approval # 0
       THEN held' = [held EXCEPT !.approval = control.slots[held.op].approval]
              /\ Goto("worker", "loaded")
       ELSE held' = held /\ Goto("worker", "run")
    /\ UNCHANGED <<api, enforced, asks, disk, expired, job, reported, history, spent>>

\* A defect: the store trusts the approval the broker read.
UsableWhenRead(g) == g \notin expired

Usable(g) == control.grants[g].valid /\ g \notin expired

\* A defect: the last run is granted twice.
RunsLeftOffByOne == enforced => control.started <= MaxRuns

RunsLeft == enforced => control.started < MaxRuns

\* authorize_attempt_slot of the store
AuthorizeSlot ==
    /\ Here("worker", "loaded")
    /\ Enter("worker")
    /\ LET g == held.approval
       IN IF /\ Usable(g)
             /\ control.slots[held.op].status = "available"
             /\ control.grants[g].authorized < Cap
             /\ RunsLeft
          THEN /\ Commit("worker", [control EXCEPT
                                      !.slots[held.op] = [approval |-> g, status |-> "authorized"],
                                      !.grants[g].authorized = @ + 1,
                                      !.ops[held.op] = "authorized"], FALSE)
               /\ Goto("worker", "authorized")
          ELSE UNCHANGED <<control, job>> /\ Goto("worker", "run")
    /\ UNCHANGED <<api, enforced, asks, ledger, runs, approvals, reserved, request, workers,
                   expired, held, reported, history, spent>>

\* mark_attempt_started
StartSlot ==
    /\ Here("worker", "authorized") /\ api = "slots"
    /\ Enter("worker")
    /\ IF control.slots[held.op].status = "authorized"
       THEN /\ Commit("worker", [control EXCEPT
                                   !.slots[held.op].status = "started",
                                   !.started = @ + 1,
                                   !.ops[held.op] = "started"], TRUE)
            /\ Goto("worker", "launching")
       ELSE UNCHANGED <<control, job>> /\ Goto("worker", "run")
    /\ UNCHANGED <<api, enforced, asks, ledger, runs, approvals, reserved, request, workers,
                   expired, held, reported, history, spent>>

\* get_active_approval takes the greatest approval_id, a hash: any valid one.
Candidates == {i \in DOMAIN approvals : approvals[i]}

\* _approval_matches
Matches(i) == i \notin expired

FindApproval ==
    /\ Here("worker", "asked") /\ api = "attempts"
    /\ \/ /\ \E i \in Candidates : Matches(i) /\ held' = [held EXCEPT !.approval = i]
          /\ Goto("worker", "found")
       \/ /\ \A i \in Candidates : \E j \in Candidates : ~Matches(j)
          /\ held' = held /\ Goto("worker", "run")
    /\ UNCHANGED <<api, enforced, asks, disk, expired, job, reported, history, spent>>

PrepareAttempt ==
    /\ Here("worker", "found")
    /\ Enter("worker")
    /\ IF held.op \in DOMAIN ledger THEN job' = job ELSE Record("worker", held.op, "prepared")
    /\ Goto("worker", "prepared")
    /\ UNCHANGED <<api, enforced, asks, disk, expired, held, reported, history, spent>>

\* attempt-reservations.json: what an approval has paid for
UnderApproval(i) == {a \in DOMAIN reserved : reserved[a] = i}

\* authorize_cmo_attempt: reservations are never given back, so a run that
\* started counts twice against the budget.
AuthorizeAttempt ==
    /\ Here("worker", "prepared")
    /\ Enter("worker")
    /\ IF /\ ledger[held.op] \in {"prepared", "authorized"}
          /\ Cardinality(UnderApproval(held.approval)) < Cap
          /\ enforced => runs + Cardinality(DOMAIN reserved) < MaxRuns
       THEN /\ reserved' = Over([a \in {held.op} |-> held.approval], reserved)
            /\ Record("worker", held.op, "authorized")
            /\ Goto("worker", "authorized")
       ELSE UNCHANGED <<reserved, job>> /\ Goto("worker", "run")
    /\ UNCHANGED <<api, enforced, asks, control, ledger, runs, approvals, request, workers,
                   expired, held, reported, history, spent>>

\* mark_cmo_started counts the run before it records the start.
StartAttempt ==
    /\ Here("worker", "authorized") /\ api = "attempts"
    /\ Enter("worker")
    /\ ledger[held.op] = "authorized"
    /\ runs' = runs + 1
    /\ Record("worker", held.op, "started")
    /\ Goto("worker", "launching")
    /\ UNCHANGED <<api, enforced, asks, control, ledger, approvals, reserved, request, workers,
                   expired, held, reported, history, spent>>

Launch ==
    /\ Here("worker", "launching")
    /\ launches' = [launches EXCEPT ![held.op] = Append(@, held.approval)]
    /\ Goto("worker", "launched")
    /\ UNCHANGED <<api, enforced, asks, disk, expired, job, held, reported, revoked, unasked, spent>>

\* mark_attempt_completed, mark_attempt_failed, mark_attempt_unknown
EndStatus == {"completed", "failed", "unknown"}

\* Single attempts record no end.
Finish ==
    /\ Here("worker", "launched")
    /\ Goto("worker", "run")
    /\ IF api = "slots"
       THEN /\ Enter("worker")
            /\ \E end \in EndStatus :
                 Commit("worker", [control EXCEPT !.slots[held.op].status = end,
                                                  !.ops[held.op] = end], FALSE)
       ELSE UNCHANGED <<control, job>>
    /\ UNCHANGED <<api, enforced, asks, ledger, runs, approvals, reserved, request, workers,
                   expired, held, reported, history, spent>>

-----------------------------------------------------------------------------
(* Production: CampaignAuthorizedCandidateRunner.run builds a job and starts  *)
(* CMO.  It neither authorizes nor counts; the ledger has the Worker's row.   *)

RunCandidate ==
    /\ Here("worker", "run") /\ ~asks
    /\ unasked' = unasked \cup {LastRun}
    /\ UNCHANGED <<api, enforced, asks, disk, expired, at, job, held, reported,
                   launches, revoked, spent>>

-----------------------------------------------------------------------------
(* The Worker ends: _finalize, or the except branch of _run.                 *)

RowOf(outcome) == IF outcome = "failed" THEN "failed" ELSE "completed"

EndWorker(outcome) ==
    /\ Ready("worker")
    /\ at["worker"] \in IF outcome = "failed" THEN {"run", "authorized"} ELSE {"run"}
    /\ outcome \in {"paused", "cancelled_incomplete"} => request
    /\ held' = [NoAttempt EXCEPT !.outcome = outcome]
    /\ approvals' = IF outcome \in {"completed", "failed"} THEN approvals ELSE NoneValid
    /\ IF outcome \in {"paused", "cancelled_incomplete"} THEN job' = job
       ELSE Mark("worker", LastRun, RowOf(outcome))
    /\ Goto("worker", "ending")
    /\ UNCHANGED <<api, enforced, asks, control, ledger, runs, reserved, request, workers,
                   expired, reported, history, spent>>

SaveEnded ==
    /\ Here("worker", "ending")
    /\ workers' = [workers EXCEPT ![Len(workers)] = held.outcome]
    /\ Goto("worker", IF held.outcome = "failed" THEN "none" ELSE "closing")
    /\ held' = NoAttempt
    /\ UNCHANGED <<api, enforced, asks, control, ledger, runs, approvals, reserved, request,
                   expired, job, reported, history, spent>>

ClearRequest ==
    /\ Here("worker", "closing")
    /\ request' = FALSE
    /\ Goto("worker", "none")
    /\ UNCHANGED <<api, enforced, asks, control, ledger, runs, approvals, reserved, workers,
                   expired, job, held, reported, history, spent>>

\* The process dies; everything but the files is gone.
Crash ==
    /\ spent.crashes < MaxCrashes
    /\ at # [caller |-> "idle", worker |-> "none"]
    /\ spent' = [spent EXCEPT !.crashes = @ + 1]
    /\ at' = [caller |-> "idle", worker |-> "none"]
    /\ job' = [t \in Threads |-> NoJob]
    /\ held' = NoAttempt /\ reported' = NoReport
    /\ UNCHANGED <<api, enforced, asks, disk, expired, history>>

-----------------------------------------------------------------------------

Store(t) == ReadRows(t) \/ WriteRows(t) \/ CountRun(t)

Caller ==
    \/ OpenControl \/ PersistGrant \/ AuthorizeGeneration \/ RegeneratePreview
    \/ Execute \/ MarkStarted \/ StartWorker \/ ReconcileGeneration \/ SaveReconciled
    \/ PauseOrStop \/ Revoke
    \/ Resume \/ Reconcile \/ ClearOnResume \/ ListUnresolved \/ Resumed

Worker ==
    \/ Ask \/ LoadSlot \/ AuthorizeSlot \/ StartSlot
    \/ FindApproval \/ PrepareAttempt \/ AuthorizeAttempt \/ StartAttempt
    \/ Launch \/ Finish
    \/ \E outcome \in Outcomes : EndWorker(outcome)
    \/ SaveEnded \/ ClearRequest

Next == (\E t \in Threads : Store(t)) \/ Caller \/ Worker \/ RunCandidate \/ Expire \/ Crash

Spec == Init /\ [][Next]_vars

-----------------------------------------------------------------------------
(* Properties                                                                *)

Launched == {op \in DOMAIN launches : launches[op] # <<>>}

\* Across approvals, pauses, restarts and crashes between the writes, no attempt
\* that the threads of one process launch through the broker reaches CMO twice,
\* no approval pays for more of them than its maximum_cmo_attempts, an enforced
\* budget is kept, and none goes uncounted in cmo_run_count.  Of what production
\* starts unasked (RunCandidate) this says nothing.
AttemptsAccounted ==
    /\ \A op \in DOMAIN launches : Len(launches[op]) <= 1
    /\ \A g \in 1..Issued :
         Cardinality({op \in DOMAIN launches : g \in Range(launches[op])}) <= Cap
    /\ enforced => Cardinality(Launched) <= MaxRuns
    /\ Cardinality(Launched) <= runs

\* "Pause revokes the existing approvals; Resume only reconciles and goes back
\* to awaiting approval" (docs/architecture/current-state.md): a slot is
\* authorized only under a grant issued after the last of them, however late the
\* Worker acts on what it read before.
ApprovalsEnd ==
    [][\A s \in DOMAIN control.slots :
         control.slots[s].status # "authorized" /\ control'.slots[s].status = "authorized"
           => control'.slots[s].approval > revoked]_vars

Ended(op) == /\ op \in DOMAIN control.slots
             /\ control.slots[op].status \in {"completed", "failed"}

RowEnded(op) == op \in DOMAIN ledger /\ ledger[op] \in {"completed", "failed"}

\* A resume without a living Worker names every attempt that may have reached
\* CMO and has no recorded end, also those whose ledger row a crash left behind
\* the control state; and of the Workers under which CMO was started unasked,
\* every one whose row has no end, whatever the writers without the lock do.
ResumeReports ==
    at["caller"] = "resumed" /\ reported.alone =>
      {s \in DOMAIN control.slots : control.slots[s].status \in {"started", "unknown"}}
        \cup {op \in DOMAIN launches : launches[op] # <<>> /\ ~Ended(op)}
        \cup {op \in unasked : ~RowEnded(op)}
        \subseteq reported.ops
=============================================================================
