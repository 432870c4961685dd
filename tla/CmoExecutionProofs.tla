-------------------------- MODULE CmoExecutionProofs --------------------------
(***************************************************************************)
(* What is reported of an execution is its own, and the configuration is    *)
(* given back, for any number of callers and executions, with BatchRunners  *)
(* that outlive their callers.  Candidates may be any in number; of chats,  *)
(* which share one configuration file, the last two properties allow one.   *)
(*                                                                          *)
(* The invariant follows each execution <<c, n>>.  Before caller c comes to  *)
(* n nothing exists of it (Blank).  While c is at it, the control point of   *)
(* c says what the process, its directory and the files look like (Current). *)
(* Afterwards only its BatchRunner can still change anything, and it has     *)
(* ended if anything was saved (Always).  A step of a caller touches its own *)
(* executions only, and one of a BatchRunner its own execution only.         *)
(***************************************************************************)
EXTENDS CmoExecution, TLAPS

Ended(x) == proc[x].state \in {"exited", "killed"}

\* The process is over and its result will be put together.
Over(c) ==
    \/ At(c, "restoring") /\ ~caller[c].raised
    \/ caller[c].pc \in {"ended", "logged"}

\* No execution is begun twice.
Blank(c, n) ==
    n > caller[c].n =>
        /\ proc[<<c, n>>].state = "none"
        /\ ~saved[<<c, n>>].log /\ saved[<<c, n>>].result = None
        /\ kind[c] = "candidate" => script[<<c, n>>] = None

Verdict(x) ==
    saved[x].result # None =>
        /\ saved[x].result.dir \in {x, None}
        /\ saved[x].result.success =>
              /\ proc[x].state = "exited" /\ proc[x].loaded = x /\ proc[x].exit = 0
              /\ batch[x] # "some_failed"

Always(c, n) ==
    LET x == <<c, n>> IN
    /\ proc[x].state \in {"none", "started"} => proc[x].loaded = None /\ batch[x] = "absent"
    /\ saved[x].log => Ended(x)
    /\ kind[c] = "candidate" =>
          /\ proc[x].loaded = None => batch[x] = "absent"
          /\ proc[x].state = "exited" /\ proc[x].exit = 0 => proc[x].loaded # None
          /\ proc[x].state = "running" => proc[x].loaded # None
          /\ script[x] \in {x, None}
          /\ proc[x].state # "none" => script[x] = x
          /\ proc[x].loaded \in {x, None}
          /\ Verdict(x)

Current(c) ==
    LET x == Running(c) IN
    ~At(c, "idle") =>
        /\ caller[c].n >= 1
        /\ saved[x].result = None /\ (saved[x].log => At(c, "logged"))
        /\ caller[c].pc \in {"prepared", "switched", "entered", "waiting", "killing"} =>
              ~caller[c].timedOut /\ ~caller[c].raised
        /\ caller[c].pc \in {"prepared", "switched", "entered"} =>
              proc[x].state = "none" /\ caller[c].dir = None
        /\ caller[c].pc \in {"waiting", "killing"} =>
              proc[x].state \in {"started", "running", "exited"}
        /\ Over(c) => proc[x].state = IF caller[c].timedOut THEN "killed" ELSE "exited"
        /\ At(c, "logged") => saved[x].log

\* An attempt has files of its own; its directory is noticed if there is one.
CurrentAttempt(c) ==
    LET x == Running(c) IN
    kind[c] = "candidate" /\ ~At(c, "idle") =>
        /\ script[x] = x
        /\ ~At(c, "prepared") => caller[c].original = x
        /\ caller[c].dir \in {x, None}
        /\ caller[c].known = {}
        /\ Over(c) /\ caller[c].dir = None /\ proc[x].state = "exited" => batch[x] = "absent"

CallerInv(c) ==
    /\ \A n \in 1..MaxRuns : Blank(c, n) /\ Always(c, n)
    /\ Current(c) /\ CurrentAttempt(c)

CmoInv == TypeOK /\ \A c \in Callers : CallerInv(c)

-----------------------------------------------------------------------------
(* The shared configuration, with one chat *)

OneChat == \A c, d \in Chats : c = d

\* The process of x has loaded no script but that of x, and one if it ended well.
LoadedOwn(x) ==
    /\ proc[x].loaded \in {x, None}
    /\ proc[x].state = "running" \/ (proc[x].state = "exited" /\ proc[x].exit = 0) => proc[x].loaded = x

\* y is an earlier execution of caller c than the n-th, and was given up.
Abandoned(c, n, y) == y \in Executions /\ y[1] = c /\ y[2] < n /\ ~saved[y].log

SharedScript(c) ==
    /\ caller[c].pc \in {"switched", "entered", "waiting", "killing"} => script[Shared] = Running(c)
    /\ caller[c].pc \in {"waiting", "killing"} \/ Over(c) => LoadedOwn(Running(c))

\* A directory made before this execution started is known if its process is over;
\* the one it found is its own or belongs to a process nothing was saved of.
DirsNoticed(c) ==
    /\ caller[c].pc \in {"waiting", "killing"} =>
          \A y \in Executions : y[1] = c /\ saved[y].log /\ batch[y] # "absent" => y \in caller[c].known
    /\ caller[c].pc \in {"waiting", "killing"} \/ Over(c) =>
          caller[c].dir \in {Running(c), None} \/ Abandoned(c, caller[c].n, caller[c].dir)

\* Between the with block and the next execution.
Given(c) ==
    \/ caller[c].pc \in {"ended", "logged"}
    \/ At(c, "idle") /\ caller[c].original # None /\ caller[c].outcome \notin Unreturned
    => /\ caller[c].n >= 1
       /\ script[Job(Running(c))] = caller[c].original
       /\ traced[Job(Running(c))] = caller[c].wasTraced

ForeignDirsAbandoned ==
    \A x \in Executions : saved[x].result # None =>
        \/ saved[x].result.dir \in {x, None}
        \/ x[1] \in Chats /\ Abandoned(x[1], x[2], saved[x].result.dir)

ChatInv ==
    /\ OneChat /\ ResultsOfOwnScript /\ ForeignDirsAbandoned
    /\ \A c \in Chats : SharedScript(c) /\ DirsNoticed(c)
    /\ \A c \in Callers : Given(c)

OneChatRuns == OneChat => ChatInv
-----------------------------------------------------------------------------
(* Types *)

LEMMA ConstantFacts ==
    /\ Shared \notin Executions /\ None \notin Executions
    /\ Executions \subseteq Jobs /\ Shared \in Jobs
    /\ Executions \subseteq Scripts /\ None \in Scripts
    /\ Idle \in Memory /\ NoProcess \in Process
<1>1. Shared \notin Executions /\ None \notin Executions
  BY ExecutionAssumption
<1>2. 0 \in 0..MaxRuns
  BY ExecutionAssumption
<1>3. Idle \in Memory /\ NoProcess \in Process
  BY <1>2 DEF Idle, Memory, NoProcess, Process, Scripts
<1>4. QED
  BY <1>1, <1>3 DEF Jobs, Scripts

LEMMA JobTyped ==
    ASSUME TypeOK, NEW x \in Executions
    PROVE  /\ Job(x) \in Jobs
           /\ x[1] \in Callers
           /\ kind[x[1]] = "candidate" => Job(x) = x
           /\ kind[x[1]] = "chat" => Job(x) = Shared
BY ConstantFacts DEF TypeOK, Job, Jobs, Executions

LEMMA RunningTyped ==
    ASSUME TypeOK, NEW c \in Callers, caller[c].n >= 1
    PROVE  Running(c) \in Executions
BY ExecutionAssumption DEF TypeOK, Memory, Running, Executions

LEMMA PrepareTyped ==
    ASSUME TypeOK, NEW c \in Callers, Prepare(c)
    PROVE  TypeOK'
<1>1. caller[c].n \in 0..MaxRuns /\ caller[c].n < MaxRuns
  BY DEF Prepare, ExecuteCmo, StartAttempt, FailPreparation, CreateRun, TypeOK, Memory
<1>2. caller[c].n + 1 \in 0..MaxRuns /\ NextAttempt(c) \in Executions
  BY <1>1, ExecutionAssumption DEF NextAttempt, Executions
<1>3. /\ [Idle EXCEPT !.pc = "prepared", !.n = caller[c].n + 1] \in Memory
      /\ [Idle EXCEPT !.n = caller[c].n + 1, !.outcome = "raised"] \in Memory
  BY <1>2, ConstantFacts DEF Memory
<1>4. caller' \in [Callers -> Memory]
  BY <1>3 DEF Prepare, ExecuteCmo, StartAttempt, FailPreparation, CreateRun, Remember, TypeOK
<1>5. CASE ExecuteCmo(c)
  BY <1>4, <1>5 DEF ExecuteCmo, TypeOK
<1>6. CASE StartAttempt(c)
  BY <1>2, <1>4, <1>6, JobTyped, ConstantFacts DEF StartAttempt, BuildJob, TypeOK
<1>7. CASE FailPreparation(c)
  BY <1>4, <1>7, ExecutionAssumption DEF FailPreparation, Fault, TypeOK
<1>8. QED
  BY <1>5, <1>6, <1>7 DEF Prepare

LEMMA SwitchTyped ==
    ASSUME TypeOK, NEW c \in Callers, Current(c), Switch(c)
    PROVE  TypeOK'
<1> DEFINE x == Running(c)
<1>0. ~At(c, "idle")
  BY DEF Switch, UseScript, FailUseScript, SetAuditProfile, FailSetAuditProfile,
         LeaveScript, FailLeaveScript, InterruptSwitch, InterruptRestore, At
<1>1. caller[c] \in Memory /\ x \in Executions /\ x \in Scripts
  BY <1>0, RunningTyped, ConstantFacts DEF TypeOK, Current
<1>2. Job(x) \in Jobs /\ script[Job(x)] \in Scripts /\ traced[Job(x)] \in BOOLEAN
  BY <1>1, JobTyped DEF TypeOK
<1>3. caller[c].original \in Scripts /\ caller[c].wasTraced \in BOOLEAN
  BY <1>1 DEF Memory
<1>4. ASSUME NEW m \in Memory, Remember(c, m) PROVE caller' \in [Callers -> Memory]
  BY <1>4 DEF Remember, TypeOK
<1>5. ASSUME Fault PROVE faults' \in 0..MaxFaults
  BY <1>5, ExecutionAssumption DEF Fault, TypeOK
<1>6. ASSUME NEW v \in Scripts, SetScript(Job(x), v) PROVE script' \in [Jobs -> Scripts]
  BY <1>6 DEF SetScript, TypeOK
<1>7. CASE UseScript(c)
  <2>1. [caller[c] EXCEPT !.original = script[Job(x)], !.wasTraced = traced[Job(x)],
            !.pc = IF c \in Candidates THEN "switched" ELSE "entered"] \in Memory
    BY <1>1, <1>2 DEF Memory
  <2>2. QED
    BY <1>1, <1>4, <1>6, <1>7, <2>1 DEF UseScript, TypeOK
<1>8. CASE FailUseScript(c)
  <2>1. [caller[c] EXCEPT !.pc = "idle", !.original = script[Job(x)],
            !.outcome = "entry_failed"] \in Memory
    BY <1>1, <1>2 DEF Memory
  <2>2. QED
    BY <1>1, <1>2, <1>4, <1>5, <1>6, <1>8, <2>1 DEF FailUseScript, TypeOK
<1>9. CASE SetAuditProfile(c)
  <2>1. [caller[c] EXCEPT !.pc = "entered"] \in Memory
    BY <1>1 DEF Memory
  <2>2. QED
    BY <1>2, <1>4, <1>9, <2>1 DEF SetAuditProfile, Goto, TypeOK
<1>10. CASE FailSetAuditProfile(c)
  <2>1. [caller[c] EXCEPT !.pc = "idle", !.outcome = "entry_failed"] \in Memory
    BY <1>1 DEF Memory
  <2>2. QED
    BY <1>4, <1>5, <1>10, <2>1 DEF FailSetAuditProfile, Return, TypeOK
<1>11. CASE LeaveScript(c)
  <2>1. /\ [caller[c] EXCEPT !.pc = "idle", !.outcome = "raised"] \in Memory
        /\ [caller[c] EXCEPT !.pc = "ended"] \in Memory
    BY <1>1 DEF Memory
  <2>2. caller' \in [Callers -> Memory]
    BY <1>4, <1>11, <2>1 DEF LeaveScript, Return, Goto
  <2>3. QED
    BY <1>2, <1>3, <1>6, <1>11, <2>2 DEF LeaveScript, TypeOK
<1>12. CASE FailLeaveScript(c)
  <2>1. [caller[c] EXCEPT !.pc = "idle", !.outcome = "restore_failed"] \in Memory
    BY <1>1 DEF Memory
  <2>2. QED
    BY <1>2, <1>3, <1>4, <1>5, <1>6, <1>12, <2>1 DEF FailLeaveScript, Return, TypeOK
<1>13. CASE InterruptSwitch(c)
  <2>1. [caller[c] EXCEPT !.pc = "idle", !.original = script[Job(x)], !.wasTraced = traced[Job(x)],
            !.outcome = "interrupted"] \in Memory
    BY <1>1, <1>2 DEF Memory
  <2>2. QED
    BY <1>1, <1>2, <1>4, <1>5, <1>6, <1>13, <2>1 DEF InterruptSwitch, TypeOK
<1>14. CASE InterruptRestore(c)
  <2>1. [caller[c] EXCEPT !.pc = "idle", !.outcome = "interrupted"] \in Memory
    BY <1>1 DEF Memory
  <2>2. QED
    BY <1>2, <1>3, <1>4, <1>5, <1>6, <1>14, <2>1 DEF InterruptRestore, Return, TypeOK
<1>15. QED
  BY <1>7, <1>8, <1>9, <1>10, <1>11, <1>12, <1>13, <1>14 DEF Switch

LEMMA PollTyped ==
    ASSUME TypeOK, NEW c \in Callers, NEW d \in PollRunnerLog(c)
    PROVE  d \in Executions \cup {None}
BY DEF TypeOK, Memory, PollRunnerLog, FindNewBatchDir, NewBatchDirs, BatchDirs

LEMMA SuperviseTyped ==
    ASSUME TypeOK, NEW c \in Callers, Supervise(c)
    PROVE  TypeOK'
<1> DEFINE x == Running(c)
<1>1. caller[c] \in Memory
  BY DEF TypeOK
<1>2. ASSUME NEW m \in Memory, Remember(c, m) PROVE caller' \in [Callers -> Memory]
  BY <1>2 DEF Remember, TypeOK
<1>3. ASSUME Fault \/ UNCHANGED faults PROVE faults' \in 0..MaxFaults
  BY <1>3, ExecutionAssumption DEF Fault, TypeOK
<1>4. ASSUME NEW s \in {"started", "killed"}, proc' = [proc EXCEPT ![x].state = s]
      PROVE  proc' \in [Executions -> Process]
  <2>1. \A p \in Process : [p EXCEPT !.state = s] \in Process
    BY DEF Process
  <2>2. x \in Executions => [proc[x] EXCEPT !.state = s] \in Process
    BY <2>1 DEF TypeOK
  <2>3. QED
    BY <1>4, <2>2 DEF TypeOK
<1>5. CASE StartProcess(c)
  <2>1. [caller[c] EXCEPT !.pc = "waiting", !.known = BatchDirs(Job(x))] \in Memory
    BY <1>1 DEF Memory, BatchDirs
  <2>2. QED
    BY <1>2, <1>4, <1>5, <2>1 DEF StartProcess, TypeOK
<1>6. CASE FailStartProcess(c) \/ KillNotConfirmed(c) \/ Interrupt(c)
  <2>1. [caller[c] EXCEPT !.pc = "restoring", !.raised = TRUE] \in Memory
    BY <1>1 DEF Memory
  <2>2. Remember(c, [caller[c] EXCEPT !.pc = "restoring", !.raised = TRUE])
    BY <1>6 DEF FailStartProcess, KillNotConfirmed, Interrupt
  <2>3. Fault \/ UNCHANGED faults
    BY <1>6 DEF FailStartProcess, KillNotConfirmed, Interrupt
  <2>4. UNCHANGED <<kind, script, traced, proc, batch, saved, crashes>>
    BY <1>6 DEF FailStartProcess, KillNotConfirmed, Interrupt
  <2>5. QED
    BY <1>2, <1>3, <2>1, <2>2, <2>3, <2>4 DEF TypeOK
<1>7. CASE PollProgress(c) \/ ProcessEnded(c)
  <2>1. PICK d \in PollRunnerLog(c) :
           \/ Remember(c, [caller[c] EXCEPT !.dir = d])
           \/ Remember(c, [caller[c] EXCEPT !.pc = "restoring", !.dir = d])
    BY <1>7 DEF PollProgress, ProcessEnded
  <2>2. /\ [caller[c] EXCEPT !.dir = d] \in Memory
        /\ [caller[c] EXCEPT !.pc = "restoring", !.dir = d] \in Memory
    BY <1>1, PollTyped DEF Memory
  <2>3. UNCHANGED <<kind, script, traced, proc, batch, saved, faults, crashes>>
    BY <1>7 DEF PollProgress, ProcessEnded
  <2>4. QED
    BY <1>2, <2>1, <2>2, <2>3 DEF TypeOK
<1>8. CASE DeadlineReached(c)
  <2>1. [caller[c] EXCEPT !.pc = "killing"] \in Memory
    BY <1>1 DEF Memory
  <2>2. QED
    BY <1>2, <1>8, <2>1 DEF DeadlineReached, Goto, TypeOK
<1>9. CASE KillProcessTree(c)
  <2>1. PICK d \in PollRunnerLog(c) :
           Remember(c, [caller[c] EXCEPT !.pc = "restoring", !.dir = d, !.timedOut = TRUE])
    BY <1>9 DEF KillProcessTree
  <2>2. [caller[c] EXCEPT !.pc = "restoring", !.dir = d, !.timedOut = TRUE] \in Memory
    BY <1>1, PollTyped DEF Memory
  <2>3. QED
    BY <1>2, <1>4, <1>9, <2>1, <2>2 DEF KillProcessTree, TypeOK
<1>10. QED
  BY <1>5, <1>6, <1>7, <1>8, <1>9 DEF Supervise

LEMMA ResultTyped ==
    ASSUME TypeOK, NEW c \in Callers
    PROVE  RunResult(c) \in Results
<1>1. /\ caller[c].timedOut \in BOOLEAN
      /\ caller[c].dir \in Executions \cup {None}
  BY DEF TypeOK, Memory
<1>2. ParseCmoError(proc[Running(c)].console) \in Categories
  BY DEF ParseCmoError, ClassifyError, Categories
<1>3. ResolveError(c) \in Categories
  BY <1>1, <1>2 DEF ResolveError, Categories
<1>4. QED
  BY <1>1, <1>3 DEF RunResult, Results

LEMMA ReportTyped ==
    ASSUME TypeOK, NEW c \in Callers, Current(c), Report(c)
    PROVE  TypeOK'
<1> DEFINE x == Running(c)
<1>0. ~At(c, "idle")
  BY DEF Report, SaveConsoleOutput, SaveResult, FailSave, At
<1>1. caller[c] \in Memory /\ x \in Executions
  BY <1>0, RunningTyped DEF TypeOK, Current
<1>2. ASSUME NEW m \in Memory, Remember(c, m) PROVE caller' \in [Callers -> Memory]
  BY <1>2 DEF Remember, TypeOK
<1>3. CASE SaveConsoleOutput(c)
  <2>1. [caller[c] EXCEPT !.pc = "logged"] \in Memory
    BY <1>1 DEF Memory
  <2>2. QED
    BY <1>1, <1>2, <1>3, <2>1 DEF SaveConsoleOutput, Goto, TypeOK
<1>4. CASE SaveResult(c)
  <2>1. [caller[c] EXCEPT !.pc = "idle", !.outcome = "result"] \in Memory
    BY <1>1 DEF Memory
  <2>2. caller' \in [Callers -> Memory]
    BY <1>2, <1>4, <2>1 DEF SaveResult, Return
  <2>3. saved[x].log
    BY <1>4, <1>0 DEF SaveResult, Current, At
  <2> HIDE DEF x
  <2>4. \A r \in Results : saved' = [saved EXCEPT ![x].result = r] =>
           /\ saved' \in [Executions -> [log : BOOLEAN, result : Results \cup {None}]]
           /\ \A y \in Executions : saved'[y].result # None => saved'[y].log
    BY <1>1, <2>3 DEF TypeOK
  <2>5. saved' = [saved EXCEPT ![x].result = RunResult(c)]
    BY <1>4 DEF SaveResult, x
  <2>6. QED
    BY <1>4, <2>2, <2>4, <2>5, ResultTyped DEF SaveResult, TypeOK
<1>5. CASE FailSave(c)
  <2>1. [caller[c] EXCEPT !.pc = "idle", !.outcome = "raised"] \in Memory
    BY <1>1 DEF Memory
  <2>2. QED
    BY <1>2, <1>5, <2>1, ExecutionAssumption DEF FailSave, Return, Fault, TypeOK
<1>6. QED
  BY <1>3, <1>4, <1>5 DEF Report

LEMMA DieTyped ==
    ASSUME TypeOK, NEW c \in Callers, Die(c)
    PROVE  TypeOK'
<1>1. [Idle EXCEPT !.n = caller[c].n, !.outcome = "crashed"] \in Memory
  BY ConstantFacts DEF TypeOK, Memory
<1>2. QED
  BY <1>1, ExecutionAssumption DEF Die, Remember, TypeOK

LEMMA BatchRunnerTyped ==
    ASSUME TypeOK, NEW x \in Executions, BatchRunner(x)
    PROVE  TypeOK'
<1>1. proc[x] \in Process /\ script[Job(x)] \in Scripts
  BY JobTyped DEF TypeOK
<1>2. ASSUME NEW p \in Process, proc' = [proc EXCEPT ![x] = p]
      PROVE  proc' \in [Executions -> Process]
  BY <1>2 DEF TypeOK
<1>3. CASE LoadJob(x)
  <2>1. [proc[x] EXCEPT !.state = "running", !.loaded = script[Job(x)]] \in Process
    BY <1>1 DEF Process
  <2>2. proc' = [proc EXCEPT ![x] = [proc[x] EXCEPT !.state = "running", !.loaded = script[Job(x)]]]
    BY <1>3 DEF LoadJob, TypeOK
  <2>3. QED
    BY <1>2, <1>3, <2>1, <2>2 DEF LoadJob, TypeOK, Logs
<1>4. CASE EndProcess(x)
  <2>1. PICK e \in {0, 1}, t \in Consoles :
           proc' = [proc EXCEPT ![x].state = "exited", ![x].exit = e, ![x].console = t]
    BY <1>4 DEF EndProcess
  <2>2. [proc[x] EXCEPT !.state = "exited", !.exit = e, !.console = t] \in Process
    BY <1>1 DEF Process
  <2>3. proc' = [proc EXCEPT ![x] = [proc[x] EXCEPT !.state = "exited", !.exit = e, !.console = t]]
    BY <2>1 DEF TypeOK
  <2>4. proc' \in [Executions -> Process]
    BY <1>2, <2>2, <2>3
  <2>5. batch' \in [Executions -> Logs \cup {"absent"}]
    BY <1>4 DEF EndProcess, TypeOK
  <2>6. QED
    BY <1>4, <2>4, <2>5 DEF EndProcess, TypeOK
<1>5. CASE RefuseJob(x)
  <2>1. [proc[x] EXCEPT !.state = "exited", !.exit = 1] \in Process
    BY <1>1 DEF Process
  <2>2. proc' = [proc EXCEPT ![x] = [proc[x] EXCEPT !.state = "exited", !.exit = 1]]
    BY <1>5 DEF RefuseJob, TypeOK
  <2>3. QED
    BY <1>2, <1>5, <2>1, <2>2 DEF RefuseJob, TypeOK
<1>6. QED
  BY <1>3, <1>4, <1>5 DEF BatchRunner

-----------------------------------------------------------------------------
(* A step of a caller touches its own executions only *)

\* What the invariant reads of the execution <<c, n>> stays as it is.
Kept(c, n) ==
    /\ proc'[<<c, n>>] = proc[<<c, n>>]
    /\ batch'[<<c, n>>] = batch[<<c, n>>]
    /\ saved'[<<c, n>>] = saved[<<c, n>>]
    /\ kind[c] = "candidate" => script'[<<c, n>>] = script[<<c, n>>]

LEMMA BlankKept ==
    ASSUME TypeOK, NEW c \in Callers, NEW n \in 1..MaxRuns, kind' = kind, Kept(c, n),
           caller'[c].n \in Nat, caller'[c].n >= caller[c].n, Blank(c, n)
    PROVE  Blank(c, n)'
<1>1. caller[c].n \in Nat /\ n \in Nat
  BY ExecutionAssumption DEF TypeOK, Memory
<1>2. n > caller'[c].n => n > caller[c].n
  BY <1>1
<1>3. QED
  BY <1>2 DEF Kept, Blank

LEMMA AlwaysKept ==
    ASSUME NEW c \in Callers, NEW n \in 1..MaxRuns, kind' = kind, Kept(c, n), Always(c, n)
    PROVE  Always(c, n)'
BY DEF Kept, Always, Ended, Verdict

LEMMA CurrentKept ==
    ASSUME TypeOK, NEW c \in Callers, kind' = kind, caller'[c] = caller[c],
           \A n \in 1..MaxRuns : Kept(c, n), Current(c), CurrentAttempt(c)
    PROVE  Current(c)' /\ CurrentAttempt(c)'
<1>1. CASE At(c, "idle")
  BY <1>1 DEF Current, CurrentAttempt, At
<1>2. CASE ~At(c, "idle")
  <2>1. caller[c].n \in 1..MaxRuns
    BY <1>2, ExecutionAssumption DEF Current, TypeOK, Memory
  <2>2. Kept(c, caller[c].n)
    BY <2>1
  <2>3. Current(c)'
    BY <1>2, <2>2 DEF Kept, Current, Running, At, Over
  <2>4. CurrentAttempt(c)'
    BY <1>2, <2>2 DEF Kept, CurrentAttempt, Running, At, Over
  <2>5. QED
    BY <2>3, <2>4
<1>3. QED
  BY <1>1, <1>2

LEMMA CallerKept ==
    ASSUME TypeOK, TypeOK', NEW c \in Callers, kind' = kind, caller'[c] = caller[c],
           \A n \in 1..MaxRuns : Kept(c, n), CallerInv(c)
    PROVE  CallerInv(c)'
<1>1. caller'[c].n \in Nat /\ caller'[c].n >= caller[c].n
  BY ExecutionAssumption DEF TypeOK, Memory
<1>2. \A n \in 1..MaxRuns : Blank(c, n)' /\ Always(c, n)'
  BY <1>1, BlankKept, AlwaysKept DEF CallerInv
<1>3. QED
  BY <1>2, CurrentKept DEF CallerInv

LEMMA SwitchTouches ==
    ASSUME TypeOK, NEW c \in Callers, CallerInv(c), Switch(c)
    PROVE  /\ kind' = kind /\ caller'[c].n = caller[c].n
           /\ \A d \in Callers \ {c} : caller'[d] = caller[d]
           /\ \A d \in Callers, n \in 1..MaxRuns : Kept(d, n)
           /\ UNCHANGED <<proc, batch, saved>>
<1> DEFINE x == Running(c)
<1>0. ~At(c, "idle")
  BY DEF Switch, UseScript, FailUseScript, SetAuditProfile, FailSetAuditProfile,
         LeaveScript, FailLeaveScript, InterruptSwitch, InterruptRestore, At
<1>1. x \in Executions
  BY <1>0, RunningTyped DEF Current, CallerInv
<1>2. PICK v \in {script[Job(x)], x, caller[c].original} :
         /\ v \in {script[Job(x)], x} \/ At(c, "restoring")
         /\ script' = script \/ script' = [script EXCEPT ![Job(x)] = v]
  BY DEF Switch, UseScript, FailUseScript, SetAuditProfile, FailSetAuditProfile,
         LeaveScript, FailLeaveScript, InterruptSwitch, InterruptRestore, SetScript
<1>3. kind[c] = "candidate" => script[x] = x /\ v = x
  BY <1>0, <1>1, <1>2, JobTyped DEF CallerInv, CurrentAttempt, Running, At
<1>4. \A d \in Callers, n \in 1..MaxRuns : kind[d] = "candidate" => script'[<<d, n>>] = script[<<d, n>>]
  <2>1. SUFFICES ASSUME NEW d \in Callers, NEW n \in 1..MaxRuns, kind[d] = "candidate"
                 PROVE  script'[<<d, n>>] = script[<<d, n>>]
    OBVIOUS
  <2>2. <<d, n>> \in Executions
    BY DEF Executions
  <2>3. CASE <<d, n>> = x
    <3>1. d = c
      BY <2>3 DEF Running
    <3>2. script[x] = x /\ v = x
      BY <1>3, <2>1, <3>1
    <3>3. script[x] = script'[x]
      <4>1. script \in [Jobs -> Scripts]
        BY DEF TypeOK
      <4>2. Job(x) = x /\ x \in Jobs
        BY <1>1, <2>1, <3>1, JobTyped DEF Running
      <4> HIDE DEF x
      <4>3. QED
        BY <1>2, <3>2, <4>1, <4>2
    <3>4. QED
      BY <2>3, <3>3
  <2>4. CASE <<d, n>> # x
    <3>1. Job(x) # <<d, n>>
      BY <1>1, <2>2, <2>4, ConstantFacts DEF Job
    <3>2. QED
      BY <1>2, <3>1, <2>2, ConstantFacts DEF TypeOK
  <2>5. QED
    BY <2>3, <2>4
<1>5. UNCHANGED <<kind, proc, batch, saved>>
  BY DEF Switch, UseScript, FailUseScript, SetAuditProfile, FailSetAuditProfile,
         LeaveScript, FailLeaveScript, InterruptSwitch, InterruptRestore
<1>6. caller'[c].n = caller[c].n /\ \A d \in Callers \ {c} : caller'[d] = caller[d]
  <2>1. \A d \in Callers \ {c} : caller'[d] = caller[d]
    BY DEF Switch, UseScript, FailUseScript, SetAuditProfile, FailSetAuditProfile,
           LeaveScript, FailLeaveScript, InterruptSwitch, InterruptRestore, Remember, Return, Goto, TypeOK
  <2>2. caller[c] \in Memory /\ \A m : Remember(c, m) => caller'[c] = m
    BY DEF Remember, TypeOK
  <2>3. ASSUME UseScript(c) \/ FailUseScript(c) \/ InterruptSwitch(c)
        PROVE  caller'[c].n = caller[c].n
    BY <2>2, <2>3 DEF UseScript, FailUseScript, InterruptSwitch, Memory
  <2>4. ASSUME SetAuditProfile(c) \/ FailSetAuditProfile(c) PROVE caller'[c].n = caller[c].n
    BY <2>2, <2>4 DEF SetAuditProfile, FailSetAuditProfile, Return, Goto, Memory
  <2>5. ASSUME LeaveScript(c) \/ FailLeaveScript(c) \/ InterruptRestore(c)
        PROVE  caller'[c].n = caller[c].n
    BY <2>2, <2>5 DEF LeaveScript, FailLeaveScript, InterruptRestore, Return, Goto, Memory
  <2>6. QED
    BY <2>1, <2>3, <2>4, <2>5 DEF Switch
<1>7. QED
  BY <1>4, <1>5, <1>6 DEF Kept

LEMMA OthersTouch ==
    ASSUME TypeOK, NEW c \in Callers, Supervise(c) \/ Report(c) \/ Die(c)
    PROVE  /\ kind' = kind /\ caller'[c].n = caller[c].n
           /\ \A d \in Callers \ {c} : caller'[d] = caller[d]
           /\ \A d \in Callers, n \in 1..MaxRuns : <<d, n>> # Running(c) => Kept(d, n)
           /\ UNCHANGED <<script, traced, batch>>
<1>1. UNCHANGED <<kind, script, traced, batch>>
  BY DEF Supervise, StartProcess, FailStartProcess, PollProgress, ProcessEnded,
         DeadlineReached, KillProcessTree, KillNotConfirmed, Interrupt,
         Report, SaveConsoleOutput, SaveResult, FailSave, Die
<1>2. \A y \in Executions : y # Running(c) => proc'[y] = proc[y]
  BY DEF Supervise, StartProcess, FailStartProcess, PollProgress, ProcessEnded,
         DeadlineReached, KillProcessTree, KillNotConfirmed, Interrupt,
         Report, SaveConsoleOutput, SaveResult, FailSave, Die, TypeOK
<1>3. \A y \in Executions : y # Running(c) => saved'[y] = saved[y]
  BY DEF Supervise, StartProcess, FailStartProcess, PollProgress, ProcessEnded,
         DeadlineReached, KillProcessTree, KillNotConfirmed, Interrupt,
         Report, SaveConsoleOutput, SaveResult, FailSave, Die, TypeOK
<1>4. caller'[c].n = caller[c].n /\ \A d \in Callers \ {c} : caller'[d] = caller[d]
  <2>1. \A d \in Callers \ {c} : caller'[d] = caller[d]
    BY DEF Supervise, StartProcess, FailStartProcess, PollProgress, ProcessEnded,
           DeadlineReached, KillProcessTree, KillNotConfirmed, Interrupt,
           Report, SaveConsoleOutput, SaveResult, FailSave, Die, Remember, Goto, Return, TypeOK
  <2>2. caller[c] \in Memory /\ \A m : Remember(c, m) => caller'[c] = m
    BY DEF Remember, TypeOK
  <2>3. ASSUME StartProcess(c) \/ FailStartProcess(c) \/ KillNotConfirmed(c) \/ Interrupt(c)
        PROVE  caller'[c].n = caller[c].n
    BY <2>2, <2>3 DEF StartProcess, FailStartProcess, KillNotConfirmed, Interrupt, Memory
  <2>4. ASSUME PollProgress(c) \/ ProcessEnded(c) \/ DeadlineReached(c) \/ KillProcessTree(c)
        PROVE  caller'[c].n = caller[c].n
    BY <2>2, <2>4 DEF PollProgress, ProcessEnded, DeadlineReached, KillProcessTree, Goto, Memory
  <2>5. ASSUME Report(c) PROVE caller'[c].n = caller[c].n
    BY <2>2, <2>5 DEF Report, SaveConsoleOutput, SaveResult, FailSave, Goto, Return, Memory
  <2>6. ASSUME Die(c) PROVE caller'[c].n = caller[c].n
    BY <2>2, <2>6 DEF Die, Idle
  <2>7. QED
    BY <2>1, <2>3, <2>4, <2>5, <2>6 DEF Supervise
<1>5. QED
  BY <1>1, <1>2, <1>3, <1>4 DEF Kept, Executions

-----------------------------------------------------------------------------
(* The caller that takes the step *)

LEMMA OwnInv ==
    ASSUME TypeOK, NEW c \in Callers, CallerInv(c), kind' = kind,
           caller'[c].n = caller[c].n,
           \A n \in 1..MaxRuns : <<c, n>> # Running(c) => Kept(c, n),
           caller[c].n \in 1..MaxRuns => Always(c, caller[c].n)',
           Current(c)', CurrentAttempt(c)'
    PROVE  CallerInv(c)'
<1>1. caller[c].n \in Nat
  BY ExecutionAssumption DEF TypeOK, Memory
<1>2. ASSUME NEW n \in 1..MaxRuns PROVE Blank(c, n)' /\ Always(c, n)'
  <2>1. CASE n = caller[c].n
    BY <2>1 DEF Blank
  <2>2. CASE n # caller[c].n
    <3>1. Kept(c, n)
      BY <2>2 DEF Running
    <3>2. QED
      BY <1>1, <3>1, BlankKept, AlwaysKept DEF CallerInv
  <2>3. QED
    BY <2>1, <2>2
<1>3. QED
  BY <1>2 DEF CallerInv

LEMMA SwitchKeeps ==
    ASSUME TypeOK, NEW c \in Callers, CallerInv(c), Switch(c)
    PROVE  CallerInv(c)'
<1> DEFINE x == Running(c)
<1>0. ~At(c, "idle")
  BY DEF Switch, UseScript, FailUseScript, SetAuditProfile, FailSetAuditProfile,
         LeaveScript, FailLeaveScript, InterruptSwitch, InterruptRestore, At
<1>1. /\ x \in Executions /\ caller[c].n \in 1..MaxRuns
      /\ x = <<c, caller[c].n>> /\ x[1] = c
  BY <1>0, RunningTyped, ExecutionAssumption DEF Current, CallerInv, Running, TypeOK, Memory
<1>2. /\ kind' = kind /\ caller'[c].n = caller[c].n
      /\ \A n \in 1..MaxRuns : Kept(c, n)
      /\ UNCHANGED <<proc, batch, saved>>
  BY SwitchTouches
<1>3. Running(c)' = x /\ Kept(c, caller[c].n)
  BY <1>1, <1>2 DEF Running
<1>4. Always(c, caller[c].n)'
  BY <1>1, <1>2, AlwaysKept DEF CallerInv
<1>5. caller[c] \in Memory /\ \A m : Remember(c, m) => caller'[c] = m
  BY DEF TypeOK, Remember
<1>6. kind[c] = "candidate" => script[x] = x /\ script'[x] = x /\ Job(x) = x
  BY <1>0, <1>1, <1>3, JobTyped DEF CallerInv, CurrentAttempt, Kept
<1>7. CASE UseScript(c) \/ FailUseScript(c) \/ InterruptSwitch(c)
  <2>1. /\ caller'[c].original = script[Job(x)]
        /\ caller'[c].known = caller[c].known /\ caller'[c].dir = caller[c].dir
        /\ caller'[c].timedOut = caller[c].timedOut /\ caller'[c].raised = caller[c].raised
        /\ caller'[c].pc \in {"idle", "switched", "entered"} /\ At(c, "prepared")
    <3>1. CASE UseScript(c)
      <4>1. /\ At(c, "prepared")
            /\ \E pc \in {"switched", "entered"} :
                 caller'[c] = [caller[c] EXCEPT !.original = script[Job(x)],
                                                !.wasTraced = traced[Job(x)], !.pc = pc]
        BY <1>5, <3>1 DEF UseScript
      <4>2. QED
        BY <1>5, <4>1 DEF Memory
    <3>2. CASE FailUseScript(c)
      <4>1. /\ At(c, "prepared")
            /\ caller'[c] = [caller[c] EXCEPT !.pc = "idle", !.original = script[Job(x)],
                                              !.outcome = "entry_failed"]
        BY <1>5, <3>2 DEF FailUseScript
      <4>2. QED
        BY <1>5, <4>1 DEF Memory
    <3>3. CASE InterruptSwitch(c)
      <4>1. /\ At(c, "prepared")
            /\ caller'[c] = [caller[c] EXCEPT !.pc = "idle", !.original = script[Job(x)],
                                              !.wasTraced = traced[Job(x)],
                                              !.outcome = "interrupted"]
        BY <1>5, <3>3 DEF InterruptSwitch
      <4>2. QED
        BY <1>5, <4>1 DEF Memory
    <3>4. QED
      BY <1>7, <3>1, <3>2, <3>3
  <2>2. Current(c)'
    BY <1>1, <1>2, <1>3, <2>1 DEF CallerInv, Current, At, Over
  <2>3. CurrentAttempt(c)'
    BY <1>0, <1>1, <1>2, <1>3, <1>6, <2>1 DEF CallerInv, CurrentAttempt, At, Over
  <2>4. QED
    BY <1>2, <1>4, <2>2, <2>3, OwnInv
<1>8. CASE SetAuditProfile(c) \/ FailSetAuditProfile(c)
  <2>0. /\ caller[c].pc \in {"prepared", "switched", "entered"}
        /\ caller'[c].pc \in {"idle", "prepared", "switched", "entered", "restoring"}
        /\ caller'[c].dir = caller[c].dir /\ caller'[c].timedOut = caller[c].timedOut
        /\ At(c, "restoring")' => caller'[c].raised
        /\ ~At(c, "restoring")' => caller'[c].raised = caller[c].raised
    BY <1>5, <1>8 DEF SetAuditProfile, FailSetAuditProfile, Goto, Return, Memory, At
  <2>1. Current(c)'
    BY <1>1, <1>2, <1>3, <2>0 DEF CallerInv, Current, At, Over
  <2>2. CurrentAttempt(c)'
    BY <1>1, <1>2, <1>3, <1>5, <1>6, <1>8
       DEF SetAuditProfile, FailSetAuditProfile, Goto, Return, CallerInv, CurrentAttempt, At, Over, Memory
  <2>3. QED
    BY <1>2, <1>4, <2>1, <2>2, OwnInv
<1>9. CASE LeaveScript(c) \/ FailLeaveScript(c) \/ InterruptRestore(c)
  <2>1. Current(c)'
    BY <1>1, <1>2, <1>3, <1>5, <1>9
       DEF LeaveScript, FailLeaveScript, InterruptRestore, Goto, Return, CallerInv, Current, At, Over, Memory
  <2>2. CurrentAttempt(c)'
    BY <1>1, <1>2, <1>3, <1>5, <1>6, <1>9
       DEF LeaveScript, FailLeaveScript, InterruptRestore, Goto, Return, CallerInv, CurrentAttempt, At, Over, Memory
  <2>3. QED
    BY <1>2, <1>4, <2>1, <2>2, OwnInv
<1>10. QED
  BY <1>7, <1>8, <1>9 DEF Switch


\* The results directory of an attempt holds at most the directory of its own
\* BatchRunner.
LEMMA PollOfAttempt ==
    ASSUME TypeOK, NEW c \in Callers, CallerInv(c), kind[c] = "candidate", ~At(c, "idle")
    PROVE  /\ BatchDirs(Job(Running(c))) \subseteq {Running(c)}
           /\ \A d \in PollRunnerLog(c) :
                 /\ d \in {Running(c), None}
                 /\ d = None => caller[c].dir = None /\ batch[Running(c)] = "absent"
<1> DEFINE x == Running(c)
<1>1. x \in Executions /\ x[1] = c
  BY RunningTyped DEF Current, CallerInv, Running
<1>2. Job(x) = x
  BY <1>1, JobTyped
<1>3. \A y \in Executions : Job(y) = x => y = x
  BY <1>1, ConstantFacts DEF Job
<1>4. BatchDirs(Job(x)) \subseteq {x} /\ (BatchDirs(Job(x)) = {} => batch[x] = "absent")
  BY <1>1, <1>2, <1>3 DEF BatchDirs
<1>5. caller[c].known = {} /\ caller[c].dir \in {x, None}
  BY DEF CallerInv, CurrentAttempt
<1>6. x # None
  BY <1>1, ConstantFacts
<1>7. QED
  BY <1>4, <1>5, <1>6 DEF PollRunnerLog, FindNewBatchDir, NewBatchDirs

LEMMA SuperviseKeeps ==
    ASSUME TypeOK, NEW c \in Callers, CallerInv(c), Supervise(c)
    PROVE  CallerInv(c)'
<1> DEFINE x == Running(c)
<1>0. ~At(c, "idle")
  BY DEF Supervise, StartProcess, FailStartProcess, PollProgress, ProcessEnded,
         DeadlineReached, KillProcessTree, KillNotConfirmed, Interrupt, At
<1>1. /\ x \in Executions /\ caller[c].n \in 1..MaxRuns
      /\ x = <<c, caller[c].n>> /\ x[1] = c
  BY <1>0, RunningTyped, ExecutionAssumption DEF Current, CallerInv, Running, TypeOK, Memory
<1>2. /\ kind' = kind /\ caller'[c].n = caller[c].n
      /\ \A n \in 1..MaxRuns : <<c, n>> # x => Kept(c, n)
      /\ UNCHANGED <<script, batch>>
  BY OthersTouch
<1>3. Running(c)' = x /\ caller[c] \in Memory /\ \A m : Remember(c, m) => caller'[c] = m
  BY <1>1, <1>2 DEF Running, TypeOK, Remember
<1>4. saved' = saved
  BY DEF Supervise, StartProcess, FailStartProcess, PollProgress, ProcessEnded,
         DeadlineReached, KillProcessTree, KillNotConfirmed, Interrupt
<1>5. Always(c, caller[c].n) /\ Current(c) /\ CurrentAttempt(c)
  BY <1>1 DEF CallerInv
<1>6. proc[x] \in Process
  BY <1>1 DEF TypeOK
<1>7. ASSUME proc'[x] = proc[x] PROVE Always(c, caller[c].n)'
  BY <1>1, <1>2, <1>4, <1>5, <1>7, AlwaysKept DEF Kept
<1>8. CASE StartProcess(c)
  <2>1. proc'[x] = [proc[x] EXCEPT !.state = "started"] /\ proc[x].state = "none"
    BY <1>1, <1>5, <1>8 DEF StartProcess, TypeOK, Current, At
  <2>2. /\ proc'[x].state = "started" /\ proc'[x].loaded = proc[x].loaded
        /\ proc[x].loaded = None /\ ~saved[x].log /\ batch[x] = "absent"
    BY <1>1, <1>5, <1>6, <2>1 DEF Process, Always, Ended
  <2>3. /\ caller'[c].pc = "waiting" /\ caller'[c].known = BatchDirs(Job(x))
        /\ caller'[c].dir = caller[c].dir /\ caller'[c].original = caller[c].original
        /\ caller'[c].timedOut = caller[c].timedOut /\ caller'[c].raised = caller[c].raised
    BY <1>3, <1>8 DEF StartProcess, Memory
  <2>4. Always(c, caller[c].n)'
    <3>1. saved[x].result = None
      BY <1>1, <2>2 DEF TypeOK
    <3>2. kind[c] = "candidate" => script[x] = x
      BY <1>0, <1>5 DEF CurrentAttempt
    <3>3. QED
      BY <1>1, <1>2, <1>4, <2>2, <3>1, <3>2 DEF Always, Verdict, Ended
  <2>5. Current(c)'
    BY <1>1, <1>3, <1>4, <1>5, <1>8, <1>2, <2>2, <2>3 DEF StartProcess, Current, At, Over
  <2>6. CurrentAttempt(c)'
    <3>1. kind[c] = "candidate" => BatchDirs(Job(x)) = {}
      BY <1>0, <2>2, PollOfAttempt DEF BatchDirs
    <3>2. QED
      BY <1>0, <1>2, <1>3, <1>5, <1>8, <2>3, <3>1 DEF StartProcess, CurrentAttempt, At, Over
  <2>7. QED
    BY <1>2, <2>4, <2>5, <2>6, OwnInv
<1>9. CASE FailStartProcess(c) \/ KillNotConfirmed(c) \/ Interrupt(c)
  <2>1. proc' = proc
    BY <1>9 DEF FailStartProcess, KillNotConfirmed, Interrupt
  <2>2. /\ caller[c].pc \in {"entered", "waiting", "killing"}
        /\ caller'[c] = [caller[c] EXCEPT !.pc = "restoring", !.raised = TRUE]
    BY <1>3, <1>9 DEF FailStartProcess, KillNotConfirmed, Interrupt, At
  <2>3. /\ caller'[c].pc = "restoring" /\ caller'[c].raised
        /\ caller'[c].known = caller[c].known
        /\ caller'[c].dir = caller[c].dir /\ caller'[c].original = caller[c].original
    BY <1>3, <2>2 DEF Memory
  <2>4. Current(c)' /\ CurrentAttempt(c)'
    BY <1>0, <1>2, <1>3, <1>4, <1>5, <2>1, <2>2, <2>3 DEF Current, CurrentAttempt, At, Over
  <2>5. QED
    BY <1>2, <1>7, <2>1, <2>4, OwnInv
<1>10. CASE PollProgress(c) \/ ProcessEnded(c)
  <2>1. proc' = proc
    BY <1>10 DEF PollProgress, ProcessEnded
  <2>2. PICK d \in PollRunnerLog(c) :
           \/ caller'[c] = [caller[c] EXCEPT !.dir = d]
           \/ /\ proc[x].state = "exited"
              /\ caller'[c] = [caller[c] EXCEPT !.pc = "restoring", !.dir = d]
    BY <1>3, <1>10 DEF PollProgress, ProcessEnded
  <2>3. /\ At(c, "waiting") /\ caller'[c].dir = d
        /\ caller'[c].pc = "waiting" \/ (caller'[c].pc = "restoring" /\ proc[x].state = "exited")
        /\ caller'[c].known = caller[c].known /\ caller'[c].original = caller[c].original
        /\ caller'[c].timedOut = caller[c].timedOut /\ caller'[c].raised = caller[c].raised
    BY <1>3, <1>10, <2>2 DEF PollProgress, ProcessEnded, At, Memory
  <2>4. Current(c)'
    BY <1>2, <1>3, <1>4, <1>5, <2>1, <2>3 DEF Current, At, Over
  <2>5. CurrentAttempt(c)'
    BY <1>0, <1>2, <1>3, <1>5, <2>1, <2>3, PollOfAttempt DEF CurrentAttempt, At, Over
  <2>6. QED
    BY <1>2, <1>7, <2>1, <2>4, <2>5, OwnInv
<1>11. CASE DeadlineReached(c)
  <2>1. proc' = proc /\ At(c, "waiting")
    BY <1>11 DEF DeadlineReached
  <2>2. /\ caller'[c].pc = "killing" /\ caller'[c].dir = caller[c].dir
        /\ caller'[c].known = caller[c].known /\ caller'[c].original = caller[c].original
        /\ caller'[c].timedOut = caller[c].timedOut /\ caller'[c].raised = caller[c].raised
    BY <1>3, <1>11 DEF DeadlineReached, Goto, Memory
  <2>3. Current(c)' /\ CurrentAttempt(c)'
    BY <1>0, <1>2, <1>3, <1>4, <1>5, <2>1, <2>2 DEF Current, CurrentAttempt, At, Over
  <2>4. QED
    BY <1>2, <1>7, <2>1, <2>3, OwnInv
<1>12. CASE KillProcessTree(c)
  <2>1. At(c, "killing") /\ Alive(x) /\ proc'[x] = [proc[x] EXCEPT !.state = "killed"]
    BY <1>1, <1>12 DEF KillProcessTree, TypeOK
  <2>2. proc'[x].state = "killed" /\ proc'[x].loaded = proc[x].loaded
    BY <1>6, <2>1 DEF Process
  <2>3. PICK d \in PollRunnerLog(c) :
           caller'[c] = [caller[c] EXCEPT !.pc = "restoring", !.dir = d, !.timedOut = TRUE]
    BY <1>3, <1>12 DEF KillProcessTree
  <2>4. /\ caller'[c].dir = d /\ caller'[c].pc = "restoring" /\ caller'[c].timedOut
        /\ caller'[c].known = caller[c].known /\ caller'[c].original = caller[c].original
        /\ caller'[c].raised = caller[c].raised
    BY <1>3, <2>3 DEF Memory
  <2>5. ~saved[x].log /\ saved[x].result = None
    BY <1>0, <1>5, <2>1 DEF Current, At
  <2>6. Always(c, caller[c].n)'
    BY <1>1, <1>2, <1>4, <1>5, <2>1, <2>2, <2>5 DEF Always, Verdict, Alive, Ended
  <2>7. Current(c)'
    BY <1>1, <1>2, <1>3, <1>4, <1>5, <2>1, <2>2, <2>4, <2>5 DEF Current, At, Over
  <2>8. CurrentAttempt(c)'
    BY <1>0, <1>2, <1>3, <1>5, <2>1, <2>2, <2>4, PollOfAttempt DEF CurrentAttempt, At, Over
  <2>9. QED
    BY <1>2, <2>6, <2>7, <2>8, OwnInv
<1>13. QED
  BY <1>8, <1>9, <1>10, <1>11, <1>12 DEF Supervise


LEMMA ReportKeeps ==
    ASSUME TypeOK, NEW c \in Callers, CallerInv(c), Report(c)
    PROVE  CallerInv(c)'
<1> DEFINE x == Running(c)
<1>0. caller[c].pc \in {"ended", "logged"}
  BY DEF Report, SaveConsoleOutput, SaveResult, FailSave, At
<1>1. /\ x \in Executions /\ caller[c].n \in 1..MaxRuns
      /\ x = <<c, caller[c].n>> /\ x[1] = c
  BY <1>0, RunningTyped, ExecutionAssumption DEF Current, CallerInv, Running, At, TypeOK, Memory
<1>2. /\ kind' = kind /\ caller'[c].n = caller[c].n
      /\ \A n \in 1..MaxRuns : <<c, n>> # x => Kept(c, n)
      /\ UNCHANGED <<script, batch>>
  BY OthersTouch
<1>3. Running(c)' = x /\ caller[c] \in Memory /\ \A m : Remember(c, m) => caller'[c] = m
  BY <1>1, <1>2 DEF Running, TypeOK, Remember
<1>4. proc' = proc
  BY DEF Report, SaveConsoleOutput, SaveResult, FailSave
<1>5. Always(c, caller[c].n) /\ Current(c) /\ CurrentAttempt(c)
  BY <1>1 DEF CallerInv
<1>6. saved[x].result = None /\ proc[x].state = (IF caller[c].timedOut THEN "killed" ELSE "exited")
  BY <1>0, <1>5 DEF Current, At, Over
<1>7. CASE SaveConsoleOutput(c)
  <2>1. saved' = [saved EXCEPT ![x].log = TRUE] /\ At(c, "ended")
    BY <1>7 DEF SaveConsoleOutput
  <2>2. saved'[x].log /\ saved'[x].result = None
    BY <1>1, <1>6, <2>1 DEF TypeOK
  <2>3. /\ caller'[c].pc = "logged" /\ caller'[c].timedOut = caller[c].timedOut
        /\ caller'[c].dir = caller[c].dir /\ caller'[c].known = caller[c].known
        /\ caller'[c].original = caller[c].original
    BY <1>3, <1>7 DEF SaveConsoleOutput, Goto, Memory
  <2>4. Always(c, caller[c].n)'
    BY <1>1, <1>2, <1>4, <1>5, <1>6, <2>2 DEF Always, Verdict, Ended
  <2>5. Current(c)'
    BY <1>1, <1>2, <1>3, <1>4, <1>6, <2>2, <2>3 DEF Current, At, Over
  <2>6. CurrentAttempt(c)'
    BY <1>0, <1>2, <1>3, <1>4, <1>5, <2>3 DEF CurrentAttempt, At, Over
  <2>7. QED
    BY <1>2, <2>4, <2>5, <2>6, OwnInv
<1>8. CASE SaveResult(c)
  <2>1. saved' = [saved EXCEPT ![x].result = RunResult(c)] /\ At(c, "logged")
    BY <1>8 DEF SaveResult
  <2>2. saved'[x].log = saved[x].log /\ saved[x].log /\ saved'[x].result = RunResult(c)
    BY <1>1, <1>5, <2>1 DEF TypeOK, Current, At
  <2>3. caller'[c].pc = "idle"
    BY <1>3, <1>8 DEF SaveResult, Return, Memory
  <2>4. ASSUME kind[c] = "candidate" PROVE Verdict(x)'
    <3>1. caller[c].dir \in {x, None}
      BY <1>0, <1>5, <2>4 DEF CurrentAttempt, At
    <3>2. ASSUME RunResult(c).success
          PROVE  proc[x].state = "exited" /\ proc[x].loaded = x /\ proc[x].exit = 0
                 /\ batch[x] # "some_failed"
      <4>1. ExitCode(c) = 0 /\ ~caller[c].timedOut /\ ResolveError(c) = "none"
        BY <3>2 DEF RunResult
      <4>2. proc[x].state = "exited" /\ proc[x].exit = 0
        BY <1>6, <4>1 DEF ExitCode
      <4>3. proc[x].loaded = x
        BY <1>1, <1>5, <2>4, <4>2 DEF Always
      <4>4. ~ResolveBatchError(ReadBatchSummary(caller[c].dir))
        BY <4>1 DEF ResolveError
      <4>5. batch[x] # "some_failed"
        <5>1. CASE caller[c].dir = x
          BY <1>1, <4>4, <5>1, ConstantFacts DEF ResolveBatchError, ReadBatchSummary
        <5>2. CASE caller[c].dir = None
          BY <1>0, <1>5, <1>6, <2>4, <4>1, <5>2 DEF CurrentAttempt, At, Over
        <5>3. QED
          BY <3>1, <5>1, <5>2
      <4>6. QED
        BY <4>2, <4>3, <4>5
    <3>3. RunResult(c).dir = caller[c].dir
      BY DEF RunResult
    <3>4. QED
      BY <1>2, <1>3, <1>4, <2>2, <3>1, <3>2, <3>3 DEF Verdict
  <2>5. Always(c, caller[c].n)'
    <3>1. kind[c] = "candidate" => Verdict(<<c, caller[c].n>>)'
      BY <1>1, <1>2, <1>3, <2>4 DEF Running
    <3>2. QED
      BY <1>1, <1>2, <1>4, <1>5, <2>2, <3>1 DEF Always, Ended
  <2>6. Current(c)' /\ CurrentAttempt(c)'
    BY <2>3 DEF Current, CurrentAttempt, At
  <2>7. QED
    BY <1>2, <2>5, <2>6, OwnInv
<1>9. CASE FailSave(c)
  <2>1. saved' = saved /\ caller'[c].pc = "idle"
    BY <1>3, <1>9 DEF FailSave, Return, Memory
  <2>2. Always(c, caller[c].n)'
    BY <1>1, <1>2, <1>4, <1>5, <2>1, AlwaysKept DEF Kept
  <2>3. Current(c)' /\ CurrentAttempt(c)'
    BY <2>1 DEF Current, CurrentAttempt, At
  <2>4. QED
    BY <1>2, <2>2, <2>3, OwnInv
<1>10. QED
  BY <1>7, <1>8, <1>9 DEF Report

LEMMA DieKeeps ==
    ASSUME TypeOK, NEW c \in Callers, CallerInv(c), Die(c)
    PROVE  CallerInv(c)'
<1>1. /\ kind' = kind /\ caller'[c].n = caller[c].n
      /\ UNCHANGED <<script, batch, proc, saved>>
  BY OthersTouch DEF Die
<1>2. caller'[c].pc = "idle"
  BY DEF Die, Remember, Idle, TypeOK
<1>3. Current(c)' /\ CurrentAttempt(c)'
  BY <1>2 DEF Current, CurrentAttempt, At
<1>4. \A n \in 1..MaxRuns : Kept(c, n)
  BY <1>1 DEF Kept
<1>5. QED
  BY <1>1, <1>3, <1>4, AlwaysKept, OwnInv DEF CallerInv

\* The next execution has nothing yet but, for a candidate, the job written for it.
LEMMA PrepareTouches ==
    ASSUME TypeOK, NEW c \in Callers, Prepare(c)
    PROVE  /\ kind' = kind /\ UNCHANGED <<proc, batch, saved>>
           /\ \A d \in Callers \ {c} : caller'[d] = caller[d]
           /\ caller'[c].n = caller[c].n + 1 /\ caller'[c].n \in 1..MaxRuns
           /\ \A d \in Callers, n \in 1..MaxRuns : <<d, n>> # NextAttempt(c) => Kept(d, n)
           /\ script' = script \/ (StartAttempt(c) /\ script' = [script EXCEPT ![NextAttempt(c)] = NextAttempt(c)])
<1>1. kind' = kind /\ UNCHANGED <<proc, batch, saved>>
  BY DEF Prepare, ExecuteCmo, StartAttempt, FailPreparation
<1>2. caller[c].n \in 0..MaxRuns /\ caller[c].n < MaxRuns
  BY DEF Prepare, ExecuteCmo, StartAttempt, FailPreparation, CreateRun, TypeOK, Memory
<1>3. caller[c].n + 1 \in 1..MaxRuns /\ NextAttempt(c) \in Executions
  BY <1>2, ExecutionAssumption DEF NextAttempt, Executions
<1>4. \A d \in Callers \ {c} : caller'[d] = caller[d]
  BY DEF Prepare, ExecuteCmo, StartAttempt, FailPreparation, CreateRun, Remember, TypeOK
<1>5. caller'[c].n = caller[c].n + 1
  <2>1. \A m : Remember(c, m) => caller'[c] = m
    BY DEF Remember, TypeOK
  <2>2. QED
    BY <2>1 DEF Prepare, ExecuteCmo, StartAttempt, FailPreparation, CreateRun, Idle
<1>6. script' = script \/ (StartAttempt(c) /\ script' = [script EXCEPT ![NextAttempt(c)] = NextAttempt(c)])
  <2>1. CASE StartAttempt(c)
    <3>1. kind[c] = "candidate"
      BY <2>1 DEF StartAttempt, Candidates, Chats, TypeOK
    <3>2. Job(NextAttempt(c)) = NextAttempt(c)
      BY <1>3, <3>1, JobTyped DEF NextAttempt
    <3>3. QED
      BY <2>1, <3>2 DEF StartAttempt, BuildJob
  <2>2. CASE ExecuteCmo(c) \/ FailPreparation(c)
    BY <2>2 DEF ExecuteCmo, FailPreparation
  <2>3. QED
    BY <2>1, <2>2 DEF Prepare
<1>7. \A y \in Executions : y # NextAttempt(c) => script'[y] = script[y]
  BY <1>6, ConstantFacts DEF TypeOK
<1>8. QED
  BY <1>1, <1>3, <1>4, <1>5, <1>6, <1>7 DEF Kept, Executions

LEMMA PrepareKeeps ==
    ASSUME TypeOK, NEW c \in Callers, CallerInv(c), Prepare(c)
    PROVE  CallerInv(c)'
<1>0. PICK m \in 1..MaxRuns : m = caller[c].n + 1
  BY PrepareTouches
<1> DEFINE x == <<c, m>>
<1>1. /\ kind' = kind /\ UNCHANGED <<proc, batch, saved>>
      /\ caller'[c].n = m /\ NextAttempt(c) = x
      /\ \A n \in 1..MaxRuns : n # m => Kept(c, n)
  BY <1>0, PrepareTouches DEF NextAttempt
<1>2. x \in Executions /\ caller[c].n \in Nat /\ m > caller[c].n
  BY <1>0, ExecutionAssumption DEF Executions, TypeOK, Memory
<1>3. /\ proc[x].state = "none" /\ ~saved[x].log /\ saved[x].result = None
      /\ Always(c, m)
  BY <1>1, <1>2 DEF CallerInv, Blank
<1>4. proc[x].loaded = None /\ batch[x] = "absent"
  BY <1>3 DEF Always
<1>5. kind[c] = "candidate" => script'[x] \in {x, None}
  BY <1>1, <1>2, <1>3, PrepareTouches, ConstantFacts DEF Always, TypeOK
<1>6. Always(c, m)'
  BY <1>1, <1>3, <1>4, <1>5 DEF Always, Verdict, Ended
<1>7. ASSUME NEW n \in 1..MaxRuns PROVE Blank(c, n)' /\ Always(c, n)'
  <2>1. CASE n = m
    BY <1>1, <1>6, <2>1 DEF Blank
  <2>2. CASE n # m
    BY <1>1, <1>2, <2>2, BlankKept, AlwaysKept DEF CallerInv
  <2>3. QED
    BY <2>1, <2>2
<1>8. Running(c)' = x
  BY <1>1 DEF Running
<1>9. CASE FailPreparation(c)
  <2>1. caller'[c].pc = "idle"
    BY <1>9 DEF FailPreparation, Remember, Idle, TypeOK
  <2>2. QED
    BY <1>7, <2>1 DEF CallerInv, Current, CurrentAttempt, At
<1>10. CASE ExecuteCmo(c) \/ StartAttempt(c)
  <2>0. \A r : Remember(c, r) => caller'[c] = r
    BY DEF Remember, TypeOK
  <2>1. /\ caller'[c].pc = "prepared" /\ caller'[c].dir = None /\ caller'[c].known = {}
        /\ ~caller'[c].timedOut /\ ~caller'[c].raised
    BY <1>10, <2>0 DEF ExecuteCmo, StartAttempt, CreateRun, Idle
  <2>2. kind[c] = "candidate" => script'[x] = x
    <3>1. kind[c] = "candidate" => StartAttempt(c)
      BY <1>10 DEF ExecuteCmo, Chats
    <3>2. StartAttempt(c) => Job(NextAttempt(c)) = x \/ kind[c] = "chat"
      BY <1>1, <1>2, JobTyped DEF TypeOK
    <3>3. QED
      BY <1>1, <1>2, <3>1, <3>2, ConstantFacts DEF StartAttempt, BuildJob, TypeOK
  <2>3. Current(c)'
    BY <1>1, <1>2, <1>3, <1>8, <2>1 DEF Current, At, Over
  <2>4. CurrentAttempt(c)'
    BY <1>1, <1>8, <2>1, <2>2 DEF CurrentAttempt, At, Over
  <2>5. QED
    BY <1>7, <2>3, <2>4 DEF CallerInv
<1>11. QED
  BY <1>9, <1>10 DEF Prepare


-----------------------------------------------------------------------------
(* A BatchRunner touches its own execution only *)

LEMMA BatchRunnerTouches ==
    ASSUME TypeOK, NEW x \in Executions, BatchRunner(x)
    PROVE  /\ UNCHANGED <<kind, script, traced, saved, caller>>
           /\ \A y \in Executions : y # x => proc'[y] = proc[y] /\ batch'[y] = batch[y]
           /\ proc[x].state \in {"started", "running"}
           /\ proc'[x].state \in {"running", "exited"}
           /\ \/ /\ proc[x].state = "started" /\ proc'[x].state = "running"
                 /\ proc'[x].loaded = script[Job(x)]
              \/ /\ proc[x].state = "started" /\ proc'[x].state = "exited"
                 /\ proc'[x].loaded = proc[x].loaded /\ proc'[x].exit = 1 /\ batch' = batch
              \/ /\ proc[x].state = "running" /\ proc'[x].state = "exited"
                 /\ proc'[x].loaded = proc[x].loaded
<1>1. proc[x] \in Process
  BY DEF TypeOK
<1>2. CASE LoadJob(x)
  <2>1. proc'[x] = [proc[x] EXCEPT !.state = "running", !.loaded = script[Job(x)]]
    BY <1>2 DEF LoadJob, TypeOK
  <2>2. proc'[x].state = "running" /\ proc'[x].loaded = script[Job(x)]
    BY <1>1, <2>1 DEF Process
  <2>3. QED
    BY <1>2, <2>2 DEF LoadJob, TypeOK
<1>3. CASE EndProcess(x)
  <2>1. PICK e \in {0, 1}, t \in Consoles :
           proc' = [proc EXCEPT ![x].state = "exited", ![x].exit = e, ![x].console = t]
    BY <1>3 DEF EndProcess
  <2>2. proc'[x] = [proc[x] EXCEPT !.state = "exited", !.exit = e, !.console = t]
    BY <2>1 DEF TypeOK
  <2>3. proc'[x].state = "exited" /\ proc'[x].loaded = proc[x].loaded
    BY <1>1, <2>2 DEF Process
  <2>4. \A y \in Executions : y # x => proc'[y] = proc[y] /\ batch'[y] = batch[y]
    BY <1>3, <2>1 DEF EndProcess, TypeOK
  <2>5. QED
    BY <1>3, <2>3, <2>4 DEF EndProcess
<1>4. CASE RefuseJob(x)
  <2>1. proc'[x] = [proc[x] EXCEPT !.state = "exited", !.exit = 1]
    BY <1>4 DEF RefuseJob, TypeOK
  <2>2. proc'[x].state = "exited" /\ proc'[x].loaded = proc[x].loaded /\ proc'[x].exit = 1
    BY <1>1, <2>1 DEF Process
  <2>3. QED
    BY <1>4, <2>2 DEF RefuseJob, TypeOK
<1>5. QED
  BY <1>2, <1>3, <1>4 DEF BatchRunner

LEMMA BatchRunnerKeeps ==
    ASSUME TypeOK, TypeOK', NEW x \in Executions, BatchRunner(x), NEW c \in Callers, CallerInv(c)
    PROVE  CallerInv(c)'
<1>1. /\ UNCHANGED <<kind, script, saved, caller>>
      /\ \A n \in 1..MaxRuns : <<c, n>> # x => Kept(c, n)
      /\ proc[x].state \in {"started", "running"} /\ proc'[x].state \in {"running", "exited"}
  BY BatchRunnerTouches DEF Kept, Executions
<1>2. CASE x[1] # c
  <2>1. \A n \in 1..MaxRuns : Kept(c, n)
    BY <1>1, <1>2
  <2>2. QED
    BY <1>1, <2>1, CallerKept
<1>3. CASE x[1] = c
  <2>1. PICK m \in 1..MaxRuns : x = <<c, m>>
    BY <1>3 DEF Executions
  <2>2. Always(c, m) /\ Blank(c, m) /\ Current(c) /\ CurrentAttempt(c)
    BY DEF CallerInv
  <2>3. ~saved[x].log /\ saved[x].result = None
    BY <1>1, <2>1, <2>2 DEF Always, Ended, TypeOK
  <2>4. kind[c] = "candidate" =>
           /\ proc'[x].state = "running" => proc'[x].loaded # None
           /\ proc'[x].state = "exited" /\ proc'[x].exit = 0 => proc'[x].loaded # None
           /\ proc'[x].loaded = None => batch'[x] = "absent"
           /\ proc'[x].loaded \in {x, None}
    <3>1. SUFFICES ASSUME kind[c] = "candidate" PROVE <2>4!2
      OBVIOUS
    <3>2. Job(x) = x /\ script[x] = x /\ x # None
      BY <1>1, <1>3, <2>1, <2>2, <3>1, JobTyped, ConstantFacts DEF Always
    <3>3. /\ proc[x].loaded = None => batch[x] = "absent"
          /\ proc[x].state = "started" => proc[x].loaded = None
          /\ proc[x].state = "running" => proc[x].loaded # None
          /\ proc[x].loaded \in {x, None}
      BY <2>1, <2>2, <3>1 DEF Always
    <3>4. CASE proc[x].state = "started" /\ proc'[x].state = "running"
      BY <3>2, <3>4, BatchRunnerTouches
    <3>5. CASE proc[x].state = "started" /\ proc'[x].state = "exited"
      BY <3>3, <3>5, BatchRunnerTouches
    <3>6. CASE proc[x].state = "running"
      BY <3>3, <3>6, BatchRunnerTouches
    <3>7. QED
      BY <1>1, <3>4, <3>5, <3>6
  <2>5. Always(c, m)'
    BY <1>1, <2>1, <2>2, <2>3, <2>4 DEF Always, Verdict, Ended
  <2>6. \A n \in 1..MaxRuns : Blank(c, n)' /\ Always(c, n)'
    <3>1. SUFFICES ASSUME NEW n \in 1..MaxRuns PROVE Blank(c, n)' /\ Always(c, n)'
      OBVIOUS
    <3>2. CASE n = m
      <4>1. ~(m > caller[c].n)
        BY <1>1, <2>1, <2>2 DEF Blank
      <4>2. QED
        BY <1>1, <2>5, <3>2, <4>1 DEF Blank
    <3>3. CASE n # m
      <4>1. Kept(c, n) /\ Blank(c, n) /\ Always(c, n)
        BY <1>1, <2>1, <3>3 DEF CallerInv
      <4>2. caller'[c].n \in Nat /\ caller'[c].n >= caller[c].n
        BY <1>1, ExecutionAssumption DEF TypeOK, Memory
      <4>3. QED
        BY <1>1, <4>1, <4>2, BlankKept, AlwaysKept
    <3>4. QED
      BY <3>2, <3>3
  <2>7. Current(c)' /\ CurrentAttempt(c)'
    <3>1. CASE Running(c) = x
      <4>1. ~Over(c) /\ ~(caller[c].pc \in {"prepared", "switched", "entered"})
        BY <1>1, <2>2, <3>1 DEF Current, Over, At
      <4>2. Running(c)' = x /\ ~Over(c)'
        BY <1>1, <3>1, <4>1 DEF Running, Over, At
      <4>3. Current(c)'
        BY <1>1, <2>2, <3>1, <4>1, <4>2 DEF Current, At
      <4>4. CurrentAttempt(c)'
        BY <1>1, <2>2, <3>1, <4>1, <4>2 DEF CurrentAttempt, At
      <4>5. QED
        BY <4>3, <4>4
    <3>2. CASE Running(c) # x
      <4>1. CASE At(c, "idle")
        BY <1>1, <4>1 DEF Current, CurrentAttempt, At
      <4>2. CASE ~At(c, "idle")
        <5>1. caller[c].n \in 1..MaxRuns
          BY <2>2, <4>2, ExecutionAssumption DEF Current, TypeOK, Memory
        <5>2. Kept(c, caller[c].n)
          BY <1>1, <3>2, <5>1 DEF Running
        <5>3. QED
          BY <1>1, <2>2, <4>2, <5>2 DEF Kept, Current, CurrentAttempt, Running, At, Over
      <4>3. QED
        BY <4>1, <4>2
    <3>3. QED
      BY <3>1, <3>2
  <2>8. QED
    BY <2>6, <2>7 DEF CallerInv
<1>4. QED
  BY <1>2, <1>3


-----------------------------------------------------------------------------
(* The invariant of every caller *)

LEMMA CmoInvInit == Init => CmoInv
<1> SUFFICES ASSUME Init PROVE CmoInv
  OBVIOUS
<1>1. \A x \in Executions : x \in Jobs /\ x # Shared
  BY ConstantFacts
<1>2. TypeOK
  <2>1. script \in [Jobs -> Scripts] /\ traced \in [Jobs -> BOOLEAN]
    BY ConstantFacts DEF Init, Scripts
  <2>2. /\ proc \in [Executions -> Process] /\ caller \in [Callers -> Memory]
        /\ batch \in [Executions -> Logs \cup {"absent"}]
    BY ConstantFacts DEF Init
  <2>3. saved \in [Executions -> [log : BOOLEAN, result : Results \cup {None}]]
    BY DEF Init
  <2>4. QED
    BY <2>1, <2>2, <2>3, ExecutionAssumption DEF Init, TypeOK
<1>3. ASSUME NEW c \in Callers PROVE CallerInv(c)
  <2>1. At(c, "idle") /\ caller[c].n = 0
    BY DEF Init, At, Idle
  <2>2. ASSUME NEW n \in 1..MaxRuns PROVE Blank(c, n) /\ Always(c, n)
    <3>1. <<c, n>> \in Executions
      BY DEF Executions
    <3>2. /\ proc[<<c, n>>].state = "none" /\ proc[<<c, n>>].loaded = None
          /\ batch[<<c, n>>] = "absent" /\ script[<<c, n>>] = None
          /\ ~saved[<<c, n>>].log /\ saved[<<c, n>>].result = None
      BY <1>1, <3>1 DEF Init, NoProcess
    <3>3. QED
      BY <3>2 DEF Blank, Always, Verdict, Ended
  <2>3. QED
    BY <2>1, <2>2 DEF CallerInv, Current, CurrentAttempt
<1>4. QED
  BY <1>2, <1>3 DEF CmoInv

LEMMA CmoInvNext == CmoInv /\ [Next]_vars => CmoInv'
<1> SUFFICES ASSUME CmoInv, [Next]_vars PROVE CmoInv'
  OBVIOUS
<1>1. TypeOK /\ \A d \in Callers : CallerInv(d)
  BY DEF CmoInv
<1>2. ASSUME NEW c \in Callers, Prepare(c) PROVE CmoInv'
  <2>1. TypeOK'
    BY <1>1, <1>2, PrepareTyped
  <2>2. ASSUME NEW d \in Callers, d # c PROVE CallerInv(d)'
    <3>1. \A n \in 1..MaxRuns : Kept(d, n)
      BY <1>1, <1>2, <2>2, PrepareTouches DEF NextAttempt
    <3>2. kind' = kind /\ caller'[d] = caller[d]
      BY <1>1, <1>2, <2>2, PrepareTouches
    <3>3. QED
      BY <1>1, <2>1, <3>1, <3>2, CallerKept
  <2>3. CallerInv(c)'
    BY <1>1, <1>2, PrepareKeeps
  <2>4. QED
    BY <2>1, <2>2, <2>3 DEF CmoInv
<1>3. ASSUME NEW c \in Callers, Switch(c) PROVE CmoInv'
  <2>1. TypeOK'
    BY <1>1, <1>3, SwitchTyped DEF CallerInv
  <2>2. ASSUME NEW d \in Callers, d # c PROVE CallerInv(d)'
    BY <1>1, <1>3, <2>1, <2>2, SwitchTouches, CallerKept
  <2>3. CallerInv(c)'
    BY <1>1, <1>3, SwitchKeeps
  <2>4. QED
    BY <2>1, <2>2, <2>3 DEF CmoInv
<1>4. ASSUME NEW c \in Callers, Supervise(c) \/ Report(c) \/ Die(c) PROVE CmoInv'
  <2>1. TypeOK'
    BY <1>1, <1>4, SuperviseTyped, ReportTyped, DieTyped DEF CallerInv
  <2>2. ASSUME NEW d \in Callers, d # c PROVE CallerInv(d)'
    <3>1. \A n \in 1..MaxRuns : Kept(d, n)
      BY <1>1, <1>4, <2>2, OthersTouch DEF Running
    <3>2. kind' = kind /\ caller'[d] = caller[d]
      BY <1>1, <1>4, <2>2, OthersTouch
    <3>3. QED
      BY <1>1, <2>1, <3>1, <3>2, CallerKept
  <2>3. CallerInv(c)'
    BY <1>1, <1>4, SuperviseKeeps, ReportKeeps, DieKeeps
  <2>4. QED
    BY <2>1, <2>2, <2>3 DEF CmoInv
<1>5. ASSUME NEW x \in Executions, BatchRunner(x) PROVE CmoInv'
  BY <1>1, <1>5, BatchRunnerTyped, BatchRunnerKeeps DEF CmoInv
<1>6. ASSUME UNCHANGED vars PROVE CmoInv'
  <2>1. TypeOK' /\ kind' = kind
    BY <1>1, <1>6 DEF vars, TypeOK
  <2>2. ASSUME NEW d \in Callers PROVE CallerInv(d)'
    BY <1>1, <1>6, <2>1, CallerKept DEF vars, Kept
  <2>3. QED
    BY <2>1, <2>2 DEF CmoInv
<1>7. QED
  BY <1>2, <1>3, <1>4, <1>5, <1>6 DEF Next

\* The invariant of the executions holds in every state, whatever dies or hangs.
THEOREM SpecImpliesCmoInv == Spec => []CmoInv
<1>1. Init => CmoInv
  BY CmoInvInit
<1>2. CmoInv /\ [Next]_vars => CmoInv'
  BY CmoInvNext
<1>3. QED
  BY <1>1, <1>2, PTL DEF Spec

\* What callers, processes and files hold is always of its type, and no result
\* is on disk without the console text it was made from.
THEOREM SpecImpliesTypeOK == Spec => []TypeOK
<1>1. CmoInv => TypeOK
  BY DEF CmoInv
<1>2. QED
  BY <1>1, SpecImpliesCmoInv, PTL

\* With any number of chats and candidates: a candidate is judged by its own
\* process, script and directory, and a reported process writes nothing more.
THEOREM SpecImpliesVerdicts == Spec => [](AttemptVerdictSound /\ ReportedProcessEnded)
<1>1. CmoInv => AttemptVerdictSound /\ ReportedProcessEnded
  <2>1. SUFFICES ASSUME CmoInv PROVE AttemptVerdictSound /\ ReportedProcessEnded
    OBVIOUS
  <2>2. ASSUME NEW x \in Executions PROVE x[1] \in Callers /\ Always(x[1], x[2]) /\ x = <<x[1], x[2]>>
    BY <2>1, <2>2 DEF Executions, CmoInv, CallerInv
  <2>3. ReportedProcessEnded
    BY <2>2 DEF ReportedProcessEnded, Always, Ended, Alive
  <2>4. AttemptVerdictSound
    <3>1. SUFFICES ASSUME NEW x \in Executions, x[1] \in Candidates, saved[x].result # None
                   PROVE  /\ saved[x].result.dir \in {x, None}
                          /\ saved[x].result.success =>
                                /\ proc[x].state = "exited" /\ proc[x].loaded = x /\ proc[x].exit = 0
                                /\ batch[x] # "some_failed"
      BY ConstantFacts DEF AttemptVerdictSound, ResolveBatchError, ReadBatchSummary
    <3>2. kind[x[1]] = "candidate"
      BY <2>1, <3>1 DEF Candidates, Chats, CmoInv, TypeOK
    <3>3. Verdict(x)
      BY <2>2, <3>2 DEF Always
    <3>4. QED
      BY <3>1, <3>3 DEF Verdict
  <2>5. QED
    BY <2>3, <2>4
<1>2. QED
  BY <1>1, SpecImpliesCmoInv, PTL


-----------------------------------------------------------------------------
(* The configuration files *)

\* Only executions of one chat have a configuration file in common.
LEMMA JobsApart ==
    ASSUME TypeOK, OneChat, NEW x \in Executions, NEW y \in Executions, x[1] # y[1]
    PROVE  Job(x) # Job(y)
BY JobTyped, ConstantFacts DEF OneChat, Chats, TypeOK

LEMMA SwitchWrites ==
    ASSUME TypeOK, NEW c \in Callers, Switch(c)
    PROVE  \A j \in Jobs \ {Job(Running(c))} : script'[j] = script[j] /\ traced'[j] = traced[j]
<1>1. \A j \in Jobs \ {Job(Running(c))} : script'[j] = script[j]
  BY DEF Switch, UseScript, FailUseScript, SetAuditProfile, FailSetAuditProfile,
         LeaveScript, FailLeaveScript, InterruptSwitch, InterruptRestore, SetScript, TypeOK
<1>2. \A j \in Jobs \ {Job(Running(c))} : traced'[j] = traced[j]
  BY DEF Switch, UseScript, FailUseScript, SetAuditProfile, FailSetAuditProfile,
         LeaveScript, FailLeaveScript, InterruptSwitch, InterruptRestore, TypeOK
<1>3. QED
  BY <1>1, <1>2

LEMMA PrepareWrites ==
    ASSUME TypeOK, NEW c \in Callers, Prepare(c)
    PROVE  \A j \in Jobs \ {NextAttempt(c)} : script'[j] = script[j] /\ traced'[j] = traced[j]
<1>1. NextAttempt(c) \in Executions
  BY PrepareTouches DEF NextAttempt, Executions
<1>2. CASE StartAttempt(c)
  <2>1. kind[c] = "candidate"
    BY <1>2 DEF StartAttempt, Candidates, Chats, TypeOK
  <2>2. Job(NextAttempt(c)) = NextAttempt(c)
    BY <1>1, <2>1, JobTyped DEF NextAttempt
  <2>3. QED
    BY <1>2, <2>2 DEF StartAttempt, BuildJob, TypeOK
<1>3. CASE ExecuteCmo(c) \/ FailPreparation(c)
  BY <1>3 DEF ExecuteCmo, FailPreparation
<1>4. QED
  BY <1>2, <1>3 DEF Prepare

\* What another caller does leaves the files of caller c alone.
LEMMA FilesKept ==
    ASSUME TypeOK, OneChat, NEW c \in Callers, CallerInv(c), NEW d \in Callers, d # c,
           CallerInv(d), Prepare(d) \/ Switch(d) \/ Supervise(d) \/ Report(d) \/ Die(d)
    PROVE  /\ kind' = kind /\ caller'[c] = caller[c]
           /\ c \in Chats => script'[Shared] = script[Shared]
           /\ Running(c) \in Executions =>
                 /\ script'[Job(Running(c))] = script[Job(Running(c))]
                 /\ traced'[Job(Running(c))] = traced[Job(Running(c))]
                 /\ proc'[Running(c)] = proc[Running(c)]
           /\ \A x \in Executions : x[1] = c => proc'[x] = proc[x] /\ saved'[x] = saved[x]
<1>1. kind' = kind /\ caller'[c] = caller[c]
  BY PrepareTouches, SwitchTouches, OthersTouch
<1>2. \A x \in Executions : x[1] = c => proc'[x] = proc[x] /\ saved'[x] = saved[x]
  BY PrepareTouches, SwitchTouches, OthersTouch DEF Kept, Executions, Running
<1>3. ASSUME NEW j \in Jobs, Switch(d) => j # Job(Running(d)), Prepare(d) => j # NextAttempt(d)
      PROVE  script'[j] = script[j] /\ traced'[j] = traced[j]
  BY <1>3, PrepareWrites, SwitchWrites, OthersTouch
<1>4. Switch(d) => Running(d) \in Executions /\ Running(d)[1] = d
  <2>1. Switch(d) => ~At(d, "idle")
    BY DEF Switch, UseScript, FailUseScript, SetAuditProfile, FailSetAuditProfile,
           LeaveScript, FailLeaveScript, InterruptSwitch, InterruptRestore, At
  <2>2. QED
    BY <2>1, RunningTyped DEF CallerInv, Current, Running
<1>5. Prepare(d) => NextAttempt(d) \in Executions /\ NextAttempt(d)[1] = d
  BY PrepareTouches DEF NextAttempt, Executions
<1>6. c \in Chats => script'[Shared] = script[Shared]
  <2>1. SUFFICES ASSUME c \in Chats PROVE script'[Shared] = script[Shared]
    OBVIOUS
  <2>2. kind[d] = "candidate"
    BY <2>1 DEF OneChat, Chats, TypeOK
  <2>3. Switch(d) => Shared # Job(Running(d))
    BY <1>4, <2>2, JobTyped, ConstantFacts
  <2>4. Prepare(d) => Shared # NextAttempt(d)
    BY <1>5, ConstantFacts
  <2>5. QED
    BY <1>3, <2>3, <2>4, ConstantFacts
<1>7. ASSUME Running(c) \in Executions
      PROVE  /\ script'[Job(Running(c))] = script[Job(Running(c))]
             /\ traced'[Job(Running(c))] = traced[Job(Running(c))]
  <2>1. Running(c)[1] = c /\ Job(Running(c)) \in Jobs
    BY <1>7, JobTyped DEF Running
  <2>2. Switch(d) => Job(Running(c)) # Job(Running(d))
    BY <1>4, <1>7, <2>1, JobsApart
  <2>3. Prepare(d) => Job(Running(c)) # NextAttempt(d)
    BY <1>5, <1>7, <2>1, ConstantFacts DEF Job
  <2>4. QED
    BY <1>3, <2>1, <2>2, <2>3
<1>8. QED
  BY <1>1, <1>2, <1>6, <1>7 DEF Running


\* The caller of the step keeps its own promises.
LEMMA GivenKept ==
    ASSUME TypeOK, NEW c \in Callers, CallerInv(c), Given(c),
           Prepare(c) \/ Switch(c) \/ Supervise(c) \/ Report(c) \/ Die(c)
    PROVE  Given(c)'
<1>1. /\ caller[c] \in Memory /\ \A m : Remember(c, m) => caller'[c] = m
      /\ ~At(c, "idle") => Running(c) \in Executions /\ caller[c].n >= 1
  BY RunningTyped DEF TypeOK, Remember, CallerInv, Current
<1>2. CASE Prepare(c)
  <2>1. caller'[c].pc \in {"prepared", "idle"} /\ caller'[c].original = None
    BY <1>1, <1>2 DEF Prepare, ExecuteCmo, StartAttempt, FailPreparation, CreateRun, Idle
  <2>2. QED
    BY <2>1 DEF Given, At
<1>3. CASE Switch(c)
  <2> DEFINE j == Job(Running(c))
  <2>1. CASE LeaveScript(c)
    <3>1. j \in Jobs /\ caller[c].n >= 1 /\ Running(c) \in Executions
      BY <1>1, <2>1, JobTyped DEF LeaveScript, At
    <3>2. script'[j] = caller[c].original /\ traced'[j] = caller[c].wasTraced
      BY <2>1, <3>1 DEF LeaveScript, SetScript, TypeOK
    <3>3. /\ caller'[c].n = caller[c].n /\ caller'[c].original = caller[c].original
          /\ caller'[c].wasTraced = caller[c].wasTraced
      BY <1>1, <2>1 DEF LeaveScript, Return, Goto, Memory
    <3>4. kind' = kind
      BY <2>1 DEF LeaveScript
    <3>5. Job(Running(c))' = j
      BY <3>3, <3>4 DEF Job, Running
    <3>6. QED
      BY <3>1, <3>2, <3>3, <3>5 DEF Given
  <2>2. CASE ~LeaveScript(c)
    <3>1. \/ caller'[c].pc \in {"switched", "entered"}
          \/ caller'[c].pc = "idle" /\ caller'[c].outcome \in Unreturned
      <4>1. CASE UseScript(c) \/ FailUseScript(c) \/ InterruptSwitch(c)
        BY <1>1, <4>1 DEF UseScript, FailUseScript, InterruptSwitch, Unreturned, Memory
      <4>2. CASE SetAuditProfile(c) \/ FailSetAuditProfile(c) \/ FailLeaveScript(c)
                 \/ InterruptRestore(c)
        BY <1>1, <4>2 DEF SetAuditProfile, FailSetAuditProfile, FailLeaveScript, InterruptRestore,
                          Goto, Return, Unreturned, Memory
      <4>3. QED
        BY <1>3, <2>2, <4>1, <4>2 DEF Switch
    <3>2. QED
      BY <3>1 DEF Given, At
  <2>3. QED
    BY <2>1, <2>2
<1>4. CASE Supervise(c)
  <2>1. caller'[c].pc \in {"waiting", "killing", "restoring"}
    <3>1. CASE StartProcess(c) \/ FailStartProcess(c) \/ KillNotConfirmed(c) \/ Interrupt(c)
      BY <1>1, <3>1 DEF StartProcess, FailStartProcess, KillNotConfirmed, Interrupt, Memory
    <3>2. CASE PollProgress(c) \/ ProcessEnded(c) \/ DeadlineReached(c) \/ KillProcessTree(c)
      BY <1>1, <3>2 DEF PollProgress, ProcessEnded, DeadlineReached, KillProcessTree, Goto, At, Memory
    <3>3. QED
      BY <1>4, <3>1, <3>2 DEF Supervise
  <2>2. QED
    BY <2>1 DEF Given, At
<1>5. CASE Report(c)
  <2>1. caller[c].pc \in {"ended", "logged"} /\ UNCHANGED <<kind, script, traced>>
    BY <1>5 DEF Report, SaveConsoleOutput, SaveResult, FailSave, At
  <2>2. /\ caller'[c].n = caller[c].n /\ caller'[c].original = caller[c].original
        /\ caller'[c].wasTraced = caller[c].wasTraced
    BY <1>1, <1>5 DEF Report, SaveConsoleOutput, SaveResult, FailSave, Goto, Return, Memory
  <2>3. Job(Running(c))' = Job(Running(c))
    BY <2>1, <2>2 DEF Job, Running
  <2>4. QED
    BY <2>1, <2>2, <2>3 DEF Given
<1>6. CASE Die(c)
  <2>1. caller'[c].pc = "idle" /\ caller'[c].outcome = "crashed"
    BY <1>1, <1>6 DEF Die, Idle
  <2>2. QED
    BY <2>1 DEF Given, Unreturned, At
<1>7. QED
  BY <1>2, <1>3, <1>4, <1>5, <1>6

\* A caller never changes what a BatchRunner has loaded, and nothing of one that
\* has ended.
LEMMA LoadedKept ==
    ASSUME TypeOK, NEW c \in Callers, CallerInv(c), NEW x \in Executions,
           Prepare(c) \/ Switch(c) \/ Supervise(c) \/ Report(c) \/ Die(c)
    PROVE  /\ proc'[x].loaded = proc[x].loaded
           /\ Ended(x) => proc'[x] = proc[x]
           /\ saved'[x].log = saved[x].log \/ x = Running(c)
           /\ saved'[x].result = saved[x].result \/ (x = Running(c) /\ SaveResult(c))
<1>1. /\ proc[x] \in Process
      /\ saved[x] \in [log : BOOLEAN, result : Results \cup {None}]
  BY DEF TypeOK
<1>2. CASE Prepare(c) \/ Switch(c)
  BY <1>2, PrepareTouches, SwitchTouches
<1>3. CASE Report(c) \/ Die(c)
  <2>1. proc' = proc
    BY <1>3 DEF Report, SaveConsoleOutput, SaveResult, FailSave, Die
  <2>2. /\ saved'[x].log = saved[x].log \/ x = Running(c)
        /\ saved'[x].result = saved[x].result \/ (x = Running(c) /\ SaveResult(c))
    BY <1>1, <1>3 DEF Report, SaveConsoleOutput, SaveResult, FailSave, Die, TypeOK
  <2>3. QED
    BY <2>1, <2>2
<1>4. CASE Supervise(c)
  <2>1. saved' = saved
    BY <1>4 DEF Supervise, StartProcess, FailStartProcess, PollProgress, ProcessEnded,
                DeadlineReached, KillProcessTree, KillNotConfirmed, Interrupt
  <2>2. \/ proc'[x] = proc[x]
        \/ \E s \in {"started", "killed"} : proc'[x] = [proc[x] EXCEPT !.state = s]
    <3>1. CASE StartProcess(c)
      BY <3>1 DEF StartProcess, TypeOK
    <3>2. CASE KillProcessTree(c)
      BY <3>2 DEF KillProcessTree, TypeOK
    <3>3. CASE ~StartProcess(c) /\ ~KillProcessTree(c)
      BY <1>4, <3>3 DEF Supervise, FailStartProcess, PollProgress, ProcessEnded,
                        DeadlineReached, KillNotConfirmed, Interrupt
    <3>4. QED
      BY <3>1, <3>2, <3>3
  <2>3. proc'[x].loaded = proc[x].loaded
    BY <1>1, <2>2 DEF Process
  <2>4. Ended(x) => proc'[x] = proc[x]
    <3>1. CASE StartProcess(c)
      <4>1. ~Ended(Running(c))
        BY <3>1 DEF StartProcess, CallerInv, Current, At, Ended
      <4>2. QED
        BY <3>1, <4>1 DEF StartProcess, TypeOK
    <3>2. CASE KillProcessTree(c)
      <4>1. ~Ended(Running(c))
        BY <3>2 DEF KillProcessTree, Alive, Ended
      <4>2. QED
        BY <3>2, <4>1 DEF KillProcessTree, TypeOK
    <3>3. CASE ~StartProcess(c) /\ ~KillProcessTree(c)
      BY <1>4, <3>3 DEF Supervise, FailStartProcess, PollProgress, ProcessEnded,
                        DeadlineReached, KillNotConfirmed, Interrupt
    <3>4. QED
      BY <3>1, <3>2, <3>3
  <2>5. QED
    BY <2>1, <2>3, <2>4
<1>5. QED
  BY <1>2, <1>3, <1>4

LEMMA SharedScriptKept ==
    ASSUME TypeOK, NEW c \in Callers, CallerInv(c), kind[c] = "chat", SharedScript(c),
           Prepare(c) \/ Switch(c) \/ Supervise(c) \/ Report(c) \/ Die(c)
    PROVE  SharedScript(c)'
<1>1. /\ caller[c] \in Memory /\ \A m : Remember(c, m) => caller'[c] = m
      /\ ~At(c, "idle") => Running(c) \in Executions /\ Running(c)[1] = c
  BY RunningTyped DEF TypeOK, Remember, CallerInv, Current, Running
<1>2. ~At(c, "idle") => Job(Running(c)) = Shared
  BY <1>1, JobTyped
<1>3. CASE Prepare(c)
  <2>1. caller'[c].pc \in {"prepared", "idle"}
    BY <1>1, <1>3 DEF Prepare, ExecuteCmo, StartAttempt, FailPreparation, CreateRun, Idle
  <2>2. QED
    BY <2>1 DEF SharedScript, Over, At
<1>4. CASE Die(c)
  <2>1. caller'[c].pc = "idle"
    BY <1>1, <1>4 DEF Die, Idle
  <2>2. QED
    BY <2>1 DEF SharedScript, Over, At
<1>5. CASE Switch(c)
  <2>1. Running(c)' = Running(c) /\ proc' = proc
    BY <1>5, SwitchTouches DEF Running
  <2>2. CASE UseScript(c)
    <3>1. script'[Shared] = Running(c)
      BY <1>2, <2>2, ConstantFacts DEF UseScript, SetScript, At, TypeOK
    <3>2. caller'[c].pc \in {"switched", "entered"}
      BY <1>1, <2>2 DEF UseScript, Memory
    <3>3. QED
      BY <2>1, <3>1, <3>2 DEF SharedScript, Over, At
  <2>3. CASE SetAuditProfile(c)
    <3>1. script' = script /\ At(c, "switched") /\ caller'[c].pc = "entered"
      BY <1>1, <2>3 DEF SetAuditProfile, Goto, Memory
    <3>2. QED
      BY <2>1, <3>1 DEF SharedScript, Over, At
  <2>4. CASE \/ FailUseScript(c) \/ FailSetAuditProfile(c) \/ FailLeaveScript(c)
             \/ InterruptSwitch(c) \/ InterruptRestore(c)
    <3>1. caller'[c].pc = "idle"
      BY <1>1, <2>4 DEF FailUseScript, FailSetAuditProfile, FailLeaveScript, InterruptSwitch,
                        InterruptRestore, Return, Memory
    <3>2. QED
      BY <3>1 DEF SharedScript, Over, At
  <2>5. CASE LeaveScript(c)
    <3>1. caller'[c].pc = "idle" \/ (Over(c) /\ caller'[c].pc = "ended")
      <4>1. CASE caller[c].raised
        <5>1. Remember(c, [caller[c] EXCEPT !.pc = "idle", !.outcome = "raised"])
          BY <2>5, <4>1 DEF LeaveScript, Return
        <5>2. QED
          BY <1>1, <5>1 DEF Memory
      <4>2. CASE ~caller[c].raised
        BY <1>1, <2>5, <4>2 DEF LeaveScript, Goto, Over, Memory
      <4>3. QED
        BY <4>1, <4>2
    <3>2. ~At(c, "idle")
      BY <2>5 DEF LeaveScript, At
    <3>3. QED
      BY <2>1, <3>1, <3>2 DEF SharedScript, LoadedOwn, Over, At
  <2>6. QED
    BY <1>5, <2>2, <2>3, <2>4, <2>5 DEF Switch
<1>6. CASE Supervise(c)
  <2>1. Running(c)' = Running(c) /\ script' = script
    BY <1>6, OthersTouch DEF Running
  <2>2. CASE StartProcess(c)
    <3>1. At(c, "entered") /\ caller'[c].pc = "waiting"
      BY <1>1, <2>2 DEF StartProcess, Memory
    <3>2. proc[Running(c)].loaded = None
      <4>1. PICK n \in 1..MaxRuns : n = caller[c].n
        BY <1>1, <3>1 DEF Running, Executions, At
      <4>2. Always(c, n) /\ proc[<<c, n>>].state = "none"
        BY <3>1, <4>1 DEF CallerInv, Current, At, Running
      <4>3. QED
        BY <4>1, <4>2 DEF Always, Running
    <3>3. proc'[Running(c)].loaded = None /\ proc'[Running(c)].state = "started"
      <4>1. proc[Running(c)] \in Process /\ Running(c) \in Executions
        BY <1>1, <3>1 DEF TypeOK, At
      <4>2. proc'[Running(c)] = [proc[Running(c)] EXCEPT !.state = "started"]
        BY <2>2, <4>1 DEF StartProcess, TypeOK
      <4>3. QED
        BY <3>2, <4>1, <4>2 DEF Process
    <3>4. LoadedOwn(Running(c))'
      BY <2>1, <3>3 DEF LoadedOwn
    <3>5. script[Shared] = Running(c)
      BY <3>1 DEF SharedScript, At
    <3>6. QED
      BY <2>1, <3>1, <3>4, <3>5 DEF SharedScript, Over, At
  <2>3. CASE FailStartProcess(c) \/ KillNotConfirmed(c) \/ Interrupt(c)
    <3>1. caller'[c].pc = "restoring" /\ caller'[c].raised
      BY <1>1, <2>3 DEF FailStartProcess, KillNotConfirmed, Interrupt, Memory
    <3>2. QED
      BY <3>1 DEF SharedScript, Over, At
  <2>4. CASE PollProgress(c) \/ ProcessEnded(c) \/ DeadlineReached(c) \/ KillProcessTree(c)
    <3>1. /\ caller[c].pc \in {"waiting", "killing"}
          /\ caller'[c].pc \in {"waiting", "killing", "restoring"}
      BY <1>1, <2>4 DEF PollProgress, ProcessEnded, DeadlineReached, KillProcessTree, Goto, At, Memory
    <3>2. script[Shared] = Running(c) /\ LoadedOwn(Running(c))
      BY <3>1 DEF SharedScript
    <3>3. LoadedOwn(Running(c))'
      <4>1. CASE KillProcessTree(c)
        <5>1. proc[Running(c)] \in Process /\ Running(c) \in Executions
          BY <1>1, <3>1 DEF TypeOK, At
        <5>2. proc'[Running(c)] = [proc[Running(c)] EXCEPT !.state = "killed"]
          BY <4>1, <5>1 DEF KillProcessTree, TypeOK
        <5>3. proc'[Running(c)].state = "killed" /\ proc'[Running(c)].loaded = proc[Running(c)].loaded
          BY <5>1, <5>2 DEF Process
        <5>4. QED
          BY <2>1, <3>2, <5>3 DEF LoadedOwn
      <4>2. CASE ~KillProcessTree(c)
        <5>1. proc' = proc
          BY <2>4, <4>2 DEF PollProgress, ProcessEnded, DeadlineReached
        <5>2. QED
          BY <2>1, <3>2, <5>1 DEF LoadedOwn
      <4>3. QED
        BY <4>1, <4>2
    <3>4. QED
      BY <2>1, <3>1, <3>2, <3>3 DEF SharedScript, Over, At
  <2>5. QED
    BY <1>6, <2>2, <2>3, <2>4 DEF Supervise
<1>7. CASE Report(c)
  <2>1. Running(c)' = Running(c) /\ Over(c) /\ ~At(c, "idle")
    BY <1>7, OthersTouch DEF Running, Report, SaveConsoleOutput, SaveResult, FailSave, Over, At
  <2>2. caller'[c].pc \in {"logged", "idle"} /\ proc' = proc
    BY <1>1, <1>7 DEF Report, SaveConsoleOutput, SaveResult, FailSave, Goto, Return, Memory
  <2>3. QED
    BY <2>1, <2>2 DEF SharedScript, LoadedOwn, Over, At
<1>8. QED
  BY <1>3, <1>4, <1>5, <1>6, <1>7


\* What a chat finds in the results directory is its own or was given up.
LEMMA PollOfChat ==
    ASSUME TypeOK, OneChat, NEW c \in Callers, kind[c] = "chat", CallerInv(c), DirsNoticed(c),
           caller[c].pc \in {"waiting", "killing"}, NEW d \in PollRunnerLog(c)
    PROVE  d \in {Running(c), None} \/ Abandoned(c, caller[c].n, d)
<1>1. CASE caller[c].dir # None \/ d = None
  BY <1>1 DEF PollRunnerLog, DirsNoticed
<1>2. CASE caller[c].dir = None /\ d # None
  <2>1. /\ d \in Executions /\ Job(d) = Job(Running(c)) /\ batch[d] # "absent"
        /\ d \notin caller[c].known
    BY <1>2 DEF PollRunnerLog, FindNewBatchDir, NewBatchDirs, BatchDirs
  <2>2. Running(c) \in Executions /\ Running(c)[1] = c
    BY RunningTyped DEF CallerInv, Current, At, Running
  <2>3. d[1] = c
    BY <2>1, <2>2, JobsApart
  <2>4. PICK m \in 1..MaxRuns : d = <<c, m>>
    BY <2>1, <2>3 DEF Executions
  <2>5. Always(c, m) /\ Blank(c, m)
    BY DEF CallerInv
  <2>6. ~(m > caller[c].n)
    BY <2>1, <2>4, <2>5 DEF Always, Blank
  <2>7. m = caller[c].n \/ m < caller[c].n
    <3>1. caller[c].n \in Nat /\ m \in Nat
      BY ExecutionAssumption DEF TypeOK, Memory
    <3>2. QED
      BY <2>6, <3>1
  <2>8. ~saved[d].log
    BY <2>1, <2>3 DEF DirsNoticed
  <2>9. QED
    BY <2>1, <2>3, <2>4, <2>7, <2>8 DEF Abandoned, Running
<1>3. QED
  BY <1>1, <1>2

LEMMA DirsNoticedKept ==
    ASSUME TypeOK, OneChat, NEW c \in Callers, CallerInv(c), kind[c] = "chat", DirsNoticed(c),
           Prepare(c) \/ Switch(c) \/ Supervise(c) \/ Report(c) \/ Die(c)
    PROVE  DirsNoticed(c)'
<1>1. /\ caller[c] \in Memory /\ \A m : Remember(c, m) => caller'[c] = m
      /\ ~At(c, "idle") => Running(c) \in Executions /\ Running(c)[1] = c
  BY RunningTyped DEF TypeOK, Remember, CallerInv, Current, Running
<1>2. CASE Prepare(c)
  <2>1. caller'[c].pc \in {"prepared", "idle"}
    BY <1>1, <1>2 DEF Prepare, ExecuteCmo, StartAttempt, FailPreparation, CreateRun, Idle
  <2>2. QED
    BY <2>1 DEF DirsNoticed, Over, At
<1>3. CASE Die(c)
  <2>1. caller'[c].pc = "idle"
    BY <1>1, <1>3 DEF Die, Idle
  <2>2. QED
    BY <2>1 DEF DirsNoticed, Over, At
<1>4. CASE Switch(c)
  <2>1. saved' = saved /\ caller'[c].n = caller[c].n /\ Running(c)' = Running(c)
    BY <1>4, SwitchTouches DEF Running
  <2>2. \/ caller'[c].pc \in {"idle", "switched", "entered"}
        \/ caller'[c].pc = "ended" /\ caller'[c].dir = caller[c].dir /\ Over(c)
    <3>1. CASE UseScript(c) \/ FailUseScript(c) \/ InterruptSwitch(c)
      BY <1>1, <3>1 DEF UseScript, FailUseScript, InterruptSwitch, Memory
    <3>2. CASE SetAuditProfile(c) \/ FailSetAuditProfile(c) \/ FailLeaveScript(c)
               \/ InterruptRestore(c)
      BY <1>1, <3>2 DEF SetAuditProfile, FailSetAuditProfile, FailLeaveScript, InterruptRestore,
                        Goto, Return, Memory
    <3>3. CASE LeaveScript(c)
      <4>1. CASE caller[c].raised
        <5>1. Remember(c, [caller[c] EXCEPT !.pc = "idle", !.outcome = "raised"])
          BY <3>3, <4>1 DEF LeaveScript, Return
        <5>2. QED
          BY <1>1, <5>1 DEF Memory
      <4>2. CASE ~caller[c].raised
        <5>1. Remember(c, [caller[c] EXCEPT !.pc = "ended"]) /\ Over(c)
          BY <3>3, <4>2 DEF LeaveScript, Goto, Over
        <5>2. QED
          BY <1>1, <5>1 DEF Memory
      <4>3. QED
        BY <4>1, <4>2
    <3>4. QED
      BY <1>4, <3>1, <3>2, <3>3 DEF Switch
  <2>3. QED
    BY <2>1, <2>2 DEF DirsNoticed, Abandoned, Over, At
<1>5. CASE Supervise(c)
  <2>1. /\ UNCHANGED <<batch, saved>> /\ caller'[c].n = caller[c].n
        /\ Running(c)' = Running(c) /\ kind' = kind
    BY <1>5, OthersTouch DEF Running, Supervise, StartProcess, FailStartProcess, PollProgress,
       ProcessEnded, DeadlineReached, KillProcessTree, KillNotConfirmed, Interrupt
  <2>2. CASE StartProcess(c)
    <3>1. /\ caller'[c].known = BatchDirs(Job(Running(c))) /\ caller'[c].dir = caller[c].dir
          /\ At(c, "entered")
      BY <1>1, <2>2 DEF StartProcess, Memory
    <3>2. caller'[c].dir = None
      BY <3>1 DEF CallerInv, Current, At
    <3>3. \A y \in Executions : y[1] = c => Job(y) = Job(Running(c))
      BY <1>1, <3>1, JobTyped DEF At
    <3>4. QED
      BY <2>1, <3>1, <3>2, <3>3 DEF DirsNoticed, BatchDirs
  <2>3. CASE FailStartProcess(c) \/ KillNotConfirmed(c) \/ Interrupt(c)
    <3>1. caller'[c].pc = "restoring" /\ caller'[c].raised
      BY <1>1, <2>3 DEF FailStartProcess, KillNotConfirmed, Interrupt, Memory
    <3>2. QED
      BY <3>1 DEF DirsNoticed, Over, At
  <2>4. CASE PollProgress(c) \/ ProcessEnded(c) \/ DeadlineReached(c) \/ KillProcessTree(c)
    <3>1. /\ caller[c].pc \in {"waiting", "killing"} /\ caller'[c].known = caller[c].known
          /\ caller'[c].dir \in PollRunnerLog(c) \cup {caller[c].dir}
      BY <1>1, <2>4 DEF PollProgress, ProcessEnded, DeadlineReached, KillProcessTree, Goto, At, Memory
    <3>2. caller'[c].dir \in {Running(c), None} \/ Abandoned(c, caller[c].n, caller'[c].dir)
      BY <3>1, PollOfChat DEF DirsNoticed
    <3>3. QED
      BY <2>1, <3>1, <3>2 DEF DirsNoticed, Abandoned
  <2>5. QED
    BY <1>5, <2>2, <2>3, <2>4 DEF Supervise
<1>6. CASE Report(c)
  <2>1. /\ caller'[c].n = caller[c].n /\ Running(c)' = Running(c) /\ Over(c) /\ ~At(c, "idle")
    BY <1>6, OthersTouch DEF Running, Report, SaveConsoleOutput, SaveResult, FailSave, Over, At
  <2>2. caller'[c].pc \in {"logged", "idle"} /\ caller'[c].dir = caller[c].dir
    BY <1>1, <1>6 DEF Report, SaveConsoleOutput, SaveResult, FailSave, Goto, Return, Memory
  <2>3. CASE caller[c].dir \in {Running(c), None}
    BY <2>1, <2>2, <2>3 DEF DirsNoticed, At
  <2>4. CASE Abandoned(c, caller[c].n, caller[c].dir)
    <3>1. caller[c].dir # Running(c)
      <4>1. caller[c].n \in Nat
        BY ExecutionAssumption DEF TypeOK, Memory
      <4>2. QED
        BY <2>4, <4>1 DEF Abandoned, Running
    <3>2. saved'[caller[c].dir].log = saved[caller[c].dir].log
      BY <1>6, <2>4, <3>1, LoadedKept DEF Abandoned
    <3>3. QED
      BY <2>1, <2>2, <2>4, <3>2 DEF DirsNoticed, Abandoned, At
  <2>5. QED
    BY <2>1, <2>3, <2>4 DEF DirsNoticed
<1>7. QED
  BY <1>2, <1>3, <1>4, <1>5, <1>6

\* A result that was on disk before keeps what is said of it; the one written by
\* the step names the directory its caller had found.
LEMMA ForeignDirsKept ==
    ASSUME CmoInv, ChatInv, NEW d \in Callers,
           Prepare(d) \/ Switch(d) \/ Supervise(d) \/ Report(d) \/ Die(d)
    PROVE  ForeignDirsAbandoned'
<1>1. TypeOK /\ CallerInv(d) /\ \A c \in Callers : CallerInv(c)
  BY DEF CmoInv
<1>2. kind' = kind /\ Chats' = Chats
  BY <1>1, PrepareTouches, SwitchTouches, OthersTouch DEF Chats
<1>3. SUFFICES ASSUME NEW x \in Executions, saved'[x].result # None,
                      NEW v, v = saved'[x].result.dir
               PROVE  v \in {x, None} \/ (x[1] \in Chats /\ Abandoned(x[1], x[2], v)')
  BY <1>2 DEF ForeignDirsAbandoned, Abandoned
<1>4. \A y : y # Running(d) /\ Abandoned(x[1], x[2], y) => Abandoned(x[1], x[2], y)'
  BY <1>1, LoadedKept DEF Abandoned
<1>5. PICK n \in 1..MaxRuns : x = <<x[1], n>> /\ x[1] \in Callers
  BY DEF Executions
<1>6. CASE saved[x].result # None /\ saved'[x].result = saved[x].result
  <2>1. ~(n > caller[x[1]].n)
    BY <1>1, <1>5, <1>6 DEF CallerInv, Blank
  <2>2. ~Abandoned(x[1], x[2], Running(d))
    <3>1. SUFFICES ASSUME Abandoned(x[1], x[2], Running(d)) PROVE FALSE
      OBVIOUS
    <3>2. d = x[1] /\ caller[d].n < n
      BY <1>5, <3>1 DEF Abandoned, Running
    <3>3. caller[d].n \in Nat /\ n \in Nat
      BY <1>1, ExecutionAssumption DEF TypeOK, Memory
    <3>4. QED
      BY <2>1, <3>2, <3>3
  <2>3. v \in {x, None} \/ (x[1] \in Chats /\ Abandoned(x[1], x[2], v))
    BY <1>3, <1>6 DEF ChatInv, ForeignDirsAbandoned
  <2>4. QED
    BY <1>4, <2>2, <2>3
<1>7. CASE x = Running(d) /\ SaveResult(d)
  <2>1. v = caller[d].dir /\ At(d, "logged")
    <3>1. saved'[x].result = RunResult(d)
      BY <1>1, <1>7 DEF SaveResult, TypeOK
    <3>2. QED
      BY <1>3, <1>7, <3>1 DEF RunResult, SaveResult
  <2>2. CASE kind[d] = "candidate"
    BY <1>1, <1>7, <2>1, <2>2 DEF CallerInv, CurrentAttempt, At
  <2>3. CASE kind[d] = "chat"
    <3>1. d \in Chats /\ DirsNoticed(d) /\ x[1] = d /\ x[2] = caller[d].n
      BY <1>7, <2>3 DEF Chats, ChatInv, Running
    <3>2. v \in {x, None} \/ Abandoned(x[1], x[2], v)
      BY <1>7, <2>1, <3>1 DEF DirsNoticed, Over, At
    <3>3. QED
      BY <1>4, <1>7, <3>1, <3>2
  <2>4. QED
    BY <1>1, <2>2, <2>3 DEF TypeOK
<1>8. QED
  BY <1>1, <1>3, <1>6, <1>7, LoadedKept

LEMMA ChatInvInit == Init /\ OneChat => ChatInv
<1> SUFFICES ASSUME Init, OneChat PROVE ChatInv
  OBVIOUS
<1>1. \A c \in Callers : At(c, "idle") /\ caller[c].outcome = "none"
  BY DEF Init, At, Idle
<1>2. ResultsOfOwnScript
  BY DEF Init, ResultsOfOwnScript
<1>3. \A c \in Callers : SharedScript(c) /\ DirsNoticed(c)
  BY <1>1 DEF SharedScript, DirsNoticed, Over, At
<1>4. \A c \in Callers : Given(c)
  BY <1>1 DEF Init, Idle, Given, At
<1>5. ForeignDirsAbandoned
  BY DEF Init, ForeignDirsAbandoned
<1>6. QED
  BY <1>2, <1>3, <1>4, <1>5 DEF ChatInv, Chats

LEMMA ChatInvCaller ==
    ASSUME CmoInv, CmoInv', ChatInv, NEW d \in Callers,
           Prepare(d) \/ Switch(d) \/ Supervise(d) \/ Report(d) \/ Die(d)
    PROVE  ChatInv'
<1>1. TypeOK /\ OneChat /\ \A c \in Callers : CallerInv(c) /\ Given(c)
  BY DEF CmoInv, ChatInv
<1>2. kind' = kind
  BY <1>1, PrepareTouches, SwitchTouches, OthersTouch
<1>3. OneChat' /\ Chats' = Chats
  BY <1>1, <1>2 DEF OneChat, Chats
<1>4. ASSUME NEW c \in Callers PROVE Given(c)'
  <2>1. CASE c = d
    BY <1>1, <2>1, GivenKept
  <2>2. CASE c # d
    <3>1. /\ kind' = kind /\ caller'[c] = caller[c]
          /\ Running(c) \in Executions =>
                /\ script'[Job(Running(c))] = script[Job(Running(c))]
                /\ traced'[Job(Running(c))] = traced[Job(Running(c))]
      BY <1>1, <2>2, FilesKept
    <3>2. Job(Running(c))' = Job(Running(c))
      BY <3>1 DEF Job, Running
    <3>3. caller[c].n >= 1 => Running(c) \in Executions
      BY <1>1, RunningTyped
    <3>4. QED
      BY <1>1, <3>1, <3>2, <3>3 DEF Given, At
  <2>3. QED
    BY <2>1, <2>2
<1>5. ASSUME NEW c \in Chats PROVE SharedScript(c)' /\ DirsNoticed(c)'
  <2>0. c \in Callers /\ kind[c] = "chat" /\ SharedScript(c) /\ DirsNoticed(c)
    BY <1>5 DEF Chats, ChatInv
  <2>1. CASE c = d
    BY <1>1, <2>0, <2>1, SharedScriptKept, DirsNoticedKept
  <2>2. CASE c # d
    <3>1. /\ caller'[c] = caller[c] /\ script'[Shared] = script[Shared]
          /\ Running(c) \in Executions => proc'[Running(c)] = proc[Running(c)]
          /\ \A x \in Executions : x[1] = c => saved'[x] = saved[x]
      BY <1>1, <1>5, <2>0, <2>2, FilesKept
    <3>2. ~At(c, "idle") => Running(c) \in Executions
      BY <1>1, <2>0, RunningTyped DEF CallerInv, Current
    <3>3. SharedScript(c)'
      BY <2>0, <3>1, <3>2 DEF SharedScript, LoadedOwn, Running, Over, At
    <3>4. batch' = batch
      BY <1>1, PrepareTouches, SwitchTouches, OthersTouch
    <3>5. DirsNoticed(c)'
      BY <2>0, <3>1, <3>4 DEF DirsNoticed, Abandoned, Running, Over, At
    <3>6. QED
      BY <3>3, <3>5
  <2>3. QED
    BY <2>1, <2>2
<1>6. ResultsOfOwnScript'
  <2>1. SUFFICES ASSUME NEW x \in Executions, saved'[x].result # None
                 PROVE  /\ proc'[x].loaded \in {x, None}
                        /\ saved'[x].result.success =>
                              /\ proc'[x].state = "exited" /\ proc'[x].loaded = x
                              /\ proc'[x].exit = 0
    BY DEF ResultsOfOwnScript
  <2>2. PICK n \in 1..MaxRuns : x = <<x[1], n>> /\ x[1] \in Callers
    BY DEF Executions
  <2>3. CASE saved[x].result # None /\ saved'[x].result = saved[x].result
    <3>1. saved[x].log /\ Always(x[1], n)
      BY <1>1, <2>2, <2>3 DEF TypeOK, CallerInv
    <3>2. proc'[x] = proc[x]
      BY <1>1, <2>2, <3>1, LoadedKept DEF Always
    <3>3. QED
      BY <2>3, <3>2 DEF ChatInv, ResultsOfOwnScript
  <2>4. CASE x = Running(d) /\ SaveResult(d)
    <3>1. At(d, "logged") /\ proc' = proc /\ saved'[x].result = RunResult(d) /\ x[1] = d
      BY <1>1, <2>4 DEF SaveResult, TypeOK, Running
    <3>2. CASE kind[d] = "chat"
      <4>1. LoadedOwn(x)
        BY <2>4, <3>1, <3>2 DEF ChatInv, Chats, SharedScript, Over, At
      <4>2. proc[x].state = IF caller[d].timedOut THEN "killed" ELSE "exited"
        BY <1>1, <2>4, <3>1 DEF CallerInv, Current, Over, At
      <4>3. RunResult(d).success => ExitCode(d) = 0 /\ ~caller[d].timedOut
        BY DEF RunResult
      <4>4. RunResult(d).success => proc[x].state = "exited" /\ proc[x].exit = 0
        BY <2>4, <4>2, <4>3 DEF ExitCode
      <4>5. QED
        BY <3>1, <4>1, <4>4 DEF LoadedOwn
    <3>3. CASE kind[d] = "candidate"
      <4>1. Always(x[1], n)'
        BY <2>2 DEF CmoInv, CallerInv
      <4>2. kind'[x[1]] = "candidate"
        BY <1>2, <3>1, <3>3
      <4>3. QED
        BY <2>1, <2>2, <4>1, <4>2 DEF Always, Verdict
    <3>4. QED
      BY <1>1, <3>2, <3>3 DEF TypeOK
  <2>5. QED
    BY <1>1, <2>1, <2>3, <2>4, LoadedKept
<1>7. QED
  BY <1>3, <1>4, <1>5, <1>6, ForeignDirsKept DEF ChatInv

LEMMA ChatInvBatchRunner ==
    ASSUME CmoInv, ChatInv, NEW x \in Executions, BatchRunner(x)
    PROVE  ChatInv'
<1>1. TypeOK /\ \A c \in Callers : CallerInv(c)
  BY DEF CmoInv
<1>2. /\ UNCHANGED <<kind, script, traced, saved, caller>>
      /\ \A y \in Executions : y # x => proc'[y] = proc[y]
      /\ proc[x].state \in {"started", "running"}
      /\ proc'[x].loaded \in {proc[x].loaded, script[Job(x)]}
      /\ proc[x].state = "running" => proc'[x].loaded = proc[x].loaded
      /\ \A y \in Executions : y # x => batch'[y] = batch[y]
  BY <1>1, BatchRunnerTouches
<1>0. \A y \in Executions : saved[y].log => y # x
  <2>1. \A y \in Executions : saved[y].log => Ended(y)
    BY <1>1 DEF CallerInv, Always, Executions
  <2>2. QED
    BY <1>2, <2>1 DEF Ended
<1>3. OneChat' /\ Chats' = Chats /\ \A c \in Callers : Given(c)'
  BY <1>2 DEF ChatInv, OneChat, Chats, Given, At, Running, Job
<1>4. ResultsOfOwnScript'
  <2>1. \A y \in Executions : saved[y].result # None => proc'[y] = proc[y]
    BY <1>0, <1>1, <1>2 DEF TypeOK
  <2>2. QED
    BY <1>2, <2>1 DEF ChatInv, ResultsOfOwnScript
<1>5. ASSUME NEW c \in Chats PROVE SharedScript(c)'
  <2>1. c \in Callers /\ kind[c] = "chat" /\ SharedScript(c)
    BY <1>5 DEF Chats, ChatInv
  <2>2. CASE At(c, "idle")
    BY <1>2, <2>2 DEF SharedScript, Over, At
  <2>3. CASE ~At(c, "idle")
    <3>1. Running(c) \in Executions /\ Running(c)[1] = c
      BY <1>1, <2>1, <2>3, RunningTyped DEF CallerInv, Current, Running
    <3>2. CASE Running(c) # x
      BY <1>2, <2>1, <3>1, <3>2 DEF SharedScript, LoadedOwn, Running, Over, At
    <3>3. CASE Running(c) = x
      <4>1. Job(x) = Shared
        BY <1>1, <2>1, <3>1, <3>3, JobTyped
      <4>2. ~Over(c)
        BY <1>1, <1>2, <2>1, <2>3, <3>3 DEF CallerInv, Current, Over, At
      <4>3. ASSUME caller[c].pc \in {"waiting", "killing"} PROVE LoadedOwn(x)'
        <5>1. script[Job(x)] = x /\ LoadedOwn(x)
          BY <2>1, <3>3, <4>1, <4>3 DEF SharedScript
        <5>2. QED
          BY <1>1, <5>1, BatchRunnerTouches DEF LoadedOwn
      <4>4. Running(c)' = x /\ ~Over(c)'
        BY <1>2, <3>3, <4>2 DEF Running, Over, At
      <4>5. QED
        BY <1>2, <2>1, <3>3, <4>3, <4>4 DEF SharedScript
    <3>4. QED
      BY <3>2, <3>3
  <2>4. QED
    BY <2>2, <2>3
<1>6. ASSUME NEW c \in Chats PROVE DirsNoticed(c)'
  <2>1. DirsNoticed(c)
    BY <1>6 DEF ChatInv
  <2>2. \A y \in Executions : saved'[y].log /\ batch'[y] # "absent" => saved[y].log /\ batch[y] # "absent"
    BY <1>0, <1>2
  <2>3. QED
    BY <1>2, <2>1, <2>2 DEF DirsNoticed, Abandoned, Running, Over, At
<1>7. ForeignDirsAbandoned'
  BY <1>2, <1>3 DEF ChatInv, ForeignDirsAbandoned, Abandoned
<1>8. QED
  BY <1>3, <1>4, <1>5, <1>6, <1>7 DEF ChatInv

\* One chat, beside any number of candidates, has the shared configuration to
\* itself from the with block to the restore.
THEOREM SpecImpliesChatInv == Spec /\ OneChat => []ChatInv
<1>1. Init /\ OneChat => ChatInv
  BY ChatInvInit
<1>2. CmoInv /\ ChatInv /\ [Next]_vars => ChatInv'
  <2>1. SUFFICES ASSUME CmoInv, ChatInv, [Next]_vars PROVE ChatInv'
    OBVIOUS
  <2>2. CASE UNCHANGED vars
    BY <2>1, <2>2 DEF vars, ChatInv, OneChat, Chats, ResultsOfOwnScript, SharedScript, Given,
                      LoadedOwn, DirsNoticed, ForeignDirsAbandoned, Abandoned, Over, At, Running, Job
  <2>3. QED
    BY <2>1, <2>2, CmoInvNext, ChatInvCaller, ChatInvBatchRunner DEF Next
<1>3. QED
  BY <1>1, <1>2, SpecImpliesCmoInv, PTL DEF Spec

\* Beside one chat every reported result rests on the process and the script of
\* its own execution, after chats that died or were interrupted too, and names its
\* own directory or that of an execution of the chat nothing was saved of.
THEOREM SpecImpliesResultsSound == Spec /\ OneChat => []ResultsSound
<1>1. ChatInv => ResultsOfOwnScript /\ ForeignDirectoryAbandoned
  BY DEF ChatInv, ForeignDirsAbandoned, ForeignDirectoryAbandoned, Abandoned
<1>2. AttemptVerdictSound /\ ReportedProcessEnded /\ ResultsOfOwnScript /\ ForeignDirectoryAbandoned
         => ResultsSound
  BY DEF ResultsSound
<1>3. QED
  BY <1>1, <1>2, SpecImpliesVerdicts, SpecImpliesChatInv, PTL

\* Beside one chat an execution gives back script and audit profile as it found
\* them on success, timeout, failure and interrupt, unless the failure or the
\* interrupt meets the switch or the restore itself, or the process dies.
THEOREM SpecImpliesConfigReturned == Spec /\ OneChat => []ConfigReturned
<1>1. ChatInv => ConfigReturned
  BY DEF ChatInv, ConfigReturned, Given
<1>2. QED
  BY <1>1, SpecImpliesChatInv, PTL

===============================================================================
