----------------------------- MODULE CmoExecution -----------------------------
(***************************************************************************)
(* The execution of one Lua script by CMO.  A chat process runs the tool     *)
(* execute_cmo on the shared batch configuration json_data/tot-three.json;   *)
(* the evaluation of a Campaign candidate builds a configuration, a results  *)
(* directory and a scenario copy of its own for every attempt.  Both then go *)
(* through CmoRunner: the script of the configuration is switched, an        *)
(* external CmoBatchRunner process is started and polled until it ends or    *)
(* is killed, the script is restored, and the result is put together from    *)
(* exit code, console text and the runner.log of the newest directory.       *)
(*                                                                          *)
(* Source: execution/{cmo_runner,cmo_job_config,cmo_process_runner,          *)
(* cmo_error_parser,dynamic_batch_job}.py, core/run_artifact_store.py,       *)
(* tools/execute_cmo_tool.py, evolution/authorized_candidate_runner.py and   *)
(* the attempt loop of optimization/candidate_evaluation_workflow.py.        *)
(*                                                                          *)
(* Execution <<c, n>> is the n-th one of caller c.  Its name also stands for *)
(* its Lua snapshot, its BatchRunner process and the directory that process  *)
(* makes.  The process is external: it reads the configuration when it comes *)
(* to it, and it outlives a caller that stops waiting for it.                *)
(***************************************************************************)
EXTENDS Integers, FiniteSets

CONSTANTS
    Callers,     \* what executes Lua scripts: chats and candidates
    Base,        \* the script the user left in the shared configuration
    Shared,      \* json_data/tot-three.json and its outputDirectory
    None,
    Consoles,    \* what consoles may contain: sets of Marks
    MaxRuns,     \* bound: executions of a caller
    MaxFaults,   \* bound: failing file, spawn and taskkill operations
    MaxCrashes   \* bound: deaths of a calling process

\* What the error parser tells apart in a console text.
Marks == {"location", "syntax", "runtime", "internal", "error_line"}

Executions == Callers \X (1..MaxRuns)

ASSUME ExecutionAssumption ==
    /\ Base # None
    /\ {Base, Shared, None} \cap Executions = {}
    /\ Consoles \subseteq SUBSET Marks
    /\ {MaxRuns, MaxFaults, MaxCrashes} \subseteq Nat

VARIABLES
    kind,      \* which caller is a chat and which a candidate
    script,    \* jobs[0].script of each configuration file
    traced,    \* the auditProfile in it is the one the builder wrote
    proc,      \* the BatchRunner of each execution
    batch,     \* the directory each BatchRunner has made, with its runner.log
    saved,     \* cmo_output.txt and result.json of each execution
    caller,    \* what each caller remembers
    faults,    \* failures so far
    crashes    \* deaths so far

vars == <<kind, script, traced, proc, batch, saved, caller, faults, crashes>>

\* The configuration file of an execution; its results directory goes by the
\* same name.
Job(x) == IF kind[x[1]] = "chat" THEN Shared ELSE x
Jobs == Executions \cup {Shared}

Chats == {c \in Callers : kind[c] = "chat"}
Candidates == Callers \ Chats

Scripts == Executions \cup {Base, None}
\* A directory with its runner.log: without a summary line, or with one that
\* counts no failed scenario or some.
Logs == {"open", "all_succeeded", "some_failed"}
Categories == {"none", "process_timeout", "batch_job_failure", "process_exit_error",
               "lua_syntax_error", "lua_runtime_error", "cmo_internal_error", "unknown_error"}
Results == [success : BOOLEAN, timedOut : BOOLEAN, error : Categories,
            dir : Executions \cup {None}]

ASSUME ResultAssumption == None \notin Results

Process == [state : {"none", "started", "running", "exited", "killed"},
            loaded : Scripts, exit : {0, 1}, console : Consoles \cup {{}}]
NoProcess == [state |-> "none", loaded |-> None, exit |-> 0, console |-> {}]

Memory == [pc : {"idle", "prepared", "switched", "entered", "waiting", "killing",
                 "restoring", "ended", "logged"},
           n : 0..MaxRuns, original : Scripts, wasTraced : BOOLEAN,
           known : SUBSET Executions, dir : Executions \cup {None}, timedOut : BOOLEAN,
           raised : BOOLEAN,
           outcome : {"none", "result", "raised", "entry_failed", "restore_failed",
                      "interrupted", "crashed"}]
Idle == [pc |-> "idle", n |-> 0, original |-> None, wasTraced |-> FALSE, known |-> {},
         dir |-> None, timedOut |-> FALSE, raised |-> FALSE, outcome |-> "none"]

TypeOK ==
    /\ kind \in [Callers -> {"chat", "candidate"}]
    /\ script \in [Jobs -> Scripts]
    /\ traced \in [Jobs -> BOOLEAN]
    /\ proc \in [Executions -> Process]
    /\ batch \in [Executions -> Logs \cup {"absent"}]
    /\ saved \in [Executions -> [log : BOOLEAN, result : Results \cup {None}]]
    /\ \A x \in Executions : saved[x].result # None => saved[x].log
    /\ caller \in [Callers -> Memory]
    /\ faults \in 0..MaxFaults
    /\ crashes \in 0..MaxCrashes

Init ==
    /\ kind \in [Callers -> {"chat", "candidate"}]
    /\ script = [j \in Jobs |-> IF j = Shared THEN Base ELSE None]
    /\ traced = [j \in Jobs |-> FALSE]
    /\ proc = [x \in Executions |-> NoProcess]
    /\ batch = [x \in Executions |-> "absent"]
    /\ saved = [x \in Executions |-> [log |-> FALSE, result |-> None]]
    /\ caller = [c \in Callers |-> Idle]
    /\ faults = 0
    /\ crashes = 0

Running(c) == <<c, caller[c].n>>
At(c, pc) == caller[c].pc = pc
Remember(c, record) == caller' = [caller EXCEPT ![c] = record]
Goto(c, pc) == Remember(c, [caller[c] EXCEPT !.pc = pc])
Return(c, outcome) == Remember(c, [caller[c] EXCEPT !.pc = "idle", !.outcome = outcome])
Fault == faults < MaxFaults /\ faults' = faults + 1

------------------------------------------------------------------------------
\* Preparing an execution.

\* create_run and prepare_round: a directory that did not exist, the copy of
\* the Lua file and round_00.  n only grows: a run directory, and with a resume
\* an attempt directory, is never taken twice.
CreateRun(c) ==
    /\ At(c, "idle")
    /\ caller[c].n < MaxRuns
    /\ Remember(c, [Idle EXCEPT !.pc = "prepared", !.n = caller[c].n + 1])

\* _next_attempt_index: an attempt directory left by an earlier process counts.
NextAttempt(c) == <<c, caller[c].n + 1>>

\* DynamicBatchJobBuilder.build writes the job of a new attempt; the script and
\* the audit profile with the provenance of the attempt are in it.
BuildJob(x) ==
    /\ script[Job(x)] = None
    /\ script' = [script EXCEPT ![Job(x)] = x]
    /\ traced' = [traced EXCEPT ![Job(x)] = TRUE]

\* execute_cmo: the chat calls CmoRunner on the shared configuration.
ExecuteCmo(c) ==
    /\ c \in Chats
    /\ CreateRun(c)
    /\ UNCHANGED <<kind, script, traced, proc, batch, saved, faults, crashes>>

\* An attempt of the evaluation: candidate.lua, job, then CmoRunner.
StartAttempt(c) ==
    /\ c \in Candidates
    /\ CreateRun(c)
    /\ BuildJob(NextAttempt(c))
    /\ UNCHANGED <<kind, proc, batch, saved, faults, crashes>>

\* Copying or writing one of these files fails: the exception goes to the tool
\* registry or becomes internal_workflow_error of the candidate.
FailPreparation(c) ==
    /\ At(c, "idle")
    /\ caller[c].n < MaxRuns
    /\ Fault
    /\ Remember(c, [Idle EXCEPT !.n = caller[c].n + 1, !.outcome = "raised"])
    /\ UNCHANGED <<kind, script, traced, proc, batch, saved, crashes>>

------------------------------------------------------------------------------
\* CmoJobConfig.use_script.

SetScript(j, value) == script' = [script EXCEPT ![j] = value]

\* Mutant: a script an execution has left in the file is not replaced.
UseScriptLeft(c) ==
    LET j == Job(Running(c)) IN
    /\ At(c, "prepared")
    /\ SetScript(j, IF script[j] \in Executions THEN script[j] ELSE Running(c))
    /\ Remember(c, [caller[c] EXCEPT !.original = script[j], !.wasTraced = traced[j],
                                     !.pc = IF c \in Candidates THEN "switched" ELSE "entered"])
    /\ UNCHANGED <<kind, traced, proc, batch, saved, faults, crashes>>

\* The value found in the file is what will be put back; the script is switched
\* and read back.
UseScript(c) ==
    LET j == Job(Running(c)) IN
    /\ At(c, "prepared")
    /\ SetScript(j, Running(c))
    /\ Remember(c, [caller[c] EXCEPT !.original = script[j], !.wasTraced = traced[j],
                                     !.pc = IF c \in Candidates THEN "switched" ELSE "entered"])
    /\ UNCHANGED <<kind, traced, proc, batch, saved, faults, crashes>>

\* Reading or replacing the file fails, or the read-back after the replacement.
FailUseScript(c) ==
    LET j == Job(Running(c)) IN
    /\ At(c, "prepared")
    /\ Fault
    /\ \E value \in {script[j], Running(c)} : SetScript(j, value)
    /\ Remember(c, [caller[c] EXCEPT !.pc = "idle", !.original = script[j],
                                     !.outcome = "entry_failed"])
    /\ UNCHANGED <<kind, traced, proc, batch, saved, crashes>>

\* _set_audit_profile with what the evaluation passes: _audit_profile has no
\* campaign, operation or attempt in it.
SetAuditProfile(c) ==
    /\ At(c, "switched")
    /\ traced' = [traced EXCEPT ![Job(Running(c))] = FALSE]
    /\ Goto(c, "entered")
    /\ UNCHANGED <<kind, script, proc, batch, saved, faults, crashes>>

\* This write is outside the try block.
FailSetAuditProfile(c) ==
    /\ At(c, "switched")
    /\ Fault
    /\ Return(c, "entry_failed")
    /\ UNCHANGED <<kind, script, traced, proc, batch, saved, crashes>>

\* The finally block, after the process ended or an exception.
LeaveScript(c) ==
    LET j == Job(Running(c)) IN
    /\ At(c, "restoring")
    /\ SetScript(j, caller[c].original)
    /\ traced' = [traced EXCEPT ![j] = caller[c].wasTraced]
    /\ IF caller[c].raised THEN Return(c, "raised") ELSE Goto(c, "ended")
    /\ UNCHANGED <<kind, proc, batch, saved, faults, crashes>>

\* CmoJobConfigRestoreError: neither the result nor an earlier exception is
\* reported any more.
FailLeaveScript(c) ==
    LET j == Job(Running(c)) IN
    /\ At(c, "restoring")
    /\ Fault
    /\ \E value \in {script[j], caller[c].original} : SetScript(j, value)
    /\ Return(c, "restore_failed")
    /\ UNCHANGED <<kind, traced, proc, batch, saved, crashes>>

------------------------------------------------------------------------------
\* CmoProcessRunner.run.

\* Mutant: all jobs write under one results directory.
CommonBatchDirs(j) == {x \in Executions : batch[x] # "absent"}

\* _list_batch_dirs: the directories under the results directory of a job.
BatchDirs(j) == {x \in Executions : Job(x) = j /\ batch[x] # "absent"}

\* _find_new_batch_dir: which of several new ones was modified last is up to the
\* processes that write them.
NewBatchDirs(c) == BatchDirs(Job(Running(c))) \ caller[c].known
FindNewBatchDir(c) == IF NewBatchDirs(c) = {} THEN {None} ELSE NewBatchDirs(c)

\* _poll_runner_log: the first directory found is kept.
PollRunnerLog(c) == IF caller[c].dir = None THEN FindNewBatchDir(c) ELSE {caller[c].dir}

StartProcess(c) ==
    /\ At(c, "entered")
    /\ proc' = [proc EXCEPT ![Running(c)].state = "started"]
    /\ Remember(c, [caller[c] EXCEPT !.pc = "waiting", !.known = BatchDirs(Job(Running(c)))])
    /\ UNCHANGED <<kind, script, traced, batch, saved, faults, crashes>>

\* Mutant: the exception does not pass through the finally block.
FailStartUnrestored(c) ==
    /\ At(c, "entered")
    /\ Fault
    /\ Return(c, "raised")
    /\ UNCHANGED <<kind, script, traced, proc, batch, saved, crashes>>

FailStartProcess(c) ==
    /\ At(c, "entered")
    /\ Fault
    /\ Remember(c, [caller[c] EXCEPT !.pc = "restoring", !.raised = TRUE])
    /\ UNCHANGED <<kind, script, traced, proc, batch, saved, crashes>>

\* wait(timeout=2) expired before the deadline and there is a directory to read.
PollProgress(c) ==
    /\ At(c, "waiting")
    /\ caller[c].dir = None
    /\ NewBatchDirs(c) # {}
    /\ \E d \in PollRunnerLog(c) : Remember(c, [caller[c] EXCEPT !.dir = d])
    /\ UNCHANGED <<kind, script, traced, proc, batch, saved, faults, crashes>>

ProcessEnded(c) ==
    /\ At(c, "waiting")
    /\ proc[Running(c)].state = "exited"
    /\ \E d \in PollRunnerLog(c) :
          Remember(c, [caller[c] EXCEPT !.pc = "restoring", !.dir = d])
    /\ UNCHANGED <<kind, script, traced, proc, batch, saved, faults, crashes>>

\* Mutant: the deadline is only looked at when output arrives.
DeadlineOnProgress(c) ==
    /\ At(c, "waiting")
    /\ NewBatchDirs(c) # {}
    /\ Goto(c, "killing")
    /\ UNCHANGED <<kind, script, traced, proc, batch, saved, faults, crashes>>

\* The last wait expired: from here the exit of the process is not looked at.
DeadlineReached(c) ==
    /\ At(c, "waiting")
    /\ Goto(c, "killing")
    /\ UNCHANGED <<kind, script, traced, proc, batch, saved, faults, crashes>>

Alive(x) == proc[x].state \in {"started", "running"}

\* _terminate_process_tree confirmed by taskkill, then wait and the final poll.
KillProcessTree(c) ==
    /\ At(c, "killing")
    /\ Alive(Running(c))
    /\ proc' = [proc EXCEPT ![Running(c)].state = "killed"]
    /\ \E d \in PollRunnerLog(c) :
          Remember(c, [caller[c] EXCEPT !.pc = "restoring", !.dir = d, !.timedOut = TRUE])
    /\ UNCHANGED <<kind, script, traced, batch, saved, faults, crashes>>

\* Mutant: a taskkill that fails is only logged.
KillFailureLogged(c) ==
    /\ At(c, "killing")
    /\ IF Alive(Running(c)) THEN Fault ELSE UNCHANGED faults
    /\ Remember(c, [caller[c] EXCEPT !.pc = "restoring", !.timedOut = TRUE])
    /\ UNCHANGED <<kind, script, traced, proc, batch, saved, crashes>>

\* taskkill does not confirm: there is no such process any more, or it was not
\* allowed to end it.
KillNotConfirmed(c) ==
    /\ At(c, "killing")
    /\ IF Alive(Running(c)) THEN Fault ELSE UNCHANGED faults
    /\ Remember(c, [caller[c] EXCEPT !.pc = "restoring", !.raised = TRUE])
    /\ UNCHANGED <<kind, script, traced, proc, batch, saved, crashes>>

\* KeyboardInterrupt in the try block of a chat: the process is left as it is.
Interrupt(c) ==
    /\ c \in Chats
    /\ caller[c].pc \in {"entered", "waiting", "killing"}
    /\ Fault
    /\ Remember(c, [caller[c] EXCEPT !.pc = "restoring", !.raised = TRUE])
    /\ UNCHANGED <<kind, script, traced, proc, batch, saved, crashes>>

\* Before the try block, and in the finally block (`except Exception` does not
\* catch it), a KeyboardInterrupt leaves the file as far as it was written.
InterruptSwitch(c) ==
    LET j == Job(Running(c)) IN
    /\ c \in Chats
    /\ At(c, "prepared")
    /\ Fault
    /\ \E value \in {script[j], Running(c)} : SetScript(j, value)
    /\ Remember(c, [caller[c] EXCEPT !.pc = "idle", !.original = script[j],
                                     !.wasTraced = traced[j], !.outcome = "interrupted"])
    /\ UNCHANGED <<kind, traced, proc, batch, saved, crashes>>

InterruptRestore(c) ==
    LET j == Job(Running(c)) IN
    /\ c \in Chats
    /\ At(c, "restoring")
    /\ Fault
    /\ \E value \in {script[j], caller[c].original} : SetScript(j, value)
    /\ Return(c, "interrupted")
    /\ UNCHANGED <<kind, traced, proc, batch, saved, crashes>>

------------------------------------------------------------------------------
\* The result of an execution.

\* parse_cmo_error: a location, a marker, Internal ERROR or an ERROR line is an
\* error, and its category comes from the whole text.
ClassifyError(console) ==
    CASE "syntax" \in console -> "lua_syntax_error"
      [] "syntax" \notin console /\ "runtime" \in console -> "lua_runtime_error"
      [] {"syntax", "runtime"} \cap console = {} /\ "internal" \in console -> "cmo_internal_error"
      [] OTHER -> "unknown_error"
FindErrorLocation(console) == "location" \in console
FindErrorMessage(console) == {"syntax", "runtime", "internal", "error_line"} \cap console # {}
ParseCmoError(console) ==
    IF FindErrorLocation(console) \/ FindErrorMessage(console)
    THEN ClassifyError(console) ELSE "none"

\* _read_batch_summary: nothing without a directory or without the summary line.
ReadBatchSummary(d) == IF d # None THEN batch[d] ELSE "open"
ResolveBatchError(summary) == summary = "some_failed"

ExitCode(c) == IF caller[c].timedOut THEN 124 ELSE proc[Running(c)].exit

ResolveError(c) ==
    LET parsed == ParseCmoError(proc[Running(c)].console) IN
    CASE caller[c].timedOut -> "process_timeout"
      [] ~caller[c].timedOut /\ ResolveBatchError(ReadBatchSummary(caller[c].dir)) -> "batch_job_failure"
      [] OTHER -> IF parsed # "none" THEN parsed
                  ELSE IF ExitCode(c) # 0 THEN "process_exit_error" ELSE "none"

RunResult(c) ==
    [success |-> ExitCode(c) = 0 /\ ~caller[c].timedOut /\ ResolveError(c) = "none",
     timedOut |-> caller[c].timedOut,
     error |-> ResolveError(c),
     dir |-> caller[c].dir]

\* Mutant: an empty console text is not saved.
SaveConsoleText(c) ==
    /\ At(c, "ended")
    /\ saved' = [saved EXCEPT ![Running(c)].log = proc[Running(c)].console # {}]
    /\ Goto(c, "logged")
    /\ UNCHANGED <<kind, script, traced, proc, batch, faults, crashes>>

SaveConsoleOutput(c) ==
    /\ At(c, "ended")
    /\ saved' = [saved EXCEPT ![Running(c)].log = TRUE]
    /\ Goto(c, "logged")
    /\ UNCHANGED <<kind, script, traced, proc, batch, faults, crashes>>

\* The tool answers with is_error = not success; the evaluation goes on with it.
SaveResult(c) ==
    /\ At(c, "logged")
    /\ saved' = [saved EXCEPT ![Running(c)].result = RunResult(c)]
    /\ Return(c, "result")
    /\ UNCHANGED <<kind, script, traced, proc, batch, faults, crashes>>

\* A file that cannot be written, or in a chat a KeyboardInterrupt.
FailSave(c) ==
    /\ caller[c].pc \in {"ended", "logged"}
    /\ Fault
    /\ Return(c, "raised")
    /\ UNCHANGED <<kind, script, traced, proc, batch, saved, crashes>>

------------------------------------------------------------------------------
\* A calling process dies (a chat is closed, a Worker is killed); a later one
\* goes on with what is on disk.
Die(c) ==
    /\ ~At(c, "idle")
    /\ crashes < MaxCrashes
    /\ crashes' = crashes + 1
    /\ Remember(c, [Idle EXCEPT !.n = caller[c].n, !.outcome = "crashed"])
    /\ UNCHANGED <<kind, script, traced, proc, batch, saved, faults>>

------------------------------------------------------------------------------
\* CmoBatchRunner, external.

LoadJob(x) ==
    /\ proc[x].state = "started"
    /\ proc' = [proc EXCEPT ![x].state = "running", ![x].loaded = script[Job(x)]]
    /\ batch' = [batch EXCEPT ![x] = "open"]
    /\ UNCHANGED <<kind, script, traced, saved, caller, faults, crashes>>

\* It may end without a summary, and with exit code 0 although a scenario failed.
EndProcess(x) ==
    /\ proc[x].state = "running"
    /\ \E exit \in {0, 1}, console \in Consoles :
          proc' = [proc EXCEPT ![x].state = "exited", ![x].exit = exit, ![x].console = console]
    /\ \E summary \in Logs : batch' = [batch EXCEPT ![x] = summary]
    /\ UNCHANGED <<kind, script, traced, saved, caller, faults, crashes>>

RefuseJob(x) ==
    /\ proc[x].state = "started"
    /\ proc' = [proc EXCEPT ![x].state = "exited", ![x].exit = 1]
    /\ UNCHANGED <<kind, script, traced, batch, saved, caller, faults, crashes>>

------------------------------------------------------------------------------
Prepare(c) == ExecuteCmo(c) \/ StartAttempt(c) \/ FailPreparation(c)

Switch(c) ==
    \/ UseScript(c) \/ FailUseScript(c)
    \/ SetAuditProfile(c) \/ FailSetAuditProfile(c)
    \/ LeaveScript(c) \/ FailLeaveScript(c)
    \/ InterruptSwitch(c) \/ InterruptRestore(c)

Supervise(c) ==
    \/ StartProcess(c) \/ FailStartProcess(c)
    \/ PollProgress(c) \/ ProcessEnded(c) \/ DeadlineReached(c)
    \/ KillProcessTree(c) \/ KillNotConfirmed(c) \/ Interrupt(c)

Report(c) == SaveConsoleOutput(c) \/ SaveResult(c) \/ FailSave(c)

BatchRunner(x) == LoadJob(x) \/ EndProcess(x) \/ RefuseJob(x)

Next ==
    \/ \E c \in Callers : Prepare(c) \/ Switch(c) \/ Supervise(c) \/ Report(c) \/ Die(c)
    \/ \E x \in Executions : BatchRunner(x)

Spec == Init /\ [][Next]_vars

\* A caller that has begun goes on: no step of it waits for another process, and
\* the wait for BatchRunner has a deadline.  Nothing is assumed of BatchRunner.
FairSpec == Spec /\ \A c \in Callers : WF_vars(Switch(c) \/ Supervise(c) \/ Report(c))

------------------------------------------------------------------------------
\* A candidate is never scored on evidence of another execution: when an attempt
\* succeeded, its own BatchRunner loaded its own script and ended by itself with
\* code 0, and the directory in the result, if there is one, is the one this
\* process made, without a failed scenario.  A BatchRunner left alive by a killed
\* Worker has the results directory of its own attempt to write to.
AttemptVerdictSound ==
    \A x \in Executions : x[1] \in Candidates /\ saved[x].result # None =>
        /\ saved[x].result.dir \in {x, None}
        /\ saved[x].result.success =>
              /\ proc[x].state = "exited"
              /\ proc[x].loaded = x
              /\ proc[x].exit = 0
              /\ ~ResolveBatchError(ReadBatchSummary(x))

\* While a chat is the only user of the shared configuration no result it
\* reports comes from another script, whatever an earlier execution left in the
\* file, and a success from no other process.
ResultsOfOwnScript ==
    \A x \in Executions : saved[x].result # None =>
        /\ proc[x].loaded \in {x, None}
        /\ saved[x].result.success =>
              proc[x].state = "exited" /\ proc[x].loaded = x /\ proc[x].exit = 0

\* The directory a result names is its own, or in a chat that of an earlier
\* execution whose BatchRunner was left alive by an interrupt, a death or a
\* kill that failed: nothing was ever saved of that one.
ForeignDirectoryAbandoned ==
    \A x \in Executions : saved[x].result # None /\ saved[x].result.dir \notin {x, None} =>
        x[1] \in Chats /\ ~saved[saved[x].result.dir].log

\* The results of an execution are put together after its BatchRunner ended: the
\* process of a reported execution never writes a directory or a log again.
ReportedProcessEnded ==
    \A x \in Executions : saved[x].log => ~Alive(x)

Unreturned == {"entry_failed", "restore_failed", "interrupted", "crashed"}

\* Script and audit profile are as an execution found them after every way out
\* of the with block: a result, a timeout, a process that could not be started or
\* ended, a result that could not be saved, an interrupt inside of it.  What can
\* leave the file switched is a failure or an interrupt of the switch itself or
\* of the restore, and the death of the process.
ConfigReturned ==
    \A c \in Callers :
        At(c, "idle") /\ caller[c].original # None /\ caller[c].outcome \notin Unreturned
            => /\ script[Job(Running(c))] = caller[c].original
               /\ traced[Job(Running(c))] = caller[c].wasTraced

\* An execution comes to an end although BatchRunner may hang.
ExecutionReturns == \A c \in Callers : ~At(c, "idle") ~> At(c, "idle")

\* What is reported of an execution: its verdict rests on its own process and
\* script, a candidate's also on its own directory, a chat's on its own or an
\* abandoned one, and nothing of it can still be written.
ResultsSound ==
    /\ AttemptVerdictSound /\ ResultsOfOwnScript
    /\ ForeignDirectoryAbandoned /\ ReportedProcessEnded

===============================================================================
