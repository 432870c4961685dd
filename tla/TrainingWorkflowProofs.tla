------------------------ MODULE TrainingWorkflowProofs ------------------------
(***************************************************************************)
(* Safety of the training scheduler for any number of generations,          *)
(* processes and clients, with unbounded crashes, faults and commands.      *)
(*                                                                          *)
(* The inductive invariant says one thing of every copy of state.json there *)
(* is: the file, the copy a Runtime decided on, and the copy a transition   *)
(* is about to write.  Each of them is a safe state, one whose completed    *)
(* generations are a prefix with results and whose aggregation came last.   *)
(* Results are never lost, so a safe state stays safe however long a        *)
(* transition holds on to it: that is why lost updates cannot break it.     *)
(* The same holds of what a reconciliation has read: lists of Workers only  *)
(* grow, so the Worker it is about to save still exists.                    *)
(***************************************************************************)
EXTENDS TrainingWorkflow, SequenceTheorems, FiniteSetTheorems, TLAPS

-----------------------------------------------------------------------------
(***************************************************************************)
(* What every Campaign action of CampaignWorkers preserves: the types, the  *)
(* fact that a Worker saved as completed left its result on disk, the order *)
(* of the generations, and that a written result is never lost.             *)
(***************************************************************************)

\* A thread writes the Worker it was launched with, after the result.
ThreadsBacked ==
    \A t \in threads :
        /\ t.epoch \in 1 .. Len(workers[t.gen])
        /\ t.phase \in {"written", "saved"} => t.gen \in results

CompletedWorkersBacked ==
    \A g \in Generations : \A e \in 1 .. Len(workers[g]) :
        workers[g][e] = "completed" => g \in results

CampaignInv ==
    /\ CampaignTypeOK
    /\ ThreadsBacked
    /\ CompletedWorkersBacked
    /\ GenerationsInOrder

\* All generations before g have a result.
Reached(g) == 0 .. g - 1 \subseteq results

\* What a Campaign step gives the module that takes it.
WorkersListed == \A g \in Generations : DOMAIN workers[g] \subseteq DOMAIN workers'[g]

CampaignKept == CampaignInv' /\ results \subseteq results' /\ WorkersListed

LEMMA GenerationsAreNumbers == Generations \subseteq Nat /\ GenerationCount \in Nat \ {0}
BY CampaignAssumption DEF Generations

LEMMA CampaignInitInv == CampaignInit => CampaignInv
<1> SUFFICES ASSUME CampaignInit PROVE CampaignInv
  OBVIOUS
<1>1. workers \in [Generations -> Seq(WorkerStatus)]
  BY EmptySeq DEF CampaignInit
<1>2. /\ previews \in [Generations -> PreviewStatus]
      /\ orphan \in [Generations -> BOOLEAN]
  BY DEF CampaignInit, PreviewStatus
<1>3. current \in 0 .. GenerationCount
  BY GenerationsAreNumbers DEF CampaignInit
<1>4. CampaignTypeOK
  BY <1>1, <1>2, <1>3 DEF CampaignInit, CampaignTypeOK
<1>5. ThreadsBacked /\ CompletedWorkersBacked /\ GenerationsInOrder
  BY DEF CampaignInit, ThreadsBacked, CompletedWorkersBacked, GenerationsInOrder
<1>6. QED
  BY <1>4, <1>5 DEF CampaignInv

LEMMA CampaignStutter == CampaignInv /\ UNCHANGED campaignVars => CampaignKept
BY DEF campaignVars, CampaignInv, CampaignKept, WorkersListed, CampaignTypeOK, ThreadsBacked,
       CompletedWorkersBacked, GenerationsInOrder

LEMMA PrepareKept == CampaignInv /\ PrepareCampaign => CampaignKept
BY DEF PrepareCampaign, CampaignInv, CampaignKept, WorkersListed, CampaignTypeOK, ThreadsBacked,
       CompletedWorkersBacked, GenerationsInOrder

LEMMA KillThreadsKept ==
    ASSUME NEW p, CampaignInv, KillThreads(p),
           UNCHANGED <<prepared, previews, orphan, workers, results, current, cmoLock>>
    PROVE  CampaignKept
BY DEF KillThreads, CampaignInv, CampaignKept, WorkersListed, CampaignTypeOK, ThreadsBacked,
       CompletedWorkersBacked, GenerationsInOrder

\* A preview step of a generation whose predecessors have their results.
LEMMA PreviewKept ==
    ASSUME NEW g \in Generations, CampaignInv, Reached(g),
           OpenPreview(g) \/ BuildPreview(g) \/ SavePreview(g) \/ FailPreview(g)
    PROVE  CampaignKept
<1>1. /\ previews' \in [Generations -> PreviewStatus]
      /\ \A h \in Generations : h # g => previews'[h] = previews[h]
  BY DEF OpenPreview, BuildPreview, SavePreview, FailPreview, CampaignInv,
         CampaignTypeOK, PreviewStatus
<1>2. current' \in 0 .. GenerationCount
  BY GenerationsAreNumbers
     DEF OpenPreview, BuildPreview, SavePreview, FailPreview, CampaignInv,
         CampaignTypeOK, Generations
<1>3. UNCHANGED <<prepared, orphan, workers, results, cmoLock, threads>>
  BY DEF OpenPreview, BuildPreview, SavePreview, FailPreview
<1>4. GenerationsInOrder'
  BY <1>1, <1>3 DEF CampaignInv, GenerationsInOrder, Reached
<1>5. QED
  BY <1>1, <1>2, <1>3, <1>4
     DEF CampaignInv, CampaignKept, WorkersListed, CampaignTypeOK, ThreadsBacked,
         CompletedWorkersBacked

LEMMA StartOperationKept ==
    ASSUME NEW p \in Processes, NEW g \in Generations, CampaignInv, StartOperation(p, g)
    PROVE  CampaignKept
BY DEF StartOperation, CampaignInv, CampaignKept, WorkersListed, CampaignTypeOK, ThreadsBacked,
       CompletedWorkersBacked, GenerationsInOrder

LEMMA LaunchWorkerKept ==
    ASSUME NEW p \in Processes, NEW g \in Generations, CampaignInv, Reached(g),
           LaunchWorker(p, g)
    PROVE  CampaignKept
<1> DEFINE new == [proc |-> p, gen |-> g, epoch |-> Len(workers[g]) + 1,
                   phase |-> "running"]
<1>1. workers[g] \in Seq(WorkerStatus) /\ "running" \in WorkerStatus
  BY DEF CampaignInv, CampaignTypeOK, WorkerStatus
<1>2. /\ workers'[g] \in Seq(WorkerStatus)
      /\ Len(workers'[g]) = Len(workers[g]) + 1
      /\ \A i \in 1 .. Len(workers[g]) : workers'[g][i] = workers[g][i]
      /\ workers'[g][Len(workers[g]) + 1] = "running"
      /\ workers' = [workers EXCEPT ![g] = workers'[g]]
  BY <1>1, AppendProperties DEF LaunchWorker, CampaignInv, CampaignTypeOK
<1>3. /\ workers' \in [Generations -> Seq(WorkerStatus)]
      /\ \A h \in Generations : h # g => workers'[h] = workers[h]
  BY <1>2 DEF CampaignInv, CampaignTypeOK
<1>4. new \in Thread /\ threads' = threads \cup {new}
  BY <1>1, LenProperties DEF LaunchWorker, Thread, ThreadPhase
<1>5. CampaignTypeOK'
  BY <1>3, <1>4 DEF LaunchWorker, CampaignInv, CampaignTypeOK
<1>6. \A h \in Generations : Len(workers[h]) \in Nat /\ Len(workers[h]) <= Len(workers'[h])
  <2> TAKE h \in Generations
  <2>1. Len(workers[h]) \in Nat
    BY LenProperties DEF CampaignInv, CampaignTypeOK
  <2>2. CASE h = g
    BY <2>1, <2>2, <1>2
  <2>3. CASE h # g
    BY <2>1, <2>3, <1>3
  <2>4. QED
    BY <2>2, <2>3
<1>7. ThreadsBacked'
  <2> SUFFICES ASSUME NEW t \in threads'
               PROVE  /\ t.epoch \in 1 .. Len(workers'[t.gen])
                      /\ t.phase \in {"written", "saved"} => t.gen \in results'
    BY DEF ThreadsBacked
  <2>1. CASE t \in threads
    <3>1. t.gen \in Generations /\ t.epoch \in 1 .. Len(workers[t.gen])
      BY <2>1 DEF CampaignInv, CampaignTypeOK, ThreadsBacked, Thread
    <3>2. QED
      BY <2>1, <3>1, <1>3, <1>6
         DEF LaunchWorker, CampaignInv, CampaignTypeOK, ThreadsBacked
  <2>2. CASE t = new
    BY <2>2, <1>2, <1>6
  <2>3. QED
    BY <1>4, <2>1, <2>2
<1>8. CompletedWorkersBacked'
  BY <1>2, <1>3, <1>6 DEF LaunchWorker, CampaignInv, CompletedWorkersBacked
<1>9. GenerationsInOrder' /\ results' = results
  BY <1>3 DEF LaunchWorker, CampaignInv, GenerationsInOrder, Reached
<1>10. WorkersListed
  BY <1>3, <1>6 DEF WorkersListed, CampaignInv, CampaignTypeOK
<1>11. QED
  BY <1>5, <1>7, <1>8, <1>9, <1>10 DEF CampaignInv, CampaignKept

\* One saved Worker changes its status; all others keep theirs.
LEMMA SavedWorker ==
    ASSUME NEW g \in Generations, NEW e \in 1 .. Len(workers[g]),
           NEW status \in WorkerStatus, CampaignTypeOK,
           workers' = [workers EXCEPT ![g][e] = status]
    PROVE  /\ workers' \in [Generations -> Seq(WorkerStatus)]
           /\ \A h \in Generations : Len(workers'[h]) = Len(workers[h])
           /\ \A h \in Generations : \A i \in 1 .. Len(workers[h]) :
                 workers'[h][i] = IF h = g /\ i = e THEN status ELSE workers[h][i]
           /\ \A h \in Generations : workers'[h] # <<>> => workers[h] # <<>>
           /\ WorkersListed
<1> DEFINE saved == [workers[g] EXCEPT ![e] = status]
<1>1. workers \in [Generations -> Seq(WorkerStatus)] /\ workers[g] \in Seq(WorkerStatus)
  BY DEF CampaignTypeOK
<1>2. workers' = [workers EXCEPT ![g] = saved]
  BY <1>1
<1>3. /\ saved \in Seq(WorkerStatus)
      /\ Len(saved) = Len(workers[g])
      /\ \A i \in 1 .. Len(workers[g]) : saved[i] = IF i = e THEN status ELSE workers[g][i]
  BY <1>1, ExceptSeq
<1>4. workers[g] # <<>>
  BY <1>1, EmptySeq
<1> HIDE DEF saved
<1>5. workers'[g] = saved /\ \A h \in Generations : h # g => workers'[h] = workers[h]
  BY <1>1, <1>2
<1>6. workers' \in [Generations -> Seq(WorkerStatus)]
  BY <1>1, <1>2, <1>3
<1>7. \A h \in Generations : Len(workers'[h]) = Len(workers[h])
  BY <1>3, <1>5
<1>8. WorkersListed
  BY <1>1, <1>6, <1>7 DEF WorkersListed
<1>9. QED
  BY <1>3, <1>4, <1>5, <1>6, <1>7, <1>8

LEMMA WriteResultKept ==
    ASSUME NEW t \in threads, CampaignInv, WriteResult(t)
    PROVE  CampaignKept
<1>1. t \in Thread /\ t.gen \in Generations
  BY DEF CampaignInv, CampaignTypeOK, Thread
<1>2. [t EXCEPT !.phase = "written"] \in Thread
  BY <1>1 DEF Thread, ThreadPhase
<1>3. CampaignTypeOK'
  BY <1>1, <1>2 DEF WriteResult, Advance, CampaignInv, CampaignTypeOK
<1>4. ThreadsBacked'
  BY <1>1, <1>2 DEF WriteResult, Advance, CampaignInv, ThreadsBacked, Thread
<1>5. QED
  BY <1>3, <1>4
     DEF WriteResult, CampaignInv, CampaignKept, WorkersListed, CompletedWorkersBacked,
         GenerationsInOrder

LEMMA SaveCompletedKept ==
    ASSUME NEW t \in threads, CampaignInv, SaveCompleted(t)
    PROVE  CampaignKept
<1>1. /\ t \in Thread /\ t.gen \in Generations /\ t.gen \in results
      /\ t.epoch \in 1 .. Len(workers[t.gen])
  BY DEF CampaignInv, CampaignTypeOK, ThreadsBacked, Thread, SaveCompleted
<1>2. "completed" \in WorkerStatus /\ CampaignTypeOK
  BY DEF WorkerStatus, CampaignInv
<1>3. /\ workers' \in [Generations -> Seq(WorkerStatus)]
      /\ \A h \in Generations : Len(workers'[h]) = Len(workers[h])
      /\ \A h \in Generations : \A i \in 1 .. Len(workers[h]) :
            workers'[h][i] =
                IF h = t.gen /\ i = t.epoch THEN "completed" ELSE workers[h][i]
      /\ \A h \in Generations : workers'[h] # <<>> => workers[h] # <<>>
      /\ WorkersListed
  BY <1>1, <1>2, SavedWorker DEF SaveCompleted, SaveWorker
<1>4. [t EXCEPT !.phase = "saved"] \in Thread
  BY <1>1 DEF Thread, ThreadPhase
<1>5. CampaignTypeOK'
  BY <1>2, <1>3, <1>4 DEF SaveCompleted, Advance, CampaignTypeOK
<1>6. ThreadsBacked'
  <2> SUFFICES ASSUME NEW u \in threads'
               PROVE  /\ u.epoch \in 1 .. Len(workers'[u.gen])
                      /\ u.phase \in {"written", "saved"} => u.gen \in results'
    BY DEF ThreadsBacked
  <2>1. results' = results /\ (u \in threads \/ u = [t EXCEPT !.phase = "saved"])
    BY DEF SaveCompleted, Advance
  <2>2. CASE u \in threads
    <3>1. u.gen \in Generations /\ u.epoch \in 1 .. Len(workers[u.gen])
      BY <2>2 DEF CampaignInv, CampaignTypeOK, ThreadsBacked, Thread
    <3>2. QED
      BY <1>3, <2>1, <2>2, <3>1 DEF CampaignInv, ThreadsBacked
  <2>3. CASE u = [t EXCEPT !.phase = "saved"]
    <3>1. u.gen = t.gen /\ u.epoch = t.epoch /\ u.phase = "saved"
      BY <1>1, <2>3 DEF Thread
    <3>2. QED
      BY <1>1, <1>3, <2>1, <3>1
  <2>4. QED
    BY <2>1, <2>2, <2>3
<1>7. CompletedWorkersBacked' /\ GenerationsInOrder'
  BY <1>1, <1>3
     DEF SaveCompleted, CampaignInv, CompletedWorkersBacked, GenerationsInOrder
<1>8. QED
  BY <1>3, <1>5, <1>6, <1>7 DEF SaveCompleted, CampaignInv, CampaignKept

\* A pause, a cancellation or a failure: the Worker's end says nothing of a result.
LEMMA EndedWorkerKept ==
    ASSUME NEW t \in threads, CampaignInv,
           NEW status \in {"failed", "paused", "cancelled_incomplete"},
           NEW phase \in {"closing", "failed"},
           SaveWorker(t, status), Advance(t, phase),
           UNCHANGED <<prepared, previews, orphan, results, current, cmoLock>>
    PROVE  CampaignKept
<1>1. /\ t \in Thread /\ t.gen \in Generations
      /\ t.epoch \in 1 .. Len(workers[t.gen])
  BY DEF CampaignInv, CampaignTypeOK, ThreadsBacked, Thread
<1>2. status \in WorkerStatus /\ status # "completed" /\ CampaignTypeOK
  BY DEF WorkerStatus, CampaignInv
<1>3. /\ workers' \in [Generations -> Seq(WorkerStatus)]
      /\ \A h \in Generations : Len(workers'[h]) = Len(workers[h])
      /\ \A h \in Generations : \A i \in 1 .. Len(workers[h]) :
            workers'[h][i] = IF h = t.gen /\ i = t.epoch THEN status ELSE workers[h][i]
      /\ \A h \in Generations : workers'[h] # <<>> => workers[h] # <<>>
      /\ WorkersListed
  BY <1>1, <1>2, SavedWorker DEF SaveWorker
<1>4. [t EXCEPT !.phase = phase] \in Thread
  BY <1>1 DEF Thread, ThreadPhase
<1>5. CampaignTypeOK'
  BY <1>2, <1>3, <1>4 DEF Advance, CampaignTypeOK
<1>6. ThreadsBacked'
  <2> SUFFICES ASSUME NEW u \in threads'
               PROVE  /\ u.epoch \in 1 .. Len(workers'[u.gen])
                      /\ u.phase \in {"written", "saved"} => u.gen \in results'
    BY DEF ThreadsBacked
  <2>1. results' = results /\ (u \in threads \/ u = [t EXCEPT !.phase = phase])
    BY DEF Advance
  <2>2. CASE u \in threads
    <3>1. u.gen \in Generations /\ u.epoch \in 1 .. Len(workers[u.gen])
      BY <2>2 DEF CampaignInv, CampaignTypeOK, ThreadsBacked, Thread
    <3>2. QED
      BY <1>3, <2>1, <2>2, <3>1 DEF CampaignInv, ThreadsBacked
  <2>3. CASE u = [t EXCEPT !.phase = phase]
    <3>1. u.gen = t.gen /\ u.epoch = t.epoch /\ u.phase = phase
      BY <1>1, <2>3 DEF Thread
    <3>2. QED
      BY <1>1, <1>3, <2>1, <3>1
  <2>4. QED
    BY <2>1, <2>2, <2>3
<1>7. CompletedWorkersBacked' /\ GenerationsInOrder'
  BY <1>1, <1>2, <1>3
     DEF CampaignInv, CompletedWorkersBacked, GenerationsInOrder
<1>8. QED
  BY <1>3, <1>5, <1>6, <1>7 DEF CampaignInv, CampaignKept

LEMMA SaveUnfinishedKept ==
    ASSUME NEW t \in threads, CampaignInv,
           NEW status \in {"paused", "cancelled_incomplete"}, SaveUnfinished(t, status)
    PROVE  CampaignKept
BY EndedWorkerKept DEF SaveUnfinished

LEMMA FailWorkerKept ==
    ASSUME NEW t \in threads, CampaignInv, FailWorker(t)
    PROVE  CampaignKept
BY EndedWorkerKept DEF FailWorker

LEMMA AdvanceCampaignKept ==
    ASSUME NEW t \in threads, CampaignInv, AdvanceCampaign(t)
    PROVE  CampaignKept
<1>1. t \in Thread /\ t.gen \in Generations /\ t.gen \in results
  BY DEF CampaignInv, CampaignTypeOK, ThreadsBacked, AdvanceCampaign, Thread
<1>2. [t EXCEPT !.phase = "closing"] \in Thread
  BY <1>1 DEF Thread, ThreadPhase
<1>3. t.gen + 1 \in 0 .. GenerationCount
  BY <1>1, GenerationsAreNumbers DEF Generations
<1>4. CampaignTypeOK'
  BY <1>2, <1>3 DEF AdvanceCampaign, Advance, CampaignInv, CampaignTypeOK
<1>5. ThreadsBacked'
  BY <1>1, <1>2 DEF AdvanceCampaign, Advance, CampaignInv, ThreadsBacked, Thread
<1>6. QED
  BY <1>4, <1>5 DEF AdvanceCampaign, CampaignInv, CampaignKept, WorkersListed,
                    CompletedWorkersBacked, GenerationsInOrder

LEMMA ReleaseCmoLockKept ==
    ASSUME NEW t \in threads, CampaignInv, ReleaseCmoLock(t)
    PROVE  CampaignKept
BY DEF ReleaseCmoLock, CampaignInv, CampaignKept, WorkersListed, CampaignTypeOK, ThreadsBacked,
       CompletedWorkersBacked, GenerationsInOrder

\* A finding that is no longer fresh still names a Worker, and a result stays one.
Fresh(finding) ==
    /\ finding.epoch \in DOMAIN workers[finding.gen]
    /\ finding.done => finding.gen \in results

LEMMA ReconcileWorkerKept ==
    ASSUME NEW finding \in Finding, CampaignInv, Fresh(finding), ReconcileWorker(finding)
    PROVE  CampaignKept
<1> DEFINE g == finding.gen
           e == finding.epoch
           status == IF finding.done THEN "completed" ELSE "reconciliation_required"
<1>1. /\ g \in Generations
      /\ CampaignTypeOK
      /\ status \in WorkerStatus
      /\ status = "completed" => g \in results
  BY DEF Finding, CampaignInv, WorkerStatus, Fresh
<1>2. workers[g] \in Seq(WorkerStatus)
  BY <1>1 DEF CampaignTypeOK
<1>3. e \in 1 .. Len(workers[g])
  BY <1>2 DEF Fresh
<1>4. workers' = [workers EXCEPT ![g][e] = status]
  BY DEF ReconcileWorker
<1> HIDE DEF g, e, status
<1>5. /\ workers' \in [Generations -> Seq(WorkerStatus)]
      /\ \A h \in Generations : Len(workers'[h]) = Len(workers[h])
      /\ \A h \in Generations : \A i \in 1 .. Len(workers[h]) :
            workers'[h][i] = IF h = g /\ i = e THEN status ELSE workers[h][i]
      /\ \A h \in Generations : workers'[h] # <<>> => workers[h] # <<>>
      /\ WorkersListed
  BY <1>1, <1>3, <1>4, SavedWorker
<1>6. UNCHANGED <<prepared, previews, orphan, results, current, cmoLock, threads>>
  BY DEF ReconcileWorker
<1>7. CampaignTypeOK'
  BY <1>1, <1>5, <1>6 DEF CampaignTypeOK
<1>8. ThreadsBacked'
  BY <1>1, <1>5, <1>6 DEF CampaignInv, CampaignTypeOK, ThreadsBacked, Thread
<1>9. CompletedWorkersBacked' /\ GenerationsInOrder'
  BY <1>1, <1>5, <1>6 DEF CampaignInv, CompletedWorkersBacked, GenerationsInOrder
<1>10. QED
  BY <1>5, <1>6, <1>7, <1>8, <1>9 DEF CampaignInv, CampaignKept

LEMMA ReconcileStateKept ==
    ASSUME NEW finding \in Finding, CampaignInv, ReconcileState(finding)
    PROVE  CampaignKept
<1>1. finding.gen \in 0 .. GenerationCount /\ finding.gen + 1 \in 0 .. GenerationCount
  BY GenerationsAreNumbers DEF Finding, Generations
<1>2. current' \in 0 .. GenerationCount
  BY <1>1 DEF ReconcileState, CampaignInv, CampaignTypeOK
<1>3. QED
  BY <1>2 DEF ReconcileState, CampaignInv, CampaignKept, WorkersListed, CampaignTypeOK,
              ThreadsBacked, CompletedWorkersBacked, GenerationsInOrder

-----------------------------------------------------------------------------
(* The scheduler *)

Aggregated(s) ==
    s.phase8 # "NOT_STARTED" \/ s.status = "COMPLETED" => results = Generations

SafeStates == {s \in TrainingState : BackedPrefix(s) /\ Aggregated(s)}

ProcessesOK ==
    /\ lock \in Processes \cup {Free}
    /\ pid \in Processes \cup {Free}
    /\ pc \in [Processes -> RuntimePc]
    /\ found \in [Processes -> Finding]
    /\ ctl \in [Clients -> ClientPc]
    /\ phase8Runs \in Nat
    /\ spent \in [faults: Nat, crashes: Nat, commands: Nat]

StatesSafe ==
    /\ st \in SafeStates
    /\ snap \in [Processes -> SafeStates]
    /\ draft \in [Processes \cup Clients -> SafeStates]

\* The calls that work on a generation, and those that need all of them.
GenerationPc == {"preview", "build", "execute", "launch", "inspect"}
FinalPc == {"phase8", "finish"}

CallsJustified ==
    \A r \in Processes :
        /\ pc[r] \in GenerationPc => snap[r].gen \in Generations
        /\ pc[r] \in FinalPc => results = Generations

AggregationJustified == phase8Runs > 0 => results = Generations

\* A reconciliation saves a Worker that exists, as completed only with a result.
FindingsJustified ==
    \A r \in Processes : pc[r] = "reconcileWorker" => Fresh(found[r])

Inv ==
    /\ CampaignInv
    /\ ProcessesOK
    /\ StatesSafe
    /\ CallsJustified
    /\ AggregationJustified
    /\ FindingsJustified

-----------------------------------------------------------------------------
(* Safe states *)

\* What is used of a safe state.
LEMMA SafeStateFacts ==
    ASSUME NEW s \in SafeStates
    PROVE  /\ s \in TrainingState
           /\ s.gen \in 0 .. GenerationCount
           /\ s.completed = 0 .. s.gen - 1
           /\ Reached(s.gen)
BY DEF SafeStates, TrainingState, BackedPrefix, Reached

\* More results keep every state safe.
LEMMA SafeStatesGrow ==
    ASSUME results \subseteq results', results' \subseteq Generations
    PROVE  SafeStates \subseteq SafeStates'
BY DEF SafeStates, BackedPrefix, Aggregated

\* The scheduler calls for Phase 8 only with all results on disk, and for a
\* generation only while one is missing.
LEMMA CallForJustified ==
    ASSUME NEW s \in SafeStates, results \subseteq Generations
    PROVE  /\ CallFor(s) \in {"none", "prepare", "preview", "execute", "inspect"} \cup FinalPc
           /\ CallFor(s) \in GenerationPc => s.gen \in Generations
           /\ CallFor(s) \in FinalPc => results = Generations
<1>1. /\ s.gen \in Nat /\ s.gen <= GenerationCount
      /\ GenerationCount \in Nat
      /\ s.completed = 0 .. s.gen - 1
      /\ s.completed \subseteq results
  BY SafeStateFacts, GenerationsAreNumbers DEF Reached
<1>2. Cardinality(s.completed) = s.gen
  <2>1. s.gen - 1 \in Int /\ 0 \in Int
    BY <1>1
  <2>2. Cardinality(0 .. s.gen - 1) = IF 0 > s.gen - 1 THEN 0 ELSE (s.gen - 1) - 0 + 1
    BY <2>1, FS_Interval
  <2>3. QED
    BY <1>1, <2>2
<1>3. AllGenerationsDone(s) => results = Generations
  <2>1. AllGenerationsDone(s) => s.gen = GenerationCount
    BY <1>1, <1>2 DEF AllGenerationsDone
  <2>2. s.gen = GenerationCount => s.completed = Generations
    BY <1>1 DEF Generations
  <2>3. QED
    BY <1>1, <2>1, <2>2
<1>4. ~AllGenerationsDone(s) => s.gen \in Generations
  BY <1>1, <1>2 DEF AllGenerationsDone, Generations
<1>5. CallFor(s) \in {"none", "prepare", "preview", "execute", "inspect"} \cup FinalPc
  BY DEF CallFor, FinalPc
<1>6. CallFor(s) \in GenerationPc => ~AllGenerationsDone(s)
  BY DEF CallFor, GenerationPc
<1>7. CallFor(s) \in FinalPc => AllGenerationsDone(s)
  BY DEF CallFor, FinalPc
<1>8. QED
  BY <1>3, <1>4, <1>5, <1>6, <1>7

\* Changes of the scheduling fields only.
LEMMA InitialStateSafe == InitialState \in SafeStates
<1>1. NoRecovery \in Recovery
  BY GenerationsAreNumbers DEF NoRecovery, Recovery, Stage, TrainingAction
<1>2. InitialState \in TrainingState
  BY <1>1, GenerationsAreNumbers
     DEF InitialState, TrainingState, Status, Stage, TrainingAction, Phase8Status
<1>3. InitialState.completed = 0 .. InitialState.gen - 1 /\ InitialState.completed = {}
  BY DEF InitialState
<1>4. Aggregated(InitialState)
  BY DEF InitialState, Aggregated
<1>5. QED
  BY <1>2, <1>3, <1>4 DEF SafeStates, BackedPrefix

LEMMA RecoveriesTyped ==
    /\ IdleRecovery \in Recovery
    /\ \A s \in SafeStates : NextRecovery(s) \in Recovery
<1>1. IdleRecovery \in Recovery
  BY GenerationsAreNumbers DEF IdleRecovery, NoRecovery, Recovery, Stage, TrainingAction
<1>2. ASSUME NEW s \in SafeStates PROVE NextRecovery(s) \in Recovery
  <2>1. /\ s.recovery \in Recovery /\ s.stage \in Stage
        /\ s.action \in TrainingAction /\ s.gen \in 0 .. GenerationCount
    BY DEF SafeStates, TrainingState
  <2>2. s.recovery.attempts + 1 \in Nat
    BY <2>1 DEF Recovery
  <2>3. QED
    BY <2>1, <2>2 DEF NextRecovery, Recovery
<1>3. QED
  BY <1>1, <1>2

\* Every state a transition computes from a safe file is safe: only SUMMARIZE
\* touches the generations, and what completes the Workflow has all results.
LEMMA DraftsSafe ==
    ASSUME st \in SafeStates
    PROVE  /\ [Loaded EXCEPT !.campaign = TRUE, !.status = "RUNNING",
                             !.stage = "EVOLUTION", !.action = "PREVIEW"] \in SafeStates
           /\ Previewed \in SafeStates
           /\ Executed \in SafeStates
           /\ [Loaded EXCEPT !.status = "FAILED", !.action = "IDLE"] \in SafeStates
           /\ [Loaded EXCEPT !.action = "WAIT_WORKER"] \in SafeStates
           /\ [Loaded EXCEPT !.recovery = IdleRecovery] \in SafeStates
           /\ \A status \in Status \ {"COMPLETED"}, action \in TrainingAction :
                 [Loaded EXCEPT !.status = status, !.action = action] \in SafeStates
<1>1. st \in TrainingState /\ BackedPrefix(st) /\ Aggregated(st)
  BY DEF SafeStates
<1>2. Loaded \in SafeStates
  BY <1>1 DEF Loaded, SafeStates, TrainingState, BackedPrefix, Aggregated
<1>3. ASSUME NEW s \in SafeStates, NEW status \in Status \ {"COMPLETED"},
             NEW stage \in Stage, NEW action \in TrainingAction
      PROVE  /\ [s EXCEPT !.status = status, !.action = action] \in SafeStates
             /\ [s EXCEPT !.status = status, !.stage = stage, !.action = action] \in SafeStates
             /\ [s EXCEPT !.campaign = TRUE, !.status = status, !.stage = stage,
                          !.action = action] \in SafeStates
             /\ [s EXCEPT !.action = action] \in SafeStates
             /\ [s EXCEPT !.recovery = IdleRecovery] \in SafeStates
  BY RecoveriesTyped DEF SafeStates, TrainingState, BackedPrefix, Aggregated
<1>4. /\ {"RUNNING", "FAILED"} \subseteq Status \ {"COMPLETED"}
      /\ "EVOLUTION" \in Stage
      /\ {"PREVIEW", "EXECUTE", "SUMMARIZE", "WAIT_WORKER", "IDLE"} \subseteq TrainingAction
  BY DEF Status, Stage, TrainingAction
<1> HIDE DEF Loaded
<1>5. QED
  BY <1>2, <1>3, <1>4 DEF Previewed, Executed

\* A failure is recorded over the file without touching generations or Phase 8.
LEMMA FailuresSafe ==
    ASSUME st \in SafeStates, NEW s \in SafeStates
    PROVE  /\ [st EXCEPT !.status = "STOPPED", !.action = "IDLE", !.retry = s.retry,
                         !.recovery = NextRecovery(s)] \in SafeStates
           /\ [st EXCEPT !.retry = TRUE, !.recovery = NextRecovery(s)] \in SafeStates
<1>1. NextRecovery(s) \in Recovery /\ s.retry \in BOOLEAN
  BY RecoveriesTyped DEF SafeStates, TrainingState
<1>2. "STOPPED" \in Status /\ "IDLE" \in TrainingAction
  BY DEF Status, TrainingAction
<1>3. QED
  BY <1>1, <1>2 DEF SafeStates, TrainingState, BackedPrefix, Aggregated

\* With all results on disk the Workflow may complete, or fail its aggregation.
LEMMA FinalDraftsSafe ==
    ASSUME st \in SafeStates, results = Generations
    PROVE  /\ [Loaded EXCEPT !.status = "COMPLETED", !.stage = "REPORT",
                 !.action = "IDLE", !.phase8 = "COMPLETED"] \in SafeStates
           /\ [Loaded EXCEPT !.status = "COMPLETED", !.stage = "REPORT",
                 !.action = "IDLE"] \in SafeStates
           /\ [Loaded EXCEPT !.status = "FAILED", !.stage = "PHASE8",
                 !.action = "IDLE", !.phase8 = "FAILED"] \in SafeStates
<1>1. [Loaded EXCEPT !.status = "COMPLETED", !.stage = "REPORT",
         !.action = "IDLE", !.phase8 = "COMPLETED"] \in SafeStates
  BY DEF SafeStates, TrainingState, BackedPrefix, Aggregated, Loaded, Status, Stage,
         TrainingAction, Phase8Status
<1>2. [Loaded EXCEPT !.status = "COMPLETED", !.stage = "REPORT",
         !.action = "IDLE"] \in SafeStates
  BY DEF SafeStates, TrainingState, BackedPrefix, Aggregated, Loaded, Status, Stage,
         TrainingAction
<1>3. [Loaded EXCEPT !.status = "FAILED", !.stage = "PHASE8",
         !.action = "IDLE", !.phase8 = "FAILED"] \in SafeStates
  BY DEF SafeStates, TrainingState, BackedPrefix, Aggregated, Loaded, Status, Stage,
         TrainingAction, Phase8Status
<1>4. QED
  BY <1>1, <1>2, <1>3

\* SUMMARIZE extends the prefix by a generation whose result is on disk.
LEMMA CompletionSafe ==
    ASSUME st \in SafeStates, NEW s \in SafeStates, s.gen \in Generations,
           s.gen \in results
    PROVE  [Loaded EXCEPT !.completed = s.completed \cup {s.gen},
                          !.gen = s.gen + 1, !.action = "PREVIEW"] \in SafeStates
<1>1. /\ s.completed = 0 .. s.gen - 1 /\ s.completed \subseteq results
      /\ s.gen \in Nat /\ s.gen + 1 \in 0 .. GenerationCount
  BY SafeStateFacts, GenerationsAreNumbers DEF Reached, Generations
<1>2. s.completed \cup {s.gen} = 0 .. (s.gen + 1) - 1
  BY <1>1
<1>3. /\ s.completed \cup {s.gen} \subseteq results
      /\ s.completed \cup {s.gen} \subseteq Generations
  BY <1>1 DEF SafeStates, TrainingState
<1>4. "PREVIEW" \in TrainingAction
  BY DEF TrainingAction
<1>5. QED
  BY <1>1, <1>2, <1>3, <1>4
     DEF SafeStates, TrainingState, BackedPrefix, Aggregated, Loaded

LEMMA AfterActionRange ==
    \A s, moved : AfterAction(s, moved) \in {"settle", "release", "round"}
BY DEF AfterAction

-----------------------------------------------------------------------------
(* Steps *)

\* What has to be shown of a step that may move Runtime r.
StepOK(r) ==
    /\ ProcessesOK'
    /\ st' \in SafeStates
    /\ snap' \in [Processes -> SafeStates]
    /\ draft' \in [Processes \cup Clients -> SafeStates]
    /\ \A q \in Processes \ {r} :
          pc'[q] = pc[q] /\ snap'[q] = snap[q] /\ found'[q] = found[q]
    /\ pc'[r] = "reconcileWorker" =>
          /\ found'[r].epoch \in DOMAIN workers'[found'[r].gen]
          /\ found'[r].done => found'[r].gen \in results'
    /\ pc'[r] \in GenerationPc => snap'[r].gen \in Generations
    /\ pc'[r] \in FinalPc => results' = Generations
    /\ phase8Runs' > 0 => results' = Generations

\* More results and more Workers keep a finding fresh.
LEMMA FindingsKept ==
    ASSUME Inv, CampaignKept, NEW q \in Processes, pc[q] = "reconcileWorker",
           found'[q] = found[q]
    PROVE  /\ found'[q].epoch \in DOMAIN workers'[found'[q].gen]
           /\ found'[q].done => found'[q].gen \in results'
<1>1. found[q] \in Finding /\ Fresh(found[q])
  BY DEF Inv, ProcessesOK, FindingsJustified
<1>2. found[q].gen \in Generations
  BY <1>1 DEF Finding
<1>3. QED
  BY <1>1, <1>2 DEF Fresh, CampaignKept, WorkersListed

LEMMA StepKept ==
    ASSUME Inv, NEW r \in Processes, StepOK(r), CampaignKept
    PROVE  Inv'
<1>1. /\ CampaignInv' /\ results \subseteq results' /\ results' \subseteq Generations
  BY DEF CampaignKept, CampaignInv, CampaignTypeOK
<1>2. SafeStates \subseteq SafeStates'
  BY <1>1, SafeStatesGrow
<1>3. StatesSafe'
  BY <1>2 DEF StepOK, StatesSafe
<1>4. CallsJustified'
  BY <1>1 DEF StepOK, Inv, CallsJustified
<1>5. FindingsJustified'
  <2> SUFFICES ASSUME NEW q \in Processes, pc'[q] = "reconcileWorker"
               PROVE  /\ found'[q].epoch \in DOMAIN workers'[found'[q].gen]
                      /\ found'[q].done => found'[q].gen \in results'
    BY DEF FindingsJustified, Fresh
  <2>1. CASE q = r
    BY <2>1 DEF StepOK
  <2>2. CASE q # r
    BY <2>2, FindingsKept DEF StepOK
  <2>3. QED
    BY <2>1, <2>2
<1>6. QED
  BY <1>1, <1>3, <1>4, <1>5 DEF StepOK, Inv, AggregationJustified

\* A driver call that ends in a safe draft.
LEMMA PreparedOK ==
    ASSUME Inv, NEW r \in Processes, NEW next \in SafeStates, Prepared(r, next),
           phase8Runs' \in Nat, phase8Runs' > 0 => results' = Generations
    PROVE  StepOK(r)
BY DEF Prepared, Goto, StepOK, Inv, ProcessesOK, StatesSafe, RuntimePc, LockedPc,
       GenerationPc, FinalPc

\* The results an unchanged Campaign justified stay justified.
LEMMA AggregationKept ==
    ASSUME Inv, CampaignKept, UNCHANGED phase8Runs
    PROVE  phase8Runs' \in Nat /\ (phase8Runs' > 0 => results' = Generations)
BY DEF Inv, ProcessesOK, AggregationJustified, CampaignKept, CampaignInv, CampaignTypeOK

\* A failed call keeps the state it was made in and waits for the decision.
LEMMA RaiseOK ==
    ASSUME Inv, NEW r \in Processes, Raise(r),
           UNCHANGED <<st, lock, pid, found, ctl, draft, phase8Runs>>,
           spent' \in [faults: Nat, crashes: Nat, commands: Nat],
           phase8Runs' > 0 => results' = Generations
    PROVE  StepOK(r)
BY DEF Raise, Goto, StepOK, Inv, ProcessesOK, StatesSafe, RuntimePc, LockedPc,
       GenerationPc, FinalPc

LEMMA FaultCounted ==
    ASSUME ProcessesOK, spent' = [spent EXCEPT !.faults = @ + 1]
    PROVE  spent' \in [faults: Nat, crashes: Nat, commands: Nat]
BY DEF ProcessesOK

\* Death of a Runtime, in whatever way: its memory goes, no file changes.
LEMMA ExitKept ==
    ASSUME Inv, NEW r \in Processes, Exit(r), UNCHANGED <<st, lock, pid, ctl, phase8Runs>>,
           spent' \in [faults: Nat, crashes: Nat, commands: Nat]
    PROVE  Inv'
<1>1. CampaignKept
  BY KillThreadsKept DEF Exit, Inv
<1>2. NothingFound \in Finding
  BY GenerationsAreNumbers DEF NothingFound, Finding, Generations
<1>3. StepOK(r)
  BY InitialStateSafe, AggregationKept, <1>1, <1>2
     DEF Exit, Goto, StepOK, Inv, ProcessesOK, StatesSafe, RuntimePc, GenerationPc, FinalPc
<1>4. QED
  BY <1>1, <1>3, StepKept

\* Steps of a Runtime outside the driver calls: locks, rounds, writes.
LEMMA SchedulingKept ==
    ASSUME Inv, NEW r \in Processes,
           \/ Acquire(r) \/ Release(r) \/ Wake(r) \/ BeginRound(r) \/ Write(r)
           \/ Settle(r) \/ WriteSettled(r) \/ WriteFailure(r) \/ KeepWaiting(r)
           \/ StopAfterFailure(r) \/ RetryAfterFailure(r)
    PROVE  Inv'
<1> USE DEF Goto
<1>1. CampaignKept
  BY CampaignStutter
     DEF Inv, Acquire, Release, Wake, BeginRound, Write, Settle, WriteSettled,
         WriteFailure, KeepWaiting, StopAfterFailure, RetryAfterFailure
<1>2. /\ st \in SafeStates /\ snap[r] \in SafeStates /\ draft[r] \in SafeStates
      /\ results \subseteq Generations
  BY DEF Inv, StatesSafe, CampaignInv, CampaignTypeOK
<1>3. results' = results /\ (phase8Runs > 0 => results = Generations)
  BY DEF Inv, AggregationJustified, campaignVars, Acquire, Release, Wake, BeginRound,
         Write, Settle, WriteSettled, WriteFailure, KeepWaiting, StopAfterFailure,
         RetryAfterFailure
<1>4. CASE Acquire(r) \/ Release(r) \/ Wake(r)
  <2>1. StepOK(r)
    BY <1>2, <1>3, <1>4, InitialStateSafe
       DEF Acquire, Release, Wake, StepOK, Inv, ProcessesOK, StatesSafe, RuntimePc,
           LockedPc, GenerationPc, FinalPc
  <2>2. QED
    BY <1>1, <2>1, StepKept
<1>5. CASE BeginRound(r)
  <2>1. pc'[r] = IF CallFor(st) = "none" THEN AfterAction(st, FALSE) ELSE CallFor(st)
    BY <1>5 DEF BeginRound, Inv, ProcessesOK
  <2>2. /\ pc'[r] \in RuntimePc \ ReconcilePc
        /\ pc'[r] \in GenerationPc => st.gen \in Generations
        /\ pc'[r] \in FinalPc => results = Generations
    BY <2>1, <1>2, CallForJustified, AfterActionRange
       DEF RuntimePc, ReconcilePc, LockedPc, CallPc, GenerationPc, FinalPc
  <2>3. StepOK(r)
    BY <2>2, <1>2, <1>3, <1>5
       DEF BeginRound, StepOK, Inv, ProcessesOK, StatesSafe, ReconcilePc
  <2>4. QED
    BY <1>1, <2>3, StepKept
<1>6. CASE Write(r) \/ WriteSettled(r) \/ WriteFailure(r)
  <2>1. \E next \in {"settle", "release", "round"} : Goto(r, next)
    <3>1. AfterAction(draft[r], TRUE) \in {"settle", "release", "round"}
      BY AfterActionRange
    <3>2. QED
      BY <3>1, <1>6 DEF Write, WriteSettled, WriteFailure
  <2>2. /\ st' = draft[r]
        /\ snap' = [snap EXCEPT ![r] = draft[r]]
        /\ draft' = [draft EXCEPT ![r] = InitialState]
        /\ UNCHANGED <<lock, pid, found, ctl, phase8Runs, spent>>
    BY <1>6 DEF Write, WriteSettled, WriteFailure
  <2>3. StepOK(r)
    BY <2>1, <2>2, <1>2, <1>3, InitialStateSafe
       DEF StepOK, Inv, ProcessesOK, StatesSafe, RuntimePc, LockedPc, GenerationPc, FinalPc
  <2>4. QED
    BY <1>1, <2>3, StepKept
<1>7. CASE Settle(r) \/ StopAfterFailure(r) \/ RetryAfterFailure(r)
  <2>1. \E next \in SafeStates : draft' = [draft EXCEPT ![r] = next]
    BY <1>2, <1>7, DraftsSafe, FailuresSafe DEF Settle, StopAfterFailure, RetryAfterFailure
  <2>2. StepOK(r)
    BY <2>1, <1>3, <1>7
       DEF Settle, StopAfterFailure, RetryAfterFailure, StepOK, Inv, ProcessesOK,
           StatesSafe, RuntimePc, LockedPc, GenerationPc, FinalPc
  <2>3. QED
    BY <1>1, <2>2, StepKept
<1>8. CASE KeepWaiting(r)
  <2>1. pc'[r] \in {"settle", "release", "round"}
    BY <1>8, AfterActionRange DEF KeepWaiting, Inv, ProcessesOK
  <2>2. StepOK(r)
    BY <2>1, <1>3, <1>8
       DEF KeepWaiting, StepOK, Inv, ProcessesOK, StatesSafe, RuntimePc, LockedPc,
           GenerationPc, FinalPc
  <2>3. QED
    BY <1>1, <2>2, StepKept
<1>9. QED
  BY <1>4, <1>5, <1>6, <1>7, <1>8

\* The driver calls that change the Campaign.
LEMMA CampaignCallsKept ==
    ASSUME Inv, NEW r \in Processes,
           \/ PrepareCall(r) \/ PreviewOpened(r) \/ PreviewBuilding(r)
           \/ PreviewSaved(r) \/ ExecuteStarted(r) \/ ExecuteLaunched(r)
    PROVE  Inv'
<1>1. st \in SafeStates /\ snap[r] \in SafeStates
  BY DEF Inv, StatesSafe
<1>2. pc[r] \in GenerationPc => snap[r].gen \in Generations /\ Reached(snap[r].gen)
  BY <1>1, SafeStateFacts DEF Inv, CallsJustified
<1>3. CASE PrepareCall(r) \/ PreviewSaved(r) \/ ExecuteLaunched(r)
  <2>1. CampaignKept
    BY <1>2, <1>3, PrepareKept, PreviewKept, LaunchWorkerKept
       DEF PrepareCall, PreviewSaved, ExecuteLaunched, Inv, GenerationPc
  <2>2. UNCHANGED phase8Runs
    BY <1>3 DEF PrepareCall, PreviewSaved, ExecuteLaunched
  <2>3. \E next \in SafeStates : Prepared(r, next)
    BY <1>1, <1>3, DraftsSafe DEF PrepareCall, PreviewSaved, ExecuteLaunched
  <2>4. QED
    BY <2>1, <2>2, <2>3, AggregationKept, PreparedOK, StepKept
<1>4. CASE PreviewOpened(r) \/ PreviewBuilding(r) \/ ExecuteStarted(r)
  <2>1. CampaignKept
    BY <1>2, <1>4, PreviewKept, StartOperationKept
       DEF PreviewOpened, PreviewBuilding, ExecuteStarted, Inv, GenerationPc
  <2>2. UNCHANGED <<st, lock, pid, snap, found, ctl, draft, phase8Runs, spent>>
    BY <1>4 DEF PreviewOpened, PreviewBuilding, ExecuteStarted, trainingVars
  <2>3. /\ pc' \in [Processes -> RuntimePc]
        /\ \A q \in Processes \ {r} : pc'[q] = pc[q]
        /\ pc'[r] \in {"build", "launch"}
        /\ snap[r].gen \in Generations
    BY <1>2, <1>4
       DEF PreviewOpened, PreviewBuilding, ExecuteStarted, Goto, trainingVars, Inv,
           ProcessesOK, RuntimePc, LockedPc, CallPc, GenerationPc
  <2>4. StepOK(r)
    BY <2>1, <2>2, <2>3, AggregationKept
       DEF StepOK, Inv, ProcessesOK, StatesSafe, FinalPc
  <2>5. QED
    BY <2>1, <2>4, StepKept
<1>5. QED
  BY <1>3, <1>4

\* The driver calls that only read the Campaign, and Phase 8.
LEMMA ReadingCallsKept ==
    ASSUME Inv, NEW r \in Processes,
           \/ PreviewReused(r) \/ ExecuteReused(r) \/ WorkerFailed(r)
           \/ GenerationCompleted(r) \/ StartWaiting(r) \/ StopWaiting(r)
           \/ Phase8Call(r) \/ Phase8Unfinished(r) \/ Finish(r)
    PROVE  Inv'
<1>1. /\ st \in SafeStates /\ snap[r] \in SafeStates
      /\ results \subseteq Generations /\ phase8Runs \in Nat
      /\ phase8Runs > 0 => results = Generations
  BY DEF Inv, StatesSafe, CampaignInv, CampaignTypeOK, ProcessesOK, AggregationJustified
<1>2. CampaignKept /\ results' = results
  BY CampaignStutter
     DEF Inv, campaignVars, PreviewReused, ExecuteReused, WorkerFailed,
         GenerationCompleted, StartWaiting, StopWaiting, Phase8Call, Phase8Unfinished, Finish
<1>3. pc[r] \in FinalPc => results = Generations
  BY DEF Inv, CallsJustified
<1>4. CASE PreviewReused(r) \/ ExecuteReused(r) \/ WorkerFailed(r) \/ StartWaiting(r)
              \/ StopWaiting(r)
  <2>1. UNCHANGED phase8Runs /\ \E next \in SafeStates : Prepared(r, next)
    BY <1>1, <1>4, DraftsSafe
       DEF PreviewReused, ExecuteReused, WorkerFailed, StartWaiting, StopWaiting
  <2>2. QED
    BY <2>1, <1>2, AggregationKept, PreparedOK, StepKept
<1>5. CASE GenerationCompleted(r)
  <2>1. snap[r].gen \in Generations
    BY <1>5 DEF GenerationCompleted, Inv, CallsJustified, GenerationPc
  <2>2. snap[r].gen \in results
    <3> DEFINE g == snap[r].gen
    <3>1. workers[g] \in Seq(WorkerStatus) /\ workers[g] # <<>>
          /\ Head(workers[g]) = "completed"
      BY <1>5, <2>1 DEF GenerationCompleted, InspectStatus, Inv, CampaignInv, CampaignTypeOK
    <3>2. 1 \in 1 .. Len(workers[g]) /\ workers[g][1] = "completed"
      BY <3>1, EmptySeq, LenProperties
    <3>3. QED
      BY <2>1, <3>2 DEF Inv, CampaignInv, CompletedWorkersBacked
  <2>3. UNCHANGED phase8Runs /\ \E next \in SafeStates : Prepared(r, next)
    BY <1>1, <1>5, <2>1, <2>2, CompletionSafe DEF GenerationCompleted
  <2>4. QED
    BY <2>3, <1>2, AggregationKept, PreparedOK, StepKept
<1>6. CASE Phase8Call(r) \/ Finish(r)
  <2>1. results = Generations /\ phase8Runs' \in Nat
    BY <1>1, <1>3, <1>6 DEF Phase8Call, Finish, FinalPc
  <2>2. \E next \in SafeStates : Prepared(r, next)
    BY <1>1, <2>1, <1>6, FinalDraftsSafe DEF Phase8Call, Finish
  <2>3. QED
    BY <2>1, <2>2, <1>2, PreparedOK, StepKept
<1>7. CASE Phase8Unfinished(r)
  <2>1. results = Generations
    BY <1>3, <1>7 DEF Phase8Unfinished, FinalPc
  <2>2. \E next \in SafeStates : draft' = [draft EXCEPT ![r] = next]
    BY <1>1, <2>1, <1>7, FinalDraftsSafe DEF Phase8Unfinished
  <2>3. StepOK(r)
    BY <1>1, <1>2, <1>7, <2>1, <2>2, FaultCounted
       DEF Phase8Unfinished, Goto, StepOK, Inv, ProcessesOK, StatesSafe, RuntimePc,
           LockedPc, GenerationPc, FinalPc
  <2>4. QED
    BY <1>2, <2>3, StepKept
<1>8. QED
  BY <1>4, <1>5, <1>6, <1>7

\* A driver call that raises.
LEMMA FailingCallsKept ==
    ASSUME Inv, NEW r \in Processes, CallRejected(r) \/ CallRaises(r) \/ ProposalRaises(r)
    PROVE  Inv'
<1>1. spent' \in [faults: Nat, crashes: Nat, commands: Nat]
  BY FaultCounted DEF CallRejected, CallRaises, ProposalRaises, Inv, ProcessesOK
<1>2. CASE CallRejected(r) \/ CallRaises(r)
  <2>1. CampaignKept /\ UNCHANGED phase8Runs
    BY <1>2, CampaignStutter DEF CallRejected, CallRaises, Inv
  <2>2. StepOK(r)
    BY <1>1, <1>2, <2>1, AggregationKept, RaiseOK DEF CallRejected, CallRaises
  <2>3. QED
    BY <2>1, <2>2, StepKept
<1>3. CASE ProposalRaises(r)
  <2>1. snap[r].gen \in Generations /\ Reached(snap[r].gen)
    BY <1>3, SafeStateFacts
       DEF ProposalRaises, Inv, CallsJustified, StatesSafe, GenerationPc
  <2>2. CampaignKept /\ UNCHANGED phase8Runs
    BY <1>3, <2>1, PreviewKept DEF ProposalRaises, Inv
  <2>3. StepOK(r)
    BY <1>1, <1>3, <2>2, AggregationKept, RaiseOK DEF ProposalRaises
  <2>4. QED
    BY <2>2, <2>3, StepKept
<1>4. QED
  BY <1>2, <1>3

\* The three steps of a reconciliation: it reads, saves the Worker, saves the Campaign.
LEMMA ReconcilingKept ==
    ASSUME Inv, NEW r \in Processes,
           Reconcile(r) \/ WorkerReconciled(r) \/ StateReconciled(r)
    PROVE  Inv'
<1>1. /\ found[r] \in Finding
      /\ {"acquire", "reconcileWorker", "reconcileState"} \subseteq
            RuntimePc \ (GenerationPc \cup FinalPc)
  BY DEF Inv, ProcessesOK, RuntimePc, ReconcilePc, GenerationPc, FinalPc
<1>2. CASE Reconcile(r)
  <2>1. CampaignKept /\ UNCHANGED <<phase8Runs, workers, results>>
    BY <1>2, CampaignStutter DEF Reconcile, Inv, campaignVars
  <2>2. ASSUME Reconcilable
        PROVE  /\ CurrentFinding \in Finding
               /\ CurrentFinding.epoch \in DOMAIN workers[CurrentFinding.gen]
               /\ CurrentFinding.done => CurrentFinding.gen \in results
    <3>1. current \in Generations /\ workers[current] # <<>>
      BY <2>2 DEF Reconcilable
    <3>2. workers[current] \in Seq(WorkerStatus)
      BY <3>1 DEF Inv, CampaignInv, CampaignTypeOK
    <3>3. Newest(current) \in Nat \ {0} /\ Newest(current) \in DOMAIN workers[current]
      BY <3>1, <3>2, EmptySeq, LenProperties DEF Newest
    <3>4. /\ CurrentFinding.gen = current /\ CurrentFinding.epoch = Newest(current)
          /\ CurrentFinding.done = (current \in results)
      BY DEF CurrentFinding
    <3>5. CurrentFinding \in Finding
      BY <3>1, <3>3 DEF CurrentFinding, Finding
    <3>6. QED
      BY <3>3, <3>4, <3>5
  <2>3. StepOK(r)
    BY <1>1, <1>2, <2>1, <2>2, AggregationKept
       DEF Reconcile, Goto, StepOK, Inv, ProcessesOK, StatesSafe
  <2>4. QED
    BY <2>1, <2>3, StepKept
<1>3. CASE WorkerReconciled(r)
  <2>1. CampaignKept /\ UNCHANGED phase8Runs
    BY <1>1, <1>3, ReconcileWorkerKept DEF WorkerReconciled, Inv, FindingsJustified
  <2>2. StepOK(r)
    BY <1>1, <1>3, <2>1, AggregationKept
       DEF WorkerReconciled, Goto, StepOK, Inv, ProcessesOK, StatesSafe
  <2>3. QED
    BY <2>1, <2>2, StepKept
<1>4. CASE StateReconciled(r)
  <2>1. CampaignKept /\ UNCHANGED phase8Runs
    BY <1>1, <1>4, ReconcileStateKept DEF StateReconciled, Inv
  <2>2. NothingFound \in Finding
    BY GenerationsAreNumbers DEF NothingFound, Finding, Generations
  <2>3. StepOK(r)
    BY <1>1, <1>4, <2>1, <2>2, AggregationKept
       DEF StateReconciled, Goto, StepOK, Inv, ProcessesOK, StatesSafe
  <2>4. QED
    BY <2>1, <2>3, StepKept
<1>5. QED
  BY <1>2, <1>3, <1>4

LEMMA RuntimeKept ==
    ASSUME Inv, NEW r \in Processes, Runtime(r)
    PROVE  Inv'
<1>1. CASE Reconcile(r) \/ WorkerReconciled(r) \/ StateReconciled(r)
  BY <1>1, ReconcilingKept
<1>2. CASE AcquireRejected(r) \/ ProcessEnds(r)
  <2>1. spent' \in [faults: Nat, crashes: Nat, commands: Nat]
    BY <1>2 DEF AcquireRejected, ProcessEnds, Inv, ProcessesOK
  <2>2. QED
    BY <1>2, <2>1, ExitKept DEF AcquireRejected, ProcessEnds
<1>3. QED
  BY <1>1, <1>2, SchedulingKept, CampaignCallsKept, ReadingCallsKept, FailingCallsKept
     DEF Runtime, Proceed

\* TrainingService: no Runtime moves, except the one that is started.
LEMMA ClientKept ==
    ASSUME Inv, NEW c \in Clients, Client(c)
    PROVE  Inv'
<1> USE DEF ClientGoto
<1>1. st \in SafeStates /\ draft[c] \in SafeStates
  BY DEF Inv, StatesSafe
<1>2. CampaignKept /\ UNCHANGED phase8Runs
  BY CampaignStutter
     DEF Inv, Client, ClientContinues, Pause, Stop, Resume, ResumeLoad, ControlLoad,
         ControlWrite, CheckProcess, Inspect, StartProcess
<1>3. /\ results \subseteq results' /\ results' \subseteq Generations
      /\ phase8Runs' \in Nat /\ (phase8Runs' > 0 => results' = Generations)
  BY <1>2, AggregationKept DEF CampaignKept, CampaignInv, CampaignTypeOK
<1>4. ASSUME UNCHANGED <<lock, pid, pc, snap, found>>, st' \in SafeStates,
             draft' \in [Processes \cup Clients -> SafeStates],
             ctl' \in [Clients -> ClientPc],
             spent' \in [faults: Nat, crashes: Nat, commands: Nat]
      PROVE  Inv'
  <2>1. StatesSafe'
    BY <1>3, <1>4, SafeStatesGrow DEF Inv, StatesSafe
  <2>2. CallsJustified'
    BY <1>3, <1>4 DEF Inv, CallsJustified
  <2>3. FindingsJustified'
    BY <1>2, <1>4, FindingsKept DEF FindingsJustified, Fresh
  <2>4. QED
    BY <1>2, <1>3, <1>4, <2>1, <2>2, <2>3
       DEF Inv, ProcessesOK, CampaignKept, AggregationJustified
<1>5. CASE Pause(c) \/ Stop(c) \/ ResumeLoad(c)
  <2>1. \E next \in SafeStates : draft' = [draft EXCEPT ![c] = next]
    BY <1>1, <1>5, DraftsSafe
       DEF Pause, Stop, ResumeLoad, ControlLoad, Status, TrainingAction
  <2>2. spent' \in [faults: Nat, crashes: Nat, commands: Nat]
    BY <1>5 DEF Pause, Stop, ResumeLoad, CountCommand, Inv, ProcessesOK
  <2>3. QED
    BY <1>1, <1>4, <1>5, <2>1, <2>2
       DEF Pause, Stop, ResumeLoad, ControlLoad, ClientPc, Inv, ProcessesOK, StatesSafe
<1>6. CASE Resume(c) \/ Inspect(c) \/ CheckProcess(c)
  <2>1. spent' \in [faults: Nat, crashes: Nat, commands: Nat]
    BY <1>6 DEF Resume, Inspect, CheckProcess, CountCommand, Inv, ProcessesOK
  <2>2. QED
    BY <1>1, <1>4, <1>6, <2>1
       DEF Resume, Inspect, CheckProcess, ClientPc, Inv, ProcessesOK, StatesSafe
<1>7. CASE ControlWrite(c)
  BY <1>1, <1>4, <1>7, InitialStateSafe
     DEF ControlWrite, ClientPc, Inv, ProcessesOK, StatesSafe
<1>8. ASSUME NEW r \in Processes, StartProcess(c, r)
      PROVE  Inv'
  <2>1. StepOK(r)
    BY <1>3, <1>8
       DEF StartProcess, Goto, StepOK, Inv, ProcessesOK, StatesSafe, RuntimePc, ClientPc,
           GenerationPc, FinalPc
  <2>2. QED
    BY <1>2, <2>1, StepKept
<1>9. QED
  BY <1>5, <1>6, <1>7, <1>8 DEF Client, ClientContinues

\* Steps in which neither a Runtime nor a client moves.
LEMMA SurroundingsKept ==
    ASSUME Inv, CampaignKept,
           UNCHANGED <<st, pid, pc, snap, found, ctl, draft, phase8Runs>>,
           lock' \in Processes \cup {Free},
           spent' \in [faults: Nat, crashes: Nat, commands: Nat]
    PROVE  Inv'
<1>1. /\ results \subseteq results' /\ results' \subseteq Generations
      /\ phase8Runs' \in Nat /\ (phase8Runs' > 0 => results' = Generations)
  BY AggregationKept DEF CampaignKept, CampaignInv, CampaignTypeOK
<1>2. StatesSafe'
  BY <1>1, SafeStatesGrow DEF Inv, StatesSafe
<1>3. CallsJustified'
  BY <1>1 DEF Inv, CallsJustified
<1>4. FindingsJustified'
  BY FindingsKept DEF FindingsJustified, Fresh
<1>5. QED
  BY <1>1, <1>2, <1>3, <1>4 DEF Inv, ProcessesOK, CampaignKept, AggregationJustified

LEMMA RemoveStaleLocksKept == Inv /\ RemoveStaleLocks => Inv'
<1> SUFFICES ASSUME Inv, RemoveStaleLocks PROVE Inv'
  OBVIOUS
<1>1. CampaignKept
  BY DEF RemoveStaleLocks, Inv, CampaignInv, CampaignKept, WorkersListed, CampaignTypeOK,
         ThreadsBacked, CompletedWorkersBacked, GenerationsInOrder
<1>2. QED
  BY <1>1, SurroundingsKept DEF RemoveStaleLocks, Inv, ProcessesOK

LEMMA WorkersKept == Inv /\ (WorkerThread \/ WorkerUnfinished) => Inv'
<1>1. ASSUME Inv, NEW t \in threads, UNCHANGED trainingVars,
             WriteResult(t) \/ SaveCompleted(t) \/ AdvanceCampaign(t) \/ ReleaseCmoLock(t)
      PROVE  Inv'
  <2>1. CampaignKept
    BY <1>1, WriteResultKept, SaveCompletedKept, AdvanceCampaignKept, ReleaseCmoLockKept
       DEF Inv
  <2>2. QED
    BY <1>1, <2>1, SurroundingsKept DEF trainingVars, Inv, ProcessesOK
<1>2. ASSUME Inv, WorkerUnfinished
      PROVE  Inv'
  <2>1. PICK t \in threads :
          FailWorker(t) \/ \E outcome \in UnfinishedOutcomes \ {"failed"} :
                               SaveUnfinished(t, outcome)
    BY <1>2 DEF WorkerUnfinished
  <2>2. CampaignKept
    BY <1>2, <2>1, FailWorkerKept, SaveUnfinishedKept, TrainingAssumption DEF Inv
  <2>3. spent' \in [faults: Nat, crashes: Nat, commands: Nat]
    BY <1>2, FaultCounted DEF WorkerUnfinished, Inv
  <2>4. QED
    BY <1>2, <2>2, <2>3, SurroundingsKept DEF WorkerUnfinished, Inv, ProcessesOK
<1>3. QED
  BY <1>1, <1>2 DEF WorkerThread

LEMMA InitInv == Init => Inv
<1> SUFFICES ASSUME Init PROVE Inv
  OBVIOUS
<1>1. CampaignInv
  BY CampaignInitInv DEF Init
<1>2. StatesSafe
  BY InitialStateSafe DEF Init, StatesSafe
<1>3. ctl \in [Clients -> ClientPc]
  BY DEF Init, ClientPc
<1>4. ProcessesOK
  BY <1>3, GenerationsAreNumbers
     DEF Init, ProcessesOK, RuntimePc, NothingFound, Finding, Generations
<1>5. CallsJustified /\ AggregationJustified /\ FindingsJustified
  BY DEF Init, CallsJustified, AggregationJustified, FindingsJustified, GenerationPc, FinalPc
<1>6. QED
  BY <1>1, <1>2, <1>4, <1>5 DEF Inv

LEMMA NextInv == Inv /\ [Next]_vars => Inv'
<1> SUFFICES ASSUME Inv, [Next]_vars PROVE Inv'
  OBVIOUS
<1>1. ASSUME NEW r \in Processes, Crash(r)
      PROVE  Inv'
  <2>1. spent' \in [faults: Nat, crashes: Nat, commands: Nat]
    BY <1>1 DEF Crash, Inv, ProcessesOK
  <2>2. QED
    BY <1>1, <2>1, ExitKept DEF Crash
<1>2. CASE UNCHANGED vars
  <2>1. CampaignKept
    BY <1>2, CampaignStutter DEF vars, Inv
  <2>2. QED
    BY <1>2, <2>1, SurroundingsKept DEF vars, trainingVars, Inv, ProcessesOK
<1>3. QED
  BY <1>1, <1>2, RuntimeKept, ClientKept, WorkersKept, RemoveStaleLocksKept DEF Next

THEOREM Invariance == Spec => []Inv
BY InitInv, NextInv, PTL DEF Spec

-----------------------------------------------------------------------------
(* What follows from the invariant *)

\* Every variable keeps its type, however many crashes, faults and commands.
THEOREM TypeCorrect == Spec => []TypeOK
<1>1. Inv => TypeOK
  <2> SUFFICES ASSUME Inv PROVE TypeOK
    OBVIOUS
  <2>1. SafeStates \subseteq TrainingState
    BY DEF SafeStates
  <2>2. /\ st \in TrainingState
        /\ snap \in [Processes -> TrainingState]
        /\ draft \in [Processes \cup Clients -> TrainingState]
    BY <2>1 DEF Inv, StatesSafe
  <2>3. QED
    BY <2>2 DEF Inv, ProcessesOK, CampaignInv, TypeOK, TrainingTypeOK
<1>2. QED
  BY <1>1, Invariance, PTL

\* The listed generations are a prefix and each has its result on disk,
\* whatever transitions were lost, crashed or repeated.
THEOREM CompletedBacked == Spec => []CompletedGenerationsBacked
<1>1. Inv => CompletedGenerationsBacked
  BY DEF Inv, StatesSafe, SafeStates, CompletedGenerationsBacked
<1>2. QED
  BY <1>1, Invariance, PTL

\* Nothing is previewed or executed for a generation before the results of all
\* generations it builds on exist.
THEOREM InOrder == Spec => []GenerationsInOrder
<1>1. Inv => GenerationsInOrder
  BY DEF Inv, CampaignInv
<1>2. QED
  BY <1>1, Invariance, PTL

\* Phase 8 never runs, and no Workflow completes, before all results exist.
THEOREM AggregationLast == Spec => []AggregationAfterAllGenerations
<1>1. Inv => AggregationAfterAllGenerations
  BY DEF Inv, StatesSafe, SafeStates, Aggregated, AggregationJustified,
         AggregationAfterAllGenerations
<1>2. QED
  BY <1>1, Invariance, PTL

-----------------------------------------------------------------------------
(* The two lock files do what they are for: runner.lock admits one scheduler   *)
(* and .cmo-instance.lock one Worker, over all processes, crashes included.    *)
(* The files say nothing of it by themselves; the invariant ties each to the   *)
(* control points and threads of the process it names.                         *)

RunnerLockNames == \A r \in Processes : pc[r] \in LockedPc => lock = r

\* Between the lock and its thread a process is at "launch".
CmoLockNames ==
    /\ \A t \in threads : cmoLock = t.proc /\ pc[t.proc] # "off"
    /\ \A r \in Processes : pc[r] = "launch" => cmoLock = r /\ threads = {}

LockInv == RunnerLockNames /\ CmoLockNames /\ CmoExclusive

Types ==
    /\ pc \in [Processes -> RuntimePc]
    /\ threads \subseteq Thread
    /\ Free \notin Processes

LEMMA InvTypes == Inv => Types
BY CampaignAssumption DEF Inv, ProcessesOK, CampaignInv, CampaignTypeOK, Types

-----------------------------------------------------------------------------

\* A step of the Runtime that holds the lock and keeps it.
LEMMA LockedStepKept ==
    ASSUME Types, LockInv, NEW r \in Processes, pc[r] \in LockedPc,
           NEW label \in LockedPc \ {"launch"}, Goto(r, label),
           UNCHANGED <<lock, cmoLock, threads>>
    PROVE  LockInv'
<1>1. label # "off"
  BY DEF LockedPc, CallPc
<1>2. \A q \in Processes : pc'[q] = IF q = r THEN label ELSE pc[q]
  BY DEF Goto, Types
<1>3. RunnerLockNames'
  BY <1>2 DEF LockInv, RunnerLockNames
<1>4. CmoLockNames' /\ CmoExclusive'
  BY <1>1, <1>2 DEF LockInv, CmoLockNames, CmoExclusive, Types, Thread
<1>5. QED
  BY <1>3, <1>4 DEF LockInv

\* A Runtime that is not between acquire and release, and stays outside.
LEMMA UnlockedStepKept ==
    ASSUME Types, LockInv, NEW r \in Processes,
           NEW label \in RuntimePc \ LockedPc, label # "off", Goto(r, label),
           \/ lock' = lock
           \/ lock' = Free /\ pc[r] \in LockedPc
           \/ lock' = r /\ lock = Free,
           UNCHANGED <<cmoLock, threads>>
    PROVE  LockInv'
<1>1. \A q \in Processes : pc'[q] = IF q = r THEN label ELSE pc[q]
  BY DEF Goto, Types
<1>2. RunnerLockNames'
  BY <1>1 DEF LockInv, RunnerLockNames, Types
<1>3. CmoLockNames' /\ CmoExclusive'
  BY <1>1 DEF LockInv, CmoLockNames, CmoExclusive, Types, Thread, LockedPc, CallPc
<1>4. QED
  BY <1>2, <1>3 DEF LockInv

LEMMA ExitKeepsLocks ==
    ASSUME Types, LockInv, NEW r \in Processes, Exit(r), UNCHANGED lock
    PROVE  LockInv'
<1>1. \A q \in Processes : pc'[q] = IF q = r THEN "off" ELSE pc[q]
  BY DEF Exit, Goto, Types
<1>2. /\ threads' = {t \in threads : t.proc # r}
      /\ cmoLock' = cmoLock
  BY DEF Exit, KillThreads
<1>3. RunnerLockNames'
  BY <1>1 DEF LockInv, RunnerLockNames, LockedPc, CallPc
<1>4. CmoLockNames' /\ CmoExclusive'
  BY <1>1, <1>2 DEF LockInv, CmoLockNames, CmoExclusive, Types, Thread
<1>5. QED
  BY <1>3, <1>4 DEF LockInv

\* Steps inside the lock that touch no lock file and start no Worker.
LEMMA SchedulingKeepsLocks ==
    ASSUME Types, LockInv, NEW r \in Processes,
           \/ BeginRound(r) \/ Write(r) \/ Settle(r) \/ WriteSettled(r)
           \/ WriteFailure(r) \/ KeepWaiting(r) \/ StopAfterFailure(r)
           \/ RetryAfterFailure(r) \/ CallRejected(r) \/ CallRaises(r) \/ ProposalRaises(r)
    PROVE  LockInv'
<1> DEFINE Inside == LockedPc \ {"launch"}
<1>1. pc[r] \in LockedPc
  BY DEF BeginRound, Write, Settle, WriteSettled, WriteFailure, KeepWaiting,
         StopAfterFailure, RetryAfterFailure, CallRejected, CallRaises, ProposalRaises,
         LockedPc, CallPc
<1>2. UNCHANGED <<lock, cmoLock, threads>>
  BY DEF BeginRound, Write, Settle, WriteSettled, WriteFailure, KeepWaiting,
         StopAfterFailure, RetryAfterFailure, CallRejected, CallRaises, ProposalRaises,
         FailPreview, campaignVars
<1>3. \A s, moved : AfterAction(s, moved) \in Inside
  BY AfterActionRange DEF LockedPc
<1>4. CallFor(st) # "none" => CallFor(st) \in Inside
  BY DEF CallFor, LockedPc, CallPc
<1>5. \E label \in Inside : Goto(r, label)
  <2>1. CASE BeginRound(r)
    BY <2>1, <1>3, <1>4 DEF BeginRound
  <2>2. CASE Write(r) \/ KeepWaiting(r)
    <3>1. AfterAction(draft[r], TRUE) \in Inside /\ AfterAction(snap[r], FALSE) \in Inside
      BY <1>3
    <3>2. QED
      BY <2>2, <3>1 DEF Write, KeepWaiting
  <2>3. CASE ~(BeginRound(r) \/ Write(r) \/ KeepWaiting(r))
    BY <2>3 DEF Settle, WriteSettled, WriteFailure, StopAfterFailure, RetryAfterFailure,
                CallRejected, CallRaises, ProposalRaises, Raise, LockedPc
  <2>4. QED
    BY <2>1, <2>2, <2>3
<1>6. QED
  BY <1>1, <1>2, <1>5, LockedStepKept

\* The driver calls, the start of a Worker apart.
LEMMA CallsKeepLocks ==
    ASSUME Types, LockInv, NEW r \in Processes,
           \/ PrepareCall(r) \/ PreviewReused(r) \/ PreviewOpened(r) \/ PreviewBuilding(r)
           \/ PreviewSaved(r) \/ ExecuteReused(r) \/ WorkerFailed(r)
           \/ GenerationCompleted(r) \/ StartWaiting(r) \/ StopWaiting(r)
           \/ Phase8Call(r) \/ Phase8Unfinished(r) \/ Finish(r)
    PROVE  LockInv'
<1> USE DEF PrepareCall, PreviewReused, PreviewOpened, PreviewBuilding, PreviewSaved,
            ExecuteReused, WorkerFailed, GenerationCompleted, StartWaiting, StopWaiting,
            Phase8Call, Phase8Unfinished, Finish
<1>1. pc[r] \in LockedPc
  BY DEF LockedPc, CallPc
<1>2. UNCHANGED <<lock, cmoLock, threads>>
  BY DEF Prepared, PrepareCampaign, OpenPreview, BuildPreview, SavePreview, campaignVars,
         trainingVars
<1>3. CASE PreviewBuilding(r)
  <2>1. pc' = pc
    BY <1>3 DEF trainingVars
  <2>2. QED
    BY <1>2, <2>1
       DEF LockInv, RunnerLockNames, CmoLockNames, CmoExclusive
<1>4. CASE ~PreviewBuilding(r)
  <2>1. Goto(r, "write") \/ Goto(r, "build")
    BY <1>4 DEF Prepared
  <2>2. {"write", "build"} \subseteq LockedPc \ {"launch"}
    BY DEF LockedPc, CallPc
  <2>3. QED
    BY <1>1, <1>2, <2>1, <2>2, LockedStepKept
<1>5. QED
  BY <1>3, <1>4

\* The lock is taken before the thread exists, and only while nobody holds it.
LEMMA StartingKeepsLocks ==
    ASSUME Types, LockInv, NEW r \in Processes, ExecuteStarted(r) \/ ExecuteLaunched(r)
    PROVE  LockInv'
<1>1. CASE ExecuteStarted(r)
  <2>1. /\ pc[r] = "execute" /\ lock' = lock /\ threads' = threads
        /\ cmoLock = Free /\ cmoLock' = r
    BY <1>1 DEF ExecuteStarted, StartOperation
  <2>2. \A q \in Processes : pc'[q] = IF q = r THEN "launch" ELSE pc[q]
    BY <1>1 DEF ExecuteStarted, Goto, Types
  <2>3. threads = {} /\ \A q \in Processes : pc[q] # "launch"
    BY <2>1 DEF LockInv, CmoLockNames, Types, Thread
  <2>4. RunnerLockNames'
    BY <2>1, <2>2 DEF LockInv, RunnerLockNames, LockedPc, CallPc
  <2>5. QED
    BY <2>1, <2>2, <2>3, <2>4 DEF LockInv, CmoLockNames, CmoExclusive
<1>2. CASE ExecuteLaunched(r)
  <2> DEFINE new == [proc |-> r, gen |-> snap[r].gen,
                     epoch |-> Len(workers[snap[r].gen]) + 1, phase |-> "running"]
  <2>1. /\ pc[r] = "launch" /\ lock' = lock /\ cmoLock' = cmoLock
        /\ threads' = threads \cup {new} /\ new.proc = r
    BY <1>2 DEF ExecuteLaunched, LaunchWorker, Prepared
  <2> HIDE DEF new
  <2>2. \A q \in Processes : pc'[q] = IF q = r THEN "write" ELSE pc[q]
    BY <1>2 DEF ExecuteLaunched, Prepared, Goto, Types
  <2>3. threads = {} /\ cmoLock = r
    BY <2>1 DEF LockInv, CmoLockNames
  <2>4. \A q \in Processes : pc'[q] # "launch"
    BY <2>1, <2>2, <2>3 DEF LockInv, CmoLockNames
  <2>5. RunnerLockNames'
    BY <2>1, <2>2 DEF LockInv, RunnerLockNames, LockedPc, CallPc
  <2>6. QED
    BY <2>1, <2>2, <2>3, <2>4, <2>5 DEF LockInv, CmoLockNames, CmoExclusive
<1>3. QED
  BY <1>1, <1>2

LEMMA RuntimeKeepsLocks ==
    ASSUME Types, LockInv, NEW r \in Processes, Runtime(r)
    PROVE  LockInv'
<1>1. CASE Acquire(r)
  <2>1. /\ lock = Free /\ lock' = r /\ UNCHANGED <<cmoLock, threads>>
        /\ pc[r] = "acquire"
    BY <1>1 DEF Acquire, campaignVars
  <2>2. \A q \in Processes : pc'[q] = IF q = r THEN "round" ELSE pc[q]
    BY <1>1 DEF Acquire, Goto, Types
  <2>3. RunnerLockNames'
    BY <2>1, <2>2 DEF LockInv, RunnerLockNames, Types
  <2>4. CmoLockNames' /\ CmoExclusive'
    BY <2>1, <2>2 DEF LockInv, CmoLockNames, CmoExclusive, Types, Thread
  <2>5. QED
    BY <2>3, <2>4 DEF LockInv
<1>2. CASE Release(r)
  <2>1. /\ lock' = Free /\ pc[r] \in LockedPc /\ UNCHANGED <<cmoLock, threads>>
        /\ Goto(r, "sleep") \/ Goto(r, "exiting")
    BY <1>2 DEF Release, campaignVars, LockedPc
  <2>2. {"sleep", "exiting"} \subseteq RuntimePc \ LockedPc
    BY DEF RuntimePc, LockedPc, CallPc
  <2>3. QED
    BY <2>1, <2>2, UnlockedStepKept
<1>3. CASE Wake(r) \/ Reconcile(r) \/ WorkerReconciled(r) \/ StateReconciled(r)
  <2>1. /\ UNCHANGED <<lock, cmoLock, threads>>
        /\ \E label \in {"acquire", "reconcileWorker", "reconcileState"} : Goto(r, label)
    BY <1>3 DEF Wake, Reconcile, WorkerReconciled, StateReconciled, ReconcileWorker,
                ReconcileState, campaignVars
  <2>2. {"acquire", "reconcileWorker", "reconcileState"} \subseteq
            (RuntimePc \ LockedPc) \ {"off"}
    BY DEF RuntimePc, ReconcilePc, LockedPc, CallPc
  <2>3. QED
    BY <2>1, <2>2, UnlockedStepKept
<1>4. CASE AcquireRejected(r) \/ ProcessEnds(r)
  BY <1>4, ExitKeepsLocks DEF AcquireRejected, ProcessEnds
<1>5. QED
  BY <1>1, <1>2, <1>3, <1>4, SchedulingKeepsLocks, CallsKeepLocks, StartingKeepsLocks
     DEF Runtime, Proceed

\* Clients only start processes, and a process starts outside the lock.
LEMMA ClientKeepsLocks ==
    ASSUME Types, LockInv, NEW c \in Clients, Client(c)
    PROVE  LockInv'
<1>1. ASSUME NEW r \in Processes, StartProcess(c, r)
      PROVE  LockInv'
  <2>1. UNCHANGED <<lock, cmoLock, threads>> /\ Goto(r, "reconcile")
    BY <1>1 DEF StartProcess, campaignVars
  <2>2. "reconcile" \in RuntimePc \ LockedPc
    BY DEF RuntimePc, LockedPc, CallPc
  <2>3. QED
    BY <2>1, <2>2, UnlockedStepKept
<1>2. CASE UNCHANGED <<pc, lock, cmoLock, threads>>
  BY <1>2 DEF LockInv, RunnerLockNames, CmoLockNames, CmoExclusive
<1>3. QED
  BY <1>1, <1>2
     DEF Client, ClientContinues, Pause, Stop, Resume, ResumeLoad, ControlLoad,
         ControlWrite, CheckProcess, Inspect, campaignVars

\* A Worker keeps its process and the lock until it has nothing left to do.
LEMMA WorkersKeepLocks ==
    ASSUME Types, LockInv, WorkerThread \/ WorkerUnfinished
    PROVE  LockInv'
<1>1. PICK t \in threads :
        \/ ReleaseCmoLock(t)
        \/ UNCHANGED cmoLock /\ \E phase : Advance(t, phase)
  BY DEF WorkerThread, WorkerUnfinished, WriteResult, SaveCompleted, AdvanceCampaign,
         SaveUnfinished, FailWorker
<1>2. UNCHANGED <<pc, lock>>
  BY DEF WorkerThread, WorkerUnfinished, trainingVars
<1>3. threads = {t} /\ cmoLock = t.proc /\ pc[t.proc] # "off"
  BY DEF LockInv, CmoExclusive, CmoLockNames
<1>4. \A r \in Processes : pc[r] # "launch"
  BY <1>3 DEF LockInv, CmoLockNames
<1>5. CASE ReleaseCmoLock(t)
  <2>1. threads' = {}
    BY <1>3, <1>5 DEF ReleaseCmoLock
  <2>2. QED
    BY <1>2, <1>4, <2>1 DEF LockInv, RunnerLockNames, CmoLockNames, CmoExclusive
<1>6. CASE UNCHANGED cmoLock /\ \E phase : Advance(t, phase)
  <2>1. PICK phase : Advance(t, phase)
    BY <1>6
  <2>2. threads' = {[t EXCEPT !.phase = phase]} /\ [t EXCEPT !.phase = phase].proc = t.proc
    BY <1>3, <2>1 DEF Advance, Types, Thread
  <2>3. QED
    BY <1>2, <1>3, <1>4, <1>6, <2>2
       DEF LockInv, RunnerLockNames, CmoLockNames, CmoExclusive
<1>7. QED
  BY <1>1, <1>5, <1>6

\* The operator deletes a lock file only when its process is dead.
LEMMA UnlockingKeepsLocks ==
    ASSUME Types, LockInv, RemoveStaleLocks
    PROVE  LockInv'
<1>1. lock # Free => pc[lock] = "off"
  BY DEF RemoveStaleLocks
<1>2. cmoLock # Free => pc[cmoLock] = "off"
  BY DEF RemoveStaleLocks
<1>3. \A r \in Processes : pc[r] \notin LockedPc
  BY <1>1 DEF LockInv, RunnerLockNames, Types, LockedPc, CallPc
<1>4. threads = {}
  BY <1>2 DEF LockInv, CmoLockNames, Types, Thread
<1>5. QED
  BY <1>3, <1>4
     DEF RemoveStaleLocks, LockInv, RunnerLockNames, CmoLockNames, CmoExclusive, LockedPc, CallPc

LEMMA LockInvInit == Init => LockInv
BY DEF Init, CampaignInit, LockInv, RunnerLockNames, CmoLockNames, CmoExclusive,
       LockedPc, CallPc

LEMMA LockInvNext == Inv /\ LockInv /\ [Next]_vars => LockInv'
<1> SUFFICES ASSUME Inv, LockInv, [Next]_vars PROVE LockInv'
  OBVIOUS
<1>1. Types
  BY InvTypes
<1>2. ASSUME NEW r \in Processes, Crash(r)
      PROVE  LockInv'
  BY <1>1, <1>2, ExitKeepsLocks DEF Crash
<1>3. CASE UNCHANGED vars
  BY <1>3 DEF vars, trainingVars, campaignVars, LockInv, RunnerLockNames, CmoLockNames,
              CmoExclusive
<1>4. QED
  BY <1>1, <1>2, <1>3, RuntimeKeepsLocks, ClientKeepsLocks, WorkersKeepLocks,
     UnlockingKeepsLocks DEF Next

THEOREM LockInvariance == Spec => []LockInv
<1>1. Inv /\ LockInv /\ [Next]_vars => LockInv'
  BY LockInvNext
<1>2. QED
  BY <1>1, LockInvInit, Invariance, PTL DEF Spec

\* Two Runtimes of one Workflow never schedule at the same time.
THEOREM OneScheduler == Spec => []SingleScheduler
<1>1. LockInv => SingleScheduler
  BY DEF LockInv, RunnerLockNames, SingleScheduler
<1>2. QED
  BY <1>1, LockInvariance, PTL

\* Two Workers never run CMO at the same time, whichever processes host them.
THEOREM OneCmoWorker == Spec => []CmoExclusive
<1>1. LockInv => CmoExclusive
  BY DEF LockInv
<1>2. QED
  BY <1>1, LockInvariance, PTL

=============================================================================
