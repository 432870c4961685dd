------------------------ MODULE CampaignLedgerProofs ------------------------
(* What a generation spends is accounted for, its approvals end, and a resume *)
(* without a living Worker reports what is open, for any number of slots,     *)
(* attempts, Workers, approvals, commands and deaths.                         *)
(*                                                                            *)
(* Two Campaigns hide in one module.  With attempt slots everything rests on  *)
(* campaign-control-state.json, which only a lock holder writes: LEMMA by     *)
(* LEMMA, SlotsAccounted is kept by each of its writers.  With single         *)
(* attempts there is only the ledger, whose rows a thread writes back from a  *)
(* copy: OneWriter says why no row of a launched attempt is in a copy that is *)
(* older than the file.  RunsRecorded follows the rows of the Workers         *)
(* themselves, all that production records of the CMO runs it starts unasked. *)
EXTENDS CampaignLedger, FiniteSetTheorems, TLAPS

CallerPc == {"idle", "granting", "starting", "saving", "reconciled", "revoking",
             "reconciling", "clearing", "listing", "resumed"}
WorkerPc == {"none", "run", "asked", "loaded", "found", "prepared", "authorized",
             "launching", "launched", "ending", "closing"}
WorkerStatus == Outcomes \cup {"running", "reconciliation_required"}

Rows == UNION {[operations -> OpStatus] : operations \in SUBSET Ops}
Job == [step : {"none", "read", "write", "count"}, update : Rows, rows : Rows,
        locked : BOOLEAN, counts : BOOLEAN]
Grant == [valid : BOOLEAN, authorized : 0..Cap]
Slot == [status : SlotStatus, approval : Nat]
Control == [open : BOOLEAN, started : Nat, grants : Seq(Grant),
            slots : [{} -> Slot] \cup [Slots -> Slot], ops : Rows]

Pc == [caller : CallerPc, worker : WorkerPc]
Hand == [op : Slots \cup Attempts \cup {"none"}, approval : Nat, outcome : Outcomes \cup {"none"}]
Report == [pending : SUBSET Slots, ops : SUBSET Ops, alone : BOOLEAN]

FilesTyped ==
    /\ ledger \in Rows /\ runs \in Nat
    /\ approvals \in Seq(BOOLEAN)
    /\ reserved \in UNION {[paid -> Nat] : paid \in SUBSET Attempts}
    /\ request \in BOOLEAN
    /\ workers \in Seq(WorkerStatus)
    /\ launches \in [Slots \cup Attempts -> Seq(Nat)]
    /\ revoked \in Nat

PointsTyped == at \in Pc /\ held \in Hand /\ reported \in Report

Types ==
    /\ api \in {"slots", "attempts"} /\ enforced \in BOOLEAN
    /\ control \in Control /\ job \in [Threads -> Job]
    /\ FilesTyped /\ PointsTyped

\* What the control state says by itself.
ControlOK ==
    /\ DOMAIN control.ops = DOMAIN control.slots
    /\ ~control.open => DOMAIN control.slots = {}
    /\ revoked <= Len(control.grants)
    /\ \A g \in 1..revoked : ~control.grants[g].valid
    /\ \A s \in DOMAIN control.slots : control.slots[s].approval <= Len(control.grants)

AsksFor == IF api = "slots" THEN Slots ELSE Attempts

\* Where the two threads can be together, and what they have in hand.
Positions ==
    /\ Len(workers) <= Len(Runs)
    /\ at["worker"] # "none" => workers # <<>>
    /\ at["caller"] = "reconciled" => workers # <<>>
    /\ at["caller"] \in {"starting", "saving"} => Len(workers) < Len(Runs)
    /\ at["caller"] \in {"starting", "saving", "reconciled"} => at["worker"] = "none"
    /\ reported.alone /\ at["caller"] \in {"reconciling", "clearing", "listing", "resumed"}
         => at["worker"] = "none"
    /\ at["worker"] \notin {"none", "run", "ending", "closing"} => held.op \in AsksFor
    /\ at["worker"] = "ending" => held.outcome \in Outcomes
    /\ at["caller"] \in {"granting", "revoking", "reconciling"} => control.open
    /\ api = "slots" => at["worker"] \notin {"found", "prepared"}
    /\ api = "attempts" =>
         /\ at["worker"] # "loaded"
         /\ at["caller"] \notin {"granting", "revoking", "reconciling"}
         /\ ~control.open

\* Whose writes are outstanding: nobody locks the other out twice, and only a
\* start of a slot owes the run count.
Writes ==
    /\ job["worker"].locked => ~job["caller"].locked
    /\ at["worker"] = "none" => job["worker"] = NoJob
    /\ ~job["caller"].counts
    /\ at["caller"] \in {"listing", "resumed"} => Ready("caller")
    /\ job["worker"].counts => at["worker"] = "launching"
    /\ \A t \in Threads : job[t].step = "count" => job[t].counts
    /\ \A t \in Threads : job[t].step = "none" => job[t] = NoJob

\* A start that is counted and not launched leaves room for its launch.
Counted ==
    Cardinality(Launched)
      + (IF at["worker"] = "launching" /\ ~job["worker"].counts THEN 1 ELSE 0) <= runs

Used == {"started", "completed", "failed", "unknown"}
UsedSlots == {s \in DOMAIN control.slots : control.slots[s].status \in Used}
PaidBy(g) == {s \in DOMAIN control.slots : /\ control.slots[s].status # "available"
                                           /\ control.slots[s].approval = g}

\* The slots and grants of the control state account for every launch.
SlotsAccounted ==
    /\ \A op \in Launched : /\ op \in UsedSlots
                            /\ launches[op] = <<control.slots[op].approval>>
    /\ \A s \in UsedSlots : control.ops[s] = control.slots[s].status
    /\ \A s \in DOMAIN control.slots :
         control.slots[s].status # "available" => control.slots[s].approval # 0
    /\ \A g \in 1..Len(control.grants) :
         Cardinality(PaidBy(g)) <= control.grants[g].authorized
    /\ Cardinality(UsedSlots) <= control.started
    /\ enforced => control.started <= MaxRuns

\* What the Worker read is still so when it acts, or its act is refused.
SlotInHand ==
    /\ at["worker"] \in {"loaded", "authorized", "launching", "launched"} =>
         /\ held.op \in DOMAIN control.slots
         /\ held.approval \in 1..Len(control.grants)
    /\ at["worker"] = "authorized" =>
         /\ enforced => control.started < MaxRuns
         /\ control.slots[held.op].status = "authorized" =>
              control.slots[held.op].approval = held.approval
    /\ at["worker"] \in {"launching", "launched"} =>
         /\ control.slots[held.op].status = "started"
         /\ control.slots[held.op].approval = held.approval
    /\ at["worker"] = "launching" => held.op \notin Launched

\* A resume that found no Worker brings the rows up to the control state.
RowsRestored ==
    reported.alone /\ control.open /\ at["caller"] \in {"clearing", "listing", "resumed"} =>
      /\ reported.pending = {s \in DOMAIN control.slots : control.slots[s].status = "unknown"}
      /\ job["caller"].step = "read" => job["caller"].update = control.ops
      /\ job["caller"].step = "write" =>
           \A s \in DOMAIN control.ops : /\ s \in DOMAIN job["caller"].rows
                                         /\ job["caller"].rows[s] = control.ops[s]
      /\ Ready("caller") =>
           \A s \in DOMAIN control.ops : s \in DOMAIN ledger /\ ledger[s] = control.ops[s]

Listed ==
    reported.alone /\ at["caller"] = "resumed" =>
      reported.ops = reported.pending \cup {o \in DOMAIN ledger : ledger[o] \in {"started", "unknown"}}

\* The rows and reservations account for every launch of a single attempt.
Recorded ==
    /\ \A op \in Launched : /\ op \in DOMAIN reserved /\ launches[op] = <<reserved[op]>>
                            /\ op \in Attempts /\ op \in DOMAIN ledger /\ ledger[op] = "started"
    /\ \A i \in Nat : Cardinality(UnderApproval(i)) <= Cap
    /\ enforced => Cardinality(DOMAIN reserved) <= MaxRuns

\* One thread writes at a time, from the file as it is, and not the row of a
\* launched attempt.
OneWriter ==
    /\ at["worker"] # "none" => Ready("caller")
    /\ ~Ready("caller") => at["caller"] \in {"starting", "saving", "reconciled"}
    /\ \A t \in Threads : job[t].step \in {"read", "write"} =>
         DOMAIN job[t].update \cap Launched = {}
    /\ \A t \in Threads : job[t].step = "write" => job[t].rows = Over(job[t].update, ledger)
    /\ ~job["worker"].counts

AttemptsRecorded == Recorded /\ OneWriter

AttemptInHand ==
    /\ at["worker"] \in {"authorized", "launching"} =>
         /\ held.op \in DOMAIN reserved /\ reserved[held.op] = held.approval
         /\ held.op \notin Launched
    /\ at["worker"] = "launching" =>
         IF Ready("worker") THEN held.op \in DOMAIN ledger /\ ledger[held.op] = "started"
                            ELSE job["worker"].update = [o \in {held.op} |-> "started"]

\* The operations of the Workers saved so far.
Begun == {Runs[e] : e \in 1..Len(workers)}

\* Their rows are in the file and in every copy of it, as started or later,
\* before a Worker can start CMO.
RunsRecorded ==
    /\ unasked \subseteq Begun
    /\ \A op \in Begun : op \in DOMAIN ledger /\ ledger[op] \in Used
    /\ \A t \in Threads : \A op \in Begun :
         /\ job[t].step \in {"read", "write"} /\ op \in DOMAIN job[t].update =>
              job[t].update[op] \in Used
         /\ job[t].step = "write" => op \in DOMAIN job[t].rows /\ job[t].rows[op] \in Used
    /\ at["caller"] = "saving" =>
         /\ job["caller"].step \in {"read", "write"} =>
              /\ NextRun \in DOMAIN job["caller"].update
              /\ job["caller"].update[NextRun] \in Used
         /\ job["caller"].step = "write" =>
              /\ NextRun \in DOMAIN job["caller"].rows
              /\ job["caller"].rows[NextRun] \in Used
         /\ Ready("caller") => NextRun \in DOMAIN ledger /\ ledger[NextRun] \in Used

\* Every step of the store's protocol.  RunCandidate is none: all of this stays.
Protocol == (\E t \in Threads : Store(t)) \/ Caller \/ Worker \/ Expire \/ Crash
kept == <<api, enforced, disk, expired, at, job, held, reported, launches, revoked, spent>>

LedgerInv ==
    /\ Types
    /\ ControlOK /\ Positions /\ Writes /\ Counted /\ Listed /\ RunsRecorded
    /\ api = "slots" => SlotsAccounted /\ SlotInHand /\ RowsRestored
    /\ api = "attempts" => AttemptsRecorded /\ AttemptInHand

-----------------------------------------------------------------------------
(* Rows and outstanding writes.                                              *)

LEMMA RowsType ==
    \A f : f \in Rows <=> f \in [DOMAIN f -> OpStatus] /\ DOMAIN f \subseteq Ops
BY DEF Rows

\* The newer of two tables wins row by row.
LEMMA OverRows ==
    ASSUME NEW new, NEW old
    PROVE  /\ DOMAIN Over(new, old) = DOMAIN new \cup DOMAIN old
           /\ \A x \in DOMAIN new \cup DOMAIN old :
                Over(new, old)[x] = IF x \in DOMAIN new THEN new[x] ELSE old[x]
           /\ new \in Rows /\ old \in Rows => Over(new, old) \in Rows
<1>1. /\ DOMAIN Over(new, old) = DOMAIN new \cup DOMAIN old
      /\ \A x \in DOMAIN new \cup DOMAIN old :
           Over(new, old)[x] = IF x \in DOMAIN new THEN new[x] ELSE old[x]
  BY DEF Over
<1>2. ASSUME new \in Rows, old \in Rows PROVE Over(new, old) \in Rows
  <2>1. Over(new, old) \in [DOMAIN new \cup DOMAIN old -> OpStatus]
    BY <1>2, RowsType DEF Over
  <2>2. QED
    BY <1>2, <2>1, RowsType
<1>3. QED
  BY <1>1, <1>2

LEMMA OverNew ==
    \A new, old : \A x \in DOMAIN new :
      x \in DOMAIN Over(new, old) /\ Over(new, old)[x] = new[x]
BY DEF Over

LEMMA OverOld ==
    \A new, old :
      /\ DOMAIN Over(new, old) = DOMAIN new \cup DOMAIN old
      /\ \A x \in DOMAIN old \ DOMAIN new :
           x \in DOMAIN Over(new, old) /\ Over(new, old)[x] = old[x]
BY DEF Over

LEMMA RowTyped ==
    ASSUME NEW op \in Ops, NEW status \in OpStatus
    PROVE  [o \in {op} |-> status] \in Rows
<1>1. [o \in {op} |-> status] \in [{op} -> OpStatus]
  OBVIOUS
<1>2. QED
  BY <1>1, RowsType

LEMMA NothingTyped == Nothing \in Rows /\ NoJob \in Job
<1>1. Nothing \in [{} -> OpStatus]
  BY DEF Nothing
<1>2. Nothing \in Rows
  BY <1>1 DEF Rows
<1>3. QED
  BY <1>2 DEF NoJob, Job

LEMMA OweTyped ==
    ASSUME job \in [Threads -> Job], NEW t \in Threads, NEW update \in Rows,
           NEW locked \in BOOLEAN, NEW counts \in BOOLEAN, Owe(t, update, locked, counts)
    PROVE  /\ job' \in [Threads -> Job]
           /\ job'[t].step = "read" /\ job'[t].update = update
           /\ job'[t].locked = locked /\ job'[t].counts = counts
           /\ \A u \in Threads \ {t} : job'[u] = job[u]
<1> DEFINE owed == [step |-> "read", update |-> update, rows |-> Nothing,
                    locked |-> locked, counts |-> counts]
<1>1. owed \in Job /\ owed.step = "read" /\ owed.update = update
        /\ owed.locked = locked /\ owed.counts = counts
  BY NothingTyped DEF Job
<1>2. job' = [job EXCEPT ![t] = owed]
  BY DEF Owe
<1> HIDE DEF owed
<1>3. QED
  BY <1>1, <1>2

LEMMA ThreadsAre == Threads = {"caller", "worker"} /\ NoJob.step = "none" /\ ~NoJob.counts
                      /\ ~NoJob.locked
BY DEF Threads, NoJob

-----------------------------------------------------------------------------
(* The writers of the control state: what each leaves behind.                *)

LEMMA ControlFields ==
    ASSUME control \in Control
    PROVE  /\ control.open \in BOOLEAN /\ control.started \in Nat
           /\ control.grants \in Seq(Grant)
           /\ control.slots \in [DOMAIN control.slots -> Slot]
           /\ DOMAIN control.slots \in {{}, Slots}
           /\ control.ops \in Rows
BY DEF Control

LEMMA CapNat == Cap \in Nat /\ MaxRuns \in Nat
BY LedgerAssumption

\* A grant or a slot in its new form.
LEMMA GrantTyped ==
    ASSUME NEW grant \in Grant
    PROVE  /\ grant.valid \in BOOLEAN /\ grant.authorized \in 0..Cap
           /\ [grant EXCEPT !.valid = FALSE] \in Grant
           /\ [grant EXCEPT !.valid = FALSE].authorized = grant.authorized
           /\ ~[grant EXCEPT !.valid = FALSE].valid
<1>1. grant.valid \in BOOLEAN /\ grant.authorized \in 0..Cap
  BY DEF Grant
<1>2. FALSE \in BOOLEAN
  OBVIOUS
<1>3. [grant EXCEPT !.valid = FALSE] \in Grant
  BY <1>2 DEF Grant
<1>4. [grant EXCEPT !.valid = FALSE].authorized = grant.authorized
  BY DEF Grant
<1>5. ~[grant EXCEPT !.valid = FALSE].valid
  BY DEF Grant
<1>6. QED
  BY <1>1, <1>3, <1>4, <1>5

LEMMA GrantPays ==
    ASSUME NEW grant \in Grant, grant.authorized < Cap
    PROVE  /\ [grant EXCEPT !.authorized = @ + 1] \in Grant
           /\ [grant EXCEPT !.authorized = @ + 1].authorized = grant.authorized + 1
           /\ [grant EXCEPT !.authorized = @ + 1].valid = grant.valid
<1> DEFINE more == grant.authorized + 1
<1>1. more \in 0..Cap /\ grant.valid \in BOOLEAN
  BY CapNat DEF Grant
<1>2. [grant EXCEPT !.authorized = more] \in Grant
  <2> HIDE DEF more
  <2>1. QED
    BY <1>1 DEF Grant
<1>3. [grant EXCEPT !.authorized = more].authorized = more
  BY DEF Grant
<1>4. [grant EXCEPT !.authorized = more].valid = grant.valid
  BY DEF Grant
<1>5. QED
  BY <1>2, <1>3, <1>4

LEMMA SlotTyped ==
    ASSUME NEW slot \in Slot, NEW new \in SlotStatus
    PROVE  /\ slot.status \in SlotStatus /\ slot.approval \in Nat
           /\ [slot EXCEPT !.status = new] \in Slot
           /\ [slot EXCEPT !.status = new].status = new
           /\ [slot EXCEPT !.status = new].approval = slot.approval
BY DEF Slot

LEMMA NewSlotTyped ==
    ASSUME NEW status \in SlotStatus, NEW g \in Nat
    PROVE  /\ [approval |-> g, status |-> status] \in Slot
           /\ [approval |-> g, status |-> status].status = status
           /\ [approval |-> g, status |-> status].approval = g
BY DEF Slot

\* The invalidated grants: as many, none valid, each with what it has paid.
NoneLeft == [g \in DOMAIN control.grants |-> [control.grants[g] EXCEPT !.valid = FALSE]]

LEMMA InvalidatedGrants ==
    ASSUME control \in Control
    PROVE  /\ Invalidated(control) = [control EXCEPT !.grants = NoneLeft]
           /\ NoneLeft \in Seq(Grant) /\ Len(NoneLeft) = Len(control.grants)
           /\ \A g \in 1..Len(control.grants) :
                /\ ~NoneLeft[g].valid /\ NoneLeft[g].authorized = control.grants[g].authorized
<1>1. DOMAIN control.grants = 1..Len(control.grants) /\ Len(control.grants) \in Nat
        /\ \A g \in 1..Len(control.grants) : control.grants[g] \in Grant
  BY ControlFields
<1>2. \A g \in 1..Len(control.grants) :
        /\ NoneLeft[g] \in Grant /\ ~NoneLeft[g].valid
        /\ NoneLeft[g].authorized = control.grants[g].authorized
  <2> TAKE g \in 1..Len(control.grants)
  <2>1. NoneLeft[g] = [control.grants[g] EXCEPT !.valid = FALSE]
    BY <1>1 DEF NoneLeft
  <2>2. QED
    BY <1>1, <2>1, GrantTyped
<1>3. NoneLeft \in [1..Len(control.grants) -> Grant]
  BY <1>1, <1>2 DEF NoneLeft
<1>4. NoneLeft \in Seq(Grant) /\ Len(NoneLeft) = Len(control.grants)
  BY <1>1, <1>3
<1>5. Invalidated(control) = [control EXCEPT !.grants = NoneLeft]
  BY DEF Invalidated, NoneLeft
<1>6. QED
  BY <1>2, <1>4, <1>5

LEMMA OpenedControl ==
    ASSUME control \in Control
    PROVE  /\ Opened \in Control /\ Opened.open
           /\ Opened.started = control.started /\ Opened.grants = control.grants
           /\ Opened.slots = control.slots /\ Opened.ops = control.ops
<1>1. TRUE \in BOOLEAN
  OBVIOUS
<1>2. QED
  BY <1>1 DEF Opened, Control

\* A grant: every slot new under it, the rows of old ones as they were.
NewGrants == Append(control.grants, [valid |-> TRUE, authorized |-> 0])
NewSlots == [s \in Slots |-> [approval |-> Len(control.grants) + 1, status |-> "available"]]
NewOps == Over(control.ops, [s \in Slots |-> "prepared"])

LEMMA GrantedControl ==
    ASSUME control \in Control, DOMAIN control.ops = DOMAIN control.slots
    PROVE  /\ Granted \in Control
           /\ Granted.open = control.open /\ Granted.started = control.started
           /\ Granted.grants = NewGrants /\ Granted.slots = NewSlots /\ Granted.ops = NewOps
           /\ Len(NewGrants) = Len(control.grants) + 1 /\ Len(control.grants) \in Nat
           /\ \A g \in 1..Len(control.grants) : NewGrants[g] = control.grants[g]
           /\ NewGrants[Len(control.grants) + 1].authorized = 0
           /\ DOMAIN NewSlots = Slots /\ DOMAIN NewOps = Slots
           /\ \A s \in Slots : /\ NewSlots[s].status = "available"
                               /\ NewSlots[s].approval = Len(control.grants) + 1
<1> DEFINE grant == [valid |-> TRUE, authorized |-> 0]
           first == [s \in Slots |-> "prepared"]
<1>1. grant \in Grant /\ grant.authorized = 0
  <2>1. TRUE \in BOOLEAN /\ 0 \in 0..Cap
    BY CapNat
  <2>2. QED
    BY <2>1 DEF Grant
<1>2. NewGrants = Append(control.grants, grant)
  BY DEF NewGrants
<1>3. first \in Rows
  <2>1. first \in [Slots -> OpStatus] /\ Slots \subseteq Ops
    BY DEF OpStatus, Ops
  <2>2. QED
    BY <2>1, RowsType
<1>4. NewOps = Over(control.ops, first)
  BY DEF NewOps
<1> HIDE DEF grant
<1>5. /\ NewGrants \in Seq(Grant) /\ Len(NewGrants) = Len(control.grants) + 1
      /\ Len(control.grants) \in Nat
      /\ \A g \in 1..Len(control.grants) : NewGrants[g] = control.grants[g]
      /\ NewGrants[Len(control.grants) + 1] = grant
  BY <1>1, <1>2, ControlFields
<1>6. DOMAIN first = Slots
  OBVIOUS
<1> HIDE DEF first
<1>7. NewOps \in Rows /\ DOMAIN NewOps = Slots
  <2>1. DOMAIN control.ops \subseteq Slots /\ control.ops \in Rows
    BY ControlFields
  <2>2. NewOps \in Rows /\ DOMAIN NewOps = DOMAIN control.ops \cup DOMAIN first
    BY <1>3, <1>4, <2>1, OverRows
  <2>3. QED
    BY <1>6, <2>1, <2>2
<1>8. /\ NewSlots \in [Slots -> Slot]
      /\ \A s \in Slots : /\ NewSlots[s].status = "available"
                          /\ NewSlots[s].approval = Len(control.grants) + 1
  BY <1>5, NewSlotTyped DEF NewSlots, SlotStatus
<1>9. Granted = [control EXCEPT !.grants = NewGrants, !.slots = NewSlots, !.ops = NewOps]
  BY DEF Granted, NewGrants, NewSlots, NewOps
<1>10. /\ Granted \in Control
       /\ Granted.open = control.open /\ Granted.started = control.started
       /\ Granted.grants = NewGrants /\ Granted.slots = NewSlots /\ Granted.ops = NewOps
  BY <1>5, <1>7, <1>8, <1>9 DEF Control
<1>11. DOMAIN NewSlots = Slots
  BY <1>8
<1>12. QED
  BY <1>1, <1>5, <1>7, <1>8, <1>10, <1>11

LEMMA InvalidatedControl ==
    ASSUME control \in Control
    PROVE  /\ Invalidated(control) \in Control
           /\ Invalidated(control).open = control.open
           /\ Invalidated(control).started = control.started
           /\ Invalidated(control).grants = NoneLeft
           /\ Invalidated(control).slots = control.slots
           /\ Invalidated(control).ops = control.ops
BY InvalidatedGrants DEF Control

Back == {s \in DOMAIN control.slots : control.slots[s].status = "authorized"}
BackSlots == [s \in DOMAIN control.slots |->
                IF s \in Back THEN [approval |-> 0, status |-> "available"] ELSE control.slots[s]]
BackOps == [s \in DOMAIN control.ops |-> IF s \in Back THEN "prepared" ELSE control.ops[s]]

LEMMA ReconciledControl ==
    ASSUME control \in Control, DOMAIN control.ops = DOMAIN control.slots
    PROVE  /\ Reconciled \in Control
           /\ Reconciled.open = control.open /\ Reconciled.started = control.started
           /\ Reconciled.grants = NoneLeft
           /\ Reconciled.slots = BackSlots /\ Reconciled.ops = BackOps
           /\ DOMAIN BackSlots = DOMAIN control.slots /\ DOMAIN BackOps = DOMAIN control.ops
           /\ \A s \in DOMAIN control.slots :
                IF control.slots[s].status = "authorized"
                THEN BackSlots[s].status = "available" /\ BackSlots[s].approval = 0
                ELSE BackSlots[s] = control.slots[s] /\ BackOps[s] = control.ops[s]
<1> DEFINE given == [approval |-> 0, status |-> "available"]
<1>1. given \in Slot /\ given.status = "available" /\ given.approval = 0
  BY NewSlotTyped DEF SlotStatus
<1>2. BackSlots = [s \in DOMAIN control.slots |-> IF s \in Back THEN given ELSE control.slots[s]]
  BY DEF BackSlots
<1> HIDE DEF given
<1>3. /\ BackSlots \in [DOMAIN control.slots -> Slot] /\ DOMAIN BackSlots = DOMAIN control.slots
      /\ \A s \in DOMAIN control.slots :
           BackSlots[s] = IF control.slots[s].status = "authorized" THEN given ELSE control.slots[s]
  BY <1>1, <1>2, ControlFields DEF Back
<1>4. /\ BackOps \in Rows /\ DOMAIN BackOps = DOMAIN control.ops
      /\ \A s \in DOMAIN control.slots :
           control.slots[s].status # "authorized" => BackOps[s] = control.ops[s]
  <2>1. control.ops \in [DOMAIN control.ops -> OpStatus] /\ DOMAIN control.ops \subseteq Ops
    BY ControlFields, RowsType
  <2>2. "prepared" \in OpStatus
    BY DEF OpStatus
  <2>3. BackOps \in [DOMAIN control.ops -> OpStatus]
    BY <2>1, <2>2 DEF BackOps
  <2>4. BackOps \in Rows
    BY <2>1, <2>3, RowsType
  <2>5. QED
    BY <2>3, <2>4 DEF BackOps, Back
<1>5. BackSlots \in [{} -> Slot] \cup [Slots -> Slot]
  BY <1>3, ControlFields
<1>6. Reconciled = [Invalidated(control) EXCEPT !.slots = BackSlots, !.ops = BackOps]
  <2>1. Invalidated(control).slots = control.slots /\ Invalidated(control).ops = control.ops
    BY InvalidatedControl
  <2>2. QED
    BY <2>1 DEF Reconciled, BackSlots, BackOps, Back
<1>7. /\ Reconciled \in Control
      /\ Reconciled.open = control.open /\ Reconciled.started = control.started
      /\ Reconciled.grants = NoneLeft
      /\ Reconciled.slots = BackSlots /\ Reconciled.ops = BackOps
  BY <1>4, <1>5, <1>6, InvalidatedControl DEF Control
<1>8. QED
  BY <1>1, <1>3, <1>4, <1>7

\* authorize_attempt_slot, mark_attempt_started and the ends of an attempt.
AuthorizedSlot(op, g) ==
    [control EXCEPT !.slots[op] = [approval |-> g, status |-> "authorized"],
                    !.grants[g].authorized = @ + 1,
                    !.ops[op] = "authorized"]
StartedSlot(op) ==
    [control EXCEPT !.slots[op].status = "started", !.started = @ + 1, !.ops[op] = "started"]
EndedSlot(op, end) ==
    [control EXCEPT !.slots[op].status = end, !.ops[op] = end]

LEMMA OneRowTyped ==
    ASSUME control \in Control, DOMAIN control.ops = DOMAIN control.slots,
           NEW op \in DOMAIN control.slots, NEW new \in OpStatus
    PROVE  /\ [control.ops EXCEPT ![op] = new] \in Rows
           /\ DOMAIN [control.ops EXCEPT ![op] = new] = DOMAIN control.ops
           /\ [control.ops EXCEPT ![op] = new][op] = new
           /\ \A s \in DOMAIN control.ops \ {op} :
                [control.ops EXCEPT ![op] = new][s] = control.ops[s]
<1>1. control.ops \in [DOMAIN control.ops -> OpStatus] /\ DOMAIN control.ops \subseteq Ops
  BY ControlFields, RowsType
<1> DEFINE rows == [control.ops EXCEPT ![op] = new]
<1>2. rows \in [DOMAIN control.ops -> OpStatus]
  BY <1>1
<1>3. rows \in Rows
  <2> HIDE DEF rows
  <2>1. DOMAIN rows = DOMAIN control.ops
    BY <1>2
  <2>2. QED
    BY <1>1, <1>2, <2>1, RowsType
<1>4. QED
  BY <1>1, <1>2, <1>3

LEMMA OneSlotTyped ==
    ASSUME control \in Control, NEW op \in DOMAIN control.slots, NEW slot \in Slot
    PROVE  /\ [control.slots EXCEPT ![op] = slot] \in [{} -> Slot] \cup [Slots -> Slot]
           /\ DOMAIN [control.slots EXCEPT ![op] = slot] = DOMAIN control.slots
           /\ [control.slots EXCEPT ![op] = slot][op] = slot
           /\ \A s \in DOMAIN control.slots \ {op} :
                [control.slots EXCEPT ![op] = slot][s] = control.slots[s]
BY ControlFields

LEMMA AuthorizedControl ==
    ASSUME control \in Control, DOMAIN control.ops = DOMAIN control.slots,
           NEW op \in DOMAIN control.slots, NEW g \in 1..Len(control.grants),
           control.grants[g].authorized < Cap
    PROVE  LET new == AuthorizedSlot(op, g)
           IN /\ new \in Control
              /\ new.open = control.open /\ new.started = control.started
              /\ Len(new.grants) = Len(control.grants)
              /\ \A h \in 1..Len(control.grants) :
                   /\ new.grants[h].valid = control.grants[h].valid
                   /\ new.grants[h].authorized
                        = control.grants[h].authorized + (IF h = g THEN 1 ELSE 0)
              /\ DOMAIN new.slots = DOMAIN control.slots /\ DOMAIN new.ops = DOMAIN control.ops
              /\ new.slots[op].status = "authorized" /\ new.slots[op].approval = g
              /\ \A s \in DOMAIN control.slots \ {op} :
                   new.slots[s] = control.slots[s] /\ new.ops[s] = control.ops[s]
<1> DEFINE new == AuthorizedSlot(op, g)
           slot == [approval |-> g, status |-> "authorized"]
           slots == [control.slots EXCEPT ![op] = slot]
           ops == [control.ops EXCEPT ![op] = "authorized"]
           grant == [control.grants[g] EXCEPT !.authorized = @ + 1]
           grants == [control.grants EXCEPT ![g] = grant]
<1>1. /\ control.grants \in Seq(Grant) /\ Len(control.grants) \in Nat
      /\ \A h \in 1..Len(control.grants) :
           control.grants[h] \in Grant /\ control.grants[h].authorized \in Nat
  <2>1. /\ control.grants \in Seq(Grant) /\ Len(control.grants) \in Nat
        /\ \A h \in 1..Len(control.grants) : control.grants[h] \in Grant
    BY ControlFields
  <2>2. \A h \in 1..Len(control.grants) : control.grants[h].authorized \in 0..Cap
    BY <2>1, GrantTyped
  <2>3. QED
    BY <2>1, <2>2, CapNat
<1>2. slot \in Slot /\ slot.status = "authorized" /\ slot.approval = g
  BY <1>1, NewSlotTyped DEF SlotStatus
<1>3. /\ grant \in Grant /\ grant.authorized = control.grants[g].authorized + 1
      /\ grant.valid = control.grants[g].valid
  BY <1>1, GrantPays
<1>4. new = [control EXCEPT !.slots = slots, !.grants = grants, !.ops = ops]
  BY DEF AuthorizedSlot
<1> HIDE DEF grant, slot
<1>5. /\ grants \in Seq(Grant) /\ Len(grants) = Len(control.grants)
      /\ \A h \in 1..Len(control.grants) : grants[h] = IF h = g THEN grant ELSE control.grants[h]
  BY <1>1, <1>3
<1>6. /\ slots \in [{} -> Slot] \cup [Slots -> Slot] /\ DOMAIN slots = DOMAIN control.slots
      /\ slots[op] = slot
      /\ \A s \in DOMAIN control.slots \ {op} : slots[s] = control.slots[s]
  BY <1>2, OneSlotTyped
<1>7. /\ ops \in Rows /\ DOMAIN ops = DOMAIN control.ops
      /\ \A s \in DOMAIN control.ops \ {op} : ops[s] = control.ops[s]
  BY OneRowTyped DEF OpStatus
<1> HIDE DEF slots, ops, grants, new
<1>8. /\ new \in Control
      /\ new.open = control.open /\ new.started = control.started
      /\ new.grants = grants /\ new.slots = slots /\ new.ops = ops
  BY <1>4, <1>5, <1>6, <1>7 DEF Control
<1>9. QED
  BY <1>1, <1>2, <1>3, <1>5, <1>6, <1>7, <1>8 DEF new

LEMMA StartedControl ==
    ASSUME control \in Control, DOMAIN control.ops = DOMAIN control.slots,
           NEW op \in DOMAIN control.slots
    PROVE  LET new == StartedSlot(op)
           IN /\ new \in Control
              /\ new.open = control.open /\ new.started = control.started + 1
              /\ new.grants = control.grants
              /\ DOMAIN new.slots = DOMAIN control.slots /\ DOMAIN new.ops = DOMAIN control.ops
              /\ new.slots[op].status = "started"
              /\ new.slots[op].approval = control.slots[op].approval
              /\ new.ops[op] = "started"
              /\ \A s \in DOMAIN control.slots \ {op} :
                   new.slots[s] = control.slots[s] /\ new.ops[s] = control.ops[s]
<1> DEFINE new == StartedSlot(op)
           slot == [control.slots[op] EXCEPT !.status = "started"]
           slots == [control.slots EXCEPT ![op] = slot]
           ops == [control.ops EXCEPT ![op] = "started"]
           started == control.started + 1
<1>1. slot \in Slot /\ slot.status = "started" /\ slot.approval = control.slots[op].approval
  <2>1. control.slots[op] \in Slot
    BY ControlFields
  <2>2. "started" \in SlotStatus
    BY DEF SlotStatus
  <2>3. QED
    BY <2>1, <2>2, SlotTyped
<1>2. new = [control EXCEPT !.slots = slots, !.started = started, !.ops = ops]
  BY DEF StartedSlot
<1>3. started \in Nat
  BY ControlFields
<1> HIDE DEF slot, started
<1>4. /\ slots \in [{} -> Slot] \cup [Slots -> Slot] /\ DOMAIN slots = DOMAIN control.slots
      /\ slots[op] = slot
      /\ \A s \in DOMAIN control.slots \ {op} : slots[s] = control.slots[s]
  BY <1>1, OneSlotTyped
<1>5. /\ ops \in Rows /\ DOMAIN ops = DOMAIN control.ops /\ ops[op] = "started"
      /\ \A s \in DOMAIN control.ops \ {op} : ops[s] = control.ops[s]
  BY OneRowTyped DEF OpStatus
<1> HIDE DEF slots, ops, new
<1>6. /\ new \in Control
      /\ new.open = control.open /\ new.started = started
      /\ new.grants = control.grants /\ new.slots = slots /\ new.ops = ops
  BY <1>2, <1>3, <1>4, <1>5 DEF Control
<1>7. QED
  BY <1>1, <1>4, <1>5, <1>6 DEF new, started

LEMMA EndedControl ==
    ASSUME control \in Control, DOMAIN control.ops = DOMAIN control.slots,
           NEW op \in DOMAIN control.slots, NEW end \in EndStatus
    PROVE  LET new == EndedSlot(op, end)
           IN /\ new \in Control
              /\ new.open = control.open /\ new.started = control.started
              /\ new.grants = control.grants
              /\ DOMAIN new.slots = DOMAIN control.slots /\ DOMAIN new.ops = DOMAIN control.ops
              /\ new.slots[op].status = end
              /\ new.slots[op].approval = control.slots[op].approval
              /\ new.ops[op] = end
              /\ \A s \in DOMAIN control.slots \ {op} :
                   new.slots[s] = control.slots[s] /\ new.ops[s] = control.ops[s]
<1> DEFINE new == EndedSlot(op, end)
           slot == [control.slots[op] EXCEPT !.status = end]
           slots == [control.slots EXCEPT ![op] = slot]
           ops == [control.ops EXCEPT ![op] = end]
<1>1. slot \in Slot /\ slot.status = end /\ slot.approval = control.slots[op].approval
  <2>1. control.slots[op] \in Slot
    BY ControlFields
  <2>2. end \in SlotStatus
    BY DEF SlotStatus, EndStatus
  <2>3. QED
    BY <2>1, <2>2, SlotTyped
<1>2. new = [control EXCEPT !.slots = slots, !.ops = ops]
  BY DEF EndedSlot
<1> HIDE DEF slot
<1>3. /\ slots \in [{} -> Slot] \cup [Slots -> Slot] /\ DOMAIN slots = DOMAIN control.slots
      /\ slots[op] = slot
      /\ \A s \in DOMAIN control.slots \ {op} : slots[s] = control.slots[s]
  BY <1>1, OneSlotTyped
<1>4. /\ ops \in Rows /\ DOMAIN ops = DOMAIN control.ops /\ ops[op] = end
      /\ \A s \in DOMAIN control.ops \ {op} : ops[s] = control.ops[s]
  BY OneRowTyped DEF OpStatus, EndStatus
<1> HIDE DEF slots, ops, new
<1>5. /\ new \in Control
      /\ new.open = control.open /\ new.started = control.started
      /\ new.grants = control.grants /\ new.slots = slots /\ new.ops = ops
  BY <1>2, <1>3, <1>4 DEF Control
<1>6. QED
  BY <1>1, <1>3, <1>4, <1>5 DEF new

-----------------------------------------------------------------------------
(* Types.                                                                    *)

LEMMA PointsAre ==
    ASSUME PointsTyped
    PROVE  /\ at["caller"] \in CallerPc /\ at["worker"] \in WorkerPc
           /\ held.op \in Slots \cup Attempts \cup {"none"} /\ held.approval \in Nat
           /\ held.outcome \in Outcomes \cup {"none"}
           /\ reported.pending \subseteq Slots /\ reported.ops \subseteq Ops
           /\ reported.alone \in BOOLEAN
BY DEF PointsTyped, Pc, Hand, Report

LEMMA GoCaller ==
    ASSUME at \in Pc, NEW label \in CallerPc, Goto("caller", label)
    PROVE  at' \in Pc /\ at'["caller"] = label /\ at'["worker"] = at["worker"]
BY DEF Goto, Pc

LEMMA GoWorker ==
    ASSUME at \in Pc, NEW label \in WorkerPc, Goto("worker", label)
    PROVE  at' \in Pc /\ at'["worker"] = label /\ at'["caller"] = at["caller"]
BY DEF Goto, Pc

LEMMA HandTyped ==
    /\ NoAttempt \in Hand /\ NoReport \in Report
    /\ \A op \in Slots \cup Attempts : [NoAttempt EXCEPT !.op = op] \in Hand
    /\ \A outcome \in Outcomes : [NoAttempt EXCEPT !.outcome = outcome] \in Hand
    /\ held \in Hand => \A g \in Nat : [held EXCEPT !.approval = g] \in Hand
<1>1. NoAttempt \in Hand
  BY DEF NoAttempt, Hand
<1>2. FALSE \in BOOLEAN
  OBVIOUS
<1>3. NoReport \in Report
  BY <1>2 DEF NoReport, Report
<1>4. \A op \in Slots \cup Attempts : [NoAttempt EXCEPT !.op = op] \in Hand
  BY DEF NoAttempt, Hand
<1>5. \A outcome \in Outcomes : [NoAttempt EXCEPT !.outcome = outcome] \in Hand
  BY DEF NoAttempt, Hand
<1>6. held \in Hand => \A g \in Nat : [held EXCEPT !.approval = g] \in Hand
  BY DEF Hand
<1>7. QED
  BY <1>1, <1>3, <1>4, <1>5, <1>6

LEMMA CallerPointsTyped == Types /\ Caller => PointsTyped'
<1> SUFFICES ASSUME Types, Caller PROVE PointsTyped'
  OBVIOUS
<1> USE DEF Types
<1>1. at \in Pc /\ held \in Hand /\ reported \in Report
  BY DEF PointsTyped
<1>2. CASE /\ UNCHANGED <<held, reported>>
           /\ UNCHANGED at \/ \E label \in CallerPc : Goto("caller", label)
  BY <1>1, <1>2, GoCaller DEF PointsTyped
<1>3. CASE OpenControl
  <2>1. UNCHANGED <<held, reported>> /\ (UNCHANGED at \/ \E label \in CallerPc : Goto("caller", label))
    BY <1>3 DEF OpenControl, CallerPc
  <2>2. QED
    BY <1>2, <2>1
<1>4. CASE PersistGrant
  <2>1. UNCHANGED <<held, reported>> /\ (UNCHANGED at \/ \E label \in CallerPc : Goto("caller", label))
    BY <1>4 DEF PersistGrant, CallerPc
  <2>2. QED
    BY <1>2, <2>1
<1>5. CASE AuthorizeGeneration
  <2>1. UNCHANGED <<held, reported>> /\ (UNCHANGED at \/ \E label \in CallerPc : Goto("caller", label))
    BY <1>5 DEF AuthorizeGeneration, CallerPc
  <2>2. QED
    BY <1>2, <2>1
<1>6. CASE RegeneratePreview
  <2>1. UNCHANGED <<held, reported>> /\ (UNCHANGED at \/ \E label \in CallerPc : Goto("caller", label))
    BY <1>6 DEF RegeneratePreview, CallerPc
  <2>2. QED
    BY <1>2, <2>1
<1>7. CASE Execute
  <2>1. UNCHANGED <<held, reported>> /\ (UNCHANGED at \/ \E label \in CallerPc : Goto("caller", label))
    BY <1>7 DEF Execute, CallerPc
  <2>2. QED
    BY <1>2, <2>1
<1>8. CASE MarkStarted
  <2>1. UNCHANGED <<held, reported>> /\ (UNCHANGED at \/ \E label \in CallerPc : Goto("caller", label))
    BY <1>8 DEF MarkStarted, CallerPc
  <2>2. QED
    BY <1>2, <2>1
<1>9. CASE ReconcileGeneration
  <2>1. UNCHANGED <<held, reported>> /\ (UNCHANGED at \/ \E label \in CallerPc : Goto("caller", label))
    BY <1>9 DEF ReconcileGeneration, CallerPc
  <2>2. QED
    BY <1>2, <2>1
<1>10. CASE SaveReconciled
  <2>1. UNCHANGED <<held, reported>> /\ (UNCHANGED at \/ \E label \in CallerPc : Goto("caller", label))
    BY <1>10 DEF SaveReconciled, CallerPc
  <2>2. QED
    BY <1>2, <2>1
<1>11. CASE PauseOrStop
  <2>1. UNCHANGED <<held, reported>> /\ (UNCHANGED at \/ \E label \in CallerPc : Goto("caller", label))
    BY <1>11 DEF PauseOrStop, CallerPc
  <2>2. QED
    BY <1>2, <2>1
<1>12. CASE Revoke
  <2>1. UNCHANGED <<held, reported>> /\ (UNCHANGED at \/ \E label \in CallerPc : Goto("caller", label))
    BY <1>12 DEF Revoke, CallerPc
  <2>2. QED
    BY <1>2, <2>1
<1>13. CASE ClearOnResume
  <2>1. UNCHANGED <<held, reported>> /\ (UNCHANGED at \/ \E label \in CallerPc : Goto("caller", label))
    BY <1>13 DEF ClearOnResume, CallerPc
  <2>2. QED
    BY <1>2, <2>1
<1>14. CASE StartWorker
  <2>1. at' \in Pc
    BY <1>14 DEF StartWorker, Pc, CallerPc, WorkerPc
  <2>2. QED
    BY <1>1, <1>14, <2>1 DEF StartWorker, PointsTyped
<1>15. CASE Resume
  <2>1. held' = held /\ \E label \in CallerPc : Goto("caller", label)
    BY <1>15 DEF Resume, CallerPc
  <2>2. reported' \in Report
    <3>1. (at["worker"] = "none") \in BOOLEAN
      OBVIOUS
    <3>2. QED
      BY <1>15, <3>1 DEF Resume, NoReport, Report
  <2>3. QED
    BY <1>1, <2>1, <2>2, GoCaller DEF PointsTyped
<1>16. CASE Reconcile
  <2>1. held' = held /\ Goto("caller", "clearing") /\ "clearing" \in CallerPc
    BY <1>16 DEF Reconcile, CallerPc
  <2>2. reported' \in Report
    <3> DEFINE pending == {s \in DOMAIN control.slots : control.slots[s].status = "unknown"}
    <3>1. pending \in SUBSET Slots
      BY ControlFields
    <3>2. reported' = [reported EXCEPT !.pending = pending]
      BY <1>16 DEF Reconcile
    <3> HIDE DEF pending
    <3>3. QED
      BY <1>1, <3>1, <3>2 DEF Report
  <2>3. QED
    BY <1>1, <2>1, <2>2, GoCaller DEF PointsTyped
<1>17. CASE ListUnresolved
  <2>1. held' = held /\ Goto("caller", "resumed") /\ "resumed" \in CallerPc
    BY <1>17 DEF ListUnresolved, CallerPc
  <2>2. reported' \in Report
    <3> DEFINE found == reported.pending \cup {o \in DOMAIN ledger : ledger[o] \in {"started", "unknown"}}
    <3>1. found \in SUBSET Ops
      BY PointsAre, RowsType DEF FilesTyped, Ops
    <3>2. reported' = [reported EXCEPT !.ops = found]
      BY <1>17 DEF ListUnresolved
    <3> HIDE DEF found
    <3>3. QED
      BY <1>1, <3>1, <3>2 DEF Report
  <2>3. QED
    BY <1>1, <2>1, <2>2, GoCaller DEF PointsTyped
<1>18. CASE Resumed
  <2>1. held' = held /\ Goto("caller", "idle") /\ "idle" \in CallerPc /\ reported' = NoReport
    BY <1>18 DEF Resumed, CallerPc
  <2>2. QED
    BY <1>1, <2>1, GoCaller, HandTyped DEF PointsTyped
<1>19. QED
  BY <1>3, <1>4, <1>5, <1>6, <1>7, <1>8, <1>9, <1>10, <1>11, <1>12, <1>13, <1>14, <1>15, <1>16, <1>17, <1>18 DEF Caller

LEMMA WorkerPointsTyped == Types /\ Worker => PointsTyped'
<1> SUFFICES ASSUME Types, Worker PROVE PointsTyped'
  OBVIOUS
<1> USE DEF Types
<1>1. at \in Pc /\ held \in Hand /\ reported \in Report
  BY DEF PointsTyped
<1>2. CASE /\ held' \in Hand /\ UNCHANGED reported
           /\ \E label \in WorkerPc : Goto("worker", label)
  BY <1>1, <1>2, GoWorker DEF PointsTyped
<1>3. CASE AuthorizeSlot
  <2>1. UNCHANGED <<held, reported>> /\ (\E label \in WorkerPc : Goto("worker", label))
    BY <1>3 DEF AuthorizeSlot, WorkerPc
  <2>2. QED
    BY <1>1, <1>2, <2>1
<1>4. CASE StartSlot
  <2>1. UNCHANGED <<held, reported>> /\ (\E label \in WorkerPc : Goto("worker", label))
    BY <1>4 DEF StartSlot, WorkerPc
  <2>2. QED
    BY <1>1, <1>2, <2>1
<1>5. CASE PrepareAttempt
  <2>1. UNCHANGED <<held, reported>> /\ (\E label \in WorkerPc : Goto("worker", label))
    BY <1>5 DEF PrepareAttempt, WorkerPc
  <2>2. QED
    BY <1>1, <1>2, <2>1
<1>6. CASE AuthorizeAttempt
  <2>1. UNCHANGED <<held, reported>> /\ (\E label \in WorkerPc : Goto("worker", label))
    BY <1>6 DEF AuthorizeAttempt, WorkerPc
  <2>2. QED
    BY <1>1, <1>2, <2>1
<1>7. CASE StartAttempt
  <2>1. UNCHANGED <<held, reported>> /\ (\E label \in WorkerPc : Goto("worker", label))
    BY <1>7 DEF StartAttempt, WorkerPc
  <2>2. QED
    BY <1>1, <1>2, <2>1
<1>8. CASE Launch
  <2>1. UNCHANGED <<held, reported>> /\ (\E label \in WorkerPc : Goto("worker", label))
    BY <1>8 DEF Launch, WorkerPc
  <2>2. QED
    BY <1>1, <1>2, <2>1
<1>9. CASE Finish
  <2>1. UNCHANGED <<held, reported>> /\ (\E label \in WorkerPc : Goto("worker", label))
    BY <1>9 DEF Finish, WorkerPc
  <2>2. QED
    BY <1>1, <1>2, <2>1
<1>10. CASE ClearRequest
  <2>1. UNCHANGED <<held, reported>> /\ (\E label \in WorkerPc : Goto("worker", label))
    BY <1>10 DEF ClearRequest, WorkerPc
  <2>2. QED
    BY <1>1, <1>2, <2>1
<1>11. CASE Ask
  <2>1. UNCHANGED reported /\ Goto("worker", "asked") /\ "asked" \in WorkerPc
    BY <1>11 DEF Ask, WorkerPc
  <2>2. held' \in Hand
    BY <1>11, HandTyped DEF Ask
  <2>3. QED
    BY <1>2, <2>1, <2>2
<1>12. CASE LoadSlot
  <2>1. UNCHANGED reported /\ \E label \in WorkerPc : Goto("worker", label)
    BY <1>12 DEF LoadSlot, WorkerPc
  <2>2. held' \in Hand
    <3>1. held.op \in DOMAIN control.slots => control.slots[held.op].approval \in Nat
      BY ControlFields, SlotTyped DEF Slot
    <3>2. QED
      BY <1>1, <1>12, <3>1, HandTyped DEF LoadSlot
  <2>3. QED
    BY <1>2, <2>1, <2>2
<1>13. CASE FindApproval
  <2>1. UNCHANGED reported /\ \E label \in WorkerPc : Goto("worker", label)
    BY <1>13 DEF FindApproval, WorkerPc
  <2>2. held' \in Hand
    <3>1. Candidates \subseteq Nat
      BY DEF Candidates, FilesTyped
    <3>2. QED
      BY <1>1, <1>13, <3>1, HandTyped DEF FindApproval
  <2>3. QED
    BY <1>2, <2>1, <2>2
<1>14. ASSUME NEW outcome \in Outcomes, EndWorker(outcome) PROVE PointsTyped'
  <2>1. UNCHANGED reported /\ Goto("worker", "ending") /\ "ending" \in WorkerPc
    BY <1>14 DEF EndWorker, WorkerPc
  <2>2. held' \in Hand
    BY <1>14, HandTyped DEF EndWorker
  <2>3. QED
    BY <1>2, <2>1, <2>2
<1>15. CASE SaveEnded
  <2>1. UNCHANGED reported /\ held' = NoAttempt /\ \E label \in WorkerPc : Goto("worker", label)
    BY <1>15 DEF SaveEnded, WorkerPc
  <2>2. QED
    BY <1>2, <2>1, HandTyped
<1>16. QED
  BY <1>3, <1>4, <1>5, <1>6, <1>7, <1>8, <1>9, <1>10, <1>11, <1>12, <1>13, <1>14, <1>15 DEF Worker

-----------------------------------------------------------------------------
(* Who writes the control state.                                             *)

ControlStep == OpenControl \/ PersistGrant \/ Revoke \/ Reconcile
                 \/ AuthorizeSlot \/ StartSlot \/ Finish

LEMMA ControlSteps == Protocol => ControlStep \/ UNCHANGED <<control, revoked>>
<1> SUFFICES ASSUME Protocol PROVE ControlStep \/ UNCHANGED <<control, revoked>>
  OBVIOUS
<1>1. ASSUME NEW t \in Threads, Store(t) PROVE UNCHANGED <<control, revoked>>
  BY <1>1 DEF Store, ReadRows, WriteRows, CountRun, disk, history
<1>2. CASE Caller
  <2>1. AuthorizeGeneration => UNCHANGED <<control, revoked>>
    BY DEF AuthorizeGeneration, disk, history
  <2>2. RegeneratePreview => UNCHANGED <<control, revoked>>
    BY DEF RegeneratePreview, disk, history
  <2>3. Execute => UNCHANGED <<control, revoked>>
    BY DEF Execute, disk, history
  <2>4. MarkStarted => UNCHANGED <<control, revoked>>
    BY DEF MarkStarted, disk, history
  <2>5. StartWorker => UNCHANGED <<control, revoked>>
    BY DEF StartWorker, disk, history
  <2>6. ReconcileGeneration => UNCHANGED <<control, revoked>>
    BY DEF ReconcileGeneration, disk, history
  <2>7. SaveReconciled => UNCHANGED <<control, revoked>>
    BY DEF SaveReconciled, disk, history
  <2>8. PauseOrStop => UNCHANGED <<control, revoked>>
    BY DEF PauseOrStop, disk, history
  <2>9. Resume => UNCHANGED <<control, revoked>>
    BY DEF Resume, disk, history
  <2>10. ClearOnResume => UNCHANGED <<control, revoked>>
    BY DEF ClearOnResume, disk, history
  <2>11. ListUnresolved => UNCHANGED <<control, revoked>>
    BY DEF ListUnresolved, disk, history
  <2>12. Resumed => UNCHANGED <<control, revoked>>
    BY DEF Resumed, disk, history
  <2>13. QED
    BY <1>2, <2>1, <2>2, <2>3, <2>4, <2>5, <2>6, <2>7, <2>8, <2>9, <2>10, <2>11, <2>12 DEF Caller, ControlStep
<1>3. CASE Worker
  <2>1. Ask => UNCHANGED <<control, revoked>>
    BY DEF Ask, disk, history
  <2>2. LoadSlot => UNCHANGED <<control, revoked>>
    BY DEF LoadSlot, disk, history
  <2>3. FindApproval => UNCHANGED <<control, revoked>>
    BY DEF FindApproval, disk, history
  <2>4. PrepareAttempt => UNCHANGED <<control, revoked>>
    BY DEF PrepareAttempt, disk, history
  <2>5. AuthorizeAttempt => UNCHANGED <<control, revoked>>
    BY DEF AuthorizeAttempt, disk, history
  <2>6. StartAttempt => UNCHANGED <<control, revoked>>
    BY DEF StartAttempt, disk, history
  <2>7. Launch => UNCHANGED <<control, revoked>>
    BY DEF Launch, disk, history
  <2>8. SaveEnded => UNCHANGED <<control, revoked>>
    BY DEF SaveEnded, disk, history
  <2>9. ClearRequest => UNCHANGED <<control, revoked>>
    BY DEF ClearRequest, disk, history
  <2>10. \A outcome \in Outcomes : EndWorker(outcome) => UNCHANGED <<control, revoked>>
    BY DEF EndWorker, disk, history
  <2>11. QED
    BY <1>3, <2>1, <2>2, <2>3, <2>4, <2>5, <2>6, <2>7, <2>8, <2>9, <2>10 DEF Worker, ControlStep
<1>4. CASE Expire
  BY <1>4 DEF Expire, disk, history
<1>5. CASE Crash
  BY <1>5 DEF Crash, disk, history
<1>6. QED
  BY <1>1, <1>2, <1>3, <1>4, <1>5 DEF Protocol

\* Each of them with what it leaves behind.
Opens ==
    OpenControl /\ api = "slots" /\ control' = Opened /\ revoked' = revoked
Grants ==
    /\ PersistGrant /\ api = "slots" /\ control.open
    /\ control' = Granted /\ revoked' = revoked
    /\ \A s \in DOMAIN control.slots : control.slots[s].status = "available"
Revokes ==
    Revoke /\ api = "slots" /\ control' = Invalidated(control) /\ revoked' = Len(control.grants)
Reconciles ==
    Reconcile /\ api = "slots" /\ control' = Reconciled /\ revoked' = Len(control.grants)
Authorizes ==
    /\ AuthorizeSlot /\ api = "slots"
    /\ at["worker"] = "loaded" /\ Goto("worker", "authorized") /\ held' = held
    /\ held.op \in DOMAIN control.slots /\ held.approval \in 1..Len(control.grants)
    /\ Usable(held.approval) /\ RunsLeft
    /\ control.slots[held.op].status = "available"
    /\ control.grants[held.approval].authorized < Cap
    /\ control' = AuthorizedSlot(held.op, held.approval) /\ revoked' = revoked
Starts ==
    /\ StartSlot /\ api = "slots"
    /\ at["worker"] = "authorized" /\ Goto("worker", "launching") /\ held' = held
    /\ held.op \in DOMAIN control.slots
    /\ control.slots[held.op].status = "authorized"
    /\ control' = StartedSlot(held.op) /\ revoked' = revoked
Ends ==
    /\ Finish /\ api = "slots"
    /\ at["worker"] = "launched" /\ Goto("worker", "run") /\ held' = held
    /\ held.op \in DOMAIN control.slots
    /\ (\E end \in EndStatus : control' = EndedSlot(held.op, end)) /\ revoked' = revoked

ControlWritten == Opens \/ Grants \/ Revokes \/ Reconciles \/ Authorizes \/ Starts \/ Ends

LEMMA ControlWrites ==
    LedgerInv /\ ControlStep => ControlWritten \/ UNCHANGED <<control, revoked>>
<1> SUFFICES ASSUME LedgerInv, ControlStep PROVE ControlWritten \/ UNCHANGED <<control, revoked>>
  OBVIOUS
<1>1. /\ api \in {"slots", "attempts"}
      /\ at["caller"] \in {"granting", "revoking", "reconciling"} => api = "slots" /\ control.open
      /\ at["worker"] = "loaded" => api = "slots"
  BY DEF LedgerInv, Types, Positions
<1>2. api = "slots" /\ at["worker"] \in {"loaded", "authorized", "launched"} =>
        held.op \in DOMAIN control.slots /\ held.approval \in 1..Len(control.grants)
  BY DEF LedgerInv, SlotInHand
<1>3. CASE OpenControl
  BY <1>3 DEF OpenControl, Commit, history, ControlWritten, Opens
<1>4. CASE PersistGrant
  BY <1>1, <1>4 DEF PersistGrant, Commit, Here, history, ControlWritten, Grants
<1>5. CASE Revoke
  BY <1>1, <1>5 DEF Revoke, Commit, Here, ControlWritten, Revokes
<1>6. CASE Reconcile
  BY <1>1, <1>6 DEF Reconcile, Commit, Here, ControlWritten, Reconciles
<1>7. CASE AuthorizeSlot
  BY <1>1, <1>2, <1>7 DEF AuthorizeSlot, AuthorizedSlot, Commit, Here, history, ControlWritten, Authorizes
<1>8. CASE StartSlot
  BY <1>1, <1>2, <1>8 DEF StartSlot, StartedSlot, Commit, Here, history, ControlWritten, Starts
<1>9. CASE Finish
  BY <1>1, <1>2, <1>9 DEF Finish, EndedSlot, Commit, Here, history, ControlWritten, Ends
<1>10. QED
  BY <1>3, <1>4, <1>5, <1>6, <1>7, <1>8, <1>9 DEF ControlStep

LEMMA ControlWrittenKept == LedgerInv /\ ControlWritten => control' \in Control /\ ControlOK'
<1> SUFFICES ASSUME LedgerInv, ControlWritten PROVE control' \in Control /\ ControlOK'
  OBVIOUS
<1>1. /\ control \in Control /\ revoked \in Nat
      /\ DOMAIN control.ops = DOMAIN control.slots
      /\ ~control.open => DOMAIN control.slots = {}
      /\ revoked <= Len(control.grants)
      /\ \A g \in 1..revoked : ~control.grants[g].valid
      /\ \A s \in DOMAIN control.slots : control.slots[s].approval <= Len(control.grants)
  BY DEF LedgerInv, Types, FilesTyped, ControlOK
<1>2. Len(control.grants) \in Nat
  BY <1>1, ControlFields
<1>3. CASE Opens
  BY <1>1, <1>3, OpenedControl DEF Opens, ControlOK
<1>4. CASE Grants
  <2>1. control' = Granted /\ revoked' = revoked /\ control.open
    BY <1>4 DEF Grants
  <2>2. control' \in Control
    BY <1>1, <2>1, GrantedControl
  <2>3. /\ DOMAIN control'.ops = DOMAIN control'.slots
        /\ ~control'.open => DOMAIN control'.slots = {}
    BY <1>1, <2>1, GrantedControl
  <2>4. Len(control'.grants) = Len(control.grants) + 1
    BY <1>1, <2>1, GrantedControl
  <2>5. \A g \in 1..revoked : ~control'.grants[g].valid
    <3>1. \A g \in 1..revoked : g \in 1..Len(control.grants)
      BY <1>1, <1>2
    <3>2. QED
      BY <1>1, <2>1, <3>1, GrantedControl
  <2>6. \A s \in DOMAIN control'.slots : control'.slots[s].approval <= Len(control'.grants)
    BY <1>1, <1>2, <2>1, <2>4, GrantedControl
  <2>7. QED
    BY <1>1, <1>2, <2>1, <2>2, <2>3, <2>4, <2>5, <2>6 DEF ControlOK
<1>5. CASE Revokes
  <2>1. control' = Invalidated(control) /\ revoked' = Len(control.grants)
    BY <1>5 DEF Revokes
  <2>2. QED
    BY <1>1, <1>2, <2>1, InvalidatedControl, InvalidatedGrants DEF ControlOK
<1>6. CASE Reconciles
  <2>1. control' = Reconciled /\ revoked' = Len(control.grants)
    BY <1>6 DEF Reconciles
  <2>2. control' \in Control /\ control'.grants = NoneLeft /\ control'.slots = BackSlots
    BY <1>1, <2>1, ReconciledControl
  <2>3. /\ DOMAIN control'.ops = DOMAIN control'.slots
        /\ ~control'.open => DOMAIN control'.slots = {}
    BY <1>1, <2>1, ReconciledControl
  <2>4. \A s \in DOMAIN BackSlots : BackSlots[s].approval <= Len(control.grants)
    BY <1>1, <1>2, ReconciledControl
  <2>5. Len(NoneLeft) = Len(control.grants)
          /\ \A g \in 1..Len(control.grants) : ~NoneLeft[g].valid
    BY <1>1, InvalidatedGrants
  <2>6. QED
    BY <1>1, <1>2, <2>1, <2>2, <2>3, <2>4, <2>5 DEF ControlOK
<1>7. CASE Authorizes
  <2>1. /\ held.op \in DOMAIN control.slots /\ held.approval \in 1..Len(control.grants)
        /\ control.grants[held.approval].authorized < Cap
        /\ control' = AuthorizedSlot(held.op, held.approval) /\ revoked' = revoked
    BY <1>7 DEF Authorizes
  <2>2. control' \in Control
    BY <1>1, <2>1, AuthorizedControl
  <2>3. /\ DOMAIN control'.ops = DOMAIN control'.slots
        /\ ~control'.open => DOMAIN control'.slots = {}
    BY <1>1, <2>1, AuthorizedControl
  <2>4. /\ Len(control'.grants) = Len(control.grants)
        /\ \A g \in 1..Len(control.grants) : control'.grants[g].valid = control.grants[g].valid
    BY <1>1, <2>1, AuthorizedControl
  <2>5. \A s \in DOMAIN control'.slots : control'.slots[s].approval <= Len(control'.grants)
    BY <1>1, <1>2, <2>1, AuthorizedControl
  <2>6. QED
    BY <1>1, <1>2, <2>1, <2>2, <2>3, <2>4, <2>5 DEF ControlOK
<1>8. CASE Starts
  <2>1. held.op \in DOMAIN control.slots /\ control' = StartedSlot(held.op) /\ revoked' = revoked
    BY <1>8 DEF Starts
  <2>2. control' \in Control /\ control'.grants = control.grants
          /\ DOMAIN control'.ops = DOMAIN control'.slots
          /\ (~control'.open => DOMAIN control'.slots = {})
    BY <1>1, <2>1, StartedControl
  <2>3. \A s \in DOMAIN control'.slots : control'.slots[s].approval = control.slots[s].approval
          /\ s \in DOMAIN control.slots
    BY <1>1, <2>1, StartedControl
  <2>4. QED
    BY <1>1, <2>1, <2>2, <2>3 DEF ControlOK
<1>9. CASE Ends
  <2>1. PICK end \in EndStatus : control' = EndedSlot(held.op, end)
    BY <1>9 DEF Ends
  <2>2. held.op \in DOMAIN control.slots /\ revoked' = revoked
    BY <1>9 DEF Ends
  <2>3. control' \in Control /\ control'.grants = control.grants
          /\ DOMAIN control'.ops = DOMAIN control'.slots
          /\ (~control'.open => DOMAIN control'.slots = {})
    BY <1>1, <2>1, <2>2, EndedControl
  <2>4. \A s \in DOMAIN control'.slots : control'.slots[s].approval = control.slots[s].approval
          /\ s \in DOMAIN control.slots
    BY <1>1, <2>1, <2>2, EndedControl
  <2>5. QED
    BY <1>1, <2>2, <2>3, <2>4 DEF ControlOK
<1>10. QED
  BY <1>3, <1>4, <1>5, <1>6, <1>7, <1>8, <1>9 DEF ControlWritten

LEMMA ControlKept == LedgerInv /\ [Protocol]_kept => control' \in Control /\ ControlOK'
<1> SUFFICES ASSUME LedgerInv, [Protocol]_kept PROVE control' \in Control /\ ControlOK'
  OBVIOUS
<1>1. CASE UNCHANGED <<control, revoked>>
  BY <1>1 DEF LedgerInv, Types, ControlOK
<1>2. CASE ControlWritten
  BY <1>2, ControlWrittenKept
<1>3. QED
  BY <1>1, <1>2, ControlSteps, ControlWrites DEF kept, disk, history

-----------------------------------------------------------------------------
(* Who owes writes.                                                          *)

\* What a thread may come to owe: under the lock if it says so, of a Worker's
\* operation no earlier status, and in a Campaign of single attempts never the
\* row of one that was launched.
OwedBy(t) ==
    \E update \in Rows, locked \in BOOLEAN, counts \in BOOLEAN :
      /\ Owe(t, update, locked, counts)
      /\ Ready(t)
      /\ locked => Enter(t)
      /\ counts => Starts /\ t = "worker"
      /\ api = "attempts" => DOMAIN update \cap Launched = {}
      /\ \A op \in DOMAIN update \cap Begun : update[op] \in Used

Stored == \E t \in Threads : Store(t)

\* The operation of a Worker is no attempt.
LEMMA RunRow ==
    ASSUME NEW run \in Range(Runs), NEW status \in OpStatus, LedgerInv,
           run \in Begun => status \in Used
    PROVE  /\ [o \in {run} |-> status] \in Rows
           /\ \A op \in DOMAIN [o \in {run} |-> status] \cap Begun :
                [o \in {run} |-> status][op] \in Used
           /\ api = "attempts" => DOMAIN [o \in {run} |-> status] \cap Launched = {}
<1>1. run \in Ops
  BY DEF Ops
<1>2. api = "attempts" => Launched \subseteq Attempts
  BY DEF LedgerInv, AttemptsRecorded, Recorded
<1>3. run \notin Attempts
  BY LedgerAssumption
<1>4. QED
  BY <1>1, <1>2, <1>3, RowTyped

LEMMA RunsInRange ==
    ASSUME LedgerInv
    PROVE  /\ Len(workers) < Len(Runs) => NextRun \in Range(Runs) /\ NextRun \notin Begun
           /\ workers # <<>> => LastRun \in Range(Runs) /\ LastRun \in Begun
           /\ Begun \subseteq Range(Runs) /\ Begun \cap (Slots \cup Attempts) = {}
<1>1. Len(workers) \in Nat /\ Len(workers) <= Len(Runs) /\ (workers # <<>> => Len(workers) # 0)
  BY DEF LedgerInv, Types, FilesTyped, Positions
<1>2. Runs \in Seq(Range(Runs)) /\ Len(Runs) \in Nat /\ DOMAIN Runs = 1..Len(Runs)
  BY LedgerAssumption
<1>3. \A e, f \in 1..Len(Runs) : Runs[e] = Runs[f] => e = f
  BY <1>2, LedgerAssumption DEF IsInjective
<1>4. \A e \in 1..Len(workers) : e \in 1..Len(Runs) /\ Runs[e] \in Range(Runs)
  BY <1>1, <1>2
<1>5. Begun \subseteq Range(Runs)
  BY <1>4 DEF Begun
<1>6. ASSUME Len(workers) < Len(Runs) PROVE NextRun \in Range(Runs) /\ NextRun \notin Begun
  <2>1. Len(workers) + 1 \in 1..Len(Runs) /\ Len(workers) + 1 \notin 1..Len(workers)
    BY <1>1, <1>2, <1>6
  <2>2. QED
    BY <1>2, <1>3, <1>4, <2>1 DEF NextRun, Begun
<1>7. ASSUME workers # <<>> PROVE LastRun \in Range(Runs) /\ LastRun \in Begun
  <2>1. Len(workers) \in 1..Len(workers)
    BY <1>1, <1>7
  <2>2. QED
    BY <1>4, <2>1 DEF LastRun, Begun
<1>8. QED
  BY <1>5, <1>6, <1>7, LedgerAssumption

LEMMA RunOwes ==
    ASSUME LedgerInv, NEW t \in Threads, NEW run \in Range(Runs), NEW status \in OpStatus,
           NEW locked \in BOOLEAN, run \in Begun => status \in Used,
           Owe(t, [o \in {run} |-> status], locked, FALSE), Ready(t), locked => Enter(t)
    PROVE  OwedBy(t)
<1> DEFINE row == [o \in {run} |-> status]
<1>1. /\ row \in Rows /\ FALSE \in BOOLEAN
      /\ \A op \in DOMAIN row \cap Begun : row[op] \in Used
      /\ api = "attempts" => DOMAIN row \cap Launched = {}
  BY RunRow
<1>2. Owe(t, row, locked, FALSE)
  OBVIOUS
<1> HIDE DEF row
<1>3. QED
  BY <1>1, <1>2 DEF OwedBy

\* A commit of the control state.
LEMMA CommitOwes ==
    ASSUME LedgerInv, NEW t \in Threads, NEW new \in Control, NEW counts \in BOOLEAN,
           Commit(t, new, counts), Ready(t), Enter(t),
           counts => Starts /\ t = "worker", api = "slots",
           DOMAIN new.ops = DOMAIN new.slots
    PROVE  OwedBy(t)
<1>1. new.ops \in Rows /\ TRUE \in BOOLEAN /\ DOMAIN new.ops \cap Begun = {}
  <2>1. DOMAIN new.ops \subseteq Slots /\ new.ops \in Rows
    BY DEF Control
  <2>2. QED
    BY <2>1, RunsInRange
<1>2. Owe(t, new.ops, TRUE, counts)
  BY DEF Commit, RowsOf
<1>3. QED
  BY <1>1, <1>2 DEF OwedBy

LEMMA CallerOwes == LedgerInv /\ Caller => UNCHANGED job \/ OwedBy("caller")
<1> SUFFICES ASSUME LedgerInv, Caller PROVE UNCHANGED job \/ OwedBy("caller")
  OBVIOUS
<1>1. "caller" \in Threads /\ TRUE \in BOOLEAN /\ FALSE \in BOOLEAN /\ "prepared" \in OpStatus
        /\ "started" \in OpStatus /\ "unknown" \in OpStatus
  BY DEF Threads, OpStatus
<1>2. /\ control \in Control /\ DOMAIN control.ops = DOMAIN control.slots
      /\ DOMAIN control'.ops = DOMAIN control'.slots
  BY ControlKept DEF LedgerInv, Types, ControlOK, Protocol
<1>3. CASE OpenControl
  <2>1. UNCHANGED job \/ (Commit("caller", Opened, FALSE) /\ Ready("caller") /\ Enter("caller")
                            /\ api = "slots" /\ control' = Opened)
    BY <1>3 DEF Commit, OpenControl, Here
  <2>2. QED
    BY <1>1, <1>2, <2>1, OpenedControl, CommitOwes
<1>4. CASE PersistGrant
  <2>1. UNCHANGED job \/ (Commit("caller", Granted, FALSE) /\ Ready("caller") /\ Enter("caller")
                            /\ api = "slots" /\ control' = Granted)
    BY <1>4 DEF Commit, PersistGrant, Here, LedgerInv, Types, Positions
  <2>2. QED
    BY <1>1, <1>2, <2>1, GrantedControl, CommitOwes
<1>5. CASE Revoke
  <2>1. Commit("caller", Invalidated(control), FALSE) /\ Ready("caller") /\ Enter("caller")
          /\ api = "slots" /\ control' = Invalidated(control)
    BY <1>5 DEF Commit, Revoke, Here, LedgerInv, Types, Positions
  <2>2. QED
    BY <1>1, <1>2, <2>1, InvalidatedControl, CommitOwes
<1>6. CASE Reconcile
  <2>1. Commit("caller", Reconciled, FALSE) /\ Ready("caller") /\ Enter("caller")
          /\ api = "slots" /\ control' = Reconciled
    BY <1>6 DEF Commit, Reconcile, Here, LedgerInv, Types, Positions
  <2>2. QED
    BY <1>1, <1>2, <2>1, ReconciledControl, CommitOwes
<1>7. CASE Execute
  <2>1. UNCHANGED job \/ Record("caller", NextRun, "prepared")
    BY <1>7 DEF Execute
  <2>2. Len(workers) < Len(Runs) /\ Ready("caller") /\ Enter("caller")
    BY <1>7 DEF Execute, Here
  <2>3. QED
    BY <1>1, <2>1, <2>2, RunsInRange, RunOwes DEF Record, Used
<1>8. CASE MarkStarted
  <2>1. Mark("caller", NextRun, "started") /\ Ready("caller") /\ at["caller"] = "starting"
    BY <1>8 DEF MarkStarted, Here
  <2>2. Len(workers) < Len(Runs)
    BY <2>1 DEF LedgerInv, Positions
  <2>3. QED
    BY <1>1, <2>1, <2>2, RunsInRange, RunOwes DEF Mark, Used
<1>9. CASE ReconcileGeneration
  <2>1. UNCHANGED job \/ Mark("caller", LastRun, "unknown")
    BY <1>9 DEF ReconcileGeneration
  <2>2. workers # <<>> /\ Ready("caller")
    BY <1>9 DEF ReconcileGeneration, Here
  <2>3. QED
    BY <1>1, <2>1, <2>2, RunsInRange, RunOwes DEF Mark, Used
<1>10. AuthorizeGeneration => UNCHANGED job
  BY DEF AuthorizeGeneration
<1>11. RegeneratePreview => UNCHANGED job
  BY DEF RegeneratePreview
<1>12. StartWorker => UNCHANGED job
  BY DEF StartWorker
<1>13. SaveReconciled => UNCHANGED job
  BY DEF SaveReconciled
<1>14. PauseOrStop => UNCHANGED job
  BY DEF PauseOrStop
<1>15. Resume => UNCHANGED job
  BY DEF Resume
<1>16. ClearOnResume => UNCHANGED job
  BY DEF ClearOnResume
<1>17. ListUnresolved => UNCHANGED job
  BY DEF ListUnresolved
<1>18. Resumed => UNCHANGED job
  BY DEF Resumed
<1>19. QED
  BY <1>3, <1>4, <1>5, <1>6, <1>7, <1>8, <1>9, <1>10, <1>11, <1>12, <1>13, <1>14, <1>15, <1>16, <1>17, <1>18 DEF Caller

LEMMA WorkerOwes == LedgerInv /\ Worker => UNCHANGED job \/ OwedBy("worker")
<1> SUFFICES ASSUME LedgerInv, Worker PROVE UNCHANGED job \/ OwedBy("worker")
  OBVIOUS
<1>1. "worker" \in Threads /\ TRUE \in BOOLEAN /\ FALSE \in BOOLEAN
        /\ "prepared" \in OpStatus /\ "authorized" \in OpStatus /\ "started" \in OpStatus
  BY DEF Threads, OpStatus
<1>2. /\ control \in Control /\ DOMAIN control.ops = DOMAIN control.slots
      /\ DOMAIN control'.ops = DOMAIN control'.slots
  BY ControlKept DEF LedgerInv, Types, ControlOK, Protocol
<1>3. api \in {"slots", "attempts"} /\ launches \in [Slots \cup Attempts -> Seq(Nat)]
  BY DEF LedgerInv, Types, FilesTyped
<1>4. ASSUME ControlWritten PROVE control' \in Control
  BY <1>4, ControlWrittenKept
<1>5. CASE AuthorizeSlot
  <2>1. UNCHANGED job \/ (Commit("worker", control', FALSE) /\ Ready("worker") /\ Enter("worker"))
    BY <1>5 DEF AuthorizeSlot, Here, Commit
  <2>2. api = "slots"
    BY <1>3, <1>5 DEF AuthorizeSlot, Here, LedgerInv, Positions
  <2>3. control' \in Control
    BY <1>2, <1>4, <1>5, ControlWrites DEF ControlStep
  <2>4. QED
    BY <1>1, <1>2, <2>1, <2>2, <2>3, CommitOwes
<1>6. CASE StartSlot
  <2>1. UNCHANGED job \/ (Commit("worker", control', TRUE) /\ Ready("worker") /\ Enter("worker")
                            /\ control.slots[held.op].status = "authorized")
    BY <1>6 DEF StartSlot, Here, Commit
  <2>2. api = "slots" /\ at["worker"] = "authorized"
    BY <1>6 DEF StartSlot, Here
  <2>3. held.op \in DOMAIN control.slots
    BY <2>2 DEF LedgerInv, SlotInHand
  <2>4. CASE UNCHANGED job
    BY <2>4
  <2>5. CASE job' # job
    <3>1. Starts
      BY <1>6, <2>2, <2>3, <2>5 DEF StartSlot, Starts, StartedSlot, Commit, Here, history
    <3>2. control' \in Control
      BY <1>4, <3>1 DEF ControlWritten
    <3>3. QED
      BY <1>1, <1>2, <2>1, <2>2, <2>5, <3>1, <3>2, CommitOwes
  <2>6. QED
    BY <2>4, <2>5
<1>7. CASE Finish
  <2>1. UNCHANGED job \/ (Commit("worker", control', FALSE) /\ Ready("worker") /\ Enter("worker")
                            /\ api = "slots")
    BY <1>7 DEF Finish, Here, Commit
  <2>2. control' \in Control
    BY <1>2, <1>4, <1>7, ControlWrites DEF ControlStep
  <2>3. QED
    BY <1>1, <1>2, <2>1, <2>2, CommitOwes
<1>8. ASSUME at["worker"] \notin {"none", "run", "ending", "closing"}
      PROVE  held.op \in Slots \cup Attempts
  BY <1>8 DEF LedgerInv, Positions, AsksFor
<1>9. ASSUME NEW status \in OpStatus, held.op \in Slots \cup Attempts, held.op \notin Launched \/ api # "attempts",
             Record("worker", held.op, status), Ready("worker"), Enter("worker")
      PROVE  OwedBy("worker")
  <2> DEFINE row == [o \in {held.op} |-> status]
  <2>1. row \in Rows /\ (api = "attempts" => DOMAIN row \cap Launched = {})
          /\ DOMAIN row \cap Begun = {}
    BY <1>9, RowTyped, RunsInRange DEF Ops
  <2>2. Owe("worker", row, TRUE, FALSE)
    BY <1>9 DEF Record
  <2> HIDE DEF row
  <2>3. QED
    BY <1>1, <1>9, <2>1, <2>2 DEF OwedBy
<1>10. \A op \in Launched : api = "attempts" => op \in DOMAIN ledger /\ ledger[op] = "started"
  BY DEF LedgerInv, AttemptsRecorded, Recorded
<1>11. CASE PrepareAttempt
  <2>1. /\ at["worker"] = "found" /\ Ready("worker") /\ Enter("worker")
        /\ UNCHANGED job \/ (held.op \notin DOMAIN ledger /\ Record("worker", held.op, "prepared"))
    BY <1>11 DEF PrepareAttempt, Here
  <2>2. QED
    BY <1>1, <1>8, <1>9, <1>10, <2>1
<1>12. CASE AuthorizeAttempt
  <2>1. /\ at["worker"] = "prepared" /\ Ready("worker") /\ Enter("worker")
        /\ UNCHANGED job \/ (/\ ledger[held.op] \in {"prepared", "authorized"}
                             /\ Record("worker", held.op, "authorized"))
    BY <1>12 DEF AuthorizeAttempt, Here
  <2>2. QED
    BY <1>1, <1>8, <1>9, <1>10, <2>1
<1>13. CASE StartAttempt
  <2>1. /\ at["worker"] = "authorized" /\ Ready("worker") /\ Enter("worker")
        /\ ledger[held.op] = "authorized" /\ Record("worker", held.op, "started")
    BY <1>13 DEF StartAttempt, Here
  <2>2. QED
    BY <1>1, <1>8, <1>9, <1>10, <2>1
<1>14. ASSUME NEW outcome \in Outcomes, EndWorker(outcome)
       PROVE  UNCHANGED job \/ OwedBy("worker")
  <2>1. /\ UNCHANGED job \/ Mark("worker", LastRun, RowOf(outcome))
        /\ Ready("worker") /\ at["worker"] # "none"
    BY <1>14 DEF EndWorker
  <2>2. workers # <<>>
    BY <2>1 DEF LedgerInv, Positions
  <2>3. RowOf(outcome) \in OpStatus /\ RowOf(outcome) \in Used
    BY DEF RowOf, OpStatus, Used
  <2>4. QED
    BY <1>1, <2>1, <2>2, <2>3, RunsInRange, RunOwes DEF Mark, Used
<1>15. Ask => UNCHANGED job
  BY DEF Ask
<1>16. LoadSlot => UNCHANGED job
  BY DEF LoadSlot
<1>17. FindApproval => UNCHANGED job
  BY DEF FindApproval
<1>18. Launch => UNCHANGED job
  BY DEF Launch
<1>19. SaveEnded => UNCHANGED job
  BY DEF SaveEnded
<1>20. ClearRequest => UNCHANGED job
  BY DEF ClearRequest
<1>21. QED
  BY <1>5, <1>6, <1>7, <1>11, <1>12, <1>13, <1>14, <1>15, <1>16, <1>17, <1>18, <1>19, <1>20 DEF Worker

LEMMA JobSteps ==
    LedgerInv /\ Protocol => UNCHANGED job \/ OwedBy("caller") \/ OwedBy("worker") \/ Stored \/ Crash
<1>1. Expire => UNCHANGED job
  BY DEF Expire
<1>2. QED
  BY <1>1, CallerOwes, WorkerOwes DEF Protocol, Stored


LEMMA StoreTyped ==
    LedgerInv /\ Stored =>
      \E t \in Threads :
        /\ Store(t) /\ job' \in [Threads -> Job] /\ UNCHANGED <<at, held, reported>>
        /\ \A u \in Threads \ {t} : job'[u] = job[u]
        /\ job[t].step # "none"
        /\ job'[t].locked => job[t].locked
        /\ job'[t].counts => job[t].counts
        /\ job'[t].step = "count" => job'[t].counts
        /\ job'[t].step = "none" => job'[t] = NoJob
<1> SUFFICES ASSUME LedgerInv, NEW t \in Threads, Store(t)
             PROVE  /\ job' \in [Threads -> Job] /\ UNCHANGED <<at, held, reported>>
                    /\ \A u \in Threads \ {t} : job'[u] = job[u]
                    /\ job[t].step # "none"
                    /\ job'[t].locked => job[t].locked
                    /\ job'[t].counts => job[t].counts
                    /\ job'[t].step = "count" => job'[t].counts
                    /\ job'[t].step = "none" => job'[t] = NoJob
  BY DEF Stored
<1>1. job \in [Threads -> Job] /\ job[t] \in Job /\ ledger \in Rows
  BY DEF LedgerInv, Types, FilesTyped
<1>2. CASE ReadRows(t)
  <2> DEFINE rows == Over(job[t].update, ledger)
             next == [job[t] EXCEPT !.step = "write", !.rows = rows]
  <2>1. rows \in Rows
    <3>1. job[t].update \in Rows
      BY <1>1 DEF Job
    <3>2. QED
      BY <1>1, <3>1, OverRows
  <2>2. job[t].step = "read" /\ UNCHANGED <<at, held, reported>>
    BY <1>2 DEF ReadRows
  <2>3. job' = [job EXCEPT ![t] = next]
    BY <1>2 DEF ReadRows
  <2> HIDE DEF rows
  <2>4. next \in Job /\ next.step = "write"
    BY <1>1, <2>1 DEF Job
  <2>5. next.locked = job[t].locked /\ next.counts = job[t].counts
    BY <1>1, <2>1 DEF Job
  <2> HIDE DEF next
  <2>6. job' \in [Threads -> Job] /\ job'[t] = next /\ \A u \in Threads \ {t} : job'[u] = job[u]
    BY <1>1, <2>3, <2>4
  <2>7. QED
    BY <2>2, <2>4, <2>5, <2>6
<1>3. CASE WriteRows(t)
  <2> DEFINE next == IF job[t].counts THEN [job[t] EXCEPT !.step = "count"] ELSE NoJob
  <2>1. job[t].step = "write" /\ UNCHANGED <<at, held, reported>>
    BY <1>3 DEF WriteRows
  <2>2. job' = [job EXCEPT ![t] = next]
    BY <1>3 DEF WriteRows
  <2>3. CASE job[t].counts
    <3>1. next = [job[t] EXCEPT !.step = "count"]
      BY <2>3
    <3>2. next \in Job /\ next.step = "count"
      BY <1>1, <3>1 DEF Job
    <3>3. next.locked = job[t].locked /\ next.counts = job[t].counts
      BY <1>1, <3>1 DEF Job
    <3> HIDE DEF next
    <3>4. job' \in [Threads -> Job] /\ job'[t] = next /\ \A u \in Threads \ {t} : job'[u] = job[u]
      BY <1>1, <2>2, <3>2
    <3>5. QED
      BY <2>1, <2>3, <3>2, <3>3, <3>4
  <2>4. CASE ~job[t].counts
    <3>1. next = NoJob
      BY <2>4
    <3> HIDE DEF next
    <3>2. job' \in [Threads -> Job] /\ job'[t] = NoJob /\ \A u \in Threads \ {t} : job'[u] = job[u]
      BY <1>1, <2>2, <3>1, NothingTyped
    <3>3. QED
      BY <2>1, <3>2, ThreadsAre
  <2>5. QED
    BY <2>3, <2>4
<1>4. CASE CountRun(t)
  <2>1. job[t].step = "count" /\ UNCHANGED <<at, held, reported>> /\ job' = [job EXCEPT ![t] = NoJob]
    BY <1>4 DEF CountRun
  <2>2. job' \in [Threads -> Job] /\ job'[t] = NoJob /\ \A u \in Threads \ {t} : job'[u] = job[u]
    BY <1>1, <2>1, NothingTyped
  <2>3. QED
    BY <2>1, <2>2, ThreadsAre
<1>5. QED
  BY <1>2, <1>3, <1>4 DEF Store

LEMMA WorkerMoves ==
    LedgerInv /\ Worker =>
      /\ Ready("worker") /\ at["worker"] # "none" /\ at'["caller"] = at["caller"]
      /\ at'["worker"] = "none" => UNCHANGED job
<1> SUFFICES ASSUME LedgerInv, Worker
             PROVE  /\ Ready("worker") /\ at["worker"] # "none" /\ at'["caller"] = at["caller"]
                    /\ at'["worker"] = "none" => UNCHANGED job
  OBVIOUS
<1>1. at \in Pc
  BY DEF LedgerInv, Types, PointsTyped
<1>2. CASE Ask
  <2>1. /\ Ready("worker") /\ at["worker"] # "none"
        /\ \E label \in WorkerPc : Goto("worker", label) /\ (label = "none" => UNCHANGED job)
    BY <1>2 DEF Ask, Here, WorkerPc
  <2>2. QED
    BY <1>1, <2>1, GoWorker
<1>3. CASE LoadSlot
  <2>1. /\ Ready("worker") /\ at["worker"] # "none"
        /\ \E label \in WorkerPc : Goto("worker", label) /\ (label = "none" => UNCHANGED job)
    BY <1>3 DEF LoadSlot, Here, WorkerPc
  <2>2. QED
    BY <1>1, <2>1, GoWorker
<1>4. CASE AuthorizeSlot
  <2>1. /\ Ready("worker") /\ at["worker"] # "none"
        /\ \E label \in WorkerPc : Goto("worker", label) /\ (label = "none" => UNCHANGED job)
    BY <1>4 DEF AuthorizeSlot, Here, WorkerPc
  <2>2. QED
    BY <1>1, <2>1, GoWorker
<1>5. CASE StartSlot
  <2>1. /\ Ready("worker") /\ at["worker"] # "none"
        /\ \E label \in WorkerPc : Goto("worker", label) /\ (label = "none" => UNCHANGED job)
    BY <1>5 DEF StartSlot, Here, WorkerPc
  <2>2. QED
    BY <1>1, <2>1, GoWorker
<1>6. CASE FindApproval
  <2>1. /\ Ready("worker") /\ at["worker"] # "none"
        /\ \E label \in WorkerPc : Goto("worker", label) /\ (label = "none" => UNCHANGED job)
    BY <1>6 DEF FindApproval, Here, WorkerPc
  <2>2. QED
    BY <1>1, <2>1, GoWorker
<1>7. CASE PrepareAttempt
  <2>1. /\ Ready("worker") /\ at["worker"] # "none"
        /\ \E label \in WorkerPc : Goto("worker", label) /\ (label = "none" => UNCHANGED job)
    BY <1>7 DEF PrepareAttempt, Here, WorkerPc
  <2>2. QED
    BY <1>1, <2>1, GoWorker
<1>8. CASE AuthorizeAttempt
  <2>1. /\ Ready("worker") /\ at["worker"] # "none"
        /\ \E label \in WorkerPc : Goto("worker", label) /\ (label = "none" => UNCHANGED job)
    BY <1>8 DEF AuthorizeAttempt, Here, WorkerPc
  <2>2. QED
    BY <1>1, <2>1, GoWorker
<1>9. CASE StartAttempt
  <2>1. /\ Ready("worker") /\ at["worker"] # "none"
        /\ \E label \in WorkerPc : Goto("worker", label) /\ (label = "none" => UNCHANGED job)
    BY <1>9 DEF StartAttempt, Here, WorkerPc
  <2>2. QED
    BY <1>1, <2>1, GoWorker
<1>10. CASE Launch
  <2>1. /\ Ready("worker") /\ at["worker"] # "none"
        /\ \E label \in WorkerPc : Goto("worker", label) /\ (label = "none" => UNCHANGED job)
    BY <1>10 DEF Launch, Here, WorkerPc
  <2>2. QED
    BY <1>1, <2>1, GoWorker
<1>11. CASE Finish
  <2>1. /\ Ready("worker") /\ at["worker"] # "none"
        /\ \E label \in WorkerPc : Goto("worker", label) /\ (label = "none" => UNCHANGED job)
    BY <1>11 DEF Finish, Here, WorkerPc
  <2>2. QED
    BY <1>1, <2>1, GoWorker
<1>12. CASE SaveEnded
  <2>1. /\ Ready("worker") /\ at["worker"] # "none"
        /\ \E label \in WorkerPc : Goto("worker", label) /\ (label = "none" => UNCHANGED job)
    BY <1>12 DEF SaveEnded, Here, WorkerPc
  <2>2. QED
    BY <1>1, <2>1, GoWorker
<1>13. CASE ClearRequest
  <2>1. /\ Ready("worker") /\ at["worker"] # "none"
        /\ \E label \in WorkerPc : Goto("worker", label) /\ (label = "none" => UNCHANGED job)
    BY <1>13 DEF ClearRequest, Here, WorkerPc
  <2>2. QED
    BY <1>1, <2>1, GoWorker
<1>14. ASSUME NEW outcome \in Outcomes, EndWorker(outcome)
       PROVE  /\ Ready("worker") /\ at["worker"] # "none" /\ at'["caller"] = at["caller"]
              /\ at'["worker"] = "none" => UNCHANGED job
  <2>1. /\ Ready("worker") /\ at["worker"] # "none"
        /\ Goto("worker", "ending") /\ "ending" \in WorkerPc
    BY <1>14 DEF EndWorker, WorkerPc
  <2>2. QED
    BY <1>1, <2>1, GoWorker
<1>15. QED
  BY <1>2, <1>3, <1>4, <1>5, <1>6, <1>7, <1>8, <1>9, <1>10, <1>11, <1>12, <1>13, <1>14 DEF Worker

LEMMA CallerMoves ==
    LedgerInv /\ Caller =>
      /\ at'["worker"] = at["worker"] \/ StartWorker
      /\ at'["caller"] \in {"listing", "resumed"} => UNCHANGED job /\ Ready("caller")
<1> SUFFICES ASSUME LedgerInv, Caller
             PROVE  /\ at'["worker"] = at["worker"] \/ StartWorker
                    /\ at'["caller"] \in {"listing", "resumed"} => UNCHANGED job /\ Ready("caller")
  OBVIOUS
<1>1. at \in Pc
  BY DEF LedgerInv, Types, PointsTyped
<1>2. CASE UNCHANGED at /\ at["caller"] = "idle"
  BY <1>2
<1>3. CASE StartWorker
  BY <1>3 DEF StartWorker
<1>4. CASE AuthorizeGeneration
  BY <1>2, <1>4 DEF AuthorizeGeneration, Here
<1>5. CASE RegeneratePreview
  BY <1>2, <1>5 DEF RegeneratePreview, Here
<1>6. CASE OpenControl
  <2>1. \E label \in CallerPc :
          /\ Goto("caller", label)
          /\ label \in {"listing", "resumed"} => UNCHANGED job /\ Ready("caller")
    BY <1>6 DEF OpenControl, Here, CallerPc
  <2>2. QED
    BY <1>1, <2>1, GoCaller
<1>7. CASE PersistGrant
  <2>1. \E label \in CallerPc :
          /\ Goto("caller", label)
          /\ label \in {"listing", "resumed"} => UNCHANGED job /\ Ready("caller")
    BY <1>7 DEF PersistGrant, Here, CallerPc
  <2>2. QED
    BY <1>1, <2>1, GoCaller
<1>8. CASE Execute
  <2>1. \E label \in CallerPc :
          /\ Goto("caller", label)
          /\ label \in {"listing", "resumed"} => UNCHANGED job /\ Ready("caller")
    BY <1>8 DEF Execute, Here, CallerPc
  <2>2. QED
    BY <1>1, <2>1, GoCaller
<1>9. CASE MarkStarted
  <2>1. \E label \in CallerPc :
          /\ Goto("caller", label)
          /\ label \in {"listing", "resumed"} => UNCHANGED job /\ Ready("caller")
    BY <1>9 DEF MarkStarted, Here, CallerPc
  <2>2. QED
    BY <1>1, <2>1, GoCaller
<1>10. CASE ReconcileGeneration
  <2>1. \E label \in CallerPc :
          /\ Goto("caller", label)
          /\ label \in {"listing", "resumed"} => UNCHANGED job /\ Ready("caller")
    BY <1>10 DEF ReconcileGeneration, Here, CallerPc
  <2>2. QED
    BY <1>1, <2>1, GoCaller
<1>11. CASE SaveReconciled
  <2>1. \E label \in CallerPc :
          /\ Goto("caller", label)
          /\ label \in {"listing", "resumed"} => UNCHANGED job /\ Ready("caller")
    BY <1>11 DEF SaveReconciled, Here, CallerPc
  <2>2. QED
    BY <1>1, <2>1, GoCaller
<1>12. CASE PauseOrStop
  <2>1. \E label \in CallerPc :
          /\ Goto("caller", label)
          /\ label \in {"listing", "resumed"} => UNCHANGED job /\ Ready("caller")
    BY <1>12 DEF PauseOrStop, Here, CallerPc
  <2>2. QED
    BY <1>1, <2>1, GoCaller
<1>13. CASE Revoke
  <2>1. \E label \in CallerPc :
          /\ Goto("caller", label)
          /\ label \in {"listing", "resumed"} => UNCHANGED job /\ Ready("caller")
    BY <1>13 DEF Revoke, Here, CallerPc
  <2>2. QED
    BY <1>1, <2>1, GoCaller
<1>14. CASE Resume
  <2>1. \E label \in CallerPc :
          /\ Goto("caller", label)
          /\ label \in {"listing", "resumed"} => UNCHANGED job /\ Ready("caller")
    BY <1>14 DEF Resume, Here, CallerPc
  <2>2. QED
    BY <1>1, <2>1, GoCaller
<1>15. CASE Reconcile
  <2>1. \E label \in CallerPc :
          /\ Goto("caller", label)
          /\ label \in {"listing", "resumed"} => UNCHANGED job /\ Ready("caller")
    BY <1>15 DEF Reconcile, Here, CallerPc
  <2>2. QED
    BY <1>1, <2>1, GoCaller
<1>16. CASE ClearOnResume
  <2>1. \E label \in CallerPc :
          /\ Goto("caller", label)
          /\ label \in {"listing", "resumed"} => UNCHANGED job /\ Ready("caller")
    BY <1>16 DEF ClearOnResume, Here, CallerPc
  <2>2. QED
    BY <1>1, <2>1, GoCaller
<1>17. CASE ListUnresolved
  <2>1. \E label \in CallerPc :
          /\ Goto("caller", label)
          /\ label \in {"listing", "resumed"} => UNCHANGED job /\ Ready("caller")
    BY <1>17 DEF ListUnresolved, Here, CallerPc
  <2>2. QED
    BY <1>1, <2>1, GoCaller
<1>18. CASE Resumed
  <2>1. \E label \in CallerPc :
          /\ Goto("caller", label)
          /\ label \in {"listing", "resumed"} => UNCHANGED job /\ Ready("caller")
    BY <1>18 DEF Resumed, Here, CallerPc
  <2>2. QED
    BY <1>1, <2>1, GoCaller
<1>19. QED
  BY <1>3, <1>4, <1>5, <1>6, <1>7, <1>8, <1>9, <1>10, <1>11, <1>12, <1>13, <1>14, <1>15, <1>16, <1>17, <1>18 DEF Caller

\* What is known of the outstanding writes.
LEMMA WritesAre ==
    ASSUME LedgerInv
    PROVE  /\ job \in [Threads -> Job] /\ Threads = {"caller", "worker"}
           /\ job["worker"].locked => ~job["caller"].locked
           /\ at["worker"] = "none" => job["worker"] = NoJob
           /\ ~job["caller"].counts
           /\ at["caller"] \in {"listing", "resumed"} => job["caller"] = NoJob
           /\ job["worker"].counts => at["worker"] = "launching"
           /\ \A t \in Threads : job[t].step = "count" => job[t].counts
           /\ \A t \in Threads : job[t].step = "none" => job[t] = NoJob
BY DEF LedgerInv, Types, Writes, Ready, Threads

LEMMA OwedKept ==
    ASSUME LedgerInv, NEW t \in Threads, OwedBy(t)
    PROVE  /\ job' \in [Threads -> Job] /\ job[t] = NoJob
           /\ \A u \in Threads \ {t} : job'[u] = job[u]
           /\ job'[t].step = "read"
           /\ job'[t].locked => \A u \in Threads \ {t} : ~job[u].locked
           /\ job'[t].counts => Starts /\ t = "worker"
<1>1. job \in [Threads -> Job]
  BY WritesAre
<1>2. PICK update \in Rows, locked \in BOOLEAN, counts \in BOOLEAN :
        /\ Owe(t, update, locked, counts) /\ Ready(t)
        /\ locked => Enter(t)
        /\ counts => Starts /\ t = "worker"
  BY DEF OwedBy
<1>3. /\ job' \in [Threads -> Job] /\ job'[t].step = "read"
      /\ job'[t].locked = locked /\ job'[t].counts = counts
      /\ \A u \in Threads \ {t} : job'[u] = job[u]
  BY <1>1, <1>2, OweTyped
<1>4. QED
  BY <1>2, <1>3 DEF Ready, Enter

LEMMA JobTyped == LedgerInv /\ [Protocol]_kept => job' \in [Threads -> Job]
<1> SUFFICES ASSUME LedgerInv, [Protocol]_kept PROVE job' \in [Threads -> Job]
  OBVIOUS
<1>1. "caller" \in Threads /\ "worker" \in Threads
  BY DEF Threads
<1>2. CASE UNCHANGED job
  BY <1>2, WritesAre
<1>3. CASE OwedBy("caller") \/ OwedBy("worker")
  BY <1>1, <1>3, OwedKept
<1>4. CASE Stored
  BY <1>4, StoreTyped
<1>5. CASE Crash
  BY <1>5, NothingTyped DEF Crash
<1>6. QED
  BY <1>2, <1>3, <1>4, <1>5, JobSteps DEF kept

LEMMA WritesKept == LedgerInv /\ [Protocol]_kept => Writes'
<1> SUFFICES ASSUME LedgerInv, [Protocol]_kept PROVE Writes'
  OBVIOUS
<1>1. "caller" \in Threads /\ "worker" \in Threads /\ at \in Pc
  BY DEF Threads, LedgerInv, Types, PointsTyped
<1>2. CASE UNCHANGED <<job, at>>
  <2>1. Writes
    BY DEF LedgerInv
  <2>2. QED
    BY <1>2, <2>1 DEF Writes, Ready
<1>3. CASE Stored
  <2>1. PICK t \in Threads :
          /\ Store(t) /\ job' \in [Threads -> Job] /\ UNCHANGED <<at, held, reported>>
          /\ \A u \in Threads \ {t} : job'[u] = job[u]
          /\ job[t].step # "none"
          /\ job'[t].locked => job[t].locked
          /\ job'[t].counts => job[t].counts
          /\ job'[t].step = "count" => job'[t].counts
          /\ job'[t].step = "none" => job'[t] = NoJob
    BY <1>3, StoreTyped
  <2>2. job[t] # NoJob
    BY <2>1, ThreadsAre
  <2>3. CASE t = "caller"
    <3>1. job'["worker"] = job["worker"]
      BY <1>1, <2>1, <2>3
    <3>2. QED
      BY <1>1, <2>1, <2>2, <2>3, <3>1, WritesAre DEF Writes, Ready
  <2>4. CASE t = "worker"
    <3>1. job'["caller"] = job["caller"]
      BY <1>1, <2>1, <2>4
    <3>2. QED
      BY <1>1, <2>1, <2>2, <2>4, <3>1, WritesAre DEF Writes, Ready
  <2>5. QED
    BY <2>1, <2>3, <2>4, WritesAre
<1>4. CASE Worker
  <2>1. /\ job["worker"] = NoJob /\ at["worker"] # "none" /\ at'["caller"] = at["caller"]
        /\ at'["worker"] = "none" => UNCHANGED job
    BY <1>4, WorkerMoves DEF Ready
  <2>2. CASE UNCHANGED job
    BY <1>1, <2>1, <2>2, WritesAre, ThreadsAre DEF Writes, Ready
  <2>3. CASE OwedBy("worker") /\ job' # job
    <3>1. /\ job'["caller"] = job["caller"] /\ job'["worker"].step = "read"
          /\ job'["worker"].locked => ~job["caller"].locked
          /\ job'["worker"].counts => Starts
      BY <1>1, <2>3, OwedKept
    <3>2. job'["worker"].counts => at'["worker"] = "launching"
      BY <1>1, <3>1, GoWorker DEF Starts, WorkerPc
    <3>3. QED
      BY <1>1, <2>1, <2>3, <3>1, <3>2, WritesAre DEF Writes, Ready
  <2>4. QED
    BY <1>4, <2>2, <2>3, WorkerOwes
<1>5. CASE Caller
  <2>1. /\ at'["worker"] = at["worker"] \/ StartWorker
        /\ at'["caller"] \in {"listing", "resumed"} => UNCHANGED job /\ job["caller"] = NoJob
    BY <1>5, CallerMoves DEF Ready
  <2>2. at["worker"] = "launching" => at'["worker"] = "launching"
    <3>1. StartWorker => at["worker"] = "none"
      BY DEF StartWorker, Here, LedgerInv, Positions
    <3>2. QED
      BY <2>1, <3>1
  <2>3. at'["worker"] = "none" => at["worker"] = "none"
    BY <2>1 DEF StartWorker
  <2>4. CASE UNCHANGED job
    BY <1>1, <2>1, <2>2, <2>3, <2>4, WritesAre DEF Writes, Ready
  <2>5. CASE OwedBy("caller") /\ job' # job
    <3>1. /\ job'["worker"] = job["worker"] /\ job'["caller"].step = "read"
          /\ job'["caller"].locked => ~job["worker"].locked
          /\ ~job'["caller"].counts
      BY <1>1, <2>5, OwedKept
    <3>2. QED
      BY <1>1, <2>1, <2>2, <2>3, <2>5, <3>1, WritesAre DEF Writes, Ready
  <2>6. QED
    BY <1>5, <2>4, <2>5, CallerOwes
<1>6. CASE Expire
  BY <1>2, <1>6 DEF Expire
<1>7. CASE Crash
  <2>1. job' = [t \in Threads |-> NoJob]
    BY <1>7 DEF Crash
  <2>2. QED
    BY <1>1, <2>1, ThreadsAre DEF Writes, Ready
<1>8. QED
  BY <1>2, <1>3, <1>4, <1>5, <1>6, <1>7 DEF Protocol, Stored, kept

LEMMA NoneValidTyped == approvals \in Seq(BOOLEAN) => NoneValid \in Seq(BOOLEAN)
<1> SUFFICES ASSUME approvals \in Seq(BOOLEAN) PROVE NoneValid \in Seq(BOOLEAN)
  OBVIOUS
<1>1. FALSE \in BOOLEAN
  OBVIOUS
<1>2. NoneValid \in [1..Len(approvals) -> BOOLEAN]
  BY <1>1 DEF NoneValid
<1>3. QED
  BY <1>2

LEMMA WorkerRewritten ==
    ASSUME workers \in Seq(WorkerStatus), NEW status \in WorkerStatus
    PROVE  /\ [workers EXCEPT ![Len(workers)] = status] \in Seq(WorkerStatus)
           /\ Len([workers EXCEPT ![Len(workers)] = status]) = Len(workers)
<1>1. workers \in [1..Len(workers) -> WorkerStatus] /\ Len(workers) \in Nat
  OBVIOUS
<1>2. [workers EXCEPT ![Len(workers)] = status] \in [1..Len(workers) -> WorkerStatus]
  BY <1>1
<1>3. QED
  BY <1>1, <1>2

LEMMA CallerFiles == LedgerInv /\ Caller => FilesTyped'
<1> SUFFICES ASSUME LedgerInv, Caller PROVE FilesTyped'
  OBVIOUS
<1>1. FilesTyped /\ api \in {"slots", "attempts"} /\ control \in Control
  BY DEF LedgerInv, Types
<1>2. CASE UNCHANGED <<ledger, runs, approvals, reserved, request, workers, launches, revoked>>
  BY <1>1, <1>2 DEF FilesTyped
<1>3. CASE OpenControl
  BY <1>2, <1>3 DEF OpenControl, disk, history
<1>4. CASE PersistGrant
  BY <1>2, <1>4 DEF PersistGrant, disk, history
<1>5. CASE Execute
  BY <1>2, <1>5 DEF Execute, disk, history
<1>6. CASE MarkStarted
  BY <1>2, <1>6 DEF MarkStarted, disk, history
<1>7. CASE ReconcileGeneration
  BY <1>2, <1>7 DEF ReconcileGeneration, disk, history
<1>8. CASE ListUnresolved
  BY <1>2, <1>8 DEF ListUnresolved, disk, history
<1>9. CASE Resumed
  BY <1>2, <1>9 DEF Resumed, disk, history
<1>10. CASE AuthorizeGeneration
  <2>1. approvals' \in Seq(BOOLEAN)
    BY <1>1, <1>10 DEF AuthorizeGeneration, FilesTyped
  <2>2. QED
    BY <1>1, <1>10, <2>1 DEF AuthorizeGeneration, FilesTyped, history
<1>11. CASE RegeneratePreview
  BY <1>1, <1>11, NoneValidTyped DEF RegeneratePreview, FilesTyped, history
<1>12. CASE StartWorker
  <2>1. workers' \in Seq(WorkerStatus)
    BY <1>1, <1>12 DEF StartWorker, FilesTyped, WorkerStatus
  <2>2. QED
    BY <1>1, <1>12, <2>1 DEF StartWorker, FilesTyped, history
<1>13. CASE SaveReconciled
  <2>1. workers' \in Seq(WorkerStatus)
    <3>1. workers \in Seq(WorkerStatus) /\ "reconciliation_required" \in WorkerStatus
      BY <1>1 DEF FilesTyped, WorkerStatus
    <3>2. QED
      BY <1>13, <3>1, WorkerRewritten DEF SaveReconciled
  <2>2. QED
    BY <1>1, <1>13, <2>1 DEF SaveReconciled, FilesTyped, history
<1>14. CASE PauseOrStop
  <2>1. request' \in BOOLEAN
    BY <1>14 DEF PauseOrStop
  <2>2. QED
    BY <1>1, <1>14, <2>1 DEF PauseOrStop, FilesTyped, history
<1>15. CASE Revoke
  <2>1. revoked' \in Nat
    BY <1>1, <1>15, ControlFields DEF Revoke
  <2>2. QED
    BY <1>1, <1>15, <2>1 DEF Revoke, FilesTyped
<1>16. CASE Reconcile
  <2>1. revoked' \in Nat
    BY <1>1, <1>16, ControlFields DEF Reconcile
  <2>2. QED
    BY <1>1, <1>16, <2>1 DEF Reconcile, FilesTyped
<1>17. CASE Resume
  BY <1>1, <1>17, NoneValidTyped DEF Resume, FilesTyped, history
<1>18. CASE ClearOnResume
  <2>1. request' \in BOOLEAN
    BY <1>18 DEF ClearOnResume
  <2>2. QED
    BY <1>1, <1>18, <2>1 DEF ClearOnResume, FilesTyped, history
<1>19. QED
  BY <1>3, <1>4, <1>5, <1>6, <1>7, <1>8, <1>9, <1>10, <1>11, <1>12, <1>13, <1>14, <1>15, <1>16, <1>17, <1>18 DEF Caller

LEMMA WorkerFiles == LedgerInv /\ Worker => FilesTyped'
<1> SUFFICES ASSUME LedgerInv, Worker PROVE FilesTyped'
  OBVIOUS
<1>1. FilesTyped /\ api \in {"slots", "attempts"} /\ held \in Hand
  BY DEF LedgerInv, Types, PointsTyped
<1>2. CASE UNCHANGED <<ledger, runs, approvals, reserved, request, workers, launches, revoked>>
  BY <1>1, <1>2 DEF FilesTyped
<1>3. CASE Ask
  BY <1>2, <1>3 DEF Ask, disk, history
<1>4. CASE LoadSlot
  BY <1>2, <1>4 DEF LoadSlot, disk, history
<1>5. CASE AuthorizeSlot
  BY <1>2, <1>5 DEF AuthorizeSlot, disk, history
<1>6. CASE StartSlot
  BY <1>2, <1>6 DEF StartSlot, disk, history
<1>7. CASE FindApproval
  BY <1>2, <1>7 DEF FindApproval, disk, history
<1>8. CASE PrepareAttempt
  BY <1>2, <1>8 DEF PrepareAttempt, disk, history
<1>9. CASE Finish
  BY <1>2, <1>9 DEF Finish, disk, history
<1>10. CASE AuthorizeAttempt
  <2>1. reserved' \in UNION {[paid -> Nat] : paid \in SUBSET Attempts}
    <3> DEFINE one == [a \in {held.op} |-> held.approval]
    <3>1. UNCHANGED reserved \/ (reserved' = Over(one, reserved) /\ held.op \in Attempts)
      <4>1. at["worker"] = "prepared" => held.op \in Attempts
        BY <1>1 DEF LedgerInv, Positions, AsksFor
      <4>2. QED
        BY <1>10, <4>1 DEF AuthorizeAttempt, Here
    <3>2. DOMAIN reserved \subseteq Attempts /\ reserved \in [DOMAIN reserved -> Nat]
      BY <1>1 DEF FilesTyped
    <3>3. held.approval \in Nat
      BY <1>1 DEF Hand
    <3>4. Over(one, reserved) \in [{held.op} \cup DOMAIN reserved -> Nat]
      BY <3>2, <3>3 DEF Over
    <3> HIDE DEF one
    <3>5. CASE UNCHANGED reserved
      BY <1>1, <3>5 DEF FilesTyped
    <3>6. CASE reserved' = Over(one, reserved) /\ held.op \in Attempts
      <4>1. {held.op} \cup DOMAIN reserved \in SUBSET Attempts
        BY <3>2, <3>6
      <4>2. QED
        BY <3>4, <3>6, <4>1
    <3>7. QED
      BY <3>1, <3>5, <3>6
  <2>2. QED
    BY <1>1, <1>10, <2>1 DEF AuthorizeAttempt, FilesTyped, history
<1>11. CASE StartAttempt
  <2>1. runs' \in Nat
    BY <1>1, <1>11 DEF StartAttempt, FilesTyped
  <2>2. QED
    BY <1>1, <1>11, <2>1 DEF StartAttempt, FilesTyped, history
<1>12. CASE Launch
  <2>1. launches' \in [Slots \cup Attempts -> Seq(Nat)]
    <3> DEFINE new == Append(launches[held.op], held.approval)
    <3>1. held.op \in Slots \cup Attempts /\ held.approval \in Nat
      BY <1>1, <1>12 DEF Launch, Here, LedgerInv, Positions, AsksFor, Hand
    <3>2. launches \in [Slots \cup Attempts -> Seq(Nat)]
      BY <1>1 DEF FilesTyped
    <3>3. new \in Seq(Nat)
      BY <3>1, <3>2
    <3>4. launches' = [launches EXCEPT ![held.op] = new]
      BY <1>12 DEF Launch
    <3> HIDE DEF new
    <3>5. QED
      BY <3>2, <3>3, <3>4
  <2>2. QED
    BY <1>1, <1>12, <2>1 DEF Launch, FilesTyped, disk
<1>13. ASSUME NEW outcome \in Outcomes, EndWorker(outcome) PROVE FilesTyped'
  <2>1. approvals' \in Seq(BOOLEAN)
    BY <1>1, <1>13, NoneValidTyped DEF EndWorker, FilesTyped
  <2>2. QED
    BY <1>1, <1>13, <2>1 DEF EndWorker, FilesTyped, history
<1>14. CASE SaveEnded
  <2>1. workers' \in Seq(WorkerStatus)
    <3>1. held.outcome \in WorkerStatus
      BY <1>14 DEF SaveEnded, Here, LedgerInv, Positions, WorkerStatus
    <3>2. QED
      BY <1>1, <1>14, <3>1, WorkerRewritten DEF SaveEnded, FilesTyped
  <2>2. QED
    BY <1>1, <1>14, <2>1 DEF SaveEnded, FilesTyped, history
<1>15. CASE ClearRequest
  <2>1. request' \in BOOLEAN
    BY <1>15 DEF ClearRequest
  <2>2. QED
    BY <1>1, <1>15, <2>1 DEF ClearRequest, FilesTyped, history
<1>16. QED
  BY <1>3, <1>4, <1>5, <1>6, <1>7, <1>8, <1>9, <1>10, <1>11, <1>12, <1>13, <1>14, <1>15 DEF Worker

LEMMA EnforcedStays == [Protocol]_kept => api' = api /\ enforced' = enforced
<1>1. Stored => api' = api /\ enforced' = enforced
  BY DEF Stored, Store, ReadRows, WriteRows, CountRun
<1>2. Caller => api' = api /\ enforced' = enforced
  BY DEF Caller, OpenControl, PersistGrant, AuthorizeGeneration, RegeneratePreview, Execute,
         MarkStarted, StartWorker, ReconcileGeneration, SaveReconciled, PauseOrStop, Revoke,
         Resume, Reconcile, ClearOnResume, ListUnresolved, Resumed
<1>3. Worker => api' = api /\ enforced' = enforced
  BY DEF Worker, Ask, LoadSlot, AuthorizeSlot, StartSlot, FindApproval, PrepareAttempt,
         AuthorizeAttempt, StartAttempt, Launch, Finish, EndWorker, SaveEnded, ClearRequest
<1>4. Expire \/ Crash => api' = api /\ enforced' = enforced
  BY DEF Expire, Crash
<1>5. QED
  BY <1>1, <1>2, <1>3, <1>4 DEF Protocol, Stored, kept

LEMMA TypesKept == LedgerInv /\ [Protocol]_kept => Types'
<1> SUFFICES ASSUME LedgerInv, [Protocol]_kept PROVE Types'
  OBVIOUS
<1>1. Types
  BY DEF LedgerInv
<1>2. control' \in Control /\ job' \in [Threads -> Job]
  BY ControlKept, JobTyped
<1>3. api' = api /\ enforced' = enforced
  BY EnforcedStays
<1>4. FilesTyped' /\ PointsTyped'
  <2>1. CASE Caller
    BY <1>1, <2>1, CallerFiles, CallerPointsTyped
  <2>2. CASE Worker
    BY <1>1, <2>2, WorkerFiles, WorkerPointsTyped
  <2>3. CASE Stored
    <3>1. UNCHANGED <<at, held, reported, approvals, reserved, request, workers, launches, revoked>>
      BY <2>3 DEF Stored, Store, ReadRows, WriteRows, CountRun, disk, history
    <3>2. runs' \in Nat
      BY <1>1, <2>3 DEF Types, FilesTyped, Stored, Store, ReadRows, WriteRows, CountRun, disk
    <3>3. ledger' \in Rows
      <4>1. \A t \in Threads : job[t].rows \in Rows
        BY <1>1 DEF Types, Job
      <4>2. QED
        BY <1>1, <2>3, <4>1 DEF Types, FilesTyped, Stored, Store, ReadRows, WriteRows, CountRun, disk
    <3>4. QED
      BY <1>1, <3>1, <3>2, <3>3 DEF Types, FilesTyped, PointsTyped
  <2>4. CASE Expire
    BY <1>1, <2>4 DEF Expire, Types, FilesTyped, PointsTyped, disk, history
  <2>5. CASE Crash
    <3>1. at' \in Pc
      BY <2>5 DEF Crash, Pc, CallerPc, WorkerPc
    <3>2. QED
      BY <1>1, <2>5, <3>1, HandTyped DEF Crash, Types, FilesTyped, PointsTyped, disk, history
  <2>6. CASE UNCHANGED kept
    BY <1>1, <2>6 DEF kept, disk, history, Types, FilesTyped, PointsTyped
  <2>7. QED
    BY <2>1, <2>2, <2>3, <2>4, <2>5, <2>6 DEF Protocol, Stored
<1>5. QED
  BY <1>1, <1>2, <1>3, <1>4 DEF Types

-----------------------------------------------------------------------------
(* Where the threads are.                                                    *)

LEMMA OpenStays ==
    LedgerInv /\ [Protocol]_kept =>
      (control.open => control'.open) /\ (api = "attempts" => control' = control)
<1> SUFFICES ASSUME LedgerInv, [Protocol]_kept
             PROVE  (control.open => control'.open) /\ (api = "attempts" => control' = control)
  OBVIOUS
<1>1. control \in Control /\ DOMAIN control.ops = DOMAIN control.slots
  BY DEF LedgerInv, Types, ControlOK
<1>2. CASE UNCHANGED control
  BY <1>2
<1>3. CASE ControlWritten
  <2>1. api = "slots"
    BY <1>3 DEF ControlWritten, Opens, Grants, Revokes, Reconciles, Authorizes, Starts, Ends
  <2>2. Opens => control'.open
    BY <1>1, OpenedControl DEF Opens
  <2>3. Grants \/ Revokes \/ Reconciles => control'.open = control.open
    BY <1>1, GrantedControl, InvalidatedControl, ReconciledControl DEF Grants, Revokes, Reconciles
  <2>4. Authorizes => control'.open = control.open
    BY <1>1, AuthorizedControl DEF Authorizes
  <2>5. Starts => control'.open = control.open
    BY <1>1, StartedControl DEF Starts
  <2>6. Ends => control'.open = control.open
    BY <1>1, EndedControl DEF Ends
  <2>7. QED
    BY <1>3, <2>1, <2>2, <2>3, <2>4, <2>5, <2>6 DEF ControlWritten
<1>4. QED
  BY <1>2, <1>3, ControlSteps, ControlWrites DEF kept, disk

\* What a step of one thread must not touch.
LEMMA SamePositions ==
    ASSUME Positions, control.open => control'.open, api = "attempts" => control' = control,
           UNCHANGED <<at, workers, held, reported, api>>
    PROVE  Positions'
BY DEF Positions, AsksFor

LEMMA CallerPositions == LedgerInv /\ Caller => Positions'
<1> SUFFICES ASSUME LedgerInv, Caller PROVE Positions'
  OBVIOUS
<1>1. /\ Positions /\ at \in Pc /\ api' = api
      /\ api \in {"slots", "attempts"} /\ workers \in Seq(WorkerStatus) /\ reported \in Report
  BY TypesKept DEF LedgerInv, Types, FilesTyped, PointsTyped, Caller,
     OpenControl, PersistGrant, AuthorizeGeneration, RegeneratePreview, Execute,
     MarkStarted, StartWorker, ReconcileGeneration, SaveReconciled, PauseOrStop, Revoke,
     Resume, Reconcile, ClearOnResume, ListUnresolved, Resumed
<1>2. (control.open => control'.open) /\ (api = "attempts" => control' = control)
  BY OpenStays DEF Protocol
<1>3. CASE AuthorizeGeneration
  <2>1. UNCHANGED <<at, workers, held, reported>>
    BY <1>3 DEF AuthorizeGeneration
  <2>2. QED
    BY <1>1, <1>2, <2>1, SamePositions
<1>4. CASE RegeneratePreview
  <2>1. UNCHANGED <<at, workers, held, reported>>
    BY <1>4 DEF RegeneratePreview
  <2>2. QED
    BY <1>1, <1>2, <2>1, SamePositions
<1>5. CASE OpenControl
  <2>1. at["caller"] = "idle" /\ Goto("caller", "granting") /\ "granting" \in CallerPc
    BY <1>5 DEF OpenControl, Here, CallerPc
  <2>2. at'["caller"] = "granting" /\ at'["worker"] = at["worker"]
    BY <1>1, <2>1, GoCaller
  <2>3. UNCHANGED <<workers, held, reported>> /\ api = "slots" /\ control'.open
    BY <1>5, OpenedControl DEF OpenControl, Opened, Commit, LedgerInv, Types
  <2>4. QED
    BY <1>1, <1>2, <2>1, <2>2, <2>3 DEF Positions, AsksFor
<1>6. CASE PersistGrant
  <2>1. at["caller"] = "granting" /\ Goto("caller", "idle") /\ "idle" \in CallerPc
    BY <1>6 DEF PersistGrant, Here, CallerPc
  <2>2. at'["caller"] = "idle" /\ at'["worker"] = at["worker"]
    BY <1>1, <2>1, GoCaller
  <2>3. UNCHANGED <<workers, held, reported>>
    BY <1>6 DEF PersistGrant
  <2>4. QED
    BY <1>1, <1>2, <2>1, <2>2, <2>3 DEF Positions, AsksFor
<1>7. CASE Execute
  <2>1. at["caller"] = "idle" /\ Goto("caller", "starting") /\ "starting" \in CallerPc
    BY <1>7 DEF Execute, Here, CallerPc
  <2>2. at'["caller"] = "starting" /\ at'["worker"] = at["worker"]
    BY <1>1, <2>1, GoCaller
  <2>3. UNCHANGED <<workers, held, reported>> /\ at["worker"] = "none" /\ Len(workers) < Len(Runs)
    BY <1>7 DEF Execute, disk
  <2>4. QED
    BY <1>1, <1>2, <2>1, <2>2, <2>3 DEF Positions, AsksFor
<1>8. CASE MarkStarted
  <2>1. at["caller"] = "starting" /\ Goto("caller", "saving") /\ "saving" \in CallerPc
    BY <1>8 DEF MarkStarted, Here, CallerPc
  <2>2. at'["caller"] = "saving" /\ at'["worker"] = at["worker"]
    BY <1>1, <2>1, GoCaller
  <2>3. UNCHANGED <<workers, held, reported>>
    BY <1>8 DEF MarkStarted, disk
  <2>4. QED
    BY <1>1, <1>2, <2>1, <2>2, <2>3 DEF Positions, AsksFor
<1>9. CASE StartWorker
  <2>1. at["caller"] = "saving" /\ at'["caller"] = "idle" /\ at'["worker"] = "run"
    BY <1>9 DEF StartWorker, Here
  <2>2. UNCHANGED <<held, reported>> /\ workers' = Append(workers, "running")
    BY <1>9 DEF StartWorker
  <2>3. Len(workers') = Len(workers) + 1 /\ workers' # <<>>
    BY <1>1, <2>2
  <2>4. Len(workers') <= Len(Runs)
    <3>1. Len(Runs) \in Nat /\ Len(workers) \in Nat /\ Len(workers) < Len(Runs)
      BY <1>1, <2>1, LedgerAssumption DEF Positions
    <3>2. QED
      BY <2>3, <3>1
  <2>5. QED
    BY <1>1, <1>2, <2>1, <2>2, <2>3, <2>4 DEF Positions, AsksFor
<1>10. CASE ReconcileGeneration
  <2>1. at["caller"] = "idle" /\ Goto("caller", "reconciled") /\ "reconciled" \in CallerPc
    BY <1>10 DEF ReconcileGeneration, Here, CallerPc
  <2>2. at'["caller"] = "reconciled" /\ at'["worker"] = at["worker"]
    BY <1>1, <2>1, GoCaller
  <2>3. UNCHANGED <<workers, held, reported>> /\ at["worker"] = "none" /\ workers # <<>>
    BY <1>10 DEF ReconcileGeneration, disk
  <2>4. QED
    BY <1>1, <1>2, <2>1, <2>2, <2>3 DEF Positions, AsksFor
<1>11. CASE SaveReconciled
  <2>1. at["caller"] = "reconciled" /\ Goto("caller", "idle") /\ "idle" \in CallerPc
    BY <1>11 DEF SaveReconciled, Here, CallerPc
  <2>2. at'["caller"] = "idle" /\ at'["worker"] = at["worker"]
    BY <1>1, <2>1, GoCaller
  <2>3. UNCHANGED <<held, reported>>
    BY <1>11 DEF SaveReconciled
  <2>4. Len(workers') = Len(workers) /\ workers' \in Seq(WorkerStatus)
    <3>1. "reconciliation_required" \in WorkerStatus
      BY DEF WorkerStatus
    <3>2. QED
      BY <1>1, <1>11, <3>1, WorkerRewritten DEF SaveReconciled
  <2>5. workers # <<>> => workers' # <<>>
    BY <1>1, <2>4
  <2>6. QED
    BY <1>1, <1>2, <2>1, <2>2, <2>3, <2>4, <2>5 DEF Positions, AsksFor
<1>12. CASE PauseOrStop
  <2>1. at["caller"] = "idle" /\ \E label \in {"revoking", "idle"} \cap CallerPc : Goto("caller", label)
    BY <1>12 DEF PauseOrStop, Here, CallerPc
  <2>2. at'["caller"] \in {"revoking", "idle"} /\ at'["worker"] = at["worker"]
    BY <1>1, <2>1, GoCaller
  <2>3. UNCHANGED <<workers, held, reported>> /\ (at'["caller"] = "revoking" => control.open)
    BY <1>1, <1>12, GoCaller DEF PauseOrStop, CallerPc
  <2>4. QED
    BY <1>1, <1>2, <2>1, <2>2, <2>3 DEF Positions, AsksFor
<1>13. CASE Revoke
  <2>1. at["caller"] = "revoking" /\ Goto("caller", "idle") /\ "idle" \in CallerPc
    BY <1>13 DEF Revoke, Here, CallerPc
  <2>2. at'["caller"] = "idle" /\ at'["worker"] = at["worker"]
    BY <1>1, <2>1, GoCaller
  <2>3. UNCHANGED <<workers, held, reported>>
    BY <1>13 DEF Revoke
  <2>4. QED
    BY <1>1, <1>2, <2>1, <2>2, <2>3 DEF Positions, AsksFor
<1>14. CASE Resume
  <2>1. at["caller"] = "idle" /\ \E label \in {"reconciling", "clearing"} \cap CallerPc : Goto("caller", label)
    BY <1>14 DEF Resume, Here, CallerPc
  <2>2. at'["caller"] \in {"reconciling", "clearing"} /\ at'["worker"] = at["worker"]
    BY <1>1, <2>1, GoCaller
  <2>3. /\ UNCHANGED <<workers, held>>
        /\ at'["caller"] = "reconciling" => control.open
        /\ reported'.alone => at["worker"] = "none"
    BY <1>1, <1>14, GoCaller DEF Resume, CallerPc, NoReport
  <2>4. QED
    BY <1>1, <1>2, <2>1, <2>2, <2>3 DEF Positions, AsksFor
<1>15. CASE Reconcile
  <2>1. at["caller"] = "reconciling" /\ Goto("caller", "clearing") /\ "clearing" \in CallerPc
    BY <1>15 DEF Reconcile, Here, CallerPc
  <2>2. at'["caller"] = "clearing" /\ at'["worker"] = at["worker"]
    BY <1>1, <2>1, GoCaller
  <2>3. UNCHANGED <<workers, held>> /\ reported'.alone = reported.alone
    BY <1>1, <1>15 DEF Reconcile, Report
  <2>4. QED
    BY <1>1, <1>2, <2>1, <2>2, <2>3 DEF Positions, AsksFor
<1>16. CASE ClearOnResume
  <2>1. at["caller"] = "clearing" /\ Goto("caller", "listing") /\ "listing" \in CallerPc
    BY <1>16 DEF ClearOnResume, Here, CallerPc
  <2>2. at'["caller"] = "listing" /\ at'["worker"] = at["worker"]
    BY <1>1, <2>1, GoCaller
  <2>3. UNCHANGED <<workers, held, reported>>
    BY <1>16 DEF ClearOnResume
  <2>4. QED
    BY <1>1, <1>2, <2>1, <2>2, <2>3 DEF Positions, AsksFor
<1>17. CASE ListUnresolved
  <2>1. at["caller"] = "listing" /\ Goto("caller", "resumed") /\ "resumed" \in CallerPc
    BY <1>17 DEF ListUnresolved, Here, CallerPc
  <2>2. at'["caller"] = "resumed" /\ at'["worker"] = at["worker"]
    BY <1>1, <2>1, GoCaller
  <2>3. UNCHANGED <<workers, held>> /\ reported'.alone = reported.alone
    BY <1>1, <1>17 DEF ListUnresolved, Report, disk
  <2>4. QED
    BY <1>1, <1>2, <2>1, <2>2, <2>3 DEF Positions, AsksFor
<1>18. CASE Resumed
  <2>1. at["caller"] = "resumed" /\ Goto("caller", "idle") /\ "idle" \in CallerPc
    BY <1>18 DEF Resumed, Here, CallerPc
  <2>2. at'["caller"] = "idle" /\ at'["worker"] = at["worker"]
    BY <1>1, <2>1, GoCaller
  <2>3. UNCHANGED <<workers, held>>
    BY <1>18 DEF Resumed, disk
  <2>4. QED
    BY <1>1, <1>2, <2>1, <2>2, <2>3 DEF Positions, AsksFor
<1>19. QED
  BY <1>3, <1>4, <1>5, <1>6, <1>7, <1>8, <1>9, <1>10, <1>11, <1>12, <1>13, <1>14, <1>15, <1>16, <1>17, <1>18 DEF Caller

LEMMA WorkerPositions == LedgerInv /\ Worker => Positions'
<1> SUFFICES ASSUME LedgerInv, Worker PROVE Positions'
  OBVIOUS
<1>1. /\ Positions /\ at \in Pc /\ api' = api /\ reported' = reported
      /\ api \in {"slots", "attempts"} /\ workers \in Seq(WorkerStatus) /\ held \in Hand
  BY DEF LedgerInv, Types, FilesTyped, PointsTyped, Worker,
     Ask, LoadSlot, AuthorizeSlot, StartSlot, FindApproval, PrepareAttempt,
     AuthorizeAttempt, StartAttempt, Launch, Finish, EndWorker, SaveEnded, ClearRequest
<1>2. (control.open => control'.open) /\ (api = "attempts" => control' = control)
  BY OpenStays DEF Protocol
<1>3. \A op : [NoAttempt EXCEPT !.op = op].op = op
  BY DEF NoAttempt
<1>4. \A g : [held EXCEPT !.approval = g].op = held.op
  BY <1>1 DEF Hand
<1>5. \A outcome : [NoAttempt EXCEPT !.outcome = outcome].outcome = outcome
  BY DEF NoAttempt
<1>6. CASE Ask
  <2>1. at["worker"] = "run" /\ \E label \in {"asked"} \cap WorkerPc : Goto("worker", label)
    BY <1>6 DEF Ask, Here, WorkerPc
  <2>2. at'["worker"] \in {"asked"} /\ at'["caller"] = at["caller"]
    BY <1>1, <2>1, GoWorker
  <2>3. workers' = workers /\ held'.op \in AsksFor
    BY <1>6, <1>3 DEF Ask, disk, AsksFor
  <2>4. QED
    BY <1>1, <1>2, <2>1, <2>2, <2>3 DEF Positions, AsksFor
<1>7. CASE LoadSlot
  <2>1. at["worker"] = "asked" /\ \E label \in {"loaded", "run"} \cap WorkerPc : Goto("worker", label)
    BY <1>7 DEF LoadSlot, Here, WorkerPc
  <2>2. at'["worker"] \in {"loaded", "run"} /\ at'["caller"] = at["caller"]
    BY <1>1, <2>1, GoWorker
  <2>3. workers' = workers /\ held'.op = held.op /\ api = "slots"
    BY <1>7, <1>4 DEF LoadSlot, disk
  <2>4. QED
    BY <1>1, <1>2, <2>1, <2>2, <2>3 DEF Positions, AsksFor
<1>8. CASE AuthorizeSlot
  <2>1. at["worker"] = "loaded" /\ \E label \in {"authorized", "run"} \cap WorkerPc : Goto("worker", label)
    BY <1>8 DEF AuthorizeSlot, Here, WorkerPc
  <2>2. at'["worker"] \in {"authorized", "run"} /\ at'["caller"] = at["caller"]
    BY <1>1, <2>1, GoWorker
  <2>3. workers' = workers /\ held' = held
    BY <1>8 DEF AuthorizeSlot, disk
  <2>4. QED
    BY <1>1, <1>2, <2>1, <2>2, <2>3 DEF Positions, AsksFor
<1>9. CASE StartSlot
  <2>1. at["worker"] = "authorized" /\ \E label \in {"launching", "run"} \cap WorkerPc : Goto("worker", label)
    BY <1>9 DEF StartSlot, Here, WorkerPc
  <2>2. at'["worker"] \in {"launching", "run"} /\ at'["caller"] = at["caller"]
    BY <1>1, <2>1, GoWorker
  <2>3. workers' = workers /\ held' = held
    BY <1>9 DEF StartSlot, disk
  <2>4. QED
    BY <1>1, <1>2, <2>1, <2>2, <2>3 DEF Positions, AsksFor
<1>10. CASE FindApproval
  <2>1. at["worker"] = "asked" /\ \E label \in {"found", "run"} \cap WorkerPc : Goto("worker", label)
    BY <1>10 DEF FindApproval, Here, WorkerPc
  <2>2. at'["worker"] \in {"found", "run"} /\ at'["caller"] = at["caller"]
    BY <1>1, <2>1, GoWorker
  <2>3. workers' = workers /\ held'.op = held.op /\ api = "attempts"
    BY <1>10, <1>4 DEF FindApproval, disk
  <2>4. QED
    BY <1>1, <1>2, <2>1, <2>2, <2>3 DEF Positions, AsksFor
<1>11. CASE PrepareAttempt
  <2>1. at["worker"] = "found" /\ \E label \in {"prepared"} \cap WorkerPc : Goto("worker", label)
    BY <1>11 DEF PrepareAttempt, Here, WorkerPc
  <2>2. at'["worker"] \in {"prepared"} /\ at'["caller"] = at["caller"]
    BY <1>1, <2>1, GoWorker
  <2>3. workers' = workers /\ held' = held
    BY <1>11 DEF PrepareAttempt, disk
  <2>4. QED
    BY <1>1, <1>2, <2>1, <2>2, <2>3 DEF Positions, AsksFor
<1>12. CASE AuthorizeAttempt
  <2>1. at["worker"] = "prepared" /\ \E label \in {"authorized", "run"} \cap WorkerPc : Goto("worker", label)
    BY <1>12 DEF AuthorizeAttempt, Here, WorkerPc
  <2>2. at'["worker"] \in {"authorized", "run"} /\ at'["caller"] = at["caller"]
    BY <1>1, <2>1, GoWorker
  <2>3. workers' = workers /\ held' = held
    BY <1>12 DEF AuthorizeAttempt, disk
  <2>4. QED
    BY <1>1, <1>2, <2>1, <2>2, <2>3 DEF Positions, AsksFor
<1>13. CASE StartAttempt
  <2>1. at["worker"] = "authorized" /\ \E label \in {"launching"} \cap WorkerPc : Goto("worker", label)
    BY <1>13 DEF StartAttempt, Here, WorkerPc
  <2>2. at'["worker"] \in {"launching"} /\ at'["caller"] = at["caller"]
    BY <1>1, <2>1, GoWorker
  <2>3. workers' = workers /\ held' = held
    BY <1>13 DEF StartAttempt, disk
  <2>4. QED
    BY <1>1, <1>2, <2>1, <2>2, <2>3 DEF Positions, AsksFor
<1>14. CASE Launch
  <2>1. at["worker"] = "launching" /\ \E label \in {"launched"} \cap WorkerPc : Goto("worker", label)
    BY <1>14 DEF Launch, Here, WorkerPc
  <2>2. at'["worker"] \in {"launched"} /\ at'["caller"] = at["caller"]
    BY <1>1, <2>1, GoWorker
  <2>3. workers' = workers /\ held' = held
    BY <1>14 DEF Launch, disk
  <2>4. QED
    BY <1>1, <1>2, <2>1, <2>2, <2>3 DEF Positions, AsksFor
<1>15. CASE Finish
  <2>1. at["worker"] = "launched" /\ \E label \in {"run"} \cap WorkerPc : Goto("worker", label)
    BY <1>15 DEF Finish, Here, WorkerPc
  <2>2. at'["worker"] \in {"run"} /\ at'["caller"] = at["caller"]
    BY <1>1, <2>1, GoWorker
  <2>3. workers' = workers /\ held' = held
    BY <1>15 DEF Finish, disk
  <2>4. QED
    BY <1>1, <1>2, <2>1, <2>2, <2>3 DEF Positions, AsksFor
<1>16. ASSUME NEW outcome \in Outcomes, EndWorker(outcome) PROVE Positions'
  <2>1. at["worker"] \in {"run", "authorized"} /\ Goto("worker", "ending") /\ "ending" \in WorkerPc
    BY <1>16 DEF EndWorker, WorkerPc
  <2>2. at'["worker"] = "ending" /\ at'["caller"] = at["caller"]
    BY <1>1, <2>1, GoWorker
  <2>3. workers' = workers /\ held'.outcome \in Outcomes
    BY <1>5, <1>16 DEF EndWorker
  <2>4. QED
    BY <1>1, <1>2, <2>1, <2>2, <2>3 DEF Positions, AsksFor
<1>17. CASE SaveEnded
  <2>1. at["worker"] = "ending" /\ \E label \in {"none", "closing"} \cap WorkerPc : Goto("worker", label)
    BY <1>17 DEF SaveEnded, Here, WorkerPc
  <2>2. at'["worker"] \in {"none", "closing"} /\ at'["caller"] = at["caller"]
    BY <1>1, <2>1, GoWorker
  <2>3. Len(workers') = Len(workers) /\ workers' \in Seq(WorkerStatus)
    <3>1. held.outcome \in WorkerStatus
      BY <1>1, <2>1 DEF Positions, WorkerStatus
    <3>2. QED
      BY <1>1, <1>17, <3>1, WorkerRewritten DEF SaveEnded
  <2>4. workers # <<>> => workers' # <<>>
    BY <1>1, <2>3
  <2>5. QED
    BY <1>1, <1>2, <2>1, <2>2, <2>3, <2>4 DEF Positions, AsksFor
<1>18. CASE ClearRequest
  <2>1. at["worker"] = "closing" /\ \E label \in {"none"} \cap WorkerPc : Goto("worker", label)
    BY <1>18 DEF ClearRequest, Here, WorkerPc
  <2>2. at'["worker"] \in {"none"} /\ at'["caller"] = at["caller"]
    BY <1>1, <2>1, GoWorker
  <2>3. workers' = workers /\ held' = held
    BY <1>18 DEF ClearRequest, disk
  <2>4. QED
    BY <1>1, <1>2, <2>1, <2>2, <2>3 DEF Positions, AsksFor
<1>19. QED
  BY <1>6, <1>7, <1>8, <1>9, <1>10, <1>11, <1>12, <1>13, <1>14, <1>15, <1>16, <1>17, <1>18 DEF Worker

LEMMA PositionsKept == LedgerInv /\ [Protocol]_kept => Positions'
<1> SUFFICES ASSUME LedgerInv, [Protocol]_kept PROVE Positions'
  OBVIOUS
<1>1. Positions /\ (control.open => control'.open) /\ (api = "attempts" => control' = control)
  BY OpenStays DEF LedgerInv
<1>2. CASE Caller
  BY <1>2, CallerPositions
<1>3. CASE Worker
  BY <1>3, WorkerPositions
<1>4. CASE Stored \/ Expire \/ UNCHANGED kept
  <2>1. UNCHANGED <<at, workers, held, reported, api>>
    BY <1>4 DEF Stored, Store, ReadRows, WriteRows, CountRun, Expire, kept, disk
  <2>2. QED
    BY <1>1, <2>1, SamePositions
<1>5. CASE Crash
  <2>1. /\ at'["caller"] = "idle" /\ at'["worker"] = "none"
        /\ UNCHANGED <<api, workers, control>>
    BY <1>5 DEF Crash, disk
  <2>2. QED
    BY <1>1, <2>1 DEF Positions
<1>6. QED
  BY <1>2, <1>3, <1>4, <1>5 DEF Protocol, Stored

-----------------------------------------------------------------------------
(* What a resume reports.                                                    *)

Resuming == reported.alone /\ at["caller"] \in {"clearing", "listing", "resumed"}

\* While a resume that found no Worker goes on, there is none.
LEMMA Quiet ==
    ASSUME LedgerInv, Resuming
    PROVE  at["worker"] = "none" /\ job["worker"] = NoJob /\ ~Worker
<1>1. at["worker"] = "none"
  BY DEF LedgerInv, Positions, Resuming
<1>2. QED
  BY <1>1, WritesAre, WorkerMoves

\* The callers that lead into it or go on with it.
LEMMA ResumingCaller ==
    ASSUME LedgerInv, Caller, Resuming'
    PROVE  \/ Resume /\ ~control'.open
           \/ Reconcile
           \/ ClearOnResume
           \/ ListUnresolved
<1>1. at \in Pc
  BY DEF LedgerInv, Types, PointsTyped
<1>2. CASE at'["caller"] \notin {"clearing", "listing", "resumed"}
  BY <1>2 DEF Resuming
<1>3. ASSUME UNCHANGED at, at["caller"] = "idle" PROVE FALSE
  BY <1>3 DEF Resuming
<1>4. ASSUME NEW label \in CallerPc \ {"clearing", "listing", "resumed"}, Goto("caller", label)
      PROVE  FALSE
  BY <1>1, <1>4, GoCaller DEF Resuming
<1>5. AuthorizeGeneration => FALSE
  BY <1>3 DEF AuthorizeGeneration, Here
<1>6. RegeneratePreview => FALSE
  BY <1>3 DEF RegeneratePreview, Here
<1>7. StartWorker => FALSE
  BY DEF StartWorker, Resuming
<1>8. OpenControl \/ PersistGrant \/ Execute \/ MarkStarted => FALSE
  BY <1>4 DEF OpenControl, PersistGrant, Execute, MarkStarted, CallerPc
<1>9. ReconcileGeneration \/ SaveReconciled \/ Revoke \/ Resumed => FALSE
  BY <1>4 DEF ReconcileGeneration, SaveReconciled, Revoke, Resumed, CallerPc
<1>10. PauseOrStop => FALSE
  BY <1>4 DEF PauseOrStop, CallerPc
<1>11. Resume => ~control'.open
  <2>1. ASSUME Resume, control.open PROVE FALSE
    BY <1>4, <2>1 DEF Resume, CallerPc
  <2>2. Resume => control' = control
    BY DEF Resume
  <2>3. QED
    BY <2>1, <2>2
<1>12. QED
  BY <1>5, <1>6, <1>7, <1>8, <1>9, <1>10, <1>11 DEF Caller

\* A store step of a resume: the rows of the caller, from the file as it is.
LEMMA ResumingStored ==
    ASSUME LedgerInv, Stored, Resuming
    PROVE  /\ Ready("caller") = FALSE
           /\ ReadRows("caller") \/ WriteRows("caller")
           /\ at["caller"] = "clearing"
<1>1. PICK t \in Threads : Store(t)
  BY DEF Stored
<1>2. job[t] # NoJob /\ (job[t].step # "count" \/ job[t].counts)
  BY <1>1, ThreadsAre, WritesAre DEF Store, ReadRows, WriteRows, CountRun
<1>3. t = "caller"
  BY <1>2, Quiet, ThreadsAre
<1>4. ReadRows("caller") \/ WriteRows("caller")
  BY <1>1, <1>2, <1>3, WritesAre DEF Store, CountRun
<1>5. at["caller"] = "clearing"
  BY <1>2, <1>3, WritesAre DEF Resuming
<1>6. QED
  BY <1>2, <1>3, <1>4, <1>5 DEF Ready

LEMMA ListedKept == LedgerInv /\ [Protocol]_kept => Listed'
<1> SUFFICES ASSUME LedgerInv, [Protocol]_kept, reported'.alone, at'["caller"] = "resumed"
             PROVE  reported'.ops
                      = reported'.pending \cup {o \in DOMAIN ledger' : ledger'[o] \in {"started", "unknown"}}
  BY DEF Listed
<1>1. /\ Listed /\ at \in Pc /\ reported \in Report /\ Resuming'
  BY DEF LedgerInv, Types, PointsTyped, Resuming
<1>2. CASE UNCHANGED <<at, reported, ledger>>
  BY <1>1, <1>2 DEF Listed
<1>3. CASE Caller
  <2>1. ListUnresolved
    <3>1. Resume => at'["caller"] # "resumed"
      BY <1>1, GoCaller DEF Resume, CallerPc
    <3>2. Reconcile => at'["caller"] # "resumed"
      BY <1>1, GoCaller DEF Reconcile, CallerPc
    <3>3. ClearOnResume => at'["caller"] # "resumed"
      BY <1>1, GoCaller DEF ClearOnResume, CallerPc
    <3>4. QED
      BY <1>1, <1>3, <3>1, <3>2, <3>3, ResumingCaller
  <2>2. ledger' = ledger
    BY <2>1 DEF ListUnresolved, disk
  <2>3. reported' = [reported EXCEPT !.ops =
           reported.pending \cup {o \in DOMAIN ledger : ledger[o] \in {"started", "unknown"}}]
    BY <2>1 DEF ListUnresolved
  <2>4. QED
    BY <1>1, <2>2, <2>3 DEF Report
<1>4. CASE Worker
  <2>1. reported' = reported /\ at'["caller"] = at["caller"]
    BY <1>4, WorkerMoves DEF Worker,
       Ask, LoadSlot, AuthorizeSlot, StartSlot, FindApproval, PrepareAttempt,
       AuthorizeAttempt, StartAttempt, Launch, Finish, EndWorker, SaveEnded, ClearRequest
  <2>2. QED
    BY <1>4, <2>1, Quiet DEF Resuming
<1>5. CASE Stored
  <2>1. UNCHANGED <<at, reported>>
    BY <1>5 DEF Stored, Store, ReadRows, WriteRows, CountRun
  <2>2. QED
    BY <1>5, <2>1, ResumingStored DEF Resuming
<1>6. CASE Crash
  BY <1>6 DEF Crash
<1>7. QED
  BY <1>2, <1>3, <1>4, <1>5, <1>6 DEF Protocol, Stored, Expire, kept, disk

LEMMA RowsRestoredKept == LedgerInv /\ [Protocol]_kept /\ api = "slots" => RowsRestored'
<1> SUFFICES ASSUME LedgerInv, [Protocol]_kept, api = "slots", Resuming', control'.open
             PROVE  RowsRestored'
  BY DEF RowsRestored, Resuming
<1>1. /\ RowsRestored /\ at \in Pc /\ reported \in Report /\ control \in Control
      /\ DOMAIN control.ops = DOMAIN control.slots
      /\ job \in [Threads -> Job] /\ "caller" \in Threads
  BY DEF LedgerInv, Types, PointsTyped, ControlOK, Threads
<1>2. CASE /\ UNCHANGED <<control, job, ledger>>
           /\ Resuming /\ reported'.pending = reported.pending
  BY <1>1, <1>2 DEF RowsRestored, Resuming, Ready
<1>3. CASE UNCHANGED <<at, reported, control, job, ledger>>
  BY <1>2, <1>3 DEF Resuming
<1>4. CASE Reconcile
  <2>1. /\ control' = Reconciled /\ Owe("caller", Reconciled.ops, TRUE, FALSE)
        /\ reported' = [reported EXCEPT !.pending =
                          {s \in DOMAIN control.slots : control.slots[s].status = "unknown"}]
    BY <1>4 DEF Reconcile, Commit, RowsOf
  <2>2. Reconciled \in Control /\ Reconciled.slots = BackSlots
          /\ DOMAIN BackSlots = DOMAIN control.slots
    BY <1>1, ReconciledControl
  <2>3. \A s \in DOMAIN control.slots :
          BackSlots[s].status = "unknown" <=> control.slots[s].status = "unknown"
    BY <1>1, ReconciledControl
  <2>4. reported'.pending = {s \in DOMAIN control'.slots : control'.slots[s].status = "unknown"}
    BY <1>1, <2>1, <2>2, <2>3 DEF Report
  <2>5. TRUE \in BOOLEAN /\ FALSE \in BOOLEAN /\ Reconciled.ops \in Rows
    BY <2>2, ControlFields DEF Control
  <2>6. job'["caller"].step = "read" /\ job'["caller"].update = control'.ops
    BY <1>1, <2>1, <2>5, OweTyped
  <2>7. job'["caller"] # NoJob
    BY <2>6, ThreadsAre
  <2>8. QED
    BY <2>4, <2>6, <2>7 DEF RowsRestored, Ready
<1>5. CASE ClearOnResume
  <2>1. /\ at["caller"] = "clearing" /\ UNCHANGED <<control, job, ledger, reported>>
    BY <1>5 DEF ClearOnResume, Here
  <2>2. QED
    BY <1>2, <2>1 DEF Resuming
<1>6. CASE ListUnresolved
  <2>1. /\ at["caller"] = "listing" /\ UNCHANGED <<control, job, ledger>>
        /\ reported' = [reported EXCEPT !.ops = reported.pending \cup
                      {o \in DOMAIN ledger : ledger[o] \in {"started", "unknown"}}]
    BY <1>6 DEF ListUnresolved, Here, disk
  <2>2. reported'.pending = reported.pending /\ reported'.alone = reported.alone
    BY <1>1, <2>1 DEF Report
  <2>3. QED
    BY <1>2, <2>1, <2>2 DEF Resuming
<1>7. CASE Caller
  BY <1>4, <1>5, <1>6, <1>7, ResumingCaller
<1>8. CASE Worker
  <2>1. reported' = reported /\ at'["caller"] = at["caller"]
    BY <1>8, WorkerMoves DEF Worker,
       Ask, LoadSlot, AuthorizeSlot, StartSlot, FindApproval, PrepareAttempt,
       AuthorizeAttempt, StartAttempt, Launch, Finish, EndWorker, SaveEnded, ClearRequest
  <2>2. QED
    BY <1>8, <2>1, Quiet DEF Resuming
<1>9. CASE Stored
  <2>1. UNCHANGED <<at, reported, control>>
    BY <1>9 DEF Stored, Store, ReadRows, WriteRows, CountRun, disk
  <2>2. Resuming /\ control.open
    BY <2>1 DEF Resuming
  <2>3. /\ reported.pending = {s \in DOMAIN control.slots : control.slots[s].status = "unknown"}
        /\ job["caller"].step = "read" => job["caller"].update = control.ops
        /\ job["caller"].step = "write" =>
             \A s \in DOMAIN control.ops : /\ s \in DOMAIN job["caller"].rows
                                           /\ job["caller"].rows[s] = control.ops[s]
    BY <1>1, <2>2 DEF RowsRestored, Resuming
  <2>4. CASE ReadRows("caller")
    <3> DEFINE rows == Over(job["caller"].update, ledger)
               next == [job["caller"] EXCEPT !.step = "write", !.rows = rows]
    <3>1. /\ job["caller"].step = "read" /\ job' = [job EXCEPT !["caller"] = next]
      BY <2>4 DEF ReadRows
    <3>2. job["caller"] \in Job
      BY <1>1
    <3>3. \A s \in DOMAIN control.ops : s \in DOMAIN rows /\ rows[s] = control.ops[s]
      <4>1. rows = Over(control.ops, ledger)
        BY <2>3, <3>1
      <4>2. QED
        BY <4>1, OverNew
    <3> HIDE DEF rows
    <3>4. next.step = "write" /\ next.rows = rows
      BY <3>2 DEF Job
    <3> HIDE DEF next
    <3>5. job'["caller"] = next
      BY <1>1, <3>1
    <3>6. job'["caller"] # NoJob
      BY <3>4, <3>5, ThreadsAre
    <3>7. QED
      BY <2>1, <2>3, <3>3, <3>4, <3>5, <3>6 DEF RowsRestored, Ready
  <2>5. CASE WriteRows("caller")
    <3>1. /\ job["caller"].step = "write" /\ ledger' = job["caller"].rows
          /\ job' = [job EXCEPT !["caller"] = NoJob]
      BY <2>5, WritesAre DEF WriteRows
    <3>2. job'["caller"] = NoJob /\ job'["caller"].step = "none"
      BY <1>1, <3>1, ThreadsAre
    <3>3. \A s \in DOMAIN control'.ops : s \in DOMAIN ledger' /\ ledger'[s] = control'.ops[s]
      BY <2>1, <2>3, <3>1
    <3>4. QED
      BY <2>1, <2>3, <3>2, <3>3 DEF RowsRestored
  <2>6. QED
    BY <1>9, <2>2, <2>4, <2>5, ResumingStored
<1>10. CASE Crash
  BY <1>10 DEF Crash, Resuming
<1>11. QED
  BY <1>3, <1>7, <1>8, <1>9, <1>10 DEF Protocol, Stored, Expire, kept, disk

-----------------------------------------------------------------------------
(* Launches and the run count.                                               *)

LEMMA LaunchSteps == Protocol => Launch \/ UNCHANGED launches
<1>1. Stored => UNCHANGED launches
  BY DEF Stored, Store, ReadRows, WriteRows, CountRun, history
<1>2. Caller => UNCHANGED launches
  BY DEF Caller, OpenControl, PersistGrant, AuthorizeGeneration, RegeneratePreview, Execute,
         MarkStarted, StartWorker, ReconcileGeneration, SaveReconciled, PauseOrStop, Revoke,
         Resume, Reconcile, ClearOnResume, ListUnresolved, Resumed, history
<1>3. Worker => Launch \/ UNCHANGED launches
  BY DEF Worker, Ask, LoadSlot, AuthorizeSlot, StartSlot, FindApproval, PrepareAttempt,
         AuthorizeAttempt, StartAttempt, Finish, EndWorker, SaveEnded, ClearRequest, history
<1>4. Expire \/ Crash => UNCHANGED launches
  BY DEF Expire, Crash, history
<1>5. QED
  BY <1>1, <1>2, <1>3, <1>4 DEF Protocol, Stored

LEMMA LaunchedFinite ==
    ASSUME LedgerInv
    PROVE  /\ Launched \subseteq Slots \cup Attempts /\ IsFiniteSet(Launched)
           /\ Cardinality(Launched) \in Nat
           /\ UNCHANGED launches => Launched' = Launched
<1>1. Launched \subseteq Slots \cup Attempts
  BY DEF LedgerInv, Types, FilesTyped, Launched
<1>2. IsFiniteSet(Slots \cup Attempts)
  BY LedgerAssumption, FS_Union
<1>3. QED
  BY <1>1, <1>2, FS_Subset, FS_CardinalityType DEF Launched

\* A launch is the first of its operation.
LEMMA LaunchIs ==
    ASSUME LedgerInv, Launch
    PROVE  /\ at["worker"] = "launching" /\ job["worker"] = NoJob
           /\ at'["worker"] = "launched" /\ at'["caller"] = at["caller"]
           /\ UNCHANGED <<api, enforced, control, ledger, runs, reserved, workers, job, held, revoked>>
           /\ held.op \notin Launched
           /\ Launched' = Launched \cup {held.op}
           /\ launches'[held.op] = <<held.approval>>
           /\ \A op \in Launched : launches'[op] = launches[op]
           /\ Cardinality(Launched') = Cardinality(Launched) + 1
<1>1. /\ at["worker"] = "launching" /\ job["worker"] = NoJob
      /\ Goto("worker", "launched") /\ "launched" \in WorkerPc
      /\ UNCHANGED <<api, enforced, control, ledger, runs, reserved, workers, job, held, revoked>>
      /\ launches' = [launches EXCEPT ![held.op] = Append(launches[held.op], held.approval)]
  BY DEF Launch, Here, Ready, disk, WorkerPc
<1>2. /\ at \in Pc /\ api \in {"slots", "attempts"} /\ held.approval \in Nat
      /\ launches \in [Slots \cup Attempts -> Seq(Nat)]
  BY PointsAre DEF LedgerInv, Types, FilesTyped, PointsTyped
<1>3. at'["worker"] = "launched" /\ at'["caller"] = at["caller"]
  BY <1>1, <1>2, GoWorker
<1>4. held.op \in Slots \cup Attempts
  BY <1>1 DEF LedgerInv, Positions, AsksFor
<1>5. held.op \notin Launched
  BY <1>1, <1>2 DEF LedgerInv, SlotInHand, AttemptInHand
<1>6. launches[held.op] = <<>>
  BY <1>2, <1>4, <1>5 DEF Launched
<1>7. launches'[held.op] = <<held.approval>> /\ DOMAIN launches' = DOMAIN launches
  BY <1>1, <1>2, <1>4, <1>6
<1>8. \A op \in DOMAIN launches \ {held.op} : launches'[op] = launches[op]
  BY <1>1, <1>2
<1>9. Launched' = Launched \cup {held.op}
  <2>1. <<held.approval>> # <<>>
    OBVIOUS
  <2>2. Launched' = {op \in DOMAIN launches : launches'[op] # <<>>}
    BY <1>7 DEF Launched
  <2>3. held.op \in DOMAIN launches
    BY <1>2, <1>4
  <2>4. \A op \in DOMAIN launches : launches'[op] # <<>> <=> (op \in Launched \/ op = held.op)
    BY <1>7, <1>8, <2>1 DEF Launched
  <2>5. QED
    BY <2>2, <2>3, <2>4 DEF Launched
<1>10. \A op \in Launched : launches'[op] = launches[op]
  BY <1>5, <1>8 DEF Launched
<1>11. Cardinality(Launched') = Cardinality(Launched) + 1
  <2>1. IsFiniteSet(Launched)
    BY LaunchedFinite
  <2>2. Cardinality(Launched \cup {held.op}) = Cardinality(Launched) + 1
    BY <1>5, <2>1, FS_AddElement
  <2>3. QED
    BY <1>9, <2>2
<1>12. QED
  BY <1>1, <1>3, <1>5, <1>7, <1>9, <1>10, <1>11

LEMMA CountedKept == LedgerInv /\ [Protocol]_kept => Counted'
<1> SUFFICES ASSUME LedgerInv, [Protocol]_kept PROVE Counted'
  OBVIOUS
<1>1. /\ at \in Pc /\ job \in [Threads -> Job] /\ "worker" \in Threads /\ "caller" \in Threads
      /\ runs \in Nat /\ Cardinality(Launched) \in Nat
  BY LaunchedFinite DEF LedgerInv, Types, FilesTyped, PointsTyped, Threads
<1>2. Counted
  BY DEF LedgerInv
<1>3. CASE UNCHANGED <<launches, runs>> /\ at'["worker"] # "launching"
  BY <1>1, <1>2, <1>3, LaunchedFinite DEF Counted
<1>4. CASE /\ UNCHANGED <<launches, runs>> /\ at'["worker"] = at["worker"]
           /\ job'["worker"] = job["worker"]
  BY <1>1, <1>2, <1>4, LaunchedFinite DEF Counted
<1>5. CASE Caller
  <2>1. UNCHANGED <<launches, runs>>
    BY <1>5 DEF Caller, OpenControl, PersistGrant, AuthorizeGeneration, RegeneratePreview, Execute,
         MarkStarted, StartWorker, ReconcileGeneration, SaveReconciled, PauseOrStop, Revoke,
         Resume, Reconcile, ClearOnResume, ListUnresolved, Resumed, history, disk
  <2>2. StartWorker => at'["worker"] # "launching"
    BY DEF StartWorker
  <2>3. job'["worker"] = job["worker"]
    BY <1>1, <1>5, CallerOwes, OwedKept
  <2>4. QED
    BY <1>3, <1>4, <1>5, <2>1, <2>2, <2>3, CallerMoves
<1>6. CASE Launch
  BY <1>1, <1>2, <1>6, LaunchIs, ThreadsAre DEF Counted
<1>7. CASE StartAttempt
  <2>1. /\ Goto("worker", "launching") /\ "launching" \in WorkerPc /\ at["worker"] = "authorized"
        /\ runs' = runs + 1 /\ UNCHANGED launches
    BY <1>7 DEF StartAttempt, Here, WorkerPc, history
  <2>2. at["worker"] # "launching"
    BY <2>1
  <2>3. QED
    BY <1>1, <1>2, <2>1, <2>2, LaunchedFinite DEF Counted
<1>8. CASE StartSlot
  <2>1. /\ UNCHANGED <<launches, runs>> /\ at["worker"] = "authorized"
        /\ \/ Goto("worker", "run")
           \/ \E update : Owe("worker", update, TRUE, TRUE)
    BY <1>8 DEF StartSlot, Here, Commit, history
  <2>2. Goto("worker", "run") => at'["worker"] # "launching"
    BY <1>1, GoWorker DEF WorkerPc
  <2>3. ASSUME NEW update, Owe("worker", update, TRUE, TRUE) PROVE job'["worker"].counts
    BY <1>1, <2>3 DEF Owe
  <2>4. CASE job'["worker"].counts
    BY <1>1, <1>2, <2>1, <2>4, LaunchedFinite DEF Counted
  <2>5. QED
    BY <1>3, <2>1, <2>2, <2>3, <2>4
<1>9. CASE Worker /\ ~Launch /\ ~StartAttempt /\ ~StartSlot
  <2>1. UNCHANGED <<launches, runs>>
    BY <1>9 DEF Worker, Ask, LoadSlot, AuthorizeSlot, FindApproval, PrepareAttempt,
         AuthorizeAttempt, Finish, EndWorker, SaveEnded, ClearRequest, history, disk
  <2>2. \E label \in WorkerPc \ {"launching"} : Goto("worker", label)
    BY <1>9 DEF Worker, Ask, LoadSlot, AuthorizeSlot, FindApproval, PrepareAttempt,
         AuthorizeAttempt, Finish, EndWorker, SaveEnded, ClearRequest, WorkerPc
  <2>3. at'["worker"] # "launching"
    BY <1>1, <2>2, GoWorker
  <2>4. QED
    BY <1>3, <2>1, <2>3
<1>10. CASE Stored
  <2>1. PICK t \in Threads : Store(t)
    BY <1>10 DEF Stored
  <2>2. UNCHANGED <<at, launches>>
    BY <2>1 DEF Store, ReadRows, WriteRows, CountRun, history
  <2>3. CASE CountRun(t)
    <3>1. runs' = runs + 1
      BY <2>3 DEF CountRun
    <3>2. job[t].step = "count"
      BY <2>3 DEF CountRun
    <3>3. t = "worker" /\ job["worker"].counts
      BY <3>2, WritesAre
    <3>4. QED
      BY <1>1, <1>2, <2>2, <3>1, <3>3, LaunchedFinite DEF Counted
  <2>4. CASE ReadRows(t) \/ WriteRows(t)
    <3>1. runs' = runs
      BY <2>4 DEF ReadRows, WriteRows, disk
    <3>2. job'["worker"].counts = job["worker"].counts
      <4>1. job["worker"] \in Job
        BY <1>1
      <4>2. \A rows : [job["worker"] EXCEPT !.step = "write", !.rows = rows].counts = job["worker"].counts
        BY <4>1 DEF Job
      <4>3. [job["worker"] EXCEPT !.step = "count"].counts = job["worker"].counts
        BY <4>1 DEF Job
      <4>4. job["worker"].counts \in BOOLEAN
        BY <4>1 DEF Job
      <4>5. ReadRows(t) => job'["worker"].counts = job["worker"].counts
        BY <1>1, <4>2 DEF ReadRows
      <4>6. WriteRows(t) => job'["worker"].counts = job["worker"].counts
        <5>1. ASSUME WriteRows(t), t = "worker", job["worker"].counts
              PROVE  job'["worker"].counts = job["worker"].counts
          BY <1>1, <4>3, <5>1 DEF WriteRows
        <5>2. ASSUME WriteRows(t), t = "worker", ~job["worker"].counts
              PROVE  job'["worker"].counts = job["worker"].counts
          <6>1. job'["worker"] = NoJob
            BY <1>1, <5>2 DEF WriteRows
          <6>2. job["worker"].counts = FALSE /\ NoJob.counts = FALSE
            BY <4>4, <5>2 DEF NoJob
          <6>3. QED
            BY <6>1, <6>2
        <5>3. ASSUME WriteRows(t), t # "worker" PROVE job'["worker"].counts = job["worker"].counts
          BY <1>1, <5>3 DEF WriteRows
        <5>4. QED
          BY <5>1, <5>2, <5>3
      <4>7. QED
        BY <2>4, <4>5, <4>6
    <3>3. QED
      BY <1>1, <1>2, <2>2, <3>1, <3>2, LaunchedFinite DEF Counted
  <2>5. QED
    BY <2>1, <2>3, <2>4 DEF Store
<1>11. CASE Expire \/ UNCHANGED kept
  BY <1>4, <1>11 DEF Expire, kept, disk, history
<1>12. CASE Crash
  BY <1>3, <1>12 DEF Crash, disk, history
<1>13. QED
  BY <1>5, <1>6, <1>7, <1>8, <1>9, <1>10, <1>11, <1>12 DEF Protocol, Stored

-----------------------------------------------------------------------------
(* The accounts of a Campaign with attempt slots.                            *)

LEMMA SlotSets ==
    ASSUME LedgerInv
    PROVE  /\ IsFiniteSet(DOMAIN control.slots)
           /\ IsFiniteSet(UsedSlots) /\ Cardinality(UsedSlots) \in Nat
           /\ \A g : IsFiniteSet(PaidBy(g)) /\ Cardinality(PaidBy(g)) \in Nat
<1>1. IsFiniteSet(DOMAIN control.slots)
  BY LedgerAssumption, ControlFields, FS_EmptySet DEF LedgerInv, Types
<1>2. UsedSlots \in SUBSET DOMAIN control.slots
  BY DEF UsedSlots
<1>3. \A g : PaidBy(g) \in SUBSET DOMAIN control.slots
  BY DEF PaidBy
<1>4. IsFiniteSet(UsedSlots)
  BY <1>1, <1>2, FS_Subset
<1>5. \A g : IsFiniteSet(PaidBy(g))
  BY <1>1, <1>3, FS_Subset
<1>6. QED
  BY <1>1, <1>4, <1>5, FS_CardinalityType

\* What the accounts say, with what it takes to read them.
LEMMA AccountsAre ==
    ASSUME LedgerInv, api = "slots"
    PROVE  /\ control \in Control /\ DOMAIN control.ops = DOMAIN control.slots
           /\ control.started \in Nat /\ Len(control.grants) \in Nat
           /\ \A op \in Launched : /\ op \in UsedSlots
                                   /\ launches[op] = <<control.slots[op].approval>>
           /\ \A s \in UsedSlots : control.ops[s] = control.slots[s].status
           /\ \A s \in DOMAIN control.slots :
                control.slots[s].status # "available" => control.slots[s].approval # 0
           /\ \A g \in 1..Len(control.grants) :
                /\ Cardinality(PaidBy(g)) <= control.grants[g].authorized
                /\ control.grants[g].authorized \in Nat
           /\ Cardinality(UsedSlots) <= control.started
           /\ enforced => control.started <= MaxRuns
<1>1. control \in Control /\ DOMAIN control.ops = DOMAIN control.slots /\ SlotsAccounted
  BY DEF LedgerInv, Types, ControlOK
<1>2. control.started \in Nat /\ Len(control.grants) \in Nat
  BY <1>1, ControlFields
<1>3. \A g \in 1..Len(control.grants) : control.grants[g].authorized \in Nat
  <2>1. \A g \in 1..Len(control.grants) : control.grants[g] \in Grant
    BY <1>1, ControlFields
  <2>2. \A g \in 1..Len(control.grants) : control.grants[g].authorized \in 0..Cap
    BY <2>1, GrantTyped
  <2>3. QED
    BY <2>2, CapNat
<1>4. QED
  BY <1>1, <1>2, <1>3 DEF SlotsAccounted

LEMMA LaunchAccounted == LedgerInv /\ api = "slots" /\ Launch => SlotsAccounted'
<1> SUFFICES ASSUME LedgerInv, api = "slots", Launch PROVE SlotsAccounted'
  OBVIOUS
<1>1. /\ UNCHANGED <<control, enforced>>
      /\ Launched' = Launched \cup {held.op}
      /\ launches'[held.op] = <<held.approval>>
      /\ \A op \in Launched : launches'[op] = launches[op]
      /\ at["worker"] = "launching"
  BY LaunchIs
<1>2. /\ held.op \in UsedSlots /\ control.slots[held.op].approval = held.approval
  BY <1>1 DEF LedgerInv, SlotInHand, UsedSlots, Used
<1>3. UsedSlots' = UsedSlots
  BY <1>1 DEF UsedSlots
<1>4. \A g : PaidBy(g)' = PaidBy(g)
  BY <1>1 DEF PaidBy
<1>5. SlotsAccounted
  BY DEF LedgerInv
<1>6. \A op \in Launched' : op \in UsedSlots' /\ launches'[op] = <<control'.slots[op].approval>>
  BY <1>1, <1>2, <1>3, <1>5 DEF SlotsAccounted
<1>7. QED
  BY <1>1, <1>3, <1>4, <1>5, <1>6 DEF SlotsAccounted

\* A writer that leaves the used slots as they are, and lets each grant pay for
\* no more than it now says.
LEMMA AccountsCarried ==
    ASSUME LedgerInv, api = "slots", UNCHANGED <<launches, enforced>>,
           control'.started = control.started,
           Len(control'.grants) \in Nat,
           UsedSlots' = UsedSlots,
           \A s \in UsedSlots : control'.slots[s].approval = control.slots[s].approval,
           \A s \in UsedSlots : control'.ops[s] = control'.slots[s].status,
           \A s \in DOMAIN control'.slots :
             control'.slots[s].status # "available" => control'.slots[s].approval # 0,
           \A g \in 1..Len(control'.grants) :
             Cardinality(PaidBy(g)') <= control'.grants[g].authorized
    PROVE  SlotsAccounted'
<1>1. Launched' = Launched
  BY LaunchedFinite
<1>2. \A op \in Launched' : op \in UsedSlots' /\ launches'[op] = <<control'.slots[op].approval>>
  BY <1>1, AccountsAre
<1>3. QED
  BY <1>1, <1>2, AccountsAre DEF SlotsAccounted

LEMMA CallerAccounts ==
    LedgerInv /\ (Opens \/ Grants \/ Revokes \/ Reconciles) => SlotsAccounted'
<1> SUFFICES ASSUME LedgerInv, Opens \/ Grants \/ Revokes \/ Reconciles PROVE SlotsAccounted'
  OBVIOUS
<1>1. api = "slots" /\ UNCHANGED <<launches, enforced>>
  BY DEF Opens, Grants, Revokes, Reconciles, OpenControl, PersistGrant, Revoke, Reconcile, history
<1>2. control \in Control /\ DOMAIN control.ops = DOMAIN control.slots
  BY DEF LedgerInv, Types, ControlOK
<1>3. CASE Opens
  <2>1. /\ control'.started = control.started /\ control'.grants = control.grants
        /\ control'.slots = control.slots /\ control'.ops = control.ops
    BY <1>2, <1>3, OpenedControl DEF Opens
  <2>2. UsedSlots' = UsedSlots /\ \A g : PaidBy(g)' = PaidBy(g)
    BY <2>1 DEF UsedSlots, PaidBy
  <2>3. QED
    BY <1>1, <2>1, <2>2, AccountsAre, AccountsCarried DEF UsedSlots
<1>4. CASE Grants
  <2>1. /\ control'.started = control.started /\ control'.grants = NewGrants
        /\ control'.slots = NewSlots
        /\ \A s \in DOMAIN control.slots : control.slots[s].status = "available"
    BY <1>2, <1>4, GrantedControl DEF Grants
  <2>2. UsedSlots = {}
    BY <2>1 DEF UsedSlots, Used
  <2>3. UsedSlots' = {} /\ \A g : PaidBy(g)' = {}
    BY <1>2, <2>1, GrantedControl DEF UsedSlots, Used, PaidBy
  <2>4. control' \in Control
    BY <1>4, ControlWrittenKept DEF ControlWritten
  <2>5. Len(control'.grants) \in Nat
          /\ \A g \in 1..Len(control'.grants) : control'.grants[g].authorized \in Nat
    <3>1. Len(control'.grants) \in Nat /\ \A g \in 1..Len(control'.grants) : control'.grants[g] \in Grant
      BY <2>4 DEF Control
    <3>2. \A g \in 1..Len(control'.grants) : control'.grants[g].authorized \in 0..Cap
      BY <3>1, GrantTyped
    <3>3. QED
      BY <3>1, <3>2, CapNat
  <2>6. \A g \in 1..Len(control'.grants) : Cardinality(PaidBy(g)') <= control'.grants[g].authorized
    <3>1. Cardinality({}) = 0
      BY FS_EmptySet
    <3>2. \A g : Cardinality(PaidBy(g)') = 0
      BY <2>3, <3>1
    <3>3. QED
      BY <2>5, <3>2
  <2>7. \A s \in DOMAIN control'.slots : control'.slots[s].status = "available"
    BY <1>2, <2>1, GrantedControl
  <2>8. QED
    BY <1>1, <2>1, <2>2, <2>3, <2>5, <2>6, <2>7, AccountsCarried
<1>5. CASE Revokes
  <2>1. /\ control'.started = control.started /\ control'.grants = NoneLeft
        /\ control'.slots = control.slots /\ control'.ops = control.ops
    BY <1>2, <1>5, InvalidatedControl DEF Revokes
  <2>2. UsedSlots' = UsedSlots /\ \A g : PaidBy(g)' = PaidBy(g)
    BY <2>1 DEF UsedSlots, PaidBy
  <2>3. Len(NoneLeft) = Len(control.grants)
          /\ \A g \in 1..Len(control.grants) : NoneLeft[g].authorized = control.grants[g].authorized
    BY <1>2, InvalidatedGrants
  <2>4. QED
    BY <1>1, <2>1, <2>2, <2>3, AccountsAre, AccountsCarried DEF UsedSlots
<1>6. CASE Reconciles
  <2>1. /\ control'.started = control.started /\ control'.grants = NoneLeft
        /\ control'.slots = BackSlots /\ control'.ops = BackOps
        /\ DOMAIN BackSlots = DOMAIN control.slots
    BY <1>2, <1>6, ReconciledControl DEF Reconciles
  <2>2. \A s \in DOMAIN control.slots :
          IF control.slots[s].status = "authorized"
          THEN BackSlots[s].status = "available" /\ BackSlots[s].approval = 0
          ELSE BackSlots[s] = control.slots[s] /\ BackOps[s] = control.ops[s]
    BY <1>2, ReconciledControl
  <2>3. UsedSlots' = UsedSlots
    BY <2>1, <2>2 DEF UsedSlots, Used
  <2>4. \A s \in UsedSlots : BackSlots[s] = control.slots[s] /\ BackOps[s] = control.ops[s]
    BY <2>2 DEF UsedSlots, Used
  <2>5. \A s \in DOMAIN BackSlots : BackSlots[s].status # "available" => BackSlots[s].approval # 0
    BY <1>1, <2>1, <2>2, AccountsAre
  <2>6. \A g : PaidBy(g)' \in SUBSET PaidBy(g)
    BY <2>1, <2>2 DEF PaidBy
  <2>7. \A g : Cardinality(PaidBy(g)') \in Nat /\ Cardinality(PaidBy(g)') <= Cardinality(PaidBy(g))
    BY <2>6, SlotSets, FS_Subset, FS_CardinalityType
  <2>8. Len(NoneLeft) = Len(control.grants)
          /\ \A g \in 1..Len(control.grants) : NoneLeft[g].authorized = control.grants[g].authorized
    BY <1>2, InvalidatedGrants
  <2>9. \A g \in 1..Len(NoneLeft) : Cardinality(PaidBy(g)') <= NoneLeft[g].authorized
    BY <1>1, <2>7, <2>8, AccountsAre, SlotSets
  <2>10. \A s \in UsedSlots : BackOps[s] = BackSlots[s].status
    BY <1>1, <2>4, AccountsAre
  <2>11. QED
    BY <1>1, <2>1, <2>3, <2>4, <2>5, <2>8, <2>9, <2>10, AccountsAre, AccountsCarried
<1>7. QED
  BY <1>3, <1>4, <1>5, <1>6

LEMMA AuthorizeAccounts == LedgerInv /\ Authorizes => SlotsAccounted'
<1> SUFFICES ASSUME LedgerInv, Authorizes PROVE SlotsAccounted'
  OBVIOUS
<1>1. PICK op, g : op = held.op /\ g = held.approval
  OBVIOUS
<1>2. /\ api = "slots" /\ UNCHANGED <<launches, enforced>>
      /\ op \in DOMAIN control.slots /\ g \in 1..Len(control.grants)
      /\ control.slots[op].status = "available" /\ control.grants[g].authorized < Cap
      /\ control' = AuthorizedSlot(op, g)
  BY <1>1 DEF Authorizes, AuthorizeSlot, history
<1>3. control \in Control /\ DOMAIN control.ops = DOMAIN control.slots
  BY DEF LedgerInv, Types, ControlOK
<1>4. /\ control'.started = control.started /\ Len(control'.grants) = Len(control.grants)
      /\ DOMAIN control'.slots = DOMAIN control.slots
      /\ control'.slots[op].status = "authorized" /\ control'.slots[op].approval = g
  BY <1>2, <1>3, AuthorizedControl
<1>5. \A h \in 1..Len(control.grants) :
        control'.grants[h].authorized = control.grants[h].authorized + (IF h = g THEN 1 ELSE 0)
  BY <1>2, <1>3, AuthorizedControl
<1>6. \A s \in DOMAIN control.slots \ {op} :
        control'.slots[s] = control.slots[s] /\ control'.ops[s] = control.ops[s]
  BY <1>2, <1>3, AuthorizedControl
<1>7. UsedSlots' = UsedSlots /\ op \notin UsedSlots
  BY <1>2, <1>4, <1>6 DEF UsedSlots, Used
<1>8. PaidBy(g)' = PaidBy(g) \cup {op}
  BY <1>2, <1>4, <1>6 DEF PaidBy
<1>9. \A h : h # g => PaidBy(h)' = PaidBy(h)
  BY <1>2, <1>4, <1>6 DEF PaidBy
<1>10. op \notin PaidBy(g)
  BY <1>2 DEF PaidBy
<1>11. Cardinality(PaidBy(g)') = Cardinality(PaidBy(g)) + 1
  <2>1. IsFiniteSet(PaidBy(g))
    BY SlotSets
  <2>2. Cardinality(PaidBy(g) \cup {op}) = Cardinality(PaidBy(g)) + 1
    BY <1>10, <2>1, FS_AddElement
  <2>3. QED
    BY <1>8, <2>2
<1>12. \A h \in 1..Len(control'.grants) : Cardinality(PaidBy(h)') <= control'.grants[h].authorized
  <2> TAKE h \in 1..Len(control'.grants)
  <2>1. /\ h \in 1..Len(control.grants) /\ Cardinality(PaidBy(h)) \in Nat
        /\ Cardinality(PaidBy(h)) <= control.grants[h].authorized
        /\ control.grants[h].authorized \in Nat
    BY <1>2, <1>4, AccountsAre, SlotSets
  <2>2. CASE h = g
    BY <1>5, <1>11, <2>1, <2>2
  <2>3. CASE h # g
    BY <1>5, <1>9, <2>1, <2>3
  <2>4. QED
    BY <2>2, <2>3
<1>13. \A s \in DOMAIN control'.slots :
         control'.slots[s].status # "available" => control'.slots[s].approval # 0
  BY <1>2, <1>4, <1>6, AccountsAre
<1>14. \A s \in UsedSlots : s \in DOMAIN control.slots \ {op}
  BY <1>7 DEF UsedSlots
<1>15. QED
  BY <1>2, <1>4, <1>6, <1>7, <1>12, <1>13, <1>14, AccountsAre, AccountsCarried

LEMMA EndAccounts == LedgerInv /\ Ends => SlotsAccounted'
<1> SUFFICES ASSUME LedgerInv, Ends PROVE SlotsAccounted'
  OBVIOUS
<1> DEFINE op == held.op
<1>1. PICK end \in EndStatus : control' = EndedSlot(op, end)
  BY DEF Ends
<1>2. /\ api = "slots" /\ UNCHANGED <<launches, enforced>>
      /\ op \in DOMAIN control.slots /\ at["worker"] = "launched"
  BY DEF Ends, Finish, history
<1>3. control.slots[op].status = "started"
  BY <1>2 DEF LedgerInv, SlotInHand
<1>4. control \in Control /\ DOMAIN control.ops = DOMAIN control.slots
  BY DEF LedgerInv, Types, ControlOK
<1> HIDE DEF op
<1>5. /\ control'.started = control.started /\ control'.grants = control.grants
      /\ DOMAIN control'.slots = DOMAIN control.slots
      /\ control'.slots[op].status = end /\ control'.slots[op].approval = control.slots[op].approval
      /\ control'.ops[op] = end
      /\ \A s \in DOMAIN control.slots \ {op} :
           control'.slots[s] = control.slots[s] /\ control'.ops[s] = control.ops[s]
  BY <1>1, <1>2, <1>4, EndedControl
<1>6. end \in Used /\ end # "available" /\ op \in UsedSlots
  BY <1>2, <1>3 DEF EndStatus, Used, UsedSlots
<1>7. UsedSlots' = UsedSlots
  BY <1>2, <1>5, <1>6 DEF UsedSlots
<1>8. \A g : PaidBy(g)' = PaidBy(g)
  BY <1>3, <1>5, <1>6 DEF PaidBy
<1>9. \A s \in UsedSlots : s \in DOMAIN control.slots
  BY DEF UsedSlots
<1>10. \A s \in UsedSlots : /\ control'.slots[s].approval = control.slots[s].approval
                            /\ control'.ops[s] = control'.slots[s].status
  BY <1>2, <1>5, <1>9, AccountsAre
<1>11. \A s \in DOMAIN control'.slots :
         control'.slots[s].status # "available" => control'.slots[s].approval # 0
  BY <1>2, <1>3, <1>5, AccountsAre
<1>12. QED
  BY <1>2, <1>5, <1>7, <1>8, <1>10, <1>11, AccountsAre, AccountsCarried

LEMMA StartAccounts == LedgerInv /\ Starts => SlotsAccounted'
<1> SUFFICES ASSUME LedgerInv, Starts PROVE SlotsAccounted'
  OBVIOUS
<1> DEFINE op == held.op
<1>1. /\ api = "slots" /\ UNCHANGED <<launches, enforced>>
      /\ op \in DOMAIN control.slots /\ at["worker"] = "authorized"
      /\ control.slots[op].status = "authorized"
      /\ control' = StartedSlot(op)
  BY DEF Starts, StartSlot, history
<1>2. control \in Control /\ DOMAIN control.ops = DOMAIN control.slots
  BY DEF LedgerInv, Types, ControlOK
<1>3. enforced => control.started < MaxRuns
  BY <1>1 DEF LedgerInv, SlotInHand
<1> HIDE DEF op
<1>4. /\ control'.started = control.started + 1 /\ control'.grants = control.grants
      /\ DOMAIN control'.slots = DOMAIN control.slots
      /\ control'.slots[op].status = "started"
      /\ control'.slots[op].approval = control.slots[op].approval
      /\ control'.ops[op] = "started"
      /\ \A s \in DOMAIN control.slots \ {op} :
           control'.slots[s] = control.slots[s] /\ control'.ops[s] = control.ops[s]
  BY <1>1, <1>2, StartedControl
<1>5. UsedSlots' = UsedSlots \cup {op} /\ op \notin UsedSlots
  BY <1>1, <1>4 DEF UsedSlots, Used
<1>6. \A g : PaidBy(g)' = PaidBy(g)
  BY <1>1, <1>4 DEF PaidBy
<1>7. Launched' = Launched
  BY <1>1, LaunchedFinite
<1>8. \A s \in UsedSlots : s \in DOMAIN control.slots \ {op}
  BY <1>5 DEF UsedSlots
<1>9. \A o \in Launched' : o \in UsedSlots' /\ launches'[o] = <<control'.slots[o].approval>>
  BY <1>1, <1>4, <1>5, <1>7, <1>8, AccountsAre
<1>10. \A s \in UsedSlots' : control'.ops[s] = control'.slots[s].status
  BY <1>1, <1>4, <1>5, <1>8, AccountsAre
<1>11. \A s \in DOMAIN control'.slots :
         control'.slots[s].status # "available" => control'.slots[s].approval # 0
  BY <1>1, <1>4, AccountsAre
<1>12. \A g \in 1..Len(control'.grants) : Cardinality(PaidBy(g)') <= control'.grants[g].authorized
  BY <1>1, <1>4, <1>6, AccountsAre
<1>13. Cardinality(UsedSlots') <= control'.started
  <2>1. Cardinality(UsedSlots \cup {op}) = Cardinality(UsedSlots) + 1
    BY <1>5, SlotSets, FS_AddElement
  <2>2. QED
    BY <1>1, <1>4, <1>5, <2>1, AccountsAre, SlotSets
<1>14. enforced' => control'.started <= MaxRuns
  BY <1>1, <1>3, <1>4, AccountsAre, CapNat
<1>15. QED
  BY <1>9, <1>10, <1>11, <1>12, <1>13, <1>14 DEF SlotsAccounted

LEMMA SlotsAccountedKept == LedgerInv /\ [Protocol]_kept /\ api = "slots" => SlotsAccounted'
<1> SUFFICES ASSUME LedgerInv, [Protocol]_kept, api = "slots" PROVE SlotsAccounted'
  OBVIOUS
<1>1. SlotsAccounted
  BY DEF LedgerInv
<1>2. CASE UNCHANGED <<control, launches>>
  <2>1. enforced' = enforced
    BY EnforcedStays
  <2>2. QED
    BY <1>1, <1>2, <2>1 DEF SlotsAccounted, UsedSlots, PaidBy, Launched
<1>3. CASE Launch
  BY <1>3, LaunchAccounted
<1>4. CASE ControlWritten
  BY <1>4, CallerAccounts, AuthorizeAccounts, StartAccounts, EndAccounts DEF ControlWritten
<1>5. QED
  BY <1>2, <1>3, <1>4, LaunchSteps, ControlSteps, ControlWrites DEF kept, disk, history

-----------------------------------------------------------------------------
(* The slot the Worker has in hand.                                          *)

HandBusy == at["worker"] \in {"loaded", "authorized", "launching", "launched"}

\* What the caller may do to the control state while the Worker has a slot in
\* hand: more grants, more slots, and a slot taken back.
LEMMA HandCarried ==
    ASSUME LedgerInv, api = "slots", UNCHANGED <<held, launches, enforced>>,
           HandBusy' => at'["worker"] = at["worker"],
           control'.started = control.started,
           Len(control'.grants) \in Nat, Len(control.grants) <= Len(control'.grants),
           \A s \in DOMAIN control.slots :
             /\ s \in DOMAIN control'.slots
             /\ control'.slots[s].status = "authorized" \/ control.slots[s].status = "started"
                  => control'.slots[s] = control.slots[s]
    PROVE  SlotInHand'
<1>1. SlotInHand /\ control \in Control
  BY DEF LedgerInv, Types
<1>2. Launched' = Launched
  BY LaunchedFinite
<1>3. Len(control.grants) \in Nat
  BY <1>1, ControlFields
<1>4. CASE ~HandBusy'
  BY <1>4 DEF SlotInHand, HandBusy
<1>5. CASE HandBusy'
  <2>1. /\ at'["worker"] = at["worker"] /\ held.op \in DOMAIN control.slots
        /\ held.approval \in 1..Len(control.grants)
    BY <1>1, <1>5 DEF HandBusy, SlotInHand
  <2>2. /\ held.op \in DOMAIN control'.slots
        /\ control'.slots[held.op].status = "authorized" \/ control.slots[held.op].status = "started"
             => control'.slots[held.op] = control.slots[held.op]
    BY <2>1
  <2>3. held.approval \in 1..Len(control'.grants)
    BY <1>3, <2>1
  <2>4. at["worker"] = "authorized" =>
          /\ enforced => control'.started < MaxRuns
          /\ control'.slots[held.op].status = "authorized" =>
               control'.slots[held.op].approval = held.approval
    BY <1>1, <2>2 DEF SlotInHand
  <2>5. at["worker"] \in {"launching", "launched"} =>
          /\ control'.slots[held.op].status = "started"
          /\ control'.slots[held.op].approval = held.approval
    BY <1>1, <2>2 DEF SlotInHand
  <2>6. at["worker"] = "launching" => held.op \notin Launched'
    BY <1>1, <1>2 DEF SlotInHand
  <2>7. QED
    BY <2>1, <2>2, <2>3, <2>4, <2>5, <2>6 DEF SlotInHand
<1>6. QED
  BY <1>4, <1>5

LEMMA CallerHand ==
    ASSUME LedgerInv, Opens \/ Grants \/ Revokes \/ Reconciles,
           HandBusy' => at'["worker"] = at["worker"]
    PROVE  SlotInHand'
<1>1. api = "slots" /\ UNCHANGED <<held, launches, enforced>>
  BY DEF Opens, Grants, Revokes, Reconciles, OpenControl, PersistGrant, Revoke, Reconcile, history
<1>2. control \in Control /\ DOMAIN control.ops = DOMAIN control.slots
  BY DEF LedgerInv, Types, ControlOK
<1>3. Len(control.grants) \in Nat
  BY <1>2, ControlFields
<1>4. CASE Opens
  <2>1. /\ control'.started = control.started /\ control'.grants = control.grants
        /\ control'.slots = control.slots
    BY <1>2, <1>4, OpenedControl DEF Opens
  <2>2. QED
    BY <1>1, <1>3, <2>1, HandCarried
<1>5. CASE Grants
  <2>1. /\ control'.started = control.started /\ control'.grants = NewGrants
        /\ control'.slots = NewSlots
        /\ \A s \in DOMAIN control.slots : control.slots[s].status = "available"
    BY <1>2, <1>5, GrantedControl DEF Grants
  <2>2. Len(NewGrants) = Len(control.grants) + 1
    BY <1>2, GrantedControl
  <2>3. DOMAIN control.slots \subseteq Slots /\ DOMAIN NewSlots = Slots
    BY <1>2, ControlFields, GrantedControl
  <2>4. \A s \in DOMAIN control.slots : NewSlots[s].status = "available"
    BY <1>2, <2>3, GrantedControl
  <2>5. QED
    BY <1>1, <1>3, <2>1, <2>2, <2>3, <2>4, HandCarried
<1>6. CASE Revokes
  <2>1. /\ control'.started = control.started /\ control'.grants = NoneLeft
        /\ control'.slots = control.slots
    BY <1>2, <1>6, InvalidatedControl DEF Revokes
  <2>2. Len(NoneLeft) = Len(control.grants)
    BY <1>2, InvalidatedGrants
  <2>3. QED
    BY <1>1, <1>3, <2>1, <2>2, HandCarried
<1>7. CASE Reconciles
  <2>1. /\ control'.started = control.started /\ control'.grants = NoneLeft
        /\ control'.slots = BackSlots /\ DOMAIN BackSlots = DOMAIN control.slots
    BY <1>2, <1>7, ReconciledControl DEF Reconciles
  <2>2. \A s \in DOMAIN control.slots :
          IF control.slots[s].status = "authorized"
          THEN BackSlots[s].status = "available" ELSE BackSlots[s] = control.slots[s]
    BY <1>2, ReconciledControl
  <2>3. Len(NoneLeft) = Len(control.grants)
    BY <1>2, InvalidatedGrants
  <2>4. QED
    BY <1>1, <1>3, <2>1, <2>2, <2>3, HandCarried
<1>8. QED
  BY <1>4, <1>5, <1>6, <1>7

LEMMA WorkerHand == LedgerInv /\ Worker /\ api = "slots" => SlotInHand'
<1> SUFFICES ASSUME LedgerInv, Worker, api = "slots" PROVE SlotInHand'
  OBVIOUS
<1>1. /\ at \in Pc /\ held \in Hand /\ control \in Control /\ SlotInHand
      /\ DOMAIN control.ops = DOMAIN control.slots
      /\ \A s \in DOMAIN control.slots : control.slots[s].approval <= Len(control.grants)
      /\ enforced' = enforced
  BY EnforcedStays DEF LedgerInv, Types, PointsTyped, ControlOK, Protocol
<1>2. CASE at'["worker"] \notin {"loaded", "authorized", "launching", "launched"}
  BY <1>2 DEF SlotInHand
<1>3. CASE LoadSlot /\ HandBusy'
  <2>1. /\ held.op \in DOMAIN control.slots /\ control.slots[held.op].approval # 0
        /\ held' = [held EXCEPT !.approval = control.slots[held.op].approval]
        /\ Goto("worker", "loaded") /\ control' = control
    BY <1>1, <1>3, GoWorker DEF LoadSlot, HandBusy, WorkerPc, disk
  <2>2. at'["worker"] = "loaded"
    BY <1>1, <2>1, GoWorker DEF WorkerPc
  <2>3. control.slots[held.op].approval \in Nat /\ Len(control.grants) \in Nat
    <3>1. control.slots[held.op] \in Slot
      BY <1>1, <2>1, ControlFields
    <3>2. QED
      BY <1>1, <3>1, ControlFields DEF Slot
  <2>4. held'.op = held.op /\ held'.approval = control.slots[held.op].approval
    BY <1>1, <2>1 DEF Hand
  <2>5. held'.approval \in 1..Len(control.grants)
    BY <1>1, <2>1, <2>3, <2>4
  <2>6. QED
    BY <2>1, <2>2, <2>4, <2>5 DEF SlotInHand
<1>4. CASE AuthorizeSlot /\ HandBusy'
  <2>1. Authorizes
    <3>1. ~Goto("worker", "run")
      BY <1>1, <1>4, GoWorker DEF HandBusy, WorkerPc
    <3>2. held.op \in DOMAIN control.slots /\ held.approval \in 1..Len(control.grants)
      BY <1>1, <1>4 DEF AuthorizeSlot, Here, SlotInHand
    <3>3. QED
      BY <1>4, <3>1, <3>2 DEF AuthorizeSlot, AuthorizedSlot, Commit, Here, history, Authorizes
  <2>2. /\ at'["worker"] = "authorized" /\ held' = held
        /\ held.op \in DOMAIN control.slots /\ held.approval \in 1..Len(control.grants)
        /\ control.grants[held.approval].authorized < Cap
        /\ control' = AuthorizedSlot(held.op, held.approval)
        /\ enforced => control.started < MaxRuns
    BY <1>1, <2>1, GoWorker DEF Authorizes, WorkerPc, RunsLeft
  <2>3. /\ control'.started = control.started /\ Len(control'.grants) = Len(control.grants)
        /\ DOMAIN control'.slots = DOMAIN control.slots
        /\ control'.slots[held.op].approval = held.approval
    BY <1>1, <2>2, AuthorizedControl
  <2>4. QED
    BY <1>1, <2>2, <2>3 DEF SlotInHand
<1>5. CASE StartSlot /\ HandBusy'
  <2>1. Starts
    <3>1. ~Goto("worker", "run")
      BY <1>1, <1>5, GoWorker DEF HandBusy, WorkerPc
    <3>2. held.op \in DOMAIN control.slots
      BY <1>1, <1>5 DEF StartSlot, Here, SlotInHand
    <3>3. QED
      BY <1>5, <3>1, <3>2 DEF StartSlot, StartedSlot, Commit, Here, history, Starts
  <2>2. /\ at'["worker"] = "launching" /\ held' = held /\ at["worker"] = "authorized"
        /\ held.op \in DOMAIN control.slots /\ control.slots[held.op].status = "authorized"
        /\ control' = StartedSlot(held.op)
    BY <1>1, <2>1, GoWorker DEF Starts, WorkerPc
  <2>3. /\ held.approval \in 1..Len(control.grants)
        /\ control.slots[held.op].approval = held.approval
    BY <1>1, <2>2 DEF SlotInHand
  <2>4. /\ control'.grants = control.grants
        /\ DOMAIN control'.slots = DOMAIN control.slots
        /\ control'.slots[held.op].status = "started"
        /\ control'.slots[held.op].approval = control.slots[held.op].approval
    BY <1>1, <2>2, StartedControl
  <2>5. held.op \notin Launched'
    <3>1. Launched' = Launched
      BY <1>5, LaunchedFinite DEF StartSlot, history
    <3>2. held.op \notin UsedSlots
      BY <2>2 DEF UsedSlots, Used
    <3>3. QED
      BY <3>1, <3>2, AccountsAre
  <2>6. QED
    BY <2>2, <2>3, <2>4, <2>5 DEF SlotInHand
<1>6. CASE Launch
  <2>1. /\ at["worker"] = "launching" /\ at'["worker"] = "launched"
        /\ UNCHANGED <<control, held>>
    BY <1>6, LaunchIs
  <2>2. QED
    BY <1>1, <2>1 DEF SlotInHand
<1>7. CASE ~(LoadSlot \/ AuthorizeSlot \/ StartSlot \/ Launch)
  <2>1. at["worker"] # "prepared"
    BY DEF LedgerInv, Positions
  <2>2. \E label \in WorkerPc \ {"loaded", "authorized", "launching", "launched"} :
          Goto("worker", label)
    BY <1>7, <2>1 DEF Worker, Ask, FindApproval, PrepareAttempt, AuthorizeAttempt, StartAttempt,
         Finish, EndWorker, SaveEnded, ClearRequest, WorkerPc, Here
  <2>3. at'["worker"] \notin {"loaded", "authorized", "launching", "launched"}
    BY <1>1, <2>2, GoWorker
  <2>4. QED
    BY <1>2, <2>3
<1>8. QED
  BY <1>2, <1>3, <1>4, <1>5, <1>6, <1>7 DEF HandBusy

LEMMA SlotInHandKept == LedgerInv /\ [Protocol]_kept /\ api = "slots" => SlotInHand'
<1> SUFFICES ASSUME LedgerInv, [Protocol]_kept, api = "slots" PROVE SlotInHand'
  OBVIOUS
<1>1. SlotInHand /\ enforced' = enforced
  BY EnforcedStays DEF LedgerInv
<1>2. CASE Worker
  BY <1>2, WorkerHand
<1>3. CASE Caller
  <2>1. UNCHANGED <<held, launches>>
    BY <1>3 DEF Caller, OpenControl, PersistGrant, AuthorizeGeneration, RegeneratePreview, Execute,
         MarkStarted, StartWorker, ReconcileGeneration, SaveReconciled, PauseOrStop, Revoke,
         Resume, Reconcile, ClearOnResume, ListUnresolved, Resumed, history
  <2>2. HandBusy' => at'["worker"] = at["worker"]
    BY <1>3, CallerMoves DEF StartWorker, HandBusy
  <2>3. CASE UNCHANGED control
    <3>1. Len(control.grants) \in Nat
      BY ControlFields DEF LedgerInv, Types
    <3>2. QED
      BY <1>1, <2>1, <2>2, <2>3, <3>1, HandCarried
  <2>4. CASE Opens \/ Grants \/ Revokes \/ Reconciles
    BY <2>2, <2>4, CallerHand
  <2>5. ControlStep => Opens \/ Grants \/ Revokes \/ Reconciles \/ UNCHANGED control \/ Worker
    BY ControlWrites DEF ControlWritten, Worker, Authorizes, Starts, Ends
  <2>6. QED
    BY <1>2, <1>3, <2>3, <2>4, <2>5, ControlSteps DEF Protocol
<1>4. CASE Stored \/ Expire \/ UNCHANGED kept
  <2>1. UNCHANGED <<control, at, held, launches>>
    BY <1>4 DEF Stored, Store, ReadRows, WriteRows, CountRun, Expire, kept, disk, history
  <2>2. QED
    BY <1>1, <2>1, LaunchedFinite DEF SlotInHand
<1>5. CASE Crash
  <2>1. at'["worker"] = "none"
    BY <1>5 DEF Crash
  <2>2. QED
    BY <2>1 DEF SlotInHand
<1>6. QED
  BY <1>2, <1>3, <1>4, <1>5 DEF Protocol, Stored

-----------------------------------------------------------------------------
(* The rows and reservations of a Campaign with single attempts.             *)

LEMMA ReservedAre ==
    ASSUME LedgerInv
    PROVE  /\ DOMAIN reserved \subseteq Attempts /\ \A a \in DOMAIN reserved : reserved[a] \in Nat
           /\ IsFiniteSet(DOMAIN reserved) /\ Cardinality(DOMAIN reserved) \in Nat
           /\ \A i : IsFiniteSet(UnderApproval(i)) /\ Cardinality(UnderApproval(i)) \in Nat
<1>1. DOMAIN reserved \in SUBSET Attempts /\ \A a \in DOMAIN reserved : reserved[a] \in Nat
  BY DEF LedgerInv, Types, FilesTyped
<1>2. IsFiniteSet(DOMAIN reserved)
  BY <1>1, LedgerAssumption, FS_Subset
<1>3. \A i : UnderApproval(i) \in SUBSET DOMAIN reserved
  BY DEF UnderApproval
<1>4. \A i : IsFiniteSet(UnderApproval(i))
  BY <1>2, <1>3, FS_Subset
<1>5. QED
  BY <1>1, <1>2, <1>4, FS_CardinalityType

\* No two threads owe writes to the ledger.
LEMMA AloneWriting ==
    ASSUME LedgerInv, api = "attempts"
    PROVE  /\ Recorded /\ OneWriter /\ AttemptInHand
           /\ job["caller"] = NoJob \/ (job["worker"] = NoJob /\ at["worker"] = "none")
           /\ \A t \in Threads : ~job[t].counts /\ job[t].step # "count"
<1>1. Recorded /\ OneWriter /\ AttemptInHand
  BY DEF LedgerInv, AttemptsRecorded
<1>2. job["caller"] = NoJob \/ (job["worker"] = NoJob /\ at["worker"] = "none")
  BY <1>1, WritesAre DEF OneWriter, Ready
<1>3. \A t \in Threads : ~job[t].counts
  BY <1>1, WritesAre DEF OneWriter
<1>4. QED
  BY <1>1, <1>2, <1>3, WritesAre

LEMMA RecordedCarried ==
    ASSUME LedgerInv, api = "attempts", UNCHANGED <<launches, reserved, enforced>>,
           \A op \in Launched : op \in DOMAIN ledger' /\ ledger'[op] = ledger[op]
    PROVE  Recorded'
<1>1. Recorded /\ Launched' = Launched
  BY AloneWriting, LaunchedFinite
<1>2. \A i : UnderApproval(i)' = UnderApproval(i)
  BY DEF UnderApproval
<1>3. QED
  BY <1>1, <1>2 DEF Recorded

\* What a thread writes back has the rows of the launched attempts as they are.
LEMMA StoredAttempts ==
    ASSUME LedgerInv, api = "attempts", NEW t \in Threads, Store(t)
    PROVE  /\ UNCHANGED <<at, held, launches, reserved>>
           /\ \A u \in Threads \ {t} : job[u] = NoJob /\ job'[u] = NoJob
           /\ \A op \in Launched : op \in DOMAIN ledger' /\ ledger'[op] = ledger[op]
           /\ \/ /\ job[t].step = "read" /\ ledger' = ledger
                 /\ job'[t].step = "write" /\ job'[t].update = job[t].update
                 /\ job'[t].rows = Over(job[t].update, ledger)
                 /\ ~job'[t].counts
              \/ /\ job[t].step = "write" /\ job'[t] = NoJob
                 /\ ledger' = Over(job[t].update, ledger)
<1>1. /\ job \in [Threads -> Job] /\ Threads = {"caller", "worker"}
      /\ ~job[t].counts /\ job[t].step # "count" /\ job[t].counts \in BOOLEAN
      /\ OneWriter /\ Recorded
  <2>1. job \in [Threads -> Job]
    BY WritesAre
  <2>2. job[t].counts \in BOOLEAN
    BY <2>1 DEF Job
  <2>3. QED
    BY <2>1, <2>2, AloneWriting, ThreadsAre
<1>2. UNCHANGED <<at, held, launches, reserved>>
  BY DEF Store, ReadRows, WriteRows, CountRun, disk, history
<1>3. job[t].step # "none" /\ \A u \in Threads \ {t} : job'[u] = job[u]
  BY <1>1 DEF Store, ReadRows, WriteRows, CountRun
<1>4. job[t] # NoJob
  BY <1>3, ThreadsAre
<1>5. \A u \in Threads \ {t} : job[u] = NoJob
  BY <1>1, <1>4, AloneWriting
<1>6. CASE ReadRows(t)
  <2> DEFINE owed == job[t]
             rows == Over(owed.update, ledger)
  <2>1. owed \in Job /\ job'[t] = [owed EXCEPT !.step = "write", !.rows = rows]
          /\ owed.step = "read" /\ ledger' = ledger
    BY <1>1, <1>6 DEF ReadRows, disk
  <2>2. ~owed.counts
    BY <1>1
  <2> HIDE DEF owed, rows
  <2>3. /\ job'[t].step = "write" /\ job'[t].update = owed.update /\ job'[t].rows = rows
        /\ job'[t].counts = owed.counts
    BY <2>1 DEF Job
  <2>4. \A op \in Launched : op \in DOMAIN ledger
    BY <1>1 DEF Recorded
  <2>5. QED
    BY <1>2, <1>3, <1>5, <2>1, <2>2, <2>3, <2>4 DEF owed, rows
<1>7. CASE WriteRows(t)
  <2>1. job'[t] = NoJob /\ ledger' = job[t].rows /\ job[t].step = "write"
    BY <1>1, <1>7 DEF WriteRows
  <2>2. ledger' = Over(job[t].update, ledger) /\ DOMAIN job[t].update \cap Launched = {}
    BY <1>1, <2>1 DEF OneWriter
  <2>3. \A op \in Launched : op \in DOMAIN ledger
    BY <1>1 DEF Recorded
  <2>4. \A op \in Launched : op \in DOMAIN ledger \ DOMAIN job[t].update
    BY <2>2, <2>3
  <2>5. \A op \in Launched : op \in DOMAIN ledger' /\ ledger'[op] = ledger[op]
    BY <2>2, <2>4, OverOld
  <2>6. QED
    BY <1>2, <1>3, <1>5, <2>1, <2>2, <2>5
<1>8. QED
  BY <1>1, <1>6, <1>7 DEF Store, CountRun

\* An authorization is paid for by its approval and by the budget, and is not
\* of an attempt that was launched.
LEMMA ReservedFor ==
    ASSUME LedgerInv, api = "attempts", AuthorizeAttempt, ~UNCHANGED reserved
    PROVE  /\ held.op \in Attempts /\ held.op \notin Launched /\ held.op \in DOMAIN reserved'
           /\ reserved'[held.op] = held.approval
           /\ DOMAIN reserved' = DOMAIN reserved \cup {held.op}
           /\ \A a \in DOMAIN reserved \ {held.op} : reserved'[a] = reserved[a]
           /\ Cardinality(UnderApproval(held.approval)) < Cap
           /\ enforced => runs + Cardinality(DOMAIN reserved) < MaxRuns
<1>1. /\ at["worker"] = "prepared" /\ ledger[held.op] \in {"prepared", "authorized"}
      /\ Cardinality(UnderApproval(held.approval)) < Cap
      /\ enforced => runs + Cardinality(DOMAIN reserved) < MaxRuns
      /\ reserved' = Over([a \in {held.op} |-> held.approval], reserved)
  BY DEF AuthorizeAttempt, Here
<1>2. held.op \in Attempts
  BY <1>1 DEF LedgerInv, Positions, AsksFor
<1>3. held.op \notin Launched
  BY <1>1, AloneWriting DEF Recorded
<1> DEFINE paid == [a \in {held.op} |-> held.approval]
<1>4. DOMAIN paid = {held.op} /\ paid[held.op] = held.approval
  OBVIOUS
<1>5. reserved' = Over(paid, reserved)
  BY <1>1
<1> HIDE DEF paid
<1>6. DOMAIN reserved' = DOMAIN reserved \cup {held.op}
  <2>1. DOMAIN Over(paid, reserved) = DOMAIN paid \cup DOMAIN reserved
    BY OverOld
  <2>2. QED
    BY <1>4, <1>5, <2>1
<1>7. reserved'[held.op] = held.approval
  BY <1>4, <1>5, OverNew
<1>8. \A a \in DOMAIN reserved \ {held.op} : reserved'[a] = reserved[a]
  BY <1>4, <1>5, OverOld
<1>9. QED
  BY <1>1, <1>2, <1>3, <1>6, <1>7, <1>8

LEMMA AuthorizeRecorded ==
    LedgerInv /\ api = "attempts" /\ AuthorizeAttempt => Recorded'
<1> SUFFICES ASSUME LedgerInv, api = "attempts", AuthorizeAttempt PROVE Recorded'
  OBVIOUS
<1>1. Recorded /\ UNCHANGED <<launches, ledger, enforced>>
  BY AloneWriting DEF AuthorizeAttempt, history
<1>2. CASE UNCHANGED reserved
  BY <1>1, <1>2, RecordedCarried DEF Recorded
<1>3. CASE ~UNCHANGED reserved
  <2>1. PICK op, i : op = held.op /\ i = held.approval
    OBVIOUS
  <2>2. /\ op \in Attempts /\ op \notin Launched /\ op \in DOMAIN reserved' /\ reserved'[op] = i
        /\ DOMAIN reserved' = DOMAIN reserved \cup {op}
        /\ \A a \in DOMAIN reserved \ {op} : reserved'[a] = reserved[a]
        /\ Cardinality(UnderApproval(i)) < Cap
        /\ enforced => runs + Cardinality(DOMAIN reserved) < MaxRuns
    BY <1>3, <2>1, ReservedFor
  <2>3. Launched' = Launched
    BY <1>1, LaunchedFinite
  <2>4. \A a \in Launched' : a \in DOMAIN reserved' /\ launches'[a] = <<reserved'[a]>>
    BY <1>1, <2>2, <2>3 DEF Recorded
  <2>5. \A h : UnderApproval(h)' \in SUBSET (UnderApproval(h) \cup {op})
    BY <2>2 DEF UnderApproval
  <2>6. \A h : h # i => UnderApproval(h)' \in SUBSET UnderApproval(h)
    BY <2>2 DEF UnderApproval
  <2>7. ASSUME NEW h \in Nat, h # i PROVE Cardinality(UnderApproval(h)') <= Cap
    <3>1. Cardinality(UnderApproval(h)) \in Nat /\ IsFiniteSet(UnderApproval(h))
            /\ Cardinality(UnderApproval(h)) <= Cap
      BY <1>1, ReservedAre DEF Recorded
    <3>2. /\ IsFiniteSet(UnderApproval(h)')
          /\ Cardinality(UnderApproval(h)') <= Cardinality(UnderApproval(h))
      BY <2>6, <2>7, <3>1, FS_Subset
    <3>3. QED
      BY <3>1, <3>2, FS_CardinalityType, CapNat
  <2>8. Cardinality(UnderApproval(i)') <= Cap
    <3>1. Cardinality(UnderApproval(i)) \in Nat /\ IsFiniteSet(UnderApproval(i))
      BY ReservedAre
    <3>2. /\ IsFiniteSet(UnderApproval(i) \cup {op})
          /\ Cardinality(UnderApproval(i) \cup {op}) <= Cardinality(UnderApproval(i)) + 1
      BY <3>1, FS_AddElement
    <3>3. /\ IsFiniteSet(UnderApproval(i)')
          /\ Cardinality(UnderApproval(i)') <= Cardinality(UnderApproval(i) \cup {op})
      BY <2>5, <3>2, FS_Subset
    <3>4. /\ Cardinality(UnderApproval(i)') \in Nat
          /\ Cardinality(UnderApproval(i) \cup {op}) \in Nat
      BY <3>2, <3>3, FS_CardinalityType
    <3>5. QED
      BY <2>2, <3>1, <3>2, <3>3, <3>4, CapNat
  <2>9. enforced' => Cardinality(DOMAIN reserved') <= MaxRuns
    <3>1. Cardinality(DOMAIN reserved \cup {op}) <= Cardinality(DOMAIN reserved) + 1
            /\ IsFiniteSet(DOMAIN reserved \cup {op})
      BY ReservedAre, FS_AddElement
    <3>2. Cardinality(DOMAIN reserved \cup {op}) \in Nat
      BY <3>1, FS_CardinalityType
    <3>3. runs \in Nat
      BY DEF LedgerInv, Types, FilesTyped
    <3>4. QED
      BY <1>1, <2>2, <3>1, <3>2, <3>3, ReservedAre, CapNat
  <2>10. QED
    BY <1>1, <2>3, <2>4, <2>7, <2>8, <2>9 DEF Recorded
<1>4. QED
  BY <1>2, <1>3

LEMMA LaunchRecorded == LedgerInv /\ api = "attempts" /\ Launch => Recorded'
<1> SUFFICES ASSUME LedgerInv, api = "attempts", Launch PROVE Recorded'
  OBVIOUS
<1>1. /\ at["worker"] = "launching" /\ job["worker"] = NoJob
      /\ UNCHANGED <<enforced, ledger, reserved, job, held>>
      /\ Launched' = Launched \cup {held.op}
      /\ launches'[held.op] = <<held.approval>>
      /\ \A op \in Launched : launches'[op] = launches[op]
  BY LaunchIs
<1>2. Recorded /\ AttemptInHand
  BY AloneWriting
<1>3. /\ held.op \in DOMAIN reserved /\ reserved[held.op] = held.approval
      /\ held.op \in DOMAIN ledger /\ ledger[held.op] = "started"
  BY <1>1, <1>2 DEF AttemptInHand, Ready
<1>4. held.op \in Attempts
  BY <1>3, ReservedAre
<1>5. \A i : UnderApproval(i)' = UnderApproval(i)
  BY <1>1 DEF UnderApproval
<1>6. \A op \in Launched' : /\ op \in DOMAIN reserved' /\ launches'[op] = <<reserved'[op]>>
                            /\ op \in Attempts /\ op \in DOMAIN ledger' /\ ledger'[op] = "started"
  BY <1>1, <1>2, <1>3, <1>4 DEF Recorded
<1>7. QED
  BY <1>1, <1>2, <1>5, <1>6 DEF Recorded

LEMMA RecordedKept == LedgerInv /\ [Protocol]_kept /\ api = "attempts" => Recorded'
<1> SUFFICES ASSUME LedgerInv, [Protocol]_kept, api = "attempts" PROVE Recorded'
  OBVIOUS
<1>1. enforced' = enforced /\ Recorded
  BY EnforcedStays, AloneWriting
<1>2. CASE UNCHANGED <<launches, reserved, ledger>>
  BY <1>1, <1>2, RecordedCarried DEF Recorded
<1>3. CASE Stored
  <2>1. PICK t \in Threads : Store(t)
    BY <1>3 DEF Stored
  <2>2. QED
    BY <1>1, <2>1, StoredAttempts, RecordedCarried
<1>4. CASE Launch
  BY <1>4, LaunchRecorded
<1>5. CASE AuthorizeAttempt
  BY <1>5, AuthorizeRecorded
<1>6. Caller => UNCHANGED <<reserved, ledger>>
  BY DEF Caller, OpenControl, PersistGrant, AuthorizeGeneration, RegeneratePreview, Execute,
         MarkStarted, StartWorker, ReconcileGeneration, SaveReconciled, PauseOrStop, Revoke,
         Resume, Reconcile, ClearOnResume, ListUnresolved, Resumed, disk
<1>7. Worker => Launch \/ AuthorizeAttempt \/ UNCHANGED <<reserved, ledger>>
  BY DEF Worker, Ask, LoadSlot, AuthorizeSlot, StartSlot, FindApproval, PrepareAttempt,
         StartAttempt, Finish, EndWorker, SaveEnded, ClearRequest, disk
<1>8. Expire \/ Crash => UNCHANGED <<reserved, ledger>>
  BY DEF Expire, Crash, disk
<1>9. QED
  BY <1>2, <1>3, <1>4, <1>5, <1>6, <1>7, <1>8, LaunchSteps DEF Protocol, Stored, kept, disk, history

\* A caller that comes to owe a row runs before the Worker does, and what a
\* thread comes to owe is not the row of a launched attempt.
LEMMA CallerAlone ==
    ASSUME LedgerInv, api = "attempts", Caller
    PROVE  /\ Ready("caller")
           /\ \/ UNCHANGED job
              \/ /\ at["worker"] = "none" /\ at'["worker"] = "none"
                 /\ at'["caller"] \in {"starting", "saving", "reconciled"}
<1>1. Ready("caller")
  BY DEF Caller, Here, OpenControl, PersistGrant, AuthorizeGeneration, RegeneratePreview, Execute,
         MarkStarted, StartWorker, ReconcileGeneration, SaveReconciled, PauseOrStop, Revoke,
         Resume, Reconcile, ClearOnResume, ListUnresolved, Resumed
<1>2. /\ at \in Pc /\ at["caller"] \notin {"granting", "revoking", "reconciling"}
      /\ at["caller"] = "starting" => at["worker"] = "none"
  BY DEF LedgerInv, Types, PointsTyped, Positions
<1>3. CASE Execute \/ MarkStarted \/ ReconcileGeneration
  <2>1. /\ at["worker"] = "none"
        /\ \E label \in {"starting", "saving", "reconciled"} \cap CallerPc : Goto("caller", label)
    BY <1>2, <1>3 DEF Execute, MarkStarted, ReconcileGeneration, Here, CallerPc
  <2>2. QED
    BY <1>1, <1>2, <2>1, GoCaller
<1>4. CASE ~(Execute \/ MarkStarted \/ ReconcileGeneration)
  <2>1. ~OpenControl /\ ~PersistGrant /\ ~Revoke /\ ~Reconcile
    BY <1>2 DEF OpenControl, PersistGrant, Revoke, Reconcile, Here
  <2>2. UNCHANGED job
    BY <1>4, <2>1 DEF Caller, AuthorizeGeneration, RegeneratePreview, StartWorker, SaveReconciled,
         PauseOrStop, Resume, ClearOnResume, ListUnresolved, Resumed
  <2>3. QED
    BY <1>1, <2>2
<1>5. QED
  BY <1>3, <1>4

LEMMA OwedAttempts ==
    ASSUME LedgerInv, api = "attempts", NEW t \in Threads, OwedBy(t)
    PROVE  /\ job[t] = NoJob /\ \A u \in Threads \ {t} : job'[u] = job[u]
           /\ job'[t].step = "read" /\ ~job'[t].counts
           /\ DOMAIN job'[t].update \cap Launched = {}
<1>1. PICK update \in Rows, locked \in BOOLEAN, counts \in BOOLEAN :
        Owe(t, update, locked, counts) /\ DOMAIN update \cap Launched = {}
  BY DEF OwedBy
<1>2. job'[t].update = update
  BY <1>1, WritesAre, OweTyped
<1>3. /\ job[t] = NoJob /\ job'[t].step = "read"
      /\ \A u \in Threads \ {t} : job'[u] = job[u]
      /\ job'[t].counts => Starts
  BY OwedKept
<1>4. QED
  BY <1>1, <1>2, <1>3 DEF Starts

LEMMA OneWriterKept == LedgerInv /\ [Protocol]_kept /\ api = "attempts" => OneWriter'
<1> SUFFICES ASSUME LedgerInv, [Protocol]_kept, api = "attempts" PROVE OneWriter'
  OBVIOUS
<1>1. /\ OneWriter /\ "caller" \in Threads /\ "worker" \in Threads
      /\ Threads = {"caller", "worker"}
      /\ ~NoJob.counts /\ NoJob.step = "none"
      /\ job \in [Threads -> Job]
  BY AloneWriting, ThreadsAre, WritesAre
<1>2. CASE UNCHANGED <<job, at, launches, ledger>>
  BY <1>1, <1>2, LaunchedFinite DEF OneWriter, Ready
<1>3. CASE Caller
  <2>1. /\ UNCHANGED <<ledger, launches>>
        /\ at'["worker"] = at["worker"] \/ StartWorker
    BY <1>3, CallerMoves DEF Caller, OpenControl, PersistGrant, AuthorizeGeneration, RegeneratePreview,
         Execute, MarkStarted, StartWorker, ReconcileGeneration, SaveReconciled, PauseOrStop, Revoke,
         Resume, Reconcile, ClearOnResume, ListUnresolved, Resumed, history, disk
  <2>2. Launched' = Launched /\ job["caller"] = NoJob
    BY <1>3, <2>1, LaunchedFinite, CallerAlone DEF Ready
  <2>3. CASE UNCHANGED job
    BY <1>1, <2>1, <2>2, <2>3 DEF OneWriter, Ready
  <2>4. CASE OwedBy("caller") /\ ~UNCHANGED job
    <3>1. /\ at["worker"] = "none" /\ at'["worker"] = "none"
          /\ at'["caller"] \in {"starting", "saving", "reconciled"}
      BY <1>3, <2>4, CallerAlone
    <3>2. /\ job'["worker"] = NoJob /\ job'["caller"].step = "read"
          /\ DOMAIN job'["caller"].update \cap Launched = {}
      BY <1>1, <2>4, <3>1, OwedAttempts, WritesAre
    <3>3. QED
      BY <1>1, <2>2, <3>1, <3>2 DEF OneWriter
  <2>5. QED
    BY <1>3, <2>3, <2>4, CallerOwes
<1>4. CASE Worker
  <2>1. job["worker"] = NoJob /\ job["caller"] = NoJob
    BY <1>1, <1>4, WorkerMoves DEF OneWriter, Ready
  <2>2. CASE UNCHANGED job
    BY <1>1, <2>1, <2>2 DEF OneWriter, Ready
  <2>3. CASE OwedBy("worker") /\ ~UNCHANGED job
    <3>1. ~Launch
      BY <2>3, LaunchIs
    <3>2. Launched' = Launched
      BY <1>4, <3>1, LaunchSteps, LaunchedFinite DEF Protocol
    <3>3. /\ job'["caller"] = NoJob /\ job'["worker"].step = "read" /\ ~job'["worker"].counts
          /\ DOMAIN job'["worker"].update \cap Launched = {}
      BY <1>1, <2>1, <2>3, OwedAttempts
    <3>4. QED
      BY <1>1, <3>2, <3>3 DEF OneWriter, Ready
  <2>4. QED
    BY <1>4, <2>2, <2>3, WorkerOwes
<1>5. CASE Stored
  <2>1. PICK t \in Threads : Store(t)
    BY <1>5 DEF Stored
  <2>2. /\ UNCHANGED <<at, held, launches, reserved>>
        /\ \A u \in Threads \ {t} : job[u] = NoJob /\ job'[u] = NoJob
        /\ \/ /\ job[t].step = "read" /\ ledger' = ledger
              /\ job'[t].step = "write" /\ job'[t].update = job[t].update
              /\ job'[t].rows = Over(job[t].update, ledger)
              /\ ~job'[t].counts
           \/ /\ job[t].step = "write" /\ job'[t] = NoJob
    BY <2>1, StoredAttempts
  <2>3. job[t] # NoJob /\ Launched' = Launched
    BY <1>1, <2>2, LaunchedFinite
  <2>4. /\ at'["worker"] # "none" => job'["caller"] = NoJob
        /\ job'["caller"] # NoJob => at'["caller"] \in {"starting", "saving", "reconciled"}
    BY <1>1, <2>2, <2>3 DEF OneWriter, Ready
  <2>5. CASE job'[t] = NoJob
    BY <1>1, <2>2, <2>4, <2>5 DEF OneWriter, Ready
  <2>6. CASE /\ job[t].step = "read" /\ ledger' = ledger
             /\ job'[t].step = "write" /\ job'[t].update = job[t].update
             /\ job'[t].rows = Over(job[t].update, ledger)
             /\ ~job'[t].counts
    <3>1. DOMAIN job'[t].update \cap Launched' = {}
      BY <1>1, <2>3, <2>6 DEF OneWriter
    <3>2. job'[t].rows = Over(job'[t].update, ledger')
      BY <2>6
    <3>3. \A u \in Threads : u # t => job'[u].step = "none" /\ ~job'[u].counts
      BY <1>1, <2>2
    <3>4. ~job'["worker"].counts
      BY <1>1, <2>6, <3>3
    <3>5. QED
      BY <2>4, <3>1, <3>2, <3>3, <3>4 DEF OneWriter, Ready
  <2>7. QED
    BY <2>2, <2>5, <2>6
<1>6. CASE Crash
  BY <1>1, <1>6 DEF Crash, OneWriter, Ready
<1>7. QED
  BY <1>2, <1>3, <1>4, <1>5, <1>6 DEF Protocol, Stored, Expire, kept, disk, history

LEMMA WorkerAttempt == LedgerInv /\ Worker /\ api = "attempts" => AttemptInHand'
<1> SUFFICES ASSUME LedgerInv, Worker, api = "attempts" PROVE AttemptInHand'
  OBVIOUS
<1>1. /\ at \in Pc /\ AttemptInHand /\ OneWriter /\ Recorded
      /\ at["worker"] # "loaded" /\ job["worker"] = NoJob
  BY WorkerMoves, AloneWriting DEF LedgerInv, Types, PointsTyped, Positions, Ready
<1>2. CASE at'["worker"] \notin {"authorized", "launching"}
  BY <1>2 DEF AttemptInHand
<1>3. CASE AuthorizeAttempt /\ at'["worker"] \in {"authorized", "launching"}
  <2>1. ~Goto("worker", "run")
    BY <1>1, <1>3, GoWorker DEF WorkerPc
  <2>2. /\ Goto("worker", "authorized") /\ UNCHANGED <<launches, held>>
        /\ reserved' = Over([a \in {held.op} |-> held.approval], reserved)
        /\ ledger[held.op] \in {"prepared", "authorized"}
    BY <1>3, <2>1 DEF AuthorizeAttempt, history
  <2>3. held.op \in DOMAIN reserved' /\ reserved'[held.op] = held.approval
    <3> DEFINE paid == [a \in {held.op} |-> held.approval]
    <3>1. held.op \in DOMAIN paid /\ paid[held.op] = held.approval
      OBVIOUS
    <3>2. reserved' = Over(paid, reserved)
      BY <2>2
    <3> HIDE DEF paid
    <3>3. QED
      BY <3>1, <3>2, OverNew
  <2>4. held.op \notin Launched
    BY <1>1, <2>2 DEF Recorded
  <2>5. Launched' = Launched
    BY <2>2, LaunchedFinite
  <2>6. at'["worker"] = "authorized"
    BY <1>1, <2>2, GoWorker DEF WorkerPc
  <2>7. QED
    BY <2>2, <2>3, <2>4, <2>5, <2>6 DEF AttemptInHand
<1>4. CASE StartAttempt
  <2>1. /\ at["worker"] = "authorized" /\ Goto("worker", "launching")
        /\ UNCHANGED <<launches, held, reserved>>
        /\ Owe("worker", [o \in {held.op} |-> "started"], TRUE, FALSE)
    BY <1>4 DEF StartAttempt, Here, Record, history
  <2>2. job'["worker"].step = "read" /\ job'["worker"].update = [o \in {held.op} |-> "started"]
    <3> DEFINE row == [o \in {held.op} |-> "started"]
               owed == [step |-> "read", update |-> row, rows |-> Nothing,
                        locked |-> TRUE, counts |-> FALSE]
    <3>1. owed.step = "read" /\ owed.update = row
      OBVIOUS
    <3>2. job' = [job EXCEPT !["worker"] = owed]
      BY <2>1 DEF Owe
    <3> HIDE DEF owed
    <3>3. job'["worker"] = owed
      BY <3>2, WritesAre
    <3>4. QED
      BY <3>1, <3>3
  <2>3. ~Ready("worker")'
    BY <2>2, ThreadsAre DEF Ready
  <2>4. /\ held.op \in DOMAIN reserved /\ reserved[held.op] = held.approval
        /\ held.op \notin Launched /\ Launched' = Launched
    BY <1>1, <2>1, LaunchedFinite DEF AttemptInHand
  <2>5. QED
    BY <2>1, <2>2, <2>3, <2>4 DEF AttemptInHand
<1>5. CASE ~AuthorizeAttempt /\ ~StartAttempt
  <2>1. \E label \in WorkerPc \ {"authorized", "launching"} : Goto("worker", label)
    BY <1>1, <1>5 DEF Worker, Ask, LoadSlot, AuthorizeSlot, StartSlot, FindApproval, PrepareAttempt,
         Launch, Finish, EndWorker, SaveEnded, ClearRequest, WorkerPc, Here
  <2>2. at'["worker"] \notin {"authorized", "launching"}
    BY <1>1, <2>1, GoWorker
  <2>3. QED
    BY <1>2, <2>2
<1>6. QED
  BY <1>2, <1>3, <1>4, <1>5

LEMMA StoredInHand ==
    ASSUME LedgerInv, api = "attempts", Stored
    PROVE  AttemptInHand'
<1>1. PICK t \in Threads : Store(t)
  BY DEF Stored
<1>2. /\ UNCHANGED <<at, held, launches, reserved>>
      /\ \A u \in Threads \ {t} : job[u] = NoJob /\ job'[u] = NoJob
      /\ \/ /\ job[t].step = "read" /\ ledger' = ledger
            /\ job'[t].step = "write" /\ job'[t].update = job[t].update
         \/ /\ job[t].step = "write" /\ job'[t] = NoJob
            /\ ledger' = Over(job[t].update, ledger)
  BY <1>1, StoredAttempts
<1>3. AttemptInHand /\ OneWriter /\ Launched' = Launched /\ Threads = {"caller", "worker"}
  BY <1>2, AloneWriting, LaunchedFinite, WritesAre
<1>4. CASE at["worker"] # "launching"
  BY <1>2, <1>3, <1>4 DEF AttemptInHand
<1>5. CASE at["worker"] = "launching"
  <2>1. t = "worker" /\ job["worker"] # NoJob
    BY <1>2, <1>3, <1>5, ThreadsAre DEF OneWriter, Ready
  <2>2. job["worker"].update = [o \in {held.op} |-> "started"]
    BY <1>3, <1>5, <2>1 DEF AttemptInHand, Ready
  <2>3. CASE job'["worker"].step = "write" /\ job'["worker"].update = job["worker"].update
    <3>1. ~Ready("worker")'
      BY <2>3, ThreadsAre DEF Ready
    <3>2. QED
      BY <1>2, <1>3, <1>5, <2>2, <2>3, <3>1 DEF AttemptInHand
  <2>4. CASE job'["worker"] = NoJob /\ ledger' = Over(job["worker"].update, ledger)
    <3> DEFINE row == [o \in {held.op} |-> "started"]
    <3>1. held.op \in DOMAIN row /\ row[held.op] = "started"
      OBVIOUS
    <3>2. ledger' = Over(row, ledger)
      BY <2>2, <2>4
    <3> HIDE DEF row
    <3>3. held.op \in DOMAIN ledger' /\ ledger'[held.op] = "started"
      BY <3>1, <3>2, OverNew
    <3>4. QED
      BY <1>2, <1>3, <1>5, <2>4, <3>3 DEF AttemptInHand, Ready
  <2>5. QED
    BY <1>2, <2>1, <2>3, <2>4
<1>6. QED
  BY <1>4, <1>5

LEMMA AttemptInHandKept == LedgerInv /\ [Protocol]_kept /\ api = "attempts" => AttemptInHand'
<1> SUFFICES ASSUME LedgerInv, [Protocol]_kept, api = "attempts" PROVE AttemptInHand'
  OBVIOUS
<1>1. AttemptInHand
  BY AloneWriting
<1>2. CASE Worker
  BY <1>2, WorkerAttempt
<1>3. CASE Stored
  BY <1>3, StoredInHand
<1>4. CASE Caller
  <2>1. UNCHANGED <<held, launches, reserved, ledger>>
    BY <1>4 DEF Caller, OpenControl, PersistGrant, AuthorizeGeneration, RegeneratePreview, Execute,
         MarkStarted, StartWorker, ReconcileGeneration, SaveReconciled, PauseOrStop, Revoke,
         Resume, Reconcile, ClearOnResume, ListUnresolved, Resumed, history, disk
  <2>2. Launched' = Launched
    BY <2>1, LaunchedFinite
  <2>3. CASE at'["worker"] \notin {"authorized", "launching"}
    BY <2>3 DEF AttemptInHand
  <2>4. CASE at'["worker"] = at["worker"] /\ UNCHANGED job
    BY <1>1, <2>1, <2>2, <2>4 DEF AttemptInHand, Ready
  <2>5. QED
    BY <1>4, <2>3, <2>4, CallerMoves, CallerAlone DEF StartWorker
<1>5. CASE Expire \/ UNCHANGED kept
  <2>1. UNCHANGED <<at, job, held, launches, reserved, ledger>>
    BY <1>5 DEF Expire, kept, disk, history
  <2>2. QED
    BY <1>1, <2>1, LaunchedFinite DEF AttemptInHand, Ready
<1>6. CASE Crash
  BY <1>6 DEF Crash, AttemptInHand
<1>7. QED
  BY <1>2, <1>3, <1>4, <1>5, <1>6 DEF Protocol, Stored

-----------------------------------------------------------------------------
(* The inductive invariant.                                                  *)

-----------------------------------------------------------------------------
(* The rows of the Workers, which two threads write without the lock.        *)

\* What a write of the file leaves of the rows, whoever writes.
LEMMA StoredRows ==
    ASSUME LedgerInv, NEW t \in Threads, Store(t)
    PROVE  /\ UNCHANGED <<at, workers, unasked>>
           /\ \A u \in Threads \ {t} : job'[u] = job[u]
           /\ \/ /\ job[t].step = "read" /\ ledger' = ledger
                 /\ job'[t].step = "write" /\ job'[t].update = job[t].update
                 /\ job'[t].rows = Over(job[t].update, ledger)
              \/ /\ job[t].step = "write" /\ ledger' = job[t].rows
                 /\ job'[t].step \in {"none", "count"}
              \/ job[t].step = "count" /\ ledger' = ledger /\ job'[t].step = "none"
<1>1. job \in [Threads -> Job] /\ job[t] \in Job
  BY DEF LedgerInv, Types
<1>2. UNCHANGED <<at, workers, unasked>>
  BY DEF Store, ReadRows, WriteRows, CountRun, disk, history
<1>3. CASE ReadRows(t)
  <2> DEFINE next == [job[t] EXCEPT !.step = "write", !.rows = Over(job[t].update, ledger)]
  <2>1. job' = [job EXCEPT ![t] = next] /\ job[t].step = "read" /\ ledger' = ledger
    BY <1>3 DEF ReadRows, disk
  <2>2. /\ next.step = "write" /\ next.update = job[t].update
        /\ next.rows = Over(job[t].update, ledger)
    BY <1>1 DEF Job
  <2> HIDE DEF next
  <2>3. QED
    BY <1>1, <1>2, <2>1, <2>2
<1>4. CASE WriteRows(t)
  <2> DEFINE next == IF job[t].counts THEN [job[t] EXCEPT !.step = "count"] ELSE NoJob
  <2>1. job' = [job EXCEPT ![t] = next] /\ job[t].step = "write" /\ ledger' = job[t].rows
    BY <1>4 DEF WriteRows
  <2>2. next.step \in {"none", "count"}
    <3>1. [job[t] EXCEPT !.step = "count"].step = "count"
      BY <1>1 DEF Job
    <3>2. QED
      BY <3>1, ThreadsAre
  <2> HIDE DEF next
  <2>3. QED
    BY <1>1, <1>2, <2>1, <2>2
<1>5. CASE CountRun(t)
  <2>1. job' = [job EXCEPT ![t] = NoJob] /\ ledger' = ledger /\ job[t].step = "count"
    BY <1>5 DEF CountRun
  <2>2. QED
    BY <1>1, <1>2, <2>1, ThreadsAre
<1>6. QED
  BY <1>3, <1>4, <1>5 DEF Store

LEMMA OwedRows ==
    ASSUME LedgerInv, NEW t \in Threads, OwedBy(t)
    PROVE  /\ job'[t].step = "read"
           /\ \A op \in DOMAIN job'[t].update \cap Begun : job'[t].update[op] \in Used
           /\ \A u \in Threads \ {t} : job'[u] = job[u]
<1>1. PICK update \in Rows, locked \in BOOLEAN, counts \in BOOLEAN :
        /\ Owe(t, update, locked, counts)
        /\ \A op \in DOMAIN update \cap Begun : update[op] \in Used
  BY DEF OwedBy
<1>2. job \in [Threads -> Job]
  BY WritesAre
<1>3. QED
  BY <1>1, <1>2, OweTyped

LEMMA MarkOwes ==
    ASSUME LedgerInv, MarkStarted
    PROVE  /\ NextRun \in DOMAIN job'["caller"].update
           /\ job'["caller"].update[NextRun] \in Used
           /\ workers' = workers
<1> DEFINE row == [o \in {NextRun} |-> "started"]
<1>1. Owe("caller", row, FALSE, FALSE) /\ at["caller"] = "starting" /\ workers' = workers
  BY DEF MarkStarted, Mark, Here, disk
<1>2. "started" \in OpStatus /\ "started" \in Used /\ "caller" \in Threads /\ FALSE \in BOOLEAN
  BY DEF OpStatus, Used, Threads
<1>3. NextRun \in Range(Runs)
  BY <1>1, RunsInRange DEF LedgerInv, Positions
<1>4. row \in Rows /\ NextRun \in DOMAIN row /\ row[NextRun] = "started"
  BY <1>2, <1>3, RowTyped DEF Ops
<1> HIDE DEF row
<1>5. job'["caller"].update = row
  BY <1>1, <1>2, <1>4, OweTyped, WritesAre
<1>6. QED
  BY <1>1, <1>2, <1>4, <1>5

\* Only StartWorker saves another Worker.
LEMMA CallerBegins ==
    ASSUME LedgerInv, Caller
    PROVE  /\ UNCHANGED <<ledger, unasked>>
           /\ StartWorker \/ Begun' = Begun
           /\ at'["caller"] = "saving" => MarkStarted
<1>1. workers \in Seq(WorkerStatus) /\ at \in Pc
  BY DEF LedgerInv, Types, FilesTyped, PointsTyped
<1>2. UNCHANGED <<ledger, unasked>>
  BY DEF Caller, OpenControl, PersistGrant, AuthorizeGeneration, RegeneratePreview,
         Execute, MarkStarted, StartWorker, ReconcileGeneration, SaveReconciled, PauseOrStop, Revoke,
         Resume, Reconcile, ClearOnResume, ListUnresolved, Resumed, history, disk
<1>3. StartWorker \/ SaveReconciled \/ workers' = workers
  BY DEF Caller, OpenControl, PersistGrant, AuthorizeGeneration, RegeneratePreview,
         Execute, MarkStarted, ReconcileGeneration, PauseOrStop, Revoke,
         Resume, Reconcile, ClearOnResume, ListUnresolved, Resumed, disk
<1>4. SaveReconciled => Len(workers') = Len(workers)
  BY <1>1 DEF SaveReconciled
<1>5. at'["caller"] = "saving" => MarkStarted
  <2>1. ASSUME NEW label \in CallerPc, Goto("caller", label), label # "saving"
        PROVE  at'["caller"] # "saving"
    BY <1>1, <2>1, GoCaller
  <2> DEFINE Moved == \E label \in CallerPc : Goto("caller", label) /\ label # "saving"
  <2>2. Moved => at'["caller"] # "saving"
    BY <2>1
  <2>3. OpenControl => Moved
    BY DEF OpenControl, CallerPc
  <2>4. PersistGrant => Moved
    BY DEF PersistGrant, CallerPc
  <2>5. Execute => Moved
    BY DEF Execute, CallerPc
  <2>6. ReconcileGeneration => Moved
    BY DEF ReconcileGeneration, CallerPc
  <2>7. SaveReconciled => Moved
    BY DEF SaveReconciled, CallerPc
  <2>8. PauseOrStop => Moved
    BY DEF PauseOrStop, CallerPc
  <2>9. Revoke => Moved
    BY DEF Revoke, CallerPc
  <2>10. Resume => Moved
    BY DEF Resume, CallerPc
  <2>11. Reconcile => Moved
    BY DEF Reconcile, CallerPc
  <2>12. ClearOnResume => Moved
    BY DEF ClearOnResume, CallerPc
  <2>13. ListUnresolved => Moved
    BY DEF ListUnresolved, CallerPc
  <2>14. Resumed => Moved
    BY DEF Resumed, CallerPc
  <2>15. AuthorizeGeneration \/ RegeneratePreview \/ StartWorker => at'["caller"] # "saving"
    <3>1. AuthorizeGeneration \/ RegeneratePreview => at'["caller"] = "idle"
      BY DEF AuthorizeGeneration, RegeneratePreview, Here
    <3>2. StartWorker => at'["caller"] = "idle"
      BY DEF StartWorker
    <3>3. QED
      BY <3>1, <3>2
  <2> HIDE DEF Moved
  <2>16. QED
    BY <2>2, <2>3, <2>4, <2>5, <2>6, <2>7, <2>8, <2>9, <2>10, <2>11, <2>12, <2>13, <2>14, <2>15 DEF Caller
<1>6. QED
  BY <1>2, <1>3, <1>4, <1>5 DEF Begun

LEMMA WorkerBegins ==
    ASSUME LedgerInv, Worker
    PROVE  UNCHANGED <<ledger, unasked>> /\ Begun' = Begun
<1>1. workers \in Seq(WorkerStatus)
  BY DEF LedgerInv, Types, FilesTyped
<1>2. UNCHANGED <<ledger, unasked>>
  BY DEF Worker, Ask, LoadSlot, AuthorizeSlot, StartSlot, FindApproval, PrepareAttempt,
         AuthorizeAttempt, StartAttempt, Launch, Finish, EndWorker, SaveEnded, ClearRequest,
         history, disk
<1>3. SaveEnded \/ workers' = workers
  BY DEF Worker, Ask, LoadSlot, AuthorizeSlot, StartSlot, FindApproval, PrepareAttempt,
         AuthorizeAttempt, StartAttempt, Launch, Finish, EndWorker, ClearRequest, disk
<1>4. SaveEnded => Len(workers') = Len(workers)
  BY <1>1 DEF SaveEnded
<1>5. QED
  BY <1>2, <1>3, <1>4 DEF Begun

LEMMA RunsRecordedKept == LedgerInv /\ [Next]_vars => RunsRecorded'
<1> SUFFICES ASSUME LedgerInv, [Next]_vars PROVE RunsRecorded'
  OBVIOUS
<1>1. /\ RunsRecorded /\ Threads = {"caller", "worker"} /\ NoJob.step = "none"
      /\ at["worker"] # "none" => at["caller"] # "saving"
      /\ at["worker"] = "none" => job["worker"] = NoJob
  BY WritesAre, ThreadsAre DEF LedgerInv, Positions
<1>2. CASE UNCHANGED <<job, at, ledger, workers>> /\ unasked' \subseteq Begun
  BY <1>1, <1>2 DEF RunsRecorded, Begun, NextRun, Ready
<1>3. CASE Stored
  <2>1. PICK t \in Threads : Store(t)
    BY <1>3 DEF Stored
  <2>2. /\ Begun' = Begun /\ NextRun' = NextRun /\ UNCHANGED <<at, unasked>>
        /\ \A u \in Threads \ {t} : job'[u] = job[u]
    BY <2>1, StoredRows DEF Begun, NextRun
  <2>3. CASE /\ job[t].step = "read" /\ ledger' = ledger
             /\ job'[t].step = "write" /\ job'[t].update = job[t].update
             /\ job'[t].rows = Over(job[t].update, ledger)
    <3>1. \A op \in Begun : op \in DOMAIN job'[t].rows /\ job'[t].rows[op] \in Used
      BY <1>1, <2>3, OverNew, OverOld DEF RunsRecorded
    <3>2. at["caller"] = "saving" /\ t = "caller" =>
            NextRun \in DOMAIN job'[t].rows /\ job'[t].rows[NextRun] \in Used
      BY <1>1, <2>3, OverNew DEF RunsRecorded
    <3>3. job'["caller"] # NoJob \/ t # "caller"
      BY <1>1, <2>3
    <3>4. QED
      BY <1>1, <2>2, <2>3, <3>1, <3>2, <3>3 DEF RunsRecorded, Ready
  <2>4. CASE /\ job[t].step = "write" /\ ledger' = job[t].rows
             /\ job'[t].step \in {"none", "count"}
    <3>1. at["caller"] = "saving" => t = "caller"
      BY <1>1, <2>4
    <3>2. QED
      BY <1>1, <2>2, <2>4, <3>1 DEF RunsRecorded, Ready
  <2>5. CASE job[t].step = "count" /\ ledger' = ledger /\ job'[t].step = "none"
    <3>1. t = "worker" /\ at["caller"] # "saving"
      BY <1>1, <2>5, WritesAre
    <3>2. QED
      BY <1>1, <2>2, <2>5, <3>1 DEF RunsRecorded
  <2>6. QED
    BY <2>1, <2>3, <2>4, <2>5, StoredRows
<1>4. CASE Worker
  <2>1. /\ UNCHANGED <<ledger, unasked>> /\ Begun' = Begun
        /\ at'["caller"] = at["caller"] /\ at["caller"] # "saving"
    BY <1>1, <1>4, WorkerBegins, WorkerMoves
  <2>2. CASE UNCHANGED job
    BY <1>1, <2>1, <2>2 DEF RunsRecorded
  <2>3. CASE OwedBy("worker")
    <3>1. /\ job'["worker"].step = "read" /\ job'["caller"] = job["caller"]
          /\ \A op \in DOMAIN job'["worker"].update \cap Begun : job'["worker"].update[op] \in Used
      BY <1>1, <2>3, OwedRows
    <3>2. QED
      BY <1>1, <2>1, <3>1 DEF RunsRecorded
  <2>4. QED
    BY <1>4, <2>2, <2>3, WorkerOwes
<1>5. CASE Caller /\ ~StartWorker
  <2>1. /\ UNCHANGED <<ledger, unasked>> /\ Begun' = Begun
        /\ at'["caller"] = "saving" => MarkStarted
    BY <1>5, CallerBegins
  <2>2. CASE UNCHANGED job /\ ~MarkStarted
    BY <1>1, <2>1, <2>2 DEF RunsRecorded
  <2>3. CASE OwedBy("caller")
    <3>1. /\ job'["caller"].step = "read" /\ job'["worker"] = job["worker"]
          /\ \A op \in DOMAIN job'["caller"].update \cap Begun : job'["caller"].update[op] \in Used
      BY <1>1, <2>3, OwedRows
    <3>2. at'["caller"] = "saving" =>
            /\ NextRun' \in DOMAIN job'["caller"].update
            /\ job'["caller"].update[NextRun'] \in Used
      BY <2>1, MarkOwes DEF NextRun
    <3>3. job'["caller"] # NoJob
      BY <1>1, <3>1
    <3>4. QED
      BY <1>1, <2>1, <3>1, <3>2, <3>3 DEF RunsRecorded, Ready
  <2>4. MarkStarted => OwedBy("caller")
    <3> SUFFICES ASSUME MarkStarted PROVE OwedBy("caller")
      OBVIOUS
    <3>1. NextRun \in DOMAIN job'["caller"].update /\ job["caller"] = NoJob
      BY MarkOwes DEF MarkStarted, Here, Ready
    <3>2. DOMAIN NoJob.update = {}
      BY DEF NoJob, Nothing
    <3>3. QED
      BY <1>5, <3>1, <3>2, CallerOwes
  <2>5. QED
    BY <1>5, <2>2, <2>3, <2>4, CallerOwes
<1>6. CASE StartWorker
  <2>1. /\ UNCHANGED <<ledger, unasked, job>> /\ workers' = Append(workers, "running")
        /\ at["caller"] = "saving" /\ job["caller"] = NoJob /\ at'["caller"] = "idle"
    BY <1>6 DEF StartWorker, Here, Ready, history
  <2>2. job["worker"] = NoJob
    BY <1>1, <2>1
  <2>3. Begun' = Begun \cup {NextRun}
    <3>1. workers \in Seq(WorkerStatus)
      BY DEF LedgerInv, Types, FilesTyped
    <3>2. Len(workers') = Len(workers) + 1 /\ Len(workers) \in Nat
      BY <2>1, <3>1
    <3>3. 1..Len(workers') = 1..Len(workers) \cup {Len(workers) + 1}
      BY <3>2
    <3>4. QED
      BY <3>3 DEF Begun, NextRun
  <2>4. NextRun \in DOMAIN ledger /\ ledger[NextRun] \in Used
    BY <1>1, <2>1 DEF RunsRecorded, Ready
  <2>5. \A t \in Threads : job'[t].step = "none"
    BY <1>1, <2>1, <2>2
  <2>6. QED
    BY <1>1, <2>1, <2>3, <2>4, <2>5 DEF RunsRecorded
<1>7. CASE Crash
  <2>1. /\ UNCHANGED <<ledger, unasked, workers>> /\ at'["caller"] = "idle"
        /\ \A t \in Threads : job'[t] = NoJob
    BY <1>7 DEF Crash, disk, history
  <2>2. QED
    BY <1>1, <2>1 DEF RunsRecorded, Begun
<1>8. CASE RunCandidate
  <2>1. workers # <<>>
    BY <1>8 DEF RunCandidate, Here, LedgerInv, Positions
  <2>2. UNCHANGED <<job, at, ledger, workers>> /\ unasked' = unasked \cup {LastRun}
    BY <1>8 DEF RunCandidate, disk
  <2>3. QED
    BY <1>1, <1>2, <2>1, <2>2, RunsInRange DEF RunsRecorded
<1>9. CASE Expire \/ UNCHANGED vars
  <2>1. UNCHANGED <<job, at, ledger, workers, unasked>>
    BY <1>9 DEF Expire, vars, disk, history
  <2>2. QED
    BY <1>1, <1>2, <2>1 DEF RunsRecorded
<1>10. QED
  BY <1>3, <1>4, <1>5, <1>6, <1>7, <1>8, <1>9 DEF Next, Stored

-----------------------------------------------------------------------------
LEMMA InitInv == Init => LedgerInv
<1> SUFFICES ASSUME Init PROVE LedgerInv
  OBVIOUS
<1> USE DEF Init
<1>1. Launched = {} /\ Cardinality(Launched) = 0
  <2>1. Launched = {}
    BY DEF Launched
  <2>2. QED
    BY <2>1, FS_EmptySet
<1>2. control \in Control
  <2>1. FALSE \in BOOLEAN /\ <<>> \in Seq(Grant) /\ Nothing \in [{} -> Slot]
    BY DEF Nothing
  <2>2. QED
    BY <2>1, NothingTyped DEF Control
<1>3. /\ control.open = FALSE /\ control.grants = <<>> /\ control.started = 0
      /\ DOMAIN control.slots = {} /\ DOMAIN control.ops = {}
  BY DEF Nothing
<1>4. FilesTyped
  <2>1. launches \in [Slots \cup Attempts -> Seq(Nat)]
    OBVIOUS
  <2>2. reserved \in [{} -> Nat] /\ DOMAIN reserved = {}
    BY DEF Nothing
  <2>3. reserved \in UNION {[paid -> Nat] : paid \in SUBSET Attempts}
    BY <2>2
  <2>4. FALSE \in BOOLEAN /\ approvals \in Seq(BOOLEAN) /\ workers \in Seq(WorkerStatus)
    OBVIOUS
  <2>5. ledger \in Rows /\ request \in BOOLEAN /\ runs \in Nat /\ revoked \in Nat
    BY <2>4, NothingTyped
  <2>6. QED
    BY <2>1, <2>3, <2>4, <2>5 DEF FilesTyped
<1>5. PointsTyped
  BY HandTyped DEF PointsTyped, Pc, CallerPc, WorkerPc
<1>6. job \in [Threads -> Job] /\ Threads = {"caller", "worker"} /\ \A t \in Threads : job[t] = NoJob
  BY NothingTyped, ThreadsAre
<1>7. Types
  BY <1>2, <1>4, <1>5, <1>6, LedgerAssumption DEF Types
<1>8. ControlOK
  BY <1>3 DEF ControlOK
<1>9. ~reported.alone
  BY DEF NoReport
<1>10. Positions
  BY <1>3, <1>9, LedgerAssumption DEF Positions
<1>11. Writes
  BY <1>6, ThreadsAre DEF Writes, Ready
<1>12. Counted /\ Listed /\ RowsRestored
  BY <1>1, <1>9 DEF Counted, Listed, RowsRestored
<1>13. SlotsAccounted
  <2>1. UsedSlots = {}
    BY <1>3 DEF UsedSlots
  <2>2. Cardinality(UsedSlots) = 0
    BY <2>1, FS_EmptySet
  <2>3. QED
    BY <1>1, <1>3, <2>1, <2>2, CapNat DEF SlotsAccounted
<1>14. SlotInHand /\ AttemptInHand
  BY DEF SlotInHand, AttemptInHand
<1>15. Recorded
  <2>1. DOMAIN reserved = {}
    BY DEF Nothing
  <2>2. Cardinality(DOMAIN reserved) = 0 /\ \A i : Cardinality(UnderApproval(i)) = 0
    BY <2>1, FS_EmptySet DEF UnderApproval
  <2>3. QED
    BY <1>1, <2>2, CapNat DEF Recorded
<1>16. OneWriter
  BY <1>6, ThreadsAre DEF OneWriter, Ready
<1>17. RunsRecorded
  <2>1. Begun = {}
    BY DEF Begun
  <2>2. QED
    BY <2>1 DEF RunsRecorded
<1>18. QED
  BY <1>7, <1>8, <1>10, <1>11, <1>12, <1>13, <1>14, <1>15, <1>16, <1>17 DEF LedgerInv, AttemptsRecorded

LEMMA Protocols == [Next]_vars => [Protocol]_kept
<1>1. RunCandidate => UNCHANGED kept
  BY DEF RunCandidate, kept, disk
<1>2. UNCHANGED vars => UNCHANGED kept
  BY DEF vars, kept, disk, history
<1>3. QED
  BY <1>1, <1>2 DEF Next, Protocol

LEMMA InvKept == LedgerInv /\ [Next]_vars => LedgerInv'
<1> SUFFICES ASSUME LedgerInv, [Protocol]_kept, RunsRecorded' PROVE LedgerInv'
  BY Protocols, RunsRecordedKept
<1>1. api' = api
  BY EnforcedStays
<1>2. Types' /\ ControlOK' /\ Positions' /\ Writes' /\ Counted' /\ Listed'
  BY TypesKept, ControlKept, PositionsKept, WritesKept, CountedKept, ListedKept
<1>3. api = "slots" => SlotsAccounted' /\ SlotInHand' /\ RowsRestored'
  BY SlotsAccountedKept, SlotInHandKept, RowsRestoredKept
<1>4. api = "attempts" => AttemptsRecorded' /\ AttemptInHand'
  BY RecordedKept, OneWriterKept, AttemptInHandKept DEF AttemptsRecorded
<1>5. QED
  BY <1>1, <1>2, <1>3, <1>4 DEF LedgerInv

\* The control state, the ledger, the reservations and what the two threads have
\* in hand agree as the code means them to, whatever the interleaving of the
\* caller and the Worker and wherever the process dies between two writes.
THEOREM SpecImpliesLedgerInv == Spec => []LedgerInv
<1>1. QED
  BY InitInv, InvKept, PTL DEF Spec

-----------------------------------------------------------------------------
(* What follows.                                                             *)

\* The store's files keep their shape, an approval never authorizes more than
\* its maximum_cmo_attempts, and the lock has one holder.
THEOREM SpecImpliesTypeOK == Spec => []TypeOK
<1>1. LedgerInv => TypeOK
  <2> SUFFICES ASSUME LedgerInv PROVE TypeOK
    OBVIOUS
  <2>1. /\ control \in Control /\ FilesTyped /\ ControlOK
        /\ job["worker"].locked => ~job["caller"].locked
    BY DEF LedgerInv, Types, Writes
  <2>2. /\ control.started \in Nat
        /\ \A g \in DOMAIN control.grants : control.grants[g] \in [valid : BOOLEAN, authorized : 0..Cap]
    <3>1. control.started \in Nat /\ control.grants \in Seq(Grant)
      BY <2>1 DEF Control
    <3>2. \A g \in DOMAIN control.grants : control.grants[g] \in Grant
      BY <3>1
    <3>3. QED
      BY <3>1, <3>2 DEF Grant
  <2>3. DOMAIN control.slots \in {{}, Slots} /\ DOMAIN control.ops = DOMAIN control.slots
    BY <2>1, ControlFields DEF ControlOK
  <2>4. \A s \in DOMAIN control.slots :
          control.slots[s] \in [status : SlotStatus, approval : 0..Len(control.grants)]
    <3> TAKE s \in DOMAIN control.slots
    <3>1. control.slots[s] \in Slot /\ Len(control.grants) \in Nat
      BY <2>1, ControlFields
    <3>2. control.slots[s].approval <= Len(control.grants)
      BY <2>1 DEF ControlOK
    <3>3. control.slots[s].approval \in 0..Len(control.grants)
      BY <3>1, <3>2 DEF Slot
    <3>4. QED
      BY <3>1, <3>3 DEF Slot
  <2>5. DOMAIN ledger \subseteq Ops /\ Range(ledger) \subseteq OpStatus
    BY <2>1, RowsType DEF FilesTyped, Range
  <2>6. runs \in Nat /\ DOMAIN reserved \subseteq Attempts
    BY <2>1 DEF FilesTyped
  <2>7. Range(workers) \subseteq Outcomes \cup {"running", "reconciliation_required"}
    BY <2>1 DEF FilesTyped, WorkerStatus, Range
  <2>8. unasked \subseteq Range(Runs)
    BY RunsInRange DEF LedgerInv, RunsRecorded
  <2>9. QED
    BY <2>1, <2>2, <2>3, <2>4, <2>5, <2>6, <2>7, <2>8 DEF TypeOK
<1>2. QED
  BY <1>1, SpecImpliesLedgerInv, PTL

\* What a launch is paid from.
LEMMA LaunchesPaid ==
    ASSUME LedgerInv
    PROVE  /\ \A op \in Launched : \E g : launches[op] = <<g>>
           /\ \A g \in 1..Issued :
                Cardinality({op \in DOMAIN launches : g \in Range(launches[op])}) <= Cap
           /\ enforced => Cardinality(Launched) <= MaxRuns
<1> DEFINE Under(g) == {op \in DOMAIN launches : g \in Range(launches[op])}
<1>1. /\ api \in {"slots", "attempts"} /\ control \in Control
      /\ \A op \in DOMAIN launches \ Launched : launches[op] = <<>>
      /\ Issued \in Nat /\ Cardinality(Launched) \in Nat
  <2>1. control \in Control /\ approvals \in Seq(BOOLEAN) /\ api \in {"slots", "attempts"}
    BY DEF LedgerInv, Types, FilesTyped
  <2>2. Issued \in Nat
    BY <2>1, ControlFields DEF Issued
  <2>3. QED
    BY <2>1, <2>2, LaunchedFinite DEF Launched
<1>2. \A g : g \notin Range(<<>>)
  BY DEF Range
<1>3. \A g, h : g \in Range(<<h>>) => g = h
  BY DEF Range
<1>4. CASE api = "slots"
  <2>1. \A op \in Launched : op \in UsedSlots /\ launches[op] = <<control.slots[op].approval>>
    BY <1>4, AccountsAre
  <2>2. \A g : \A op \in Under(g) : op \in Launched /\ g = control.slots[op].approval
    BY <1>1, <1>2, <1>3, <2>1
  <2>3. \A g : Under(g) \in SUBSET PaidBy(g)
    BY <2>1, <2>2 DEF PaidBy, UsedSlots, Used
  <2>4. \A g : Cardinality(Under(g)) \in Nat /\ Cardinality(Under(g)) <= Cardinality(PaidBy(g))
    <3> HIDE DEF Under
    <3>1. QED
      BY <2>3, SlotSets, FS_Subset, FS_CardinalityType
  <2>5. ASSUME NEW g \in 1..Issued PROVE Cardinality(Under(g)) <= Cap
    <3>1. CASE g \in 1..Len(control.grants)
      <4>1. control.grants[g] \in Grant
        BY <1>1, <3>1, ControlFields
      <4>2. control.grants[g].authorized \in 0..Cap
        BY <4>1, GrantTyped
      <4>3. Cardinality(PaidBy(g)) <= control.grants[g].authorized
        BY <1>4, <3>1, AccountsAre
      <4> HIDE DEF Under
      <4>4. QED
        BY <2>4, <4>2, <4>3, SlotSets, CapNat
    <3>2. CASE g \notin 1..Len(control.grants)
      <4>1. \A s \in UsedSlots : control.slots[s].approval <= Len(control.grants)
        BY DEF LedgerInv, ControlOK, UsedSlots
      <4>2. Under(g) = {}
        BY <1>1, <2>1, <2>2, <2>5, <3>2, <4>1, ControlFields
      <4> HIDE DEF Under
      <4>3. Cardinality(Under(g)) = 0
        BY <4>2, FS_EmptySet
      <4>4. QED
        BY <4>3, CapNat
    <3>3. QED
      BY <3>1, <3>2
  <2>6. Cardinality(Launched) <= Cardinality(UsedSlots)
    BY <2>1, SlotSets, FS_Subset
  <2>7. enforced => Cardinality(Launched) <= MaxRuns
    BY <1>1, <1>4, <2>6, AccountsAre, SlotSets, CapNat
  <2>8. QED
    BY <2>1, <2>5, <2>7
<1>5. CASE api = "attempts"
  <2>1. Recorded
    BY <1>5, AloneWriting
  <2>2. \A op \in Launched : op \in DOMAIN reserved /\ launches[op] = <<reserved[op]>>
    BY <2>1 DEF Recorded
  <2>3. \A g : \A op \in Under(g) : op \in Launched /\ g = reserved[op]
    BY <1>1, <1>2, <1>3, <2>2
  <2>4. \A g : Under(g) \in SUBSET UnderApproval(g)
    BY <2>2, <2>3 DEF UnderApproval
  <2>5. \A g : Cardinality(Under(g)) \in Nat /\ Cardinality(Under(g)) <= Cardinality(UnderApproval(g))
    <3> HIDE DEF Under
    <3>1. QED
      BY <2>4, ReservedAre, FS_Subset, FS_CardinalityType
  <2>6. ASSUME NEW g \in 1..Issued PROVE Cardinality(Under(g)) <= Cap
    <3>1. Cardinality(UnderApproval(g)) <= Cap /\ Cardinality(UnderApproval(g)) \in Nat
      BY <1>1, <2>1, <2>6, ReservedAre DEF Recorded
    <3> HIDE DEF Under
    <3>2. QED
      BY <2>5, <3>1, CapNat
  <2>7. Cardinality(Launched) <= Cardinality(DOMAIN reserved)
    BY <2>2, ReservedAre, FS_Subset
  <2>8. enforced => Cardinality(Launched) <= MaxRuns
    BY <1>1, <2>1, <2>7, ReservedAre, CapNat DEF Recorded
  <2>9. QED
    BY <2>2, <2>6, <2>8
<1>6. QED
  BY <1>1, <1>4, <1>5

\* Across approvals, pauses, restarts and deaths between the writes, no attempt
\* that the threads of one process launch through the broker reaches CMO twice,
\* no approval pays for more of them than its maximum_cmo_attempts, an enforced
\* budget is kept, and none goes uncounted.
THEOREM SpecImpliesAttemptsAccounted == Spec => []AttemptsAccounted
<1>1. LedgerInv => AttemptsAccounted
  <2> SUFFICES ASSUME LedgerInv PROVE AttemptsAccounted
    OBVIOUS
  <2>1. \A op \in DOMAIN launches : Len(launches[op]) <= 1
    <3> TAKE op \in DOMAIN launches
    <3>1. CASE op \in Launched
      <4>1. PICK g : launches[op] = <<g>>
        BY <3>1, LaunchesPaid
      <4>2. QED
        BY <4>1
    <3>2. CASE op \notin Launched
      BY <3>2 DEF Launched
    <3>3. QED
      BY <3>1, <3>2
  <2>2. Cardinality(Launched) <= runs
    <3>1. /\ Counted /\ runs \in Nat /\ Cardinality(Launched) \in Nat
      BY LaunchedFinite DEF LedgerInv, Types, FilesTyped
    <3>2. QED
      BY <3>1 DEF Counted
  <2>3. QED
    BY <2>1, <2>2, LaunchesPaid DEF AttemptsAccounted
<1>2. QED
  BY <1>1, SpecImpliesLedgerInv, PTL

\* A resume that finds no Worker names every attempt that may have reached CMO
\* and has no recorded end, also those whose ledger row a death left behind the
\* control state, and every Worker that started CMO unasked and whose row has
\* no end.
THEOREM SpecImpliesResumeReports == Spec => []ResumeReports
<1>1. LedgerInv => ResumeReports
  <2> SUFFICES ASSUME LedgerInv, at["caller"] = "resumed", reported.alone
               PROVE  /\ {s \in DOMAIN control.slots : control.slots[s].status \in {"started", "unknown"}}
                           \subseteq reported.ops
                      /\ {op \in DOMAIN launches : launches[op] # <<>> /\ ~Ended(op)}
                           \subseteq reported.ops
    <3>1. ASSUME LedgerInv, at["caller"] = "resumed", reported.alone
          PROVE  {op \in unasked : ~RowEnded(op)} \subseteq reported.ops
      BY <3>1 DEF LedgerInv, RunsRecorded, Listed, RowEnded, Used
    <3>2. QED
      BY <3>1 DEF ResumeReports
  <2>1. /\ reported.ops = reported.pending
             \cup {o \in DOMAIN ledger : ledger[o] \in {"started", "unknown"}}
        /\ Ready("caller") /\ api \in {"slots", "attempts"}
    BY DEF LedgerInv, Listed, Writes, Types
  <2>2. {op \in DOMAIN launches : launches[op] # <<>> /\ ~Ended(op)}
          = {op \in Launched : ~Ended(op)}
    BY DEF Launched
  <2>3. CASE api = "slots" /\ control.open
    <3>1. /\ reported.pending = {s \in DOMAIN control.slots : control.slots[s].status = "unknown"}
          /\ \A s \in DOMAIN control.ops : s \in DOMAIN ledger /\ ledger[s] = control.ops[s]
      BY <2>1, <2>3 DEF LedgerInv, RowsRestored
    <3>2. \A s \in DOMAIN control.slots :
            control.slots[s].status \in {"started", "unknown"} => s \in reported.ops
      <4> SUFFICES ASSUME NEW s \in DOMAIN control.slots, control.slots[s].status = "started"
                   PROVE  s \in reported.ops
        BY <2>1, <3>1
      <4>1. control.ops[s] = "started" /\ s \in DOMAIN control.ops
        BY <2>3, AccountsAre DEF UsedSlots, Used
      <4>2. QED
        BY <2>1, <3>1, <4>1
    <3>3. \A op \in Launched : ~Ended(op) =>
            op \in DOMAIN control.slots /\ control.slots[op].status \in {"started", "unknown"}
      BY <2>3, AccountsAre DEF UsedSlots, Used, Ended
    <3>4. QED
      BY <2>2, <3>2, <3>3
  <2>4. CASE api = "slots" /\ ~control.open
    <3>1. DOMAIN control.slots = {}
      BY <2>4 DEF LedgerInv, ControlOK
    <3>2. Launched = {}
      BY <2>4, <3>1, AccountsAre DEF UsedSlots
    <3>3. QED
      BY <2>2, <3>1, <3>2
  <2>5. CASE api = "attempts"
    <3>1. DOMAIN control.slots = {}
      BY <2>5 DEF LedgerInv, ControlOK, Positions
    <3>2. \A op \in Launched : op \in DOMAIN ledger /\ ledger[op] = "started"
      BY <2>5, AloneWriting DEF Recorded
    <3>3. QED
      BY <2>1, <2>2, <3>1, <3>2
  <2>6. QED
    BY <2>1, <2>3, <2>4, <2>5
<1>2. QED
  BY <1>1, SpecImpliesLedgerInv, PTL

\* A slot is authorized only under a grant issued after the last pause, stop or
\* resume, however late the Worker acts on what it read before.
THEOREM SpecImpliesApprovalsEnd == Spec => ApprovalsEnd
<1> DEFINE Ending == \A s \in DOMAIN control.slots :
             control.slots[s].status # "authorized" /\ control'.slots[s].status = "authorized"
               => control'.slots[s].approval > revoked
<1>1. LedgerInv /\ [Next]_vars => Ending
  <2> SUFFICES ASSUME LedgerInv, [Next]_vars, NEW s \in DOMAIN control.slots,
                      control.slots[s].status # "authorized",
                      control'.slots[s].status = "authorized"
               PROVE  control'.slots[s].approval > revoked
    OBVIOUS
  <2>1. control \in Control /\ DOMAIN control.ops = DOMAIN control.slots
    BY DEF LedgerInv, Types, ControlOK
  <2>2. control' # control
    OBVIOUS
  <2>3. ControlWritten
    BY <2>2, Protocols, ControlSteps, ControlWrites DEF kept, disk
  <2>4. ~Opens
    BY <2>1, OpenedControl DEF Opens
  <2>5. ~Grants
    <3>1. s \in Slots
      BY <2>1, ControlFields
    <3>2. QED
      BY <2>1, <3>1, GrantedControl DEF Grants
  <2>6. ~Revokes
    BY <2>1, InvalidatedControl DEF Revokes
  <2>7. ~Reconciles
    BY <2>1, ReconciledControl DEF Reconciles
  <2>8. ~Starts
    <3>1. Starts => /\ control'.slots[held.op].status = "started"
                    /\ \A r \in DOMAIN control.slots \ {held.op} : control'.slots[r] = control.slots[r]
      BY <2>1, StartedControl DEF Starts
    <3>2. QED
      BY <3>1
  <2>9. ~Ends
    <3> SUFFICES ASSUME Ends PROVE FALSE
      OBVIOUS
    <3>1. PICK end \in EndStatus : control' = EndedSlot(held.op, end)
      BY DEF Ends
    <3>2. /\ control'.slots[held.op].status = end
          /\ \A r \in DOMAIN control.slots \ {held.op} : control'.slots[r] = control.slots[r]
      BY <2>1, <3>1, EndedControl DEF Ends
    <3>3. QED
      BY <3>2 DEF EndStatus
  <2>10. CASE Authorizes
    <3>1. /\ held.op \in DOMAIN control.slots /\ held.approval \in 1..Len(control.grants)
          /\ control.grants[held.approval].valid
          /\ control' = AuthorizedSlot(held.op, held.approval)
          /\ control.grants[held.approval].authorized < Cap
      BY <2>10 DEF Authorizes, Usable
    <3>2. /\ control'.slots[held.op].approval = held.approval
          /\ \A r \in DOMAIN control.slots \ {held.op} : control'.slots[r] = control.slots[r]
      BY <2>1, <3>1, AuthorizedControl
    <3>3. s = held.op
      BY <3>2
    <3>4. /\ \A g \in 1..revoked : ~control.grants[g].valid
          /\ revoked \in Nat
      BY DEF LedgerInv, ControlOK, Types, FilesTyped
    <3>5. QED
      BY <2>1, <3>1, <3>2, <3>3, <3>4, ControlFields
  <2>11. QED
    BY <2>3, <2>4, <2>5, <2>6, <2>7, <2>8, <2>9, <2>10 DEF ControlWritten
<1>2. QED
  BY <1>1, SpecImpliesLedgerInv, PTL DEF Spec, ApprovalsEnd
=============================================================================
