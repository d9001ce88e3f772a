----------------------- MODULE TurnFinalizationProofs -----------------------
(***************************************************************************)
(* Proofs about TurnFinalization, for any outputs, workers, process ids    *)
(* and bounds, and for any number of faults of any kind: its types, that a *)
(* newer run keeps its sandbox from everything but a suspend that was      *)
(* given up, and that a finalization recorded as complete has published    *)
(* every output.                                                           *)
(***************************************************************************)
EXTENDS TurnFinalization, FiniteSetTheorems, TLAPS

(* Types. *)

(* A fault of a known kind is counted and recorded. *)
LEMMA FaultTyped ==
  ASSUME TypeOK, NEW f \in Faults, Fault(f)
  PROVE  faults' \in [spent: 0..MaxFaults, kinds: SUBSET Faults, marks: SUBSET Marks]
<1>1. faults.spent \in 0..MaxFaults /\ faults.kinds \in SUBSET Faults
      /\ faults.marks \in SUBSET Marks
  BY DEF TypeOK
<1>2. faults.spent + 1 \in 0..MaxFaults
  BY <1>1, FinalizationAssumption DEF Fault
<1>3. faults.kinds \cup {f} \in SUBSET Faults
  BY <1>1
<1> HIDE DEF Faults, Marks
<1> QED
  BY <1>2, <1>3 DEF TypeOK, Fault

(* A mark leaves the faults typed. *)
LEMMA MarkTyped ==
  ASSUME TypeOK, NEW m \in Marks, NEW holds \in BOOLEAN
  PROVE  Marked(m, holds) \in [spent: 0..MaxFaults, kinds: SUBSET Faults, marks: SUBSET Marks]
  BY DEF TypeOK, Marked

(* A delivery that is put back is a delivery. *)
LEMMA RequeuedTyped ==
  ASSUME TypeOK, NEW w \in Workers
  PROVE  Requeued(w) \subseteq Delivery
  BY DEF TypeOK, Requeued, JobType, Delivery

(* A worker that does nothing. *)
LEMMA IdleTyped == IdleJob \in JobType
  BY DEF IdleJob, JobType, NoDelivery, Delivery, Verdicts

(* Initially every variable has its type. *)
LEMMA TypeInit == Init => TypeOK
  BY FinalizationAssumption, IdleTyped
  DEF Init, TypeOK, NoOp, OpType, Verdicts, Statuses

(* Dispatch, loss, dead letter, the sweep and a newer run keep the types. *)
LEMMA TypeOutbox ==
  ASSUME TypeOK,
         Dispatch \/ LoseJob \/ deadLetterExhaustedReceipts \/ LeaseExpires
           \/ enqueuePendingFinalizations \/ NewerRunClaims \/ SuspendLands
  PROVE  TypeOK'
<1>1. CASE Dispatch
  <2>1. faults' \in [spent: 0..MaxFaults, kinds: SUBSET Faults, marks: SUBSET Marks]
    BY <1>1, FaultTyped DEF Dispatch, ReceiptOverdue, Faults, TypeOK
  <2>2. row' \in [open: BOOLEAN, attempts: 0..MaxAttempts, key: Nat]
    BY <1>1, FinalizationAssumption DEF Dispatch, TypeOK
  <2>3. queue' \subseteq Delivery
    BY <1>1, FinalizationAssumption DEF Dispatch, TypeOK, Delivery
  <2>4. sandbox' \in [recorded: {"running", "pause_requested", "paused"},
                      paused: BOOLEAN, inflight: BOOLEAN, newer: BOOLEAN]
    BY <1>1 DEF Dispatch, TypeOK
  <2> QED
    BY <1>1, <2>1, <2>2, <2>3, <2>4 DEF Dispatch, TypeOK
<1>2. CASE LoseJob
  BY <1>2, FaultTyped DEF LoseJob, TypeOK, Faults
<1>3. CASE deadLetterExhaustedReceipts
  <2>1. faults' \in [spent: 0..MaxFaults, kinds: SUBSET Faults, marks: SUBSET Marks]
    BY <1>3, FaultTyped DEF deadLetterExhaustedReceipts, ReceiptOverdue, Faults, TypeOK
  <2> QED
    BY <1>3, <2>1 DEF deadLetterExhaustedReceipts, TypeOK
<1>4. CASE LeaseExpires
  <2>1. faults' \in [spent: 0..MaxFaults, kinds: SUBSET Faults, marks: SUBSET Marks]
    BY <1>4, MarkTyped DEF LeaseExpires, Marks
  <2> QED
    BY <1>4, <2>1 DEF LeaseExpires, TypeOK
<1>5. CASE enqueuePendingFinalizations
  <2>1. row' \in [open: BOOLEAN, attempts: 0..MaxAttempts, key: Nat]
    <3>1. fin.attempt + 1 \in Nat /\ 0 \in 0..MaxAttempts
      BY FinalizationAssumption DEF TypeOK
    <3>2. Reopened \in [open: BOOLEAN, attempts: 0..MaxAttempts, key: Nat]
      BY <3>1 DEF Reopened, TypeOK
    <3> QED
      BY <1>5, <3>2 DEF enqueuePendingFinalizations, TypeOK
  <2>2. /\ fin' \in [status: Statuses, owner: {"none"} \cup {Pid[w] : w \in Workers},
                     lease: {"none", "held", "expired"}, attempt: Nat,
                     items: Nat, settled: BOOLEAN]
        /\ fin'.status # "running" => fin'.owner = "none" /\ fin'.lease = "none"
    BY <1>5 DEF enqueuePendingFinalizations, Reclaimed, TypeOK, Statuses
  <2> QED
    BY <1>5, <2>1, <2>2 DEF enqueuePendingFinalizations, TypeOK
<1>6. CASE NewerRunClaims \/ SuspendLands
  BY <1>6 DEF NewerRunClaims, SuspendLands, TypeOK
<1> QED
  BY <1>1, <1>2, <1>3, <1>4, <1>5, <1>6

(* What TypeOK says of the row of the finalization. *)
FinTyped(f) ==
  /\ f \in [status: Statuses, owner: {"none"} \cup {Pid[w] : w \in Workers},
            lease: {"none", "held", "expired"}, attempt: Nat,
            items: Nat, settled: BOOLEAN]
  /\ f.status # "running" => f.owner = "none" /\ f.lease = "none"

SandboxType == [recorded: {"running", "pause_requested", "paused"},
                paused: BOOLEAN, inflight: BOOLEAN, newer: BOOLEAN]

(* A job execution that goes on elsewhere keeps its type. *)
LEMMA GotoTyped ==
  ASSUME TypeOK, NEW w \in Workers, NEW pc, Goto(w, pc),
         pc \in {"begin", "list", "read", "start", "store", "persist", "complete",
                 "waits", "pause", "stop"}
  PROVE  job' \in [Workers -> JobType]
<1>1. [job[w] EXCEPT !.pc = pc] \in JobType
  BY DEF TypeOK, JobType
<1>2. job' = [job EXCEPT ![w] = [job[w] EXCEPT !.pc = pc]]
  BY DEF Goto
<1> QED
  BY <1>1, <1>2 DEF TypeOK

(* A finished job execution is idle. *)
LEMMA EndTyped ==
  ASSUME TypeOK, NEW w \in Workers, job' = [job EXCEPT ![w] = IdleJob]
  PROVE  job' \in [Workers -> JobType]
  BY IdleTyped DEF TypeOK

(* A finalization that fails is no longer leased. *)
LEMMA FailTyped ==
  ASSUME TypeOK, NEW w \in Workers, failFinalization(w)
  PROVE  FinTyped(fin')
  BY DEF TypeOK, FinTyped, failFinalization, Statuses

(* A finalization with an outcome is no longer leased. *)
LEMMA OutcomeTyped ==
  ASSUME TypeOK, NEW st \in Statuses, st # "running", NEW n \in Nat, NEW s \in BOOLEAN
  PROVE  FinTyped([fin EXCEPT !.status = st, !.items = n, !.settled = s,
                              !.owner = "none", !.lease = "none"])
  BY DEF TypeOK, FinTyped

(* A finalization that begins is leased to its worker. *)
LEMMA BeginTyped ==
  ASSUME TypeOK, NEW a \in Nat, NEW p \in {Pid[x] : x \in Workers}
  PROVE  FinTyped([fin EXCEPT !.status = "running", !.attempt = a,
                              !.owner = p, !.lease = "held"])
  BY DEF TypeOK, FinTyped, Statuses

(* Taking a delivery and the lock, skipping and beginning keep the types. *)
LEMMA TypeBegin ==
  ASSUME TypeOK, NEW w \in Workers,
         Take(w) \/ TakeLock(w) \/ beginFinalization(w)
  PROVE  TypeOK'
<1>1. CASE Take(w)
  <2>1. PICK d \in queue :
          /\ queue' = queue \ {d}
          /\ row' = IF d.key = row.key /\ d.epoch = row.attempts
                      THEN [row EXCEPT !.open = FALSE] ELSE row
          /\ job' = [job EXCEPT ![w] = [IdleJob EXCEPT !.pc = "queued", !.of = d]]
    BY <1>1 DEF Take
  <2>2. d \in Delivery
    BY DEF TypeOK
  <2>3. [IdleJob EXCEPT !.pc = "queued", !.of = d] \in JobType
    BY <2>2 DEF IdleJob, JobType, Verdicts
  <2>4. job' \in [Workers -> JobType]
    BY <2>1, <2>3 DEF TypeOK
  <2>5. row' \in [open: BOOLEAN, attempts: 0..MaxAttempts, key: Nat]
    BY <2>1 DEF TypeOK
  <2> QED
    BY <1>1, <2>1, <2>4, <2>5 DEF Take, TypeOK
<1>2. CASE TakeLock(w) /\ MustSkip
  <2>1. FinTyped(fin')
    <3>1. CASE Skippable
      BY <1>2, <3>1, OutcomeTyped DEF TakeLock, skipFinalization, Statuses
    <3>2. CASE ~Skippable
      BY <1>2, <3>2 DEF TakeLock, skipFinalization, TypeOK, FinTyped
    <3> QED
      BY <3>1, <3>2
  <2>2. job' \in [Workers -> JobType]
    BY <1>2, EndTyped DEF TakeLock, Succeeds
  <2>3. faults' \in [spent: 0..MaxFaults, kinds: SUBSET Faults, marks: SUBSET Marks]
    BY <1>2, MarkTyped DEF TakeLock, Overwrites, Skippable, Marks
  <2>4. lock' \in Workers \cup {"free"} /\ UNCHANGED <<ops, blob, sandbox, row, queue>>
    BY <1>2 DEF TakeLock, Succeeds
  <2> QED
    BY <2>1, <2>2, <2>3, <2>4 DEF TypeOK, FinTyped
<1>3. CASE TakeLock(w) /\ ~MustSkip
  <2>1. job' \in [Workers -> JobType]
    BY <1>3, GotoTyped DEF TakeLock
  <2>2. lock' \in Workers \cup {"free"}
        /\ UNCHANGED <<fin, ops, blob, sandbox, row, queue, faults>>
    BY <1>3 DEF TakeLock
  <2> QED
    BY <2>1, <2>2 DEF TypeOK
<1>4. CASE beginFinalization(w)
  <2>1. job' \in [Workers -> JobType]
    BY <1>4, GotoTyped DEF beginFinalization
  <2>2. FinTyped(fin')
    <3>1. fin.attempt + 1 \in Nat /\ Pid[w] \in {Pid[x] : x \in Workers}
      BY DEF TypeOK
    <3>2. CASE MayBegin(w)
      BY <1>4, <3>1, <3>2, BeginTyped DEF beginFinalization
    <3>3. CASE ~MayBegin(w)
      BY <1>4, <3>3 DEF beginFinalization, TypeOK, FinTyped
    <3> QED
      BY <3>2, <3>3
  <2> QED
    BY <1>4, <2>1, <2>2 DEF beginFinalization, TypeOK, FinTyped
<1> QED
  BY <1>1, <1>2, <1>3, <1>4

(* The steps of a publication before anything is recorded keep the types. *)
LEMMA TypeRead ==
  ASSUME TypeOK, NEW w \in Workers,
         List(w) \/ ListFails(w) \/ \E o \in Outputs : Read(w, o) \/ ReadFails(w, o)
  PROVE  TypeOK'
<1>0. job[w] \in JobType
  BY DEF TypeOK
<1>1. CASE List(w)
  <2> DEFINE P == {o \in Outputs : blob[o] = "verified"}
  <2>0. P \in SUBSET Outputs
    OBVIOUS
  <2>0a. job' = [job EXCEPT ![w] = [job[w] EXCEPT !.pc = "read", !.todo = Outputs,
                                                 !.prior = P]]
    BY <1>1 DEF List
  <2> HIDE DEF P
  <2>1. [job[w] EXCEPT !.pc = "read", !.todo = Outputs, !.prior = P] \in JobType
    BY <1>0, <2>0 DEF JobType
  <2>2. job' \in [Workers -> JobType]
    BY <2>0a, <2>1 DEF TypeOK
  <2> QED
    BY <1>1, <2>2 DEF List, TypeOK
<1>2. CASE ListFails(w)
  <2>1. FinTyped(fin')
    BY <1>2, FailTyped DEF ListFails
  <2>2. job' \in [Workers -> JobType]
    BY <1>2, EndTyped, GotoTyped DEF ListFails, Succeeds
  <2>3. faults' \in [spent: 0..MaxFaults, kinds: SUBSET Faults, marks: SUBSET Marks]
    BY <1>2, FaultTyped DEF ListFails, Faults, TypeOK
  <2>4. sandbox' \in SandboxType
    BY <1>2 DEF ListFails, TypeOK, SandboxType
  <2>5. lock' \in Workers \cup {"free"} /\ UNCHANGED <<ops, blob, row, queue>>
    BY <1>2 DEF ListFails, Succeeds, TypeOK
  <2> QED
    BY <2>1, <2>2, <2>3, <2>4, <2>5 DEF TypeOK, FinTyped, SandboxType
<1>3. ASSUME NEW o \in Outputs, Read(w, o) PROVE TypeOK'
  <2>0. job[w].todo \ {o} \in SUBSET Outputs
    BY <1>0 DEF JobType
  <2>1. [job[w] EXCEPT !.todo = job[w].todo \ {o}] \in JobType
    BY <1>0, <2>0 DEF JobType
  <2>2. [job[w] EXCEPT !.todo = job[w].todo \ {o}, !.cur = o, !.pc = "start"] \in JobType
    BY <1>0, <2>0 DEF JobType
  <2>3. job' \in [Workers -> JobType]
    BY <1>3, <2>1, <2>2 DEF Read, TypeOK
  <2> QED
    BY <1>3, <2>3 DEF Read, TypeOK
<1>4. ASSUME NEW o \in Outputs, ReadFails(w, o) PROVE TypeOK'
  <2>0. job[w].todo \ {o} \in SUBSET Outputs /\ job[w].failures + 1 \in Nat
    BY <1>0 DEF JobType
  <2>1. [job[w] EXCEPT !.todo = job[w].todo \ {o}, !.failures = job[w].failures + 1]
          \in JobType
    BY <1>0, <2>0 DEF JobType
  <2>2. job' \in [Workers -> JobType]
    BY <1>4, <2>1 DEF ReadFails, TypeOK
  <2>3. Marked("uncounted", Uncounted(w, o))
          \in [spent: 0..MaxFaults, kinds: SUBSET Faults, marks: SUBSET Marks]
    BY MarkTyped DEF Marks, Uncounted
  <2>4. faults' \in [spent: 0..MaxFaults, kinds: SUBSET Faults, marks: SUBSET Marks]
    <3>1. CASE sandbox.paused
      BY <1>4, <2>3, <3>1 DEF ReadFails
    <3>2. CASE ~sandbox.paused
      <4>1. faults.spent + 1 \in 0..MaxFaults
        <5>1. faults.spent \in 0..MaxFaults
          BY DEF TypeOK
        <5>2. faults.spent < MaxFaults
          BY <1>4, <3>2 DEF ReadFails
        <5> QED
          BY <5>1, <5>2, FinalizationAssumption
      <4>2. faults.kinds \cup {"read"} \in SUBSET Faults
        BY DEF TypeOK, Faults
      <4> HIDE DEF Faults, Marks
      <4> QED
        BY <1>4, <2>3, <3>2, <4>1, <4>2 DEF ReadFails
    <3> QED
      BY <3>1, <3>2
  <2>5. UNCHANGED <<fin, ops, blob, sandbox, row, queue, lock>>
    BY <1>4 DEF ReadFails
  <2> QED
    BY <2>2, <2>4, <2>5 DEF TypeOK
<1> QED
  BY <1>1, <1>2, <1>3, <1>4

(* The status an operation takes from its blob. *)
LEMMA StatusTyped ==
  ASSUME NEW op \in OpType, NEW v
  PROVE  WithStatus(op, v) \in OpType
<1> DEFINE st == CASE v = "verified" -> "complete"
                   [] v = "failed"   -> "failed"
                   [] OTHER          -> "staged"
           ch == CASE v = "verified" -> "verified"
                   [] v = "failed"   -> "failed"
                   [] OTHER          -> "pending"
<1>1. /\ st \in {"absent", "pending", "staged", "complete", "failed"}
      /\ ch \in {"none", "pending", "verified", "failed"}
  OBVIOUS
<1>2. WithStatus(op, v) = [op EXCEPT !.file = TRUE, !.status = st, !.check = ch]
  BY DEF WithStatus
<1> HIDE DEF st, ch
<1>3. ASSUME NEW b \in BOOLEAN
      PROVE  [op EXCEPT !.file = b, !.status = st, !.check = ch] \in OpType
  BY <1>1 DEF OpType
<1> QED
  BY <1>2, <1>3, Zenon

(* The output a publication has in its hands is one. *)
LEMMA InHand ==
  ASSUME NEW w \in Workers, JobMatchesRows(w), job[w].pc \in Handling
  PROVE  job[w].cur \in Outputs
  BY DEF JobMatchesRows

(* An operation that is replaced by one leaves the operations typed. *)
LEMMA OpsTyped ==
  ASSUME TypeOK, NEW o \in Outputs, NEW op \in OpType, ops' = [ops EXCEPT ![o] = op]
  PROVE  ops' \in [Outputs -> OpType]
  BY DEF TypeOK

(* The steps of a publication that record an output keep the types. *)
LEMMA TypePublish ==
  ASSUME TypeOK, NEW w \in Workers, JobMatchesRows(w),
         \/ recordArtifactOperationStart(w) \/ recordArtifactOperationStorage(w)
         \/ persistOutput(w) \/ failArtifactOperation(w)
         \/ completeArtifactOperation(w) \/ CompleteWaits(w) \/ CompleteResumes(w)
  PROVE  TypeOK'
<1> DEFINE c == job[w].cur
<1>0. job[w] \in JobType
  BY DEF TypeOK
<1>a. c \in Outputs
  BY InHand DEF recordArtifactOperationStart, recordArtifactOperationStorage,
    persistOutput, failArtifactOperation, completeArtifactOperation, CompleteWaits,
    CompleteResumes, Handling
<1>b. ops[c] \in OpType /\ blob[c] \in Verdicts
  BY <1>a DEF TypeOK
<1>c. job[w].results + 1 \in Nat /\ job[w].failures + 1 \in Nat
  BY <1>0 DEF JobType
<1>1. CASE recordArtifactOperationStart(w)
  <2>1. ASSUME NEW b \in BOOLEAN
        PROVE  [status |-> "pending", check |-> "pending", file |-> b, receipt |-> b] \in OpType
    BY DEF OpType
  <2>2. [status |-> "pending", check |-> "pending", file |-> FALSE, receipt |-> FALSE]
          \in OpType
    BY <2>1
  <2>3. ops' \in [Outputs -> OpType]
    BY <1>1, <1>a, <2>2, OpsTyped DEF recordArtifactOperationStart
  <2>4. job' \in [Workers -> JobType]
    BY <1>1, GotoTyped DEF recordArtifactOperationStart
  <2> QED
    BY <1>1, <2>3, <2>4 DEF recordArtifactOperationStart, TypeOK
<1>2. CASE recordArtifactOperationStorage(w)
  <2>1. ASSUME NEW b \in BOOLEAN
        PROVE  [ops[c] EXCEPT !.status = "staged", !.check = "pending", !.receipt = b]
                 \in OpType
    BY <1>b DEF OpType
  <2>2. [ops[c] EXCEPT !.status = "staged", !.check = "pending", !.receipt = TRUE] \in OpType
    BY <2>1, Zenon
  <2>3. ops' = [ops EXCEPT ![c] =
                  [ops[c] EXCEPT !.status = "staged", !.check = "pending", !.receipt = TRUE]]
    BY <1>2 DEF recordArtifactOperationStorage
  <2>4. ops' \in [Outputs -> OpType]
    BY <1>a, <2>2, <2>3, OpsTyped
  <2>5. job' \in [Workers -> JobType]
    BY <1>2, GotoTyped DEF recordArtifactOperationStorage
  <2> QED
    BY <1>2, <2>4, <2>5 DEF recordArtifactOperationStorage, TypeOK
<1>3. CASE persistOutput(w)
  <2>1. blob' \in [Outputs -> Verdicts]
    BY <1>3 DEF persistOutput, TypeOK, Verdicts
  <2>2. job' \in [Workers -> JobType]
    BY <1>3, GotoTyped DEF persistOutput
  <2> QED
    BY <1>3, <2>1, <2>2 DEF persistOutput, TypeOK
<1>4. CASE failArtifactOperation(w)
  <2>1. [ops[c] EXCEPT !.status = "failed", !.check = "failed"] \in OpType
    BY <1>b DEF OpType
  <2>2. ops' = [ops EXCEPT ![c] = [ops[c] EXCEPT !.status = "failed", !.check = "failed"]]
    BY <1>4 DEF failArtifactOperation
  <2>3. ops' \in [Outputs -> OpType]
    BY <1>a, <2>1, <2>2, OpsTyped
  <2>4. [job[w] EXCEPT !.pc = "read", !.cur = 0, !.failures = job[w].failures + 1] \in JobType
    BY <1>0, <1>c DEF JobType
  <2>5. job' \in [Workers -> JobType]
    BY <1>4, <2>4 DEF failArtifactOperation, TypeOK
  <2>6. faults' \in [spent: 0..MaxFaults, kinds: SUBSET Faults, marks: SUBSET Marks]
    BY <1>4, FaultTyped DEF failArtifactOperation, Faults
  <2> QED
    BY <1>4, <2>3, <2>5, <2>6 DEF failArtifactOperation, TypeOK
<1>5. ASSUME NEW v, Completed(w, v), UNCHANGED faults PROVE TypeOK'
  <2>1. ops' = [ops EXCEPT ![c] = WithStatus(ops[c], v)]
    BY <1>5 DEF Completed
  <2>2. ops' \in [Outputs -> OpType]
    BY <1>a, <1>b, <2>1, StatusTyped, OpsTyped
  <2>3. [job[w] EXCEPT !.pc = "read", !.cur = 0, !.saw = "none",
                       !.results = job[w].results + 1] \in JobType
    BY <1>0, <1>c DEF JobType, Verdicts
  <2>4. job' \in [Workers -> JobType]
    BY <1>5, <2>3 DEF Completed, TypeOK
  <2> QED
    BY <1>5, <2>2, <2>4 DEF Completed, TypeOK
<1>6. CASE CompleteWaits(w)
  <2>1. [job[w] EXCEPT !.pc = "waits", !.saw = blob[c]] \in JobType
    BY <1>0, <1>b DEF JobType
  <2>2. job' \in [Workers -> JobType]
    BY <1>6, <2>1 DEF CompleteWaits, TypeOK
  <2>3. faults' \in [spent: 0..MaxFaults, kinds: SUBSET Faults, marks: SUBSET Marks]
    BY <1>6, FaultTyped DEF CompleteWaits, Faults
  <2> QED
    BY <1>6, <2>2, <2>3 DEF CompleteWaits, TypeOK
<1> QED
  BY <1>1, <1>2, <1>3, <1>4, <1>5, <1>6
  DEF completeArtifactOperation, CompleteResumes

(* The greater of two counts. *)
LEMMA GreatestOf ==
  ASSUME NEW a \in Nat, NEW b \in Nat
  PROVE  Greatest(a, b) \in Nat /\ a <= Greatest(a, b) /\ b <= Greatest(a, b)
  BY DEF Greatest

(* Sets of outputs are finite and have a count. *)
LEMMA CountOf ==
  ASSUME NEW S, S \subseteq Outputs
  PROVE  IsFiniteSet(S) /\ Cardinality(S) \in Nat
  BY FinalizationAssumption, FS_Subset, FS_CardinalityType

(* finishFinalization gives the finalization an outcome: complete means that *)
(* every item is done, and the items cover its own count and the operations. *)
LEMMA FinishOutcome ==
  ASSUME TypeOK, NEW w \in Workers
  PROVE  /\ FinTyped(finishFinalization(w))
         /\ finishFinalization(w).status # "running"
         /\ finishFinalization(w).attempt = fin.attempt
         /\ job[w].results + job[w].failures <= finishFinalization(w).items
         /\ Cardinality(Recorded) <= finishFinalization(w).items
         /\ finishFinalization(w).status = "complete" =>
              \/ finishFinalization(w).items = 0
              \/ Cardinality(Done) = finishFinalization(w).items
<1> DEFINE mine  == job[w].results + job[w].failures
           items == Greatest(mine, Cardinality(Recorded))
           done  == Cardinality(Done)
           bad   == Cardinality(Failed)
           st    == CASE items = 0   -> "complete"
                      [] done = items -> "complete"
                      [] bad = items  -> "failed"
                      [] OTHER        -> "partial"
           se    == (items = 0 \/ done + bad >= items)
<1>1. mine \in Nat /\ Cardinality(Recorded) \in Nat
  <2>1. job[w] \in JobType
    BY DEF TypeOK
  <2>2. Cardinality(Recorded) \in Nat
    BY CountOf DEF Recorded
  <2> QED
    BY <2>1, <2>2 DEF JobType
<1>2. items \in Nat /\ mine <= items /\ Cardinality(Recorded) <= items
  <2> HIDE DEF mine
  <2> QED
    BY <1>1, GreatestOf
<1>3. finishFinalization(w) = [fin EXCEPT !.status = st, !.items = items, !.settled = se,
                                          !.owner = "none", !.lease = "none"]
  BY DEF finishFinalization
<1>4. /\ st \in Statuses /\ st # "running"
      /\ st = "complete" => items = 0 \/ done = items
  <2> HIDE DEF items, done, bad
  <2> QED
    BY DEF Statuses
<1>5. se \in BOOLEAN
  OBVIOUS
<1> HIDE DEF items, st, se, mine, done
<1>6. FinTyped(finishFinalization(w))
  <2>1. FinTyped([fin EXCEPT !.status = st, !.items = items, !.settled = se,
                             !.owner = "none", !.lease = "none"])
    BY <1>2, <1>4, <1>5, OutcomeTyped
  <2> QED
    BY <1>3, <2>1
<1>7. /\ finishFinalization(w).status = st /\ finishFinalization(w).items = items
      /\ finishFinalization(w).attempt = fin.attempt
  BY <1>3, <1>5 DEF TypeOK
<1> QED
  BY <1>2, <1>4, <1>6, <1>7 DEF mine, done

(* settleArtifactVerification recounts the finalization: its items only      *)
(* grow and cover the operations, a running one stays as it is otherwise,    *)
(* and one that has ended is complete only if every item is done.            *)
LEMMA RecountOutcome ==
  ASSUME TypeOK, NEW after
  PROVE  LET n    == Cardinality({o \in Outputs : after[o].status # "absent"})
             done == Cardinality({o \in Outputs : after[o].status = "complete"
                                                  /\ after[o].check = "verified"})
             new  == Recounted(after)
         IN  /\ FinTyped(new)
             /\ new.attempt = fin.attempt /\ new.owner = fin.owner /\ new.lease = fin.lease
             /\ fin.items <= new.items /\ n <= new.items
             /\ fin.status = "running" <=> new.status = "running"
             /\ new.status = "complete" => done = new.items
<1> DEFINE n     == Cardinality({o \in Outputs : after[o].status # "absent"})
           done  == Cardinality({o \in Outputs : after[o].status = "complete"
                                                 /\ after[o].check = "verified"})
           bad   == Cardinality({o \in Outputs : after[o].status = "failed"
                                                 \/ after[o].check = "failed"})
           items == Greatest(fin.items, n)
           st    == CASE done = items -> "complete"
                      [] bad = items  -> "failed"
                      [] OTHER        -> "partial"
           se    == (done + bad >= items)
<1>1. n \in Nat /\ fin.items \in Nat
  BY CountOf DEF TypeOK
<1>2. items \in Nat /\ fin.items <= items /\ n <= items
  <2> HIDE DEF n
  <2> QED
    BY <1>1, GreatestOf
<1>3. /\ st \in Statuses /\ st # "running"
      /\ st = "complete" => done = items
  <2> HIDE DEF items, done, bad
  <2> QED
    BY DEF Statuses
<1>4. se \in BOOLEAN
  OBVIOUS
<1>5. Recounted(after) = IF fin.status = "running"
                           THEN [fin EXCEPT !.items = items, !.settled = FALSE]
                           ELSE [fin EXCEPT !.items = items, !.status = st, !.settled = se]
  BY DEF Recounted
<1> HIDE DEF n, done, items, st, se
<1>6. CASE fin.status = "running"
  <2>1. ASSUME NEW b \in BOOLEAN
        PROVE  LET new == [fin EXCEPT !.items = items, !.settled = b]
               IN  /\ FinTyped(new) /\ new.attempt = fin.attempt
                   /\ new.owner = fin.owner /\ new.lease = fin.lease
                   /\ new.items = items /\ new.status = fin.status
    BY <1>2 DEF TypeOK, FinTyped
  <2> DEFINE new == [fin EXCEPT !.items = items, !.settled = FALSE]
  <2>2. /\ FinTyped(new) /\ new.attempt = fin.attempt
        /\ new.owner = fin.owner /\ new.lease = fin.lease
        /\ new.items = items /\ new.status = fin.status
    BY <2>1, Zenon
  <2>3. Recounted(after) = new
    BY <1>5, <1>6
  <2> HIDE DEF new
  <2> QED
    BY <1>2, <1>6, <2>2, <2>3 DEF n, done
<1>7. CASE fin.status # "running"
  <2> DEFINE new == [fin EXCEPT !.items = items, !.status = st, !.settled = se]
  <2>1. /\ FinTyped(new) /\ new.attempt = fin.attempt
        /\ new.owner = fin.owner /\ new.lease = fin.lease
        /\ new.items = items /\ new.status = st
    BY <1>2, <1>3, <1>4, <1>7 DEF TypeOK, FinTyped
  <2>3. Recounted(after) = new
    BY <1>5, <1>7
  <2> HIDE DEF new
  <2> QED
    BY <1>2, <1>3, <1>7, <2>1, <2>3 DEF n, done
<1> QED
  BY <1>6, <1>7

(* A verdict settles at most the operation of its output, and settles only   *)
(* one that exists.                                                          *)
LEMMA SettledTyped ==
  ASSUME TypeOK, NEW o \in Outputs, NEW result \in {"verified", "failed"}
  PROVE  SettledOps(o, result) \in [Outputs -> OpType]
<1> DEFINE st == IF result = "verified" THEN "complete" ELSE "failed"
           op == [ops[o] EXCEPT !.status = st, !.check = result]
<1>1. ops[o] \in OpType /\ st \in {"complete", "failed"}
  BY DEF TypeOK
<1> HIDE DEF st
<1>2. op \in OpType
  BY <1>1 DEF OpType
<1>3. SettledOps(o, result) = IF ops[o].file \/ ops[o].receipt
                                THEN [ops EXCEPT ![o] = op] ELSE ops
  BY DEF SettledOps, st
<1> HIDE DEF op
<1> QED
  BY <1>2, <1>3 DEF TypeOK

(* The end of a job, a timeout, a crash and a verdict keep the types. *)
LEMMA TypeEnd ==
  ASSUME TypeOK, NEW w \in Workers,
         Finish(w) \/ Pause(w) \/ Stop(w) \/ Timeout(w) \/ Crash(w)
  PROVE  TypeOK'
<1>0. job[w] \in JobType
  BY DEF TypeOK
<1>s. ASSUME SuspendFails
      PROVE  /\ sandbox' \in SandboxType
             /\ faults' \in [spent: 0..MaxFaults, kinds: SUBSET Faults, marks: SUBSET Marks]
  <2>1. sandbox' \in SandboxType
    BY <1>s DEF SuspendFails, TypeOK, SandboxType
  <2>2. faults' \in [spent: 0..MaxFaults, kinds: SUBSET Faults, marks: SUBSET Marks]
    BY <1>s, FaultTyped DEF SuspendFails, Faults
  <2> QED
    BY <2>1, <2>2
<1>1. CASE Finish(w)
  <2>1. FinTyped(fin')
    BY <1>1, FinishOutcome DEF Finish, TypeOK, FinTyped
  <2>2. [IdleJob EXCEPT !.pc = "pause", !.of = job[w].of] \in JobType
    BY <1>0 DEF IdleJob, JobType, Verdicts
  <2>3. job' \in [Workers -> JobType]
    BY <1>1, <2>2, IdleTyped DEF Finish, TypeOK
  <2> QED
    BY <1>1, <2>1, <2>3 DEF Finish, TypeOK, FinTyped
<1>2. CASE Pause(w)
  <2>1. ASSUME NEW b \in BOOLEAN
        PROVE  [sandbox EXCEPT !.paused = b, !.recorded = "paused"] \in SandboxType
    BY DEF TypeOK, SandboxType
  <2>2. [sandbox EXCEPT !.paused = TRUE, !.recorded = "paused"] \in SandboxType
    BY <2>1, Zenon
  <2>3. sandbox' \in SandboxType
    BY <1>2, <1>s, <2>2 DEF Pause, TypeOK, SandboxType
  <2>4. job' \in [Workers -> JobType] /\ lock' \in Workers \cup {"free"}
    BY <1>2, EndTyped, GotoTyped DEF Pause, Succeeds, Throws, TypeOK
  <2>5. queue' \subseteq Delivery
    BY <1>2, RequeuedTyped DEF Pause, Succeeds, Throws, TypeOK
  <2>6. faults' \in [spent: 0..MaxFaults, kinds: SUBSET Faults, marks: SUBSET Marks]
    BY <1>2, <1>s, FaultTyped DEF Pause, Faults, TypeOK
  <2> QED
    BY <1>2, <2>3, <2>4, <2>5, <2>6 DEF Pause, TypeOK, SandboxType
<1>3. CASE Stop(w)
  <2>3. sandbox' \in SandboxType
    BY <1>3, <1>s DEF Stop, TypeOK, SandboxType
  <2>4. job' \in [Workers -> JobType] /\ lock' \in Workers \cup {"free"}
    BY <1>3, EndTyped DEF Stop, Throws
  <2>5. queue' \subseteq Delivery
    BY <1>3, RequeuedTyped DEF Stop, Throws
  <2>6. faults' \in [spent: 0..MaxFaults, kinds: SUBSET Faults, marks: SUBSET Marks]
    BY <1>3, <1>s DEF Stop, TypeOK
  <2> QED
    BY <1>3, <2>3, <2>4, <2>5, <2>6 DEF Stop, TypeOK, SandboxType
<1>4. CASE Timeout(w)
  <2>1. PICK g \in Workers \ {w} :
          job' = [job EXCEPT ![g] = job[w],
                             ![w] = [IdleJob EXCEPT !.pc = "stop", !.of = job[w].of]]
    BY <1>4 DEF Timeout
  <2>2. [IdleJob EXCEPT !.pc = "stop", !.of = job[w].of] \in JobType
    BY <1>0 DEF IdleJob, JobType, Verdicts
  <2>3. job' \in [Workers -> JobType]
    BY <1>0, <2>1, <2>2 DEF TypeOK
  <2>6. faults' \in [spent: 0..MaxFaults, kinds: SUBSET Faults, marks: SUBSET Marks]
    BY <1>4, FaultTyped DEF Timeout, Faults
  <2> QED
    BY <1>4, <2>3, <2>6 DEF Timeout, TypeOK
<1>5. CASE Crash(w)
  <2>4. job' \in [Workers -> JobType] /\ lock' \in Workers \cup {"free"}
    BY <1>5, EndTyped DEF Crash, TypeOK
  <2>5. queue' \subseteq Delivery
    BY <1>5, RequeuedTyped DEF Crash, TypeOK
  <2>6. faults' \in [spent: 0..MaxFaults, kinds: SUBSET Faults, marks: SUBSET Marks]
    BY <1>5, FaultTyped DEF Crash, Faults
  <2> QED
    BY <1>5, <2>4, <2>5, <2>6 DEF Crash, TypeOK
<1> QED
  BY <1>1, <1>2, <1>3, <1>4, <1>5

(* A verdict keeps the types. *)
LEMMA TypeVerify ==
  ASSUME TypeOK, NEW o \in Outputs, NEW result \in {"verified", "failed"},
         settleArtifactVerification(o, result)
  PROVE  TypeOK'
<1>1. FinTyped(fin')
  BY RecountOutcome DEF settleArtifactVerification, TypeOK, FinTyped
<1>2. ops' \in [Outputs -> OpType]
  BY SettledTyped DEF settleArtifactVerification
<1>3. blob' \in [Outputs -> Verdicts]
  BY DEF settleArtifactVerification, TypeOK, Verdicts
<1>4. faults' \in [spent: 0..MaxFaults, kinds: SUBSET Faults, marks: SUBSET Marks]
  BY FaultTyped DEF settleArtifactVerification, Faults, TypeOK
<1> QED
  BY <1>1, <1>2, <1>3, <1>4 DEF settleArtifactVerification, TypeOK, FinTyped

-----------------------------------------------------------------------------
(* The lifecycle lock. *)

(* A step of one job execution that keeps the lock, gives it up or takes it  *)
(* when no newer run is there.                                               *)
LEMMA LockFrame ==
  ASSUME TypeOK, LockGuards, NEW w \in Workers, NEW j,
         job' = [job EXCEPT ![w] = j], sandbox'.newer = sandbox.newer,
         \/ /\ lock' = lock
            /\ j.pc \in {"begin", "pause", "stop"} => lock = w
            /\ lock = w => j.pc \notin {"idle", "queued"}
         \/ /\ lock \in {"free", w} /\ lock' = "free"
            /\ j.pc \notin {"begin", "pause", "stop"}
         \/ lock = "free" /\ lock' = w /\ ~sandbox.newer /\ j.pc = "begin"
  PROVE  LockGuards'
<1>1. job'[w] = j /\ \A x \in Workers \ {w} : job'[x] = job[x]
  BY DEF TypeOK
<1>2. "free" \notin Workers
  BY FinalizationAssumption
<1> QED
  BY <1>1, <1>2 DEF LockGuards

(* Before the publication the sandbox is left alone, and the lock is taken   *)
(* only when no newer run is there.                                          *)
LEMMA LockBegin ==
  ASSUME TypeOK, LockGuards, NEW w \in Workers,
         Take(w) \/ TakeLock(w) \/ beginFinalization(w)
  PROVE  LockGuards' /\ UNCHANGED sandbox
<1>0. "free" \notin Workers
  BY FinalizationAssumption
<1>1. CASE Take(w)
  <2>1. PICK d \in queue :
          job' = [job EXCEPT ![w] = [IdleJob EXCEPT !.pc = "queued", !.of = d]]
    BY <1>1 DEF Take
  <2>2. [IdleJob EXCEPT !.pc = "queued", !.of = d].pc = "queued"
    BY DEF IdleJob
  <2>3. lock' = lock /\ lock # w /\ UNCHANGED sandbox
    BY <1>1 DEF Take, LockGuards
  <2> QED
    BY <2>1, <2>2, <2>3, LockFrame
<1>2. CASE TakeLock(w) /\ MustSkip
  <2>1. IdleJob.pc = "idle"
    BY DEF IdleJob
  <2> QED
    BY <1>2, <2>1, LockFrame DEF TakeLock, Succeeds
<1>3. CASE TakeLock(w) /\ ~MustSkip
  <2>1. job' = [job EXCEPT ![w] = [job[w] EXCEPT !.pc = "begin"]]
    BY <1>3 DEF TakeLock, Goto
  <2>2. [job[w] EXCEPT !.pc = "begin"].pc = "begin"
    BY DEF TypeOK, JobType
  <2> QED
    BY <1>3, <2>1, <2>2, LockFrame DEF TakeLock, MustSkip
<1>4. CASE beginFinalization(w)
  <2>1. PICK p \in {"list", "pause"} : Goto(w, p)
    BY <1>4 DEF beginFinalization
  <2>2. job' = [job EXCEPT ![w] = [job[w] EXCEPT !.pc = p]]
    BY <2>1 DEF Goto
  <2>3. [job[w] EXCEPT !.pc = p].pc = p
    BY DEF TypeOK, JobType
  <2>4. lock = w /\ UNCHANGED <<lock, sandbox>>
    BY <1>4 DEF beginFinalization, LockGuards
  <2> QED
    BY <2>2, <2>3, <2>4, LockFrame
<1> QED
  BY <1>1, <1>2, <1>3, <1>4

(* What a publication does to its job execution. *)
Publishes(w) ==
  \/ List(w)
  \/ \E o \in Outputs : Read(w, o) \/ ReadFails(w, o)
  \/ recordArtifactOperationStart(w) \/ recordArtifactOperationStorage(w)
  \/ persistOutput(w) \/ failArtifactOperation(w)
  \/ completeArtifactOperation(w) \/ CompleteWaits(w) \/ CompleteResumes(w)

(* A publication in progress goes on: neither the lock nor the sandbox       *)
(* changes, nor the finalization, nor any other job execution.               *)
LEMMA PublishesFrame ==
  ASSUME TypeOK, NEW w \in Workers, Publishes(w)
  PROVE  /\ UNCHANGED <<fin, sandbox, row, queue, lock>>
         /\ Publishing(w)
         /\ \E j : /\ job' = [job EXCEPT ![w] = j]
                   /\ j.pc \in Handling \cup {"read"}
<1>0. job[w] \in JobType
  BY DEF TypeOK
<1>1. UNCHANGED <<fin, sandbox, row, queue, lock>> /\ Publishing(w)
  BY DEF Publishes, Publishing, List, Read, ReadFails, recordArtifactOperationStart,
    recordArtifactOperationStorage, persistOutput, failArtifactOperation,
    completeArtifactOperation, CompleteWaits, CompleteResumes, Completed
<1>2. CASE List(w)
  <2> DEFINE P == {o \in Outputs : blob[o] = "verified"}
             j == [job[w] EXCEPT !.pc = "read", !.todo = Outputs, !.prior = P]
  <2>1. job' = [job EXCEPT ![w] = j]
    BY <1>2 DEF List
  <2> HIDE DEF P
  <2>2. j.pc = "read"
    BY <1>0 DEF JobType
  <2> HIDE DEF j
  <2> QED
    BY <1>1, <2>1, <2>2
<1>3. ASSUME NEW o \in Outputs, Read(w, o)
      PROVE  \E j : job' = [job EXCEPT ![w] = j] /\ j.pc \in Handling \cup {"read"}
  <2> DEFINE j == IF o \in job[w].prior
                    THEN [job[w] EXCEPT !.todo = job[w].todo \ {o}]
                    ELSE [job[w] EXCEPT !.todo = job[w].todo \ {o}, !.cur = o, !.pc = "start"]
  <2>1. job' = [job EXCEPT ![w] = j] /\ job[w].pc = "read"
    BY <1>3 DEF Read
  <2>2. j.pc \in {"read", "start"}
    BY <1>0, <2>1 DEF JobType
  <2> HIDE DEF j
  <2> QED
    BY <2>1, <2>2 DEF Handling
<1>4. ASSUME NEW o \in Outputs, ReadFails(w, o)
      PROVE  \E j : job' = [job EXCEPT ![w] = j] /\ j.pc \in Handling \cup {"read"}
  <2> DEFINE j == [job[w] EXCEPT !.todo = job[w].todo \ {o},
                                 !.failures = job[w].failures + 1]
  <2>1. job' = [job EXCEPT ![w] = j] /\ job[w].pc = "read"
    BY <1>4 DEF ReadFails
  <2>2. j.pc = "read"
    BY <1>0, <2>1 DEF JobType
  <2> HIDE DEF j
  <2> QED
    BY <2>1, <2>2
<1>5. ASSUME NEW p \in Handling, Goto(w, p)
      PROVE  \E j : job' = [job EXCEPT ![w] = j] /\ j.pc \in Handling \cup {"read"}
  <2> DEFINE j == [job[w] EXCEPT !.pc = p]
  <2>1. job' = [job EXCEPT ![w] = j]
    BY <1>5 DEF Goto
  <2>2. j.pc = p
    BY <1>0 DEF JobType
  <2> HIDE DEF j
  <2> QED
    BY <2>1, <2>2
<1>6. CASE failArtifactOperation(w)
  <2> DEFINE j == [job[w] EXCEPT !.pc = "read", !.cur = 0, !.failures = job[w].failures + 1]
  <2>1. job' = [job EXCEPT ![w] = j]
    BY <1>6 DEF failArtifactOperation
  <2>2. j.pc = "read"
    BY <1>0 DEF JobType
  <2> HIDE DEF j
  <2> QED
    BY <1>1, <2>1, <2>2
<1>7. ASSUME NEW v, Completed(w, v)
      PROVE  \E j : job' = [job EXCEPT ![w] = j] /\ j.pc \in Handling \cup {"read"}
  <2> DEFINE j == [job[w] EXCEPT !.pc = "read", !.cur = 0, !.saw = "none",
                                 !.results = job[w].results + 1]
  <2>1. job' = [job EXCEPT ![w] = j]
    BY <1>7 DEF Completed
  <2>2. j.pc = "read"
    BY <1>0 DEF JobType
  <2> HIDE DEF j
  <2> QED
    BY <2>1, <2>2
<1>8. CASE CompleteWaits(w)
  <2> DEFINE j == [job[w] EXCEPT !.pc = "waits", !.saw = blob[job[w].cur]]
  <2>1. job' = [job EXCEPT ![w] = j]
    BY <1>8 DEF CompleteWaits
  <2>2. j.pc = "waits"
    BY <1>0 DEF JobType
  <2> HIDE DEF j
  <2> QED
    BY <1>1, <2>1, <2>2 DEF Handling
<1>9. CASE \/ recordArtifactOperationStart(w) \/ recordArtifactOperationStorage(w)
           \/ persistOutput(w)
  BY <1>1, <1>5, <1>9 DEF recordArtifactOperationStart, recordArtifactOperationStorage,
    persistOutput, Handling
<1>10. CASE completeArtifactOperation(w) \/ CompleteResumes(w)
  BY <1>1, <1>7, <1>10 DEF completeArtifactOperation, CompleteResumes
<1> QED
  BY <1>1, <1>2, <1>3, <1>4, <1>6, <1>8, <1>9, <1>10 DEF Publishes

(* The end of a job and its failures give the lock up or keep it. *)
LEMMA LockEnd ==
  ASSUME TypeOK, LockGuards, NEW w \in Workers,
         ListFails(w) \/ Finish(w) \/ Pause(w) \/ Stop(w) \/ Timeout(w) \/ Crash(w)
  PROVE  LockGuards'
<1>0. "free" \notin Workers
  BY FinalizationAssumption
<1>a. IdleJob.pc = "idle" /\ job[w] \in JobType
  BY DEF IdleJob, TypeOK
<1>b. sandbox \in SandboxType
  BY DEF TypeOK, SandboxType
<1>g. ASSUME lock = w, Goto(w, "stop"), UNCHANGED lock, sandbox'.newer = sandbox.newer
      PROVE  LockGuards'
  <2>1. job' = [job EXCEPT ![w] = [job[w] EXCEPT !.pc = "stop"]]
    BY <1>g DEF Goto
  <2>2. [job[w] EXCEPT !.pc = "stop"].pc = "stop"
    BY <1>a DEF JobType
  <2> QED
    BY <1>g, <2>1, <2>2, LockFrame
<1>1. CASE ListFails(w)
  <2>1. sandbox'.newer = sandbox.newer
    BY <1>1, <1>b DEF ListFails, SandboxType
  <2>2. CASE lock = w /\ Goto(w, "stop") /\ UNCHANGED lock
    BY <1>g, <2>1, <2>2
  <2>3. CASE lock = w /\ Succeeds(w)
    BY <1>a, <2>1, <2>3, LockFrame DEF Succeeds
  <2>4. CASE lock # w /\ UNCHANGED lock /\ job' = [job EXCEPT ![w] = IdleJob]
    BY <1>a, <2>1, <2>4, LockFrame
  <2> QED
    BY <1>1, <2>2, <2>3, <2>4 DEF ListFails, Ghost
<1>2. CASE Finish(w)
  <2> DEFINE j == IF Ghost(w) THEN IdleJob
                    ELSE [IdleJob EXCEPT !.pc = "pause", !.of = job[w].of]
  <2>1. job' = [job EXCEPT ![w] = j] /\ UNCHANGED <<lock, sandbox>>
    BY <1>2 DEF Finish
  <2>2. IF lock = w THEN j.pc = "pause" ELSE j.pc = "idle"
    BY DEF Ghost, IdleJob
  <2> HIDE DEF j
  <2> QED
    BY <2>1, <2>2, LockFrame
<1>3. CASE Pause(w) \/ Stop(w)
  <2>1. lock = w
    BY <1>3 DEF Pause, Stop, LockGuards
  <2>2. sandbox'.newer = sandbox.newer
    BY <1>3, <1>b DEF Pause, Stop, SuspendFails, SandboxType
  <2>3. CASE lock' = "free" /\ job' = [job EXCEPT ![w] = IdleJob]
    BY <1>a, <2>1, <2>2, <2>3, LockFrame
  <2>4. CASE Goto(w, "stop") /\ UNCHANGED lock
    BY <1>g, <2>1, <2>2, <2>4
  <2> QED
    BY <1>3, <2>3, <2>4 DEF Pause, Stop, Succeeds, Throws
<1>5. CASE Timeout(w)
  <2>1. PICK g \in Workers \ {w} :
          job' = [job EXCEPT ![g] = job[w],
                             ![w] = [IdleJob EXCEPT !.pc = "stop", !.of = job[w].of]]
    BY <1>5 DEF Timeout
  <2>2. lock = w /\ Publishing(w) /\ UNCHANGED <<lock, sandbox>>
    BY <1>5 DEF Timeout
  <2>3. [IdleJob EXCEPT !.pc = "stop", !.of = job[w].of].pc = "stop"
    BY DEF IdleJob
  <2>4. /\ job'[w].pc = "stop" /\ job'[g] = job[w]
        /\ \A x \in Workers \ {w, g} : job'[x] = job[x]
    BY <2>1, <2>3 DEF TypeOK
  <2> QED
    BY <1>0, <2>2, <2>4 DEF LockGuards, Publishing
<1>6. CASE Crash(w)
  <2>1. /\ job' = [job EXCEPT ![w] = IdleJob] /\ UNCHANGED sandbox
        /\ lock' = IF lock = w THEN "free" ELSE lock
    BY <1>6 DEF Crash
  <2> QED
    BY <1>a, <2>1, LockFrame
<1> QED
  BY <1>1, <1>2, <1>3, <1>5, <1>6

(* No newer run takes a sandbox whose lock is held. *)
LEMMA LockStep ==
  ASSUME TypeOK, LockGuards, Next
  PROVE  LockGuards'
<1>0. sandbox \in SandboxType
  BY DEF TypeOK, SandboxType
<1>1. CASE \/ Dispatch \/ LoseJob \/ deadLetterExhaustedReceipts \/ LeaseExpires
           \/ enqueuePendingFinalizations \/ Verify \/ SuspendLands
  <2>1. UNCHANGED <<job, lock>>
    BY <1>1 DEF Dispatch, LoseJob, deadLetterExhaustedReceipts, LeaseExpires,
      enqueuePendingFinalizations, Verify, Verdict, settleArtifactVerification, SuspendLands
  <2>2. sandbox'.newer = sandbox.newer
    BY <1>0, <1>1 DEF Dispatch, LoseJob, deadLetterExhaustedReceipts, LeaseExpires,
      enqueuePendingFinalizations, Verify, Verdict, settleArtifactVerification,
      SuspendLands, SandboxType
  <2> QED
    BY <2>1, <2>2 DEF LockGuards
<1>2. CASE NewerRunClaims
  BY <1>2 DEF NewerRunClaims, LockGuards
<1>3. ASSUME NEW w \in Workers, Take(w) \/ TakeLock(w) \/ beginFinalization(w)
      PROVE  LockGuards'
  BY <1>3, LockBegin
<1>4. ASSUME NEW w \in Workers, Publishes(w)
      PROVE  LockGuards'
  <2>1. PICK j : /\ job' = [job EXCEPT ![w] = j]
                 /\ j.pc \in Handling \cup {"read"}
    BY <1>4, PublishesFrame
  <2>2. UNCHANGED <<sandbox, lock>>
    BY <1>4, PublishesFrame
  <2> QED
    BY <2>1, <2>2, LockFrame DEF Handling
<1>5. ASSUME NEW w \in Workers,
             ListFails(w) \/ Finish(w) \/ Pause(w) \/ Stop(w) \/ Timeout(w) \/ Crash(w)
      PROVE  LockGuards'
  BY <1>5, LockEnd
<1> QED
  BY <1>1, <1>2, <1>3, <1>4, <1>5 DEF Next, JobStep, Publishes

-----------------------------------------------------------------------------
(* What only grows: verdicts, recorded operations, attempts and faults. *)

(* A verified output stays verified. *)
BlobsStay == \A o \in Outputs : blob[o] = "verified" => blob'[o] = "verified"

(* A fault is remembered. *)
LEMMA FaultStays ==
  ASSUME TypeOK, NEW f, Fault(f)
  PROVE  /\ faults'.kinds = faults.kinds \cup {f}
         /\ faults'.marks = faults.marks
<1>1. faults \in [spent: 0..MaxFaults, kinds: SUBSET Faults, marks: SUBSET Marks]
  BY DEF TypeOK
<1> HIDE DEF Faults, Marks
<1> QED
  BY <1>1 DEF Fault

(* A mark is remembered. *)
LEMMA MarkStays ==
  ASSUME TypeOK, NEW m, NEW holds \in BOOLEAN
  PROVE  /\ Marked(m, holds).kinds = faults.kinds
         /\ Marked(m, holds).spent = faults.spent
         /\ Marked(m, holds).marks = IF holds THEN faults.marks \cup {m} ELSE faults.marks
         /\ Marked(m, holds) = [faults EXCEPT !.marks =
              IF holds THEN faults.marks \cup {m} ELSE faults.marks]
<1>1. faults \in [spent: 0..MaxFaults, kinds: SUBSET Faults, marks: SUBSET Marks]
  BY DEF TypeOK
<1> HIDE DEF Faults, Marks
<1> QED
  BY <1>1 DEF Marked

(* A failed read is remembered, and marked where it goes uncounted. *)
LEMMA ReadFailsFaults ==
  ASSUME TypeOK, NEW w \in Workers, NEW o \in Outputs, ReadFails(w, o)
  PROVE  /\ faults.kinds \subseteq faults'.kinds
         /\ faults.marks \subseteq faults'.marks
         /\ Uncounted(w, o) => "uncounted" \in faults'.marks
<1> DEFINE u == Uncounted(w, o)
           m == Marked("uncounted", u)
<1>1. u \in BOOLEAN
  BY DEF Uncounted
<1> HIDE DEF u
<1>2. /\ m.kinds = faults.kinds
      /\ m.marks = IF u THEN faults.marks \cup {"uncounted"} ELSE faults.marks
      /\ m \in [spent: 0..MaxFaults, kinds: SUBSET Faults, marks: SUBSET Marks]
  BY <1>1, MarkStays, MarkTyped DEF Marks
<1>3. \/ faults' = m
      \/ faults' = [m EXCEPT !.spent = faults.spent + 1, !.kinds = faults.kinds \cup {"read"}]
  BY DEF ReadFails, u
<1> HIDE DEF m, Faults, Marks
<1>4. faults'.marks = m.marks /\ m.kinds \subseteq faults'.kinds
  BY <1>2, <1>3
<1> QED
  BY <1>2, <1>4 DEF u

(* What a step leaves of the faults. *)
LEMMA FaultsStay ==
  ASSUME TypeOK, Next
  PROVE  faults.kinds \subseteq faults'.kinds /\ faults.marks \subseteq faults'.marks
<1>1. CASE UNCHANGED faults
  BY <1>1
<1>2. ASSUME NEW f, Fault(f)
      PROVE  faults.kinds \subseteq faults'.kinds /\ faults.marks \subseteq faults'.marks
  BY <1>2, FaultStays
<1>3. ASSUME NEW m, NEW holds \in BOOLEAN, faults' = Marked(m, holds)
      PROVE  faults.kinds \subseteq faults'.kinds /\ faults.marks \subseteq faults'.marks
  BY <1>3, MarkStays
<1>4. CASE \/ Dispatch \/ LoseJob \/ deadLetterExhaustedReceipts
           \/ enqueuePendingFinalizations \/ Verify \/ NewerRunClaims \/ SuspendLands
  BY <1>1, <1>2, <1>4 DEF Dispatch, LoseJob, deadLetterExhaustedReceipts, ReceiptOverdue,
    enqueuePendingFinalizations, Verify, Verdict, settleArtifactVerification,
    NewerRunClaims, SuspendLands
<1>5. CASE LeaseExpires
  BY <1>3, <1>5 DEF LeaseExpires
<1>6. ASSUME NEW w \in Workers, Take(w) \/ beginFinalization(w) \/ TakeLock(w)
      PROVE  faults.kinds \subseteq faults'.kinds /\ faults.marks \subseteq faults'.marks
  <2>1. Overwrites \in BOOLEAN
    BY DEF Overwrites
  <2> QED
    BY <1>1, <1>3, <1>6, <2>1 DEF Take, beginFinalization, TakeLock
<1>7. ASSUME NEW w \in Workers, NEW o \in Outputs, ReadFails(w, o)
      PROVE  faults.kinds \subseteq faults'.kinds /\ faults.marks \subseteq faults'.marks
  BY <1>7, ReadFailsFaults
<1>8. ASSUME NEW w \in Workers,
             \/ List(w) \/ ListFails(w) \/ (\E o \in Outputs : Read(w, o))
             \/ recordArtifactOperationStart(w) \/ recordArtifactOperationStorage(w)
             \/ persistOutput(w) \/ failArtifactOperation(w)
             \/ completeArtifactOperation(w) \/ CompleteWaits(w) \/ CompleteResumes(w)
             \/ Finish(w) \/ Pause(w) \/ Stop(w) \/ Timeout(w) \/ Crash(w)
      PROVE  faults.kinds \subseteq faults'.kinds /\ faults.marks \subseteq faults'.marks
  BY <1>1, <1>2, <1>8 DEF List, ListFails, Read, recordArtifactOperationStart,
    recordArtifactOperationStorage, persistOutput, failArtifactOperation,
    completeArtifactOperation, CompleteWaits, CompleteResumes, Finish, Pause, Stop,
    SuspendFails, Timeout, Crash
<1> QED
  BY <1>4, <1>5, <1>6, <1>7, <1>8 DEF Next, JobStep

(* A newer run's sandbox is paused by no step but the landing of a suspend   *)
(* that was given up.                                                        *)
LEMMA SandboxStep ==
  ASSUME TypeOK, LockGuards, SuspendsExplained, NewerRunKeepsSandbox, Next
  PROVE  SuspendsExplained' /\ NewerRunKeepsSandbox'
<1>0. sandbox \in SandboxType /\ faults.kinds \subseteq faults'.kinds
  BY FaultsStay DEF TypeOK, SandboxType
<1>a. ASSUME sandbox'.inflight => sandbox.inflight,
             sandbox'.newer /\ sandbox'.paused => sandbox.newer /\ sandbox.paused
      PROVE  SuspendsExplained' /\ NewerRunKeepsSandbox'
  BY <1>0, <1>a DEF SuspendsExplained, NewerRunKeepsSandbox
<1>1. CASE \/ Dispatch \/ LoseJob \/ deadLetterExhaustedReceipts \/ LeaseExpires
           \/ enqueuePendingFinalizations \/ Verify
  <2>1. /\ sandbox'.newer = sandbox.newer /\ sandbox'.paused = sandbox.paused
        /\ sandbox'.inflight = sandbox.inflight
    BY <1>0, <1>1 DEF Dispatch, LoseJob, deadLetterExhaustedReceipts, LeaseExpires,
      enqueuePendingFinalizations, Verify, Verdict, settleArtifactVerification, SandboxType
  <2> QED
    BY <1>a, <2>1
<1>2. CASE NewerRunClaims
  <2>1. ~sandbox'.paused /\ sandbox'.inflight = sandbox.inflight
    BY <1>0, <1>2 DEF NewerRunClaims, SandboxType
  <2> QED
    BY <1>a, <2>1
<1>3. CASE SuspendLands
  <2>1. "abandoned" \in faults'.kinds
    BY <1>0, <1>3 DEF SuspendLands, SuspendsExplained
  <2> QED
    BY <2>1 DEF SuspendsExplained, NewerRunKeepsSandbox
<1>4. CASE UNCHANGED sandbox
  BY <1>a, <1>4
<1>5. ASSUME NEW w \in Workers, ListFails(w)
      PROVE  SuspendsExplained' /\ NewerRunKeepsSandbox'
  <2>1. /\ sandbox'.newer = sandbox.newer /\ sandbox'.paused = sandbox.paused
        /\ sandbox'.inflight = sandbox.inflight
    BY <1>0, <1>5 DEF ListFails, SandboxType
  <2> QED
    BY <1>a, <2>1
<1>6. ASSUME NEW w \in Workers, Pause(w) \/ Stop(w)
      PROVE  SuspendsExplained' /\ NewerRunKeepsSandbox'
  <2>1. lock = w /\ "free" \notin Workers
    BY <1>6, FinalizationAssumption DEF Pause, Stop, LockGuards
  <2>2. ~sandbox.newer
    BY <2>1 DEF LockGuards
  <2>3. sandbox'.newer = sandbox.newer
    BY <1>0, <1>6 DEF Pause, Stop, SuspendFails, SandboxType
  <2>4. CASE sandbox'.inflight = sandbox.inflight
    BY <1>a, <2>2, <2>3, <2>4
  <2>5. CASE Fault("abandoned")
    <3>1. "abandoned" \in faults'.kinds
      BY <2>5, FaultStays
    <3> QED
      BY <3>1 DEF SuspendsExplained, NewerRunKeepsSandbox
  <2> QED
    BY <1>0, <1>6, <2>4, <2>5 DEF Pause, Stop, SuspendFails, SandboxType
<1>7. ASSUME NEW w \in Workers,
             \/ Take(w) \/ TakeLock(w) \/ beginFinalization(w) \/ Publishes(w)
             \/ Finish(w) \/ Timeout(w) \/ Crash(w)
      PROVE  UNCHANGED sandbox
  BY <1>7, PublishesFrame DEF Take, TakeLock, beginFinalization, Finish, Timeout, Crash
<1> QED
  BY <1>1, <1>2, <1>3, <1>4, <1>5, <1>6, <1>7 DEF Next, JobStep, Publishes

(* A clean history has a clean past. *)
LEMMA CleanWas ==
  ASSUME TypeOK, Next, Clean'
  PROVE  Clean
  BY FaultsStay DEF Clean

(* An operation that is written is recorded. *)
LEMMA OpsRecorded ==
  ASSUME TypeOK, NEW o \in Outputs, NEW op, op.status # "absent",
         ops' = [ops EXCEPT ![o] = op]
  PROVE  Recorded' = Recorded \cup {o}
  BY DEF TypeOK, Recorded

(* A publication writes at most the operation of the output in its hands,    *)
(* and writes it complete only if the blob is verified.                      *)
LEMMA PublishOps ==
  ASSUME TypeOK, NEW w \in Workers, JobMatchesRows(w), Publishes(w)
  PROVE  \/ UNCHANGED ops
         \/ /\ job[w].pc \in Handling
            /\ \E op : /\ ops' = [ops EXCEPT ![job[w].cur] = op]
                       /\ op.status # "absent"
                       /\ op.status = "complete" /\ op.check = "verified"
                            => blob[job[w].cur] = "verified"
<1> DEFINE c == job[w].cur
<1>1. CASE recordArtifactOperationStart(w)
  <2> DEFINE op == [status |-> "pending", check |-> "pending", file |-> FALSE, receipt |-> FALSE]
  <2>1. ops' = [ops EXCEPT ![c] = op] /\ op.status = "pending"
    BY <1>1 DEF recordArtifactOperationStart
  <2> HIDE DEF op
  <2> QED
    BY <1>1, <2>1 DEF recordArtifactOperationStart, Handling
<1>a. job[w].pc \in Handling => ops[c] \in OpType
  BY InHand DEF TypeOK
<1>2. CASE recordArtifactOperationStorage(w)
  <2> DEFINE op == [ops[c] EXCEPT !.status = "staged", !.check = "pending", !.receipt = TRUE]
  <2>0. job[w].pc \in Handling
    BY <1>2 DEF recordArtifactOperationStorage, Handling
  <2>1. ops' = [ops EXCEPT ![c] = op]
    BY <1>2 DEF recordArtifactOperationStorage
  <2>2. op.status = "staged"
    BY <1>a, <2>0 DEF OpType
  <2> HIDE DEF op
  <2> QED
    BY <2>0, <2>1, <2>2
<1>3. CASE failArtifactOperation(w)
  <2> DEFINE op == [ops[c] EXCEPT !.status = "failed", !.check = "failed"]
  <2>0. job[w].pc \in Handling
    BY <1>3 DEF failArtifactOperation, Handling
  <2>1. ops' = [ops EXCEPT ![c] = op]
    BY <1>3 DEF failArtifactOperation
  <2>2. op.status = "failed"
    BY <1>a, <2>0 DEF OpType
  <2> HIDE DEF op
  <2> QED
    BY <2>0, <2>1, <2>2
<1>4. ASSUME NEW v, Completed(w, v), job[w].pc \in Handling,
             v = "verified" => blob[c] = "verified"
      PROVE  \E op : /\ ops' = [ops EXCEPT ![c] = op] /\ op.status # "absent"
                     /\ op.status = "complete" /\ op.check = "verified"
                          => blob[c] = "verified"
  <2> DEFINE op == WithStatus(ops[c], v)
  <2>1. ops' = [ops EXCEPT ![c] = op]
    BY <1>4 DEF Completed
  <2>2. op.status = IF v = "verified" THEN "complete"
                    ELSE IF v = "failed" THEN "failed" ELSE "staged"
    BY <1>a, <1>4 DEF WithStatus, OpType
  <2> HIDE DEF op
  <2> QED
    BY <1>4, <2>1, <2>2
<1>5. CASE completeArtifactOperation(w)
  BY <1>4, <1>5 DEF completeArtifactOperation, Handling
<1>6. CASE CompleteResumes(w)
  BY <1>4, <1>6 DEF CompleteResumes, Handling, JobMatchesRows
<1>7. CASE List(w) \/ (\E o \in Outputs : Read(w, o) \/ ReadFails(w, o))
           \/ persistOutput(w) \/ CompleteWaits(w)
  BY <1>7 DEF List, Read, ReadFails, persistOutput, CompleteWaits
<1> QED
  BY <1>1, <1>2, <1>3, <1>5, <1>6, <1>7 DEF Publishes

(* A publication takes no verdict back. *)
LEMMA PublishBlobs ==
  ASSUME TypeOK, NEW w \in Workers, Publishes(w)
  PROVE  BlobsStay
<1>1. CASE persistOutput(w)
  BY <1>1 DEF persistOutput, BlobsStay, TypeOK
<1>2. CASE UNCHANGED blob
  BY <1>2 DEF BlobsStay
<1> QED
  BY <1>1, <1>2 DEF Publishes, List, Read, ReadFails, recordArtifactOperationStart,
    recordArtifactOperationStorage, failArtifactOperation, completeArtifactOperation,
    CompleteWaits, CompleteResumes, Completed

(* A verdict on an output with a file or a stored object settles its         *)
(* operation the same way.                                                   *)
LEMMA VerifyOps ==
  ASSUME TypeOK, NEW o \in Outputs, NEW result \in {"verified", "failed"},
         settleArtifactVerification(o, result)
  PROVE  /\ BlobsStay /\ (result = "verified" => blob'[o] = "verified")
         /\ \/ UNCHANGED <<ops, fin>>
            \/ /\ ops[o].file \/ ops[o].receipt
               /\ ops' = SettledOps(o, result) /\ fin' = Recounted(SettledOps(o, result))
               /\ \E op : /\ ops' = [ops EXCEPT ![o] = op]
                          /\ op.status # "absent"
                          /\ op.status = "complete" => result = "verified"
<1>1. BlobsStay /\ (result = "verified" => blob'[o] = "verified")
  BY DEF settleArtifactVerification, BlobsStay, TypeOK
<1>2. CASE ops[o].file \/ ops[o].receipt
  <2> DEFINE st == IF result = "verified" THEN "complete" ELSE "failed"
             op == [ops[o] EXCEPT !.status = st, !.check = result]
  <2>0. ops[o] \in OpType
    BY DEF TypeOK
  <2>1. ops' = [ops EXCEPT ![o] = op]
    BY <1>2 DEF settleArtifactVerification, SettledOps
  <2>a. ops' = SettledOps(o, result) /\ fin' = Recounted(SettledOps(o, result))
    BY <1>2 DEF settleArtifactVerification
  <2>2. st # "absent" /\ (st = "complete" => result = "verified")
    OBVIOUS
  <2> HIDE DEF st
  <2>3. op.status = st
    BY <2>0 DEF OpType
  <2> HIDE DEF op
  <2>4. \E x : ops' = [ops EXCEPT ![o] = x] /\ x.status # "absent"
               /\ (x.status = "complete" => result = "verified")
    BY <2>1, <2>2, <2>3
  <2>5. BlobsStay
    BY <1>1
  <2>6. result = "verified" => blob'[o] = "verified"
    BY <1>1
  <2>7. \/ UNCHANGED <<ops, fin>>
        \/ /\ ops[o].file \/ ops[o].receipt
           /\ ops' = SettledOps(o, result) /\ fin' = Recounted(SettledOps(o, result))
           /\ \E x : /\ ops' = [ops EXCEPT ![o] = x]
                     /\ x.status # "absent"
                     /\ x.status = "complete" => result = "verified"
    BY <1>2, <2>a, <2>4
  <2> QED
    BY <2>5, <2>6, <2>7
<1>3. CASE ~(ops[o].file \/ ops[o].receipt)
  BY <1>1, <1>3 DEF settleArtifactVerification, SettledOps
<1> QED
  BY <1>2, <1>3

(* The steps other than those of a publication and the verdicts write        *)
(* neither operations nor outputs.                                           *)
LEMMA QuietSteps ==
  ASSUME Next, ~Verify, \A w \in Workers : ~Publishes(w)
  PROVE  UNCHANGED <<ops, blob>>
<1>1. CASE \/ Dispatch \/ LoseJob \/ deadLetterExhaustedReceipts \/ LeaseExpires
           \/ enqueuePendingFinalizations \/ NewerRunClaims \/ SuspendLands
  BY <1>1 DEF Dispatch, LoseJob, deadLetterExhaustedReceipts, LeaseExpires,
    enqueuePendingFinalizations, NewerRunClaims, SuspendLands
<1>2. ASSUME NEW w \in Workers,
             \/ Take(w) \/ TakeLock(w) \/ beginFinalization(w) \/ ListFails(w) \/ Finish(w)
             \/ Pause(w) \/ Stop(w) \/ Timeout(w) \/ Crash(w)
      PROVE  UNCHANGED <<ops, blob>>
  BY <1>2 DEF Take, TakeLock, beginFinalization, ListFails, Finish, Pause, Stop, Timeout,
    Crash
<1> QED
  BY <1>1, <1>2 DEF Next, JobStep, Publishes

(* No step takes an attempt back. *)
LEMMA AttemptsGrow ==
  ASSUME TypeOK, Next
  PROVE  fin.attempt <= fin'.attempt
<1>0. fin.attempt \in Nat
  BY DEF TypeOK
<1>a. CASE fin'.attempt = fin.attempt
  BY <1>0, <1>a
<1>1. CASE \/ Dispatch \/ LoseJob \/ deadLetterExhaustedReceipts \/ NewerRunClaims \/ SuspendLands
  BY <1>a, <1>1 DEF Dispatch, LoseJob, deadLetterExhaustedReceipts, NewerRunClaims, SuspendLands
<1>2. CASE LeaseExpires \/ enqueuePendingFinalizations
  BY <1>a, <1>2 DEF LeaseExpires, enqueuePendingFinalizations, Reclaimed, TypeOK
<1>3. CASE Verify
  <2>1. PICK o \in Outputs, result \in {"verified", "failed"} :
          settleArtifactVerification(o, result)
    BY <1>3 DEF Verify, Verdict
  <2>2. Recounted(SettledOps(o, result)).attempt = fin.attempt
    BY RecountOutcome
  <2> QED
    BY <1>a, <2>1, <2>2 DEF settleArtifactVerification
<1>4. ASSUME NEW w \in Workers, Publishes(w) PROVE fin.attempt <= fin'.attempt
  BY <1>a, <1>4, PublishesFrame
<1>5. ASSUME NEW w \in Workers, Take(w) \/ Pause(w) \/ Stop(w) \/ Timeout(w) \/ Crash(w)
      PROVE  fin.attempt <= fin'.attempt
  BY <1>a, <1>5 DEF Take, Pause, Stop, Timeout, Crash
<1>6. ASSUME NEW w \in Workers, TakeLock(w) PROVE fin.attempt <= fin'.attempt
  <2>1. ASSUME NEW s \in BOOLEAN
        PROVE  [fin EXCEPT !.status = "skipped", !.items = 0, !.settled = s,
                           !.owner = "none", !.lease = "none"].attempt = fin.attempt
    BY DEF TypeOK
  <2>2. [fin EXCEPT !.status = "skipped", !.items = 0, !.settled = TRUE,
                    !.owner = "none", !.lease = "none"].attempt = fin.attempt
    BY <2>1, Zenon
  <2>3. fin' = fin \/ skipFinalization
    BY <1>6 DEF TakeLock
  <2>4. fin'.attempt = fin.attempt
    <3>1. CASE Skippable /\ skipFinalization
      <4>1. fin' = [fin EXCEPT !.status = "skipped", !.items = 0, !.settled = TRUE,
                    !.owner = "none", !.lease = "none"]
        BY <3>1 DEF skipFinalization
      <4> QED
        BY <2>2, <4>1, Zenon
    <3>2. CASE fin' = fin
      BY <3>2
    <3> QED
      BY <2>3, <3>1, <3>2 DEF skipFinalization
  <2> QED
    BY <1>a, <2>4
<1>7. ASSUME NEW w \in Workers, ListFails(w) PROVE fin.attempt <= fin'.attempt
  BY <1>a, <1>7 DEF ListFails, failFinalization, TypeOK
<1>8. ASSUME NEW w \in Workers, Finish(w) PROVE fin.attempt <= fin'.attempt
  BY <1>a, <1>8, FinishOutcome DEF Finish
<1>9. ASSUME NEW w \in Workers, beginFinalization(w) PROVE fin.attempt <= fin'.attempt
  <2>1. fin'.attempt \in {fin.attempt, fin.attempt + 1}
    BY <1>9 DEF beginFinalization, TypeOK
  <2> QED
    BY <1>0, <2>1
<1> QED
  BY <1>1, <1>2, <1>3, <1>4, <1>5, <1>6, <1>7, <1>8, <1>9 DEF Next, JobStep, Publishes

(* No step takes a verdict or an operation back. *)
LEMMA RowsGrow ==
  ASSUME TypeOK, Next, \A w \in Workers : JobMatchesRows(w)
  PROVE  BlobsStay /\ Recorded \subseteq Recorded'
<1>1. CASE UNCHANGED <<ops, blob>>
  BY <1>1 DEF BlobsStay, Recorded
<1>2. ASSUME NEW w \in Workers, Publishes(w)
      PROVE  BlobsStay /\ Recorded \subseteq Recorded'
  <2>1. CASE UNCHANGED ops
    BY <1>2, <2>1, PublishBlobs DEF Recorded
  <2>2. CASE ops' # ops
    <3>1. PICK op : ops' = [ops EXCEPT ![job[w].cur] = op] /\ op.status # "absent"
      BY <1>2, <2>2, PublishOps
    <3>2. job[w].cur \in Outputs
      BY <1>2, <2>2, PublishOps, InHand
    <3> QED
      BY <1>2, <3>1, <3>2, OpsRecorded, PublishBlobs
  <2> QED
    BY <2>1, <2>2
<1>3. CASE Verify
  <2>1. PICK o \in Outputs, result \in {"verified", "failed"} :
          settleArtifactVerification(o, result)
    BY <1>3 DEF Verify, Verdict
  <2>2. BlobsStay
    BY <2>1, VerifyOps
  <2>3. CASE UNCHANGED ops
    BY <2>2, <2>3 DEF Recorded
  <2>4. CASE ops' # ops
    <3>1. PICK op : ops' = [ops EXCEPT ![o] = op] /\ op.status # "absent"
      BY <2>1, <2>4, VerifyOps
    <3> QED
      BY <2>2, <3>1, OpsRecorded
  <2> QED
    BY <2>3, <2>4
<1> QED
  BY <1>1, <1>2, <1>3, QuietSteps

(* A job execution that does not move still matches the rows. *)
LEMMA OtherJobs ==
  ASSUME TypeOK, TypeOK', NEW x \in Workers, JobMatchesRows(x), job'[x] = job[x],
         BlobsStay, Recorded \subseteq Recorded', fin.attempt <= fin'.attempt
  PROVE  JobMatchesRows(x)'
<1> DEFINE j == job[x]
<1>1. j \in JobType /\ fin.attempt \in Nat /\ fin'.attempt \in Nat
  BY DEF TypeOK
<1>2. j.prior \subseteq Outputs /\ j.cur \in Outputs \cup {0}
  BY <1>1 DEF JobType
<1>3. \A o \in j.prior : blob'[o] = "verified"
  BY <1>2 DEF JobMatchesRows, BlobsStay
<1>4. Handled(x)' = Handled(x)
  BY DEF Handled
<1>5. j.pc = "waits" /\ j.saw = "verified" => blob'[j.cur] = "verified"
  BY <1>2 DEF JobMatchesRows, BlobsStay, Handling
<1>6. PastListing(x)' = PastListing(x) /\ Publishing(x)' = Publishing(x)
  BY DEF PastListing, Publishing
<1>7. Publishing(x) => fin'.attempt > 0
  BY <1>1 DEF JobMatchesRows
<1>8. j.pc \in Handling \ {"start"} => j.cur \in Recorded'
  BY DEF JobMatchesRows
<1> QED
  BY <1>3, <1>4, <1>5, <1>6, <1>7, <1>8 DEF JobMatchesRows

-----------------------------------------------------------------------------
(* A job execution and the rows. *)

(* One more output, one more in the count. *)
LEMMA CountGrows ==
  ASSUME NEW S, S \subseteq Outputs, NEW o, NEW T, T \subseteq Outputs, T \subseteq S \cup {o},
         NEW n \in Nat, Cardinality(S) <= n
  PROVE  Cardinality(T) <= n + 1
<1>1. IsFiniteSet(S) /\ Cardinality(S) \in Nat
  BY CountOf
<1>2. /\ IsFiniteSet(S \cup {o})
      /\ Cardinality(S \cup {o}) \in {Cardinality(S), Cardinality(S) + 1}
  BY <1>1, FS_AddElement
<1>3. Cardinality(T) \in Nat /\ Cardinality(T) <= Cardinality(S \cup {o})
  BY <1>2, FS_Subset, CountOf
<1> QED
  BY <1>1, <1>2, <1>3

(* An execution that is not publishing holds nothing. *)
LEMMA RestingJob ==
  ASSUME TypeOK', NEW w \in Workers, JobMatchesRows(w), BlobsStay, TypeOK,
         job'[w].pc \in {"idle", "queued", "begin", "pause", "stop"},
         job'[w].cur = 0, job'[w].prior \subseteq job[w].prior
  PROVE  JobMatchesRows(w)'
<1>1. job[w].prior \subseteq Outputs
  BY DEF TypeOK, JobType
<1>2. \A o \in job'[w].prior : blob'[o] = "verified"
  BY <1>1 DEF JobMatchesRows, BlobsStay
<1>3. ~Publishing(w)' /\ ~PastListing(w)' /\ job'[w].pc \notin Handling
  BY DEF Publishing, PastListing, Handling
<1> QED
  BY <1>2, <1>3 DEF JobMatchesRows, Handling

(* Starting, ending and failing leave the execution as it should be. *)
LEMMA JobEnds ==
  ASSUME TypeOK, TypeOK', NEW w \in Workers, JobMatchesRows(w), BlobsStay,
         \/ Take(w) \/ TakeLock(w) \/ ListFails(w) \/ Finish(w) \/ Pause(w) \/ Stop(w)
         \/ Crash(w)
  PROVE  JobMatchesRows(w)'
<1>0. job[w] \in JobType
  BY DEF TypeOK
<1>1. IdleJob.pc = "idle" /\ IdleJob.cur = 0 /\ IdleJob.prior = {}
  BY DEF IdleJob
<1>2. CASE job' = [job EXCEPT ![w] = IdleJob]
  <2>1. job'[w] = IdleJob
    BY <1>2 DEF TypeOK
  <2> QED
    BY <1>1, <2>1, RestingJob
<1>3. ASSUME NEW p \in {"begin", "stop"}, Goto(w, p), job[w].pc \in {"queued", "list", "pause"}
      PROVE  JobMatchesRows(w)'
  <2>1. job'[w] = [job[w] EXCEPT !.pc = p]
    BY <1>3 DEF Goto, TypeOK
  <2>2. job'[w].pc = p /\ job'[w].cur = job[w].cur /\ job'[w].prior = job[w].prior
    BY <1>0, <2>1 DEF JobType
  <2>3. job[w].cur = 0
    BY <1>3 DEF JobMatchesRows, Handling
  <2> QED
    BY <1>3, <2>2, <2>3, RestingJob
<1>4. CASE Take(w)
  <2>1. PICK d \in queue :
          job' = [job EXCEPT ![w] = [IdleJob EXCEPT !.pc = "queued", !.of = d]]
    BY <1>4 DEF Take
  <2>2. job'[w] = [IdleJob EXCEPT !.pc = "queued", !.of = d]
    BY <2>1 DEF TypeOK
  <2>3. job'[w].pc = "queued" /\ job'[w].cur = 0 /\ job'[w].prior = {}
    BY <2>2 DEF IdleJob
  <2> QED
    BY <2>3, RestingJob
<1>5. CASE TakeLock(w)
  BY <1>2, <1>3, <1>5 DEF TakeLock, Succeeds
<1>6. CASE ListFails(w)
  BY <1>2, <1>3, <1>6 DEF ListFails, Succeeds
<1>7. CASE Finish(w)
  <2>1. CASE ~Ghost(w)
    <3>1. job'[w] = [IdleJob EXCEPT !.pc = "pause", !.of = job[w].of]
      BY <1>7, <2>1 DEF Finish, TypeOK
    <3>2. job'[w].pc = "pause" /\ job'[w].cur = 0 /\ job'[w].prior = {}
      BY <3>1 DEF IdleJob
    <3> QED
      BY <3>2, RestingJob
  <2>2. CASE Ghost(w)
    BY <1>2, <1>7, <2>2 DEF Finish
  <2> QED
    BY <2>1, <2>2
<1>8. CASE Pause(w) \/ Stop(w) \/ Crash(w)
  BY <1>2, <1>3, <1>8 DEF Pause, Stop, Crash, Succeeds, Throws
<1> QED
  BY <1>4, <1>5, <1>6, <1>7, <1>8

(* A finalization begins with nothing in hand. *)
LEMMA JobBegins ==
  ASSUME TypeOK, TypeOK', NEW w \in Workers, JobMatchesRows(w), BlobsStay,
         beginFinalization(w)
  PROVE  JobMatchesRows(w)'
<1>0. job[w] \in JobType /\ fin.attempt \in Nat
  BY DEF TypeOK
<1>1. PICK p \in {"list", "pause"} : Goto(w, p) /\ (p = "list" => MayBegin(w))
  BY DEF beginFinalization
<1>2. job'[w] = [job[w] EXCEPT !.pc = p]
  BY <1>1 DEF Goto, TypeOK
<1>3. job'[w].pc = p /\ job'[w].cur = job[w].cur /\ job'[w].prior = job[w].prior
  BY <1>0, <1>2 DEF JobType
<1>4. job[w].cur = 0
  BY DEF JobMatchesRows, Handling, beginFinalization
<1>5. CASE p = "pause"
  BY <1>3, <1>4, <1>5, RestingJob
<1>6. CASE p = "list"
  <2>1. fin'.attempt = fin.attempt + 1
    BY <1>1, <1>6 DEF beginFinalization, TypeOK
  <2>2. \A o \in job'[w].prior : blob'[o] = "verified"
    BY <1>0, <1>3 DEF JobMatchesRows, BlobsStay, JobType
  <2>3. ~PastListing(w)' /\ job'[w].pc \notin Handling
    BY <1>3, <1>6 DEF PastListing, Handling
  <2>4. fin'.attempt > 0
    BY <1>0, <2>1
  <2> QED
    BY <1>3, <1>4, <1>6, <2>2, <2>3, <2>4 DEF JobMatchesRows
<1> QED
  BY <1>5, <1>6

(* Reading leaves the execution as it should be: what is listed as verified  *)
(* is passed over, a failed read counts.                                     *)
LEMMA JobReads ==
  ASSUME TypeOK, TypeOK', NEW w \in Workers, JobMatchesRows(w), BlobsStay,
         List(w) \/ \E o \in Outputs : Read(w, o) \/ ReadFails(w, o)
  PROVE  JobMatchesRows(w)'
<1> DEFINE j == job[w]
           k == job'[w]
<1>0. j \in JobType /\ fin.attempt \in Nat /\ 0 \notin Outputs
  BY FinalizationAssumption DEF TypeOK
<1>f. /\ j.todo \subseteq Outputs /\ j.prior \subseteq Outputs
      /\ j.results \in Nat /\ j.failures \in Nat
  BY <1>0 DEF JobType
<1>a. j.cur = 0 /\ fin'.attempt > 0
  BY DEF List, Read, ReadFails, JobMatchesRows, Handling, Publishing
<1>1. CASE List(w)
  <2> DEFINE P == {o \in Outputs : blob[o] = "verified"}
  <2>1. k = [j EXCEPT !.pc = "read", !.todo = Outputs, !.prior = P]
    BY <1>1 DEF List, TypeOK
  <2>2. \A o \in P : blob'[o] = "verified"
    BY DEF BlobsStay
  <2> HIDE DEF P
  <2>3. /\ k.pc = "read" /\ k.todo = Outputs /\ k.prior = P /\ k.cur = 0
        /\ k.results = j.results /\ k.failures = j.failures
    BY <1>0, <1>a, <2>1 DEF JobType
  <2>4. Handled(w)' = {}
    BY <2>3 DEF Handled
  <2>5. Cardinality(Handled(w)') <= k.results + k.failures
    BY <1>f, <2>3, <2>4, FS_EmptySet
  <2> QED
    BY <1>a, <2>2, <2>3, <2>5 DEF JobMatchesRows, Handling
<1>b. \A o \in j.prior : blob'[o] = "verified"
  BY <1>f DEF JobMatchesRows, BlobsStay
<1>2. ASSUME NEW o \in Outputs, Read(w, o) PROVE JobMatchesRows(w)'
  <2>0. j.pc = "read" /\ o \in j.todo
    BY <1>2 DEF Read
  <2>1. Cardinality(Handled(w)) <= j.results + j.failures
    BY <2>0 DEF JobMatchesRows, PastListing
  <2>2. CASE o \in j.prior
    <3>1. k = [j EXCEPT !.todo = j.todo \ {o}]
      BY <1>2, <2>2 DEF Read, TypeOK
    <3>2. /\ k.pc = "read" /\ k.todo = j.todo \ {o} /\ k.prior = j.prior /\ k.cur = 0
          /\ k.results = j.results /\ k.failures = j.failures
      BY <1>0, <1>a, <2>0, <3>1 DEF JobType
    <3>3. Handled(w)' = Handled(w)
      BY <1>a, <2>2, <3>2 DEF Handled
    <3> QED
      BY <1>a, <1>b, <2>1, <3>2, <3>3 DEF JobMatchesRows, Handling
  <2>3. CASE o \notin j.prior
    <3>1. k = [j EXCEPT !.todo = j.todo \ {o}, !.cur = o, !.pc = "start"]
      BY <1>2, <2>3 DEF Read, TypeOK
    <3>2. /\ k.pc = "start" /\ k.todo = j.todo \ {o} /\ k.prior = j.prior /\ k.cur = o
          /\ k.results = j.results /\ k.failures = j.failures
      BY <1>0, <3>1 DEF JobType
    <3>3. Handled(w)' = Handled(w)
      BY <1>0, <1>a, <2>0, <3>2 DEF Handled
    <3> QED
      BY <1>a, <1>b, <2>1, <2>3, <3>2, <3>3 DEF JobMatchesRows, Handling
  <2> QED
    BY <2>2, <2>3
<1>3. ASSUME NEW o \in Outputs, ReadFails(w, o) PROVE JobMatchesRows(w)'
  <2>0. j.pc = "read"
    BY <1>3 DEF ReadFails
  <2>1. Cardinality(Handled(w)) <= j.results + j.failures
    BY <2>0 DEF JobMatchesRows, PastListing
  <2>2. k = [j EXCEPT !.todo = j.todo \ {o}, !.failures = j.failures + 1]
    BY <1>3 DEF ReadFails, TypeOK
  <2>3. /\ k.pc = "read" /\ k.todo = j.todo \ {o} /\ k.prior = j.prior /\ k.cur = 0
        /\ k.results = j.results /\ k.failures = j.failures + 1
    BY <1>0, <1>a, <2>0, <2>2 DEF JobType
  <2>4. /\ Handled(w)' \subseteq Handled(w) \cup {o}
        /\ Handled(w) \subseteq Outputs /\ Handled(w)' \subseteq Outputs
    BY <1>a, <2>3 DEF Handled
  <2>5. j.results + j.failures \in Nat
    BY <1>f
  <2>6. Cardinality(Handled(w)') <= (j.results + j.failures) + 1
    BY <2>1, <2>4, <2>5, CountGrows
  <2>7. Cardinality(Handled(w)') <= k.results + k.failures
    BY <1>f, <2>3, <2>6
  <2> QED
    BY <1>a, <1>b, <2>3, <2>7 DEF JobMatchesRows, Handling
<1> QED
  BY <1>1, <1>2, <1>3

(* Recording leaves the execution as it should be: the output in its hands   *)
(* has an operation, and counts once it is handled.                          *)
LEMMA JobRecords ==
  ASSUME TypeOK, TypeOK', NEW w \in Workers, JobMatchesRows(w), BlobsStay,
         Recorded \subseteq Recorded',
         \/ recordArtifactOperationStart(w) \/ recordArtifactOperationStorage(w)
         \/ persistOutput(w) \/ failArtifactOperation(w)
         \/ completeArtifactOperation(w) \/ CompleteWaits(w) \/ CompleteResumes(w)
  PROVE  JobMatchesRows(w)'
<1> DEFINE j == job[w]
           k == job'[w]
<1>0. j \in JobType /\ 0 \notin Outputs /\ j.pc \in Handling
  BY FinalizationAssumption DEF TypeOK, recordArtifactOperationStart,
    recordArtifactOperationStorage, persistOutput, failArtifactOperation,
    completeArtifactOperation, CompleteWaits, CompleteResumes, Handling
<1>f. /\ j.todo \subseteq Outputs /\ j.prior \subseteq Outputs
      /\ j.results \in Nat /\ j.failures \in Nat
  BY <1>0 DEF JobType
<1>a. /\ j.cur \in Outputs /\ j.cur \notin j.prior \cup j.todo
      /\ Cardinality(Handled(w)) <= j.results + j.failures
      /\ Publishing(w) /\ fin.attempt > 0
  BY <1>0 DEF JobMatchesRows, PastListing, Publishing, Handling
<1>b. fin'.attempt > 0
  <2>1. fin' = fin
    BY DEF recordArtifactOperationStart, recordArtifactOperationStorage, persistOutput,
      failArtifactOperation, completeArtifactOperation, CompleteWaits, CompleteResumes,
      Completed
  <2> QED
    BY <1>a, <2>1
<1>c. \A o \in j.prior : blob'[o] = "verified"
  BY <1>f DEF JobMatchesRows, BlobsStay
<1>d. j.pc # "start" => j.cur \in Recorded'
  BY <1>0 DEF JobMatchesRows
<1>1. ASSUME NEW p \in {"store", "persist", "complete"}, Goto(w, p), j.cur \in Recorded'
      PROVE  JobMatchesRows(w)'
  <2>1. k = [j EXCEPT !.pc = p]
    BY <1>1 DEF Goto, TypeOK
  <2>2. /\ k.pc = p /\ k.todo = j.todo /\ k.prior = j.prior /\ k.cur = j.cur
        /\ k.results = j.results /\ k.failures = j.failures
    BY <1>0, <2>1 DEF JobType
  <2>3. Handled(w)' = Handled(w)
    BY <2>2 DEF Handled
  <2> QED
    BY <1>1, <1>a, <1>b, <1>c, <2>2, <2>3 DEF JobMatchesRows, Handling
<1>2. CASE recordArtifactOperationStart(w)
  <2> DEFINE op == [status |-> "pending", check |-> "pending", file |-> FALSE, receipt |-> FALSE]
  <2>1. ops' = [ops EXCEPT ![j.cur] = op] /\ op.status = "pending"
    BY <1>2 DEF recordArtifactOperationStart
  <2> HIDE DEF op
  <2>2. j.cur \in Recorded'
    BY <1>a, <2>1, OpsRecorded
  <2> QED
    BY <1>1, <1>2, <2>2 DEF recordArtifactOperationStart
<1>3. CASE recordArtifactOperationStorage(w) \/ persistOutput(w)
  BY <1>1, <1>3, <1>d DEF recordArtifactOperationStorage, persistOutput
<1>4. CASE CompleteWaits(w)
  <2>1. k = [j EXCEPT !.pc = "waits", !.saw = blob[j.cur]]
    BY <1>4 DEF CompleteWaits, TypeOK
  <2>2. /\ k.pc = "waits" /\ k.todo = j.todo /\ k.prior = j.prior /\ k.cur = j.cur
        /\ k.results = j.results /\ k.failures = j.failures /\ k.saw = blob[j.cur]
    BY <1>0, <2>1 DEF JobType
  <2>3. Handled(w)' = Handled(w)
    BY <2>2 DEF Handled
  <2>4. blob[j.cur] = "verified" => blob'[j.cur] = "verified"
    BY <1>a DEF BlobsStay
  <2>5. j.cur \in Recorded'
    BY <1>4, <1>d DEF CompleteWaits
  <2> QED
    BY <1>a, <1>b, <1>c, <2>2, <2>3, <2>4, <2>5 DEF JobMatchesRows, Handling
<1>5. ASSUME k.pc = "read", k.cur = 0, k.todo = j.todo, k.prior = j.prior,
             k.results + k.failures = (j.results + j.failures) + 1
      PROVE  JobMatchesRows(w)'
  <2>1. /\ Handled(w)' \subseteq Handled(w) \cup {j.cur}
        /\ Handled(w) \subseteq Outputs /\ Handled(w)' \subseteq Outputs
    BY <1>5 DEF Handled
  <2>2. j.results + j.failures \in Nat
    BY <1>f
  <2>3. Cardinality(Handled(w)') <= (j.results + j.failures) + 1
    BY <1>a, <2>1, <2>2, CountGrows
  <2>4. Cardinality(Handled(w)') <= k.results + k.failures
    BY <1>5, <2>3
  <2> QED
    BY <1>5, <1>b, <1>c, <2>4 DEF JobMatchesRows, Handling
<1>6. CASE failArtifactOperation(w)
  <2>1. k = [j EXCEPT !.pc = "read", !.cur = 0, !.failures = j.failures + 1]
    BY <1>6 DEF failArtifactOperation, TypeOK
  <2>2. /\ k.pc = "read" /\ k.cur = 0 /\ k.todo = j.todo /\ k.prior = j.prior
        /\ k.results = j.results /\ k.failures = j.failures + 1
    BY <1>0, <2>1 DEF JobType
  <2>3. k.results + k.failures = (j.results + j.failures) + 1
    BY <1>f, <2>2
  <2> QED
    BY <1>5, <2>2, <2>3
<1>7. ASSUME NEW v, Completed(w, v) PROVE JobMatchesRows(w)'
  <2>1. k = [j EXCEPT !.pc = "read", !.cur = 0, !.saw = "none", !.results = j.results + 1]
    BY <1>7 DEF Completed, TypeOK
  <2>2. /\ k.pc = "read" /\ k.cur = 0 /\ k.todo = j.todo /\ k.prior = j.prior
        /\ k.results = j.results + 1 /\ k.failures = j.failures
    BY <1>0, <2>1 DEF JobType
  <2>3. k.results + k.failures = (j.results + j.failures) + 1
    BY <1>f, <2>2
  <2> QED
    BY <1>5, <2>2, <2>3
<1> QED
  BY <1>2, <1>3, <1>4, <1>6, <1>7 DEF completeArtifactOperation, CompleteResumes

(* A step of one job execution other than a timeout moves no other. *)
LEMMA OneJobMoves ==
  ASSUME TypeOK, NEW w \in Workers, Take(w) \/ JobStep(w) \/ Crash(w),
         NEW x \in Workers, x # w
  PROVE  job'[x] = job[x]
<1>1. CASE \E j : job' = [job EXCEPT ![w] = j]
  BY <1>1 DEF TypeOK
<1>2. CASE Publishes(w)
  BY <1>1, <1>2, PublishesFrame
<1>3. CASE UNCHANGED job
  BY <1>3
<1>4. ASSUME NEW p, Goto(w, p) PROVE job'[x] = job[x]
  BY <1>4 DEF Goto, TypeOK
<1>5. CASE Take(w) \/ Finish(w) \/ Crash(w)
  BY <1>1, <1>3, <1>5 DEF Take, Finish, Crash
<1>6. CASE Pause(w) \/ Stop(w)
  BY <1>1, <1>4, <1>6 DEF Pause, Stop, Succeeds, Throws
<1>7. CASE TakeLock(w) \/ beginFinalization(w) \/ ListFails(w)
  BY <1>1, <1>4, <1>7 DEF TakeLock, beginFinalization, ListFails, Succeeds
<1> QED
  BY <1>2, <1>5, <1>6, <1>7 DEF JobStep, Publishes

(* The steps of no job execution leave them all alone. *)
LEMMA NoJobMoves ==
  ASSUME \/ Dispatch \/ LoseJob \/ deadLetterExhaustedReceipts \/ LeaseExpires
         \/ enqueuePendingFinalizations \/ Verify \/ NewerRunClaims \/ SuspendLands
  PROVE  UNCHANGED <<job, lock>>
  BY DEF Dispatch, LoseJob, deadLetterExhaustedReceipts, LeaseExpires,
    enqueuePendingFinalizations, Verify, Verdict, settleArtifactVerification,
    NewerRunClaims, SuspendLands

(* A timeout leaves the publication as it was, in another slot. *)
LEMMA TimeoutMoves ==
  ASSUME TypeOK, TypeOK', NEW w \in Workers, Timeout(w),
         \A x \in Workers : JobMatchesRows(x), NEW x \in Workers
  PROVE  JobMatchesRows(x)'
<1>1. PICK g \in Workers \ {w} :
        job' = [job EXCEPT ![g] = job[w],
                           ![w] = [IdleJob EXCEPT !.pc = "stop", !.of = job[w].of]]
  BY DEF Timeout
<1>2. UNCHANGED <<fin, ops, blob>>
  BY DEF Timeout
<1>3. Recorded' = Recorded /\ BlobsStay
  BY <1>2 DEF Recorded, BlobsStay
<1>4. CASE x = w
  <2>1. job'[w] = [IdleJob EXCEPT !.pc = "stop", !.of = job[w].of]
    BY <1>1 DEF TypeOK
  <2>2. job'[w].pc = "stop" /\ job'[w].cur = 0 /\ job'[w].prior = {}
    BY <2>1 DEF IdleJob
  <2> QED
    BY <1>3, <1>4, <2>2, RestingJob
<1>5. CASE x = g
  <2>1. job'[g] = job[w]
    BY <1>1 DEF TypeOK
  <2>2. /\ Handled(g)' = Handled(w) /\ PastListing(g)' = PastListing(w)
        /\ Publishing(g)' = Publishing(w)
    BY <2>1 DEF Handled, PastListing, Publishing
  <2>3. JobMatchesRows(g)'
    BY <1>2, <1>3, <2>1, <2>2 DEF JobMatchesRows
  <2> QED
    BY <1>5, <2>3
<1>6. CASE x \notin {w, g}
  <2>1. job'[x] = job[x] /\ fin'.attempt = fin.attempt /\ fin.attempt \in Nat
    BY <1>1, <1>2, <1>6 DEF TypeOK
  <2> QED
    BY <1>3, <2>1, OtherJobs
<1> QED
  BY <1>4, <1>5, <1>6

(* Every job execution matches the rows after every step. *)
LEMMA JobsStep ==
  ASSUME TypeOK, TypeOK', Next, \A w \in Workers : JobMatchesRows(w),
         NEW x \in Workers
  PROVE  JobMatchesRows(x)'
<1>0. BlobsStay /\ Recorded \subseteq Recorded' /\ fin.attempt <= fin'.attempt
  BY RowsGrow, AttemptsGrow
<1>1. CASE job'[x] = job[x]
  BY <1>0, <1>1, OtherJobs
<1>2. CASE \/ Dispatch \/ LoseJob \/ deadLetterExhaustedReceipts \/ LeaseExpires
           \/ enqueuePendingFinalizations \/ Verify \/ NewerRunClaims \/ SuspendLands
  BY <1>1, <1>2, NoJobMoves
<1>3. ASSUME NEW w \in Workers, Take(w) \/ JobStep(w) \/ Crash(w), x # w
      PROVE  JobMatchesRows(x)'
  BY <1>1, <1>3, OneJobMoves
<1>4. ASSUME NEW w \in Workers, Timeout(w)
      PROVE  JobMatchesRows(x)'
  BY <1>4, TimeoutMoves
<1>5. CASE \/ Take(x) \/ TakeLock(x) \/ ListFails(x) \/ Finish(x) \/ Pause(x) \/ Stop(x)
           \/ Crash(x)
  BY <1>0, <1>5, JobEnds
<1>6. CASE beginFinalization(x)
  BY <1>0, <1>6, JobBegins
<1>7. CASE List(x) \/ \E o \in Outputs : Read(x, o) \/ ReadFails(x, o)
  BY <1>0, <1>7, JobReads
<1>8. CASE \/ recordArtifactOperationStart(x) \/ recordArtifactOperationStorage(x)
           \/ persistOutput(x) \/ failArtifactOperation(x)
           \/ completeArtifactOperation(x) \/ CompleteWaits(x) \/ CompleteResumes(x)
  BY <1>0, <1>8, JobRecords
<1>9. ASSUME Take(x) \/ JobStep(x) \/ Crash(x)
      PROVE  JobMatchesRows(x)'
  BY <1>5, <1>6, <1>7, <1>8, <1>9 DEF JobStep
<1> QED
  BY <1>2, <1>3, <1>4, <1>9 DEF Next

(* Operations stay true: a written one is complete only for a verified blob. *)
LEMMA WrittenIsTrue ==
  ASSUME TypeOK, OperationsAreTrue, BlobsStay, NEW o \in Outputs, NEW op,
         ops' = [ops EXCEPT ![o] = op], op.status # "absent",
         op.status = "complete" /\ op.check = "verified" => blob'[o] = "verified",
         fin'.attempt > 0
  PROVE  OperationsAreTrue'
<1>1. ops'[o] = op /\ \A x \in Outputs \ {o} : ops'[x] = ops[x]
  BY DEF TypeOK
<1>2. Recorded' = Recorded \cup {o}
  BY OpsRecorded
<1>3. \A x \in Done' : blob'[x] = "verified"
  BY <1>1 DEF Done, OperationsAreTrue, BlobsStay
<1>4. \A x \in Outputs : ops'[x].file \/ ops'[x].receipt => x \in Recorded'
  BY <1>1, <1>2 DEF OperationsAreTrue
<1> QED
  BY <1>3, <1>4 DEF OperationsAreTrue

(* Operations stay true where none is written. *)
LEMMA UnwrittenIsTrue ==
  ASSUME TypeOK, TypeOK', OperationsAreTrue, BlobsStay, UNCHANGED ops,
         fin.attempt <= fin'.attempt
  PROVE  OperationsAreTrue'
<1>0. fin.attempt \in Nat /\ fin'.attempt \in Nat
  BY DEF TypeOK
<1>1. Done' = Done /\ Recorded' = Recorded
  BY DEF Done, Recorded
<1>2. Recorded # {} => fin'.attempt > 0
  BY <1>0 DEF OperationsAreTrue
<1> QED
  BY <1>1, <1>2 DEF OperationsAreTrue, BlobsStay, Done

(* Every step keeps the operations true. *)
LEMMA OperationsStep ==
  ASSUME TypeOK, TypeOK', Next, \A w \in Workers : JobMatchesRows(w), OperationsAreTrue
  PROVE  OperationsAreTrue'
<1>0. BlobsStay /\ fin.attempt <= fin'.attempt /\ fin.attempt \in Nat /\ fin'.attempt \in Nat
  BY RowsGrow, AttemptsGrow DEF TypeOK
<1>1. CASE UNCHANGED ops
  BY <1>0, <1>1, UnwrittenIsTrue
<1>2. ASSUME NEW w \in Workers, Publishes(w), ops' # ops PROVE OperationsAreTrue'
  <2>1. job[w].pc \in Handling
    BY <1>2, PublishOps
  <2>2. PICK op : /\ ops' = [ops EXCEPT ![job[w].cur] = op]
                  /\ op.status # "absent"
                  /\ op.status = "complete" /\ op.check = "verified"
                       => blob[job[w].cur] = "verified"
    BY <1>2, PublishOps
  <2>3. job[w].cur \in Outputs
    BY <2>1, InHand
  <2>4. fin'.attempt > 0
    <3>1. fin.attempt > 0
      BY <1>2, PublishesFrame DEF JobMatchesRows
    <3> QED
      BY <1>0, <3>1
  <2>5. op.status = "complete" /\ op.check = "verified" => blob'[job[w].cur] = "verified"
    BY <1>0, <2>2, <2>3 DEF BlobsStay
  <2> QED
    BY <1>0, <2>2, <2>3, <2>4, <2>5, WrittenIsTrue
<1>3. ASSUME Verify, ops' # ops PROVE OperationsAreTrue'
  <2>1. PICK o \in Outputs, result \in {"verified", "failed"} :
          settleArtifactVerification(o, result)
    BY <1>3 DEF Verify, Verdict
  <2>2. PICK op : /\ ops' = [ops EXCEPT ![o] = op]
                  /\ op.status # "absent"
                  /\ op.status = "complete" => result = "verified"
    BY <1>3, <2>1, VerifyOps
  <2>3. (result = "verified" => blob'[o] = "verified") /\ (ops[o].file \/ ops[o].receipt)
    BY <1>3, <2>1, VerifyOps
  <2>4. fin'.attempt > 0
    <3>1. fin.attempt > 0
      BY <2>3 DEF OperationsAreTrue
    <3> QED
      BY <1>0, <3>1
  <2> QED
    BY <1>0, <2>2, <2>3, <2>4, WrittenIsTrue
<1> QED
  BY <1>1, <1>2, <1>3, QuietSteps

-----------------------------------------------------------------------------
(* The finalization runs while it is published. *)

(* Only one execution publishes, and none while the lock is free. *)
LEMMA OnePublisher ==
  ASSUME RunningIsPublished, Clean, NEW w \in Workers, Publishing(w)
  PROVE  /\ lock = w /\ fin.status = "running" /\ fin.owner = Pid[w] /\ fin.lease = "held"
         /\ \A x \in Workers : Publishing(x) => x = w
  BY DEF RunningIsPublished

(* A finalization that does not run is left to nobody. *)
LEMMA NotRunning ==
  ASSUME \A x \in Workers : ~Publishing(x)', fin'.status # "running"
  PROVE  RunningIsPublished'
  BY DEF RunningIsPublished

(* A step of one execution between two states in which it does not publish,  *)
(* under a lock no publisher holds.                                          *)
LEMMA NobodyPublishes ==
  ASSUME TypeOK, RunningIsPublished, Clean, NEW w \in Workers, ~Publishing(w),
         lock \in {"free", w}
  PROVE  fin.status # "running" /\ \A x \in Workers : ~Publishing(x)
<1>1. "free" \notin Workers
  BY FinalizationAssumption
<1>2. \A x \in Workers : ~Publishing(x)
  BY <1>1 DEF RunningIsPublished
<1> QED
  BY <1>2 DEF RunningIsPublished

(* The steps of no execution neither end the lease nor change who publishes. *)
LEMMA RunningOutside ==
  ASSUME TypeOK, TypeOK', RunningIsPublished, Clean,
         \/ Dispatch \/ LoseJob \/ deadLetterExhaustedReceipts \/ LeaseExpires
         \/ enqueuePendingFinalizations \/ Verify \/ NewerRunClaims \/ SuspendLands
  PROVE  RunningIsPublished'
<1>0. UNCHANGED <<job, lock>>
  BY NoJobMoves
<1>a. \A w \in Workers : Publishing(w)' <=> Publishing(w)
  BY <1>0 DEF Publishing
<1>1. ASSUME fin'.status = "running" <=> fin.status = "running",
             fin'.owner = fin.owner, fin'.lease = fin.lease
      PROVE  RunningIsPublished'
  BY <1>0, <1>1, <1>a DEF RunningIsPublished
<1>2. CASE Dispatch \/ LoseJob \/ deadLetterExhaustedReceipts \/ NewerRunClaims \/ SuspendLands
  BY <1>1, <1>2 DEF Dispatch, LoseJob, deadLetterExhaustedReceipts, NewerRunClaims, SuspendLands
<1>3. CASE LeaseExpires
  <2>1. fin.status = "running"
    BY <1>3 DEF LeaseExpires, TypeOK
  <2>2. PICK w \in Workers : Publishing(w)
    BY <2>1 DEF RunningIsPublished
  <2> QED
    BY <1>3, <2>2, OnePublisher DEF LeaseExpires, Ghost
<1>4. CASE enqueuePendingFinalizations
  <2>1. fin.status = "running" => fin.lease = "held"
    BY DEF RunningIsPublished
  <2>2. fin' = fin
    BY <1>4, <2>1 DEF enqueuePendingFinalizations, Reclaimed
  <2> QED
    BY <1>1, <2>2
<1>5. CASE Verify
  <2>1. PICK o \in Outputs, result \in {"verified", "failed"} :
          settleArtifactVerification(o, result)
    BY <1>5 DEF Verify, Verdict
  <2> DEFINE new == Recounted(SettledOps(o, result))
  <2>2. /\ new.owner = fin.owner /\ new.lease = fin.lease
        /\ fin.status = "running" <=> new.status = "running"
    BY RecountOutcome
  <2>3. fin' = fin \/ fin' = new
    BY <2>1 DEF settleArtifactVerification
  <2> HIDE DEF new
  <2> QED
    BY <1>1, <2>2, <2>3
<1> QED
  BY <1>2, <1>3, <1>4, <1>5

(* A step of one execution that ends or prepares publication. *)
LEMMA RunningInside ==
  ASSUME TypeOK, TypeOK', RunningIsPublished, Clean, LockGuards, NEW w \in Workers,
         \/ Take(w) \/ TakeLock(w) \/ beginFinalization(w) \/ ListFails(w) \/ Finish(w)
         \/ Pause(w) \/ Stop(w)
  PROVE  RunningIsPublished'
<1>0. "free" \notin Workers /\ job[w] \in JobType /\ IdleJob.pc = "idle"
  BY FinalizationAssumption DEF TypeOK, IdleJob
<1>a. \A x \in Workers \ {w} : Publishing(x)' <=> Publishing(x)
  BY OneJobMoves DEF JobStep, Publishing
<1>b. ASSUME NEW p, Goto(w, p) PROVE job'[w].pc = p
  <2>1. job'[w] = [job[w] EXCEPT !.pc = p]
    BY <1>b DEF Goto, TypeOK
  <2> QED
    BY <1>0, <2>1 DEF JobType
<1>1. CASE Take(w)
  <2>1. PICK d \in queue :
          job' = [job EXCEPT ![w] = [IdleJob EXCEPT !.pc = "queued", !.of = d]]
    BY <1>1 DEF Take
  <2>2. job'[w] = [IdleJob EXCEPT !.pc = "queued", !.of = d]
    BY <2>1 DEF TypeOK
  <2>3. job'[w].pc = "queued"
    BY <2>2 DEF IdleJob
  <2>4. ~Publishing(w) /\ ~Publishing(w)' /\ UNCHANGED <<fin, lock>>
    BY <1>1, <2>3 DEF Take, Publishing
  <2> QED
    BY <1>a, <2>4 DEF RunningIsPublished
<1>2. CASE Pause(w) \/ Stop(w)
  <2>1. ~Publishing(w) /\ lock = w /\ fin' = fin
    BY <1>2 DEF Pause, Stop, Publishing, LockGuards
  <2>2. job' = [job EXCEPT ![w] = IdleJob] \/ Goto(w, "stop")
    BY <1>2 DEF Pause, Stop, Succeeds, Throws
  <2>4. job'[w].pc \in {"idle", "stop"}
    BY <1>0, <1>b, <2>2 DEF TypeOK
  <2>3. ~Publishing(w)'
    BY <2>4 DEF Publishing
  <2> QED
    BY <1>a, <2>1, <2>3, NobodyPublishes, NotRunning
<1>3. CASE TakeLock(w) /\ MustSkip
  <2>1. ~Publishing(w) /\ lock = "free"
    BY <1>3 DEF TakeLock, Publishing
  <2>2. job'[w] = IdleJob
    BY <1>3 DEF TakeLock, Succeeds, TypeOK
  <2>3. ~Publishing(w)'
    BY <1>0, <2>2 DEF Publishing
  <2>4. fin.status # "running"
    BY <2>1, NobodyPublishes
  <2>5. fin'.status # "running"
    <3>1. CASE Skippable
      <4>1. ASSUME NEW s \in BOOLEAN
            PROVE  [fin EXCEPT !.status = "skipped", !.items = 0, !.settled = s,
                               !.owner = "none", !.lease = "none"].status = "skipped"
        BY DEF TypeOK
      <4>2. [fin EXCEPT !.status = "skipped", !.items = 0, !.settled = TRUE,
                        !.owner = "none", !.lease = "none"].status = "skipped"
        BY <4>1, Zenon
      <4>3. fin' = [fin EXCEPT !.status = "skipped", !.items = 0, !.settled = TRUE,
                               !.owner = "none", !.lease = "none"]
        BY <1>3, <3>1 DEF TakeLock, skipFinalization
      <4>4. fin'.status = "skipped"
        BY <4>2, <4>3, Zenon
      <4> QED
        BY <4>4
    <3>2. CASE ~Skippable
      BY <1>3, <2>4, <3>2 DEF TakeLock, skipFinalization
    <3> QED
      BY <3>1, <3>2
  <2> QED
    BY <1>a, <2>1, <2>3, <2>5, NobodyPublishes, NotRunning
<1>4. CASE TakeLock(w) /\ ~MustSkip
  <2>1. ~Publishing(w) /\ lock = "free" /\ fin' = fin
    BY <1>4 DEF TakeLock, Publishing
  <2>2. ~Publishing(w)'
    BY <1>4, <1>b DEF TakeLock, Publishing
  <2> QED
    BY <1>a, <2>1, <2>2, NobodyPublishes, NotRunning
<1>5. CASE beginFinalization(w)
  <2>1. ~Publishing(w) /\ lock = w /\ UNCHANGED lock
    BY <1>5 DEF beginFinalization, Publishing, LockGuards
  <2>2. CASE MayBegin(w)
    <3>1. /\ fin'.status = "running" /\ fin'.owner = Pid[w] /\ fin'.lease = "held"
          /\ Goto(w, "list")
      BY <1>5, <2>2 DEF beginFinalization, TypeOK
    <3>2. Publishing(w)'
      BY <1>b, <3>1 DEF Publishing
    <3>3. \A x \in Workers \ {w} : ~Publishing(x)'
      BY <1>a, <2>1, NobodyPublishes
    <3> QED
      BY <2>1, <3>1, <3>2, <3>3 DEF RunningIsPublished
  <2>3. CASE ~MayBegin(w)
    <3>1. fin' = fin /\ Goto(w, "pause")
      BY <1>5, <2>3 DEF beginFinalization
    <3>2. ~Publishing(w)'
      BY <1>b, <3>1 DEF Publishing
    <3> QED
      BY <1>a, <2>1, <3>1, <3>2, NobodyPublishes, NotRunning
  <2> QED
    BY <2>2, <2>3
<1>6. CASE ListFails(w)
  <2>1. Publishing(w)
    BY <1>6 DEF ListFails, Publishing
  <2>2. fin'.status # "running"
    BY <1>6, <2>1, OnePublisher DEF ListFails, failFinalization, TypeOK
  <2>3. \/ job' = [job EXCEPT ![w] = IdleJob]
        \/ Goto(w, "stop")
    BY <1>6 DEF ListFails, Succeeds
  <2>4. job'[w].pc \in {"idle", "stop"}
    BY <1>0, <1>b, <2>3 DEF TypeOK
  <2>5. ~Publishing(w)'
    BY <2>4 DEF Publishing
  <2> QED
    BY <1>a, <2>1, <2>2, <2>5, OnePublisher, NotRunning
<1>7. CASE Finish(w)
  <2>1. Publishing(w)
    BY <1>7 DEF Finish, Publishing
  <2>2. fin'.status # "running"
    BY <1>7, <2>1, OnePublisher, FinishOutcome DEF Finish
  <2>3. job'[w] = IF Ghost(w) THEN IdleJob
                    ELSE [IdleJob EXCEPT !.pc = "pause", !.of = job[w].of]
    BY <1>7 DEF Finish, TypeOK
  <2>4. job'[w].pc \in {"idle", "pause"}
    BY <2>3 DEF IdleJob
  <2>5. ~Publishing(w)'
    BY <2>4 DEF Publishing
  <2> QED
    BY <1>a, <2>1, <2>2, <2>5, OnePublisher, NotRunning
<1> QED
  BY <1>1, <1>2, <1>3, <1>4, <1>5, <1>6, <1>7

(* Every step keeps a running finalization with its publisher. *)
LEMMA RunningStep ==
  ASSUME TypeOK, TypeOK', RunningIsPublished, LockGuards, Next
  PROVE  RunningIsPublished'
<1> SUFFICES ASSUME Clean' PROVE RunningIsPublished'
  BY DEF RunningIsPublished
<1>0. Clean
  BY CleanWas
<1>1. CASE \/ Dispatch \/ LoseJob \/ deadLetterExhaustedReceipts \/ LeaseExpires
           \/ enqueuePendingFinalizations \/ Verify \/ NewerRunClaims \/ SuspendLands
  BY <1>0, <1>1, RunningOutside
<1>2. ASSUME NEW w \in Workers,
             \/ Take(w) \/ TakeLock(w) \/ beginFinalization(w) \/ ListFails(w) \/ Finish(w)
             \/ Pause(w) \/ Stop(w)
      PROVE  RunningIsPublished'
  BY <1>0, <1>2, RunningInside
<1>3. ASSUME NEW w \in Workers, Publishes(w) PROVE RunningIsPublished'
  <2>1. Publishing(w) /\ UNCHANGED <<fin, lock>>
    BY <1>3, PublishesFrame
  <2>2. PICK j : job' = [job EXCEPT ![w] = j] /\ j.pc \in Handling \cup {"read"}
    BY <1>3, PublishesFrame
  <2>3. Publishing(w)'
    BY <2>2 DEF Publishing, Handling, TypeOK
  <2>4. \A x \in Workers \ {w} : Publishing(x)' <=> Publishing(x)
    BY <2>2 DEF Publishing, TypeOK
  <2> QED
    BY <1>0, <2>1, <2>3, <2>4 DEF RunningIsPublished
<1>4. ASSUME NEW w \in Workers, Timeout(w) \/ Crash(w) PROVE FALSE
  BY <1>4, FaultStays DEF Timeout, Crash, Clean
<1> QED
  BY <1>1, <1>2, <1>3, <1>4 DEF Next, JobStep, Publishes

(* The steps of an execution outside publication do not lead into it. *)
LEMMA JobLeaves ==
  ASSUME TypeOK, NEW w \in Workers, job'[w] # job[w],
         \/ Take(w) \/ TakeLock(w) \/ beginFinalization(w) \/ ListFails(w) \/ Finish(w)
         \/ Pause(w) \/ Stop(w) \/ Crash(w)
  PROVE  ~PastListing(w)'
<1>0. job[w] \in JobType /\ IdleJob.pc = "idle"
  BY DEF TypeOK, IdleJob
<1>1. CASE job' = [job EXCEPT ![w] = IdleJob]
  BY <1>0, <1>1 DEF TypeOK, PastListing, Handling
<1>2. ASSUME NEW p \in {"begin", "list", "pause", "stop"}, Goto(w, p) PROVE ~PastListing(w)'
  <2>1. job'[w] = [job[w] EXCEPT !.pc = p]
    BY <1>2 DEF Goto, TypeOK
  <2>2. job'[w].pc = p
    BY <1>0, <2>1 DEF JobType
  <2> QED
    BY <2>2 DEF PastListing, Handling
<1>3. CASE Take(w)
  <2>1. PICK d \in queue :
          job' = [job EXCEPT ![w] = [IdleJob EXCEPT !.pc = "queued", !.of = d]]
    BY <1>3 DEF Take
  <2>2. job'[w] = [IdleJob EXCEPT !.pc = "queued", !.of = d]
    BY <2>1 DEF TypeOK
  <2>3. job'[w].pc = "queued"
    BY <2>2 DEF IdleJob
  <2> QED
    BY <2>3 DEF PastListing, Handling
<1>4. CASE Finish(w)
  <2>1. job'[w] = IF Ghost(w) THEN IdleJob
                    ELSE [IdleJob EXCEPT !.pc = "pause", !.of = job[w].of]
    BY <1>4 DEF Finish, TypeOK
  <2>2. job'[w].pc \in {"idle", "pause"}
    BY <2>1 DEF IdleJob
  <2> QED
    BY <2>2 DEF PastListing, Handling
<1>5. CASE TakeLock(w) \/ beginFinalization(w) \/ ListFails(w)
  BY <1>1, <1>2, <1>5 DEF TakeLock, beginFinalization, ListFails, Succeeds
<1>6. CASE Pause(w) \/ Stop(w) \/ Crash(w)
  BY <1>1, <1>2, <1>6 DEF Pause, Stop, Crash, Succeeds, Throws
<1> QED
  BY <1>3, <1>4, <1>5, <1>6

-----------------------------------------------------------------------------
(* The counts. *)

(* A verdict records nothing new. *)
LEMMA VerdictRecords ==
  ASSUME TypeOK, OperationsAreTrue, NEW o \in Outputs, NEW result \in {"verified", "failed"},
         settleArtifactVerification(o, result)
  PROVE  Recorded' = Recorded
<1>1. CASE UNCHANGED ops
  BY <1>1 DEF Recorded
<1>2. CASE ops' # ops
  <2>1. PICK op : ops' = [ops EXCEPT ![o] = op] /\ op.status # "absent"
    BY <1>2, VerifyOps
  <2>2. o \in Recorded
    BY <1>2, VerifyOps DEF OperationsAreTrue
  <2> QED
    BY <2>1, <2>2, OpsRecorded
<1> QED
  BY <1>1, <1>2

(* Steps other than those of a publication record nothing. *)
LEMMA RecordedStays ==
  ASSUME TypeOK, Next, OperationsAreTrue, \A w \in Workers : ~Publishes(w)
  PROVE  Recorded' = Recorded
<1>1. CASE UNCHANGED ops
  BY <1>1 DEF Recorded
<1>2. CASE Verify
  BY <1>2, VerdictRecords DEF Verify, Verdict
<1> QED
  BY <1>1, <1>2, QuietSteps

(* The publication of an output records it before it counts as handled. *)
LEMMA HandledIsRecorded ==
  ASSUME TypeOK, TypeOK', NEW w \in Workers, JobMatchesRows(w), Publishes(w), Clean',
         PastListing(w), 
         Recorded \cap job[w].prior = {} \/ Handled(w) \subseteq Recorded
  PROVE  Recorded' \cap job'[w].prior = {} \/ Handled(w)' \subseteq Recorded'
<1> DEFINE j == job[w]
           k == job'[w]
<1>0. j \in JobType /\ 0 \notin Outputs
  BY FinalizationAssumption DEF TypeOK
<1>1. ASSUME NEW o \in Outputs, Read(w, o) PROVE Recorded' = Recorded /\ k.prior = j.prior
                                                 /\ Handled(w)' = Handled(w)
  <2>0. j.pc = "read" /\ o \in j.todo
    BY <1>1 DEF Read
  <2>a. j.cur = 0
    BY <2>0 DEF JobMatchesRows, Handling
  <2>b. Recorded' = Recorded
    BY <1>1 DEF Read, Recorded
  <2>1. CASE o \in j.prior
    <3>1. k = [j EXCEPT !.todo = j.todo \ {o}]
      BY <1>1, <2>1 DEF Read, TypeOK
    <3>2. k.todo = j.todo \ {o} /\ k.prior = j.prior /\ k.cur = 0
      BY <1>0, <2>a, <3>1 DEF JobType
    <3> QED
      BY <2>1, <2>a, <2>b, <3>2 DEF Handled
  <2>2. CASE o \notin j.prior
    <3>1. k = [j EXCEPT !.todo = j.todo \ {o}, !.cur = o, !.pc = "start"]
      BY <1>1, <2>2 DEF Read, TypeOK
    <3>2. k.todo = j.todo \ {o} /\ k.prior = j.prior /\ k.cur = o
      BY <1>0, <3>1 DEF JobType
    <3> QED
      BY <1>0, <2>0, <2>a, <2>b, <3>2 DEF Handled
  <2> QED
    BY <2>1, <2>2
<1>2. ASSUME NEW o \in Outputs, ReadFails(w, o)
      PROVE  Recorded' \cap k.prior = {} \/ Handled(w)' \subseteq Recorded'
  <2>1. k = [j EXCEPT !.todo = j.todo \ {o}, !.failures = j.failures + 1]
    BY <1>2 DEF ReadFails, TypeOK
  <2>2. k.todo = j.todo \ {o} /\ k.prior = j.prior /\ k.cur = j.cur
    BY <1>0, <2>1 DEF JobType
  <2>3. Recorded' = Recorded
    BY <1>2 DEF ReadFails, Recorded
  <2>4. Handled(w)' \subseteq Handled(w) \cup ({o} \ j.prior)
    BY <2>2 DEF Handled
  <2>5. ~Uncounted(w, o)
    BY <1>2, ReadFailsFaults DEF Clean
  <2> QED
    BY <2>2, <2>3, <2>4, <2>5 DEF Uncounted
<1>3. ASSUME j.pc \in Handling, ~(\E o \in Outputs : Read(w, o) \/ ReadFails(w, o))
      PROVE  Recorded' \cap k.prior = {} \/ Handled(w)' \subseteq Recorded'
  <2>0. j.cur \in Outputs /\ j.cur \notin j.prior
    BY <1>3 DEF JobMatchesRows
  <2>1. Recorded' = Recorded \/ Recorded' = Recorded \cup {j.cur}
    <3>1. CASE UNCHANGED ops
      BY <3>1 DEF Recorded
    <3>2. CASE ops' # ops
      <4>1. PICK op : ops' = [ops EXCEPT ![j.cur] = op] /\ op.status # "absent"
        BY <3>2, PublishOps
      <4> QED
        BY <2>0, <4>1, OpsRecorded
    <3> QED
      BY <3>1, <3>2
  <2>2. k.prior = j.prior /\ k.todo = j.todo
        /\ (k.cur = j.cur \/ (k.cur = 0 /\ j.pc # "start"))
    <3>1. ASSUME NEW p, Goto(w, p) PROVE k.prior = j.prior /\ k.todo = j.todo /\ k.cur = j.cur
      <4>1. k = [j EXCEPT !.pc = p]
        BY <3>1 DEF Goto, TypeOK
      <4> QED
        BY <1>0, <4>1 DEF JobType
    <3>2. CASE failArtifactOperation(w)
      <4>1. k = [j EXCEPT !.pc = "read", !.cur = 0, !.failures = j.failures + 1]
        BY <3>2 DEF failArtifactOperation, TypeOK
      <4>2. j.pc # "start"
        BY <3>2 DEF failArtifactOperation
      <4> QED
        BY <1>0, <4>1, <4>2 DEF JobType
    <3>3. ASSUME NEW v, Completed(w, v), j.pc # "start"
          PROVE  k.prior = j.prior /\ k.todo = j.todo /\ k.cur = 0
      <4>1. k = [j EXCEPT !.pc = "read", !.cur = 0, !.saw = "none",
                          !.results = j.results + 1]
        BY <3>3 DEF Completed, TypeOK
      <4> QED
        BY <1>0, <4>1 DEF JobType
    <3>4. CASE CompleteWaits(w)
      <4>1. k = [j EXCEPT !.pc = "waits", !.saw = blob[j.cur]]
        BY <3>4 DEF CompleteWaits, TypeOK
      <4> QED
        BY <1>0, <4>1 DEF JobType
    <3>5. CASE \/ recordArtifactOperationStart(w) \/ recordArtifactOperationStorage(w)
               \/ persistOutput(w)
      BY <3>1, <3>5 DEF recordArtifactOperationStart, recordArtifactOperationStorage,
        persistOutput
    <3>6. CASE completeArtifactOperation(w)
      BY <3>3, <3>6 DEF completeArtifactOperation
    <3>7. CASE CompleteResumes(w)
      BY <3>3, <3>7 DEF CompleteResumes
    <3>8. ~List(w)
      BY <1>3 DEF List, Handling
    <3> QED
      BY <1>3, <3>2, <3>4, <3>5, <3>6, <3>7, <3>8 DEF Publishes
  <2>3. j.pc # "start" => j.cur \in Recorded
    BY <1>3 DEF JobMatchesRows
  <2>4. \/ Handled(w)' = Handled(w)
        \/ Handled(w)' \subseteq Handled(w) \cup {j.cur} /\ j.cur \in Recorded
    BY <2>2, <2>3 DEF Handled
  <2> QED
    BY <2>0, <2>1, <2>2, <2>4
<1>4. j.pc \in Handling \/ j.pc = "read"
  BY DEF PastListing
<1>5. ASSUME j.pc = "read", ~(\E o \in Outputs : Read(w, o) \/ ReadFails(w, o)) PROVE FALSE
  BY <1>5 DEF Publishes, List, recordArtifactOperationStart, recordArtifactOperationStorage,
    persistOutput, failArtifactOperation, completeArtifactOperation, CompleteWaits,
    CompleteResumes
<1> QED
  BY <1>1, <1>2, <1>3, <1>4, <1>5

(* Every step keeps the count of an attempt in order. *)
LEMMA AttemptStep ==
  ASSUME TypeOK, TypeOK', Next, \A w \in Workers : JobMatchesRows(w), OperationsAreTrue,
         RunningIsPublished, AttemptCounts
  PROVE  AttemptCounts'
<1> SUFFICES ASSUME Clean', NEW w \in Workers, PastListing(w)'
             PROVE  Recorded' \cap job'[w].prior = {} \/ Handled(w)' \subseteq Recorded'
  BY DEF AttemptCounts
<1>0. Clean
  BY CleanWas
<1>1. ASSUME Publishes(w) PROVE Recorded' \cap job'[w].prior = {}
                                \/ Handled(w)' \subseteq Recorded'
  <2>1. CASE PastListing(w)
    BY <1>0, <1>1, <2>1, HandledIsRecorded DEF AttemptCounts
  <2>2. CASE ~PastListing(w)
    <3>1. List(w)
      BY <1>1, <2>2 DEF Publishes, PastListing, Handling, Read, ReadFails,
        recordArtifactOperationStart, recordArtifactOperationStorage, persistOutput,
        failArtifactOperation, completeArtifactOperation, CompleteWaits, CompleteResumes
    <3> DEFINE P == {o \in Outputs : blob[o] = "verified"}
    <3>2. job'[w] = [job[w] EXCEPT !.pc = "read", !.todo = Outputs, !.prior = P]
      BY <3>1 DEF List, TypeOK
    <3> HIDE DEF P
    <3>3. job'[w].todo = Outputs
      BY <3>2 DEF TypeOK, JobType
    <3> QED
      BY <3>3 DEF Handled
  <2> QED
    BY <2>1, <2>2
<1>2. ASSUME job'[w] = job[w], Recorded' = Recorded
      PROVE  Recorded' \cap job'[w].prior = {} \/ Handled(w)' \subseteq Recorded'
  BY <1>0, <1>2 DEF AttemptCounts, PastListing, Handled
<1>3. ASSUME NEW x \in Workers, x # w, Publishes(x) PROVE FALSE
  <2>1. Publishing(x)
    BY <1>3, PublishesFrame
  <2>2. job'[w] = job[w]
    BY <1>3, OneJobMoves DEF JobStep, Publishes
  <2>3. Publishing(w)
    BY <2>2 DEF PastListing, Publishing, Handling
  <2> QED
    BY <1>0, <1>3, <2>1, <2>3, OnePublisher
<1>4. ASSUME \A x \in Workers : ~Publishes(x)
      PROVE  Recorded' \cap job'[w].prior = {} \/ Handled(w)' \subseteq Recorded'
  <2>0. Recorded' = Recorded
    BY <1>4, RecordedStays
  <2>1. CASE job'[w] = job[w]
    BY <1>2, <2>0, <2>1
  <2>2. ASSUME job'[w] # job[w] PROVE FALSE
    <3>0. \A x \in Workers : ~Timeout(x)
      BY FaultStays DEF Timeout, Clean
    <3>1. \/ Take(w) \/ TakeLock(w) \/ beginFinalization(w) \/ ListFails(w) \/ Finish(w)
          \/ Pause(w) \/ Stop(w) \/ Crash(w)
      BY <1>4, <2>2, <3>0, NoJobMoves, OneJobMoves DEF Next, JobStep, Publishes
    <3>2. ~PastListing(w)'
      BY <3>1, <2>2, JobLeaves
    <3> QED
      BY <3>2
  <2> QED
    BY <2>1, <2>2
<1> QED
  BY <1>1, <1>3, <1>4

(* A set of outputs with no more members than one of its subsets. *)
LEMMA CountsAll ==
  ASSUME NEW W, W \subseteq Outputs, NEW D, D \subseteq W,
         Cardinality(W) <= Cardinality(D)
  PROVE  D = W
<1>1. IsFiniteSet(W) /\ Cardinality(W) \in Nat /\ Cardinality(D) \in Nat
  BY CountOf
<1>2. D # W => Cardinality(D) < Cardinality(W)
  BY <1>1, FS_Subset
<1> QED
  BY <1>1, <1>2

(* The counts of smaller sets of outputs. *)
LEMMA CountsLess ==
  ASSUME NEW W, W \subseteq Outputs, NEW D, D \subseteq W
  PROVE  Cardinality(D) <= Cardinality(W)
  BY CountOf, FS_Subset

(* What is done is recorded, and what is recorded is owed. *)
LEMMA DoneIsOwed ==
  /\ Done \subseteq Recorded /\ Recorded \subseteq Owed /\ Owed \subseteq Outputs
  /\ (Done \subseteq Recorded /\ Recorded \subseteq Owed /\ Owed \subseteq Outputs)'
  BY DEF Done, Recorded, Owed

(* Nothing more is owed where nothing is recorded. *)
LEMMA OwedShrinks ==
  ASSUME BlobsStay, Recorded' = Recorded
  PROVE  Owed' \subseteq Owed
  BY DEF BlobsStay, Recorded, Owed

(* A finalization that finishes covers what is owed, and is complete only if *)
(* every output is verified.                                                 *)
LEMMA FinishCovers ==
  ASSUME TypeOK, NEW w \in Workers, JobMatchesRows(w), OperationsAreTrue,
         RunningIsPublished, AttemptCounts, Clean, Finish(w)
  PROVE  /\ Cardinality(Owed') <= fin'.items
         /\ fin'.status = "complete" => \A o \in Outputs : blob'[o] = "verified"
<1> DEFINE j == job[w]
<1>0. j \in JobType /\ 0 \notin Outputs
  BY FinalizationAssumption DEF TypeOK
<1>1. j.pc = "read" /\ j.todo = {} /\ UNCHANGED <<ops, blob>>
  BY DEF Finish
<1>2. j.cur = 0 /\ PastListing(w) /\ Publishing(w)
  BY <1>1 DEF JobMatchesRows, Handling, PastListing, Publishing
<1>3. Handled(w) = Outputs \ j.prior
  BY <1>0, <1>1, <1>2 DEF Handled
<1>4. fin' = finishFinalization(w)
  BY <1>2, OnePublisher DEF Finish
<1>5. /\ j.results + j.failures <= fin'.items /\ Cardinality(Recorded) <= fin'.items
      /\ fin'.items \in Nat
      /\ fin'.status = "complete" => fin'.items = 0 \/ Cardinality(Done) = fin'.items
  BY <1>4, FinishOutcome DEF FinTyped
<1>6. /\ Cardinality(Handled(w)) <= j.results + j.failures
      /\ \A o \in j.prior : blob[o] = "verified"
  BY <1>2 DEF JobMatchesRows
<1>7. Owed \subseteq Handled(w) \/ Owed \subseteq Recorded
  <2>1. Recorded \cap j.prior = {} \/ Handled(w) \subseteq Recorded
    BY <1>2 DEF AttemptCounts
  <2>2. CASE Recorded \cap j.prior = {}
    BY <1>3, <1>6, <2>2 DEF Owed, Recorded
  <2>3. CASE Handled(w) \subseteq Recorded
    BY <1>3, <1>6, <2>3 DEF Owed, Recorded
  <2> QED
    BY <2>1, <2>2, <2>3
<1>8. /\ Cardinality(Owed) \in Nat /\ Cardinality(Handled(w)) \in Nat
      /\ Cardinality(Recorded) \in Nat /\ j.results + j.failures \in Nat
  <2>1. Cardinality(Owed) \in Nat
    BY CountOf DEF Owed
  <2>2. Cardinality(Handled(w)) \in Nat
    BY CountOf DEF Handled
  <2>3. Cardinality(Recorded) \in Nat
    BY CountOf DEF Recorded
  <2>4. j.results + j.failures \in Nat
    BY <1>0 DEF JobType
  <2> QED
    BY <2>1, <2>2, <2>3, <2>4
<1>9. Cardinality(Owed) <= fin'.items
  <2>1. CASE Owed \subseteq Handled(w)
    <3>1. Cardinality(Owed) <= Cardinality(Handled(w))
      BY <2>1, CountsLess DEF Handled
    <3> QED
      BY <1>5, <1>6, <1>8, <3>1
  <2>2. CASE Owed \subseteq Recorded
    <3>1. Cardinality(Owed) <= Cardinality(Recorded)
      BY <2>2, CountsLess DEF Recorded
    <3> QED
      BY <1>5, <1>8, <3>1
  <2> QED
    BY <1>7, <2>1, <2>2
<1>10. ASSUME fin'.status = "complete" PROVE \A o \in Outputs : blob[o] = "verified"
  <2>1. CASE fin'.items = 0
    <3>1. Cardinality(Owed) = 0
      BY <1>8, <1>9, <2>1
    <3>2. IsFiniteSet(Owed)
      BY CountOf DEF Owed
    <3>3. Owed = {}
      BY <3>1, <3>2, FS_EmptySet
    <3> QED
      BY <3>3 DEF Owed
  <2>2. CASE Cardinality(Done) = fin'.items
    <3>1. Done = Owed
      BY <1>9, <2>2, DoneIsOwed, CountsAll
    <3> QED
      BY <3>1 DEF Owed, OperationsAreTrue
  <2> QED
    BY <1>5, <1>10, <2>1, <2>2
<1>11. Owed' = Owed
  BY <1>1 DEF Owed
<1> QED
  BY <1>1, <1>9, <1>10, <1>11

(* A verdict leaves the items covering what is owed, and completes only a    *)
(* finalization whose outputs are all verified.                              *)
LEMMA VerifyCovers ==
  ASSUME TypeOK, Next, OperationsAreTrue, OperationsAreTrue', RunningIsPublished,
         ItemsCoverOwed, CompleteMeansPublished, \A w \in Workers : JobMatchesRows(w),
         Clean, NEW o \in Outputs, NEW result \in {"verified", "failed"},
         settleArtifactVerification(o, result)
  PROVE  /\ (Recorded' # {} /\ \A w \in Workers : ~PastListing(w)')
              => Cardinality(Owed') <= fin'.items
         /\ fin'.status = "complete" => \A x \in Outputs : blob'[x] = "verified"
<1>0. UNCHANGED job
  BY DEF settleArtifactVerification
<1>1. BlobsStay
  BY RowsGrow
<1>3. Recorded' = Recorded
  BY VerdictRecords
<1>4. Owed' \subseteq Owed /\ Owed \subseteq Outputs /\ Owed' \subseteq Outputs
  BY <1>1, <1>3, OwedShrinks DEF Owed
<1>5. /\ Cardinality(Owed') <= Cardinality(Owed)
      /\ Cardinality(Owed) \in Nat /\ Cardinality(Owed') \in Nat
  BY <1>4, CountsLess, CountOf
<1>6. fin.items \in Nat
  BY DEF TypeOK
<1>7. CASE UNCHANGED <<ops, fin>>
  <2>1. (Recorded # {} /\ \A w \in Workers : ~PastListing(w))
              => Cardinality(Owed) <= fin.items
    BY DEF ItemsCoverOwed
  <2>2. \A w \in Workers : PastListing(w)' <=> PastListing(w)
    BY <1>0 DEF PastListing
  <2>3. fin.status = "complete" => \A x \in Outputs : blob[x] = "verified"
    BY DEF CompleteMeansPublished
  <2> QED
    BY <1>1, <1>3, <1>5, <1>6, <1>7, <2>1, <2>2, <2>3 DEF BlobsStay
<1>8. CASE ~UNCHANGED <<ops, fin>>
  <2> DEFINE after == SettledOps(o, result)
             done == {x \in Outputs : after[x].status = "complete"
                                      /\ after[x].check = "verified"}
  <2>1. ops' = after /\ fin' = Recounted(after) /\ (ops[o].file \/ ops[o].receipt)
    BY <1>8, VerifyOps
  <2>2. /\ FinTyped(Recounted(after)) /\ fin.items <= Recounted(after).items
        /\ fin.status = "running" <=> Recounted(after).status = "running"
        /\ Recounted(after).status = "complete" => Cardinality(done) = Recounted(after).items
    BY RecountOutcome
  <2>3. done = Done'
    BY <2>1 DEF Done
  <2> HIDE DEF after, done
  <2>4. /\ fin'.items \in Nat /\ fin.items <= fin'.items
        /\ fin'.status = "complete" => fin.status # "running" /\ Cardinality(Done') = fin'.items
    BY <2>1, <2>2, <2>3 DEF FinTyped
  <2>5. o \in Recorded
    BY <2>1 DEF OperationsAreTrue
  <2>6. ASSUME \A w \in Workers : ~PastListing(w) PROVE Cardinality(Owed') <= fin'.items
    <3>1. Cardinality(Owed) <= fin.items
      BY <2>5, <2>6 DEF ItemsCoverOwed
    <3> QED
      BY <1>5, <1>6, <2>4, <3>1
  <2>7. ASSUME fin'.status = "complete" PROVE \A x \in Outputs : blob'[x] = "verified"
    <3>1. \A w \in Workers : ~Publishing(w)
      BY <2>4, <2>7 DEF RunningIsPublished
    <3>2. \A w \in Workers : ~PastListing(w)
      BY <3>1 DEF PastListing, Publishing, Handling
    <3>3. Cardinality(Owed') <= Cardinality(Done')
      BY <2>4, <2>6, <2>7, <3>2
    <3>4. Done' = Owed'
      BY <3>3, DoneIsOwed, CountsAll
    <3> QED
      BY <3>4 DEF Owed, OperationsAreTrue
  <2>8. \A w \in Workers : PastListing(w)' <=> PastListing(w)
    BY <1>0 DEF PastListing
  <2> QED
    BY <2>6, <2>7, <2>8
<1> QED
  BY <1>7, <1>8

(* The other steps neither complete a finalization nor take items from one   *)
(* that has recorded any, unless a skip overwrites it.                       *)
LEMMA OtherFin ==
  ASSUME TypeOK, Next, OperationsAreTrue, Clean', ~Verify,
         \A w \in Workers : ~Finish(w)
  PROVE  /\ fin'.status = "complete" => fin.status = "complete"
         /\ Recorded # {} => fin'.items = fin.items
<1>1. CASE fin' = fin
  BY <1>1
<1>2. CASE \/ Dispatch \/ LoseJob \/ deadLetterExhaustedReceipts \/ NewerRunClaims \/ SuspendLands
  BY <1>1, <1>2 DEF Dispatch, LoseJob, deadLetterExhaustedReceipts, NewerRunClaims, SuspendLands
<1>3. CASE LeaseExpires \/ enqueuePendingFinalizations
  BY <1>3 DEF LeaseExpires, enqueuePendingFinalizations, Reclaimed, TypeOK
<1>4. ASSUME NEW w \in Workers,
             \/ Publishes(w) \/ Take(w) \/ Pause(w) \/ Stop(w) \/ Timeout(w) \/ Crash(w)
      PROVE  fin' = fin
  BY <1>4, PublishesFrame DEF Take, Pause, Stop, Timeout, Crash
<1>5. ASSUME NEW w \in Workers, ListFails(w)
      PROVE  /\ fin'.status = "complete" => fin.status = "complete"
             /\ fin'.items = fin.items
  BY <1>5 DEF ListFails, failFinalization, TypeOK
<1>6. ASSUME NEW w \in Workers, beginFinalization(w)
      PROVE  /\ fin'.status = "complete" => fin.status = "complete"
             /\ fin'.items = fin.items
  BY <1>6 DEF beginFinalization, TypeOK
<1>7. ASSUME NEW w \in Workers, TakeLock(w)
      PROVE  /\ fin'.status = "complete" => fin.status = "complete"
             /\ Recorded # {} => fin'.items = fin.items
  <2>1. CASE fin' = fin
    BY <2>1
  <2>2. CASE MustSkip /\ Skippable
    <3>1. ASSUME NEW s \in BOOLEAN
          PROVE  [fin EXCEPT !.status = "skipped", !.items = 0, !.settled = s,
                             !.owner = "none", !.lease = "none"].status = "skipped"
      BY DEF TypeOK
    <3>2. [fin EXCEPT !.status = "skipped", !.items = 0, !.settled = TRUE,
                      !.owner = "none", !.lease = "none"].status = "skipped"
      BY <3>1, Zenon
    <3>3. fin' = [fin EXCEPT !.status = "skipped", !.items = 0, !.settled = TRUE,
                             !.owner = "none", !.lease = "none"]
      BY <1>7, <2>2 DEF TakeLock, skipFinalization
    <3>4. fin'.status = "skipped"
      BY <3>2, <3>3, Zenon
    <3>5. ~Overwrites
      <4>1. Overwrites \in BOOLEAN /\ faults' = Marked("overwritten", Overwrites)
        BY <1>7, <2>2 DEF TakeLock, Overwrites
      <4>2. Overwrites => faults'.marks = faults.marks \cup {"overwritten"}
        BY <4>1, MarkStays
      <4> QED
        BY <4>2 DEF Clean
    <3>6. Recorded = {}
      BY <2>2, <3>5 DEF Overwrites, OperationsAreTrue
    <3> QED
      BY <3>4, <3>6
  <2> QED
    BY <1>7, <2>1, <2>2 DEF TakeLock, skipFinalization
<1> QED
  BY <1>1, <1>2, <1>3, <1>4, <1>5, <1>6, <1>7 DEF Next, JobStep, Publishes

(* After every step the items cover what is owed, and a complete             *)
(* finalization has every output verified.                                   *)
LEMMA CountsStep ==
  ASSUME TypeOK, TypeOK', Next, \A w \in Workers : JobMatchesRows(w), OperationsAreTrue,
         OperationsAreTrue', RunningIsPublished, AttemptCounts, ItemsCoverOwed,
         CompleteMeansPublished
  PROVE  ItemsCoverOwed' /\ CompleteMeansPublished'
<1> SUFFICES ASSUME Clean'
             PROVE  /\ (Recorded' # {} /\ \A w \in Workers : ~PastListing(w)')
                         => Cardinality(Owed') <= fin'.items
                    /\ fin'.status = "complete" => \A o \in Outputs : blob'[o] = "verified"
  BY DEF ItemsCoverOwed, CompleteMeansPublished
<1>0. Clean
  BY CleanWas
<1>1. CASE Verify
  <2>1. PICK o \in Outputs, result \in {"verified", "failed"} :
          settleArtifactVerification(o, result)
    BY <1>1 DEF Verify, Verdict
  <2> QED
    BY <1>0, <2>1, VerifyCovers
<1>2. ASSUME NEW w \in Workers, Finish(w)
      PROVE  /\ Cardinality(Owed') <= fin'.items
             /\ fin'.status = "complete" => \A o \in Outputs : blob'[o] = "verified"
  BY <1>0, <1>2, FinishCovers
<1>3. ASSUME ~Verify, \A w \in Workers : ~Finish(w)
      PROVE  /\ (Recorded' # {} /\ \A w \in Workers : ~PastListing(w)')
                  => Cardinality(Owed') <= fin'.items
             /\ fin'.status = "complete" => \A o \in Outputs : blob'[o] = "verified"
  <2>1. /\ fin'.status = "complete" => fin.status = "complete"
        /\ Recorded # {} => fin'.items = fin.items
    BY <1>3, OtherFin
  <2>2. BlobsStay
    BY RowsGrow
  <2>3. fin'.status = "complete" => \A o \in Outputs : blob'[o] = "verified"
    BY <1>0, <2>1, <2>2 DEF CompleteMeansPublished, BlobsStay
  <2>4. ASSUME Recorded' # {}, \A w \in Workers : ~PastListing(w)'
        PROVE  Cardinality(Owed') <= fin'.items
    <3>1. ASSUME NEW w \in Workers, Publishes(w) PROVE FALSE
      <4>1. PICK j : job' = [job EXCEPT ![w] = j] /\ j.pc \in Handling \cup {"read"}
        BY <3>1, PublishesFrame
      <4>2. PastListing(w)'
        BY <4>1 DEF PastListing, TypeOK
      <4> QED
        BY <2>4, <4>2
    <3>2. Recorded' = Recorded
      BY <3>1, RecordedStays
    <3>3. \A w \in Workers : ~PastListing(w)
      <4> SUFFICES ASSUME NEW w \in Workers, PastListing(w) PROVE FALSE
        OBVIOUS
      <4>1. job'[w] # job[w]
        BY <2>4 DEF PastListing
      <4>0. \A x \in Workers : ~Timeout(x)
        BY FaultStays DEF Timeout, Clean
      <4>2. Take(w) \/ JobStep(w) \/ Crash(w)
        BY <4>0, <4>1, NoJobMoves, OneJobMoves DEF Next
      <4>3. CASE Crash(w)
        BY <4>3, FaultStays DEF Crash, Clean
      <4>4. CASE Take(w) \/ JobStep(w)
        BY <1>3, <3>1, <4>4 DEF JobStep, Publishes, PastListing, Handling, Take, TakeLock,
          beginFinalization, ListFails, Pause, Stop
      <4> QED
        BY <4>2, <4>3, <4>4
    <3>4. Cardinality(Owed) <= fin.items
      BY <1>0, <2>4, <3>2, <3>3 DEF ItemsCoverOwed
    <3>5. /\ Cardinality(Owed') <= Cardinality(Owed)
          /\ Cardinality(Owed) \in Nat /\ Cardinality(Owed') \in Nat
      <4>1. Owed' \subseteq Owed /\ Owed \subseteq Outputs /\ Owed' \subseteq Outputs
        BY <2>2, <3>2, OwedShrinks DEF Owed
      <4> QED
        BY <4>1, CountsLess, CountOf
    <3>6. fin.items \in Nat /\ fin'.items = fin.items
      BY <2>1, <2>4, <3>2 DEF TypeOK
    <3> QED
      BY <3>4, <3>5, <3>6
  <2> QED
    BY <2>3, <2>4
<1> QED
  BY <1>1, <1>2, <1>3

-----------------------------------------------------------------------------
(* Every step keeps the types. *)
LEMMA TypeStep ==
  ASSUME TypeOK, Next, \A w \in Workers : JobMatchesRows(w)
  PROVE  TypeOK'
<1>1. CASE \/ Dispatch \/ LoseJob \/ deadLetterExhaustedReceipts \/ LeaseExpires
           \/ enqueuePendingFinalizations \/ NewerRunClaims \/ SuspendLands
  BY <1>1, TypeOutbox
<1>2. CASE Verify
  BY <1>2, TypeVerify DEF Verify, Verdict
<1>3. ASSUME NEW w \in Workers, Take(w) \/ JobStep(w) \/ Timeout(w) \/ Crash(w)
      PROVE  TypeOK'
  <2>1. CASE Take(w) \/ TakeLock(w) \/ beginFinalization(w)
    BY <2>1, TypeBegin
  <2>2. CASE List(w) \/ ListFails(w) \/ \E o \in Outputs : Read(w, o) \/ ReadFails(w, o)
    BY <2>2, TypeRead
  <2>3. CASE \/ recordArtifactOperationStart(w) \/ recordArtifactOperationStorage(w)
             \/ persistOutput(w) \/ failArtifactOperation(w)
             \/ completeArtifactOperation(w) \/ CompleteWaits(w) \/ CompleteResumes(w)
    BY <2>3, TypePublish
  <2>4. CASE Finish(w) \/ Pause(w) \/ Stop(w) \/ Timeout(w) \/ Crash(w)
    BY <2>4, TypeEnd
  <2> QED
    BY <1>3, <2>1, <2>2, <2>3, <2>4 DEF JobStep
<1> QED
  BY <1>1, <1>2, <1>3 DEF Next

(* The invariant holds when the run ends: nothing is recorded or published. *)
LEMMA InvInit == Init => FinalizationInv
<1> SUFFICES ASSUME Init PROVE FinalizationInv
  OBVIOUS
<1>1. TypeOK
  BY TypeInit
<1>2. \A w \in Workers : job[w].pc = "idle" /\ job[w].cur = 0 /\ job[w].prior = {}
  BY DEF Init, IdleJob
<1>3. \A o \in Outputs : ops[o].status = "absent" /\ ~ops[o].file /\ ~ops[o].receipt
  BY DEF Init, NoOp
<1>4. Recorded = {} /\ Done = {}
  BY <1>3 DEF Recorded, Done
<1>5. LockGuards /\ SuspendsExplained /\ NewerRunKeepsSandbox
  BY <1>2, FinalizationAssumption DEF LockGuards, SuspendsExplained, NewerRunKeepsSandbox, Init
<1>6. \A w \in Workers : ~Publishing(w) /\ ~PastListing(w) /\ job[w].pc \notin Handling
  BY <1>2 DEF Publishing, PastListing, Handling
<1>7. \A w \in Workers : JobMatchesRows(w)
  BY <1>2, <1>6 DEF JobMatchesRows, Handling
<1>8. OperationsAreTrue
  BY <1>3, <1>4 DEF OperationsAreTrue
<1>9. RunningIsPublished /\ CompleteMeansPublished
  BY <1>6 DEF RunningIsPublished, CompleteMeansPublished, Init
<1>10. AttemptCounts /\ ItemsCoverOwed
  BY <1>4, <1>6 DEF AttemptCounts, ItemsCoverOwed
<1> QED
  BY <1>1, <1>5, <1>7, <1>8, <1>9, <1>10 DEF FinalizationInv

(* Every step keeps the invariant. *)
LEMMA InvStep == FinalizationInv /\ [Next]_vars => FinalizationInv'
<1>1. ASSUME FinalizationInv, Next PROVE FinalizationInv'
  <2>1. TypeOK'
    BY <1>1, TypeStep DEF FinalizationInv
  <2>2. LockGuards' /\ SuspendsExplained' /\ NewerRunKeepsSandbox'
    BY <1>1, LockStep, SandboxStep DEF FinalizationInv
  <2>3. \A w \in Workers : JobMatchesRows(w)'
    BY <1>1, <2>1, JobsStep DEF FinalizationInv
  <2>4. OperationsAreTrue'
    BY <1>1, <2>1, OperationsStep DEF FinalizationInv
  <2>5. RunningIsPublished'
    BY <1>1, <2>1, RunningStep DEF FinalizationInv
  <2>6. AttemptCounts'
    BY <1>1, <2>1, AttemptStep DEF FinalizationInv
  <2>7. ItemsCoverOwed' /\ CompleteMeansPublished'
    BY <1>1, <2>1, <2>4, CountsStep DEF FinalizationInv
  <2> QED
    BY <2>1, <2>2, <2>3, <2>4, <2>5, <2>6, <2>7 DEF FinalizationInv
<1>2. ASSUME FinalizationInv, UNCHANGED vars PROVE FinalizationInv'
  <2> USE <1>2 DEF vars
  <2>1. TypeOK'
    BY DEF FinalizationInv, TypeOK
  <2>2. LockGuards' /\ SuspendsExplained' /\ NewerRunKeepsSandbox'
    BY DEF FinalizationInv, LockGuards, SuspendsExplained, NewerRunKeepsSandbox
  <2>3. Recorded' = Recorded /\ Done' = Done /\ Owed' = Owed /\ (Clean' <=> Clean)
    BY DEF Recorded, Done, Owed, Clean
  <2>4. \A w \in Workers : /\ Publishing(w)' <=> Publishing(w)
                           /\ PastListing(w)' <=> PastListing(w)
                           /\ Handled(w)' = Handled(w)
    BY DEF Publishing, PastListing, Handled
  <2>5. \A w \in Workers : JobMatchesRows(w)'
    BY <2>3, <2>4 DEF FinalizationInv, JobMatchesRows
  <2>6. OperationsAreTrue'
    BY <2>3 DEF FinalizationInv, OperationsAreTrue
  <2>7. RunningIsPublished'
    BY <2>3, <2>4 DEF FinalizationInv, RunningIsPublished
  <2>8. AttemptCounts' /\ ItemsCoverOwed' /\ CompleteMeansPublished'
    BY <2>3, <2>4 DEF FinalizationInv, AttemptCounts, ItemsCoverOwed, CompleteMeansPublished
  <2> QED
    BY <2>1, <2>2, <2>5, <2>6, <2>7, <2>8 DEF FinalizationInv
<1> QED
  BY <1>1, <1>2

(* The inductive invariant holds in every state, for any outputs, workers,   *)
(* process ids, attempts and number of faults.                               *)
THEOREM Invariance == Spec => []FinalizationInv
  BY InvInit, InvStep, PTL DEF Spec

(* The finalization row, the operations, the outputs, the sandbox, the       *)
(* outbox row and the job executions keep their types; a row that does not   *)
(* run has neither owner nor lease.                                          *)
THEOREM TypeCorrect == Spec => []TypeOK
<1>1. FinalizationInv => TypeOK
  BY DEF FinalizationInv
<1> QED
  BY <1>1, Invariance, PTL

(* snapshot() pauses the sandbox of a run that has taken it over only        *)
(* through a suspend that withTimeout gave up and that takes effect after    *)
(* the lock is free: every other pause is made under the lifecycle lock,     *)
(* after looking for the newer run, however many publications time out,      *)
(* suspends are refused, jobs crash or are delivered twice.                  *)
THEOREM SandboxStaysWithItsRun == Spec => []NewerRunKeepsSandbox
<1>1. FinalizationInv => NewerRunKeepsSandbox
  BY DEF FinalizationInv
<1> QED
  BY <1>1, Invariance, PTL

(* The counts of finishFinalization and settleArtifactVerification hide no   *)
(* output: for any number of outputs, attempts and faults a finalization     *)
(* recorded as complete has every output verified, unless a publication was  *)
(* cut short, overwritten by a skip, or left an output out of its count.     *)
THEOREM CompleteIsPublished == Spec => []CompleteMeansPublished
<1>1. FinalizationInv => CompleteMeansPublished
  BY DEF FinalizationInv
<1> QED
  BY <1>1, Invariance, PTL
=============================================================================
