-------------------------- MODULE TurnFinalization --------------------------
(***************************************************************************)
(* Terminal finalization of one run: the sandbox.snapshot job with reason  *)
(* before-finalize publishes the files left in outputs/, settles the       *)
(* turn_finalizations row and pauses the sandbox                           *)
(* (apps/worker/src/sandbox-continuity.ts), the blob verifier settles the  *)
(* artifact operations (apps/worker/src/file-blobs.ts) and the dispatcher  *)
(* sweep re-enqueues what is unfinished (apps/worker/src/outbox.ts).       *)
(*                                                                         *)
(* The job runs in the transaction that holds the sandbox's advisory lock, *)
(* but the finalization writes go through the pool and commit one by one:  *)
(* an error or a crash undoes the recorded sandbox state and nothing else. *)
(* A snapshot that times out stops the sandbox and gives the lock up while *)
(* its publication goes on in the background (a "ghost"). A suspend that   *)
(* times out is given up the same way, and may still take effect later.    *)
(*                                                                         *)
(* The run is terminal, has a sandbox, and finalization is enabled.        *)
(***************************************************************************)
EXTENDS Naturals, FiniteSets

CONSTANTS
  Outputs,       \* the durable files in outputs/, numbered as they are listed
  Published,     \* those that the run published while it was running
  Workers,       \* job executions; a ghost occupies one until it ends
  Pid,           \* Pid[w]: the process id in w's finalizer name
  MaxAttempts,   \* deliveries of an outbox row before it is dead-lettered
  JobAttempts,   \* BullMQ attempts of one delivery
  MaxFaults      \* model bound: faults of all kinds together

(* abandoned: a suspend given up by its timeout, still under way; archive:   *)
(* the capture, upload or record of the archive failed or timed out;         *)
(* overtaken: a verifier of a blob that another one has verified fails.      *)
Faults == {"lost", "late", "crash", "timeout", "list", "read", "publish",
           "suspend", "abandoned", "archive", "overtaken", "wait"}

(* slow: a publication in the background outlived its lease; overwritten: a  *)
(* skip set a finalization that had begun back to no items; uncounted: an    *)
(* output without an operation could not be read by a later attempt, which   *)
(* does not count the outputs published before it.                           *)
Marks == {"slow", "overwritten", "uncounted"}

Statuses == {"pending", "running", "complete", "partial", "failed", "skipped"}

ASSUME FinalizationAssumption ==
  /\ Outputs \subseteq Nat \ {0} /\ Published \subseteq Outputs
  /\ IsFiniteSet(Outputs) /\ IsFiniteSet(Workers) /\ "free" \notin Workers
  /\ MaxAttempts \in Nat \ {0} /\ JobAttempts \in Nat \ {0}
  /\ MaxFaults \in Nat

VARIABLES
  fin,      \* the turn_finalizations row
  ops,      \* artifact_operations of the run, one per relative path
  blob,     \* the stored output: none, or its verification status
  sandbox,  \* recorded on the run / really / a suspend nobody waits for /
            \* claimed by a newer run
  row,      \* the newest before-finalize outbox row
  queue,    \* deliveries waiting in BullMQ
  job,      \* the job executions
  lock,     \* holder of the sandbox lifecycle lock, or "free"
  faults    \* history: how many faults, of which kinds, and the marks

vars == <<fin, ops, blob, sandbox, row, queue, job, lock, faults>>

NoOp == [status |-> "absent", check |-> "none", file |-> FALSE, receipt |-> FALSE]
NoDelivery == [key |-> 0, epoch |-> 0, tries |-> 0]
IdleJob == [pc |-> "idle", of |-> NoDelivery, todo |-> {}, cur |-> 0, prior |-> {},
            results |-> 0, failures |-> 0, saw |-> "none"]

\* One delivery of a row: its key, the epoch of the claim (the row's attempts)
\* and which BullMQ attempt it is.
Delivery == [key: Nat, epoch: Nat, tries: Nat]

OpType == [status: {"absent", "pending", "staged", "complete", "failed"},
           check: {"none", "pending", "verified", "failed"},
           file: BOOLEAN, receipt: BOOLEAN]

Verdicts == {"none", "unverified", "verified", "failed"}

JobType ==
  [pc: {"idle", "queued", "begin", "list", "read", "start", "store", "persist",
        "complete", "waits", "pause", "stop"},
   of: Delivery, todo: SUBSET Outputs, cur: Outputs \cup {0},
   prior: SUBSET Outputs, results: Nat, failures: Nat, saw: Verdicts]

TypeOK ==
  /\ fin \in [status: Statuses, owner: {"none"} \cup {Pid[w] : w \in Workers},
              lease: {"none", "held", "expired"}, attempt: Nat,
              items: Nat, settled: BOOLEAN]
  /\ fin.status # "running" => fin.owner = "none" /\ fin.lease = "none"
  /\ ops \in [Outputs -> OpType]
  /\ blob \in [Outputs -> Verdicts]
  /\ sandbox \in [recorded: {"running", "pause_requested", "paused"},
                  paused: BOOLEAN, inflight: BOOLEAN, newer: BOOLEAN]
  /\ row \in [open: BOOLEAN, attempts: 0..MaxAttempts, key: Nat]
  /\ queue \subseteq Delivery
  /\ job \in [Workers -> JobType]
  /\ lock \in Workers \cup {"free"}
  /\ faults \in [spent: 0..MaxFaults, kinds: SUBSET Faults, marks: SUBSET Marks]

(* The terminal commit inserted the finalization row and the snapshot row.   *)
(* An output that is already published is a file whose blob is unverified.   *)
Init ==
  /\ fin = [status |-> "pending", owner |-> "none", lease |-> "none",
            attempt |-> 0, items |-> 0, settled |-> FALSE]
  /\ ops = [o \in Outputs |-> NoOp]
  /\ blob = [o \in Outputs |-> IF o \in Published THEN "unverified" ELSE "none"]
  /\ sandbox = [recorded |-> "running", paused |-> FALSE, inflight |-> FALSE,
                newer |-> FALSE]
  /\ row = [open |-> TRUE, attempts |-> 0, key |-> 0]
  /\ queue = {}
  /\ job = [w \in Workers |-> IdleJob]
  /\ lock = "free"
  /\ faults = [spent |-> 0, kinds |-> {}, marks |-> {}]

Marked(m, holds) ==
  [faults EXCEPT !.marks = IF holds THEN @ \cup {m} ELSE @]

Fault(f) ==
  /\ faults.spent < MaxFaults
  /\ faults' = [faults EXCEPT !.spent = @ + 1, !.kinds = @ \cup {f}]

Goto(w, pc) == job' = [job EXCEPT ![w].pc = pc]

-----------------------------------------------------------------------------
(* The outbox row: dispatch, loss, dead letter. RuntimeOutbox has the detail. *)

Waiting == \E d \in queue : d.key = row.key /\ d.epoch = row.attempts

(* The receipt is due while the delivery still waits only if it is late. *)
ReceiptOverdue == IF Waiting THEN Fault("late") ELSE UNCHANGED faults

(* prepare() marks the sandbox before the job is queued. *)
Dispatch ==
  /\ row.open /\ row.attempts < MaxAttempts /\ ReceiptOverdue
  /\ row' = [row EXCEPT !.attempts = @ + 1]
  /\ queue' = queue \cup {[key |-> row.key, epoch |-> row.attempts + 1, tries |-> 1]}
  /\ sandbox' = [sandbox EXCEPT !.recorded =
                   IF @ = "running" THEN "pause_requested" ELSE @]
  /\ UNCHANGED <<fin, ops, blob, job, lock>>

LoseJob ==
  /\ Fault("lost")
  /\ \E d \in queue : queue' = queue \ {d}
  /\ UNCHANGED <<fin, ops, blob, sandbox, row, job, lock>>

deadLetterExhaustedReceipts ==
  /\ row.open /\ row.attempts >= MaxAttempts /\ ReceiptOverdue
  /\ row' = [row EXCEPT !.open = FALSE]
  /\ UNCHANGED <<fin, ops, blob, sandbox, queue, job, lock>>

Publishing(w) == job[w].pc \in {"list", "read", "start", "store", "persist", "complete", "waits"}

Ghost(w) == lock # w

(* The five-minute lease outlives the two-minute snapshot: it ends under a   *)
(* finalizer only if that is a ghost, and a slow one.                        *)
LeaseExpires ==
  /\ fin.lease = "held"
  /\ \A w \in Workers : Publishing(w) => Ghost(w)
  /\ faults' = Marked("slow", \E w \in Workers : Publishing(w))
  /\ fin' = [fin EXCEPT !.lease = "expired"]
  /\ UNCHANGED <<ops, blob, sandbox, row, queue, job, lock>>

Reclaimed ==
  IF fin.status = "running" /\ fin.lease = "expired"
    THEN [fin EXCEPT !.status = "pending", !.owner = "none", !.lease = "none"]
    ELSE fin

Unsettled(f) ==
  /\ f.status \in {"pending", "failed", "partial"}
  /\ \A o \in Outputs : ops[o].check \notin {"pending", "failed"}

(* The dedupe key carries the attempt: the same key reopens the same row and *)
(* keeps its attempts, a new key is a new row.                               *)
Reopened ==
  IF row.key = fin.attempt + 1
    THEN [row EXCEPT !.open = TRUE]
    ELSE [open |-> TRUE, attempts |-> 0, key |-> fin.attempt + 1]

enqueuePendingFinalizations ==
  /\ fin' = Reclaimed
  /\ row' = IF Unsettled(Reclaimed) /\ ~row.open THEN Reopened ELSE row
  /\ <<fin, row>>' # <<fin, row>>
  /\ UNCHANGED <<ops, blob, sandbox, queue, job, lock, faults>>

-----------------------------------------------------------------------------
(* The job. *)

(* processBerryWorkerJob acknowledges the delivery when the job starts: the  *)
(* receipt closes the row it was claimed from, and the sweep may open the    *)
(* next one before this job has begun.                                       *)
Take(w) ==
  /\ job[w].pc = "idle"
  /\ \E d \in queue :
       /\ queue' = queue \ {d}
       /\ row' = IF d.key = row.key /\ d.epoch = row.attempts
                   THEN [row EXCEPT !.open = FALSE] ELSE row
       /\ job' = [job EXCEPT ![w] = [IdleJob EXCEPT !.pc = "queued", !.of = d]]
  /\ UNCHANGED <<fin, ops, blob, sandbox, lock, faults>>

Succeeds(w) ==
  /\ job' = [job EXCEPT ![w] = IdleJob]
  /\ lock' = "free"
  /\ UNCHANGED queue

Requeued(w) ==
  IF job[w].of.tries < JobAttempts
    THEN queue \cup {[job[w].of EXCEPT !.tries = @ + 1]}
    ELSE queue

(* The job's transaction rolls back and BullMQ runs the job again. *)
Throws(w) ==
  /\ job' = [job EXCEPT ![w] = IdleJob]
  /\ queue' = Requeued(w)
  /\ lock' = "free"

SkippableOnceStarted ==   \* mutant: a finalization nobody began is not skipped
  fin.status \in {"failed", "partial"}

Skippable ==
  \/ fin.status \in {"pending", "failed", "partial"}
  \/ fin.status = "running" /\ fin.lease # "held"

MustSkipPausedOnly ==     \* mutant: the newer run is not looked for
  sandbox.recorded = "paused"

MustSkip == sandbox.newer \/ sandbox.recorded = "paused"

skipFinalization ==
  fin' = IF Skippable
           THEN [fin EXCEPT !.status = "skipped", !.items = 0, !.settled = TRUE,
                            !.owner = "none", !.lease = "none"]
           ELSE fin

Overwrites == Skippable /\ fin.attempt > 0

TakeLock(w) ==
  /\ job[w].pc = "queued" /\ lock = "free"
  /\ \/ /\ MustSkip /\ skipFinalization /\ Succeeds(w)
        /\ faults' = Marked("overwritten", Overwrites)
     \/ /\ ~MustSkip /\ Goto(w, "begin") /\ lock' = w
        /\ UNCHANGED <<fin, queue, faults>>
  /\ UNCHANGED <<ops, blob, sandbox, row>>

MayBegin(w) ==
  /\ fin.status \in {"pending", "failed", "partial", "running"}
  /\ fin.lease # "held" \/ fin.owner = Pid[w]

beginFinalization(w) ==
  /\ job[w].pc = "begin"
  /\ IF MayBegin(w)
       THEN /\ fin' = [fin EXCEPT !.status = "running", !.attempt = @ + 1,
                                  !.owner = Pid[w], !.lease = "held"]
            /\ Goto(w, "list")
       ELSE Goto(w, "pause") /\ UNCHANGED fin
  /\ UNCHANGED <<ops, blob, sandbox, row, queue, lock, faults>>

(* publishedOutputs: only verified files count as already published. *)
List(w) ==
  /\ job[w].pc = "list" /\ ~sandbox.paused
  /\ job' = [job EXCEPT ![w] = [@ EXCEPT !.pc = "read", !.todo = Outputs,
                               !.prior = {o \in Outputs : blob[o] = "verified"}]]
  /\ UNCHANGED <<fin, ops, blob, sandbox, row, queue, lock, faults>>

failFinalization(w) ==
  fin' = IF fin.owner = Pid[w]
           THEN [fin EXCEPT !.status = "failed", !.owner = "none", !.lease = "none"]
           ELSE fin

(* A listing that finds the sandbox paused records that and ends the job;    *)
(* any other failure throws.                                                 *)
ListFails(w) ==
  /\ job[w].pc = "list"
  /\ failFinalization(w)
  /\ \/ /\ sandbox.paused /\ ~Ghost(w)
        /\ sandbox' = [sandbox EXCEPT !.recorded = "paused"]
        /\ Succeeds(w)
        /\ UNCHANGED faults
     \/ /\ ~sandbox.paused /\ ~Ghost(w) /\ Fault("list")
        /\ Goto(w, "stop")
        /\ UNCHANGED <<sandbox, queue, lock>>
     \/ /\ Ghost(w) /\ sandbox.paused
        /\ job' = [job EXCEPT ![w] = IdleJob]
        /\ UNCHANGED <<sandbox, queue, lock, faults>>
  /\ UNCHANGED <<ops, blob, row>>

Recorded == {o \in Outputs : ops[o].status # "absent"}

Read(w, o) ==
  /\ job[w].pc = "read" /\ o \in job[w].todo /\ \A x \in job[w].todo : o <= x
  /\ ~sandbox.paused
  /\ job' = [job EXCEPT ![w] =
                IF o \in job[w].prior
                  THEN [@ EXCEPT !.todo = job[w].todo \ {o}]
                  ELSE [@ EXCEPT !.todo = job[w].todo \ {o}, !.cur = o, !.pc = "start"]]
  /\ UNCHANGED <<fin, ops, blob, sandbox, row, queue, lock, faults>>

(* The read comes before the comparison with what is published, so a failure *)
(* counts for every output.                                                  *)
Uncounted(w, o) ==
  /\ o \notin Recorded \cup job[w].prior
  /\ Recorded \cap job[w].prior # {}

ReadFails(w, o) ==
  /\ job[w].pc = "read" /\ o \in job[w].todo /\ \A x \in job[w].todo : o <= x
  /\ \/ /\ sandbox.paused
        /\ faults' = Marked("uncounted", Uncounted(w, o))
     \/ /\ ~sandbox.paused /\ faults.spent < MaxFaults
        /\ faults' = [Marked("uncounted", Uncounted(w, o)) EXCEPT
                        !.spent = faults.spent + 1, !.kinds = faults.kinds \cup {"read"}]
  /\ job' = [job EXCEPT ![w] = [@ EXCEPT !.todo = job[w].todo \ {o},
                                        !.failures = job[w].failures + 1]]
  /\ UNCHANGED <<fin, ops, blob, sandbox, row, queue, lock>>

recordArtifactOperationStart(w) ==
  /\ job[w].pc = "start"
  /\ ops' = [ops EXCEPT ![job[w].cur] = [status |-> "pending", check |-> "pending",
                                         file |-> FALSE, receipt |-> FALSE]]
  /\ Goto(w, "store")
  /\ UNCHANGED <<fin, blob, sandbox, row, queue, lock, faults>>

recordArtifactOperationStorage(w) ==
  /\ job[w].pc = "store"
  /\ ops' = [ops EXCEPT ![job[w].cur] = [@ EXCEPT !.status = "staged",
                                                 !.check = "pending", !.receipt = TRUE]]
  /\ Goto(w, "persist")
  /\ UNCHANGED <<fin, blob, sandbox, row, queue, lock, faults>>

persistOutput(w) ==
  /\ job[w].pc = "persist"
  /\ blob' = [blob EXCEPT ![job[w].cur] = IF @ = "none" THEN "unverified" ELSE @]
  /\ Goto(w, "complete")
  /\ UNCHANGED <<fin, ops, sandbox, row, queue, lock, faults>>

failArtifactOperation(w) ==
  /\ job[w].pc \in {"store", "persist"} /\ Fault("publish")
  /\ ops' = [ops EXCEPT ![job[w].cur] = [@ EXCEPT !.status = "failed", !.check = "failed"]]
  /\ job' = [job EXCEPT ![w] = [@ EXCEPT !.pc = "read", !.cur = 0,
                                        !.failures = job[w].failures + 1]]
  /\ UNCHANGED <<fin, blob, sandbox, row, queue, lock>>

AlwaysStaged(op, verification) ==  \* mutant: the blob's status is not read
  [op EXCEPT !.file = TRUE, !.status = "staged", !.check = "pending"]

WithStatus(op, verification) ==
  [op EXCEPT !.file = TRUE,
             !.status = CASE verification = "verified" -> "complete"
                          [] verification = "failed"   -> "failed"
                          [] OTHER                     -> "staged",
             !.check = CASE verification = "verified" -> "verified"
                         [] verification = "failed"   -> "failed"
                         [] OTHER                     -> "pending"]

Completed(w, verification) ==
  /\ ops' = [ops EXCEPT ![job[w].cur] = WithStatus(@, verification)]
  /\ job' = [job EXCEPT ![w] = [@ EXCEPT !.pc = "read", !.cur = 0, !.saw = "none",
                                        !.results = job[w].results + 1]]
  /\ UNCHANGED <<fin, blob, sandbox, row, queue, lock>>

completeArtifactOperation(w) ==
  /\ job[w].pc = "complete"
  /\ Completed(w, blob[job[w].cur])
  /\ UNCHANGED faults

(* The statement takes its snapshot of file_blobs and then waits for the     *)
(* operation's row lock, held by the transaction that settles the            *)
(* verification: under READ COMMITTED only the locked row is read again.     *)
CompleteWaits(w) ==
  /\ job[w].pc = "complete" /\ Fault("wait")
  /\ job' = [job EXCEPT ![w] = [@ EXCEPT !.pc = "waits", !.saw = blob[job[w].cur]]]
  /\ UNCHANGED <<fin, ops, blob, sandbox, row, queue, lock>>

CompleteResumes(w) ==
  /\ job[w].pc = "waits"
  /\ Completed(w, job[w].saw)
  /\ UNCHANGED faults

Done == {o \in Outputs : ops[o].status = "complete" /\ ops[o].check = "verified"}
Failed == {o \in Outputs : ops[o].status = "failed" \/ ops[o].check = "failed"}
Greatest(a, b) == IF a >= b THEN a ELSE b

FinishByResults(w) ==     \* mutant: the caller's status is trusted
  [fin EXCEPT !.status = IF job[w].failures > 0 THEN "partial" ELSE "complete",
              !.items = job[w].results + job[w].failures, !.settled = TRUE,
              !.owner = "none", !.lease = "none"]

finishFinalization(w) ==
  LET mine  == job[w].results + job[w].failures
      items == Greatest(mine, Cardinality(Recorded))
      done  == Cardinality(Done)
      bad   == Cardinality(Failed)
  IN [fin EXCEPT !.status = CASE items = 0   -> "complete"
                              [] done = items -> "complete"
                              [] bad = items  -> "failed"
                              [] OTHER        -> "partial",
                 !.items = items,
                 !.settled = items = 0 \/ done + bad >= items,
                 !.owner = "none", !.lease = "none"]

Finish(w) ==
  /\ job[w].pc = "read" /\ job[w].todo = {}
  /\ fin' = IF fin.owner = Pid[w] THEN finishFinalization(w) ELSE fin
  /\ job' = [job EXCEPT ![w] = IF Ghost(w) THEN IdleJob
                                 ELSE [IdleJob EXCEPT !.pc = "pause", !.of = job[w].of]]
  /\ UNCHANGED <<ops, blob, sandbox, row, queue, lock, faults>>

(* The provider refuses the suspend, or withTimeout gives it up: no abort    *)
(* reaches the provider, so it may still take effect.                        *)
SuspendFails ==
  \/ Fault("suspend") /\ UNCHANGED sandbox
  \/ Fault("abandoned") /\ sandbox' = [sandbox EXCEPT !.inflight = TRUE]

(* The archive is captured and stored, then the sandbox paused and recorded. *)
(* Without the archive the finally block still stops the sandbox.            *)
Pause(w) ==
  /\ job[w].pc = "pause"
  /\ \/ /\ sandbox' = [sandbox EXCEPT !.paused = TRUE, !.recorded = "paused"]
        /\ Succeeds(w)
        /\ UNCHANGED faults
     \/ Fault("archive") /\ Goto(w, "stop") /\ UNCHANGED <<sandbox, queue, lock>>
     \/ SuspendFails /\ Throws(w)
  /\ UNCHANGED <<fin, ops, blob, row>>

(* After an error the finally block pauses the sandbox, and the recorded     *)
(* state is rolled back with the transaction.                                *)
Stop(w) ==
  /\ job[w].pc = "stop"
  /\ \/ sandbox' = [sandbox EXCEPT !.paused = TRUE] /\ UNCHANGED faults
     \/ SuspendFails
  /\ Throws(w)
  /\ UNCHANGED <<fin, ops, blob, row>>

(* The snapshot times out: its job goes on to the finally block and the      *)
(* publication, which nobody waits for, into a free slot of the process.     *)
Timeout(w) ==
  /\ lock = w /\ Publishing(w) /\ Fault("timeout")
  /\ \E g \in Workers \ {w} :
       /\ job[g].pc = "idle" /\ Pid[g] = Pid[w]
       /\ job' = [job EXCEPT ![g] = job[w],
                             ![w] = [IdleJob EXCEPT !.pc = "stop", !.of = job[w].of]]
  /\ UNCHANGED <<fin, ops, blob, sandbox, row, queue, lock>>

(* A suspend that nobody waits for takes effect, whoever has the sandbox. *)
SuspendLands ==
  /\ sandbox.inflight
  /\ sandbox' = [sandbox EXCEPT !.paused = TRUE, !.inflight = FALSE]
  /\ UNCHANGED <<fin, ops, blob, row, queue, job, lock, faults>>

Crash(w) ==
  /\ job[w].pc # "idle" /\ Fault("crash")
  /\ job' = [job EXCEPT ![w] = IdleJob]
  /\ queue' = IF lock = w \/ job[w].pc = "queued" THEN Requeued(w) ELSE queue
  /\ lock' = IF lock = w THEN "free" ELSE lock
  /\ UNCHANGED <<fin, ops, blob, sandbox, row>>

(* The verifier records the blob and settles the operations of its file or   *)
(* stored object, and the finalization they belong to, in one transaction.   *)
SettledOps(o, result) ==
  IF ops[o].file \/ ops[o].receipt
    THEN [ops EXCEPT ![o] = [@ EXCEPT
            !.status = IF result = "verified" THEN "complete" ELSE "failed",
            !.check = result]]
    ELSE ops

Recounted(after) ==
  LET n     == Cardinality({o \in Outputs : after[o].status # "absent"})
      done  == Cardinality({o \in Outputs : after[o].status = "complete" /\ after[o].check = "verified"})
      bad   == Cardinality({o \in Outputs : after[o].status = "failed" \/ after[o].check = "failed"})
      items == Greatest(fin.items, n)
  IN IF fin.status = "running"
       THEN [fin EXCEPT !.items = items, !.settled = FALSE]
       ELSE [fin EXCEPT !.items = items,
                        !.status = CASE done = items -> "complete"
                                     [] bad = items  -> "failed"
                                     [] OTHER        -> "partial",
                        !.settled = done + bad >= items]

(* A failed blob is delivered to the verifier again. A verifier overtaken by *)
(* another fails after the blob is verified: it leaves the blob and settles  *)
(* the operations as failed.                                                 *)
settleArtifactVerification(o, result) ==
  /\ \/ /\ blob[o] \in {"unverified", "failed"}
        /\ blob' = [blob EXCEPT ![o] = result]
        /\ UNCHANGED faults
     \/ /\ blob[o] = "verified" /\ result = "failed" /\ Fault("overtaken")
        /\ UNCHANGED blob
  /\ ops' = SettledOps(o, result)
  /\ fin' = IF ops[o].file \/ ops[o].receipt THEN Recounted(SettledOps(o, result)) ELSE fin
  /\ UNCHANGED <<sandbox, row, queue, job, lock>>

(* A follow-up run takes the sandbox over, under the same lock. *)
NewerRunClaims ==
  /\ lock = "free" /\ ~sandbox.newer
  /\ sandbox' = [sandbox EXCEPT !.newer = TRUE, !.paused = FALSE]
  /\ UNCHANGED <<fin, ops, blob, row, queue, job, lock, faults>>

-----------------------------------------------------------------------------
JobStep(w) ==
  \/ TakeLock(w) \/ beginFinalization(w) \/ List(w) \/ ListFails(w)
  \/ (\E o \in Outputs : Read(w, o) \/ ReadFails(w, o))
  \/ recordArtifactOperationStart(w) \/ recordArtifactOperationStorage(w)
  \/ persistOutput(w) \/ failArtifactOperation(w)
  \/ completeArtifactOperation(w) \/ CompleteWaits(w) \/ CompleteResumes(w)
  \/ Finish(w) \/ Pause(w) \/ Stop(w)

Verdict(o) == \E result \in {"verified", "failed"} :
                settleArtifactVerification(o, result)

Verify == \E o \in Outputs : Verdict(o)

Next ==
  \/ Dispatch \/ LoseJob \/ deadLetterExhaustedReceipts
  \/ LeaseExpires \/ enqueuePendingFinalizations
  \/ \E w \in Workers : Take(w) \/ JobStep(w) \/ Timeout(w) \/ Crash(w)
  \/ Verify \/ NewerRunClaims \/ SuspendLands

Spec == Init /\ [][Next]_vars

(* Jobs and the verifier run, leases end, and the dispatcher ticks. No       *)
(* suspend that was given up need ever take effect, and a failed blob need   *)
(* not be verified again.                                                    *)
FairSpec ==
  /\ Spec
  /\ WF_vars(Dispatch \/ deadLetterExhaustedReceipts)
  /\ WF_vars(LeaseExpires) /\ SF_vars(enqueuePendingFinalizations)
  /\ WF_vars(\E w \in Workers : Take(w))
  /\ \A w \in Workers : SF_vars(JobStep(w))
  /\ WF_vars(\E o \in Outputs : blob[o] = "unverified" /\ Verdict(o))

-----------------------------------------------------------------------------
(* No publication was cut short by a crash or a timeout, no skip set the     *)
(* items back to none, and no attempt left an output out of its count.       *)
Clean ==
  /\ faults.kinds \cap {"crash", "timeout"} = {}
  /\ faults.marks \cap {"overwritten", "uncounted"} = {}

(* A finalization recorded as complete has every output of the run stored    *)
(* and verified, whatever was lost or could not be listed, read or           *)
(* published: finishFinalization and settleArtifactVerification count        *)
(* operations, and a count must not hide an output without one. It does      *)
(* where Clean fails: the verdict on the operations recorded by then         *)
(* completes a finalization that was cut short or skipped                    *)
(* (file-blobs.ts:536), and GREATEST compares the outputs one attempt counts *)
(* with the operations of all of them, so a retry that cannot read an output *)
(* for the second time is complete by the ones published before              *)
(* (sandbox-continuity.ts:3665).                                             *)
CompleteMeansPublished ==
  fin.status = "complete" /\ Clean => \A o \in Outputs : blob[o] = "verified"

(* A sandbox that a follow-up run has taken over is paused by the terminal   *)
(* cleanup of the run before it only through a suspend that its timeout gave *)
(* up and that is still under way when the lifecycle lock is free            *)
(* (sandbox-continuity.ts:2510); every other pause is made under that lock   *)
(* after looking for the newer run, whatever crashed or timed out.           *)
NewerRunKeepsSandbox ==
  sandbox.newer /\ sandbox.paused => "abandoned" \in faults.kinds

Outcome == fin.status \in {"complete", "partial", "failed", "skipped"}

(* Every terminal run gets a finalization outcome and keeps one, whatever    *)
(* is lost, late or refused: the row does not stay pending or running for    *)
(* ever. Left out are a crash and a publication in the background that       *)
(* outlives its lease: the operation such a worker had started keeps the     *)
(* sweep from retrying (outbox.ts:477).                                      *)
EveryRunFinalized == 
  <>[](Outcome \/ "crash" \in faults.kinds \/ "slow" \in faults.marks)

(* An operation waiting for its file's verification is settled once the file *)
(* is verified: no update of completeArtifactOperation and                   *)
(* settleArtifactVerification is lost, unless the first had to wait for the  *)
(* row lock of the second (sandbox-continuity.ts:3577), or its worker died.  *)
OperationFollowsBlob ==
  <>[](\/ \A o \in Outputs : ops[o].status = "staged" => blob[o] # "verified"
       \/ faults.kinds \cap {"wait", "crash"} # {})


-----------------------------------------------------------------------------
(* The inductive invariant. *)

Handling == {"start", "store", "persist", "complete", "waits"}

PastListing(w) == job[w].pc \in Handling \cup {"read"}

(* What the publication of w has been through, other than what it passed    *)
(* over as published before.                                                *)
Handled(w) == Outputs \ (job[w].prior \cup job[w].todo \cup {job[w].cur})

(* The outputs a verdict of complete must account for. *)
Owed == {o \in Outputs : ops[o].status # "absent" \/ blob[o] # "verified"}

(* The job decides and pauses under the lifecycle lock, and no newer run    *)
(* takes the sandbox meanwhile.                                             *)
LockGuards ==
  /\ lock # "free" => ~sandbox.newer
  /\ \A w \in Workers : job[w].pc \in {"begin", "pause", "stop"} => lock = w
  /\ \A w \in Workers : lock = w => job[w].pc \notin {"idle", "queued"}

(* A suspend that nobody waits for was given up. *)
SuspendsExplained == sandbox.inflight => "abandoned" \in faults.kinds

(* What a publication holds is what the rows say: what it passes over is     *)
(* verified, the output in its hands has an operation once one is started,   *)
(* and it has counted everything it handled.                                 *)
JobMatchesRows(w) ==
  /\ \A o \in job[w].prior : blob[o] = "verified"
  /\ job[w].pc \notin Handling => job[w].cur = 0
  /\ job[w].pc \in Handling =>
       job[w].cur \in Outputs /\ job[w].cur \notin job[w].prior \cup job[w].todo
  /\ job[w].pc \in Handling \ {"start"} => job[w].cur \in Recorded
  /\ job[w].pc = "waits" /\ job[w].saw = "verified" => blob[job[w].cur] = "verified"
  /\ PastListing(w) => Cardinality(Handled(w)) <= job[w].results + job[w].failures
  /\ Publishing(w) => fin.attempt > 0

OperationsAreTrue ==
  /\ \A o \in Done : blob[o] = "verified"
  /\ \A o \in Outputs : ops[o].file \/ ops[o].receipt => o \in Recorded
  /\ Recorded # {} => fin.attempt > 0

(* With no publication cut short, the finalization runs exactly while the    *)
(* one that holds the lock publishes, under a lease that does not end.       *)
RunningIsPublished ==
  Clean =>
    /\ fin.status = "running" => \E w \in Workers : Publishing(w)
    /\ \A w \in Workers : Publishing(w) =>
         /\ lock = w /\ fin.status = "running"
         /\ fin.owner = Pid[w] /\ fin.lease = "held"

(* An attempt records every output it handles, or none was recorded among    *)
(* those it passes over: either way its count covers them all.               *)
AttemptCounts ==
  Clean => \A w \in Workers :
    PastListing(w) => Recorded \cap job[w].prior = {} \/ Handled(w) \subseteq Recorded

(* Between attempts the row counts every output it owes. *)
ItemsCoverOwed ==
  Clean /\ Recorded # {} /\ (\A w \in Workers : ~PastListing(w))
    => Cardinality(Owed) <= fin.items

FinalizationInv ==
  /\ TypeOK /\ LockGuards /\ SuspendsExplained /\ NewerRunKeepsSandbox
  /\ (\A w \in Workers : JobMatchesRows(w)) /\ OperationsAreTrue /\ RunningIsPublished
  /\ AttemptCounts /\ ItemsCoverOwed /\ CompleteMeansPublished
=============================================================================
