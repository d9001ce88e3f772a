--------------------------- MODULE RuntimeOutbox ---------------------------
(***************************************************************************)
(* The transactional outbox of the worker (apps/worker/src/outbox.ts):      *)
(* rows of runtime_outbox, the dispatchers that lease them and publish them *)
(* to BullMQ, and the receipts the workers write back (processor.ts).       *)
(*                                                                          *)
(* One step is one SQL transaction or one call to Redis.  Time is abstract: *)
(* a lease is "live" until it nondeterministically becomes "expired", and   *)
(* the moment COALESCE(receipt_due_at, available_at) becomes due whenever   *)
(* it likes.  A row's event type is reduced to what the code tells apart:   *)
(*   StartReceipt  turn.execute, turn.resume, sandbox.snapshot: the worker  *)
(*                 acknowledges when the job starts;                        *)
(*   EndReceipt    file.*: acknowledged by the job's own processor;         *)
(*   the others    completed by the dispatcher once they are in the queue.  *)
(* Finalizers are the StartReceipt rows that enqueuePendingFinalizations    *)
(* writes (reason before-finalize), Malformed the rows whose type or        *)
(* payload does not parse, Upserted the rows whose producers insert them    *)
(* with ON CONFLICT DO UPDATE completed_at = NULL: file.verify-blob,        *)
(* file.delete-blob and knowledge.extract.                                  *)
(***************************************************************************)
EXTENDS Naturals, FiniteSets

CONSTANTS
    Rows, Dispatchers, NoOwner,
    StartReceipt, EndReceipt, Finalizers, Malformed, Upserted,
    Supersedes,      \* the delayed snapshot rows of a finalizer's run
    MaxAttempts,     \* max_attempts, already clamped to 1..100
    MaxClaims,       \* model bound: claims of a row that needs no receipt
    MaxCrashes,      \* model bound: aborted dispatch cycles
    MaxUpserts       \* model bound: insertions of a row that is there already

ASSUME RowsAssumption ==
    /\ StartReceipt \subseteq Rows /\ EndReceipt \subseteq Rows
    /\ StartReceipt \cap EndReceipt = {}
    /\ Finalizers \subseteq StartReceipt
    /\ Malformed \subseteq Rows \ Finalizers
    /\ Upserted \subseteq Rows \ StartReceipt
    /\ Supersedes \in [Finalizers -> SUBSET (StartReceipt \ Finalizers)]
ASSUME OwnerAssumption == NoOwner \notin Dispatchers
ASSUME BoundsAssumption ==
    /\ MaxAttempts \in Nat \ {0} /\ MaxClaims \in Nat
    /\ MaxCrashes \in Nat /\ MaxUpserts \in Nat

VARIABLES
    completed,   \* completed_at IS NOT NULL
    dead,        \* dead_lettered_at IS NOT NULL
    owner,       \* lease_owner
    lease,       \* lease_expires_at: "none" (NULL), "live" or "expired"
    epoch,       \* lease_epoch
    attempts,    \* attempts
    awaiting,    \* receipt_due_at IS NOT NULL
    due,         \* COALESCE(receipt_due_at, available_at) <= now()
    pc,          \* where a dispatcher's cycle is
    held,        \* the claimed rows a dispatcher still has to send
    cur,         \* the claimed row a dispatcher is sending, as a set
    queue,       \* jobs in BullMQ, waiting or active
    ids,         \* job ids BullMQ still knows (removeOnComplete, removeOnFail)
    begun,       \* finalizers whose delivery reached beginFinalization
    crashes,     \* aborted dispatch cycles so far
    upserts,     \* insertions of rows that were there already
    sent,        \* history: jobs that entered the queue
    seen,        \* history: deliveries whose processing reached the receipt
    withdrawn    \* history: rows closed by prepare, the end of their run or the API

rowVars == <<completed, dead, owner, lease, epoch, attempts, awaiting, due>>
dispatcherVars == <<pc, held, cur, crashes>>
queueVars == <<queue, ids, sent>>
historyVars == <<seen, withdrawn>>
vars == <<rowVars, dispatcherVars, queueVars, begun, upserts, historyVars>>

NeedsReceipt == StartReceipt \cup EndReceipt

\* What a claim returns of a row; a job carries the same three values.
Copy == [row : Rows, epoch : Nat, attempt : Nat]

TypeOK ==
    /\ completed \in [Rows -> BOOLEAN] /\ dead \in [Rows -> BOOLEAN]
    /\ owner \in [Rows -> Dispatchers \cup {NoOwner}]
    /\ lease \in [Rows -> {"none", "live", "expired"}]
    /\ epoch \in [Rows -> Nat] /\ attempts \in [Rows -> Nat]
    /\ awaiting \in [Rows -> BOOLEAN] /\ due \in [Rows -> BOOLEAN]
    /\ pc \in [Dispatchers -> {"idle", "sweep", "claim", "prepare", "enqueue", "record", "fail"}]
    /\ held \in [Dispatchers -> SUBSET Copy] /\ cur \in [Dispatchers -> SUBSET Copy]
    /\ queue \subseteq Copy /\ sent \subseteq Copy
    /\ ids \subseteq (Rows \X Nat)
    /\ begun \subseteq Finalizers
    /\ crashes \in Nat /\ upserts \in Nat
    /\ \A r \in Rows : owner[r] = NoOwner <=> lease[r] = "none"
    /\ seen \subseteq (Rows \X Nat) /\ withdrawn \subseteq Rows

Init ==
    /\ completed = [r \in Rows |-> FALSE] /\ dead = [r \in Rows |-> FALSE]
    /\ owner = [r \in Rows |-> NoOwner] /\ lease = [r \in Rows |-> "none"]
    /\ epoch = [r \in Rows |-> 0] /\ attempts = [r \in Rows |-> 0]
    /\ awaiting = [r \in Rows |-> FALSE] /\ due = [r \in Rows |-> TRUE]
    /\ pc = [d \in Dispatchers |-> "idle"]
    /\ held = [d \in Dispatchers |-> {}] /\ cur = [d \in Dispatchers |-> {}]
    /\ queue = {} /\ ids = {} /\ begun = {} /\ crashes = 0 /\ upserts = 0
    /\ sent = {} /\ seen = {} /\ withdrawn = {}

-----------------------------------------------------------------------------
(* Row updates shared by several statements.                               *)

\* Mutant: a lease that ran out still keeps the row.
DueUnlessLeased(r) ==
    /\ ~completed[r] /\ ~dead[r] /\ due[r]
    /\ lease[r] = "none"

\* An open row no dispatcher holds a live lease on, whose moment has come.
Due(r) ==
    /\ ~completed[r] /\ ~dead[r] /\ due[r]
    /\ lease[r] # "live"

\* Mutant: the dispatcher's updates match on the epoch alone.
FencedByEpoch(d, c) == d \in Dispatchers /\ epoch[c.row] = c.epoch

\* The WHERE clause of complete, deferForDeliveryReceipt and fail.
Fenced(d, c) ==
    /\ owner[c.row] = d /\ epoch[c.row] = c.epoch
    /\ ~completed[c.row] /\ ~dead[c.row]

\* lease_owner = NULL, lease_expires_at = NULL for the rows in S.
Unlease(S) ==
    /\ owner' = [r \in Rows |-> IF r \in S THEN NoOwner ELSE owner[r]]
    /\ lease' = [r \in Rows |-> IF r \in S THEN "none" ELSE lease[r]]

\* completed_at set and the lease cleared for the rows in S.
Close(S) ==
    /\ completed' = [r \in Rows |-> completed[r] \/ r \in S]
    /\ Unlease(S)

\* Mutant: one delivery too few.
ExhaustedEarly(n) == n + 1 >= MaxAttempts

\* attempts >= LEAST(100, GREATEST(1, COALESCE(configured, max_attempts, 8))).
Exhausted(n) == n >= MaxAttempts

\* Mutant: a claim renews the lease but not its epoch.
SameEpoch(r) == epoch[r]

\* lease_epoch = lease_epoch + 1.
NextEpoch(r) == epoch[r] + 1

-----------------------------------------------------------------------------
(* A dispatch cycle: reopen finalizations, dead-letter exhausted receipts,  *)
(* claim, then send the claimed rows one after another.                     *)

\* enqueuePendingFinalizations: ON CONFLICT DO UPDATE reopens the completed
\* row of a finalization whose attempt number has not moved on.
ReopenFinalizations(d) ==
    LET S == {r \in Finalizers : completed[r] /\ r \notin begun} IN
    /\ pc[d] = "idle"
    /\ pc' = [pc EXCEPT ![d] = "sweep"]
    /\ completed' = [r \in Rows |-> completed[r] /\ r \notin S]
    /\ dead' = [r \in Rows |-> dead[r] /\ r \notin S]
    /\ awaiting' = [r \in Rows |-> awaiting[r] /\ r \notin S]
    /\ due' = [r \in Rows |-> due[r] \/ r \in S]
    /\ Unlease(S)
    /\ withdrawn' = withdrawn \ S
    /\ UNCHANGED <<epoch, attempts, held, cur, crashes, queueVars, begun, upserts, seen>>

\* deadLetterExhaustedReceipts: one UPDATE over the tenant's rows.
DeadLetterExhaustedReceipts(d) ==
    LET S == {r \in NeedsReceipt : Due(r) /\ Exhausted(attempts[r])} IN
    /\ pc[d] = "sweep"
    /\ pc' = [pc EXCEPT ![d] = "claim"]
    /\ Close(S)
    /\ dead' = [r \in Rows |-> dead[r] \/ r \in S]
    /\ awaiting' = [r \in Rows |-> awaiting[r] /\ r \notin S]
    /\ UNCHANGED <<epoch, attempts, due, held, cur, crashes, queueVars, begun, upserts, historyVars>>

\* The rows the claim's "due" query selects; LIMIT and SKIP LOCKED may leave
\* any of them to another dispatcher.
Claimable ==
    {r \in Rows : Due(r) /\ IF r \in NeedsReceipt THEN ~Exhausted(attempts[r])
                                                  ELSE attempts[r] < MaxClaims}

\* The claim: lease, epoch and attempts move together, receipt_due_at = NULL.
Claim(d) ==
    \E S \in SUBSET Claimable :
    /\ pc[d] = "claim"
    /\ (S = {} => Claimable = {})
    /\ owner' = [r \in Rows |-> IF r \in S THEN d ELSE owner[r]]
    /\ lease' = [r \in Rows |-> IF r \in S THEN "live" ELSE lease[r]]
    /\ epoch' = [r \in Rows |-> IF r \in S THEN NextEpoch(r) ELSE epoch[r]]
    /\ attempts' = [r \in Rows |-> IF r \in S THEN attempts[r] + 1 ELSE attempts[r]]
    /\ awaiting' = [r \in Rows |-> awaiting[r] /\ r \notin S]
    /\ held' = [held EXCEPT ![d] =
                  {[row |-> r, epoch |-> NextEpoch(r), attempt |-> attempts[r] + 1] : r \in S}]
    /\ pc' = [pc EXCEPT ![d] = IF S = {} THEN "idle" ELSE "prepare"]
    /\ UNCHANGED <<completed, dead, due, cur, crashes, queueVars, begun, upserts, historyVars>>

\* prepare: before a before-finalize snapshot is sent, the run's delayed
\* snapshot rows are completed, whoever holds a lease on them.  If the
\* transaction throws, or the event type is unknown, the row goes to fail.
Prepare(d) ==
    \E c \in held[d], ok \in BOOLEAN :
    LET S == {r \in Rows : /\ ok /\ c.row \in Finalizers /\ r \in Supersedes[c.row]
                           /\ ~completed[r]} IN
    /\ pc[d] = "prepare"
    /\ pc' = [pc EXCEPT ![d] = IF ok THEN "enqueue" ELSE "fail"]
    /\ held' = [held EXCEPT ![d] = @ \ {c}]
    /\ cur' = [cur EXCEPT ![d] = {c}]
    /\ Close(S)
    /\ withdrawn' = withdrawn \cup S
    /\ UNCHANGED <<dead, epoch, attempts, awaiting, due, crashes, queueVars, begun, upserts, seen>>

\* Mutant: every delivery of a row has the same job id.
OutboxRowId(c) == <<c.row, 0>>

\* outboxJobId: a receipt row has one identity per delivery, others one in all.
OutboxJobId(c) == <<c.row, IF c.row \in NeedsReceipt THEN c.attempt ELSE 0>>

\* queue.enqueue: BullMQ ignores a job whose id it still knows.
Enqueue(d) ==
    \E c \in cur[d] :
    LET fresh == OutboxJobId(c) \notin ids IN
    /\ pc[d] = "enqueue" /\ c.row \notin Malformed
    /\ pc' = [pc EXCEPT ![d] = "record"]
    /\ queue' = IF fresh THEN queue \cup {c} ELSE queue
    /\ sent' = IF fresh THEN sent \cup {c} ELSE sent
    /\ ids' = ids \cup {OutboxJobId(c)}
    /\ UNCHANGED <<rowVars, held, cur, crashes, begun, upserts, historyVars>>

\* The loop goes on with the next claimed row, or the cycle ends.
Advance(d) ==
    /\ pc' = [pc EXCEPT ![d] = IF held[d] = {} THEN "idle" ELSE "prepare"]
    /\ cur' = [cur EXCEPT ![d] = {}]
    /\ UNCHANGED <<held, crashes>>

\* deferForDeliveryReceipt (receipt rows) or complete (the others).  A fence
\* miss changes nothing and the loop goes on.
Record(d) ==
    \E c \in cur[d] :
    LET S == {r \in {c.row} : Fenced(d, c)}
        W == S \cap NeedsReceipt IN
    /\ pc[d] = "record"
    /\ completed' = [r \in Rows |-> completed[r] \/ r \in S \ W]
    /\ awaiting' = [r \in Rows |-> r \in W \/ (awaiting[r] /\ r \notin S)]
    /\ due' = [r \in Rows |-> due[r] /\ r \notin W]
    /\ Unlease(S)
    /\ Advance(d)
    /\ UNCHANGED <<dead, epoch, attempts, queueVars, begun, upserts, historyVars>>

\* fail: the row is dead-lettered if malformed or exhausted, otherwise it is
\* open again after a back-off.  It runs when parsing failed, or when prepare,
\* the queue (before or after the job got in) or the recording threw.
Fail(d) ==
    \E c \in cur[d] :
    LET S == {r \in {c.row} : Fenced(d, c)}
        D == {r \in S : r \in Malformed \/ Exhausted(c.attempt)} IN
    /\ pc[d] \in {"enqueue", "record", "fail"}
    /\ completed' = [r \in Rows |-> r \in D \/ (completed[r] /\ r \notin S)]
    /\ dead' = [r \in Rows |-> r \in D \/ (dead[r] /\ r \notin S)]
    /\ awaiting' = [r \in Rows |-> awaiting[r] /\ r \notin S]
    /\ due' = [r \in Rows |-> due[r] /\ r \notin S \ D]
    /\ Unlease(S)
    /\ Advance(d)
    /\ UNCHANGED <<epoch, attempts, queueVars, begun, upserts, historyVars>>

\* The dispatcher dies, or an error escapes the loop: its claims are left to
\* their leases.  A restarted worker has a new workerId, and with no copies
\* left the old one is as good.
Abort(d) ==
    /\ pc[d] # "idle" /\ crashes < MaxCrashes
    /\ crashes' = crashes + 1
    /\ pc' = [pc EXCEPT ![d] = "idle"]
    /\ held' = [held EXCEPT ![d] = {}] /\ cur' = [cur EXCEPT ![d] = {}]
    /\ UNCHANGED <<rowVars, queueVars, begun, upserts, historyVars>>

-----------------------------------------------------------------------------
(* Time.                                                                    *)

\* lease_expires_at <= now(): thirty seconds after the claim.
ExpireLease(r) ==
    /\ lease[r] = "live"
    /\ lease' = [lease EXCEPT ![r] = "expired"]
    /\ UNCHANGED <<completed, dead, owner, epoch, attempts, awaiting, due,
                   dispatcherVars, queueVars, begun, upserts, historyVars>>

\* The back-off or the receipt deadline passes.
Elapse(r) ==
    /\ ~due[r]
    /\ due' = [due EXCEPT ![r] = TRUE]
    /\ UNCHANGED <<completed, dead, owner, lease, epoch, attempts, awaiting,
                   dispatcherVars, queueVars, begun, upserts, historyVars>>

-----------------------------------------------------------------------------
(* The worker.                                                              *)

\* Mutant: any delivery of the row closes it.
AcknowledgesAnyEpoch(c) == ~completed[c.row] /\ ~dead[c.row] /\ c.epoch > 0

\* The WHERE clause of both receipts: only the delivery of the row's current
\* lease epoch may close it.
Acknowledges(c) ==
    /\ ~completed[c.row] /\ ~dead[c.row]
    /\ epoch[c.row] = c.epoch

\* processBerryWorkerJob of a start-receipt job: acknowledge, then run.  The
\* job runs whether or not the receipt was still wanted, and stays in the
\* queue, so that BullMQ may start it again after a stall or a failure.  A
\* finalizer's run may reach beginFinalization.
Start(c) ==
    LET S == {r \in {c.row} : Acknowledges(c)} IN
    /\ c \in queue /\ c.row \in StartReceipt
    /\ Close(S)
    /\ awaiting' = [r \in Rows |-> awaiting[r] /\ r \notin S]
    /\ seen' = seen \cup {<<c.row, c.epoch>>}
    /\ \E B \in SUBSET ({c.row} \cap Finalizers) : begun' = begun \cup B
    /\ UNCHANGED <<dead, epoch, attempts, due, dispatcherVars, queueVars, upserts, withdrawn>>

\* The work of an end-receipt job is done.
Work(c) ==
    /\ c \in queue /\ c.row \in EndReceipt
    /\ seen' = seen \cup {<<c.row, c.epoch>>}
    /\ UNCHANGED <<rowVars, dispatcherVars, queueVars, begun, upserts, withdrawn>>

\* The three end receipts: acknowledgeBlobOutbox and completeVerificationWatchdog
\* clear receipt_due_at, SqlFileDeletionReceipts.acknowledge leaves it alone.
\* When another delivery holds the row nothing is written (a deletion throws,
\* for BullMQ to retry).
AcknowledgeWork(c) ==
    /\ c \in queue /\ c.row \in EndReceipt
    /\ <<c.row, c.epoch>> \in seen
    /\ Acknowledges(c)
    /\ Close({c.row})
    /\ \E cleared \in SUBSET {c.row} :
          awaiting' = [r \in Rows |-> awaiting[r] /\ r \notin cleared]
    /\ UNCHANGED <<dead, epoch, attempts, due, dispatcherVars, queueVars,
                   begun, upserts, historyVars>>

\* A job ends: done, failed for good, or lost with Redis.  BullMQ forgets its
\* id at once or keeps it (removeOnComplete, removeOnFail keep the newest).
Leave(c) ==
    /\ c \in queue
    /\ queue' = queue \ {c}
    /\ \E F \in SUBSET {OutboxJobId(c)} : ids' = ids \ F
    /\ UNCHANGED <<rowVars, dispatcherVars, sent, begun, upserts, historyVars>>

\* The run a row belongs to ends (closeTerminalChildren, or a cancellation):
\* its open rows are completed, whoever holds a lease on them.
Withdraw(r) ==
    /\ r \in StartReceipt /\ ~completed[r]
    /\ Close({r})
    /\ withdrawn' = withdrawn \cup {r}
    /\ UNCHANGED <<dead, epoch, attempts, awaiting, due, dispatcherVars, queueVars,
                   begun, upserts, seen>>

-----------------------------------------------------------------------------
(* The producers of the Upserted rows: INSERT ... ON CONFLICT DO UPDATE of a   *)
(* row that is there.  None of them resets attempts or lease_epoch.           *)

\* completed_at = NULL, whatever closed the row.
Reopen(r) ==
    /\ r \in Upserted /\ upserts < MaxUpserts
    /\ upserts' = upserts + 1
    /\ completed' = [completed EXCEPT ![r] = FALSE]
    /\ withdrawn' = withdrawn \ {r}
    /\ UNCHANGED <<epoch, attempts, dispatcherVars, queueVars, begun, seen>>

\* An upload, a collector, the revisit of unverified blobs or a new extraction
\* sets available_at, now or later.  Lease, receipt deadline and dead letter
\* stay: a dead row is no longer completed, and still nobody claims it.
Upsert(r) ==
    /\ Reopen(r)
    /\ \E now \in BOOLEAN :
          due' = [due EXCEPT ![r] = IF awaiting[r] THEN due[r] ELSE now]
    /\ UNCHANGED <<dead, owner, lease, awaiting>>

\* finalizeVerification schedules the deletion of a duplicate: the receipt
\* deadline and the dead letter go too, the lease stays.
UpsertDuplicate(r) ==
    /\ Reopen(r) /\ r \in EndReceipt
    /\ \E now \in BOOLEAN : due' = [due EXCEPT ![r] = now]
    /\ dead' = [dead EXCEPT ![r] = FALSE]
    /\ awaiting' = [awaiting EXCEPT ![r] = FALSE]
    /\ UNCHANGED <<owner, lease>>

\* A verification that begins takes its own row for a watchdog: open, leased by
\* nobody, due in fifteen minutes.
UpsertWatchdog(c) ==
    /\ c \in queue /\ Reopen(c.row) /\ c.row \in EndReceipt
    /\ due' = [due EXCEPT ![c.row] = FALSE]
    /\ dead' = [dead EXCEPT ![c.row] = FALSE]
    /\ awaiting' = [awaiting EXCEPT ![c.row] = FALSE]
    /\ Unlease({c.row})

\* A file that refers to the blob again closes its open file.delete-blob row:
\* completed_at alone, whoever holds a lease and even if it is a dead letter.
CancelDeletion(r) ==
    /\ r \in Upserted \cap EndReceipt /\ ~completed[r]
    /\ completed' = [completed EXCEPT ![r] = TRUE]
    /\ withdrawn' = withdrawn \cup {r}
    /\ UNCHANGED <<dead, owner, lease, epoch, attempts, awaiting, due, dispatcherVars,
                   queueVars, begun, upserts, seen>>

-----------------------------------------------------------------------------
Cycle(d) ==
    \/ ReopenFinalizations(d) \/ DeadLetterExhaustedReceipts(d) \/ Claim(d)
    \/ Prepare(d) \/ Enqueue(d) \/ Record(d) \/ Fail(d)

Timers == \E r \in Rows : ExpireLease(r) \/ Elapse(r)

Worker == \E c \in queue : Start(c) \/ Work(c) \/ AcknowledgeWork(c) \/ Leave(c)

Producers ==
    \/ \E r \in Rows : Upsert(r) \/ UpsertDuplicate(r) \/ CancelDeletion(r)
    \/ \E c \in queue : UpsertWatchdog(c)

Next ==
    \/ \E d \in Dispatchers : Cycle(d) \/ Abort(d)
    \/ Timers
    \/ Worker
    \/ \E r \in Rows : Withdraw(r)
    \/ Producers

\* Every worker process runs the dispatch loop on a timer, and time passes.
\* Nothing is assumed of the workers that consume the queue, nor of producers.
Fairness ==
    /\ \A d \in Dispatchers : WF_vars(Cycle(d))
    /\ \A r \in Rows : WF_vars(ExpireLease(r)) /\ WF_vars(Elapse(r))

Spec == Init /\ [][Next]_vars /\ Fairness

-----------------------------------------------------------------------------
(* Properties.                                                              *)

Copies(d) == held[d] \cup cur[d]

\* At most one dispatcher ever holds a given lease epoch of a row, and while
\* one holds the newest, no other can be the row's lease_owner: a dispatcher
\* that lost its lease in the middle of a batch can neither complete, defer
\* nor fail the row for its successor (outbox.ts 197-198, 540).
EpochFencesHolders ==
    /\ \A d1, d2 \in Dispatchers : \A c1 \in Copies(d1), c2 \in Copies(d2) :
          c1.row = c2.row /\ c1.epoch = c2.epoch => d1 = d2 /\ c1 = c2
    /\ \A d \in Dispatchers : \A c \in Copies(d) :
          /\ c.epoch <= epoch[c.row]
          /\ c.epoch = epoch[c.row] => owner[c.row] \in {d, NoOwner}

\* A row that needs a receipt is completed only by the delivery of its newest
\* lease epoch, unless its run or the API withdrew it or it was dead-lettered;
\* other rows are completed only once they have been in the queue.  (A reopened
\* row keeps its epoch until it is claimed: the delivery before the reopening
\* may close it again.)
CompletedMeansReceived ==
    \A r \in Rows : completed[r] /\ ~dead[r] /\ r \notin withdrawn =>
        IF r \in NeedsReceipt THEN <<r, epoch[r]>> \in seen
                              ELSE \E c \in sent : c.row = r

\* While a row waits for a receipt there is, or was, a job that can give it:
\* BullMQ did not take the re-delivery for a duplicate of an earlier job.
AwaitedDeliveryWasSent ==
    \A r \in Rows : awaiting[r] =>
        [row |-> r, epoch |-> epoch[r], attempt |-> attempts[r]] \in sent

\* Dead-lettering means that every one of the row's attempts was used, and that
\* no receipt or withdrawal came first.  (An upserted row keeps the attempts of
\* its earlier lives, and its dead letter is reopened or withdrawn in name only.)
DeadLetterIsLastResort ==
    \A r \in Rows : dead[r] =>
        /\ r \in Upserted \/ (completed[r] /\ r \notin withdrawn)
        /\ r \notin Malformed => attempts[r] >= MaxAttempts

\* No statement of a late dispatcher or worker reopens a closed row, turns a
\* delivered row into a dead letter or takes a dead letter back: what is closed
\* is reopened by the sweep, while its finalization has not begun, and by the
\* producer that inserts the row again, and by nobody else.
ClosedStaysClosed ==
    [][\A r \in Rows : completed[r] =>
          /\ dead'[r] => dead[r]
          /\ \/ completed'[r] /\ dead'[r] = dead[r]
             \/ r \in Finalizers \ begun
             \/ r \in Upserted /\ upserts' # upserts]_vars

\* Every row that needs a receipt is closed in the end, whatever the queue
\* loses and wherever the dispatchers stop: acknowledged, withdrawn or
\* dead-lettered.  Finalizers and upserted rows are left out: the sweep and
\* their producers reopen or postpone them on purpose.
EveryReceiptResolves ==
    \A r \in NeedsReceipt \ (Finalizers \cup Upserted) : <>completed[r]

-----------------------------------------------------------------------------
(* What the safety properties rest on.                                      *)

Old(c) == c.attempt = c.epoch /\ c.epoch \in 1 .. epoch[c.row]

\* Epoch and attempt move together, nothing is newer than its row, and a
\* dispatcher sends one row at a time.
CopiesAreOld ==
    /\ \A r \in Rows : attempts[r] = epoch[r]
    /\ \A r \in NeedsReceipt : attempts[r] <= MaxAttempts
    /\ \A d \in Dispatchers : \A c \in Copies(d) : Old(c)
    /\ \A c \in sent : Old(c)
    /\ \A d \in Dispatchers : \A c1, c2 \in cur[d] : c1 = c2
    /\ queue \subseteq sent
    /\ \A x \in seen : \E c \in sent : c.row = x[1] /\ c.epoch = x[2]

\* BullMQ only knows the ids of jobs it was given.
IdsWereSent == \A i \in ids : \E c \in sent : OutboxJobId(c) = i

\* The row a dispatcher is about to record is in the queue or was.
RecordedWasSent ==
    \A d \in Dispatchers : \A c \in cur[d] : pc[d] = "record" =>
        IF c.row \in NeedsReceipt THEN c \in sent ELSE \E j \in sent : j.row = c.row

WithdrawnIsClosed == \A r \in withdrawn : completed[r]

\* The inductive invariant.
OutboxInv ==
    /\ TypeOK /\ CopiesAreOld /\ EpochFencesHolders
    /\ IdsWereSent /\ RecordedWasSent /\ AwaitedDeliveryWasSent
    /\ WithdrawnIsClosed /\ DeadLetterIsLastResort /\ CompletedMeansReceived

-----------------------------------------------------------------------------
(* The receipt rows implement OutboxContract.                               *)

Receipts == NeedsReceipt
statusBar ==
    [r \in Receipts |-> IF dead[r] THEN "dead"
                        ELSE IF ~completed[r] THEN "open"
                        ELSE IF r \in withdrawn THEN "withdrawn" ELSE "done"]
triesBar == [r \in Receipts |-> attempts[r]]
sentBar == [r \in Receipts |-> {c.attempt : c \in {j \in sent : j.row = r}}]
gotBar == [r \in Receipts |-> {n \in 1 .. attempts[r] : <<r, n>> \in seen}]

Contract == INSTANCE OutboxContract WITH
    Items <- Receipts, Reopenable <- Finalizers \cup (Upserted \cap Receipts),
    Unsendable <- Malformed \cap Receipts, MaxTries <- MaxAttempts,
    status <- statusBar, tries <- triesBar, sent <- sentBar, got <- gotBar

\* Every step of dispatchers, queue, workers and producers is a step the contract
\* allows.
ContractSpec == Contract!Spec
=============================================================================
