# A TLA+ verification of Berry's durable runtime

Berry runs an agent turn as a durable state machine: a row of `turn_runs` in
PostgreSQL, advanced one bounded state per queue delivery by workers that may
die, stall or be overtaken at any point, and controlled by API transactions
(cancel, approve, answer, recover). What wakes a run is a row of
`runtime_outbox`, published to BullMQ by dispatchers that may fail as well.
Around that core stand five more mechanisms with the same kind of difficulty:
how a request is admitted and its budget reserved and settled, the queue of
follow-up prompts of a session, scheduled tasks, the files with the stored
objects behind them, and the finalization of a run that leaves a sandbox. This
project models these seven, checks them with TLC on small instances, and proves
the safety of all seven with TLAPS for every instance.

## 1. Inventory

| Component | State | Operations | Interacts with |
|---|---|---|---|
| Runtime outbox (`apps/worker/src/outbox.ts`, `processor.ts`, `bullmq.ts`) | `runtime_outbox`: completed, dead, lease owner/expiry/epoch, attempts, receipt deadline; jobs and remembered job ids in BullMQ | claim, prepare, enqueue, defer or complete, fail, dead-letter, reopen finalizations, acknowledge; insert again and cancel (producers) | every component that inserts rows; the workers that consume jobs |
| Durable turn runner (`apps/worker/src/turn-runner.ts`) | `turn_runs` (state, version, lease, generation), `turn_steps`, `approvals`, `turn_questions` | claim, hydrate, assemble, callModel, executeTool, finalize, commit, release, heartbeat, execute's catch | outbox rows written in the same transaction as a commit; providers and tools |
| Durable turn API (`apps/api/src/runtime/durable-turn.service.ts`) | the same rows | admit, cancel, decideApproval, answerQuestion, expire, recover | writes wake-up rows, publishes cancellations |
| Lease-recovery scan (`outbox.ts` 99-124) | recovery rows keyed by run version | one `INSERT ... SELECT` per cycle | runs and their outbox rows |
| Admission intents (`agent-api.controller.ts` startTurnRequest, `durable-turn.service.ts` 117-499, `outbox.ts` 308-418) | `turn_admission_intents` with attempt and preparation lease | begin, reserve, admit, fail, cancel, expire | budget ledger, runs |
| Budget (`apps/api/src/budget/budget.service.ts`, `turn-runner.ts`, `maintenance.ts`) | `budget_reservations`, `credit_ledger_entries`, the tenant's advisory lock | reserve, extend, reconcile, release | admission, runner, recovery, maintenance |
| Queued follow-ups (`queued-follow-up.service.ts`, `turn-runner.ts` 8303 ff.) | ordered items with status and expiry, a zero-cost reservation each | enqueue, edit, resume, reorder, cancel, expire, promote, pause | session, admission, cancellation, waits |
| Scheduled tasks (`packages/db/src/scheduled-tasks.ts`, `task-schedule.ts`, the API's dispatcher) | schedules, occurrence ledger with claim lease | create, update, remove, runNow, enqueueDue, claimPending, authorizeClaim, admitted, failed | admission |
| File blobs (`file-blobs.ts`, `file-platform.service.ts`, `file-lifecycle.ts`, `maintenance.ts`) | files, uploads, references, blob verification and deletion state, objects in storage | initiate, complete, abort, expire, collect, verify, deduplicate, delete, revisit | outbox receipts, object storage |
| Sandbox continuity (`sandbox-continuity.ts`) | `turn_finalizations`, `artifact_operations`, recorded and real state of the sandbox, its advisory lock | begin, publish, fail and finish a finalization, pause, skip, retry | outbox rows, blob verification, newer runs |
| Maintenance (`maintenance.ts`) | none of its own | release orphan reservations, collect orphan files, retire expired uploads, revisit blobs | budget, files |
| The rest | identity, governance, connectors, knowledge, memory, harness, clients | request/response or single-process | see `PROJECT.json` |

What is hard here: several dispatchers and workers on the same rows with leases
that expire by time; at-least-once delivery through a queue that deduplicates by
job id and may lose its jobs; a process that dies between a side effect and the
commit that records it; a snapshot read before a long await and written after
it; API transactions between any two steps; rows that are dropped silently by
`ON CONFLICT DO NOTHING`. `PROJECT.json` lists each hazard at its line with the
properties that would catch it.

## 2. Modules

| Module | What it is |
|---|---|
| `RuntimeOutbox` | the outbox with dispatchers, leases, queue and receipts; its properties and inductive invariant; the refinement mapping |
| `OutboxContract` | what the outbox promises of a row that needs a receipt: numbered attempts, an end that is *done*, *dead* or *withdrawn*, and which rows may open again |
| `MCRuntimeOutbox` | TLC instances (`MCOutboxRace.cfg`, `MCOutboxKinds.cfg`) |
| `RuntimeOutboxProofs` | type correctness, the inductive invariant, four safety theorems, one action property |
| `OutboxRefinement` | the outbox implements the contract |
| `DurableTurn` | one turn: its row and step, the workers, the API, the recovery scan; on top of what `OutboxContract` promises |
| `MCDurableTurn` | TLC instances (`MCTurn*.cfg`) |
| `DurableTurnProofs` | type correctness, the inductive invariant, four safety theorems, two action properties |
| `TurnAdmission` | requests of one session, their preparers, the budget ledger, the worker's spending, sweeps, cancellation and operator recovery |
| `AdmissionContract` | what admission and budget promise of a request and its accounts: it runs on an open account or is cancelled before it ran; an account is opened once and closed once, at no more than it held and what one call may cost above its estimate |
| `TurnAdmissionProofs` | type correctness, two inductive invariants, five safety theorems (the hard limit among them), one action property, and that admission implements the contract |
| `QueuedFollowUps` | the queue of one session and its promotion |
| `QueuedFollowUpsProofs` | type correctness, the inductive invariant, one safety theorem, two action properties |
| `ScheduledTasks` | schedules, their runs, the dispatchers' launches; its properties and inductive invariant |
| `ScheduleContract` | what scheduled tasks promise of an occurrence and its chat: recorded once, taken, put back or settled, one chat at most |
| `ScheduledTasksProofs` | type correctness, three inductive invariants, four safety theorems, one action property, and that scheduled tasks implement the contract |
| `FileBlobs` | uploads, references, collectors, verification and deletion |
| `FileBlobsProofs` | type correctness, the inductive invariant, two safety theorems |
| `TurnFinalization` | terminal finalization of one run against its retries, the blob verifier and a newer run |
| `TurnFinalizationProofs` | type correctness, the inductive invariant, two safety theorems |
| `MCTurnAdmission`, `MCQueuedFollowUps`, `MCScheduledTasks`, `MCFileBlobs`, `MCTurnFinalization` | TLC instances (`MCAdmission.cfg`, `MCQueue.cfg`, `MCSchedule.cfg`, `MCBlobs*.cfg`, `MCFinalization.cfg`) |

The modules meet where the code does. `DurableTurn` uses the outbox through
`OutboxContract`, which `RuntimeOutbox` is proved to implement; `AdmissionContract`
and `ScheduleContract` are what a caller of admission and a user of scheduled tasks
may rely on, without the attempts, leases and locks behind it. `ScheduledTasks`
has the admission of `TurnAdmission` reduced to the attempt that may admit, the
reservation and the turn; `QueuedFollowUps` has the session's turn reduced to
running, waiting and how it ended; `FileBlobs` and `TurnFinalization` have the
outbox rows that concern them, and `TurnFinalization` the verdict of the blob
verifier.

### RuntimeOutbox and the code

One step is one SQL transaction or one call to Redis. `completed`, `dead`,
`owner`, `lease`, `epoch`, `attempts` and `awaiting` are the columns of a row;
`due` is `COALESCE(receipt_due_at, available_at) <= now()`. Time is abstract: a
lease goes from live to expired, and a row becomes due, at any moment. A cycle
of `dispatchDue` is `ReopenFinalizations`, `DeadLetterExhaustedReceipts`, `Claim`
and then, for each claimed row, `Prepare`, `Enqueue` and `Record` or `Fail`. The
dispatcher keeps its own copies of the claimed rows (`held`, `cur`), which is
what makes it stale. `Start` is `processBerryWorkerJob` for the jobs that are
acknowledged when they start, `Work` and `AcknowledgeWork` the file jobs that
are acknowledged at the end. `Leave` is external: a job ends, fails for good or
is lost, and BullMQ forgets its id or not.

Rows of the kinds `file.verify-blob`, `file.delete-blob` and `knowledge.extract` are
inserted again under the same key (`Upserted`). `Reopen` is what the six conflict
clauses share, `completed_at=NULL`; `Upsert` is the plain one (`file-lifecycle.ts` 169,
`maintenance.ts` 575, `file-platform.service.ts` 656 and 1935), `UpsertDuplicate` that
of `finalizeVerification`, which also takes the dead letter and the receipt deadline
back, `UpsertWatchdog` that of a verification that begins, which moreover takes the
lease from whoever has it. `CancelDeletion` is the API's closing of an open
`file.delete-blob` row. None of them touches `attempts` or `lease_epoch`.

`sent`, `seen` and `withdrawn` are history variables: nothing in the model's
guards reads them except `AcknowledgeWork`, for which `seen` stands for the
work the same job has just done.

### DurableTurn and the code

`run` is the `turn_runs` row, `tool` and `model` the latest steps, `doubt` says
that an earlier call of the held tool failed with an unknown outcome. A worker
(`ws[w]`) goes through the program points at which the code awaits a commit or a
long operation: *started* (receipt acknowledged), *claimed*, *ready* (hydrated),
*prepared*, *requested*, *answered* (callModel's commits under a kept lease),
*intended*, *ran* (executeTool), *publishing* (finalize), *raised* (execute's
catch). Its snapshot of state, step and version is kept from hydration on, as in
the code. `lease_owner` is a fresh uuid per claim, so the fence of `commit`,
`release` and `heartbeat` is equality of generations on a leased row.

A wake-up row is an element of `outbox.open`, `outbox.used` holds every dedupe
key ever inserted. Delivery is what the contract promises: an open row can be
published, more than once, until a worker starts its job (`Start` closes it) or
it is dead-lettered. A job has `left` BullMQ attempts.

Tool kinds: *idempotent* (reads and idempotent calls), *sandbox* (bash and edit),
*held* (other non-idempotent calls, which wait for review when their outcome is
unknown) and *question*. `asks` says that the call requires approval.

Not in the model: context compaction (one more active state with the same
commit pattern), parallel read-only batches (reads only), the loop guards (they
end in one more model call), several tool calls in one answer, the turn events
and the session projection. Budget settlement and sandbox finalization have
modules of their own.

### TurnAdmission and the code

One session of one tenant, with one hard limit; a ledger entry stands for its
copies per scope (organization, department, user), which are written together.
A preparer (`prep[p]`) is one HTTP request of `startTurnRequest`: it begins an
attempt under a preparation lease (`BeginAdmission`), takes the tenant's advisory
lock and sums the ledger (`CheckBudget`), posts the reservation
(`InsertReservation`), admits or is refused, and on failure runs the catch block,
whose settling of the reservation (`ReleaseFailed`) and closing of the attempt
(`FailAdmission`) are separate transactions. Several attempts of a request share
its request id and so its reservation, which is what makes a late catch block
dangerous. The worker extends the reservation before a model call, records what
the call cost and settles at the end; the sweep closes expired attempts;
maintenance releases, at any moment after fifteen minutes and so at any step of
the model, the reservations it takes for orphans; `Recover...` is the operator's
recovery, which opens the budget generation `<base>:recovery:<n>`. `cycle` is the
accounting cycle, counted up at any moment; a reservation and its entry are dated
by the start of their transaction (`prep.at`), which may have waited for the lock
since an earlier cycle. A hard limit of 0 means none in the code, so the model's is
positive. Quotas of allowance plans are left out.

What a call costs is any amount up to `MaxCallCost`, a bound of the model that may lie
above `CallEstimate`, as in the run: the code estimates a call from the length of the
request (`turn-runner.ts` 6119) and settles what the provider reports. `Overrun` is
the sum of what settlements charged above their reservations. A run need not end: it
may wait for its user, and a wait expires only in the user's own call
(`durable-turn.service.ts` 1154, 1343).

### QueuedFollowUps and the code

An item has its `ordinal`, and `next` is the `COALESCE(MAX(ordinal),-1)+1` an
enqueue would take; `reorder` writes new ordinals. Edits and reordering take the
task's row and wait while an enqueue holds it. The status `delivering` is written and left
within one transaction and never seen, so the model has none. Promotion happens
in the terminal commit of a turn (`CompleteTurn`) and in the idle sweep. Two
operations overlap others and are split: `enqueue` holds the locks on task and
session while the budget is reserved in a transaction of its own, and a
cancellation pauses the items it sees before it reaches the task's row. The statement
that locks task and session reads `turn_runs` in its own snapshot
(`queued-follow-up.service.ts` 77; PostgreSQL reads only the locked rows again after a
wait), so `EnqueueRead` sees the turn and `EnqueueLock` gets the locks later, without
looking at the turn. A turn may be *waiting*, which only the user ends, or *stranded*
(finding 1). `starts`, `last` (how the turn before ended), `resumed` and `late` (the
enqueues that were waiting when the turn failed) are history variables.

### ScheduledTasks and the code

The clock counts the minutes of the calendar; `nextTaskScheduleRun` is *a minute
after now* for a cron expression and the stored time for a one-time task, which
keeps what the properties need (strictly later, or not) and leaves out the
calendar. A claim's owner is a fresh uuid, here the number of the claim. `launch`
is the program counter of each claim's dispatcher. `failed()` is split into
`FailedReads` and `FailedCommits`, between which it holds the rows of schedule and
run (`lock`), because other transactions that do not take those locks (admission,
the turn's end) may run in between. A turn is *active*, *held* for review, *resumed* by
`recover` or *ended*; `busy` counts a held one as over. Status changes of the run's chat are written
in the same transactions and left out.

### FileBlobs and the code

A file comes by upload or is stored directly (a sandbox output, an image, an import),
and with a declared digest or none; `Origins` says which of these a run has, and
`expected` keeps whether the declared digest is that of the bytes. Verification
compares size and digest (`Matches`), compares the expectation again under the lock
(`ExpectationChanged`), and quarantines the blob's files after an integrity error.
`DeleteObject` erases object versions; parts of a multipart upload stay, as in the
code. `GraceEnds` assumes that the seven days outlast a request.

The blob an upload creates has the name of its file. Every API call and job is
split where it leaves PostgreSQL for object storage, and a collection where it
has read the other files of the blob and has not committed. A claim's id is the id
of the outbox row, so two deliveries of one row share a claim: the model has no
owner there but the row's attempt (`epoch`). The grace period before deletion is
the step `GraceEnds`. A deleted file never comes back. What happens rarely (a
fault, a delivery that overtakes a live worker, a maintenance pass, a logo, an
abort, an upload of the wrong size) is an event that `used` records, each kind
at most once and `MaxEvents` in all. Not in the model:
quarantine and release by an administrator, downloads and previews, and the row of an
import, which has its digest from the beginning and so never its expectation changed
(`expected` *right* stands for it).

### TurnFinalization and the code

A job execution holds the sandbox's advisory lock in a transaction of its own
while its writes to `turn_finalizations` and `artifact_operations` commit one by
one through the pool, so an error undoes the recorded sandbox state and nothing
else. `fin.owner` is the process id, as in the code: two executions of one
process are not told apart. A snapshot that times out frees the lock while its
publication goes on: the job itself goes to the finally block, the publication takes
the free slot of another execution of the process, as a ghost, until it ends. A
suspend can be refused, or be given up by `withTimeout` (70 s, no abort is passed on):
then `inflight` stays, the lock is freed, and `SuspendLands` may happen at any later
moment. The archive can fail in capture, upload or record, after which the finally
block still stops the sandbox. A verdict may come again for a failed blob, and an
overtaken verifier may settle the operations of a verified blob as failed; that it also
quarantines the file is in `FileBlobs` only. The receipt of
a `sandbox.snapshot` row is acknowledged when its job starts (`Take`,
`processor.ts` 53), so the row says nothing of how the job ends: BullMQ repeats a
failed job up to `JobAttempts` times (`queue`), and only the sweep opens the next
row. `CompleteWaits` and `CompleteResumes` are the `UPDATE ... FROM` of
`completeArtifactOperation` when it has to wait for the operation's row and goes on
with the blob it read before. `faults` counts what went wrong (`spent`, at most
`MaxFaults`) and remembers of which kinds it was, and three marks that say that an
exception of a property was met: a background publication was slower than its lease
(*slow*), a skip reset a finalization that had begun (*overwritten*), an attempt did
not count an output it could not read (*uncounted*). Not in the model: contents and restore
of archives, snapshots at intervals and before waits, the operator's
`reopenRecoveryLifecycle`, the lock wait of `finishFinalization` itself, the
sweep that cleans up sandboxes of ended runs.

## 3. Runs

| Run | Instance | Shows |
|---|---|---|
| `outbox_race` | a turn row and a row without receipt, 2 dispatchers, 2 attempts, 1 crash | fencing, job identity, last-resort dead letters, the contract, and that every row is resolved |
| `outbox_kinds` | a finalizer and the snapshot it supersedes, which never parses, a file row inserted again twice; 1 attempt | superseding, reopening by the sweep and by producers, cancelling, receipts at the end of the work and malformed rows keep the contract; nobody else reopens a closed row |
| `turn_writes` | 2 workers, a connector write with and without approval or a shell command, 1 fault, 1 operator retry | no call begins twice unasked or before it is approved; run, step and decision agree; late workers never touch an ended run; every wake-up is new |
| `turn_settles` | 1 worker, reads, questions and writes, 2 iterations, 2 attempts, 1 fault, 1 operator retry | a call after a doubtful one is reviewed first; the run leaves the active states, unless its recovery row was spent |
| `turn_reclaim` | 1 worker, the code's 3 job and 8 row attempts, 2 faults | **violation**, see section 5 |
| `turn_shell` | 1 worker, 1 fault | **violation**, see section 5 |
| `admission` | 2 requests, 2 preparers, 2 attempts, limit 2, calls estimated at 1 that cost up to 2; an error, a second budget generation or the end of a cycle | ledger and reservation agree, the hard limit holds but for what calls cost above their estimates, a run keeps its reservation and is charged what it cost, intent and run agree, a cancelled request never runs, the contract of a request and its accounts, no reservation stays open without a run |
| `queue` | 2 items, queue of 2, 2 turns, a wait, a stop, 2 updates | at most one turn per item, in order; a failed turn holds the queue, late enqueues aside; the head moves on unless a turn waits or is stranded; reservations of items never delivered are released |
| `schedule` | 1 schedule, 2 runs, 2 claims, 2 minutes, a fault, 2 changes | due occurrences are new, late settlements change nothing, the ledger says what happened, occurrences do not overlap, recovered turns aside, the contract of an occurrence (a deleted schedule puts none back), every run settles |
| `blobs_race` | 2 files with equal bytes, of any origin and declared digest, 2 workers, an API call, 2 deliveries, 1 event | a live file has its object, the last file schedules the deletion |
| `blobs_settle` | a file stored directly and an uploaded one, any declared digest, 2 workers, an API call, 2 deliveries, 1 event | orphans are erased, stored blobs verified and their files out of quarantine |
| `finalization` | 2 outputs (one published before), 2 job executions of one process, 2 row and 2 job attempts, 1 fault, a newer run | *complete* means that every output was published, a newer run keeps its sandbox but for a suspend that was given up, every run gets an outcome, operations follow their blobs |

Bounds. The races are between two parties (old and new owner of a lease, worker
and API), so two dispatchers or two workers are enough to have a stale one and
its successor; two attempts give an earlier and a latest delivery; a second row
shows what a batch of two does to its dispatcher, and `outbox_kinds` has the rows
that do interact. `MaxFaults` counts what can go wrong (a crash, a lost queue, a
stall past the lease, a provider or tool error, a second publication): one fault
anywhere in a turn is where the code promises recovery without help; two are
enough for the finding. One iteration contains a model call and its tool call;
`turn_settles` has two. `MaxClaims` bounds the retries of rows without an attempt
limit. Two preparers and two attempts give a stale attempt and its successor; a
limit of two units with estimates of one is reached by two concurrent checks. Two
queued items give a head and one behind it, and an order to change. Two claims of
a run give the overtaken dispatcher and the one that took over, two runs an
occurrence and the one it might overlap; the retry limit is 2 instead of 3 so that
it is reached. Two files with the same bytes are what deduplication needs; two
outputs are what *partial* needs, and of the two one is published before the end
so that the finalizer meets both cases. `MaxUpserts` of two lets a row be reopened, closed
or dead-lettered, and reopened again. A call may cost one unit more than estimated, which is
enough to pass the limit by it. Rare events and faults happen one at a
time: any kind, at any step.

The workers of `turn_writes` and `blobs_race` are interchangeable and these runs
check safety only, so they use symmetry. Deadlock is checked for the outbox, whose
cycle never stops, and not elsewhere: turns, queues, schedules, files and
finalizations come to an end, or to a bound of the model.

Every module has its `TypeOK`, which is a conjunct of its inductive invariant and
proved; no run is spent on it.

Fairness. Outbox: `Cycle(d)` weakly fair because every worker process runs the
dispatch loop on a timer, and time passes for leases and deadlines; nothing is
assumed of the consumers of the queue, which may lose every job. Turn: a worker
carries on with what it started, the dispatcher polls, and the lease of a worker
that is gone runs out. Admission: a request that was begun is carried on by its
handler, and maintenance runs; nothing ends a run. Queue: the idle sweep, the ends of
turns that a worker runs (not of those that wait or are stranded)
and the second half of a stop are strongly fair, because they wait for locks that
PostgreSQL grants in order, so a sweep that wants the session's row gets it
although enqueues and stops keep taking it. Schedules: every replica polls, so a
claimable run is claimed although the tick may find other work first (strong
fairness), and launches proceed; the lease of a dispatcher that died runs out.
Files: jobs once taken proceed, open rows are delivered although other workers may
hold the blob's row meanwhile (strong), claims and grace periods end.
Finalization: jobs proceed, which means waiting for the sandbox's lock (strong),
deliveries, the sweep and the first verdict on a blob go on, leases end; no suspend that
was given up has to take effect. No user or operator is assumed to act: no wait, review or
stranded turn has to end, the producers of outbox rows are not fair, and faults never have
to happen.

Each property has a mutant in `PROJECT.json`: a plausible bug in the mapped
code, defined beside the original, that TLC shows to violate the property.

## 4. Proofs

Assumptions: `RowsAssumption` (how rows are classified; finalizers are
start-receipt rows and always parse), `OwnerAssumption` (`NoOwner` is no
dispatcher), `BoundsAssumption` (bounds are naturals, at least one attempt).
Rows and dispatchers are arbitrary sets, finite or not.

None of the safety properties is inductive alone. `OutboxInv` conjoins them with
what they rest on:

* `CopiesAreOld`: a row's epoch and attempts move together; copies and jobs are
  never newer than their row; a dispatcher sends one row at a time. Without it a
  stale copy could carry the current epoch.
* `IdsWereSent` and `RecordedWasSent`: BullMQ only remembers ids of jobs it
  got; with one id per attempt, a re-delivery it takes for a duplicate really is
  in the queue. This carries `AwaitedDeliveryWasSent`.
* `WithdrawnIsClosed`: needed by the dead-letter and completion properties.

The lemmas `Next...` of `RuntimeOutboxProofs` show for each conjunct that every
action preserves it; `OutboxInvariant` combines them, and `HoldersAreFenced`,
`ReceiptsAreEarned`, `AwaitedWasSent`, `DeadLettersAreExhausted` and
`ClosedRowsStayClosed` follow. An upserted row keeps its epoch when it is
reopened, so `CompletedMeansReceived` speaks of the newest epoch and not of the newest life,
and `DeadLetterIsLastResort` says less of upserted rows (section 5). `OutboxRefinement` shows, action by action, that a
step of the outbox maps to a step or a stutter of `OutboxContract` under the
mapping at the end of `RuntimeOutbox` (a row is *done*, *dead*, *withdrawn* or
*open*; its tries are its attempts), using the invariant on both sides:
`OutboxImplementsContract`.

### Scheduled tasks

Assumption: `BoundsAssumption` (bounds are naturals, the clock has a first
minute). The set of schedules is arbitrary, and so are the numbers of runs,
claims, errors, crashes, overtaken leases and changes.

`ScheduleInv` conjoins the type invariant with

* `RecordedIsPast` and `NextIsLater`: what is recorded lies at or before now, and
  an active schedule looks beyond everything recorded for it. `DueIsNew` alone is
  not inductive, since resuming gives a paused schedule a new time: that it is new
  follows from its being after now, and everything recorded not being after now.
* `LockedHolds` and `LockedOwns`: whoever is between the two halves of `failed()`
  holds the schedule and still owns the run. `LockedAlone` concludes that there is
  one at most, which `FailedCommits` needs to give back the lock, and
  `SettlementsAreFenced` needs because `FailedCommits` does not compare the owner
  again.
* `DeletedIsPaused` and `RetryingIsKept`: a run is only put back while its
  schedule is not deleted, and deletion waits for the lock. `DeletedNeverPending`
  rests on both.

One lemma per group of actions shows that the invariant is kept (`LaunchInv`,
`ChangeInv`, `CreateInv`, `RunNowInv`, `EnqueueInv`, `ClaimInv`, `AdmittedInv`,
`FailedReadsInv`, `FailedCommitsInv`, `CrashInv`, `OtherInv`); `ScheduleInvariant`
combines them, and `TypeCorrect`, `OccurrencesAreNew`, `DeletedStartsNothing` and
`SettlementsAreFenced` follow.

`RecordMatchesTurn` and `NoOverlap` need a second invariant, `TurnsInv`, about the
histories in which no dispatcher is overtaken (`overtakes` only grows, so every
state of such a history has none):

* `AliveIsCurrent`: a launch that goes on holds the live lease of its run, or the
  turn exists already. So of two launches of a run only one can still start the
  turn, and a run that `claimPending` may take has no launch under way.
* `KnowsTheTurn`: what `failed()` saw of the turn stays true until it commits,
  although admission does not take its locks: whoever could start the turn would
  have to be the current claim, which is the one within `failed()`.
* `RecordFollowsTurn`: a turn starts only while its run is being dispatched.
* `OneUnderWay` (recovered turns are left out, as in `NoOverlap`): needed inductively because `busy` looks at all runs of the schedule
  and relies on `RecordFollowsTurn` for a turn whose run is not waiting any more.

`ScheduleImplementsContract` maps a schedule to whether it is deleted and a run to its
record (*pending*, *taken*, *admitted*, *failed*, *skipped*) and its chat, and holds
for all histories, the overtaken dispatchers included: `ScheduleContract` says what an
overtaken one may still do (start its chat late, record a failure beside it) and that
it can do nothing else. `enqueueDue` and `claimPending` map to `Record` and `Take` of
sets of occurrences, the two halves of `failed()` to a stutter and one step at its
commit, the clock and the leases to stutters. Two guards of the contract are not visible in the code's own
conditions and come from invariants: a chat starts only for a recorded occurrence
(`LaunchKnows`, which holds with overtaken dispatchers too), and without an overtaken
dispatcher a failure is recorded only when there is no chat (`TurnsInv`).

### Durable turn

Assumptions: `WorkersAssumption` (finitely many workers, at least one),
`CallsAssumption` (what a tool call is) and `TurnBounds`. `TurnInv` has, besides
the types,

* `LeaseFences` and `HolderIsCurrent`: generations are used once, and the worker that
  holds the lease has a snapshot that agrees with the rows. Every commit is fenced by
  the generation, so these two turn a worker's decision on its copy into a fact about
  the stored run.
* `PlaceMatchesState` and `IterationMatchesState`: where a worker stands tells what
  state it claimed and that there is a call at hand.
* `CallsAreCounted`, over `Begun`: `ToolStartedOnce` is not inductive, because a
  worker that recorded its intent and stalled may begin the call after its lease is
  gone. What is bounded is the number of beginnings *plus* the workers that may still
  begin; each was paid for by the call itself or an operator's retry, approved, and
  reviewed. `ToolStartedOnce`, `ApprovedBeforeRun` and `DoubtfulCallIsReviewed` follow.
* `UnmadeCallsNotBegun` and `QuestionsAreAsked` for the calls to come, and
  `KeysAreSpent`: used dedupe keys lie behind the run's version and iteration, which
  is what `WakeIsNew` needs.

The actions fall into groups that are proved together: what only moves a worker
(`ClaimKeptSteps`, `UnclaimedSteps`), claims, intents, runs, and commits, which are
treated by the state they lead to (`ToNextCall`, `ToCall`, `ToWaiting`, `ToDecided`,
`ToRetry`, `ToFinalizing`, `ToTerminal`) whoever makes them.

### Admission and budget

Assumptions: `SentinelAssumption`, `FiniteAssumption` (finitely many requests, for the
sum over the ledger), `AmountsAssumption` (amounts are naturals, the hard limit is
positive) and `BoundsAssumption`; preparers are an arbitrary set. `AdmissionInv` adds
to the properties

* `PreparersDistinct`: an attempt of a request belongs to one preparer, so a
  superseded one is recognised by its number;
* `CheckedIsNew`: between the check and the insert, under the tenant's advisory lock,
  nobody else inserts the reservation;
* `LedgerKept`: which entries a reservation has and what each says, by its status.
  `LedgerMatchesReservation` speaks of the net amount only, and that is not inductive:
  the next entry depends on which were posted;
* `RecoveryHolds`, `AdmittedAlone` and `EndedIsSettled`: a request admitted at its
  first attempt has no preparer left that could settle its reservation, which carries
  `RunIsFunded`, and the end of a run settles at its cost, which carries
  `UsageIsCharged`.

Nothing is assumed of what calls cost. The code settles whatever the provider reports,
so the limit is stated of the ledger less `Overrun`, what settlements charged above their
reservations, and the contract closes an account at no more than it held and
`CallExcess`, what one call may cost above its estimate. `SpendingInv` is inductive
together with `AdmissionInv`:

* `CheckStands`: what the holder of the tenant's lock read of the current cycle still
  leaves room for the estimate when it inserts. Whoever else posts meanwhile only
  gives back; extensions and recoveries take the same lock.
* `ReservationCovers`: what a run has used and the estimate of the call it waits for are
  reserved but for the excess of its last call, so a settlement charges at most that much
  above what was held, in whichever cycle it is posted.
* `NothingAhead`: no row is dated ahead of the cycle, so a new cycle starts empty.

A step then changes the sums by the amount it posts (`SpentChange`). The sum is the
library's recursive sum over a finite set, and that it is well defined and changes with
one summand is an induction over data. It is done here without an induction theorem:
if some subset of the finite set had no solution of the recursion, there would be one of
least cardinality (`LeastNatural`, from the well-foundedness of the naturals, which the
library states for sets), and removing an element refutes it (`SumExists`,
`SumUnfolds`, `SumChange`). `SpendingWithinLimit` follows.

`AdmissionImplementsContract` maps a run and its intent to *waiting*, *running*,
*ended* or *cancelled* and a reservation to an account with the amount it holds. An
insert is `Open` or `Deny`, an extension `Raise`, and every other writer of the ledger
(catch block, sweep, cancellation, recovery, maintenance) a `Release` or a stutter. That
a run starts on an account that is open is the check of the admission transaction; that
its end closes at no more than the account held and the excess of one call is
`ReservationCovers`.

### Queued follow-ups

Assumptions: `ItemsAssumption` (finitely many items) and `BoundsAssumption`.
`QueueInv` has `OrdinalsDistinct` (the first of a queue is then unique, for
`InOrder`), `StartedIsDelivered` (from which `DeliveredOnce`), `WriterIsNew` and
`HeldAreQueued` for the two operations that overlap others, and `FailureHolds` for
`InterruptionHoldsQueue`: after a failed turn the queue has only what was resumed and what
waited for its commit.

### Files

Assumptions: `ContentAssumption` (there is a file, and each has a digest) and
`BoundsAssumption`; files, workers and calls are arbitrary sets. `LastFileSchedules`
says that a blob without live files is scheduled for deletion. `BlobInv` adds its
converse, `DyingHasNoFiles`, and

* `CollectorsHoldTheirBlob`: one collector is on a blob at a time and what it decided
  is still so when it commits, since it holds the rows of the blob's files;
* `LeavingIsFinal`: a file leaves its own blob only when that blob dies, so a request
  that read the file before it was merged does not meet it on its old blob again;
* `ErasersHoldDyingBlobs`, `VerifiedIsStored`, `MovedIsStored` and
  `CompletingIsStored`: bytes are erased of dying blobs only and a verified blob has
  its bytes, so moving the files of a duplicate is safe. `LiveFileHasObject` rests on
  all of them.

### Finalization

Assumption: `FinalizationAssumption` (finitely many outputs and workers, named apart
from `"free"`; bounds). `NewerRunKeepsSandbox` rests on `LockGuards`, a job
decides and pauses under the lifecycle lock, and on `SuspendsExplained`, a suspend that
nobody waits for was given up by its timeout. `CompleteMeansPublished` is about
numbers, and so is its invariant:

* `JobMatchesRows`: what a publication passes over is verified, the output in its
  hands has an operation once it started one, and it has counted at least what it
  handled;
* `OperationsAreTrue`: a complete operation has a verified blob;
* `RunningIsPublished`: unless something was cut short, the row is *running* exactly
  while the holder of the lock publishes, so no verdict is applied to half a listing
  and taken for the whole;
* `AttemptCounts` and `ItemsCoverOwed`: the recorded count covers every output that
  has an operation or no verified blob. If as many operations are complete as the
  count says, none of these is left: that is the argument from a count to *every
  output* (`FinishCovers`, `VerifyCovers`, with the theorems on cardinality).

The proof attempt found the third exception of the property (*uncounted*, section 5),
which needs two failed reads and so is beyond the one fault of the run.

TLC checked every inductive invariant before it was proved, on the runs' instances,
and some on larger ones: `FinalizationInv` with two faults (the first ten million states,
not to the end), `ScheduleInv` and `TurnsInv` with two faults (3.6 million),
`ScheduleContract` with two faults and one change (570 thousand).

### Only model-checked

The liveness properties, which are out of the prover's reach (`EveryReceiptResolves`,
`SettlesOrRecoverySpent`, `EveryReservationSettles`, `HeadMovesOn`,
`DeadReservationReleased`, `EveryRunSettles`, `EveryBlobSettles`, `EveryRunFinalized`,
`OperationFollowsBlob`). Every safety invariant, action property and refinement that a
passing run checks is proved. Conversely `CompletedMeansReceived`,
`DeletedNeverPending` and the `TypeOK` of every module are proved and checked by no run
of their own.

## 5. Findings

1. **A run can be stranded** (`turn_reclaim`). The recovery scan wakes a run once
   per version, because its key is `<run>:recovery:<version>` and a second insert
   does nothing. The row is closed when its job starts, and neither a claim nor a
   release moves the version. If that delivery ends without a commit, nothing
   wakes the run again. TLC's trace: a delivery takes longer than five seconds to
   reach its claim, so the scan already inserts the recovery row; the worker then
   claims and dies; the recovery job and the redelivered job find the lease still
   live and end as no-ops; the lease expires. `docs/durable-context-operations.md`
   (203, 212) says that expired leases are reclaimed. `turn_settles` shows the
   rest of the claim: without a spent recovery row the run settles.
2. **Interrupted shell commands are not reviewed** (`turn_shell`).
   `docs/durable-context-operations.md` (205-207) says that an interrupted shell
   command marks the run `recovery_required`; the code sends it back to the model
   as failed (`holdsForReview`). It is not run again, so `ToolStartedOnce` holds.

`PROJECT.json` quotes the documentation these two disagree with.

### Disagreements

The other models contain more behaviour of the code that a comment, a document or
a test of the repository speaks against. No run is spent on each; the properties
say what remains true, and where one is restricted for such a case the restriction
is named here.

**Outbox** (`RuntimeOutbox`). `docs/file-lifecycle.md` 66 says "A new run safely revisits
unverified or failed blobs", which rests on rows that are inserted again:

* *A reopened row keeps its attempts* (`maintenance.ts` 578, `file-lifecycle.ts` 173): one
  at the limit is dead-lettered by the next sweep without a delivery, and one that was
  dead-lettered is open again in `completed_at` only, so nobody claims it. Hence the
  exception of `Upserted` rows in `DeadLetterIsLastResort` and `EveryReceiptResolves`.
* *A delivery from before the reopening may close it* (`file-blobs.ts` 680, 701): the lease
  epoch is not raised, so the receipt of the row's earlier life is accepted. For a row
  without receipt (`knowledge.extract`) the job id stays the same, and BullMQ may take
  the second delivery for the first; `AwaitedDeliveryWasSent` is about receipt rows.

**Admission and budget** (`TurnAdmission`)

* *The hard limit can be passed by what a call costs above its estimate* (`turn-runner.ts`
  3714, 6119, 9008): the next call's estimate is checked, the cost of the last is not.
  `WithinLimit` leaves that part out.
* *A reservation stays as long as nobody answers* (`durable-turn.service.ts` 1154, 1343;
  `outbox.ts` 420): a wait past its `expires_at` ends in the user's next call only.
  `EveryReservationSettles` leaves out runs that have not ended.
* *A late refusal settles a live reservation* (`agent-api.controller.ts` 2096). An
  attempt is refused on a busy session; before its catch block settles the
  reservation, a second attempt of the same request is admitted with it. The comment
  at 2093 says "A stale generation must not settle the reservation that the current
  attempt may still need to consume", but only the error of a superseded generation
  is excluded. `RunIsFunded` and `UsageIsCharged` are therefore about requests with
  one attempt (`FirstOfItsKind`).
* *Maintenance releases the reservation of a recovered run* (`maintenance.ts` 495):
  the orphan query compares `turn_runs.request_id`, which keeps the base id while a
  recovered run spends under `<base>:recovery:<n>`. `maintenance.test.ts` 301 says
  "releases stale model reservations that never reached durable admission". Hence
  the other half of `FirstOfItsKind`, generation 0.
* *A refused recovery uses up its budget generation* (`durable-turn.service.ts`
  3468): the next recovery computes the same request id and finds it settled.
  `docs/durable-context-operations.md` 207 says the operator "can retry".
* *Settlements fall into the wrong cycle* (`outbox.ts` 399, `durable-turn.service.ts`
  3661, `turn-runner.ts` finalizeUsageAndBudget): these post the reconcile entry in
  the cycle of the settlement, `BudgetService.reconcile` in that of the reservation
  (`budget.service.test.ts` 355, "attributes reconciliation deltas to the
  reservation's original cycle"). The other way round, an extension
  (`turn-runner.ts` 3782) raises the old cycle's reserve entry after a check against
  the new cycle's sum. `WithinLimit` is about the current cycle.

**Queued follow-ups** (`QueuedFollowUps`). The comment at `turn-runner.ts` 4217 says
"A user-visible failure/cancellation pauses the queue. The next item must never race
an interrupted turn". `InterruptionHoldsQueue` is stated for failures, because

* *an expired wait does not pause the queue* (`durable-turn.service.ts` 2348), so the
  next item runs after a turn that ended without its user, and
* *a prompt enqueued during a stop is delivered* (`durable-turn.service.ts` 2156): the
  stop pauses first and takes its locks later. After a failure too
* *a prompt whose enqueue waited for the failing commit is delivered*
  (`queued-follow-up.service.ts` 77): the statement saw the turn active before it waited
  for the rows of task and session, and the item is inserted after the pause. The property
  leaves these items out (`late`).

A turn that waits for its user, or is stranded, holds the queue for as long as nobody
acts; `HeadMovesOn` leaves such turns out.

**Scheduled tasks** (`ScheduledTasks`)

* *Occurrences can overlap* (`scheduled-tasks.ts` 237): an overtaken dispatcher admits
  its turn after `failed()` of the newer claim looked for one, and the next occurrence
  is started beside it; `docs/scheduled-tasks.md` 30 says "Skip a recurring occurrence
  when the preceding chat still has pending or active work". `NoOverlap` and
  `RecordMatchesTurn` are about leases that are long enough (`overtakes = 0`).
* *A recovered turn runs beside the next occurrence* (`scheduled-tasks.ts` 30, 165): a turn
  in `recovery_required` counts as over, the next occurrence starts, and
  `DurableTurnService.recover` makes the first active again without looking at the
  schedule. `NoOverlap` counts the turns that were never held.
* *A retry finds its reservation settled* (`scheduled-tasks.ts` 283): all attempts use
  the request id `model_<run>`, which the catch block of the first has settled.
  `docs/scheduled-tasks.md` 45 says "Transient admission failures retry after thirty
  seconds, up to three attempts".
* *Editing a completed task cancels its pending run* (`scheduled-tasks.ts` 132);
  `docs/scheduled-tasks.md` 32 says "Name-only edits keep paused/completed state".

**Files** (`FileBlobs`)

* *An abort can retire a completed upload* (`file-platform.service.ts` 742): the status
  is not looked at again under the lock; the test at `file-platform.service.test.ts`
  1891 says "does not let an abort retire an upload that already completed".
* *An overtaken verifier quarantines a verified file* (`file-blobs.ts` 304): of two
  verifications of a blob without a declared digest the second to finish finds the digest
  the first recorded, throws "expected SHA-256 changed during verification", and puts the
  files of the verified blob into quarantine, where no later verification reaches them.
  `EveryBlobSettles` says nothing of quarantine after such an overtaking. A file whose
  declared digest is wrong stays failed and quarantined, as it should.
* *Parts of an expired upload stay* (`file-deletion.ts` 120): the deletion of the blob
  erases object versions, not the parts of a multipart upload that nobody completed or
  aborted. `EveryBlobSettles` is about stored objects.
* *The sweep collects a logo* (`maintenance.ts` 603): its reference check lacks the
  organization's branding, which that of `file-lifecycle.ts` has.
* *A revisit may reach no worker* (`maintenance.ts` 578): it reopens the blob's row
  without clearing its dead letter or its attempts; `docs/file-lifecycle.md` 66 says "A
  new run safely revisits unverified or failed blobs". In the same way a pass over an
  unfinished upload spends the deliveries that the finished one needs, so
  `EveryBlobSettles` leaves out histories with such a pass.

**Finalization** (`TurnFinalization`)

* *A suspend that was given up pauses the next run's sandbox* (`sandbox-continuity.ts`
  2510): after 70 s `withTimeout` rejects, the transaction rolls back and frees the
  lifecycle lock, and the provider's call is still under way. A follow-up run claims and
  resumes the sandbox, and then the suspend takes effect. `NewerRunKeepsSandbox` allows a
  pause of a claimed sandbox after such a timeout, and only then.
* *Complete too early* (`file-blobs.ts` 536): the verifier recomputes a finalization
  from the operations recorded so far, so after a crash or a timeout in the middle it
  becomes complete although later outputs have none; so does one that a retry on a
  paused sandbox had set back to *skipped* with no items (`sandbox-continuity.ts` 3757,
  also when the sweep opens a second delivery between the receipt and
  `beginFinalization` of the first). `CompleteMeansPublished` leaves these out.
* *Complete without an output* (`sandbox-continuity.ts` 3665): `item_count` is the
  greater of what *this* attempt published or failed to and of *all* operations of the
  finalization. An output that could not be read has no operation. If a first attempt
  publishes one output and cannot read another, and its retry, which passes over the
  published one, cannot read the other again, then one failure is compared with one
  complete operation, and the finalization is complete. `CompleteMeansPublished` leaves
  this out too (`Uncounted`).
* *A crash leaves a run without outcome* (`outbox.ts` 477): an operation that stays
  pending keeps the sweep away; the same happens when a publication in the background
  outlives its lease. `docs/agent-harness-production-audit-final.md` 946 says "every
  terminal run has finalization outcome". `EveryRunFinalized` leaves both out.
* *A verdict can be overwritten* (`sandbox-continuity.ts` 3577) by the version of the
  blob an update read before it waited: `OperationFollowsBlob` leaves out such a wait,
  and a worker that died.
* *A reopened row keeps its spent attempts* (`outbox.ts` 489), so one that was
  dead-lettered at the limit is dead-lettered again without a delivery. It takes the
  loss of every delivery of two rows, which is beyond the one fault of the run.

## 6. Plan

Done: all seven models with their runs; the proofs of every safety invariant and action
property the runs check; three abstract specifications and the proofs that the outbox,
admission and scheduled tasks implement them. What is left would widen the models:
compaction and several tool calls per answer in `DurableTurn`; restore and interval
snapshots of sandboxes; quarantine of files; `DurableTurn` on top of
`AdmissionContract`, as it is on top of `OutboxContract`.

## 7. Not modelled

Context compaction and the several tool calls of one answer (planned); the event
stream, which replays rows already committed; knowledge, memory and documents
(text processing in pipelines of jobs the outbox model covers); model providers
and their retries (a provider is a nondeterministic outcome in `DurableTurn`);
sandbox providers and their policies (external services); identity, governance,
billing and administration (single-transaction CRUD); connectors (a connector
write is a held tool call of `DurableTurn`); the harness and the local agent, a
single-process runtime with no rows shared with the cloud turn; the clients. A
budget reservation `queued:<key>` whose enqueue aborts is released by nothing; the
model has the state, and no line of the repository promises more. The session
projection (`turn-runner.ts` 4228) is written and never read in this repository.
