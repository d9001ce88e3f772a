---------------------------- MODULE DurableTurn ----------------------------
(***************************************************************************)
(* One durable agent turn of Berry: the turn_runs row and its steps, the   *)
(* workers that advance it one bounded state per queue delivery            *)
(* (apps/worker/src/turn-runner.ts), the API transactions that cancel,     *)
(* decide and recover it (apps/api/src/runtime/durable-turn.service.ts),   *)
(* and the lease-recovery scan of the outbox dispatcher                    *)
(* (apps/worker/src/outbox.ts).                                            *)
(*                                                                         *)
(* The delivery of a wake-up row is what OutboxContract promises: an open  *)
(* row is published, perhaps more than once, until a worker receives it or *)
(* it is dead-lettered.  A worker acknowledges the receipt when it starts  *)
(* the job, before it claims the run.                                      *)
(*                                                                         *)
(* A turn has one tool step at a time: the one of its last model call.     *)
(* Parallel read-only batches, the loop guards that end in a model call,   *)
(* and context compaction are left out.  lease_owner is a fresh uuid per   *)
(* claim, so "lease_owner=$3 AND ownership_generation=$4" is the equality  *)
(* of generations on a leased row.                                         *)
(***************************************************************************)
EXTENDS Naturals, FiniteSets, Bags

CONSTANTS
    Workers,          \* worker processes
    Calls,            \* the tool calls the model may answer with
    MaxIterations,    \* maxModelIterations, 200 in the code
    MaxModelAttempts, \* maxModelAttempts, 3 in the code
    JobAttempts,      \* BullMQ attempts of one job, 3 in the code
    RowAttempts,      \* deliveries of one outbox row, 8 in the code
    MaxRetries,       \* bound: operator recoveries of one run
    MaxFaults         \* bound: crashes, lost jobs, stalls and raised errors

ASSUME WorkersAssumption == IsFiniteSet(Workers) /\ Workers # {}

ASSUME CallsAssumption ==
    Calls \subseteq [kind: {"idempotent", "sandbox", "held", "question"},
                     asks: BOOLEAN]

ASSUME TurnBounds ==
    /\ {MaxIterations, MaxModelAttempts, JobAttempts, RowAttempts} \subseteq Nat \ {0}
    /\ {MaxRetries, MaxFaults} \subseteq Nat

VARIABLES
    run,      \* the turn_runs row: state, version, generation and lease
    model,    \* the latest model.call step
    tool,     \* the latest tool step with its approval or question
    doubt,    \* an earlier call of the held tool has an unresolved outcome
    outbox,   \* wake-up rows of the run: open, and every dedupe key used
    queue,    \* BullMQ: the bag of jobs waiting for a worker
    ws,       \* what each worker process is doing, and its snapshot
    started,  \* history: executions begun of the tool call of an iteration
    retries,  \* history: operator retries of the tool call of an iteration
    faults    \* faults spent

vars == <<run, model, tool, doubt, outbox, queue, ws, started, retries, faults>>

Terminal == {"completed", "failed", "cancelled", "recovery_required"}
Active == {"queued", "calling_model", "executing_tool", "finalizing"}
States == Terminal \cup Active \cup {"waiting"}
Unfinished == {"pending", "running", "waiting"}
StepStates == Unfinished \cup {"none", "completed", "failed", "cancelled",
                               "recovery_required"}
Waits == {"none", "pending", "approved", "denied", "expired", "answered"}

\* Runs the lease-recovery scan looks at.
Runnable == run.state \in Active

\* The dedupe keys: what a row is for, the number in its key, and the state a
\* wake-up continues in.
Keys == [of: {"admitted", "recovery", "approval", "question", "operator", "wake"},
         at: Nat, next: States \cup {"none"}]
Key(of, at) == [of |-> of, at |-> at, next |-> "none"]
Jobs == [key: Keys, left: 1..JobAttempts]

ToolSteps == [kind: {"none", "idempotent", "sandbox", "held", "question"},
              asks: BOOLEAN, st: StepStates, wait: Waits, cleared: BOOLEAN]
ModelSteps == [iteration: Nat, attempt: Nat, empty: BOOLEAN, repair: BOOLEAN]

NoTool == [kind |-> "none", asks |-> FALSE, st |-> "none", wait |-> "none",
           cleared |-> FALSE]
NoModel == [iteration |-> 0, attempt |-> 0, empty |-> FALSE, repair |-> FALSE]
NoJob == [key |-> Key("admitted", 0), left |-> 1]
Idle == [pc |-> "idle", gen |-> 0, version |-> 0, state |-> "queued",
         tool |-> NoTool, model |-> NoModel, job |-> NoJob, err |-> "none"]

RunType == [state: States, version: Nat, gen: Nat, lease: {"none", "live", "expired"}]
WorkerType == [pc: {"idle", "started", "claimed", "ready", "prepared", "requested",
                    "answered", "intended", "ran", "publishing", "raised"},
               gen: Nat, version: Nat, state: States, tool: ToolSteps,
               model: ModelSteps, job: Jobs,
               err: {"none", "retry", "terminal", "cancelled"}]

TypeOK ==
    /\ run \in RunType
    /\ model \in ModelSteps
    /\ tool \in ToolSteps
    /\ doubt \in BOOLEAN
    /\ outbox \in [open: SUBSET Keys, used: SUBSET Keys]
    /\ outbox.open \subseteq outbox.used
    /\ IsABag(queue) /\ BagToSet(queue) \subseteq Jobs
    /\ ws \in [Workers -> WorkerType]
    /\ started \in [1..MaxIterations -> Nat]
    /\ retries \in [1..MaxIterations -> Nat]
    /\ faults \in 0..MaxFaults

\* DurableTurnService.admit: a queued run and its first wake-up row.
Init ==
    /\ run = [state |-> "queued", version |-> 0, gen |-> 0, lease |-> "none"]
    /\ model = NoModel
    /\ tool = NoTool
    /\ doubt = FALSE
    /\ outbox = [open |-> {Key("admitted", 0)}, used |-> {Key("admitted", 0)}]
    /\ queue = EmptyBag
    /\ ws = [w \in Workers |-> Idle]
    /\ started = [i \in 1..MaxIterations |-> 0]
    /\ retries = [i \in 1..MaxIterations |-> 0]
    /\ faults = 0
-----------------------------------------------------------------------------
(* The outbox rows of the run, and the queue. *)

\* INSERT ... ON CONFLICT (tenant_id,dedupe_key) DO NOTHING.
Insert(k) ==
    [open |-> outbox.open \cup ({k} \ outbox.used),
     used |-> outbox.used \cup {k}]

\* UPDATE runtime_outbox SET completed_at: every open turn row of the run.
CloseTurnRows == [outbox EXCEPT !.open = {}]

Fault == faults < MaxFaults /\ faults' = faults + 1

Queued(k) == \E j \in BagToSet(queue) : j.key = k

\* An open row is due: the dispatcher enqueues it.  A second copy while one
\* is queued (the job id carries the delivery epoch) counts as a fault.
Publish(k) ==
    /\ k \in outbox.open
    /\ IF Queued(k) THEN Fault ELSE UNCHANGED faults
    /\ queue' = queue (+) SetToBag({[key |-> k, left |-> JobAttempts]})
    /\ UNCHANGED <<run, model, tool, doubt, outbox, ws, started, retries>>

\* Deliveries kept failing until the row's attempts ran out.
DeadLetter(k) ==
    /\ k \in outbox.open
    /\ faults + RowAttempts <= MaxFaults
    /\ faults' = faults + RowAttempts
    /\ outbox' = [outbox EXCEPT !.open = @ \ {k}]
    /\ UNCHANGED <<run, model, tool, doubt, queue, ws, started, retries>>

\* Redis forgets its jobs.
LoseQueue ==
    /\ queue # EmptyBag
    /\ Fault
    /\ queue' = EmptyBag
    /\ UNCHANGED <<run, model, tool, doubt, outbox, ws, started, retries>>

\* Mutant: the scan overlooks leases that ran out.
LeaseReleased == run.lease = "none"

\* lease_expires_at IS NULL OR lease_expires_at <= now().
LeaseGone == run.lease # "live"

\* The scan takes runs nobody touched for five seconds.  A delivery that takes
\* longer to reach its claim counts as a fault.
InFlight == queue # EmptyBag \/ \E w \in Workers : ws[w].pc = "started"

\* It wakes a run that has no open wake-up row, once per version.
RecoverLease ==
    /\ Runnable /\ LeaseGone /\ outbox.open = {}
    /\ Key("recovery", run.version) \notin outbox.used
    /\ IF InFlight THEN Fault ELSE UNCHANGED faults
    /\ outbox' = Insert(Key("recovery", run.version))
    /\ UNCHANGED <<run, model, tool, doubt, queue, ws, started, retries>>
-----------------------------------------------------------------------------
(* The run's row: ownership and commit. *)

Holder(w) == run.lease # "none" /\ run.gen = ws[w].gen

\* Mutant: the commit matches on the generation alone.
CanCommitByGeneration(w) == run.gen = ws[w].gen

\* What commit's SELECT ... FOR UPDATE and its state check demand.
CanCommit(w) == Holder(w) /\ run.lease = "live" /\ run.state = ws[w].state

\* Mutant: closeTerminalChildren forgets the approvals and questions.
ClosedSteps(t, next) ==
    [t EXCEPT !.st = IF @ \notin Unfinished THEN @
                     ELSE IF next \in {"failed", "recovery_required"} THEN "failed"
                     ELSE "cancelled"]

\* closeTerminalChildren: unfinished steps, pending approvals and questions.
Closed(t, next) ==
    [t EXCEPT !.st = IF @ \notin Unfinished THEN @
                     ELSE IF next \in {"failed", "recovery_required"} THEN "failed"
                     ELSE "cancelled",
              !.wait = IF @ = "pending" THEN "expired" ELSE @]

\* DurableTurnRepository.commit under a kept lease: the version moves on.
CommitKeeping(w, t, m) ==
    /\ CanCommit(w)
    /\ run' = [run EXCEPT !.version = @ + 1]
    /\ tool' = t
    /\ model' = m
    /\ UNCHANGED outbox

\* A commit that ends the delivery: the lease is cleared, a terminal state
\* closes the run's children and its wake-up rows.
Commit(w, next, t, m) ==
    /\ CanCommit(w)
    /\ run' = [run EXCEPT !.state = next, !.version = @ + 1, !.lease = "none"]
    /\ tool' = IF next \in Terminal THEN Closed(t, next) ELSE t
    /\ model' = m
    /\ ws' = [ws EXCEPT ![w] = Idle]

CommitSilently(w, next, t, m) ==
    /\ Commit(w, next, t, m)
    /\ outbox' = IF next \in Terminal THEN CloseTurnRows ELSE outbox

\* Mutant: the key leaves the version out.
WakeKeyOfState(version, next) == [of |-> "wake", at |-> 0, next |-> next]

\* The dedupe key of the row that wakes the next delivery.
WakeKey(version, next) == [of |-> "wake", at |-> version, next |-> next]

\* commitAndWake: the next delivery's row is part of the same transaction.
CommitAndWake(w, next, t, m) ==
    /\ Commit(w, next, t, m)
    /\ outbox' = Insert(WakeKey(ws[w].version + 1, next))

\* release: gives the lease up without moving the version.
Release(w) ==
    run' = IF Holder(w) THEN [run EXCEPT !.lease = "none"] ELSE run

\* The job failed: BullMQ runs it again while it has attempts left.
RetryJob(w) ==
    queue' = IF ws[w].job.left > 1
             THEN queue (+) SetToBag({[ws[w].job EXCEPT !.left = @ - 1]})
             ELSE queue

At(w, pc) == ws[w].pc = pc
Goto(w, pc) == ws' = [ws EXCEPT ![w] = [@ EXCEPT !.pc = pc]]
NextCall(m) == [m EXCEPT !.iteration = @ + 1, !.attempt = 0, !.empty = FALSE]
-----------------------------------------------------------------------------
(* A delivery: start, claim, hydrate. *)

\* processBerryWorkerJob: the receipt is acknowledged before the run is claimed.
Start(w, j) ==
    /\ At(w, "idle")
    /\ BagIn(j, queue)
    /\ queue' = queue (-) SetToBag({j})
    /\ outbox' = [outbox EXCEPT !.open = @ \ {j.key}]
    /\ ws' = [ws EXCEPT ![w] = [Idle EXCEPT !.pc = "started", !.job = j]]
    /\ UNCHANGED <<run, model, tool, doubt, started, retries, faults>>

\* claim's UPDATE: a free or expired lease of a run that is not terminal.
Claim(w) ==
    /\ At(w, "started")
    /\ run.state \notin Terminal /\ run.lease # "live"
    /\ run' = [run EXCEPT !.gen = @ + 1, !.lease = "live"]
    /\ ws' = [ws EXCEPT ![w] = [@ EXCEPT !.pc = "claimed", !.gen = run.gen + 1,
                                         !.version = run.version, !.state = run.state]]
    /\ UNCHANGED <<model, tool, doubt, outbox, queue, started, retries, faults>>

\* Nothing to claim: the delivery is a no-op and the job is done.
FindNothing(w) ==
    /\ At(w, "started")
    /\ run.state \in Terminal \/ run.lease = "live"
    /\ ws' = [ws EXCEPT ![w] = Idle]
    /\ UNCHANGED <<run, model, tool, doubt, outbox, queue, started, retries, faults>>

\* The steps are read after the claim, outside its statement.
Hydrate(w) ==
    /\ At(w, "claimed")
    /\ ws' = [ws EXCEPT ![w] = [@ EXCEPT !.pc = "ready", !.tool = tool, !.model = model]]
    /\ UNCHANGED <<run, model, tool, doubt, outbox, queue, started, retries, faults>>

\* A failed read releases this generation and fails the job.
FailHydration(w) ==
    /\ At(w, "claimed")
    /\ Fault
    /\ Release(w)
    /\ RetryJob(w)
    /\ ws' = [ws EXCEPT ![w] = Idle]
    /\ UNCHANGED <<model, tool, doubt, outbox, started, retries>>

\* execute on a waiting run: nothing to do, give the lease back.
LeaveWaiting(w) ==
    /\ At(w, "ready") /\ ws[w].state = "waiting"
    /\ Release(w)
    /\ ws' = [ws EXCEPT ![w] = Idle]
    /\ UNCHANGED <<model, tool, doubt, outbox, queue, started, retries, faults>>

Assemble(w) ==
    /\ At(w, "ready") /\ ws[w].state = "queued"
    /\ CommitAndWake(w, "calling_model", tool, NextCall(model))
    /\ UNCHANGED <<doubt, queue, started, retries, faults>>
-----------------------------------------------------------------------------
(* callModel: three commits under one lease, then the response. *)

Calling(w, pc) == At(w, pc) /\ ws[w].state = "calling_model"

Raised(w, err) == ws' = [ws EXCEPT ![w] = [@ EXCEPT !.pc = "raised", !.err = err]]

\* Iterations and attempts are limited; beyond them the turn fails.
ModelLimit(w) ==
    \/ ws[w].model.iteration > MaxIterations
    \/ ws[w].model.attempt >= MaxModelAttempts

StopAtLimit(w) ==
    /\ Calling(w, "ready") /\ ModelLimit(w)
    /\ Raised(w, "terminal")
    /\ UNCHANGED <<run, model, tool, doubt, outbox, queue, started, retries, faults>>

PrepareModel(w) ==
    /\ Calling(w, "ready") /\ ~ModelLimit(w)
    /\ CommitKeeping(w, tool, model)
    /\ Goto(w, "prepared")
    /\ UNCHANGED <<doubt, queue, started, retries, faults>>

\* reserveNextModelCall refused: finishForBudget completes the turn.
FinishForBudget(w) ==
    /\ At(w, "prepared")
    /\ CommitSilently(w, "completed", tool, model)
    /\ UNCHANGED <<doubt, queue, started, retries, faults>>

RequestModel(w) ==
    /\ At(w, "prepared")
    /\ CommitKeeping(w, tool, [model EXCEPT !.attempt = @ + 1])
    /\ Goto(w, "requested")
    /\ UNCHANGED <<doubt, queue, started, retries, faults>>

\* The provider failed: the progress is committed, then the error propagates.
FailModel(w, err) ==
    /\ At(w, "requested")
    /\ Fault
    /\ CommitKeeping(w, tool, model)
    /\ Raised(w, err)
    /\ UNCHANGED <<doubt, queue, started, retries>>

RecordAnswer(w) ==
    /\ At(w, "requested")
    /\ CommitKeeping(w, tool, model)
    /\ Goto(w, "answered")
    /\ UNCHANGED <<doubt, queue, started, retries, faults>>

\* The answer calls a tool, or is the final text.
AnswerWithTool(w, c) ==
    /\ At(w, "answered")
    /\ CommitAndWake(w, "executing_tool",
                     [NoTool EXCEPT !.kind = c.kind, !.asks = c.asks, !.st = "pending"],
                     model)
    /\ UNCHANGED <<doubt, queue, started, retries, faults>>

AnswerWithText(w) ==
    /\ At(w, "answered")
    /\ CommitAndWake(w, "finalizing", tool, model)
    /\ UNCHANGED <<doubt, queue, started, retries, faults>>

\* Nothing in the answer: one more model call, then the turn fails.
AnswerEmpty(w) ==
    /\ At(w, "answered") /\ ~ws[w].model.empty
    /\ CommitAndWake(w, "calling_model", tool,
                     [NextCall(model) EXCEPT !.empty = TRUE])
    /\ UNCHANGED <<doubt, queue, started, retries, faults>>

\* Length stop, content filter, duplicate call ids, a second empty answer.
RejectAnswer(w) ==
    /\ At(w, "answered")
    /\ Raised(w, "terminal")
    /\ UNCHANGED <<run, model, tool, doubt, outbox, queue, started, retries, faults>>
-----------------------------------------------------------------------------
(* executeTool, in the order of its checks. *)

Executing(w) == At(w, "ready") /\ ws[w].state = "executing_tool"

\* SANDBOX_TOOLS excepted, a non-idempotent call waits for review.
HoldsForReview(t) == t.kind = "held"
NonIdempotent(t) == t.kind \in {"sandbox", "held"}

\* Mutant: the check looks at a call that runs instead of one about to.
HeldBackWhileRunning(w) ==
    ws[w].tool.st = "running" /\ HoldsForReview(ws[w].tool) /\ doubt
    /\ ~ws[w].tool.cleared

\* An earlier call may have taken effect and this one was not released yet.
HeldBack(w) ==
    ws[w].tool.st = "pending" /\ HoldsForReview(ws[w].tool) /\ doubt
    /\ ~ws[w].tool.cleared

\* hasRunningHeldTool.  As a mutant: shell commands are not seen as interrupted.
InterruptedIfHeld(w) == ws[w].tool.st = "running" /\ ws[w].tool.kind = "held"

\* The worker that ran this call stopped before it reported back.
Interrupted(w) == ws[w].tool.st = "running" /\ NonIdempotent(ws[w].tool)

\* Mutant: a denied call counts as decided.
NeedsDecision(w) ==
    ws[w].tool.asks /\ ~Interrupted(w) /\ ws[w].tool.wait = "none"

\* The approval of this call is missing or was refused.
NeedsApproval(w) ==
    ws[w].tool.asks /\ ~Interrupted(w) /\ ws[w].tool.wait # "approved"

\* transitionAmbiguousToolToRecovery, for the step t.
ToRecovery(w, t) ==
    /\ CommitSilently(w, "recovery_required",
                      [t EXCEPT !.st = "recovery_required"], model)
    /\ UNCHANGED <<doubt, queue, started, retries, faults>>

HoldCall(w) ==
    /\ Executing(w) /\ HeldBack(w)
    /\ ToRecovery(w, [ws[w].tool EXCEPT !.cleared = TRUE])

AskQuestion(w) ==
    /\ Executing(w) /\ ws[w].tool.kind = "question"
    /\ CommitSilently(w, "waiting",
                      [ws[w].tool EXCEPT !.st = "waiting", !.wait = "pending"], model)
    /\ UNCHANGED <<doubt, queue, started, retries, faults>>

HoldInterrupted(w) ==
    /\ Executing(w) /\ Interrupted(w) /\ HoldsForReview(ws[w].tool)
    /\ ToRecovery(w, ws[w].tool)

\* Denied: the call fails and the model is told.
RefuseDenied(w) ==
    /\ Executing(w) /\ ~HeldBack(w) /\ NeedsApproval(w)
    /\ ws[w].tool.wait \in {"denied", "expired"}
    /\ CommitAndWake(w, "calling_model", [ws[w].tool EXCEPT !.st = "failed"],
                     NextCall(model))
    /\ UNCHANGED <<doubt, queue, started, retries, faults>>

AskApproval(w) ==
    /\ Executing(w) /\ ~HeldBack(w) /\ NeedsApproval(w)
    /\ ws[w].tool.wait = "none"
    /\ CommitSilently(w, "waiting",
                      [ws[w].tool EXCEPT !.st = "waiting", !.wait = "pending"], model)
    /\ UNCHANGED <<doubt, queue, started, retries, faults>>

\* An interrupted shell command or edit goes back to the model, unrun.
ReportInterrupted(w) ==
    /\ Executing(w) /\ Interrupted(w) /\ ~HoldsForReview(ws[w].tool)
    /\ CommitAndWake(w, "calling_model", [ws[w].tool EXCEPT !.st = "failed"],
                     NextCall(model))
    /\ UNCHANGED <<doubt, queue, started, retries, faults>>

\* The running marker is durable before the call begins.
IntendTool(w) ==
    /\ Executing(w) /\ ws[w].tool.kind # "question"
    /\ ~HeldBack(w) /\ ~Interrupted(w) /\ ~NeedsApproval(w)
    /\ CommitKeeping(w, [ws[w].tool EXCEPT !.st = "running"], model)
    /\ ws' = [ws EXCEPT ![w] = [@ EXCEPT !.pc = "intended",
                                         !.tool = [ws[w].tool EXCEPT !.st = "running"]]]
    /\ UNCHANGED <<doubt, queue, started, retries, faults>>

\* tools.execute: the call reaches its target.
RunTool(w) ==
    /\ At(w, "intended")
    /\ Goto(w, "ran")
    /\ started' = [started EXCEPT ![ws[w].model.iteration] = @ + 1]
    /\ UNCHANGED <<run, model, tool, doubt, outbox, queue, retries, faults>>

CompleteTool(w) ==
    /\ At(w, "ran")
    /\ CommitAndWake(w, "calling_model", [ws[w].tool EXCEPT !.st = "completed"],
                     NextCall(model))
    /\ doubt' = (doubt /\ ~ws[w].tool.cleared)
    /\ UNCHANGED <<queue, started, retries, faults>>

\* The call failed; the model sees the error.  An unrecognised error of a
\* held tool leaves its outcome in doubt for the next call of the tool.
FailTool(w, unsure) ==
    /\ At(w, "ran")
    /\ unsure => HoldsForReview(ws[w].tool)
    /\ CommitAndWake(w, "calling_model", [ws[w].tool EXCEPT !.st = "failed"],
                     NextCall(model))
    /\ doubt' = (doubt \/ unsure)
    /\ UNCHANGED <<queue, started, retries, faults>>

\* A timeout or a lost reply of a held tool.
LoseReply(w) ==
    /\ At(w, "ran") /\ HoldsForReview(ws[w].tool)
    /\ ToRecovery(w, ws[w].tool)
-----------------------------------------------------------------------------
(* finalize: a long publication with no commit before it. *)

PublishOutputs(w) ==
    /\ At(w, "ready") /\ ws[w].state = "finalizing"
    /\ Goto(w, "publishing")
    /\ UNCHANGED <<run, model, tool, doubt, outbox, queue, started, retries, faults>>

Finalize(w) ==
    /\ At(w, "publishing")
    /\ CommitSilently(w, "completed", tool, model)
    /\ UNCHANGED <<doubt, queue, started, retries, faults>>

\* Files that could not be published: the model gets one turn to repair them.
RepairPublication(w) ==
    /\ At(w, "publishing") /\ ~ws[w].model.repair
    /\ CommitAndWake(w, "calling_model", tool,
                     [NextCall(model) EXCEPT !.repair = TRUE])
    /\ UNCHANGED <<doubt, queue, started, retries, faults>>
-----------------------------------------------------------------------------
(* Errors: execute's catch, crashes and leases that run out. *)

\* A commit found the lease lost or the state changed.
LoseCommit(w) ==
    /\ \/ ws[w].pc \in {"prepared", "requested", "answered", "ran", "publishing"}
       \/ At(w, "ready") /\ ws[w].state # "waiting"
    /\ ~CanCommit(w)
    /\ Raised(w, "retry")
    /\ UNCHANGED <<run, model, tool, doubt, outbox, queue, started, retries, faults>>

\* A preparation, heartbeat, tool or publication error leaves the operation.
RaiseError(w, err) ==
    /\ ws[w].pc \in {"prepared", "ran", "publishing"}
    /\ Fault
    /\ Raised(w, err)
    /\ UNCHANGED <<run, model, tool, doubt, outbox, queue, started, retries>>

\* The cancellation published after the API ended the run reaches the worker.
HearCancellation(w) ==
    /\ ws[w].pc \in {"prepared", "requested", "ran"}
    /\ run.state \in {"cancelled", "recovery_required"}
    /\ Raised(w, "cancelled")
    /\ UNCHANGED <<run, model, tool, doubt, outbox, queue, started, retries, faults>>

\* The snapshot's own view: hasRunningHeldTool, hasAmbiguousNonIdempotentTool.
RunsHeldTool(w) ==
    ws[w].state = "executing_tool" /\ InterruptedIfHeld(w)
RunsAmbiguousTool(w) == ws[w].state = "executing_tool" /\ Interrupted(w)

CatchHeld(w) ==
    /\ At(w, "raised") /\ RunsHeldTool(w)
    /\ ToRecovery(w, ws[w].tool)

\* The recovery commit failed too: rethrown without a release.
RethrowHeld(w) ==
    /\ At(w, "raised") /\ RunsHeldTool(w) /\ ~CanCommit(w)
    /\ ws[w].err # "cancelled"
    /\ RetryJob(w)
    /\ ws' = [ws EXCEPT ![w] = Idle]
    /\ UNCHANGED <<run, model, tool, doubt, outbox, started, retries, faults>>

\* A cancelled delivery just ends.
EndCancelled(w) ==
    /\ At(w, "raised") /\ ws[w].err = "cancelled"
    /\ RunsHeldTool(w) => ~CanCommit(w)
    /\ ws' = [ws EXCEPT ![w] = Idle]
    /\ UNCHANGED <<run, model, tool, doubt, outbox, queue, started, retries, faults>>

\* Retryable, ambiguous, or a failure that could not be persisted.
ReleaseAndRetry(w) ==
    /\ At(w, "raised") /\ ~RunsHeldTool(w)
    /\ \/ ws[w].err = "retry"
       \/ ws[w].err = "terminal" /\ (RunsAmbiguousTool(w) \/ ~CanCommit(w))
    /\ Release(w)
    /\ RetryJob(w)
    /\ ws' = [ws EXCEPT ![w] = Idle]
    /\ UNCHANGED <<model, tool, doubt, outbox, started, retries, faults>>

FailRun(w) ==
    /\ At(w, "raised") /\ ws[w].err = "terminal"
    /\ ~RunsHeldTool(w) /\ ~RunsAmbiguousTool(w)
    /\ CommitSilently(w, "failed", tool, model)
    /\ UNCHANGED <<doubt, queue, started, retries, faults>>

\* The process dies, and BullMQ hands its stalled job to another worker.
Crash(w) ==
    /\ ~At(w, "idle")
    /\ Fault
    /\ queue' = queue (+) SetToBag({ws[w].job})
    /\ ws' = [ws EXCEPT ![w] = Idle]
    /\ UNCHANGED <<run, model, tool, doubt, outbox, started, retries>>

HasHolder == \E w \in Workers : ~At(w, "idle") /\ ws[w].gen = run.gen

\* leaseSeconds pass without a heartbeat: its worker is gone, or stalled.
ExpireLease ==
    /\ run.lease = "live"
    /\ IF HasHolder THEN Fault ELSE UNCHANGED faults
    /\ run' = [run EXCEPT !.lease = "expired"]
    /\ UNCHANGED <<model, tool, doubt, outbox, queue, ws, started, retries>>

\* The heartbeat renews the lease of its generation, expired or not.
Heartbeat(w) ==
    /\ ws[w].pc \in {"prepared", "requested", "answered", "ran", "publishing"}
    /\ Holder(w) /\ run.lease = "expired"
    /\ run' = [run EXCEPT !.lease = "live"]
    /\ UNCHANGED <<model, tool, doubt, outbox, queue, ws, started, retries, faults>>
-----------------------------------------------------------------------------
(* The API's transactions on the run. *)

Retried == \E i \in 1..MaxIterations : retries[i] >= MaxRetries

\* Every API transition clears the lease and moves the version on.
Transition(next) ==
    run' = [run EXCEPT !.state = next, !.version = @ + 1, !.lease = "none"]

\* cancelActiveDurableRun: a running held call waits for review instead.
CancelRun ==
    /\ run.state \notin Terminal
    /\ LET review == tool.st = "running" /\ HoldsForReview(tool)
           next == IF review THEN "recovery_required" ELSE "cancelled"
       IN /\ Transition(next)
          /\ tool' = IF review THEN [tool EXCEPT !.st = "recovery_required"]
                     ELSE Closed(tool, "cancelled")
    /\ outbox' = CloseTurnRows
    /\ UNCHANGED <<model, doubt, queue, ws, started, retries, faults>>

\* A decision counts only while the run still waits for it.
Decidable == tool.wait = "pending" /\ run.state = "waiting"

DecideApproval(decision) ==
    /\ Decidable /\ tool.kind # "question"
    /\ Transition("executing_tool")
    /\ tool' = [tool EXCEPT !.wait = decision, !.st = "pending"]
    /\ outbox' = Insert(Key("approval", model.iteration))
    /\ UNCHANGED <<model, doubt, queue, ws, started, retries, faults>>

AnswerQuestion ==
    /\ Decidable /\ tool.kind = "question"
    /\ Transition("calling_model")
    /\ tool' = [tool EXCEPT !.wait = "answered", !.st = "completed"]
    /\ model' = NextCall(model)
    /\ outbox' = Insert(Key("question", model.iteration))
    /\ UNCHANGED <<doubt, queue, ws, started, retries, faults>>

\* A decision or answer after expires_at ends the run.
ExpireWait ==
    /\ Decidable
    /\ Transition("failed")
    /\ tool' = [tool EXCEPT !.wait = "expired", !.st = "failed"]
    /\ outbox' = CloseTurnRows
    /\ UNCHANGED <<model, doubt, queue, ws, started, retries, faults>>

\* recover: the operator runs the call again, ...
RecoverRetry ==
    /\ run.state = "recovery_required" /\ ~Retried
    /\ Transition("executing_tool")
    /\ tool' = [tool EXCEPT !.st = "pending"]
    /\ outbox' = Insert(Key("operator", run.version + 1))
    /\ retries' = [retries EXCEPT ![model.iteration] = @ + 1]
    /\ UNCHANGED <<model, doubt, queue, ws, started, faults>>

\* ... confirms that it completed, ...
RecoverMarkComplete ==
    /\ run.state = "recovery_required"
    /\ Transition("calling_model")
    /\ tool' = [tool EXCEPT !.st = "completed"]
    /\ model' = NextCall(model)
    /\ doubt' = (doubt /\ ~tool.cleared)
    /\ outbox' = Insert(Key("operator", run.version + 1))
    /\ UNCHANGED <<queue, ws, started, retries, faults>>

\* ... or cancels the run, which leaves its version and steps as they are.
RecoverCancel ==
    /\ run.state = "recovery_required"
    /\ run' = [run EXCEPT !.state = "cancelled"]
    /\ UNCHANGED <<model, tool, doubt, outbox, queue, ws, started, retries, faults>>
-----------------------------------------------------------------------------
Deliver(w) ==
    \/ \E j \in BagToSet(queue) : Start(w, j)
    \/ Claim(w) \/ FindNothing(w) \/ Hydrate(w) \/ LeaveWaiting(w)

CallModel(w) ==
    \/ Assemble(w) \/ StopAtLimit(w) \/ PrepareModel(w) \/ FinishForBudget(w)
    \/ RequestModel(w) \/ RecordAnswer(w)
    \/ \E c \in Calls : AnswerWithTool(w, c)
    \/ AnswerWithText(w) \/ AnswerEmpty(w) \/ RejectAnswer(w)

ExecuteTool(w) ==
    \/ HoldCall(w) \/ AskQuestion(w) \/ HoldInterrupted(w) \/ RefuseDenied(w)
    \/ AskApproval(w) \/ ReportInterrupted(w) \/ IntendTool(w) \/ RunTool(w)
    \/ CompleteTool(w) \/ (\E unsure \in BOOLEAN : FailTool(w, unsure))
    \/ LoseReply(w)

Finish(w) == PublishOutputs(w) \/ Finalize(w) \/ RepairPublication(w)

Catch(w) ==
    \/ LoseCommit(w) \/ CatchHeld(w) \/ RethrowHeld(w) \/ EndCancelled(w)
    \/ ReleaseAndRetry(w) \/ FailRun(w)

\* What a worker does when nothing goes wrong with it.
Work(w) == Deliver(w) \/ CallModel(w) \/ ExecuteTool(w) \/ Finish(w) \/ Catch(w)

\* What may happen to a worker.
Trouble(w) ==
    \/ FailHydration(w) \/ Heartbeat(w) \/ HearCancellation(w) \/ Crash(w)
    \/ \E err \in {"retry", "terminal"} : FailModel(w, err) \/ RaiseError(w, err)

Dispatch == (\E k \in outbox.open : Publish(k)) \/ RecoverLease

Api ==
    \/ CancelRun \/ AnswerQuestion \/ ExpireWait
    \/ \E decision \in {"approved", "denied"} : DecideApproval(decision)
    \/ RecoverRetry \/ RecoverMarkComplete \/ RecoverCancel

Next ==
    \/ \E w \in Workers : Work(w) \/ Trouble(w)
    \/ Dispatch \/ Api \/ ExpireLease
    \/ (\E k \in outbox.open : DeadLetter(k)) \/ LoseQueue

\* Workers run what they started, the dispatcher polls, and time passes for
\* the lease of a worker that is gone.  Nobody has to decide or cancel.
Fairness ==
    /\ \A w \in Workers : WF_vars(Work(w))
    /\ WF_vars(Dispatch)
    /\ WF_vars(~HasHolder /\ ExpireLease)

Spec == Init /\ [][Next]_vars /\ Fairness
-----------------------------------------------------------------------------
(* Properties. *)

\* A non-idempotent tool call is begun at most once, plus once per explicit
\* operator retry: neither an expired lease, a second delivery, a crash nor a
\* late worker runs it again (executeTool's interrupted check, recover).
ToolStartedOnce ==
    tool.kind \in {"sandbox", "held"} /\ model.iteration \in 1..MaxIterations
        => started[model.iteration] <= 1 + retries[model.iteration]

\* A call that asks for approval has begun only if its approval was granted,
\* whatever the order of decision, expiry, cancellation and delivery.
ApprovedBeforeRun ==
    tool.asks /\ tool.wait # "approved" /\ model.iteration \in 1..MaxIterations
        => started[model.iteration] = 0

\* While the outcome of an earlier write is in doubt, a further call of that
\* tool begins only after an operator released it (uncertainEarlierCalls).
DoubtfulCallIsReviewed ==
    HoldsForReview(tool) /\ doubt /\ model.iteration \in 1..MaxIterations
        /\ started[model.iteration] > 0
        => retries[model.iteration] > 0

\* The run's state agrees with its tool step: a wait has its pending decision,
\* a review its step, and a finished run has no unfinished step.
RunMatchesStep ==
    /\ run.state = "waiting" <=> tool.st = "waiting"
    /\ tool.wait = "pending" <=> tool.st = "waiting"
    /\ tool.st = "recovery_required"
         => HoldsForReview(tool) /\ run.state \in {"recovery_required", "cancelled"}
    /\ run.state = "recovery_required" => tool.st = "recovery_required"
    /\ run.state = "executing_tool" <=> tool.st \in {"pending", "running"}

\* Only recover leaves a terminal state, and only recovery_required: a late
\* worker never writes to a run that was cancelled or finished without it.
TerminalStays ==
    [][run.state \in Terminal /\ run' # run
        => run.state = "recovery_required" /\ ws' = ws]_vars

\* A commit that leaves the run active and unleased leaves a new wake-up row
\* behind: its dedupe key was never used, so DO NOTHING does not drop it.
WakeIsNew ==
    [][run.version # run'.version /\ run'.state \in Active /\ run'.lease = "none"
        => outbox'.open \ outbox.used # {}]_vars

\* A run does not stay active for ever, unless the one lease-recovery row of
\* its version was already spent.
SettlesOrRecoverySpent ==
    []<>(~Runnable \/ Key("recovery", run.version) \in outbox.used)

\* docs/durable-context-operations.md:203 "An expired lease is reclaimed from
\* the stored next action": an active run nobody holds, delivers or works on
\* can still be woken by the expired-lease scan.
ExpiredLeaseReclaimed ==
    Runnable /\ run.lease # "live" /\ outbox.open = {} /\ queue = EmptyBag
        /\ (\A w \in Workers : At(w, "idle"))
        => Key("recovery", run.version) \notin outbox.used

\* docs/durable-context-operations.md:205 "A shell command or external write
\* classified non_idempotent_manual is never replayed solely because a lease
\* expired. Berry marks the run recovery_required": a delivery that finds such
\* a call running leaves the run in recovery_required.
InterruptedIsReviewed ==
    [][\A w \in Workers :
        Executing(w) /\ Interrupted(w) /\ CanCommit(w) /\ ws'[w] = Idle
            /\ run'.version # run.version
            => run'.state = "recovery_required"]_vars

-----------------------------------------------------------------------------
(* The inductive invariant behind the safety properties. *)

Claimed(w) == ws[w].pc \notin {"idle", "started"}
Hydrated(w) == Claimed(w) /\ ws[w].pc # "claimed"

\* No tool call of the run's model iteration exists.
BetweenCalls == run.state \in {"queued", "calling_model", "finalizing"}

\* Calls of an iteration that began or may begin without another commit.
Intending(i) == {w \in Workers : ws[w].pc = "intended" /\ ws[w].model.iteration = i}
Begun(i) == started[i] + Cardinality(Intending(i))

\* A terminal run has no lease; claims have generations of their own.
LeaseFences ==
    /\ run.state \in Terminal => run.lease = "none"
    /\ \A w \in Workers :
          Claimed(w) => ws[w].gen \in 1..run.gen /\ ws[w].version <= run.version
    /\ \A v, w \in Workers : Claimed(v) /\ Claimed(w) /\ ws[v].gen = ws[w].gen => v = w

\* The snapshot of the worker that holds the lease is what the rows say, and
\* the key of the wake-up it would insert is new.
HolderIsCurrent ==
    \A w \in Workers : Claimed(w) /\ Holder(w) =>
        /\ ws[w].state = run.state
        /\ Hydrated(w) => ws[w].tool = tool /\ ws[w].model.iteration = model.iteration
        /\ \A k \in outbox.used : k.of = "wake" => k.at <= ws[w].version

\* Where a worker is tells which state it claimed.
PlaceMatchesState ==
    \A w \in Workers :
        /\ ws[w].pc \in {"prepared", "requested", "answered"} =>
              ws[w].state = "calling_model" /\ ws[w].model.iteration <= MaxIterations
        /\ ws[w].pc \in {"intended", "ran"} =>
              ws[w].state = "executing_tool" /\ ws[w].tool.st = "running"
        /\ ws[w].pc = "intended" =>
              ws[w].model.iteration \in 1..MaxIterations
        /\ ws[w].pc = "publishing" => ws[w].state = "finalizing"

IterationMatchesState ==
    /\ run.state = "calling_model" => model.iteration >= 1
    /\ run.state \in {"executing_tool", "waiting", "recovery_required"} =>
          model.iteration \in 1..MaxIterations

\* The dedupe keys used so far lie behind the run.
KeysAreSpent ==
    \A k \in outbox.used :
        /\ k.of \in {"wake", "operator"} => k.at <= run.version
        /\ k.of = "question" => k.at < model.iteration
        /\ k.of = "approval" =>
              \/ k.at < model.iteration
              \/ /\ k.at = model.iteration /\ ~BetweenCalls
                 /\ tool.wait \notin {"none", "pending"}

\* Nothing has begun of a call the model has not made yet.
UnmadeCallsNotBegun ==
    \A i \in 1..MaxIterations :
        i > model.iteration \/ (i = model.iteration /\ BetweenCalls)
            => started[i] = 0 /\ Intending(i) = {}

\* The beginnings of the call at hand, those under way included: each one was
\* paid for by the call itself or by an operator's retry, approved, and reviewed.
CallsAreCounted ==
    \A i \in 1..MaxIterations : i = model.iteration =>
        /\ NonIdempotent(tool) => Begun(i) <= 1 + retries[i]
        /\ NonIdempotent(tool) /\ tool.st \in {"pending", "waiting"} => Begun(i) <= retries[i]
        /\ tool.asks /\ tool.wait # "approved" => Begun(i) = 0
        /\ HoldsForReview(tool) /\ doubt /\ Begun(i) > 0 => retries[i] > 0
        /\ tool.cleared /\ tool.st \in Unfinished => retries[i] > 0

\* A question that may still be asked was not decided before.
QuestionsAreAsked ==
    tool.kind = "question" /\ tool.st \in {"pending", "running"} => tool.wait = "none"

TurnInv ==
    /\ TypeOK /\ LeaseFences /\ HolderIsCurrent /\ PlaceMatchesState
    /\ IterationMatchesState /\ KeysAreSpent /\ RunMatchesStep
    /\ UnmadeCallsNotBegun /\ CallsAreCounted /\ QuestionsAreAsked
=============================================================================
