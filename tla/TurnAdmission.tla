--------------------------- MODULE TurnAdmission ---------------------------
(***************************************************************************)
(* How a turn request becomes a run and how its money is accounted for:     *)
(* admission intents and their preparers (agent-api.controller.ts,          *)
(* durable-turn.service.ts), the budget ledger (budget.service.ts), the     *)
(* worker that extends and settles a reservation (turn-runner.ts), the      *)
(* sweeps (outbox.ts, maintenance.ts), cancellation and operator recovery.  *)
(*                                                                          *)
(* One step is one SQL transaction, except a budget check, which is split   *)
(* where the tenant's advisory lock protects it.  All requests belong to    *)
(* one session of one tenant.  Money is counted in small units; a ledger    *)
(* entry stands for its copies in the scopes org, department and user.      *)
(***************************************************************************)
EXTENDS Integers, FiniteSets, FiniteSetsExt, Functions

CONSTANTS
    Requests, Preparers, NoRequest, Free,
    Estimate,        \* the estimate of an admission
    CallEstimate,    \* the estimate of one model call
    MaxCallCost,     \* the most a model call really costs
    HardLimit,       \* the organization's hard limit in a cycle
    MaxAttempts,     \* model bound: preparations in all
    MaxCalls,        \* model bound: model calls of a budget generation
    MaxGenerations,  \* model bound: recovered budget generations and new cycles, in all
    MaxErrors        \* model bound: failures and deaths; an error excludes a new cycle

ASSUME SentinelAssumption == NoRequest \notin Requests /\ Free \notin Preparers
ASSUME FiniteAssumption == IsFiniteSet(Requests)
ASSUME AmountsAssumption ==
    /\ {Estimate, CallEstimate, MaxCallCost, HardLimit} \subseteq Nat
    /\ HardLimit # 0    \* zero means that no limit is set
ASSUME BoundsAssumption ==
    {MaxAttempts, MaxCalls, MaxGenerations, MaxErrors} \subseteq Nat

VARIABLES
    intent,     \* turn_admission_intents: state, preparation_attempt, lease
    run,        \* turn_runs: state, budgetGeneration, recorded usage
    res,        \* budget_reservations, by request id and generation
    ledger,     \* credit_ledger_entries: by reservation and kind
    prep,       \* the HTTP requests that prepare a turn
    recovery,   \* the recovery request that holds the run's row, if any
    lock,       \* the tenant's advisory lock of the budget check
    errors, cycle

vars == <<intent, run, res, ledger, prep, recovery, lock, errors, cycle>>

\* A reservation's request id is <base> or <base>:recovery:<n>.
Keys == Requests \X (0 .. MaxGenerations)
Kinds == {"reserve", "reconcile", "release"}
Entry == [posted : BOOLEAN, amount : Int, cycle : Nat]
NoEntry == [posted |-> FALSE, amount |-> 0, cycle |-> 0]

Ended == {"completed", "failed", "cancelled", "recovery_required"}
Active == {"running", "calling", "finalizing"}

IntentType == [state : {"none", "preparing", "admitted", "retryable", "expired", "cancelled"},
               attempt : Nat, leased : {"none", "live", "expired"}]
RunType == [state : {"none"} \cup Ended \cup Active, generation : 0 .. MaxGenerations,
            calls : Nat, cost : Nat, unpriced : BOOLEAN]
ResType == [status : {"none", "reserved", "reconciled", "released", "blocked"},
            reserved : Int, actual : Int, cycle : Nat]
PrepType == [pc : {"idle", "began", "checked", "reserved", "failing", "superseded", "closing"},
             req : Requests \cup {NoRequest}, attempt : Nat, exceeded : BOOLEAN, at : Nat]

TypeOK ==
    /\ intent \in [Requests -> IntentType]
    /\ run \in [Requests -> RunType]
    /\ res \in [Keys -> ResType]
    /\ ledger \in [Keys -> [Kinds -> Entry]]
    /\ prep \in [Preparers -> PrepType]
    /\ recovery \in [Requests -> {"none", "reserved", "refused"}]
    /\ lock \in Preparers \cup {Free}
    /\ errors \in Nat /\ cycle \in Nat
    /\ \A p \in Preparers : lock = p <=> prep[p].pc = "checked"

Idle == [pc |-> "idle", req |-> NoRequest, attempt |-> 0, exceeded |-> FALSE, at |-> 0]

Init ==
    /\ intent = [r \in Requests |-> [state |-> "none", attempt |-> 0, leased |-> "none"]]
    /\ run = [r \in Requests |-> [state |-> "none", generation |-> 0, calls |-> 0, cost |-> 0, unpriced |-> FALSE]]
    /\ res = [k \in Keys |-> [status |-> "none", reserved |-> 0, actual |-> 0, cycle |-> 0]]
    /\ ledger = [k \in Keys |-> [kind \in Kinds |-> NoEntry]]
    /\ prep = [p \in Preparers |-> Idle]
    /\ recovery = [r \in Requests |-> "none"]
    /\ lock = Free /\ errors = 0 /\ cycle = 0

Faulty == errors + cycle < MaxErrors
MayTurnOver == cycle + MapThenSumSet(LAMBDA r : run[r].generation, Requests) < MaxGenerations
MayAttempt == MapThenSumSet(LAMBDA r : intent[r].attempt, Requests) < MaxAttempts

-----------------------------------------------------------------------------
(* Reservations and their ledger.                                          *)

\* The ledger with one more entry; ON CONFLICT (request, kind) DO NOTHING.
Post(k, kind, amount, at) ==
    IF ledger[k][kind].posted THEN ledger
    ELSE [ledger EXCEPT ![k][kind] = [posted |-> TRUE, amount |-> amount, cycle |-> at]]

Net(k) == ledger[k]["reserve"].amount + ledger[k]["reconcile"].amount + ledger[k]["release"].amount

\* What an entry adds to what is spent in a cycle.
Charge(entry, c) == IF entry.cycle = c THEN entry.amount ELSE 0

\* ledgerSpentByScope: what the ledger adds up to in a cycle.
Charges(c) == [e \in Keys \X Kinds |-> Charge(ledger[e[1]][e[2]], c)]
Spent(c) == SumFunctionOnSet(Charges(c), Keys \X Kinds)

\* A settlement may charge more than was reserved: what it charges beyond that,
\* and what such settlements add up to in a cycle.
Excess(kind, entry, c) == IF kind = "reconcile" /\ entry.amount > 0 THEN Charge(entry, c) ELSE 0
Excesses(c) == [e \in Keys \X Kinds |-> Excess(e[2], ledger[e[1]][e[2]], c)]
Overrun(c) == SumFunctionOnSet(Excesses(c), Keys \X Kinds)

\* firstExceededLimit, for a limit that is set.
Exceeds(amount) == Spent(cycle) + amount > HardLimit

\* insertReservation and, unless it is blocked, its reserve entry, both dated by
\* the start of their transaction.
Insert(k, amount, exceeded, at) ==
    /\ res' = [res EXCEPT ![k] = [status |-> IF exceeded THEN "blocked" ELSE "reserved",
                                  reserved |-> IF exceeded THEN 0 ELSE amount,
                                  actual |-> 0, cycle |-> at]]
    /\ ledger' = IF exceeded THEN ledger ELSE Post(k, "reserve", amount, at)

\* Mutant: the update does not ask for an open reservation.
SettleAgain(k, actual, at) ==
    /\ res' = [res EXCEPT ![k].status = "reconciled", ![k].actual = actual]
    /\ ledger' = Post(k, "reconcile", actual - res[k].reserved, at)

\* UPDATE ... WHERE status = 'reserved' and the reconcile entry.
Settle(k, actual, at) ==
    IF res[k].status = "reserved"
    THEN /\ res' = [res EXCEPT ![k].status = "reconciled", ![k].actual = actual]
         /\ ledger' = Post(k, "reconcile", actual - res[k].reserved, at)
    ELSE UNCHANGED <<res, ledger>>

\* BudgetService.reconcile: the entry belongs to the reservation's cycle.
Reconcile(k, actual) == Settle(k, actual, res[k].cycle)

\* The run's current reservation.
Key(r) == <<r, run[r].generation>>

\* Mutant: the reserved amount is charged whatever the calls cost.
SettleRunAsReserved(r) == Settle(Key(r), res[Key(r)].reserved, cycle)

\* finalizeUsageAndBudget, reconcileTerminalUsage: what the generation cost, or
\* all that was reserved when some of its usage has no price.
SettleRun(r) ==
    Settle(Key(r), IF run[r].unpriced THEN res[Key(r)].reserved ELSE run[r].cost, cycle)

-----------------------------------------------------------------------------
(* Preparing and admitting a turn (startTurnRequest).                      *)

Go(p, pc) == prep' = [prep EXCEPT ![p].pc = pc]

\* Mutant: a cancelled request may be prepared again.
CancelledMayBegin(r) == intent[r].state # "admitted"

\* beginAdmission starts an attempt unless the request was admitted or cancelled.
MayBegin(r) == intent[r].state \notin {"admitted", "cancelled"}

BeginAdmission(p, r) ==
    /\ prep[p].pc = "idle" /\ MayBegin(r) /\ MayAttempt
    /\ intent' = [intent EXCEPT ![r] = [state |-> "preparing", attempt |-> @.attempt + 1, leased |-> "live"]]
    /\ prep' = [prep EXCEPT ![p] = [pc |-> "began", req |-> r, attempt |-> intent[r].attempt + 1,
                                      exceeded |-> FALSE, at |-> cycle]]
    /\ UNCHANGED <<run, res, ledger, recovery, lock, errors, cycle>>

\* The preparation throws before anything is reserved, or the process dies.
Abandon(p) ==
    /\ prep[p].pc # "idle" /\ Faulty
    /\ errors' = errors + 1
    /\ prep' = [prep EXCEPT ![p] = Idle]
    /\ lock' = IF lock = p THEN Free ELSE lock
    /\ UNCHANGED <<intent, run, res, ledger, recovery, cycle>>

\* Provider or connector setup, the billing health check, or the database fails
\* inside the try block.
PreparationFails(p) ==
    /\ prep[p].pc \in {"began", "reserved"} /\ Faulty
    /\ errors' = errors + 1
    /\ Go(p, "failing")
    /\ UNCHANGED <<intent, run, res, ledger, recovery, lock, cycle>>

\* Mutant: the budget check does not take the tenant's lock.
LockIgnored == lock \in Preparers \cup {Free}

\* pg_advisory_xact_lock: nobody else is between check and insert.
LockFree == lock = Free

\* reserve finds the request id already reserved: allowed while it is active.
ReuseReservation(p) ==
    /\ prep[p].pc = "began" /\ LockFree
    /\ LET k == <<prep[p].req, 0>>
       IN  /\ res[k].status # "none"
           /\ Go(p, IF res[k].status = "reserved" THEN "reserved" ELSE "failing")
    /\ UNCHANGED <<intent, run, res, ledger, recovery, lock, errors, cycle>>

\* reserve takes the lock, which its transaction may have waited for since an
\* earlier cycle, and reads the ledger of the current one ...
CheckBudget(p) ==
    /\ prep[p].pc = "began" /\ LockFree
    /\ res[<<prep[p].req, 0>>].status = "none"
    /\ lock' = p
    /\ \E at \in prep[p].at .. cycle :
          prep' = [prep EXCEPT ![p].pc = "checked", ![p].exceeded = Exceeds(Estimate), ![p].at = at]
    /\ UNCHANGED <<intent, run, res, ledger, recovery, errors, cycle>>

\* ... and inserts the reservation, or a blocked one, and commits.  (Under the
\* lock the insert's own conflict clause has nothing to catch.)
InsertReservation(p) ==
    /\ prep[p].pc = "checked"
    /\ Insert(<<prep[p].req, 0>>, Estimate, prep[p].exceeded, prep[p].at)
    /\ Go(p, IF prep[p].exceeded THEN "failing" ELSE "reserved")
    /\ lock' = IF lock = p THEN Free ELSE lock
    /\ UNCHANGED <<intent, run, recovery, errors, cycle>>

SessionBusy == \E r \in Requests : run[r].state \in Active

\* Mutant: any attempt of a request that is still preparing may admit it, or
\* fail it.
AnyAttempt(p) == prep[p].req # NoRequest

\* The attempt's generation is the current one.
CurrentAttempt(p) ==
    /\ intent[prep[p].req].state = "preparing"
    /\ intent[prep[p].req].attempt = prep[p].attempt

\* admit under the lock on the intent, and its early exits in the code's order.
Admit(p) ==
    LET r == prep[p].req
    IN  /\ prep[p].pc = "reserved"
        /\ UNCHANGED <<res, ledger, recovery, lock, errors, cycle>>
        /\ \/ /\ intent[r].state = "admitted"
              /\ prep' = [prep EXCEPT ![p] = Idle]
              /\ UNCHANGED <<intent, run>>
           \/ /\ intent[r].state = "cancelled"
              /\ Go(p, "failing")
              /\ UNCHANGED <<intent, run>>
           \/ /\ intent[r].state \notin {"admitted", "cancelled"} /\ ~CurrentAttempt(p)
              /\ Go(p, "superseded")
              /\ UNCHANGED <<intent, run>>
           \/ /\ intent[r].state \notin {"admitted", "cancelled"} /\ CurrentAttempt(p)
              /\ SessionBusy \/ res[<<r, 0>>].status # "reserved"
              /\ Go(p, "failing")
              /\ UNCHANGED <<intent, run>>
           \/ \* the active run answers the same message: the caller is given that run
              /\ intent[r].state \notin {"admitted", "cancelled"} /\ CurrentAttempt(p)
              /\ SessionBusy
              /\ prep' = [prep EXCEPT ![p] = Idle]
              /\ UNCHANGED <<intent, run>>
           \/ /\ intent[r].state \notin {"admitted", "cancelled"} /\ CurrentAttempt(p)
              /\ ~SessionBusy /\ res[<<r, 0>>].status = "reserved"
              /\ run' = [run EXCEPT ![r].state = "running"]
              /\ intent' = [intent EXCEPT ![r].state = "admitted", ![r].leased = "none"]
              /\ prep' = [prep EXCEPT ![p] = Idle]

\* The catch block: settle the reservation unless the attempt was superseded ...
ReleaseFailed(p) ==
    /\ \/ prep[p].pc = "failing" /\ Reconcile(<<prep[p].req, 0>>, 0)
       \/ prep[p].pc = "superseded" /\ UNCHANGED <<res, ledger>>
    /\ Go(p, "closing")
    /\ UNCHANGED <<intent, run, recovery, lock, errors, cycle>>

\* ... and failAdmission of the own attempt.
FailAdmission(p) ==
    /\ prep[p].pc = "closing"
    /\ intent' = IF CurrentAttempt(p)
                 THEN [intent EXCEPT ![prep[p].req].state = "retryable", ![prep[p].req].leased = "none"]
                 ELSE intent
    /\ prep' = [prep EXCEPT ![p] = Idle]
    /\ UNCHANGED <<run, res, ledger, recovery, lock, errors, cycle>>

-----------------------------------------------------------------------------
(* The sweeps and time.                                                    *)

ExpirePreparation(r) ==
    /\ intent[r].leased = "live"
    /\ intent' = [intent EXCEPT ![r].leased = "expired"]
    /\ UNCHANGED <<run, res, ledger, prep, recovery, lock, errors, cycle>>

\* recoverExpiredAdmissions.
SweepAdmission(r) ==
    /\ intent[r].state = "preparing" /\ intent[r].leased = "expired"
    /\ intent' = [intent EXCEPT ![r].state = "expired", ![r].leased = "none"]
    /\ Settle(<<r, 0>>, 0, cycle)
    /\ UNCHANGED <<run, prep, recovery, lock, errors, cycle>>

\* Mutant: every old reservation is taken for an orphan.
OldIsOrphan(k) == res[k].status = "reserved"

\* Mutant: reservations of later generations are left alone.
OrphanOfAdmission(k) == k[2] = 0 /\ run[k[1]].state = "none"

\* Older than fifteen minutes, which any reservation may become, and no run has
\* its request id; a run keeps the one it was admitted with when recovery gives
\* it a new budget generation.
Orphan(k) == k[2] # 0 \/ run[k[1]].state = "none"

\* Maintenance phase orphan_budget_reservations.
ReleaseOrphan(k) ==
    /\ res[k].status = "reserved" /\ Orphan(k)
    /\ res' = [res EXCEPT ![k] = [status |-> "released", reserved |-> @.reserved, actual |-> 0, cycle |-> @.cycle]]
    /\ ledger' = Post(k, "release", -res[k].reserved, cycle)
    /\ UNCHANGED <<intent, run, prep, recovery, lock, errors, cycle>>

NextCycle ==
    /\ Faulty /\ MayTurnOver
    /\ cycle' = cycle + 1
    /\ UNCHANGED <<intent, run, res, ledger, prep, recovery, lock, errors>>

-----------------------------------------------------------------------------
(* The worker's side of a run.                                             *)

\* What the next call needs beyond what is reserved.
Additional(r) == run[r].cost + CallEstimate - res[Key(r)].reserved

\* Mutant: the extension is not written to the ledger.
ExtendReservationOnly(r) ==
    /\ res' = [res EXCEPT ![Key(r)].reserved = @ + Additional(r)]
    /\ UNCHANGED ledger

\* The reservation and its reserve entry grow together.
Extend(r) ==
    /\ res' = [res EXCEPT ![Key(r)].reserved = @ + Additional(r)]
    /\ ledger' = [ledger EXCEPT ![Key(r)]["reserve"].amount = @ + Additional(r)]

\* reserveNextModelCall, allowed.
StartCall(r) ==
    /\ run[r].state = "running" /\ run[r].calls < MaxCalls
    /\ res[Key(r)].status = "reserved"
    /\ IF Additional(r) <= 0 THEN UNCHANGED <<res, ledger>>
       ELSE LockFree /\ ~Exceeds(Additional(r)) /\ Extend(r)
    /\ run' = [run EXCEPT ![r].state = "calling", ![r].calls = @ + 1]
    /\ UNCHANGED <<intent, prep, recovery, lock, errors, cycle>>

\* reserveNextModelCall, refused at the limit: the run answers with what it has.
StopAtLimit(r) ==
    /\ run[r].state = "running" /\ run[r].calls < MaxCalls
    /\ res[Key(r)].status = "reserved"
    /\ Additional(r) > 0 /\ LockFree /\ Exceeds(Additional(r))
    /\ run' = [run EXCEPT ![r].state = "finalizing"]
    /\ UNCHANGED <<intent, res, ledger, prep, recovery, lock, errors, cycle>>

\* The provider's answer and its usage are committed.
RecordUsage(r) ==
    /\ run[r].state = "calling"
    /\ \E cost \in 0 .. MaxCallCost, unpriced \in BOOLEAN :
          /\ unpriced => cost = 0
          /\ run' = [run EXCEPT ![r].state = "running", ![r].cost = @ + cost,
                                ![r].unpriced = @ \/ unpriced]
    /\ UNCHANGED <<intent, res, ledger, prep, recovery, lock, errors, cycle>>

\* A commit to a terminal state settles the generation.
End(r, state) ==
    /\ run' = [run EXCEPT ![r].state = state]
    /\ SettleRun(r)

\* The worker ends the run; a refused reservation ends it as failed.
EndRun(r) ==
    /\ \/ run[r].state = "running" /\ \E s \in {"completed", "failed", "recovery_required"} : End(r, s)
       \/ run[r].state = "calling" /\ End(r, "failed")
       \/ run[r].state = "finalizing" /\ End(r, "completed")
    /\ UNCHANGED <<intent, prep, recovery, lock, errors, cycle>>

-----------------------------------------------------------------------------
(* The user and the operator.                                              *)

\* cancel(requestId): before admission the intent, after it the run.
Cancel(r) ==
    /\ intent[r].state # "cancelled" \/ run[r].state \in Active
    /\ intent' = [intent EXCEPT ![r].state = IF @ = "admitted" THEN @ ELSE "cancelled", ![r].leased = "none"]
    /\ IF run[r].state \in Active
       THEN \E s \in {"cancelled", "recovery_required"} : End(r, s)
       ELSE UNCHANGED <<run, res, ledger>>
    /\ UNCHANGED <<prep, recovery, lock, errors, cycle>>

\* recover(retry or mark-complete) locks the run and reserves the next
\* generation, with no estimate, in a transaction of its own.
RecoverReserve(r) ==
    /\ run[r].state = "recovery_required" /\ recovery[r] = "none" /\ LockFree
    /\ res[Key(r)].status # "reserved"
    /\ MayTurnOver /\ run[r].generation < MaxGenerations
    /\ LET k == <<r, run[r].generation + 1>>
       IN  \/ /\ res[k].status = "reserved"
              /\ recovery' = [recovery EXCEPT ![r] = "reserved"]
              /\ UNCHANGED <<res, ledger>>
           \/ /\ res[k].status = "none"
              /\ Insert(k, 0, Exceeds(0), cycle)
              /\ recovery' = [recovery EXCEPT ![r] = IF Exceeds(0) THEN "none" ELSE "reserved"]
    /\ UNCHANGED <<intent, run, prep, lock, errors, cycle>>

\* The transaction commits; turn_runs_active_session_unique refuses it while
\* another run of the session is active.
RecoverCommit(r) ==
    /\ recovery[r] = "reserved"
    /\ IF SessionBusy
       THEN recovery' = [recovery EXCEPT ![r] = "refused"] /\ UNCHANGED run
       ELSE /\ recovery' = [recovery EXCEPT ![r] = "none"]
            /\ run' = [run EXCEPT ![r] = [state |-> "running", generation |-> @.generation + 1,
                                          calls |-> 0, cost |-> 0, unpriced |-> FALSE]]
    /\ UNCHANGED <<intent, res, ledger, prep, lock, errors, cycle>>

\* recoverTurn's finally block.
RecoverRelease(r) ==
    /\ recovery[r] = "refused"
    /\ Reconcile(<<r, run[r].generation + 1>>, 0)
    /\ recovery' = [recovery EXCEPT ![r] = "none"]
    /\ UNCHANGED <<intent, run, prep, lock, errors, cycle>>

\* The API process dies before the commit: the reservation stays.
RecoverCrash(r) ==
    /\ recovery[r] # "none" /\ Faulty
    /\ errors' = errors + 1
    /\ recovery' = [recovery EXCEPT ![r] = "none"]
    /\ UNCHANGED <<intent, run, res, ledger, prep, lock, cycle>>

RecoverCancel(r) ==
    /\ run[r].state = "recovery_required" /\ recovery[r] = "none"
    /\ End(r, "cancelled")
    /\ UNCHANGED <<intent, prep, recovery, lock, errors, cycle>>

-----------------------------------------------------------------------------
Prepare(p) ==
    \/ ReuseReservation(p) \/ CheckBudget(p) \/ InsertReservation(p)
    \/ Admit(p) \/ ReleaseFailed(p) \/ FailAdmission(p)

Next ==
    \/ \E p \in Preparers : Prepare(p) \/ Abandon(p) \/ PreparationFails(p)
    \/ \E p \in Preparers, r \in Requests : BeginAdmission(p, r)
    \/ \E r \in Requests :
          \/ ExpirePreparation(r) \/ SweepAdmission(r)
          \/ StartCall(r) \/ StopAtLimit(r) \/ RecordUsage(r) \/ EndRun(r)
          \/ Cancel(r) \/ RecoverReserve(r) \/ RecoverCommit(r) \/ RecoverRelease(r)
          \/ RecoverCrash(r) \/ RecoverCancel(r)
    \/ \E k \in Keys : ReleaseOrphan(k)
    \/ NextCycle

\* Handlers carry on and maintenance runs.  Nothing ends a run for certain: one
\* that waits for its user waits as long as the user likes.
Fairness ==
    /\ \A p \in Preparers : WF_vars(Prepare(p))
    /\ \A r \in Requests : WF_vars(RecoverCommit(r) \/ RecoverRelease(r))
    /\ WF_vars(\E k \in Keys : ReleaseOrphan(k))

Spec == Init /\ [][Next]_vars
FairSpec == Spec /\ Fairness

-----------------------------------------------------------------------------
(* Properties.                                                             *)

\* Of every reservation the ledger holds what is reserved while it is open, what
\* the generation cost once it is reconciled, and nothing once it is released
\* or blocked: the preparer, the sweep, the worker, cancellation, recovery and
\* maintenance between them settle it once (budget.service.ts reconcile,
\* outbox.ts 371, turn-runner.ts finalizeUsageAndBudget, maintenance.ts 485).
LedgerMatchesReservation ==
    \A k \in Keys :
        Net(k) = CASE res[k].status = "reserved" -> res[k].reserved
                   [] res[k].status = "reconciled" -> res[k].actual
                   [] OTHER -> 0

\* What is spent in a cycle apart from the excess of its settlements.
Planned(c) == Spent(c) - Overrun(c)

\* The ledger of the current cycle stays within the hard limit while admissions
\* and workers reserve at the same time (the advisory lock of reserve and
\* reserveNextModelCall), but for what calls cost beyond the estimates they were
\* reserved at, which their runs settle without a check.  A past cycle may still
\* grow: an extension changes the reserve entry where it is, and a transaction
\* that waited for the lock dates its entry by its start.
WithinLimit == Planned(cycle) <= HardLimit

\* The run belongs to the only attempt of its request and to the reservation
\* it was admitted with.  A late failure of an earlier attempt settles the
\* reservation that a later one was admitted with (agent-api.controller.ts
\* reconciles by request id), and maintenance takes the reservation of a
\* recovered generation for an orphan.
FirstOfItsKind(r) == intent[r].attempt = 1 /\ run[r].generation = 0

\* An admitted run owns an open reservation until it ends: no sweep, no other
\* request and no maintenance settles it under the worker.
RunIsFunded ==
    \A r \in Requests :
        run[r].state \in Active /\ FirstOfItsKind(r) => res[Key(r)].status = "reserved"

\* An intent says admitted exactly when its run exists, although late attempts,
\* the sweep and cancellation write to the same row (failAdmission's generation).
IntentMatchesRun ==
    \A r \in Requests : run[r].state # "none" <=> intent[r].state = "admitted"

\* A request cancelled before its admission never runs, whichever attempts are
\* still under way (cancel, and the checks of beginAdmission and admit).
CancelledNeverRuns ==
    [][\A r \in Requests : intent[r].state = "cancelled" =>
          intent'[r].state = "cancelled" /\ run'[r].state = "none"]_vars

\* What a run cost is what the ledger charges for it in the end, however it
\* ends: by its worker, at the limit, by cancellation or by recovery.
UsageIsCharged ==
    \A r \in Requests :
        run[r].state \in Ended /\ ~run[r].unpriced /\ FirstOfItsKind(r)
            => Net(Key(r)) = run[r].cost

\* No reservation stays open for ever without a run that spends from it, whoever
\* died holding it: what is open in the end is the current reservation of a run
\* that has not ended.  (Whether a run ends is its user's and its worker's
\* business: a run may wait for an answer for ever.)
EveryReservationSettles ==
    <>[](\A k \in Keys : res[k].status = "reserved" =>
            run[k[1]].state \in Active /\ Key(k[1]) = k)

-----------------------------------------------------------------------------
(* The inductive invariant behind the safety properties.                   *)

\* A preparer under way has an attempt of its request to itself.
PreparersDistinct ==
    /\ \A p \in Preparers :
          /\ prep[p].pc = "idle" <=> prep[p].req = NoRequest
          /\ prep[p].pc # "idle" => prep[p].attempt \in 1 .. intent[prep[p].req].attempt
    /\ \A p, q \in Preparers :
          /\ prep[p].pc # "idle" /\ prep[q].pc # "idle"
          /\ prep[p].req = prep[q].req /\ prep[p].attempt = prep[q].attempt
          => p = q

\* Between the check and the insert nobody else inserts the reservation.
CheckedIsNew ==
    \A p \in Preparers : prep[p].pc = "checked" => res[<<prep[p].req, 0>>].status = "none"

\* Which entries a reservation has, and what each of them says.
KeptAt(k) ==
    /\ ledger[k]["reserve"].posted <=> res[k].status \in {"reserved", "reconciled", "released"}
    /\ ledger[k]["reconcile"].posted <=> res[k].status = "reconciled"
    /\ ledger[k]["release"].posted <=> res[k].status = "released"
    /\ ledger[k]["reserve"].amount = IF ledger[k]["reserve"].posted THEN res[k].reserved ELSE 0
    /\ ledger[k]["reconcile"].amount = IF ledger[k]["reconcile"].posted THEN res[k].actual - res[k].reserved ELSE 0
    /\ ledger[k]["release"].amount = IF ledger[k]["release"].posted THEN - res[k].reserved ELSE 0

LedgerKept == \A k \in Keys : KeptAt(k)

\* While a recovery request holds the run's row the run waits for it.
RecoveryHolds ==
    \A r \in Requests : recovery[r] # "none" =>
        run[r].state = "recovery_required" /\ run[r].generation < MaxGenerations

\* A request admitted at its first attempt has no preparer left.
AdmittedAlone ==
    \A r \in Requests : intent[r].state = "admitted" /\ intent[r].attempt = 1 =>
        \A p \in Preparers : prep[p].req # r

\* The end of a run settled its reservation at its cost.
EndedIsSettled ==
    \A r \in Requests : run[r].state \in Ended /\ FirstOfItsKind(r) =>
        /\ res[Key(r)].status = "reconciled"
        /\ ~run[r].unpriced => res[Key(r)].actual = run[r].cost

AdmissionInv ==
    /\ TypeOK /\ PreparersDistinct /\ CheckedIsNew /\ LedgerKept /\ RecoveryHolds
    /\ IntentMatchesRun /\ AdmittedAlone /\ RunIsFunded /\ EndedIsSettled

\* No row is dated ahead of the cycle.
NothingAhead ==
    /\ \A k \in Keys : \A kind \in Kinds : ledger[k][kind].cycle <= cycle
    /\ \A k \in Keys : res[k].cycle <= cycle
    /\ \A p \in Preparers : prep[p].at <= cycle

\* What a call may cost beyond its estimate.
CallExcess == IF MaxCallCost > CallEstimate THEN MaxCallCost - CallEstimate ELSE 0

\* What a run has used and the call it waits for are reserved, but for the excess
\* of its last call.
CallCovered(r) ==
    IF run[r].state = "calling" THEN run[r].cost + CallEstimate <= res[Key(r)].reserved
                                ELSE run[r].cost <= res[Key(r)].reserved + CallExcess

ReservationCovers ==
    /\ \A k \in Keys : res[k].reserved >= 0 /\ (res[k].status = "none" => res[k].reserved = 0)
    /\ \A r \in Requests : CallCovered(r)

\* What the holder of the lock read still stands when it inserts.
CheckStands ==
    \A p \in Preparers : prep[p].pc = "checked" /\ ~prep[p].exceeded /\ prep[p].at = cycle =>
        Planned(cycle) + Estimate <= HardLimit

SpendingInv == NothingAhead /\ ReservationCovers /\ CheckStands /\ WithinLimit

-----------------------------------------------------------------------------
(* What a caller sees of admission and budget.                             *)

requestBar ==
    [r \in Requests |-> IF run[r].state \in Active THEN "running"
                        ELSE IF run[r].state \in Ended THEN "ended"
                        ELSE IF intent[r].state = "cancelled" THEN "cancelled" ELSE "waiting"]
generationBar == [r \in Requests |-> run[r].generation]
accountBar ==
    [k \in Keys |-> CASE res[k].status = "reserved" -> "open"
                      [] res[k].status \in {"reconciled", "released"} -> "closed"
                      [] res[k].status = "blocked" -> "denied"
                      [] OTHER -> "none"]
chargeBar == [k \in Keys |-> Net(k)]

Contract == INSTANCE AdmissionContract WITH
    Generations <- 0 .. MaxGenerations, CallExcess <- CallExcess,
    request <- requestBar, generation <- generationBar, account <- accountBar, charge <- chargeBar

\* Whatever attempts, sweeps, workers, cancellations, recoveries and maintenance
\* do at the same time, a request is admitted only on an open account, and the
\* ledger entries of an account are opened once, raised only for the run that
\* uses it, and closed once, at no more than was reserved and the excess of one
\* call (admit, the status guards of every settlement, reserveNextModelCall).
ContractSpec == Contract!Spec
=============================================================================
