--------------------------- MODULE ScheduledTasks ---------------------------
(***************************************************************************)
(* Scheduled tasks (packages/db/src/scheduled-tasks.ts) and their           *)
(* dispatchers in the API replicas (scheduled-task-dispatcher.ts): due      *)
(* schedules become runs, runs are claimed under a lease, and a claimed run *)
(* starts a turn through the ordinary admission of turns.                   *)
(*                                                                          *)
(* One step is one SQL transaction, except failed(), which is split where   *)
(* it holds the locks on schedule and run.  A claim's owner is a fresh id,  *)
(* here the number of the claim.  Admission is TurnAdmission's, reduced to  *)
(* the attempt that may admit, the reservation and the turn.  The status of *)
(* the run's chat is written together with the run's and is left out.       *)
(***************************************************************************)
EXTENDS Naturals, FiniteSets

CONSTANTS
    Schedules,
    RetryLimit,     \* attempts after which a failure is final: 3
    MaxRuns,        \* model bound: runs of a schedule
    MaxClaims,      \* model bound: claims of a run
    MaxTime,        \* model bound: the clock, in minutes of the calendar
    MaxFaults,      \* model bound: failed steps, deaths and overtaken leases
    MaxChanges      \* model bound: changes by the user or of the membership

ASSUME BoundsAssumption ==
    /\ {RetryLimit, MaxRuns, MaxClaims, MaxTime, MaxFaults, MaxChanges} \subseteq Nat
    /\ MaxTime > 0

Runs == Schedules \X (1 .. MaxRuns)
Claims == 1 .. MaxClaims

VARIABLES
    schedule,   \* scheduled_tasks; next = 0 stands for NULL
    run,        \* scheduled_task_runs
    launch,     \* the dispatchers' launch of a claimed run
    lock,       \* the run whose failed() holds the row of the schedule; 0: none
    intent,     \* the claim whose admission attempt is the current one; 0: none
    res,        \* the budget reservation model_<run>
    turn,       \* the turn with request id model_<run>; "held" is recovery_required, "resumed" active again
    member,     \* the owner's membership is active
    now,
    errors,     \* steps of an admission that failed
    crashes,    \* dispatchers that died
    overtakes,  \* leases that expired under a live dispatcher
    changes     \* changes by the user or of the membership

Faulty == errors + crashes + overtakes < MaxFaults
counters == <<errors, crashes, overtakes, changes>>
vars == <<schedule, run, launch, lock, intent, res, turn, member, now, counters>>

Waiting == {"pending", "dispatching"}
Locked == {"retrying", "failing", "recovering"}      \* within failed()
Gone == {"none", "done", "dead"}

ScheduleType == [state : {"none", "active", "paused", "completed"}, next : 0 .. MaxTime + 1,
                 kind : {"once", "cron"}, runAt : 0 .. MaxTime + 1, deleted : BOOLEAN]
RunType == [state : {"none", "admitted", "skipped", "failed"} \cup Waiting, trigger : {"scheduled", "manual"},
            at : 0 .. MaxTime, attempts : 0 .. MaxClaims, owner : {0} \cup Claims,
            lease : {"none", "live", "expired"}, ready : BOOLEAN]
LaunchType == Gone \cup Locked \cup
    {"claimed", "denied", "starting", "preparing", "reserved", "started", "retryable", "rejected"}

Typed ==
    /\ schedule \in [Schedules -> ScheduleType]
    /\ run \in [Runs -> RunType]
    /\ launch \in [Runs -> [Claims -> LaunchType]]
    /\ lock \in [Schedules -> 0 .. MaxRuns]
    /\ intent \in [Runs -> {0} \cup Claims]
    /\ res \in [Runs -> {"none", "reserved", "settled"}]
    /\ turn \in [Runs -> {"none", "active", "held", "resumed", "ended"}]
    /\ member \in BOOLEAN
    /\ now \in 1 .. MaxTime
    /\ errors \in Nat /\ crashes \in Nat /\ overtakes \in Nat /\ changes \in Nat

\* A lease has an owner, and only a run that is being dispatched has one.
LeaseHasOwner ==
    \A k \in Runs : /\ run[k].owner # 0 <=> run[k].state = "dispatching"
                    /\ run[k].lease # "none" <=> run[k].owner # 0

\* Whoever is within failed() holds the schedule.
LockedHolds == \A k \in Runs, c \in Claims : launch[k][c] \in Locked => lock[k[1]] = k[2]

\* Every row has its type, lease and lock included.
TypeOK == Typed /\ LeaseHasOwner /\ LockedHolds

NoRun == [state |-> "none", trigger |-> "manual", at |-> 0, attempts |-> 0, owner |-> 0, lease |-> "none", ready |-> TRUE]

Init ==
    /\ schedule = [s \in Schedules |-> [state |-> "none", next |-> 0, kind |-> "once", runAt |-> 0, deleted |-> FALSE]]
    /\ run = [k \in Runs |-> NoRun]
    /\ launch = [k \in Runs |-> [c \in Claims |-> "none"]]
    /\ lock = [s \in Schedules |-> 0]
    /\ intent = [k \in Runs |-> 0] /\ res = [k \in Runs |-> "none"] /\ turn = [k \in Runs |-> "none"]
    /\ member = TRUE /\ now = 1
    /\ errors = 0 /\ crashes = 0 /\ overtakes = 0 /\ changes = 0

-----------------------------------------------------------------------------
(* Schedules and their runs.                                               *)

RunsOf(s) == {k \in Runs : k[1] = s}
Recorded(s) == {k \in RunsOf(s) : run[k].state # "none"}
Fresh(s) == CHOOSE k \in RunsOf(s) : run[k].state = "none"

\* Mutant: the lock on the schedule is not taken.
UnlockedAnyway(s) == lock[s] \in 0 .. MaxRuns

Unlocked(s) == lock[s] = 0

\* Mutant: the minute that has just begun counts as the next one.
NextIncludingNow(kind, runAt) == IF kind = "once" THEN runAt ELSE now

\* nextTaskScheduleRun: strictly after now.
NextRun(kind, runAt) == IF kind = "once" THEN runAt ELSE now + 1

\* Mutant: only runs not yet admitted count.
BusyUntilAdmitted(s) == \E k \in RunsOf(s) : run[k].state \in Waiting

busy(s) ==
    \E k \in RunsOf(s) : \/ run[k].state \in Waiting
                         \/ run[k].state = "admitted" /\ turn[k] \in {"active", "resumed"}

\* cancelPending.
Cancelled(s) ==
    [k \in Runs |-> IF k[1] = s /\ run[k].state = "pending" THEN [run[k] EXCEPT !.state = "skipped"] ELSE run[k]]

\* The row enqueue inserts; a skipped occurrence is recorded too.
NewRun(at, trigger, skip) ==
    [NoRun EXCEPT !.state = IF skip THEN "skipped" ELSE "pending", !.at = at, !.trigger = trigger]

\* INSERT ... ON CONFLICT (schedule, occurrence_key): the key of a scheduled run
\* is its time, that of a manual run the operation's id.
AlreadyQueued(s) ==
    \E k \in Recorded(s) : run[k].trigger = "scheduled" /\ run[k].at = schedule[s].next

Change == changes < MaxChanges /\ changes' = changes + 1
UserOnly == UNCHANGED <<launch, lock, intent, res, turn, member, now, errors, crashes, overtakes>>

Active(s) == schedule[s].state # "none" /\ ~schedule[s].deleted

Create(s, kind) ==
    /\ schedule[s].state = "none" /\ member /\ now < MaxTime
    /\ schedule' = [schedule EXCEPT ![s] = [state |-> "active", kind |-> kind, runAt |-> now + 1,
                                            next |-> NextRun(kind, now + 1), deleted |-> FALSE]]
    /\ UNCHANGED <<run, changes>> /\ UserOnly

\* update with a schedule, which makes it active ...
Reschedule(s, kind) ==
    /\ Active(s) /\ Unlocked(s) /\ member /\ now < MaxTime /\ Change
    /\ schedule' = [schedule EXCEPT ![s].state = "active", ![s].kind = kind, ![s].runAt = now + 1,
                                    ![s].next = NextRun(kind, now + 1)]
    /\ run' = Cancelled(s)
    /\ UserOnly

\* ... with state active; a one-time task needs a future time ...
Resume(s) ==
    /\ Active(s) /\ Unlocked(s) /\ member /\ schedule[s].state # "active" /\ Change
    /\ schedule[s].kind = "once" => schedule[s].runAt > now
    /\ schedule' = [schedule EXCEPT ![s].state = "active", ![s].next = NextRun(schedule[s].kind, schedule[s].runAt)]
    /\ run' = Cancelled(s)
    /\ UserOnly

\* ... with state paused ...
Pause(s) ==
    /\ Active(s) /\ Unlocked(s) /\ Change
    /\ schedule' = [schedule EXCEPT ![s].state = "paused", ![s].next = 0]
    /\ run' = Cancelled(s)
    /\ UserOnly

\* ... and with neither: the name, prompt or model of a task.
Edit(s) ==
    /\ Active(s) /\ Unlocked(s) /\ schedule[s].state # "active" /\ Change
    /\ run' = Cancelled(s)
    /\ UNCHANGED schedule /\ UserOnly

Remove(s) ==
    /\ Active(s) /\ Unlocked(s) /\ Change
    /\ schedule' = [schedule EXCEPT ![s].state = "paused", ![s].next = 0, ![s].deleted = TRUE]
    /\ run' = Cancelled(s)
    /\ UserOnly

\* A repeated operation id returns the recorded result and changes nothing.
runNow(s) ==
    /\ Active(s) /\ Unlocked(s) /\ member /\ ~busy(s) /\ Recorded(s) # RunsOf(s) /\ Change
    /\ run' = [run EXCEPT ![Fresh(s)] = NewRun(now, "manual", FALSE)]
    /\ UNCHANGED schedule /\ UserOnly

\* What enqueueDue selects, FOR UPDATE SKIP LOCKED.
Due == {s \in Schedules : schedule[s].state = "active" /\ schedule[s].next <= now /\ Unlocked(s)}

\* One transaction for all due schedules of the tenant: an occurrence that is
\* already there throws and rolls back the others.
enqueueDue ==
    /\ Due # {}
    /\ LET queued == IF member THEN Due ELSE {}
       IN  /\ \A s \in queued : ~AlreadyQueued(s) /\ Recorded(s) # RunsOf(s)
           /\ run' = [k \in Runs |-> IF k[1] \in queued /\ k = Fresh(k[1])
                                     THEN NewRun(schedule[k[1]].next, "scheduled", busy(k[1])) ELSE run[k]]
           /\ schedule' = [s \in Schedules |->
                 CASE s \in queued /\ schedule[s].kind = "cron" -> [schedule[s] EXCEPT !.next = NextRun("cron", 0)]
                   [] s \in queued /\ schedule[s].kind = "once" -> [schedule[s] EXCEPT !.next = 0, !.state = "completed"]
                   [] s \in Due \ queued -> [schedule[s] EXCEPT !.next = 0, !.state = "paused"]
                   [] OTHER -> schedule[s]]
    /\ UNCHANGED <<launch, lock, intent, res, turn, member, now, counters>>

-----------------------------------------------------------------------------
(* Claims.                                                                 *)

\* Every settlement clears lease_owner and lease_expires_at.
Settled(k, state) == [run[k] EXCEPT !.state = state, !.owner = 0, !.lease = "none"]

\* Mutant: a run whose dispatcher died is not claimed again.
ClaimableOnce(k) == run[k].state = "pending" /\ run[k].ready /\ run[k].lease # "live"

Claimable(k) == run[k].state \in Waiting /\ run[k].ready /\ run[k].lease # "live"

\* A run whose turn was admitted and whose dispatcher did not get to record it.
Unrecorded(k) == run[k].state \in Waiting /\ turn[k] # "none"

\* claimPending: repair first, then claim; S leaves out what others hold and
\* what is beyond the limit.
claimPending(S) ==
    /\ S \subseteq {k \in Runs : Claimable(k) /\ ~Unrecorded(k) /\ lock[k[1]] # k[2]}
    /\ \A k \in S : run[k].attempts < MaxClaims
    /\ S \cup {k \in Runs : Unrecorded(k)} # {}
    /\ \A k \in Runs : Unrecorded(k) => lock[k[1]] # k[2]
    /\ run' = [k \in Runs |->
          IF Unrecorded(k) THEN Settled(k, "admitted")
          ELSE IF k \in S THEN [run[k] EXCEPT !.state = "dispatching", !.attempts = @ + 1,
                                              !.owner = run[k].attempts + 1, !.lease = "live"]
          ELSE run[k]]
    /\ launch' = [k \in Runs |-> IF k \in S THEN [launch[k] EXCEPT ![run[k].attempts + 1] = "claimed"] ELSE launch[k]]
    /\ UNCHANGED <<schedule, lock, intent, res, turn, member, now, counters>>

\* Mutant: any run that is being dispatched may be settled by whoever claimed it.
OwnsAny(k, c) == run[k].state = "dispatching" /\ run[k].attempts >= c

\* WHERE lease_owner=$3 AND state='dispatching'.
Owns(k, c) == run[k].state = "dispatching" /\ run[k].owner = c

Step(k, c, pc) == launch' = [launch EXCEPT ![k][c] = pc]
Fail == Faulty /\ errors' = errors + 1

authorizeClaim(k, c) ==
    /\ launch[k][c] = "claimed"
    /\ Step(k, c, IF Owns(k, c) /\ run[k].lease = "live" /\ member THEN "starting" ELSE "denied")
    /\ UNCHANGED <<schedule, run, lock, intent, res, turn, member, now, counters>>

-----------------------------------------------------------------------------
(* startTurn, as TurnAdmission has it in detail.                           *)

\* replayAdmission, beginAdmission: the latest attempt is the current one.
BeginAdmission(k, c) ==
    /\ launch[k][c] = "starting"
    /\ IF turn[k] # "none" THEN Step(k, c, "started") /\ UNCHANGED intent
       ELSE Step(k, c, "preparing") /\ intent' = [intent EXCEPT ![k] = c]
    /\ UNCHANGED <<schedule, run, lock, res, turn, member, now, counters>>

\* budgets.reserve: a settled reservation is refused with status 402.
Reserve(k, c) ==
    /\ launch[k][c] = "preparing"
    /\ IF res[k] = "settled" THEN Step(k, c, "rejected") /\ UNCHANGED res
       ELSE Step(k, c, "reserved") /\ res' = [res EXCEPT ![k] = "reserved"]
    /\ UNCHANGED <<schedule, run, lock, intent, turn, member, now, counters>>

\* admit; a superseded attempt is refused with status 409.
Admit(k, c) ==
    /\ launch[k][c] = "reserved"
    /\ CASE turn[k] # "none" -> Step(k, c, "started") /\ UNCHANGED <<intent, turn>>
         [] turn[k] = "none" /\ intent[k] # c -> Step(k, c, "rejected") /\ UNCHANGED <<intent, turn>>
         [] OTHER -> /\ Step(k, c, "started")
                     /\ turn' = [turn EXCEPT ![k] = "active"]
                     /\ intent' = [intent EXCEPT ![k] = 0]
    /\ UNCHANGED <<schedule, run, lock, res, member, now, counters>>

\* admit throws, before or after it committed: the catch block settles the
\* reservation and closes the attempt.
AdmitThrows(k, c) ==
    /\ launch[k][c] = "reserved" /\ Fail
    /\ \/ UNCHANGED turn
       \/ turn[k] = "none" /\ intent[k] = c /\ turn' = [turn EXCEPT ![k] = "active"]
    /\ intent' = IF intent[k] = c THEN [intent EXCEPT ![k] = 0] ELSE intent
    /\ res' = [res EXCEPT ![k] = "settled"]
    /\ Step(k, c, "retryable")
    /\ UNCHANGED <<schedule, run, lock, member, now, crashes, overtakes, changes>>

\* The request fails elsewhere: a database error, or a policy that refuses it;
\* also admitted() itself.
Throws(k, c) ==
    /\ launch[k][c] \in {"claimed", "starting", "preparing", "started"} /\ Fail
    /\ \/ Step(k, c, "retryable")
       \/ launch[k][c] = "preparing" /\ Step(k, c, "rejected")
    /\ UNCHANGED <<schedule, run, lock, intent, res, turn, member, now, crashes, overtakes, changes>>

\* The worker's sweep closes an attempt past its lease, which began after the
\* claim did, and settles its reservation.
SweepAdmission(k) ==
    /\ intent[k] # 0
    /\ run[k].owner # intent[k] \/ run[k].lease = "expired"
    /\ intent' = [intent EXCEPT ![k] = 0]
    /\ res' = [res EXCEPT ![k] = IF @ = "reserved" THEN "settled" ELSE @]
    /\ UNCHANGED <<schedule, run, launch, lock, turn, member, now, counters>>

\* The turn completes, fails or is cancelled, the latter also by recover ...
EndTurn(k) ==
    /\ turn[k] \in {"active", "resumed", "held"}
    /\ turn' = [turn EXCEPT ![k] = "ended"]
    /\ UNCHANGED <<schedule, run, launch, lock, intent, res, member, now, counters>>

\* ... or is left for review (recovery_required), which busy counts as over ...
HoldTurn(k) ==
    /\ turn[k] \in {"active", "resumed"}
    /\ turn' = [turn EXCEPT ![k] = "held"]
    /\ UNCHANGED <<schedule, run, launch, lock, intent, res, member, now, counters>>

\* ... until somebody recovers it, which asks no schedule.
RecoverTurn(k) ==
    /\ turn[k] = "held"
    /\ turn' = [turn EXCEPT ![k] = "resumed"]
    /\ UNCHANGED <<schedule, run, launch, lock, intent, res, member, now, counters>>

TurnMoves(k) == EndTurn(k) \/ HoldTurn(k) \/ RecoverTurn(k)

-----------------------------------------------------------------------------
(* Settling a claim.                                                       *)

admitted(k, c) ==
    /\ launch[k][c] = "started"
    /\ Owns(k, c) => lock[k[1]] # k[2]
    /\ run' = IF Owns(k, c) THEN [run EXCEPT ![k] = Settled(k, "admitted")] ELSE run
    /\ Step(k, c, "done")
    /\ UNCHANGED <<schedule, lock, intent, res, turn, member, now, counters>>

MayRetry(k) ==
    /\ run[k].attempts < RetryLimit
    /\ ~schedule[k[1]].deleted /\ schedule[k[1]].state # "paused"

\* Mutant: an admission that threw is taken to have failed.
TakenAsFailed(k) == turn[k] = "ended"

\* The turn was admitted although its request failed.
Recovered(k) == turn[k] # "none"

\* failed locks schedule and run and looks at both ...
FailedReads(k, c) ==
    /\ launch[k][c] \in {"denied", "retryable", "rejected"}
    /\ Unlocked(k[1])
    /\ IF Owns(k, c)
       THEN /\ lock' = [lock EXCEPT ![k[1]] = k[2]]
            /\ Step(k, c, CASE Recovered(k) -> "recovering"
                            [] ~Recovered(k) /\ launch[k][c] = "retryable" /\ MayRetry(k) -> "retrying"
                            [] OTHER -> "failing")
       ELSE Step(k, c, "done") /\ UNCHANGED lock
    /\ UNCHANGED <<schedule, run, intent, res, turn, member, now, counters>>

\* ... and records what it decided.
FailedCommits(k, c) ==
    /\ launch[k][c] \in Locked
    /\ run' = [run EXCEPT ![k] =
          CASE launch[k][c] = "recovering" -> Settled(k, "admitted")
            [] launch[k][c] = "retrying" -> [Settled(k, "pending") EXCEPT !.ready = FALSE]
            [] launch[k][c] = "failing" -> Settled(k, "failed")]
    /\ lock' = [lock EXCEPT ![k[1]] = 0]
    /\ Step(k, c, "done")
    /\ UNCHANGED <<schedule, intent, res, turn, member, now, counters>>

\* The API process dies, or failed() itself throws.
Crash(k, c) ==
    /\ launch[k][c] \notin Gone /\ Faulty
    /\ crashes' = crashes + 1
    /\ lock' = IF launch[k][c] \in Locked THEN [lock EXCEPT ![k[1]] = 0] ELSE lock
    /\ Step(k, c, "dead")
    /\ UNCHANGED <<schedule, run, intent, res, turn, member, now, errors, overtakes, changes>>

-----------------------------------------------------------------------------
(* Time and membership.                                                    *)

\* Five minutes pass after a claim.
LeaseExpires(k) ==
    /\ run[k].lease = "live"
    /\ IF launch[k][run[k].owner] = "dead" THEN UNCHANGED overtakes
       ELSE Faulty /\ overtakes' = overtakes + 1
    /\ run' = [run EXCEPT ![k].lease = "expired"]
    /\ UNCHANGED <<schedule, launch, lock, intent, res, turn, member, now, errors, crashes, changes>>

\* Thirty seconds pass after a failure.
RetryDue(k) ==
    /\ ~run[k].ready
    /\ run' = [run EXCEPT ![k].ready = TRUE]
    /\ UNCHANGED <<schedule, launch, lock, intent, res, turn, member, now, counters>>

Tick ==
    /\ now < MaxTime
    /\ now' = now + 1
    /\ UNCHANGED <<schedule, run, launch, lock, intent, res, turn, member, counters>>

Membership ==
    /\ Change
    /\ member' = ~member
    /\ UNCHANGED <<schedule, run, launch, lock, intent, res, turn, now, errors, crashes, overtakes>>

-----------------------------------------------------------------------------
Launch(k, c) ==
    \/ authorizeClaim(k, c) \/ BeginAdmission(k, c) \/ Reserve(k, c) \/ Admit(k, c)
    \/ admitted(k, c) \/ FailedReads(k, c) \/ FailedCommits(k, c)

Next ==
    \/ enqueueDue \/ Tick \/ Membership
    \/ \E s \in Schedules :
          \/ Resume(s) \/ Pause(s) \/ Edit(s) \/ Remove(s) \/ runNow(s)
          \/ \E kind \in {"once", "cron"} : Create(s, kind) \/ Reschedule(s, kind)
    \/ \E S \in SUBSET Runs : claimPending(S)
    \/ \E k \in Runs :
          \/ SweepAdmission(k) \/ TurnMoves(k) \/ LeaseExpires(k) \/ RetryDue(k)
          \/ \E c \in Claims : Launch(k, c) \/ AdmitThrows(k, c) \/ Throws(k, c) \/ Crash(k, c)

\* Every replica polls, launches proceed, and time passes.  Claims, launches and
\* leases come to an end, so it is enough that some of each goes on while it can.
Fairness ==
    /\ WF_vars(\E k \in Runs : LeaseExpires(k) /\ launch[k][run[k].owner] = "dead")
    /\ WF_vars(\E k \in Runs : RetryDue(k))
    /\ SF_vars(\E k \in Runs, S \in SUBSET Runs : (k \in S \/ Unrecorded(k)) /\ claimPending(S))
    /\ SF_vars(\E k \in Runs, c \in Claims : Launch(k, c))

Spec == Init /\ [][Next]_vars
FairSpec == Spec /\ Fairness

-----------------------------------------------------------------------------
(* Properties.                                                             *)

\* An occurrence that is due was not recorded before, whatever was paused,
\* resumed and rescheduled: enqueue would throw for it and, with it, roll back
\* the due occurrences of every other schedule of the tenant.
DueIsNew == \A s \in Schedules : schedule[s].state = "active" => ~AlreadyQueued(s)

\* A deleted schedule has no run left that a dispatcher would start, also when
\* the deletion races the retry of a failed dispatch (failed: "Use the same
\* schedule-before-run lock order as pause/delete/reschedule").
DeletedNeverPending == \A k \in Runs : schedule[k[1]].deleted => run[k].state # "pending"

\* A dispatcher whose claim was taken over cannot settle the run of the newer
\* claim ("old owners cannot settle the replacement").
FencedSettlement ==
    [][\A k \in Runs, c \in Claims :
          launch'[k][c] = "done" /\ launch[k][c] # "done" /\ run[k].owner # c => run'[k] = run[k]]_vars

\* A run recorded as admitted has a turn; one recorded as failed or skipped has
\* none, even if the answer to its admission was lost
\* (docs/scheduled-tasks.md: "A lost admission response cannot mark that chat
\* failed").  A dispatcher overtaken by a newer claim of the run is left out: it
\* may start the turn after the newer one recorded the failure.
RecordMatchesTurn ==
    overtakes = 0 =>
        \A k \in Runs : /\ run[k].state = "admitted" => turn[k] # "none"
                        /\ run[k].state \in {"failed", "skipped"} => turn[k] = "none"

\* A schedule has at most one run under way (docs/scheduled-tasks.md: "Skip a
\* recurring occurrence when the preceding chat still has pending or active
\* work").  Two things are left out, for the code does not keep it then: a
\* dispatcher that is overtaken, whose late turn is of a run that the next
\* occurrence has already been checked against; and a turn held for review and
\* then recovered, for it counts as over in between (TERMINAL_STATES) and
\* DurableTurnService.recover does not look at the schedule.
NoOverlap ==
    overtakes = 0 =>
        \A s \in Schedules :
            Cardinality({k \in RunsOf(s) : run[k].state \in Waiting \/ turn[k] = "active"}) <= 1

\* Every run is settled, although dispatchers die and admissions fail: a settled
\* run stays settled, so in the end none is waiting.
EveryRunSettles == <>[](\A k \in Runs : run[k].state \notin Waiting)
-----------------------------------------------------------------------------
(* What the safety properties rest on; proved in ScheduledTasksProofs.      *)

\* Within failed() the claim is still the current one: its run is locked.
LockedOwns == \A k \in Runs, c \in Claims : launch[k][c] \in Locked => Owns(k, c)

\* Occurrences are recorded when they are due, not before.
RecordedIsPast == \A k \in Runs : run[k].state # "none" => run[k].at <= now

\* An active schedule looks ahead of everything recorded for it.
NextIsLater ==
    \A k \in Runs : schedule[k[1]].state = "active" /\ run[k].state # "none" /\ run[k].trigger = "scheduled" =>
        run[k].at < schedule[k[1]].next

\* Deletion pauses, and whoever decided to retry holds the schedule against it.
DeletedIsPaused == \A s \in Schedules : schedule[s].deleted => schedule[s].state = "paused"
RetryingIsKept ==
    \A k \in Runs, c \in Claims : launch[k][c] = "retrying" => ~schedule[k[1]].deleted

ScheduleInv ==
    /\ TypeOK /\ LockedOwns /\ RecordedIsPast /\ NextIsLater
    /\ DeletedIsPaused /\ RetryingIsKept /\ DeletedNeverPending

\* A launch that goes on holds the lease, unless the turn is there already.
AliveIsCurrent(k) ==
    \A c \in Claims : launch[k][c] \notin Gone => (Owns(k, c) /\ run[k].lease = "live") \/ turn[k] # "none"

\* What a launch has learnt of the turn is so, and stays so under the lock.
KnowsTheTurn(k) ==
    \A c \in Claims : /\ launch[k][c] \in {"started", "recovering"} => turn[k] # "none"
                      /\ launch[k][c] \in {"retrying", "failing"} => turn[k] = "none"

\* A turn starts only while its run is being dispatched, and outlives that only
\* as an admitted run.
RecordFollowsTurn(k) ==
    /\ run[k].state = "admitted" => turn[k] # "none"
    /\ run[k].state \notin {"admitted", "dispatching"} => turn[k] = "none"

\* What counts against the next occurrence, recovered turns aside, and that
\* there is one of it.
UnderWay(k) == run[k].state \in Waiting \/ turn[k] = "active"

OneUnderWay == \A k, j \in Runs : k[1] = j[1] /\ UnderWay(k) /\ UnderWay(j) => k = j

\* Runs and turns agree while no dispatcher is overtaken.
TurnsInv ==
    overtakes = 0 => /\ \A k \in Runs : AliveIsCurrent(k) /\ KnowsTheTurn(k) /\ RecordFollowsTurn(k)
                     /\ OneUnderWay


\* What a launch knows whatever overtook it: its occurrence is recorded, and a
\* chat it was told of exists.
LaunchKnows ==
    \A k \in Runs, c \in Claims :
        /\ launch[k][c] # "none" => run[k].state # "none"
        /\ launch[k][c] \in {"started", "recovering"} => turn[k] # "none"

-----------------------------------------------------------------------------
(* What a user sees of occurrences and their chats.                        *)

deletedBar == {s \in Schedules : schedule[s].deleted}
recordBar == [k \in Runs |-> IF run[k].state = "dispatching" THEN "taken" ELSE run[k].state]

Contract == INSTANCE ScheduleContract WITH
    Numbers <- 1 .. MaxRuns,
    deleted <- deletedBar, record <- recordBar, chat <- turn, overtaken <- overtakes

\* Whatever dispatchers die, are overtaken or lose an answer, and whenever the
\* user changes or deletes the schedule, an occurrence is recorded and settled
\* once, as admitted only with its chat and while its schedule has no other open
\* one, and a deleted schedule puts none back (enqueue, claimPending, admitted,
\* failed, cancelPending).
ContractSpec == Contract!Spec
=============================================================================
