------------------------ MODULE ScheduledTasksProofs ------------------------
(***************************************************************************)
(* Theorems about ScheduledTasks, for any set of schedules and any bounds:   *)
(* type correctness, no occurrence is recorded twice, a deleted schedule     *)
(* starts nothing, an overtaken claim settles nothing; and while no          *)
(* dispatcher is overtaken, records agree with turns and runs of one         *)
(* schedule do not overlap.  Overtaken or not, ScheduleContract is           *)
(* implemented.                                                              *)
(***************************************************************************)
EXTENDS ScheduledTasks, FiniteSetTheorems, TLAPS

\* The bounds are naturals, and there is a first minute.
LEMMA BoundsAreNat ==
    /\ RetryLimit \in Nat /\ MaxRuns \in Nat /\ MaxClaims \in Nat /\ MaxTime \in Nat /\ MaxTime > 0
    /\ MaxFaults \in Nat /\ MaxChanges \in Nat
BY BoundsAssumption

\* A run is named by its schedule and its number.
LEMMA RunNames ==
    /\ \A k \in Runs : k[1] \in Schedules /\ k[2] \in 1 .. MaxRuns /\ k[2] # 0
    /\ \A k, j \in Runs : k[1] = j[1] /\ k[2] = j[2] => k = j
BY BoundsAreNat DEF Runs

\* The initial state.
LEMMA InitInv == Init => ScheduleInv
<1> SUFFICES ASSUME Init PROVE ScheduleInv
    OBVIOUS
<1> USE BoundsAreNat, RunNames DEF Init
<1>1. Typed
  BY DEF Typed, NoRun, RunType, ScheduleType, LaunchType, Gone
<1>2. LeaseHasOwner /\ LockedHolds
  BY DEF LeaseHasOwner, LockedHolds, NoRun, Locked
<1>3. LockedOwns /\ RecordedIsPast /\ NextIsLater
  BY DEF LockedOwns, RecordedIsPast, NextIsLater, NoRun, Locked
<1>4. DeletedIsPaused /\ RetryingIsKept /\ DeletedNeverPending
  BY DEF DeletedIsPaused, RetryingIsKept, DeletedNeverPending
<1> QED
  BY <1>1, <1>2, <1>3, <1>4 DEF ScheduleInv, TypeOK

-----------------------------------------------------------------------------
(* Steps of a launch outside failed(): only the launch, the admission and    *)
(* the turn change.                                                          *)

\* Such a step keeps everything that relates rows and locks.
LEMMA LaunchStep ==
    ASSUME ScheduleInv, NEW k \in Runs, NEW c \in Claims, NEW pc \in LaunchType \ Locked,
           Step(k, c, pc), UNCHANGED <<schedule, run, lock, now>>
    PROVE  /\ launch' \in [Runs -> [Claims -> LaunchType]]
           /\ LeaseHasOwner' /\ LockedHolds' /\ LockedOwns' /\ RecordedIsPast' /\ NextIsLater'
           /\ DeletedIsPaused' /\ RetryingIsKept' /\ DeletedNeverPending'
<1> USE DEF ScheduleInv, TypeOK, Typed, Step
<1>1. launch' \in [Runs -> [Claims -> LaunchType]]
  OBVIOUS
<1>2. \A j \in Runs, d \in Claims : launch'[j][d] \in Locked => launch'[j][d] = launch[j][d]
  OBVIOUS
<1>3. LockedHolds' /\ LockedOwns' /\ RetryingIsKept'
  BY <1>2 DEF LockedHolds, LockedOwns, RetryingIsKept, Owns, Locked
<1>4. LeaseHasOwner' /\ RecordedIsPast' /\ NextIsLater' /\ DeletedIsPaused' /\ DeletedNeverPending'
  BY DEF LeaseHasOwner, RecordedIsPast, NextIsLater, DeletedIsPaused, DeletedNeverPending
<1> QED
  BY <1>1, <1>3, <1>4

\* What is left of the invariant after such a step.
LEMMA LaunchTyped ==
    ASSUME ScheduleInv, NEW k \in Runs, NEW c \in Claims, NEW pc \in LaunchType \ Locked,
           Step(k, c, pc), UNCHANGED <<schedule, run, lock, now, member, crashes, overtakes, changes>>,
           intent' \in [Runs -> {0} \cup Claims], res' \in [Runs -> {"none", "reserved", "settled"}],
           turn' \in [Runs -> {"none", "active", "held", "resumed", "ended"}], errors' \in Nat
    PROVE  ScheduleInv'
BY LaunchStep DEF ScheduleInv, TypeOK, Typed

\* Every step of a launch up to the answer of its admission keeps the invariant.
LEMMA LaunchInv ==
    ASSUME ScheduleInv, NEW k \in Runs, NEW c \in Claims,
           \/ authorizeClaim(k, c) \/ BeginAdmission(k, c) \/ Reserve(k, c) \/ Admit(k, c)
           \/ AdmitThrows(k, c) \/ Throws(k, c)
    PROVE  ScheduleInv'
<1> DEFINE Points == {"claimed", "denied", "starting", "preparing", "reserved", "started", "retryable", "rejected"}
           Outside == \E pc \in Points : Step(k, c, pc)
           Kept == UNCHANGED <<schedule, run, lock, now, member, crashes, overtakes, changes>>
           Types == /\ intent' \in [Runs -> {0} \cup Claims]
                    /\ res' \in [Runs -> {"none", "reserved", "settled"}]
                    /\ turn' \in [Runs -> {"none", "active", "held", "resumed", "ended"}]
                    /\ errors' \in Nat
<1>a. Points \subseteq LaunchType \ Locked
  BY DEF LaunchType, Locked
<1>b. /\ intent \in [Runs -> {0} \cup Claims] /\ res \in [Runs -> {"none", "reserved", "settled"}]
      /\ turn \in [Runs -> {"none", "active", "held", "resumed", "ended"}] /\ errors \in Nat
  BY DEF ScheduleInv, TypeOK, Typed
<1>c. ASSUME Outside, Kept, Types PROVE ScheduleInv'
  BY <1>a, <1>c, LaunchTyped
<1> HIDE DEF Outside, Kept, Types
<1>1. CASE authorizeClaim(k, c)
  <2>1. Outside
    BY <1>1 DEF authorizeClaim, Outside, Points
  <2>2. Kept /\ Types
    BY <1>1, <1>b DEF authorizeClaim, Kept, Types, counters
  <2> QED
    BY <2>1, <2>2, <1>c
<1>2. CASE BeginAdmission(k, c)
  <2>1. Outside
    BY <1>2 DEF BeginAdmission, Outside, Points
  <2>2. Kept /\ Types
    BY <1>2, <1>b DEF BeginAdmission, Kept, Types, counters
  <2> QED
    BY <2>1, <2>2, <1>c
<1>3. CASE Reserve(k, c)
  <2>1. Outside
    BY <1>3 DEF Reserve, Outside, Points
  <2>2. Kept /\ Types
    BY <1>3, <1>b DEF Reserve, Kept, Types, counters
  <2> QED
    BY <2>1, <2>2, <1>c
<1>4. CASE Admit(k, c)
  <2>1. Outside
    BY <1>4 DEF Admit, Outside, Points
  <2>2. Kept /\ Types
    BY <1>4, <1>b DEF Admit, Kept, Types, counters
  <2> QED
    BY <2>1, <2>2, <1>c
<1>5. CASE AdmitThrows(k, c)
  <2>1. Outside
    BY <1>5 DEF AdmitThrows, Outside, Points
  <2>2. Kept /\ Types
    BY <1>5, <1>b DEF AdmitThrows, Kept, Types, counters, Fail
  <2> QED
    BY <2>1, <2>2, <1>c
<1>6. CASE Throws(k, c)
  <2>1. Outside
    BY <1>6 DEF Throws, Outside, Points
  <2>2. Kept /\ Types
    BY <1>6, <1>b DEF Throws, Kept, Types, counters, Fail
  <2> QED
    BY <2>1, <2>2, <1>c
<1> QED
  BY <1>1, <1>2, <1>3, <1>4, <1>5, <1>6

-----------------------------------------------------------------------------
(* Changes by the user, under the lock on the schedule.                      *)

\* A schedule nobody holds has no launch within failed().
LEMMA UnlockedIsFree ==
    ASSUME ScheduleInv, NEW k \in Runs, Unlocked(k[1])
    PROVE  \A c \in Claims : launch[k][c] \notin Locked
BY RunNames DEF ScheduleInv, TypeOK, LockedHolds, Unlocked

\* cancelPending changes the state of pending runs and nothing else.
LEMMA CancelledRuns ==
    ASSUME ScheduleInv, NEW s \in Schedules, run' = Cancelled(s)
    PROVE  /\ run' \in [Runs -> RunType]
           /\ \A k \in Runs :
                 /\ run[k].state # "pending" => run'[k] = run[k]
                 /\ k[1] = s => run'[k].state # "pending"
                 /\ run'[k].state = "none" <=> run[k].state = "none"
                 /\ run'[k].state = "dispatching" <=> run[k].state = "dispatching"
                 /\ run'[k].state = "pending" => run[k].state = "pending"
                 /\ run'[k].at = run[k].at /\ run'[k].trigger = run[k].trigger
                 /\ run'[k].owner = run[k].owner /\ run'[k].lease = run[k].lease
<1>1. run \in [Runs -> RunType]
  BY DEF ScheduleInv, TypeOK, Typed
<1>2. \A k \in Runs : run'[k] = IF k[1] = s /\ run[k].state = "pending"
                               THEN [run[k] EXCEPT !.state = "skipped"] ELSE run[k]
  BY DEF Cancelled
<1>3. \A k \in Runs : [run[k] EXCEPT !.state = "skipped"] \in RunType
  BY <1>1 DEF RunType
<1>4. run' \in [Runs -> RunType]
  BY <1>1, <1>3 DEF Cancelled
<1> QED
  BY <1>1, <1>2, <1>4 DEF RunType

\* What a change of one schedule must respect: its lock, cancelled runs, a next
\* occurrence ahead of now.
LEMMA UserInv ==
    ASSUME ScheduleInv, NEW s \in Schedules, Unlocked(s), run' = Cancelled(s), UserOnly, changes' \in Nat,
           schedule' \in [Schedules -> ScheduleType],
           \A z \in Schedules \ {s} : schedule'[z] = schedule[z],
           schedule'[s].deleted => schedule'[s].state = "paused",
           schedule'[s].state = "active" => schedule'[s].next > now
    PROVE  ScheduleInv'
<1> USE RunNames, CancelledRuns
<1>1. Typed'
  BY DEF ScheduleInv, TypeOK, Typed, UserOnly
<1>2. LeaseHasOwner' /\ LockedHolds' /\ LockedOwns'
  BY DEF ScheduleInv, TypeOK, LeaseHasOwner, LockedHolds, LockedOwns, Owns, UserOnly
<1>3. RecordedIsPast'
  BY DEF ScheduleInv, RecordedIsPast, UserOnly
<1>4. NextIsLater'
  <2> SUFFICES ASSUME NEW k \in Runs, schedule'[k[1]].state = "active", run'[k].state # "none",
                      run'[k].trigger = "scheduled"
               PROVE  run'[k].at < schedule'[k[1]].next
    BY DEF NextIsLater
  <2>1. run[k].state # "none" /\ run[k].trigger = "scheduled" /\ run'[k].at = run[k].at
    OBVIOUS
  <2>2. CASE k[1] = s
    <3>1. run[k].at <= now
      BY <2>1 DEF ScheduleInv, RecordedIsPast
    <3>2. run[k].at \in Nat /\ now \in Nat /\ schedule'[s].next \in Nat
      BY BoundsAreNat DEF ScheduleInv, TypeOK, Typed, RunType, ScheduleType
    <3> QED
      BY <2>1, <2>2, <3>1, <3>2
  <2>3. CASE k[1] # s
    BY <2>1, <2>3 DEF ScheduleInv, NextIsLater
  <2> QED
    BY <2>2, <2>3
<1>5. DeletedIsPaused' /\ DeletedNeverPending'
  BY DEF ScheduleInv, DeletedIsPaused, DeletedNeverPending
<1>6. RetryingIsKept'
  <2> SUFFICES ASSUME NEW k \in Runs, NEW c \in Claims, launch'[k][c] = "retrying"
               PROVE  ~schedule'[k[1]].deleted
    BY DEF RetryingIsKept
  <2>1. launch[k][c] = "retrying"
    BY DEF UserOnly
  <2>2. k[1] # s
    BY <2>1, UnlockedIsFree DEF Locked
  <2> QED
    BY <2>1, <2>2 DEF ScheduleInv, RetryingIsKept
<1> QED
  BY <1>1, <1>2, <1>3, <1>4, <1>5, <1>6 DEF ScheduleInv, TypeOK

\* Rescheduling, resuming, pausing, editing and removing do.
LEMMA ChangeInv ==
    ASSUME ScheduleInv, NEW s \in Schedules,
           \/ Resume(s) \/ Pause(s) \/ Edit(s) \/ Remove(s)
           \/ \E kind \in {"once", "cron"} : Reschedule(s, kind)
    PROVE  ScheduleInv'
<1> DEFINE Moved == /\ schedule' \in [Schedules -> ScheduleType]
                    /\ \A z \in Schedules \ {s} : schedule'[z] = schedule[z]
                    /\ schedule'[s].deleted => schedule'[s].state = "paused"
                    /\ schedule'[s].state = "active" => schedule'[s].next > now
           Frame == Unlocked(s) /\ run' = Cancelled(s) /\ UserOnly /\ changes' \in Nat
<1>a. /\ schedule \in [Schedules -> ScheduleType] /\ now \in 1 .. MaxTime /\ changes \in Nat
      /\ schedule[s].deleted => schedule[s].state = "paused"
  BY DEF ScheduleInv, TypeOK, Typed, DeletedIsPaused
<1>r. /\ schedule[s].next \in 0 .. MaxTime + 1 /\ schedule[s].kind \in {"once", "cron"}
      /\ schedule[s].runAt \in 0 .. MaxTime + 1 /\ schedule[s].deleted \in BOOLEAN
      /\ schedule[s].state \in {"none", "active", "paused", "completed"}
  BY <1>a DEF ScheduleType
<1>t. schedule[s] \in ScheduleType
  BY <1>a
<1>z. 0 \in 0 .. MaxTime + 1
  BY BoundsAreNat
<1>s. ASSUME NEW row \in ScheduleType, schedule' = [schedule EXCEPT ![s] = row],
             row.deleted => row.state = "paused", row.state = "active" => row.next > now
      PROVE  Moved
  BY <1>a, <1>s
<1>b. ASSUME Moved, Frame PROVE ScheduleInv'
  BY <1>b, UserInv
<1> HIDE DEF Moved, Frame
<1> USE BoundsAreNat
<1>1. CASE Resume(s)
  <2>1. Frame
    BY <1>1, <1>a DEF Resume, Frame, Change
  <2>2. Moved
    <3> DEFINE row == [schedule[s] EXCEPT !.state = "active", !.next = NextRun(schedule[s].kind, schedule[s].runAt)]
    <3>1. schedule' = [schedule EXCEPT ![s] = row]
      BY <1>1, <1>a DEF Resume
    <3>2. row \in ScheduleType
      <4>1. NextRun(schedule[s].kind, schedule[s].runAt) \in 0 .. MaxTime + 1
        BY <1>a, <1>r DEF NextRun
      <4> QED
        BY <4>1, <1>t DEF ScheduleType
    <3>3. /\ row.deleted => row.state = "paused"
          /\ row.state = "active" => row.next > now
      BY <1>1, <1>a, <1>r DEF Resume, ScheduleType, NextRun, Active
    <3> HIDE DEF row
    <3> QED
      BY <3>1, <3>2, <3>3, <1>s
  <2> QED
    BY <2>1, <2>2, <1>b
<1>2. CASE Pause(s)
  <2>1. Frame
    BY <1>2, <1>a DEF Pause, Frame, Change
  <2>2. Moved
    <3> DEFINE row == [schedule[s] EXCEPT !.state = "paused", !.next = 0]
    <3>1. schedule' = [schedule EXCEPT ![s] = row]
      BY <1>2, <1>a DEF Pause
    <3>2. row \in ScheduleType
      BY <1>t, <1>z DEF ScheduleType
    <3>3. /\ row.deleted => row.state = "paused"
          /\ row.state = "active" => row.next > now
      BY <1>2, <1>a, <1>r DEF Pause, ScheduleType
    <3> HIDE DEF row
    <3> QED
      BY <3>1, <3>2, <3>3, <1>s
  <2> QED
    BY <2>1, <2>2, <1>b
<1>3. CASE Edit(s)
  <2>1. Frame
    BY <1>3, <1>a DEF Edit, Frame, Change
  <2>2. Moved
    BY <1>3, <1>a DEF Edit, Moved
  <2> QED
    BY <2>1, <2>2, <1>b
<1>4. CASE Remove(s)
  <2>1. Frame
    BY <1>4, <1>a DEF Remove, Frame, Change
  <2>2. Moved
    <3> DEFINE row == [schedule[s] EXCEPT !.state = "paused", !.next = 0, !.deleted = TRUE]
    <3>1. schedule' = [schedule EXCEPT ![s] = row]
      BY <1>4, <1>a DEF Remove
    <3>2. row \in ScheduleType
      BY <1>t, <1>z DEF ScheduleType
    <3>3. /\ row.deleted => row.state = "paused"
          /\ row.state = "active" => row.next > now
      BY <1>4, <1>a, <1>r DEF Remove, ScheduleType
    <3> HIDE DEF row
    <3> QED
      BY <3>1, <3>2, <3>3, <1>s
  <2> QED
    BY <2>1, <2>2, <1>b
<1>5. CASE \E kind \in {"once", "cron"} : Reschedule(s, kind)
  <2> PICK kind \in {"once", "cron"} : Reschedule(s, kind)
    BY <1>5
  <2>1. Frame
    BY <1>a DEF Reschedule, Frame, Change
  <2>2. Moved
    BY <1>a DEF Reschedule, Moved, NextRun, ScheduleType, Active
  <2> QED
    BY <2>1, <2>2, <1>b
<1> QED
  BY <1>1, <1>2, <1>3, <1>4, <1>5

\* Creation: nothing was recorded ahead of the first occurrence.
LEMMA CreateInv ==
    ASSUME ScheduleInv, NEW s \in Schedules, NEW kind \in {"once", "cron"}, Create(s, kind)
    PROVE  ScheduleInv'
<1> USE BoundsAreNat, RunNames
<1> DEFINE row == [state |-> "active", kind |-> kind, runAt |-> now + 1,
                   next |-> NextRun(kind, now + 1), deleted |-> FALSE]
<1>1. now \in 1 .. MaxTime /\ now < MaxTime /\ schedule \in [Schedules -> ScheduleType]
  BY DEF ScheduleInv, TypeOK, Typed, Create
<1>2. schedule' = [schedule EXCEPT ![s] = row] /\ UserOnly /\ UNCHANGED <<run, changes>>
  BY DEF Create
<1>3. NextRun(kind, now + 1) = now + 1
  BY DEF NextRun
<1>4. row \in ScheduleType /\ row.state = "active" /\ row.next = now + 1 /\ ~row.deleted
  BY <1>1, <1>3 DEF ScheduleType
<1> HIDE DEF row
<1>5. schedule' \in [Schedules -> ScheduleType]
  BY <1>1, <1>2, <1>4
<1>6. Typed'
  BY <1>2, <1>5 DEF ScheduleInv, TypeOK, Typed, UserOnly
<1>7. LeaseHasOwner' /\ LockedHolds' /\ LockedOwns' /\ RecordedIsPast'
  BY <1>2 DEF ScheduleInv, TypeOK, LeaseHasOwner, LockedHolds, LockedOwns, Owns, RecordedIsPast, UserOnly
<1>8. NextIsLater'
  <2> SUFFICES ASSUME NEW k \in Runs, schedule'[k[1]].state = "active", run'[k].state # "none",
                      run'[k].trigger = "scheduled"
               PROVE  run'[k].at < schedule'[k[1]].next
    BY DEF NextIsLater
  <2>1. run'[k] = run[k] /\ run[k].at \in Nat /\ run[k].at <= now
    BY <1>2 DEF ScheduleInv, TypeOK, Typed, RunType, RecordedIsPast
  <2>2. CASE k[1] = s
    BY <2>1, <2>2, <1>1, <1>2, <1>4
  <2>3. CASE k[1] # s
    BY <2>1, <2>3, <1>1, <1>2 DEF ScheduleInv, NextIsLater
  <2> QED
    BY <2>2, <2>3
<1>9. DeletedIsPaused' /\ DeletedNeverPending' /\ RetryingIsKept'
  BY <1>1, <1>2, <1>4 DEF ScheduleInv, DeletedIsPaused, DeletedNeverPending, RetryingIsKept, UserOnly
<1> QED
  BY <1>6, <1>7, <1>8, <1>9 DEF ScheduleInv, TypeOK

-----------------------------------------------------------------------------
(* New runs.                                                                 *)

\* The row of a new run.
LEMMA NewRunRow ==
    ASSUME NEW at \in 0 .. MaxTime, NEW trigger \in {"scheduled", "manual"}, NEW skip \in BOOLEAN
    PROVE  /\ NewRun(at, trigger, skip) \in RunType
           /\ NewRun(at, trigger, skip).state \in {"skipped", "pending"}
           /\ NewRun(at, trigger, skip).at = at /\ NewRun(at, trigger, skip).trigger = trigger
           /\ NewRun(at, trigger, skip).owner = 0 /\ NewRun(at, trigger, skip).lease = "none"
<1>1. NoRun \in RunType
  BY BoundsAreNat DEF NoRun, RunType
<1> QED
  BY <1>1 DEF NewRun, NoRun, RunType, Waiting

\* While numbers are left, a fresh one is a run of the schedule that is not there.
LEMMA FreshNames ==
    ASSUME NEW s \in Schedules, Recorded(s) # RunsOf(s)
    PROVE  Fresh(s) \in Runs /\ Fresh(s)[1] = s /\ run[Fresh(s)].state = "none"
<1>1. \E k \in RunsOf(s) : run[k].state = "none"
  BY DEF Recorded
<1>2. Fresh(s) \in RunsOf(s) /\ run[Fresh(s)].state = "none"
  BY <1>1 DEF Fresh
<1> QED
  BY <1>2 DEF RunsOf

\* runNow: a manual run says nothing of the occurrences.
LEMMA RunNowInv ==
    ASSUME ScheduleInv, NEW s \in Schedules, runNow(s)
    PROVE  ScheduleInv'
<1> USE BoundsAreNat, RunNames
<1> DEFINE f == Fresh(s)
           row == NewRun(now, "manual", FALSE)
<1>1. f \in Runs /\ f[1] = s /\ run' = [run EXCEPT ![f] = row] /\ UNCHANGED schedule /\ UserOnly
  BY FreshNames DEF runNow
<1>2. now \in 0 .. MaxTime /\ now \in 1 .. MaxTime /\ run \in [Runs -> RunType] /\ changes' \in Nat
  BY DEF ScheduleInv, TypeOK, Typed, runNow, Change
<1>3. /\ row \in RunType /\ row.state \in {"skipped", "pending"} /\ row.at = now
      /\ row.trigger = "manual" /\ row.owner = 0 /\ row.lease = "none"
  BY <1>2, NewRunRow
<1>4. \A c \in Claims : launch[f][c] \notin Locked
  BY <1>1, UnlockedIsFree DEF runNow
<1>5. ~schedule[s].deleted
  BY DEF runNow, Active
<1> HIDE DEF f, row
<1>6. Typed'
  <2>1. run' \in [Runs -> RunType]
    BY <1>1, <1>2, <1>3
  <2> QED
    BY <1>1, <1>2, <2>1 DEF ScheduleInv, TypeOK, Typed, UserOnly
<1>7. LeaseHasOwner' /\ LockedHolds' /\ LockedOwns'
  BY <1>1, <1>2, <1>3, <1>4 DEF ScheduleInv, TypeOK, LeaseHasOwner, LockedHolds, LockedOwns, Owns, UserOnly
<1>8. RecordedIsPast' /\ NextIsLater'
  BY <1>1, <1>2, <1>3 DEF ScheduleInv, RecordedIsPast, NextIsLater, UserOnly
<1>9. DeletedIsPaused' /\ DeletedNeverPending' /\ RetryingIsKept'
  BY <1>1, <1>2, <1>3, <1>5 DEF ScheduleInv, DeletedIsPaused, DeletedNeverPending, RetryingIsKept, UserOnly
<1> QED
  BY <1>6, <1>7, <1>8, <1>9 DEF ScheduleInv, TypeOK

\* enqueueDue: what is recorded is due now, and cron schedules move past now.
LEMMA EnqueueInv == ScheduleInv /\ enqueueDue => ScheduleInv'
<1> SUFFICES ASSUME ScheduleInv, enqueueDue PROVE ScheduleInv'
    OBVIOUS
<1> USE BoundsAreNat, RunNames
<1> DEFINE queued == IF member THEN Due ELSE {}
           NewAt(k) == NewRun(schedule[k[1]].next, "scheduled", busy(k[1]))
           Moved(s) == CASE s \in queued /\ schedule[s].kind = "cron" -> [schedule[s] EXCEPT !.next = NextRun("cron", 0)]
                         [] s \in queued /\ schedule[s].kind = "once" -> [schedule[s] EXCEPT !.next = 0, !.state = "completed"]
                         [] s \in Due \ queued -> [schedule[s] EXCEPT !.next = 0, !.state = "paused"]
                         [] OTHER -> schedule[s]
<1>1. /\ run' = [k \in Runs |-> IF k[1] \in queued /\ k = Fresh(k[1]) THEN NewAt(k) ELSE run[k]]
      /\ schedule' = [s \in Schedules |-> Moved(s)]
  BY DEF enqueueDue
<1>u. UNCHANGED <<launch, lock, intent, res, turn, member, now, errors, crashes, overtakes, changes>>
  BY DEF enqueueDue, counters
<1>2. /\ now \in 1 .. MaxTime /\ run \in [Runs -> RunType] /\ schedule \in [Schedules -> ScheduleType]
  BY DEF ScheduleInv, TypeOK, Typed
<1>3. \A s \in queued : /\ s \in Schedules /\ schedule[s].state = "active" /\ Unlocked(s)
                        /\ schedule[s].next \in 0 .. MaxTime /\ schedule[s].next <= now
  BY <1>2 DEF Due, ScheduleType
<1>4. ASSUME NEW k \in Runs, k[1] \in queued
      PROVE  /\ NewAt(k) \in RunType /\ NewAt(k).state \in {"skipped", "pending"}
             /\ NewAt(k).at = schedule[k[1]].next /\ NewAt(k).owner = 0 /\ NewAt(k).lease = "none"
  <2>1. busy(k[1]) \in BOOLEAN
    BY DEF busy
  <2>2. schedule[k[1]].next \in 0 .. MaxTime
    BY <1>3, <1>4
  <2> QED
    BY <2>1, <2>2, NewRunRow
<1>5. ASSUME NEW s \in Schedules
      PROVE  /\ Moved(s) \in ScheduleType
             /\ Moved(s).deleted <=> schedule[s].deleted
             /\ s \notin Due => Moved(s) = schedule[s]
             /\ s \in Due => Moved(s).state # "active" \/ Moved(s).next = now + 1
  <2>1. schedule[s] \in ScheduleType
    BY <1>2
  <2>2. schedule[s].kind \in {"once", "cron"}
    BY <2>1 DEF ScheduleType
  <2>3. NextRun("cron", 0) = now + 1 /\ now + 1 \in 0 .. MaxTime + 1 /\ 0 \in 0 .. MaxTime + 1
    BY <1>2 DEF NextRun
  <2>4. CASE s \in queued /\ schedule[s].kind = "cron"
    <3>1. Moved(s) = [schedule[s] EXCEPT !.next = now + 1]
      BY <2>3, <2>4
    <3> QED
      BY <3>1, <2>1, <2>3, <2>4 DEF ScheduleType
  <2>5. CASE s \in queued /\ schedule[s].kind = "once"
    <3>1. Moved(s) = [schedule[s] EXCEPT !.next = 0, !.state = "completed"]
      BY <2>5
    <3> QED
      BY <3>1, <2>1, <2>3, <2>5 DEF ScheduleType
  <2>6. CASE s \in Due \ queued
    <3>1. Moved(s) = [schedule[s] EXCEPT !.next = 0, !.state = "paused"]
      BY <2>6
    <3> QED
      BY <3>1, <2>1, <2>3, <2>6 DEF ScheduleType
  <2>7. CASE s \notin Due
    <3>1. Moved(s) = schedule[s]
      BY <2>7
    <3> QED
      BY <3>1, <2>1, <2>7
  <2> QED
    BY <2>2, <2>4, <2>5, <2>6, <2>7
<1>6. \A s \in queued : s \in Due
  OBVIOUS
<1>d. \A s \in Due : schedule[s].state = "active" /\ Unlocked(s)
  BY DEF Due
<1> HIDE DEF queued, NewAt, Moved
<1>7. \A k \in Runs : run'[k] = IF k[1] \in queued /\ k = Fresh(k[1]) THEN NewAt(k) ELSE run[k]
  BY <1>1
<1>8. \A s \in Schedules : schedule'[s] = Moved(s)
  BY <1>1
<1>9. Typed'
  <2>1. run' \in [Runs -> RunType]
    BY <1>1, <1>2, <1>4
  <2>2. schedule' \in [Schedules -> ScheduleType]
    BY <1>1, <1>5
  <2> QED
    BY <2>1, <2>2, <1>u DEF ScheduleInv, TypeOK, Typed
<1>10. LeaseHasOwner'
  BY <1>4, <1>7 DEF ScheduleInv, TypeOK, LeaseHasOwner
<1>11. LockedHolds' /\ LockedOwns'
  <2>1. ASSUME NEW k \in Runs, NEW c \in Claims, launch[k][c] \in Locked PROVE run'[k] = run[k]
    BY <2>1, <1>3, <1>7, UnlockedIsFree
  <2> QED
    BY <2>1, <1>u DEF ScheduleInv, TypeOK, LockedHolds, LockedOwns, Owns
<1>12. RecordedIsPast'
  BY <1>2, <1>3, <1>4, <1>7, <1>u DEF ScheduleInv, RecordedIsPast
<1>13. NextIsLater'
  <2> SUFFICES ASSUME NEW k \in Runs, schedule'[k[1]].state = "active", run'[k].state # "none",
                      run'[k].trigger = "scheduled"
               PROVE  run'[k].at < schedule'[k[1]].next
    BY DEF NextIsLater
  <2>1. CASE k[1] \in Due
    <3>1. schedule'[k[1]].next = now + 1
      BY <2>1, <1>5, <1>8
    <3>2. run'[k].at <= now
      BY <1>12, <1>u DEF RecordedIsPast
    <3>3. run'[k].at \in Nat
      BY <1>9 DEF Typed, RunType
    <3> QED
      BY <3>1, <3>2, <3>3, <1>2
  <2>2. CASE k[1] \notin Due
    <3>1. schedule'[k[1]] = schedule[k[1]] /\ run'[k] = run[k]
      BY <2>2, <1>5, <1>6, <1>7, <1>8
    <3> QED
      BY <3>1 DEF ScheduleInv, NextIsLater
  <2> QED
    BY <2>1, <2>2
<1>14. DeletedIsPaused' /\ RetryingIsKept'
  <2>1. \A s \in Schedules : schedule[s].deleted => s \notin Due
    BY <1>d DEF ScheduleInv, DeletedIsPaused
  <2>2. \A s \in Schedules : schedule'[s].deleted => schedule[s].deleted /\ schedule'[s] = schedule[s]
    BY <2>1, <1>5, <1>8
  <2> QED
    BY <2>2, <1>u DEF ScheduleInv, DeletedIsPaused, RetryingIsKept
<1>15. DeletedNeverPending'
  <2>1. \A s \in Schedules : schedule'[s].deleted => schedule[s].deleted /\ s \notin queued
    BY <1>d, <1>5, <1>6, <1>8 DEF ScheduleInv, DeletedIsPaused
  <2> QED
    BY <2>1, <1>7 DEF ScheduleInv, DeletedNeverPending
<1> QED
  BY <1>9, <1>10, <1>11, <1>12, <1>13, <1>14, <1>15 DEF ScheduleInv, TypeOK

-----------------------------------------------------------------------------
(* Claims and settlements.                                                   *)

\* Clearing a claim leaves a typed row without owner and lease.
LEMMA SettledRow ==
    ASSUME ScheduleInv, NEW k \in Runs, NEW state \in {"admitted", "pending", "failed"}
    PROVE  /\ Settled(k, state) \in RunType /\ Settled(k, state).state = state
           /\ Settled(k, state).owner = 0 /\ Settled(k, state).lease = "none"
           /\ Settled(k, state).at = run[k].at /\ Settled(k, state).trigger = run[k].trigger
<1>1. run[k] \in RunType
  BY DEF ScheduleInv, TypeOK, Typed
<1> QED
  BY <1>1 DEF Settled, RunType, Waiting

\* claimPending takes only runs that nobody settles at the moment.
LEMMA ClaimInv ==
    ASSUME ScheduleInv, NEW S \in SUBSET Runs, claimPending(S)
    PROVE  ScheduleInv'
<1> USE BoundsAreNat, RunNames
<1> DEFINE Taken(k) == [run[k] EXCEPT !.state = "dispatching", !.attempts = @ + 1,
                                      !.owner = run[k].attempts + 1, !.lease = "live"]
<1>1. \A k \in Runs : run'[k] = IF Unrecorded(k) THEN Settled(k, "admitted")
                               ELSE IF k \in S THEN Taken(k) ELSE run[k]
  BY DEF claimPending
<1>2. \A k \in Runs : launch'[k] = IF k \in S THEN [launch[k] EXCEPT ![run[k].attempts + 1] = "claimed"]
                                   ELSE launch[k]
  BY DEF claimPending
<1>u. UNCHANGED <<schedule, lock, intent, res, turn, member, now, errors, crashes, overtakes, changes>>
  BY DEF claimPending, counters
<1>3. run \in [Runs -> RunType] /\ launch \in [Runs -> [Claims -> LaunchType]]
  BY DEF ScheduleInv, TypeOK, Typed
<1>4. ASSUME NEW k \in Runs, k \in S
      PROVE  /\ Claimable(k) /\ ~Unrecorded(k) /\ lock[k[1]] # k[2] /\ run[k].attempts + 1 \in Claims
             /\ run[k].attempts + 1 \in 0 .. MaxClaims /\ run[k].attempts + 1 # 0
  <2>1. Claimable(k) /\ ~Unrecorded(k) /\ lock[k[1]] # k[2] /\ run[k].attempts < MaxClaims
    BY <1>4 DEF claimPending
  <2>2. run[k] \in RunType
    BY <1>3
  <2>3. run[k].attempts \in 0 .. MaxClaims
    BY <2>2 DEF RunType
  <2>4. /\ run[k].attempts + 1 \in Claims
        /\ run[k].attempts + 1 \in 0 .. MaxClaims /\ run[k].attempts + 1 # 0
    BY <2>1, <2>3 DEF Claims
  <2> QED
    BY <2>1, <2>4
<1>5. ASSUME NEW k \in Runs, k \in S
      PROVE  /\ Taken(k) \in RunType /\ Taken(k).state = "dispatching" /\ Taken(k).lease = "live"
             /\ Taken(k).owner # 0 /\ Taken(k).at = run[k].at /\ Taken(k).trigger = run[k].trigger
  <2>1. run[k] \in RunType
    BY <1>3
  <2> QED
    BY <2>1, <1>4, <1>5 DEF RunType, Waiting
<1>6. \A k \in Runs : Unrecorded(k) => lock[k[1]] # k[2] /\ run[k].state # "none"
  BY DEF claimPending, Unrecorded, Waiting
<1>7. \A k \in S : run[k].state # "none" /\ run[k].state \in Waiting
  BY <1>4 DEF Claimable, Waiting
<1>s. \A k \in Runs : /\ Settled(k, "admitted") \in RunType /\ Settled(k, "admitted").state = "admitted"
                      /\ Settled(k, "admitted").owner = 0 /\ Settled(k, "admitted").lease = "none"
                      /\ Settled(k, "admitted").at = run[k].at /\ Settled(k, "admitted").trigger = run[k].trigger
  BY SettledRow
<1> HIDE DEF Taken
<1>8. Typed'
  <2>1. run' \in [Runs -> RunType]
    <3>1. \A k \in Runs : run'[k] \in RunType
      BY <1>1, <1>3, <1>5, <1>s
    <3> QED
      BY <3>1 DEF claimPending
  <2>2. launch' \in [Runs -> [Claims -> LaunchType]]
    <3>1. "claimed" \in LaunchType
      BY DEF LaunchType
    <3>2. ASSUME NEW k \in Runs PROVE launch'[k] \in [Claims -> LaunchType]
      <4>1. launch[k] \in [Claims -> LaunchType]
        BY <1>3
      <4>2. CASE k \in S
        <5>1. launch'[k] = [launch[k] EXCEPT ![run[k].attempts + 1] = "claimed"]
          BY <1>2, <4>2
        <5> QED
          BY <5>1, <4>1, <3>1
      <4>3. CASE k \notin S
        BY <1>2, <4>1, <4>3
      <4> QED
        BY <4>2, <4>3
    <3> QED
      BY <3>2 DEF claimPending
  <2> QED
    BY <2>1, <2>2, <1>u DEF ScheduleInv, TypeOK, Typed
<1>9. LeaseHasOwner'
  BY <1>1, <1>5, <1>s DEF ScheduleInv, TypeOK, LeaseHasOwner
<1>10. ASSUME NEW k \in Runs, NEW c \in Claims, launch'[k][c] \in Locked
       PROVE  launch'[k][c] = launch[k][c] /\ lock[k[1]] = k[2] /\ run'[k] = run[k]
  <2>1. launch'[k][c] = launch[k][c]
    BY <1>2, <1>3, <1>4, <1>10 DEF Locked
  <2>2. lock[k[1]] = k[2]
    BY <2>1, <1>10 DEF ScheduleInv, TypeOK, LockedHolds
  <2> QED
    BY <2>1, <2>2, <1>1, <1>4, <1>6
<1>11. LockedHolds' /\ LockedOwns' /\ RetryingIsKept'
  BY <1>10, <1>u DEF ScheduleInv, TypeOK, LockedHolds, LockedOwns, RetryingIsKept, Owns, Locked
<1>12. \A k \in Runs : /\ run'[k].at = run[k].at /\ run'[k].trigger = run[k].trigger
                       /\ run'[k].state # "none" => run[k].state # "none"
                       /\ run'[k].state = "pending" => run[k].state = "pending"
  BY <1>1, <1>5, <1>6, <1>7, <1>s
<1>13. RecordedIsPast' /\ NextIsLater' /\ DeletedIsPaused' /\ DeletedNeverPending'
  BY <1>12, <1>u DEF ScheduleInv, RecordedIsPast, NextIsLater, DeletedIsPaused, DeletedNeverPending
<1> QED
  BY <1>8, <1>9, <1>11, <1>13 DEF ScheduleInv, TypeOK

\* admitted settles the run only while it is its own and nobody is within failed().
LEMMA AdmittedInv ==
    ASSUME ScheduleInv, NEW k \in Runs, NEW c \in Claims, admitted(k, c)
    PROVE  ScheduleInv'
<1> USE BoundsAreNat, RunNames
<1>1. /\ Owns(k, c) => lock[k[1]] # k[2]
      /\ run' = IF Owns(k, c) THEN [run EXCEPT ![k] = Settled(k, "admitted")] ELSE run
      /\ launch' = [launch EXCEPT ![k][c] = "done"]
  BY DEF admitted, Step
<1>u. UNCHANGED <<schedule, lock, intent, res, turn, member, now, errors, crashes, overtakes, changes>>
  BY DEF admitted, counters
<1>2. run \in [Runs -> RunType] /\ launch \in [Runs -> [Claims -> LaunchType]]
  BY DEF ScheduleInv, TypeOK, Typed
<1>3. Owns(k, c) => run[k].state = "dispatching"
  BY DEF Owns
<1>s. /\ Settled(k, "admitted") \in RunType /\ Settled(k, "admitted").state = "admitted"
      /\ Settled(k, "admitted").owner = 0 /\ Settled(k, "admitted").lease = "none"
      /\ Settled(k, "admitted").at = run[k].at /\ Settled(k, "admitted").trigger = run[k].trigger
  BY SettledRow
<1>4. Typed'
  <2>1. "done" \in LaunchType
    BY DEF LaunchType, Gone
  <2>2. launch' \in [Runs -> [Claims -> LaunchType]] /\ run' \in [Runs -> RunType]
    BY <1>1, <1>2, <1>s, <2>1
  <2> QED
    BY <2>2, <1>u DEF ScheduleInv, TypeOK, Typed
<1>5. LeaseHasOwner'
  BY <1>1, <1>2, <1>s DEF ScheduleInv, TypeOK, LeaseHasOwner
<1>6. ASSUME NEW j \in Runs, NEW d \in Claims, launch'[j][d] \in Locked
      PROVE  launch'[j][d] = launch[j][d] /\ run'[j] = run[j]
  <2>1. launch'[j][d] = launch[j][d]
    BY <1>1, <1>2, <1>6 DEF Locked
  <2>2. lock[j[1]] = j[2]
    BY <2>1, <1>6 DEF ScheduleInv, TypeOK, LockedHolds
  <2> QED
    BY <2>1, <2>2, <1>1, <1>2
<1>7. LockedHolds' /\ LockedOwns' /\ RetryingIsKept'
  BY <1>6, <1>u DEF ScheduleInv, TypeOK, LockedHolds, LockedOwns, RetryingIsKept, Owns, Locked
<1>8. RecordedIsPast' /\ NextIsLater' /\ DeletedIsPaused' /\ DeletedNeverPending'
  BY <1>1, <1>2, <1>3, <1>s, <1>u DEF ScheduleInv, RecordedIsPast, NextIsLater, DeletedIsPaused, DeletedNeverPending
<1> QED
  BY <1>4, <1>5, <1>7, <1>8 DEF ScheduleInv, TypeOK

\* A schedule has one launch within failed() at most.
LEMMA LockedAlone ==
    ASSUME ScheduleInv, NEW k \in Runs, NEW c \in Claims, launch[k][c] \in Locked,
           NEW j \in Runs, NEW d \in Claims, launch[j][d] \in Locked, j[1] = k[1]
    PROVE  j = k /\ d = c
<1>1. lock[k[1]] = k[2] /\ lock[j[1]] = j[2]
  BY DEF ScheduleInv, TypeOK, LockedHolds
<1>2. j = k
  BY <1>1, RunNames
<1>3. run[k].owner = c /\ run[j].owner = d
  BY DEF ScheduleInv, LockedOwns, Owns
<1> QED
  BY <1>2, <1>3

\* failed takes the lock only from nobody, and retries only what was not deleted.
LEMMA FailedReadsInv ==
    ASSUME ScheduleInv, NEW k \in Runs, NEW c \in Claims, FailedReads(k, c)
    PROVE  ScheduleInv'
<1> USE RunNames
<1>u. UNCHANGED <<schedule, run, intent, res, turn, member, now, errors, crashes, overtakes, changes>>
  BY DEF FailedReads, counters
<1>1. /\ launch \in [Runs -> [Claims -> LaunchType]] /\ lock \in [Schedules -> 0 .. MaxRuns]
  BY DEF ScheduleInv, TypeOK, Typed
<1>2. PICK pc \in LaunchType : /\ launch' = [launch EXCEPT ![k][c] = pc]
                               /\ pc \in Locked => Owns(k, c)
                               /\ Owns(k, c) => lock' = [lock EXCEPT ![k[1]] = k[2]]
                               /\ ~Owns(k, c) => lock' = lock
                               /\ pc = "retrying" => ~schedule[k[1]].deleted
  <2>1. {"done", "recovering", "retrying", "failing"} \subseteq LaunchType /\ "done" \notin Locked
    BY DEF LaunchType, Gone, Locked
  <2>2. CASE Owns(k, c)
    <3> DEFINE pc == CASE Recovered(k) -> "recovering"
                       [] ~Recovered(k) /\ launch[k][c] = "retryable" /\ MayRetry(k) -> "retrying"
                       [] OTHER -> "failing"
    <3>1. launch' = [launch EXCEPT ![k][c] = pc] /\ lock' = [lock EXCEPT ![k[1]] = k[2]]
      BY <2>2 DEF FailedReads, Step
    <3>2. pc \in {"recovering", "retrying", "failing"} /\ (pc = "retrying" => MayRetry(k))
      OBVIOUS
    <3> HIDE DEF pc
    <3>3. pc = "retrying" => ~schedule[k[1]].deleted
      BY <3>2 DEF MayRetry
    <3> QED
      BY <2>1, <2>2, <3>1, <3>2, <3>3
  <2>3. CASE ~Owns(k, c)
    <3>1. launch' = [launch EXCEPT ![k][c] = "done"] /\ lock' = lock
      BY <2>3 DEF FailedReads, Step
    <3> QED
      BY <2>1, <2>3, <3>1
  <2> QED
    BY <2>2, <2>3
<1>3. \A j \in Runs, d \in Claims : launch[j][d] \in Locked => j[1] # k[1]
  <2> SUFFICES ASSUME NEW j \in Runs, NEW d \in Claims, launch[j][d] \in Locked PROVE j[1] # k[1]
      OBVIOUS
  <2>1. lock[j[1]] = j[2] /\ j[2] # 0
    BY DEF ScheduleInv, TypeOK, LockedHolds
  <2>2. lock[k[1]] = 0
    BY DEF FailedReads, Unlocked
  <2> QED
    BY <2>1, <2>2
<1>4. Typed'
  <2>1. launch' \in [Runs -> [Claims -> LaunchType]]
    BY <1>1, <1>2
  <2>2. lock' \in [Schedules -> 0 .. MaxRuns]
    BY <1>1, <1>2, BoundsAreNat
  <2> QED
    BY <2>1, <2>2, <1>u DEF ScheduleInv, TypeOK, Typed
<1>5. ASSUME NEW j \in Runs, NEW d \in Claims, launch'[j][d] \in Locked
      PROVE  /\ lock'[j[1]] = j[2] /\ Owns(j, d)
             /\ launch'[j][d] = "retrying" => ~schedule[j[1]].deleted
  <2>1. CASE j = k /\ d = c
    <3>1. launch'[j][d] = pc
      BY <2>1, <1>1, <1>2
    <3> QED
      BY <2>1, <3>1, <1>1, <1>2, <1>5
  <2>2. CASE ~(j = k /\ d = c)
    <3>1. launch'[j][d] = launch[j][d]
      BY <2>2, <1>1, <1>2
    <3>2. lock'[j[1]] = lock[j[1]]
      BY <3>1, <1>1, <1>2, <1>3, <1>5
    <3> QED
      BY <3>1, <3>2, <1>5 DEF ScheduleInv, TypeOK, LockedHolds, LockedOwns, RetryingIsKept
  <2> QED
    BY <2>1, <2>2
<1>6. LockedHolds' /\ LockedOwns' /\ RetryingIsKept'
  BY <1>5, <1>u DEF LockedHolds, LockedOwns, RetryingIsKept, Owns, Locked
<1>7. LeaseHasOwner' /\ RecordedIsPast' /\ NextIsLater' /\ DeletedIsPaused' /\ DeletedNeverPending'
  BY <1>u DEF ScheduleInv, TypeOK, LeaseHasOwner, RecordedIsPast, NextIsLater, DeletedIsPaused, DeletedNeverPending
<1> QED
  BY <1>4, <1>6, <1>7 DEF ScheduleInv, TypeOK

\* Leaving failed() by commit or by crash frees the schedule of its only holder.
LEMMA LeaveInv ==
    ASSUME ScheduleInv, NEW k \in Runs, NEW c \in Claims, NEW pc \in LaunchType \ Locked, Step(k, c, pc),
           lock' = IF launch[k][c] \in Locked THEN [lock EXCEPT ![k[1]] = 0] ELSE lock,
           UNCHANGED <<schedule, intent, res, turn, member, now>>,
           errors' \in Nat, crashes' \in Nat, overtakes' \in Nat, changes' \in Nat,
           \/ run' = run
           \/ /\ launch[k][c] \in Locked
              /\ \E row \in RunType :
                    /\ run' = [run EXCEPT ![k] = row]
                    /\ row.at = run[k].at /\ row.trigger = run[k].trigger
                    /\ row.owner = 0 /\ row.lease = "none"
                    /\ row.state \in {"admitted", "pending", "failed"}
                    /\ row.state = "pending" => ~schedule[k[1]].deleted
    PROVE  ScheduleInv'
<1> USE RunNames
<1>1. /\ launch \in [Runs -> [Claims -> LaunchType]] /\ lock \in [Schedules -> 0 .. MaxRuns]
      /\ run \in [Runs -> RunType] /\ launch' = [launch EXCEPT ![k][c] = pc]
  BY DEF ScheduleInv, TypeOK, Typed, Step
<1>2. ASSUME NEW j \in Runs, NEW d \in Claims, launch'[j][d] \in Locked
      PROVE  /\ launch'[j][d] = launch[j][d] /\ run'[j] = run[j] /\ lock'[j[1]] = lock[j[1]]
  <2>1. ~(j = k /\ d = c) /\ launch'[j][d] = launch[j][d]
    BY <1>1, <1>2
  <2>2. launch[k][c] \in Locked => j[1] # k[1]
    BY <2>1, <1>2, LockedAlone
  <2> QED
    BY <2>1, <2>2, <1>1
<1>3. LockedHolds' /\ LockedOwns' /\ RetryingIsKept'
  BY <1>2 DEF ScheduleInv, TypeOK, LockedHolds, LockedOwns, RetryingIsKept, Owns, Locked
<1>4. launch[k][c] \in Locked => run[k].state = "dispatching"
  BY DEF ScheduleInv, LockedOwns, Owns
<1>5. Typed'
  <2>1. launch' \in [Runs -> [Claims -> LaunchType]] /\ run' \in [Runs -> RunType]
    BY <1>1
  <2>2. lock' \in [Schedules -> 0 .. MaxRuns]
    BY <1>1, BoundsAreNat
  <2> QED
    BY <2>1, <2>2 DEF ScheduleInv, TypeOK, Typed
<1>6. LeaseHasOwner'
  BY <1>1 DEF ScheduleInv, TypeOK, LeaseHasOwner
<1>7. \A j \in Runs : /\ run'[j].at = run[j].at /\ run'[j].trigger = run[j].trigger
                      /\ run'[j].state # "none" => run[j].state # "none"
                      /\ run'[j].state = "pending" => run[j].state = "pending" \/ ~schedule[j[1]].deleted
  BY <1>1, <1>4
<1>8. RecordedIsPast' /\ NextIsLater' /\ DeletedIsPaused' /\ DeletedNeverPending'
  BY <1>7 DEF ScheduleInv, RecordedIsPast, NextIsLater, DeletedIsPaused, DeletedNeverPending
<1> QED
  BY <1>3, <1>5, <1>6, <1>8 DEF ScheduleInv, TypeOK

\* failed commits what it decided under the lock.
LEMMA FailedCommitsInv ==
    ASSUME ScheduleInv, NEW k \in Runs, NEW c \in Claims, FailedCommits(k, c)
    PROVE  ScheduleInv'
<1> DEFINE row == CASE launch[k][c] = "recovering" -> Settled(k, "admitted")
                    [] launch[k][c] = "retrying" -> [Settled(k, "pending") EXCEPT !.ready = FALSE]
                    [] launch[k][c] = "failing" -> Settled(k, "failed")
           Good(r) == /\ r \in RunType /\ r.at = run[k].at /\ r.trigger = run[k].trigger
                      /\ r.owner = 0 /\ r.lease = "none"
                      /\ r.state \in {"admitted", "pending", "failed"}
                      /\ r.state = "pending" => ~schedule[k[1]].deleted
<1>1. /\ launch[k][c] \in Locked /\ run' = [run EXCEPT ![k] = row]
      /\ lock' = [lock EXCEPT ![k[1]] = 0] /\ Step(k, c, "done")
  BY DEF FailedCommits
<1>u. UNCHANGED <<schedule, intent, res, turn, member, now, errors, crashes, overtakes, changes>>
  BY DEF FailedCommits, counters
<1>2. Good(row)
  <2>1. CASE launch[k][c] = "recovering"
    <3>1. row = Settled(k, "admitted")
      BY <2>1
    <3> HIDE DEF row
    <3> QED
      BY <3>1, SettledRow
  <2>2. CASE launch[k][c] = "retrying"
    <3> DEFINE r == Settled(k, "pending")
    <3>1. row = [r EXCEPT !.ready = FALSE]
      BY <2>2
    <3>2. ~schedule[k[1]].deleted
      BY <2>2 DEF ScheduleInv, RetryingIsKept
    <3>3. /\ r \in RunType /\ r.state = "pending" /\ r.owner = 0 /\ r.lease = "none"
          /\ r.at = run[k].at /\ r.trigger = run[k].trigger
      BY SettledRow
    <3> HIDE DEF row, r
    <3> QED
      BY <3>1, <3>2, <3>3 DEF RunType
  <2>3. CASE launch[k][c] = "failing"
    <3>1. row = Settled(k, "failed")
      BY <2>3
    <3> HIDE DEF row
    <3> QED
      BY <3>1, SettledRow
  <2> QED
    BY <1>1, <2>1, <2>2, <2>3 DEF Locked
<1>3. "done" \in LaunchType \ Locked
  BY DEF LaunchType, Gone, Locked
<1>4. errors' \in Nat /\ crashes' \in Nat /\ overtakes' \in Nat /\ changes' \in Nat
  BY <1>u DEF ScheduleInv, TypeOK, Typed
<1> HIDE DEF row
<1> QED
  BY <1>1, <1>u, <1>2, <1>3, <1>4, LeaveInv

\* A dispatcher that dies gives back the locks of its transaction.
LEMMA CrashInv ==
    ASSUME ScheduleInv, NEW k \in Runs, NEW c \in Claims, Crash(k, c)
    PROVE  ScheduleInv'
<1>1. "dead" \in LaunchType \ Locked
  BY DEF LaunchType, Gone, Locked
<1>2. errors' \in Nat /\ crashes' \in Nat /\ overtakes' \in Nat /\ changes' \in Nat
  BY DEF ScheduleInv, TypeOK, Typed, Crash
<1> QED
  BY <1>1, <1>2, LeaveInv DEF Crash

-----------------------------------------------------------------------------
(* Time, and what happens elsewhere.                                         *)

\* Steps that leave schedules, launches and locks alone, and of a run change at
\* most its lease or whether it is ready.
LEMMA ElsewhereInv ==
    ASSUME ScheduleInv, UNCHANGED <<schedule, launch, lock>>,
           run' \in [Runs -> RunType],
           \A k \in Runs : /\ run'[k].state = run[k].state /\ run'[k].owner = run[k].owner
                           /\ run'[k].at = run[k].at /\ run'[k].trigger = run[k].trigger
                           /\ run'[k].lease # "none" <=> run[k].lease # "none",
           now' \in 1 .. MaxTime, now' >= now,
           intent' \in [Runs -> {0} \cup Claims], res' \in [Runs -> {"none", "reserved", "settled"}],
           turn' \in [Runs -> {"none", "active", "held", "resumed", "ended"}], member' \in BOOLEAN,
           errors' \in Nat, crashes' \in Nat, overtakes' \in Nat, changes' \in Nat
    PROVE  ScheduleInv'
<1>1. Typed'
  BY DEF ScheduleInv, TypeOK, Typed
<1>2. LeaseHasOwner' /\ LockedHolds' /\ LockedOwns' /\ RetryingIsKept'
  BY DEF ScheduleInv, TypeOK, LeaseHasOwner, LockedHolds, LockedOwns, RetryingIsKept, Owns
<1>3. RecordedIsPast'
  <2> SUFFICES ASSUME NEW k \in Runs, run'[k].state # "none" PROVE run'[k].at <= now'
    BY DEF RecordedIsPast
  <2>1. run[k].at <= now /\ run'[k].at = run[k].at
    BY DEF ScheduleInv, RecordedIsPast
  <2>2. run[k].at \in Nat /\ now \in Nat /\ now' \in Nat
    BY BoundsAreNat DEF ScheduleInv, TypeOK, Typed, RunType
  <2> QED
    BY <2>1, <2>2
<1>4. NextIsLater' /\ DeletedIsPaused' /\ DeletedNeverPending'
  BY DEF ScheduleInv, NextIsLater, DeletedIsPaused, DeletedNeverPending
<1> QED
  BY <1>1, <1>2, <1>3, <1>4 DEF ScheduleInv, TypeOK

\* The sweep, the turn's end, leases and retries, the clock, the membership.
LEMMA OtherInv ==
    ASSUME ScheduleInv,
           \/ \E k \in Runs : SweepAdmission(k) \/ TurnMoves(k) \/ LeaseExpires(k) \/ RetryDue(k)
           \/ Tick \/ Membership \/ UNCHANGED vars
    PROVE  ScheduleInv'
<1>t. Typed
  BY DEF ScheduleInv, TypeOK
<1>n. now \in 1 .. MaxTime /\ now \in Nat
  BY <1>t, BoundsAreNat DEF Typed
<1> USE DEF counters
<1>1. ASSUME NEW k \in Runs, SweepAdmission(k) PROVE ScheduleInv'
  <2>1. /\ intent' \in [Runs -> {0} \cup Claims] /\ res' \in [Runs -> {"none", "reserved", "settled"}]
    BY <1>1, <1>t DEF SweepAdmission, Typed
  <2> QED
    BY <2>1, <1>1, <1>t, <1>n, ElsewhereInv DEF SweepAdmission, Typed
<1>2. ASSUME NEW k \in Runs, TurnMoves(k) PROVE ScheduleInv'
  <2>1. turn' \in [Runs -> {"none", "active", "held", "resumed", "ended"}]
    BY <1>2, <1>t DEF TurnMoves, EndTurn, HoldTurn, RecoverTurn, Typed
  <2> QED
    BY <2>1, <1>2, <1>t, <1>n, ElsewhereInv DEF TurnMoves, EndTurn, HoldTurn, RecoverTurn, Typed
<1>3. ASSUME NEW k \in Runs, LeaseExpires(k) PROVE ScheduleInv'
  <2>1. run[k] \in RunType /\ run \in [Runs -> RunType]
    BY <1>t DEF Typed
  <2>2. [run[k] EXCEPT !.lease = "expired"] \in RunType
    BY <2>1 DEF RunType
  <2>3. run' = [run EXCEPT ![k] = [run[k] EXCEPT !.lease = "expired"]] /\ run[k].lease = "live"
    BY <1>3, <2>1 DEF LeaseExpires
  <2>4. run' \in [Runs -> RunType]
    BY <2>1, <2>2, <2>3
  <2>5. \A j \in Runs : /\ run'[j].state = run[j].state /\ run'[j].owner = run[j].owner
                        /\ run'[j].at = run[j].at /\ run'[j].trigger = run[j].trigger
                        /\ run'[j].lease # "none" <=> run[j].lease # "none"
    BY <2>1, <2>3 DEF RunType
  <2>6. /\ UNCHANGED <<schedule, launch, lock, intent, res, turn, member, now, errors, crashes, changes>>
        /\ overtakes' \in Nat
    BY <1>3, <1>t DEF LeaseExpires, Typed
  <2> QED
    BY <2>4, <2>5, <2>6, <1>t, <1>n, ElsewhereInv DEF Typed
<1>4. ASSUME NEW k \in Runs, RetryDue(k) PROVE ScheduleInv'
  <2>1. run[k] \in RunType /\ run \in [Runs -> RunType]
    BY <1>t DEF Typed
  <2>2. [run[k] EXCEPT !.ready = TRUE] \in RunType
    BY <2>1 DEF RunType
  <2>3. run' = [run EXCEPT ![k] = [run[k] EXCEPT !.ready = TRUE]]
    BY <1>4, <2>1 DEF RetryDue
  <2>4. run' \in [Runs -> RunType]
    BY <2>1, <2>2, <2>3
  <2>5. \A j \in Runs : /\ run'[j].state = run[j].state /\ run'[j].owner = run[j].owner
                        /\ run'[j].at = run[j].at /\ run'[j].trigger = run[j].trigger
                        /\ run'[j].lease # "none" <=> run[j].lease # "none"
    BY <2>1, <2>3 DEF RunType
  <2>6. UNCHANGED <<schedule, launch, lock, intent, res, turn, member, now, errors, crashes, overtakes, changes>>
    BY <1>4 DEF RetryDue
  <2> QED
    BY <2>4, <2>5, <2>6, <1>t, <1>n, ElsewhereInv DEF Typed
<1>5. CASE Tick
  <2>1. now' \in 1 .. MaxTime /\ now' >= now
    BY <1>5, <1>n, BoundsAreNat DEF Tick
  <2> QED
    BY <2>1, <1>5, <1>t, ElsewhereInv DEF Tick, Typed
<1>6. CASE Membership
  <2>1. member' \in BOOLEAN /\ changes' \in Nat
    BY <1>6, <1>t DEF Membership, Change, Typed
  <2> QED
    BY <2>1, <1>6, <1>t, <1>n, ElsewhereInv DEF Membership, Typed
<1>7. CASE UNCHANGED vars
  BY <1>7, <1>t, <1>n, ElsewhereInv DEF vars, Typed
<1> QED
  BY <1>1, <1>2, <1>3, <1>4, <1>5, <1>6, <1>7

-----------------------------------------------------------------------------
(* Theorems.                                                                 *)

\* Every step keeps the invariant.
LEMMA NextInv == ScheduleInv /\ [Next]_vars => ScheduleInv'
<1> SUFFICES ASSUME ScheduleInv, [Next]_vars PROVE ScheduleInv'
    OBVIOUS
<1>1. CASE enqueueDue
  BY <1>1, EnqueueInv
<1>2. CASE Tick \/ Membership \/ UNCHANGED vars
  BY <1>2, OtherInv
<1>3. ASSUME NEW s \in Schedules,
             \/ Resume(s) \/ Pause(s) \/ Edit(s) \/ Remove(s) \/ runNow(s)
             \/ \E kind \in {"once", "cron"} : Create(s, kind) \/ Reschedule(s, kind)
      PROVE  ScheduleInv'
  BY <1>3, ChangeInv, RunNowInv, CreateInv
<1>4. ASSUME NEW S \in SUBSET Runs, claimPending(S) PROVE ScheduleInv'
  BY <1>4, ClaimInv
<1>5. ASSUME NEW k \in Runs, SweepAdmission(k) \/ TurnMoves(k) \/ LeaseExpires(k) \/ RetryDue(k)
      PROVE  ScheduleInv'
  BY <1>5, OtherInv
<1>6. ASSUME NEW k \in Runs, NEW c \in Claims,
             Launch(k, c) \/ AdmitThrows(k, c) \/ Throws(k, c) \/ Crash(k, c)
      PROVE  ScheduleInv'
  BY <1>6, LaunchInv, AdmittedInv, FailedReadsInv, FailedCommitsInv, CrashInv DEF Launch
<1> QED
  BY <1>1, <1>2, <1>3, <1>4, <1>5, <1>6 DEF Next

\* The invariant the theorems below rest on holds in every reachable state.
THEOREM ScheduleInvariant == Spec => []ScheduleInv
<1>1. Init => ScheduleInv
  BY InitInv
<1>2. ScheduleInv /\ [Next]_vars => ScheduleInv'
  BY NextInv
<1> QED
  BY <1>1, <1>2, PTL DEF Spec

\* Every row has its type; a lease has an owner, and whoever is within failed()
\* holds the schedule.
THEOREM TypeCorrect == Spec => []TypeOK
<1>1. ScheduleInv => TypeOK
  BY DEF ScheduleInv
<1> QED
  BY <1>1, ScheduleInvariant, PTL

\* An occurrence that is due was not recorded before, whatever was paused,
\* resumed and rescheduled: enqueue never throws for it.
THEOREM OccurrencesAreNew == Spec => []DueIsNew
<1>1. ScheduleInv => DueIsNew
  <2> SUFFICES ASSUME ScheduleInv, NEW s \in Schedules, schedule[s].state = "active", AlreadyQueued(s)
               PROVE  FALSE
    BY DEF DueIsNew
  <2>1. PICK k \in Runs : /\ k[1] = s /\ run[k].state # "none"
                          /\ run[k].trigger = "scheduled" /\ run[k].at = schedule[s].next
    BY DEF AlreadyQueued, Recorded, RunsOf
  <2>2. run[k].at < schedule[s].next
    BY <2>1 DEF ScheduleInv, NextIsLater
  <2>3. run[k].at \in Nat
    BY BoundsAreNat DEF ScheduleInv, TypeOK, Typed, RunType
  <2> QED
    BY <2>1, <2>2, <2>3
<1> QED
  BY <1>1, ScheduleInvariant, PTL

\* A deleted schedule has no run a dispatcher would start, also when deletion
\* races the retry of a failed dispatch.
THEOREM DeletedStartsNothing == Spec => []DeletedNeverPending
<1>1. ScheduleInv => DeletedNeverPending
  BY DEF ScheduleInv
<1> QED
  BY <1>1, ScheduleInvariant, PTL

\* Only the three settling steps end a launch.
LEMMA WhoSettles ==
    ASSUME ScheduleInv, [Next]_vars, NEW k \in Runs, NEW c \in Claims,
           launch'[k][c] = "done", launch[k][c] # "done"
    PROVE  admitted(k, c) \/ FailedReads(k, c) \/ FailedCommits(k, c)
<1>t. launch \in [Runs -> [Claims -> LaunchType]]
  BY DEF ScheduleInv, TypeOK, Typed
<1>s. ASSUME NEW j \in Runs, NEW d \in Claims, NEW pc, Step(j, d, pc)
      PROVE  j = k /\ d = c /\ pc = "done"
  BY <1>s, <1>t DEF Step
<1>1. CASE enqueueDue \/ Tick \/ Membership \/ UNCHANGED vars
  BY <1>1 DEF enqueueDue, Tick, Membership, vars
<1>2. ASSUME NEW s \in Schedules,
             \/ Resume(s) \/ Pause(s) \/ Edit(s) \/ Remove(s) \/ runNow(s)
             \/ \E kind \in {"once", "cron"} : Create(s, kind) \/ Reschedule(s, kind)
      PROVE  FALSE
  BY <1>2 DEF Resume, Pause, Edit, Remove, runNow, Create, Reschedule, UserOnly
<1>3. ASSUME NEW S \in SUBSET Runs, claimPending(S) PROVE FALSE
  <2>1. launch'[k] = IF k \in S THEN [launch[k] EXCEPT ![run[k].attempts + 1] = "claimed"] ELSE launch[k]
    BY <1>3 DEF claimPending
  <2> QED
    BY <2>1, <1>t
<1>4. ASSUME NEW j \in Runs, SweepAdmission(j) \/ TurnMoves(j) \/ LeaseExpires(j) \/ RetryDue(j)
      PROVE  FALSE
  BY <1>4 DEF SweepAdmission, TurnMoves, EndTurn, HoldTurn, RecoverTurn, LeaseExpires, RetryDue
<1>5. ASSUME NEW j \in Runs, NEW d \in Claims,
             \/ authorizeClaim(j, d) \/ BeginAdmission(j, d) \/ Reserve(j, d) \/ Admit(j, d)
             \/ AdmitThrows(j, d) \/ Throws(j, d) \/ Crash(j, d)
      PROVE  FALSE
  <2>1. \E pc \in {"claimed", "denied", "starting", "preparing", "reserved", "started", "retryable",
                   "rejected", "dead"} : Step(j, d, pc)
    <3>1. CASE authorizeClaim(j, d) \/ BeginAdmission(j, d)
      BY <3>1 DEF authorizeClaim, BeginAdmission
    <3>2. CASE Reserve(j, d) \/ Admit(j, d)
      BY <3>2 DEF Reserve, Admit
    <3>3. CASE AdmitThrows(j, d) \/ Throws(j, d) \/ Crash(j, d)
      BY <3>3 DEF AdmitThrows, Throws, Crash
    <3> QED
      BY <1>5, <3>1, <3>2, <3>3
  <2> QED
    BY <2>1, <1>s
<1>6. ASSUME NEW j \in Runs, NEW d \in Claims, admitted(j, d) \/ FailedReads(j, d) \/ FailedCommits(j, d)
      PROVE  j = k /\ d = c
  <2>1. \E pc : Step(j, d, pc)
    BY <1>6 DEF admitted, FailedReads, FailedCommits
  <2> QED
    BY <2>1, <1>s
<1> QED
  BY <1>1, <1>2, <1>3, <1>4, <1>5, <1>6 DEF Next, Launch

\* A dispatcher whose claim was taken over settles nothing: whoever is within
\* failed() still owns the run, and admitted compares the owner.
THEOREM SettlementsAreFenced == Spec => FencedSettlement
<1> DEFINE Fenced == \A k \in Runs, c \in Claims :
              launch'[k][c] = "done" /\ launch[k][c] # "done" /\ run[k].owner # c => run'[k] = run[k]
<1>1. ScheduleInv /\ [Next]_vars => [Fenced]_vars
  <2> SUFFICES ASSUME ScheduleInv, [Next]_vars, NEW k \in Runs, NEW c \in Claims,
                      launch'[k][c] = "done", launch[k][c] # "done", run[k].owner # c
               PROVE  run'[k] = run[k]
    OBVIOUS
  <2>1. admitted(k, c) \/ FailedReads(k, c) \/ FailedCommits(k, c)
    BY WhoSettles
  <2>2. CASE admitted(k, c)
    BY <2>2 DEF admitted, Owns
  <2>3. CASE FailedReads(k, c)
    BY <2>3 DEF FailedReads
  <2>4. CASE FailedCommits(k, c)
    BY <2>4 DEF FailedCommits, ScheduleInv, LockedOwns, Owns
  <2> QED
    BY <2>1, <2>2, <2>3, <2>4
<1> HIDE DEF Fenced
<1>2. []ScheduleInv /\ [][Next]_vars => [][Fenced]_vars
  BY <1>1, PTL
<1>3. Spec => [][Fenced]_vars
  BY <1>2, ScheduleInvariant, PTL DEF Spec
<1> QED
  BY <1>3 DEF FencedSettlement, Fenced


-----------------------------------------------------------------------------
(* Runs and their turns, as long as no lease expires under a live dispatcher. *)

\* What TurnsInv says of a run when no dispatcher was overtaken.
LEMMA TurnsOf ==
    ASSUME TurnsInv, overtakes = 0
    PROVE  /\ \A k \in Runs : AliveIsCurrent(k) /\ KnowsTheTurn(k) /\ RecordFollowsTurn(k)
           /\ OneUnderWay
BY DEF TurnsInv

\* A step that changes one run keeps the others as they are.
LEMMA OneRun ==
    ASSUME TurnsInv, overtakes = 0, NEW k \in Runs,
           \A j \in Runs : j # k => run'[j] = run[j] /\ launch'[j] = launch[j] /\ turn'[j] = turn[j],
           AliveIsCurrent(k)', KnowsTheTurn(k)', RecordFollowsTurn(k)', UnderWay(k)' => UnderWay(k)
    PROVE  TurnsInv'
<1>1. ASSUME NEW j \in Runs PROVE AliveIsCurrent(j)' /\ KnowsTheTurn(j)' /\ RecordFollowsTurn(j)'
  <2>1. CASE j = k
    BY <2>1
  <2>2. CASE j # k
    <3>1. run'[j] = run[j] /\ launch'[j] = launch[j] /\ turn'[j] = turn[j]
      BY <2>2
    <3> QED
      BY <3>1, TurnsOf DEF AliveIsCurrent, KnowsTheTurn, RecordFollowsTurn, Owns
  <2> QED
    BY <2>1, <2>2
<1>2. \A j \in Runs : UnderWay(j)' => UnderWay(j)
  BY DEF UnderWay
<1>3. OneUnderWay'
  BY <1>2, TurnsOf DEF OneUnderWay
<1> QED
  BY <1>1, <1>3 DEF TurnsInv

\* A launch that goes on, or ends, without a write: it knows the turn.
LEMMA MoveTurns ==
    ASSUME ScheduleInv, TurnsInv, overtakes = 0, NEW k \in Runs, NEW c \in Claims, NEW pc \in LaunchType,
           Step(k, c, pc), launch[k][c] \notin Gone, UNCHANGED <<run, turn>>,
           pc \in {"started", "recovering"} => turn[k] # "none",
           pc \in {"retrying", "failing"} => turn[k] = "none"
    PROVE  TurnsInv'
<1>1. launch \in [Runs -> [Claims -> LaunchType]] /\ launch' = [launch EXCEPT ![k][c] = pc]
  BY DEF ScheduleInv, TypeOK, Typed, Step
<1>2. /\ \A j \in Runs : j # k => launch'[j] = launch[j]
      /\ \A d \in Claims : d # c => launch'[k][d] = launch[k][d]
      /\ launch'[k][c] = pc
  BY <1>1
<1>3. AliveIsCurrent(k)'
  BY <1>2, TurnsOf DEF AliveIsCurrent, Owns
<1>4. KnowsTheTurn(k)'
  BY <1>2, TurnsOf DEF KnowsTheTurn
<1>5. RecordFollowsTurn(k)' /\ (UnderWay(k)' => UnderWay(k))
  BY TurnsOf DEF RecordFollowsTurn, UnderWay
<1> QED
  BY <1>2, <1>3, <1>4, <1>5, OneRun

\* The turn starts: its launch is the only one, and its run is being dispatched.
LEMMA StartTurns ==
    ASSUME ScheduleInv, TurnsInv, overtakes = 0, NEW k \in Runs, NEW c \in Claims,
           NEW pc \in {"started", "retryable"}, Step(k, c, pc), launch[k][c] = "reserved", turn[k] = "none",
           turn' = [turn EXCEPT ![k] = "active"], UNCHANGED run
    PROVE  TurnsInv'
<1>1. /\ launch \in [Runs -> [Claims -> LaunchType]] /\ launch' = [launch EXCEPT ![k][c] = pc]
      /\ turn \in [Runs -> {"none", "active", "held", "resumed", "ended"}]
  BY DEF ScheduleInv, TypeOK, Typed, Step
<1>2. /\ \A j \in Runs : j # k => launch'[j] = launch[j] /\ turn'[j] = turn[j]
      /\ \A d \in Claims : d # c => launch'[k][d] = launch[k][d]
      /\ launch'[k][c] = pc /\ turn'[k] = "active"
  BY <1>1
<1>3. Owns(k, c) /\ run[k].state = "dispatching" /\ run[k].owner = c
  BY TurnsOf DEF AliveIsCurrent, Gone, Owns
<1>4. \A d \in Claims : d # c => launch[k][d] \in Gone
  BY <1>3, TurnsOf DEF AliveIsCurrent, Owns
<1>5. AliveIsCurrent(k)' /\ RecordFollowsTurn(k)'
  BY <1>2, <1>3 DEF AliveIsCurrent, RecordFollowsTurn
<1>6. KnowsTheTurn(k)'
  BY <1>2, <1>4 DEF KnowsTheTurn, Gone
<1>7. UnderWay(k)
  BY <1>3 DEF UnderWay, Waiting
<1> QED
  BY <1>2, <1>5, <1>6, <1>7, OneRun

\* The claim is settled: as admitted exactly if there is a turn.
LEMMA SettleTurns ==
    ASSUME ScheduleInv, TurnsInv, overtakes = 0, NEW k \in Runs, NEW c \in Claims, NEW row \in RunType,
           Step(k, c, "done"), Owns(k, c), launch[k][c] \notin Gone, UNCHANGED turn,
           run' = [run EXCEPT ![k] = row], row.state \in {"admitted", "pending", "failed"},
           row.state = "admitted" <=> turn[k] # "none"
    PROVE  TurnsInv'
<1>1. /\ launch \in [Runs -> [Claims -> LaunchType]] /\ launch' = [launch EXCEPT ![k][c] = "done"]
      /\ run \in [Runs -> RunType]
  BY DEF ScheduleInv, TypeOK, Typed, Step
<1>2. /\ \A j \in Runs : j # k => launch'[j] = launch[j] /\ run'[j] = run[j]
      /\ \A d \in Claims : d # c => launch'[k][d] = launch[k][d]
      /\ launch'[k][c] = "done" /\ run'[k] = row
  BY <1>1
<1>3. run[k].state = "dispatching" /\ run[k].owner = c
  BY DEF Owns
<1>4. \A d \in Claims : d # c /\ launch[k][d] \notin Gone => turn[k] # "none"
  BY <1>3, TurnsOf DEF AliveIsCurrent, Owns
<1>5. AliveIsCurrent(k)'
  BY <1>2, <1>4 DEF AliveIsCurrent, Gone
<1>6. KnowsTheTurn(k)'
  BY <1>2, TurnsOf DEF KnowsTheTurn
<1>7. RecordFollowsTurn(k)'
  BY <1>2 DEF RecordFollowsTurn
<1>8. UnderWay(k)
  BY <1>3 DEF UnderWay, Waiting
<1> QED
  BY <1>2, <1>5, <1>6, <1>7, <1>8, OneRun

\* Steps that change of the runs at most the state of pending ones, to skipped.
LEMMA RowsTurns ==
    ASSUME ScheduleInv, TurnsInv, overtakes = 0, UNCHANGED <<launch, turn>>,
           \A k \in Runs : /\ run'[k].owner = run[k].owner /\ run'[k].lease = run[k].lease
                           /\ \/ run'[k].state = run[k].state
                              \/ run[k].state = "pending" /\ run'[k].state = "skipped"
    PROVE  TurnsInv'
<1>1. ASSUME NEW k \in Runs PROVE AliveIsCurrent(k)' /\ KnowsTheTurn(k)' /\ RecordFollowsTurn(k)'
  BY TurnsOf DEF AliveIsCurrent, KnowsTheTurn, RecordFollowsTurn, Owns
<1>2. \A k \in Runs : UnderWay(k)' => UnderWay(k)
  BY DEF UnderWay, Waiting
<1>3. OneUnderWay'
  BY <1>2, TurnsOf DEF OneUnderWay
<1> QED
  BY <1>1, <1>3 DEF TurnsInv

\* A new run is not busy with anything, and pending only if its schedule is not.
LEMMA NewTurns ==
    ASSUME ScheduleInv, TurnsInv, overtakes = 0, UNCHANGED <<launch, turn>>,
           \A k \in Runs : \/ run'[k] = run[k]
                           \/ /\ run[k].state = "none" /\ k = Fresh(k[1])
                              /\ run'[k].state \in {"skipped", "pending"}
                              /\ run'[k].state = "pending" => ~busy(k[1])
    PROVE  TurnsInv'
<1>1. \A k \in Runs : run'[k] # run[k] => turn[k] = "none" /\ \A c \in Claims : launch[k][c] \in Gone
  BY TurnsOf DEF RecordFollowsTurn, AliveIsCurrent, Owns
<1>2. ASSUME NEW k \in Runs PROVE AliveIsCurrent(k)' /\ KnowsTheTurn(k)' /\ RecordFollowsTurn(k)'
  <2>1. CASE run'[k] = run[k]
    BY <2>1, TurnsOf DEF AliveIsCurrent, KnowsTheTurn, RecordFollowsTurn, Owns
  <2>2. CASE run'[k] # run[k]
    <3>1. turn[k] = "none" /\ \A c \in Claims : launch[k][c] \in Gone
      BY <1>1, <2>2
    <3>2. run'[k].state \in {"skipped", "pending"}
      BY <2>2
    <3> QED
      BY <3>1, <3>2 DEF AliveIsCurrent, KnowsTheTurn, RecordFollowsTurn, Gone
  <2> QED
    BY <2>1, <2>2
<1>3. ASSUME NEW k \in Runs, UnderWay(k) PROVE busy(k[1])
  <2>1. k \in RunsOf(k[1])
    BY DEF RunsOf
  <2>2. run[k].state \in Waiting \/ (run[k].state = "admitted" /\ turn[k] = "active")
    BY <1>3, TurnsOf DEF UnderWay, RecordFollowsTurn, Waiting
  <2> QED
    BY <2>1, <2>2 DEF busy
<1>4. ASSUME NEW k \in Runs, UnderWay(k)', run'[k] # run[k]
      PROVE  k = Fresh(k[1]) /\ ~busy(k[1])
  BY <1>1, <1>4 DEF UnderWay, Waiting
<1>5. ASSUME NEW k \in Runs, UnderWay(k)', run'[k] = run[k] PROVE UnderWay(k)
  BY <1>5 DEF UnderWay
<1>6. OneUnderWay'
  <2> SUFFICES ASSUME NEW k \in Runs, NEW j \in Runs, k[1] = j[1], UnderWay(k)', UnderWay(j)'
               PROVE  k = j
    BY DEF OneUnderWay
  <2>1. CASE run'[k] = run[k] /\ run'[j] = run[j]
    BY <2>1, <1>5, TurnsOf DEF OneUnderWay
  <2>2. CASE run'[k] # run[k] /\ run'[j] = run[j]
    BY <2>2, <1>3, <1>4, <1>5
  <2>3. CASE run'[k] = run[k] /\ run'[j] # run[j]
    BY <2>3, <1>3, <1>4, <1>5
  <2>4. CASE run'[k] # run[k] /\ run'[j] # run[j]
    BY <2>4, <1>4
  <2> QED
    BY <2>1, <2>2, <2>3, <2>4
<1> QED
  BY <1>2, <1>6 DEF TurnsInv


\* What the user changes, under the lock on the schedule.
LEMMA UserTurns ==
    ASSUME ScheduleInv, TurnsInv, overtakes = 0, NEW s \in Schedules,
           \/ Resume(s) \/ Pause(s) \/ Edit(s) \/ Remove(s) \/ runNow(s)
           \/ \E kind \in {"once", "cron"} : Create(s, kind) \/ Reschedule(s, kind)
    PROVE  TurnsInv'
<1>1. CASE run' = run /\ UserOnly
  BY <1>1, RowsTurns DEF UserOnly
<1>2. CASE run' = Cancelled(s) /\ UserOnly
  <2>1. \A k \in Runs : run'[k] = IF k[1] = s /\ run[k].state = "pending"
                                 THEN [run[k] EXCEPT !.state = "skipped"] ELSE run[k]
    BY <1>2 DEF Cancelled
  <2>2. \A k \in Runs : run[k] \in RunType
    BY DEF ScheduleInv, TypeOK, Typed
  <2>3. \A k \in Runs : /\ run'[k].owner = run[k].owner /\ run'[k].lease = run[k].lease
                        /\ \/ run'[k].state = run[k].state
                           \/ run[k].state = "pending" /\ run'[k].state = "skipped"
    BY <2>1, <2>2 DEF RunType
  <2> QED
    BY <1>2, <2>3, RowsTurns DEF UserOnly
<1>3. CASE runNow(s)
  <2> DEFINE f == Fresh(s)
             row == NewRun(now, "manual", FALSE)
  <2>1. /\ f \in Runs /\ f[1] = s /\ run[f].state = "none" /\ run' = [run EXCEPT ![f] = row]
        /\ ~busy(s) /\ UNCHANGED <<launch, turn>>
    BY <1>3, FreshNames DEF runNow, UserOnly
  <2>2. now \in 0 .. MaxTime /\ run \in [Runs -> RunType]
    BY BoundsAreNat DEF ScheduleInv, TypeOK, Typed
  <2>3. row.state \in {"skipped", "pending"}
    BY <2>2, NewRunRow
  <2>4. f = Fresh(f[1])
    BY <2>1
  <2> HIDE DEF f, row
  <2>5. \A k \in Runs : \/ run'[k] = run[k]
                        \/ /\ run[k].state = "none" /\ k = Fresh(k[1])
                           /\ run'[k].state \in {"skipped", "pending"}
                           /\ run'[k].state = "pending" => ~busy(k[1])
    BY <2>1, <2>2, <2>3, <2>4
  <2> QED
    BY <2>1, <2>5, NewTurns
<1>4. \/ run' = run /\ UserOnly
      \/ run' = Cancelled(s) /\ UserOnly
      \/ runNow(s)
  BY DEF Resume, Pause, Edit, Remove, Create, Reschedule
<1> QED
  BY <1>1, <1>2, <1>3, <1>4

\* enqueueDue: an occurrence of a busy schedule is recorded as skipped.
LEMMA EnqueueTurns ==
    ASSUME ScheduleInv, TurnsInv, overtakes = 0, enqueueDue
    PROVE  TurnsInv'
<1> DEFINE queued == IF member THEN Due ELSE {}
           NewAt(k) == NewRun(schedule[k[1]].next, "scheduled", busy(k[1]))
<1>1. /\ \A k \in Runs : run'[k] = IF k[1] \in queued /\ k = Fresh(k[1]) THEN NewAt(k) ELSE run[k]
      /\ \A s \in queued : Recorded(s) # RunsOf(s)
      /\ UNCHANGED <<launch, turn>>
  BY DEF enqueueDue
<1>2. ASSUME NEW k \in Runs, k[1] \in queued
      PROVE  NewAt(k).state \in {"skipped", "pending"} /\ (NewAt(k).state = "pending" => ~busy(k[1]))
  <2>1. NewAt(k).state = IF busy(k[1]) THEN "skipped" ELSE "pending"
    BY DEF NewRun, NoRun
  <2> QED
    BY <2>1
<1>3. ASSUME NEW k \in Runs, k[1] \in queued, k = Fresh(k[1]) PROVE run[k].state = "none"
  <2>1. k[1] \in Schedules
    BY RunNames
  <2> QED
    BY <2>1, <1>1, <1>3, FreshNames
<1> HIDE DEF queued, NewAt
<1>4. \A k \in Runs : \/ run'[k] = run[k]
                      \/ /\ run[k].state = "none" /\ k = Fresh(k[1])
                         /\ run'[k].state \in {"skipped", "pending"}
                         /\ run'[k].state = "pending" => ~busy(k[1])
  BY <1>1, <1>2, <1>3
<1> QED
  BY <1>1, <1>4, NewTurns

\* claimPending: a run without a live lease and without a turn has no launch that
\* goes on, and one with a turn is recorded as admitted.
LEMMA ClaimTurns ==
    ASSUME ScheduleInv, TurnsInv, overtakes = 0, NEW S \in SUBSET Runs, claimPending(S)
    PROVE  TurnsInv'
<1> DEFINE Taken(k) == [run[k] EXCEPT !.state = "dispatching", !.attempts = @ + 1,
                                      !.owner = run[k].attempts + 1, !.lease = "live"]
<1>1. /\ \A k \in Runs : run'[k] = IF Unrecorded(k) THEN Settled(k, "admitted")
                                 ELSE IF k \in S THEN Taken(k) ELSE run[k]
      /\ \A k \in Runs : launch'[k] = IF k \in S THEN [launch[k] EXCEPT ![run[k].attempts + 1] = "claimed"]
                                      ELSE launch[k]
      /\ \A k \in S : Claimable(k) /\ ~Unrecorded(k)
      /\ UNCHANGED turn
  BY DEF claimPending
<1>2. \A k \in Runs : run[k] \in RunType /\ launch[k] \in [Claims -> LaunchType]
  BY DEF ScheduleInv, TypeOK, Typed
<1>3. ASSUME NEW k \in Runs
      PROVE  /\ AliveIsCurrent(k)' /\ KnowsTheTurn(k)' /\ RecordFollowsTurn(k)'
             /\ UnderWay(k)' => UnderWay(k)
  <2>0. AliveIsCurrent(k) /\ KnowsTheTurn(k) /\ RecordFollowsTurn(k)
    BY TurnsOf
  <2>1. CASE Unrecorded(k)
    <3>1. run'[k].state = "admitted" /\ turn[k] # "none" /\ launch'[k] = launch[k] /\ run[k].state \in Waiting
      BY <2>1, <1>1, SettledRow DEF Unrecorded
    <3> QED
      BY <3>1, <2>0, <1>1 DEF AliveIsCurrent, KnowsTheTurn, RecordFollowsTurn, UnderWay
  <2>2. CASE ~Unrecorded(k) /\ k \in S
    <3>1. /\ run[k].state \in Waiting /\ run[k].lease # "live" /\ turn[k] = "none"
      BY <2>2, <1>1 DEF Claimable, Unrecorded
    <3>2. /\ run'[k] = Taken(k)
          /\ launch'[k] = [launch[k] EXCEPT ![run[k].attempts + 1] = "claimed"]
      BY <2>2, <1>1
    <3>3. /\ run'[k].state = "dispatching" /\ run'[k].owner = run[k].attempts + 1 /\ run'[k].lease = "live"
      BY <3>2, <1>2 DEF RunType
    <3>4. \A d \in Claims : launch[k][d] \in Gone
      BY <3>1, <2>0 DEF AliveIsCurrent
    <3>5. \A d \in Claims : launch'[k][d] = IF d = run[k].attempts + 1 THEN "claimed" ELSE launch[k][d]
      BY <3>2, <1>2
    <3> HIDE DEF Taken
    <3>6. AliveIsCurrent(k)'
      BY <3>3, <3>4, <3>5 DEF AliveIsCurrent, Owns
    <3>7. KnowsTheTurn(k)'
      BY <3>4, <3>5 DEF KnowsTheTurn, Gone
    <3>8. RecordFollowsTurn(k)' /\ UnderWay(k)
      BY <3>1, <3>3 DEF RecordFollowsTurn, UnderWay
    <3> QED
      BY <3>6, <3>7, <3>8
  <2>3. CASE ~Unrecorded(k) /\ k \notin S
    <3>1. run'[k] = run[k] /\ launch'[k] = launch[k]
      BY <2>3, <1>1
    <3> QED
      BY <3>1, <2>0, <1>1 DEF AliveIsCurrent, KnowsTheTurn, RecordFollowsTurn, UnderWay, Owns
  <2> QED
    BY <2>1, <2>2, <2>3
<1>4. OneUnderWay'
  BY <1>3, TurnsOf DEF OneUnderWay
<1> QED
  BY <1>3, <1>4 DEF TurnsInv

\* The end of a turn, its review and recovery; a lease that expires after its dispatcher died; a retry that
\* becomes due; the sweep.
LEMMA OtherTurns ==
    ASSUME ScheduleInv, TurnsInv, overtakes = 0, overtakes' = 0, NEW k \in Runs,
           SweepAdmission(k) \/ TurnMoves(k) \/ LeaseExpires(k) \/ RetryDue(k)
    PROVE  TurnsInv'
<1>t. /\ run \in [Runs -> RunType] /\ turn \in [Runs -> {"none", "active", "held", "resumed", "ended"}]
      /\ overtakes \in Nat
  BY DEF ScheduleInv, TypeOK, Typed
<1>0. AliveIsCurrent(k) /\ KnowsTheTurn(k) /\ RecordFollowsTurn(k)
  BY TurnsOf
<1>1. CASE SweepAdmission(k)
  BY <1>1, RowsTurns DEF SweepAdmission
<1>2. CASE TurnMoves(k)
  <2>1. /\ turn[k] # "none" /\ turn'[k] \in {"held", "resumed", "ended"} /\ UNCHANGED <<run, launch>>
        /\ \A j \in Runs : j # k => turn'[j] = turn[j]
    BY <1>2, <1>t DEF TurnMoves, EndTurn, HoldTurn, RecoverTurn
  <2>2. AliveIsCurrent(k)' /\ KnowsTheTurn(k)' /\ RecordFollowsTurn(k)'
    BY <2>1, <1>0 DEF AliveIsCurrent, KnowsTheTurn, RecordFollowsTurn
  <2>3. UnderWay(k)' => UnderWay(k)
    BY <2>1 DEF UnderWay
  <2> QED
    BY <2>1, <2>2, <2>3, OneRun
<1>3. CASE LeaseExpires(k)
  <2>1. launch[k][run[k].owner] = "dead"
    BY <1>3, <1>t DEF LeaseExpires
  <2>2. /\ UNCHANGED <<turn, launch>> /\ run' = [run EXCEPT ![k].lease = "expired"]
    BY <1>3 DEF LeaseExpires
  <2>3. /\ \A j \in Runs : j # k => run'[j] = run[j]
        /\ run'[k].state = run[k].state /\ run'[k].owner = run[k].owner
    BY <2>2, <1>t DEF RunType
  <2>4. \A c \in Claims : launch[k][c] \notin Gone => turn[k] # "none"
    BY <2>1, <1>0 DEF AliveIsCurrent, Owns, Gone
  <2>5. AliveIsCurrent(k)'
    BY <2>2, <2>4 DEF AliveIsCurrent
  <2>6. KnowsTheTurn(k)' /\ RecordFollowsTurn(k)' /\ (UnderWay(k)' => UnderWay(k))
    BY <2>2, <2>3, <1>0 DEF KnowsTheTurn, RecordFollowsTurn, UnderWay
  <2> QED
    BY <2>2, <2>3, <2>5, <2>6, OneRun
<1>4. CASE RetryDue(k)
  <2>1. /\ UNCHANGED <<turn, launch>> /\ run' = [run EXCEPT ![k].ready = TRUE]
    BY <1>4 DEF RetryDue
  <2>2. \A j \in Runs : /\ run'[j].state = run[j].state /\ run'[j].owner = run[j].owner
                        /\ run'[j].lease = run[j].lease
    BY <2>1, <1>t DEF RunType
  <2> QED
    BY <2>1, <2>2, RowsTurns
<1> QED
  BY <1>1, <1>2, <1>3, <1>4


\* The steps of a launch up to the answer of its admission, and its death.
LEMMA LaunchTurns ==
    ASSUME ScheduleInv, TurnsInv, overtakes = 0, NEW k \in Runs, NEW c \in Claims,
           \/ authorizeClaim(k, c) \/ BeginAdmission(k, c) \/ Reserve(k, c) \/ Admit(k, c)
           \/ AdmitThrows(k, c) \/ Throws(k, c) \/ Crash(k, c)
    PROVE  TurnsInv'
<1> DEFINE Points == {"denied", "starting", "preparing", "reserved", "retryable", "rejected", "dead"}
           Quiet == launch[k][c] \notin Gone /\ UNCHANGED <<run, turn>>
           Moves == \E pc \in Points : Step(k, c, pc)
           Starts == turn[k] # "none" /\ Step(k, c, "started")
<1>a. Points \cup {"started"} \subseteq LaunchType
  BY DEF LaunchType, Gone
<1>b. ASSUME Quiet, Moves PROVE TurnsInv'
  <2>1. PICK pc \in Points : Step(k, c, pc)
    BY <1>b
  <2>2. pc \in LaunchType /\ pc \notin {"started", "recovering", "retrying", "failing"}
    BY <1>a, <2>1
  <2> QED
    BY <1>b, <2>1, <2>2, MoveTurns
<1>c. ASSUME Quiet, Starts PROVE TurnsInv'
  <2>1. "started" \in LaunchType
    BY <1>a
  <2> QED
    BY <1>c, <2>1, MoveTurns
<1>d. ASSUME launch[k][c] = "reserved", turn[k] = "none", turn' = [turn EXCEPT ![k] = "active"], UNCHANGED run,
             NEW pc \in {"started", "retryable"}, Step(k, c, pc)
      PROVE  TurnsInv'
  BY <1>d, StartTurns
<1> HIDE DEF Quiet, Moves, Starts
<1>1. CASE authorizeClaim(k, c)
  <2>1. Quiet /\ Moves
    BY <1>1 DEF authorizeClaim, Quiet, Moves, Gone
  <2> QED
    BY <2>1, <1>b
<1>2. CASE BeginAdmission(k, c)
  <2>1. Quiet /\ (Moves \/ Starts)
    BY <1>2 DEF BeginAdmission, Quiet, Moves, Starts, Gone
  <2> QED
    BY <2>1, <1>b, <1>c
<1>3. CASE Reserve(k, c)
  <2>1. Quiet /\ Moves
    BY <1>3 DEF Reserve, Quiet, Moves, Gone
  <2> QED
    BY <2>1, <1>b
<1>4. CASE Admit(k, c)
  <2>0. launch[k][c] = "reserved" /\ launch[k][c] \notin Gone /\ UNCHANGED run
    BY <1>4 DEF Admit, Gone
  <2>1. CASE turn[k] # "none"
    <3>1. Quiet /\ Starts
      BY <1>4, <2>0, <2>1 DEF Admit, Quiet, Starts
    <3> QED
      BY <3>1, <1>c
  <2>2. CASE turn[k] = "none" /\ intent[k] # c
    <3>1. Step(k, c, "rejected") /\ UNCHANGED turn
      BY <1>4, <2>2 DEF Admit
    <3>2. Quiet /\ Moves
      BY <2>0, <3>1 DEF Quiet, Moves
    <3> QED
      BY <3>2, <1>b
  <2>3. CASE turn[k] = "none" /\ intent[k] = c
    <3>1. Step(k, c, "started") /\ turn' = [turn EXCEPT ![k] = "active"]
      BY <1>4, <2>3 DEF Admit
    <3> QED
      BY <3>1, <2>0, <2>3, <1>d
  <2> QED
    BY <2>1, <2>2, <2>3
<1>5. CASE AdmitThrows(k, c)
  <2>0. /\ launch[k][c] = "reserved" /\ launch[k][c] \notin Gone /\ UNCHANGED run
        /\ Step(k, c, "retryable")
    BY <1>5 DEF AdmitThrows, Gone
  <2>1. CASE UNCHANGED turn
    <3>1. Quiet /\ Moves
      BY <2>0, <2>1 DEF Quiet, Moves
    <3> QED
      BY <3>1, <1>b
  <2>2. CASE turn[k] = "none" /\ turn' = [turn EXCEPT ![k] = "active"]
    BY <2>0, <2>2, <1>d
  <2> QED
    BY <1>5, <2>1, <2>2 DEF AdmitThrows
<1>6. CASE Throws(k, c)
  <2>1. Quiet /\ Moves
    BY <1>6 DEF Throws, Quiet, Moves, Gone
  <2> QED
    BY <2>1, <1>b
<1>7. CASE Crash(k, c)
  <2>1. Quiet /\ Moves
    BY <1>7 DEF Crash, Quiet, Moves
  <2> QED
    BY <2>1, <1>b
<1> QED
  BY <1>1, <1>2, <1>3, <1>4, <1>5, <1>6, <1>7

\* What records the outcome: admitted() knows of the turn, failed() looks for it
\* under the lock and nobody can start it before the commit.
LEMMA OutcomeTurns ==
    ASSUME ScheduleInv, TurnsInv, overtakes = 0, NEW k \in Runs, NEW c \in Claims,
           admitted(k, c) \/ FailedReads(k, c) \/ FailedCommits(k, c)
    PROVE  TurnsInv'
<1>0. KnowsTheTurn(k)
  BY TurnsOf
<1>a. {"done", "recovering", "retrying", "failing"} \subseteq LaunchType
  BY DEF LaunchType, Gone, Locked
<1>1. CASE admitted(k, c)
  <2>1. /\ launch[k][c] = "started" /\ launch[k][c] \notin Gone /\ turn[k] # "none"
        /\ Step(k, c, "done") /\ UNCHANGED turn
    BY <1>1, <1>0 DEF admitted, Gone, KnowsTheTurn
  <2>2. CASE Owns(k, c)
    <3>1. run' = [run EXCEPT ![k] = Settled(k, "admitted")]
      BY <1>1, <2>2 DEF admitted
    <3>2. Settled(k, "admitted") \in RunType /\ Settled(k, "admitted").state = "admitted"
      BY SettledRow
    <3> QED
      BY <2>1, <2>2, <3>1, <3>2, SettleTurns
  <2>3. CASE ~Owns(k, c)
    <3>1. run' = run
      BY <1>1, <2>3 DEF admitted
    <3> QED
      BY <2>1, <3>1, <1>a, MoveTurns
  <2> QED
    BY <2>2, <2>3
<1>2. CASE FailedReads(k, c)
  <2>1. launch[k][c] \notin Gone /\ UNCHANGED <<run, turn>>
    BY <1>2 DEF FailedReads, Gone
  <2>2. \E pc \in {"done", "recovering", "retrying", "failing"} :
           /\ Step(k, c, pc)
           /\ pc = "recovering" => turn[k] # "none"
           /\ pc \in {"retrying", "failing"} => turn[k] = "none"
    <3>1. CASE ~Owns(k, c)
      BY <1>2, <3>1 DEF FailedReads
    <3>2. CASE Owns(k, c) /\ Recovered(k)
      <4>1. Step(k, c, "recovering")
        BY <1>2, <3>2 DEF FailedReads
      <4> QED
        BY <4>1, <3>2 DEF Recovered
    <3>3. CASE Owns(k, c) /\ ~Recovered(k)
      <4>1. Step(k, c, "retrying") \/ Step(k, c, "failing")
        BY <1>2, <3>3 DEF FailedReads
      <4> QED
        BY <4>1, <3>3 DEF Recovered
    <3> QED
      BY <3>1, <3>2, <3>3
  <2>3. PICK pc \in {"done", "recovering", "retrying", "failing"} :
           /\ Step(k, c, pc)
           /\ pc = "recovering" => turn[k] # "none"
           /\ pc \in {"retrying", "failing"} => turn[k] = "none"
    BY <2>2
  <2>4. pc \in LaunchType /\ (pc \in {"started", "recovering"} => turn[k] # "none")
    BY <2>3, <1>a
  <2> QED
    BY <2>1, <2>3, <2>4, MoveTurns
<1>3. CASE FailedCommits(k, c)
  <2> DEFINE row == CASE launch[k][c] = "recovering" -> Settled(k, "admitted")
                      [] launch[k][c] = "retrying" -> [Settled(k, "pending") EXCEPT !.ready = FALSE]
                      [] launch[k][c] = "failing" -> Settled(k, "failed")
  <2>1. /\ launch[k][c] \in Locked /\ run' = [run EXCEPT ![k] = row]
        /\ Step(k, c, "done") /\ UNCHANGED turn
    BY <1>3 DEF FailedCommits
  <2>2. Owns(k, c) /\ launch[k][c] \notin Gone
    BY <2>1 DEF ScheduleInv, LockedOwns, Locked, Gone
  <2>3. /\ row \in RunType /\ row.state \in {"admitted", "pending", "failed"}
        /\ row.state = "admitted" <=> turn[k] # "none"
    <3>1. CASE launch[k][c] = "recovering"
      <4>1. row = Settled(k, "admitted") /\ turn[k] # "none"
        BY <3>1, <1>0 DEF KnowsTheTurn
      <4> HIDE DEF row
      <4> QED
        BY <4>1, SettledRow
    <3>2. CASE launch[k][c] = "retrying"
      <4> DEFINE r == Settled(k, "pending")
      <4>1. row = [r EXCEPT !.ready = FALSE] /\ turn[k] = "none"
        BY <3>2, <1>0 DEF KnowsTheTurn
      <4>2. r \in RunType /\ r.state = "pending"
        BY SettledRow
      <4> HIDE DEF row, r
      <4> QED
        BY <4>1, <4>2 DEF RunType
    <3>3. CASE launch[k][c] = "failing"
      <4>1. row = Settled(k, "failed") /\ turn[k] = "none"
        BY <3>3, <1>0 DEF KnowsTheTurn
      <4> HIDE DEF row
      <4> QED
        BY <4>1, SettledRow
    <3> QED
      BY <2>1, <3>1, <3>2, <3>3 DEF Locked
  <2> HIDE DEF row
  <2> QED
    BY <2>1, <2>2, <2>3, SettleTurns
<1> QED
  BY <1>1, <1>2, <1>3

\* Leases are only ever overtaken, never given back.
LEMMA OvertakesGrow ==
    ASSUME ScheduleInv, [Next]_vars, overtakes' = 0
    PROVE  overtakes = 0
<1>t. overtakes \in Nat
  BY DEF ScheduleInv, TypeOK, Typed
<1> USE DEF counters
<1>1. CASE enqueueDue \/ Tick \/ Membership \/ UNCHANGED vars
  BY <1>1 DEF enqueueDue, Tick, Membership, vars
<1>2. ASSUME NEW s \in Schedules,
             \/ Resume(s) \/ Pause(s) \/ Edit(s) \/ Remove(s) \/ runNow(s)
             \/ \E kind \in {"once", "cron"} : Create(s, kind) \/ Reschedule(s, kind)
      PROVE  overtakes = 0
  BY <1>2 DEF Resume, Pause, Edit, Remove, runNow, Create, Reschedule, UserOnly
<1>3. ASSUME NEW S \in SUBSET Runs, claimPending(S) PROVE overtakes = 0
  BY <1>3 DEF claimPending
<1>4. ASSUME NEW k \in Runs, SweepAdmission(k) \/ TurnMoves(k) \/ LeaseExpires(k) \/ RetryDue(k)
      PROVE  overtakes = 0
  BY <1>4, <1>t DEF SweepAdmission, TurnMoves, EndTurn, HoldTurn, RecoverTurn, LeaseExpires, RetryDue
<1>5. ASSUME NEW k \in Runs, NEW c \in Claims,
             Launch(k, c) \/ AdmitThrows(k, c) \/ Throws(k, c) \/ Crash(k, c)
      PROVE  overtakes = 0
  <2>1. CASE authorizeClaim(k, c) \/ BeginAdmission(k, c) \/ Reserve(k, c) \/ Admit(k, c)
    BY <2>1 DEF authorizeClaim, BeginAdmission, Reserve, Admit
  <2>2. CASE admitted(k, c) \/ FailedReads(k, c) \/ FailedCommits(k, c)
    BY <2>2 DEF admitted, FailedReads, FailedCommits
  <2>3. CASE AdmitThrows(k, c) \/ Throws(k, c) \/ Crash(k, c)
    BY <2>3 DEF AdmitThrows, Throws, Crash
  <2> QED
    BY <1>5, <2>1, <2>2, <2>3 DEF Launch
<1> QED
  BY <1>1, <1>2, <1>3, <1>4, <1>5 DEF Next

\* Every step keeps runs and turns in agreement.
LEMMA NextTurns == ScheduleInv /\ TurnsInv /\ [Next]_vars => TurnsInv'
<1> SUFFICES ASSUME ScheduleInv, TurnsInv, [Next]_vars, overtakes' = 0 PROVE TurnsInv'
    BY DEF TurnsInv
<1>0. overtakes = 0
  BY OvertakesGrow
<1>1. CASE enqueueDue
  BY <1>0, <1>1, EnqueueTurns
<1>2. CASE Tick \/ Membership \/ UNCHANGED vars
  <2>1. UNCHANGED <<run, launch, turn>>
    BY <1>2 DEF Tick, Membership, vars
  <2> QED
    BY <1>0, <2>1, RowsTurns
<1>3. ASSUME NEW s \in Schedules,
             \/ Resume(s) \/ Pause(s) \/ Edit(s) \/ Remove(s) \/ runNow(s)
             \/ \E kind \in {"once", "cron"} : Create(s, kind) \/ Reschedule(s, kind)
      PROVE  TurnsInv'
  BY <1>0, <1>3, UserTurns
<1>4. ASSUME NEW S \in SUBSET Runs, claimPending(S) PROVE TurnsInv'
  BY <1>0, <1>4, ClaimTurns
<1>5. ASSUME NEW k \in Runs, SweepAdmission(k) \/ TurnMoves(k) \/ LeaseExpires(k) \/ RetryDue(k)
      PROVE  TurnsInv'
  BY <1>0, <1>5, OtherTurns
<1>6. ASSUME NEW k \in Runs, NEW c \in Claims,
             Launch(k, c) \/ AdmitThrows(k, c) \/ Throws(k, c) \/ Crash(k, c)
      PROVE  TurnsInv'
  BY <1>0, <1>6, LaunchTurns, OutcomeTurns DEF Launch
<1> QED
  BY <1>1, <1>2, <1>3, <1>4, <1>5, <1>6 DEF Next

\* Runs and turns agree in every reachable state.
THEOREM TurnsInvariant == Spec => []TurnsInv
<1>1. Init => TurnsInv
  BY DEF Init, TurnsInv, AliveIsCurrent, KnowsTheTurn, RecordFollowsTurn, OneUnderWay, UnderWay, Waiting,
         NoRun, Gone
<1>2. ScheduleInv /\ TurnsInv /\ [Next]_vars => TurnsInv'
  BY NextTurns
<1> QED
  BY <1>1, <1>2, ScheduleInvariant, PTL DEF Spec

\* A run recorded as admitted has a turn, one recorded as failed or skipped has
\* none, whatever answers of admissions are lost and whatever dispatchers die, as
\* long as none is overtaken.
THEOREM RecordsAreTrue == Spec => []RecordMatchesTurn
<1>1. TurnsInv => RecordMatchesTurn
  BY TurnsOf DEF RecordMatchesTurn, RecordFollowsTurn
<1> QED
  BY <1>1, TurnsInvariant, PTL

\* A schedule has at most one run under way, for any number of occurrences, manual
\* runs, claims and retries, as long as no dispatcher is overtaken, and turns that
\* were held for review and recovered aside.
THEOREM OccurrencesDoNotOverlap == Spec => []NoOverlap
<1>1. TurnsInv => NoOverlap
  <2> SUFFICES ASSUME TurnsInv, overtakes = 0, NEW s \in Schedules
               PROVE  Cardinality({k \in RunsOf(s) : run[k].state \in Waiting \/ turn[k] = "active"}) <= 1
    BY DEF NoOverlap
  <2> DEFINE U == {k \in RunsOf(s) : run[k].state \in Waiting \/ turn[k] = "active"}
  <2>1. \A k, j \in U : k = j
    BY TurnsOf DEF OneUnderWay, UnderWay, RunsOf
  <2>2. CASE U = {}
    <3>1. Cardinality(U) = 0
      BY <2>2, FS_EmptySet
    <3> QED
      BY <3>1
  <2>3. CASE U # {}
    <3>1. PICK k : k \in U
      BY <2>3
    <3>2. U = {k}
      BY <2>1, <3>1
    <3>3. Cardinality(U) = 1
      BY <3>2, FS_Singleton
    <3> QED
      BY <3>3
  <2> QED
    BY <2>2, <2>3
<1> QED
  BY <1>1, TurnsInvariant, PTL


-----------------------------------------------------------------------------
(* ScheduledTasks implements ScheduleContract.                               *)

\* How a row and a turn that exist may change.
NothingVanishes ==
    \A k \in Runs : /\ run[k].state # "none" => run'[k].state # "none"
                    /\ turn[k] # "none" => turn'[k] # "none"

\* A launch goes on from what it knew, or begins with a claim.
LaunchesGoOn ==
    \A k \in Runs, c \in Claims :
        \/ launch'[k][c] = launch[k][c]
        \/ /\ launch[k][c] # "none"
           /\ launch'[k][c] \in {"started", "recovering"} => turn'[k] # "none"
        \/ launch'[k][c] = "claimed" /\ run'[k].state # "none"

\* So it still knows.
LEMMA KnowledgeStays ==
    ASSUME LaunchKnows, NothingVanishes, LaunchesGoOn
    PROVE  LaunchKnows'
<1> SUFFICES ASSUME NEW k \in Runs, NEW c \in Claims
             PROVE  /\ launch'[k][c] # "none" => run'[k].state # "none"
                    /\ launch'[k][c] \in {"started", "recovering"} => turn'[k] # "none"
    BY DEF LaunchKnows
<1>1. /\ launch[k][c] # "none" => run[k].state # "none"
      /\ launch[k][c] \in {"started", "recovering"} => turn[k] # "none"
  BY DEF LaunchKnows
<1> QED
  BY <1>1 DEF NothingVanishes, LaunchesGoOn

\* Changes by the user and new occurrences leave every launch alone.
LEMMA UserKnows ==
    ASSUME ScheduleInv, LaunchKnows, NEW s \in Schedules,
           \/ Resume(s) \/ Pause(s) \/ Edit(s) \/ Remove(s) \/ runNow(s)
           \/ \E kind \in {"once", "cron"} : Create(s, kind) \/ Reschedule(s, kind)
    PROVE  LaunchKnows'
<1>1. UNCHANGED <<launch, turn>>
  BY DEF Resume, Pause, Edit, Remove, runNow, Create, Reschedule, UserOnly
<1>2. \A k \in Runs : run[k].state # "none" => run'[k].state # "none"
  <2>1. CASE run' = run
    BY <2>1
  <2>2. CASE run' = Cancelled(s)
    BY <2>2, CancelledRuns
  <2>3. CASE runNow(s)
    <3>1. Fresh(s) \in Runs /\ run[Fresh(s)].state = "none" /\ run \in [Runs -> RunType]
      BY <2>3, FreshNames DEF runNow, ScheduleInv, TypeOK, Typed
    <3>2. \A k \in Runs : k # Fresh(s) => run'[k] = run[k]
      BY <2>3, <3>1 DEF runNow
    <3> QED
      BY <3>1, <3>2
  <2> QED
    BY <2>1, <2>2, <2>3 DEF Resume, Pause, Edit, Remove, Create, Reschedule
<1>3. NothingVanishes /\ LaunchesGoOn
  BY <1>1, <1>2 DEF NothingVanishes, LaunchesGoOn
<1> QED
  BY <1>3, KnowledgeStays

\* What enqueueDue records, one occurrence of every schedule that is due.
Queued == IF member THEN Due ELSE {}
News == {k \in Runs : k[1] \in Queued /\ k = Fresh(k[1])}

\* enqueueDue writes rows that were not there.
LEMMA EnqueueRows ==
    ASSUME ScheduleInv, enqueueDue
    PROVE  /\ UNCHANGED <<launch, turn, overtakes>>
           /\ \A k \in Runs : k \notin News => run'[k] = run[k]
           /\ \A k \in News : /\ run[k].state = "none" /\ k[1] \in Schedules /\ ~schedule[k[1]].deleted
                              /\ run'[k].state = IF busy(k[1]) THEN "skipped" ELSE "pending"
           /\ \A s \in Schedules : schedule'[s].deleted = schedule[s].deleted
<1>1. /\ \A k \in Runs : run'[k] = IF k[1] \in Queued /\ k = Fresh(k[1])
                                  THEN NewRun(schedule[k[1]].next, "scheduled", busy(k[1])) ELSE run[k]
      /\ \A s \in Queued : Recorded(s) # RunsOf(s)
      /\ UNCHANGED <<launch, turn, overtakes>>
  BY DEF enqueueDue, Queued, counters
<1>2. \A k \in Runs : k \notin News => run'[k] = run[k]
  BY <1>1 DEF News
<1>3. ASSUME NEW k \in News
      PROVE  /\ run[k].state = "none" /\ k[1] \in Schedules /\ ~schedule[k[1]].deleted
             /\ run'[k].state = IF busy(k[1]) THEN "skipped" ELSE "pending"
  <2>1. k \in Runs /\ k[1] \in Queued /\ k = Fresh(k[1]) /\ k[1] \in Schedules
    BY RunNames DEF News
  <2>2. run[k].state = "none"
    BY <1>1, <2>1, FreshNames
  <2>3. ~schedule[k[1]].deleted
    BY <2>1 DEF Queued, Due, ScheduleInv, DeletedIsPaused
  <2>4. NewRun(schedule[k[1]].next, "scheduled", busy(k[1])).state = IF busy(k[1]) THEN "skipped" ELSE "pending"
    BY DEF NewRun, NoRun
  <2> QED
    BY <1>1, <2>1, <2>2, <2>3, <2>4
<1>4. ASSUME NEW s \in Schedules PROVE schedule'[s].deleted = schedule[s].deleted
  <2>1. schedule[s] \in ScheduleType
    BY DEF ScheduleInv, TypeOK, Typed
  <2>2. \/ schedule'[s] = [schedule[s] EXCEPT !.next = NextRun("cron", 0)]
        \/ schedule'[s] = [schedule[s] EXCEPT !.next = 0, !.state = "completed"]
        \/ schedule'[s] = [schedule[s] EXCEPT !.next = 0, !.state = "paused"]
        \/ schedule'[s] = schedule[s]
    BY DEF enqueueDue
  <2> QED
    BY <2>1, <2>2 DEF ScheduleType
<1> QED
  BY <1>1, <1>2, <1>3, <1>4

\* What claimPending does to the state of a row.
LEMMA ClaimRows ==
    ASSUME ScheduleInv, NEW S \in SUBSET Runs, claimPending(S)
    PROVE  /\ UNCHANGED <<schedule, turn, overtakes>>
           /\ \A k \in S : run[k].state \in Waiting /\ ~Unrecorded(k)
           /\ \A k \in Runs : run'[k].state = IF Unrecorded(k) THEN "admitted"
                                             ELSE IF k \in S THEN "dispatching" ELSE run[k].state
           /\ \A k \in Runs, c \in Claims : launch'[k][c] = launch[k][c] \/ (launch'[k][c] = "claimed" /\ k \in S)
<1>1. \A k \in Runs : run[k] \in RunType /\ launch[k] \in [Claims -> LaunchType]
  BY DEF ScheduleInv, TypeOK, Typed
<1>2. UNCHANGED <<schedule, turn, overtakes>> /\ \A k \in S : run[k].state \in Waiting /\ ~Unrecorded(k)
  BY DEF claimPending, Claimable, counters
<1>3. ASSUME NEW k \in Runs
      PROVE  run'[k].state = IF Unrecorded(k) THEN "admitted" ELSE IF k \in S THEN "dispatching" ELSE run[k].state
  <2>1. run'[k] = IF Unrecorded(k) THEN Settled(k, "admitted")
                  ELSE IF k \in S THEN [run[k] EXCEPT !.state = "dispatching", !.attempts = @ + 1,
                                                      !.owner = run[k].attempts + 1, !.lease = "live"]
                  ELSE run[k]
    BY DEF claimPending
  <2> QED
    BY <1>1, <2>1, SettledRow DEF RunType
<1>4. ASSUME NEW k \in Runs, NEW c \in Claims
      PROVE  launch'[k][c] = launch[k][c] \/ (launch'[k][c] = "claimed" /\ k \in S)
  <2>1. launch'[k] = IF k \in S THEN [launch[k] EXCEPT ![run[k].attempts + 1] = "claimed"] ELSE launch[k]
    BY DEF claimPending
  <2> QED
    BY <1>1, <2>1
<1> QED
  BY <1>2, <1>3, <1>4

\* Occurrences and claims.
LEMMA RowsKnow ==
    ASSUME ScheduleInv, LaunchKnows, enqueueDue \/ \E S \in SUBSET Runs : claimPending(S)
    PROVE  LaunchKnows'
<1>1. CASE enqueueDue
  BY <1>1, EnqueueRows, KnowledgeStays DEF NothingVanishes, LaunchesGoOn
<1>2. ASSUME NEW S \in SUBSET Runs, claimPending(S) PROVE LaunchKnows'
  <2>1. NothingVanishes
    BY <1>2, ClaimRows DEF NothingVanishes
  <2>2. LaunchesGoOn
    BY <1>2, ClaimRows DEF LaunchesGoOn, Waiting
  <2> QED
    BY <2>1, <2>2, KnowledgeStays
<1> QED
  BY <1>1, <1>2

\* A step of one launch that leaves every row as it is, or settles its own.
LEMMA LaunchKnowsMore ==
    ASSUME ScheduleInv, LaunchKnows, NEW k \in Runs, NEW c \in Claims, NEW pc, Step(k, c, pc),
           launch[k][c] # "none", pc \in {"started", "recovering"} => turn'[k] # "none", NothingVanishes
    PROVE  LaunchKnows'
<1>1. launch \in [Runs -> [Claims -> LaunchType]] /\ launch' = [launch EXCEPT ![k][c] = pc]
  BY DEF ScheduleInv, TypeOK, Typed, Step
<1>2. \A j \in Runs, d \in Claims : launch'[j][d] = IF j = k /\ d = c THEN pc ELSE launch[j][d]
  BY <1>1
<1>3. LaunchesGoOn
  BY <1>2 DEF LaunchesGoOn
<1> QED
  BY <1>3, KnowledgeStays


\* Every step of a launch, the unfortunate ones included.
LEMMA LaunchStepsKnow ==
    ASSUME ScheduleInv, LaunchKnows, NEW k \in Runs, NEW c \in Claims,
           Launch(k, c) \/ AdmitThrows(k, c) \/ Throws(k, c) \/ Crash(k, c)
    PROVE  LaunchKnows'
<1>1. run \in [Runs -> RunType] /\ turn \in [Runs -> {"none", "active", "held", "resumed", "ended"}] /\ run[k] \in RunType
  BY DEF ScheduleInv, TypeOK, Typed
<1>2. CASE run' = run /\ turn' = turn
  <2>1. NothingVanishes
    BY <1>2 DEF NothingVanishes
  <2>2. CASE authorizeClaim(k, c) \/ BeginAdmission(k, c) \/ Reserve(k, c)
    BY <1>2, <2>1, <2>2, LaunchKnowsMore DEF authorizeClaim, BeginAdmission, Reserve
  <2>3. CASE Admit(k, c)
    <3>1. \/ Step(k, c, "started") /\ turn'[k] # "none"
          \/ Step(k, c, "rejected")
      BY <1>1, <1>2, <2>3 DEF Admit
    <3>2. launch[k][c] # "none"
      BY <2>3 DEF Admit
    <3> QED
      BY <2>1, <3>1, <3>2, LaunchKnowsMore
  <2>4. CASE admitted(k, c) \/ FailedCommits(k, c)
    BY <1>2, <2>1, <2>4, LaunchKnowsMore DEF admitted, FailedCommits, Locked
  <2>5. CASE FailedReads(k, c)
    <3>1. \/ Step(k, c, "recovering") /\ turn[k] # "none"
          \/ \E pc \in {"retrying", "failing", "done"} : Step(k, c, pc)
      BY <2>5 DEF FailedReads, Recovered
    <3>2. launch[k][c] # "none"
      BY <2>5 DEF FailedReads
    <3> QED
      BY <1>2, <2>1, <3>1, <3>2, LaunchKnowsMore
  <2>6. CASE AdmitThrows(k, c) \/ Throws(k, c) \/ Crash(k, c)
    BY <1>2, <2>1, <2>6, LaunchKnowsMore DEF AdmitThrows, Throws, Crash, Gone
  <2> QED
    BY <2>2, <2>3, <2>4, <2>5, <2>6 DEF Launch
<1>3. CASE turn' = [turn EXCEPT ![k] = "active"] /\ (Admit(k, c) \/ AdmitThrows(k, c))
  <2>1. run' = run /\ turn'[k] = "active" /\ \A j \in Runs : j # k => turn'[j] = turn[j]
    BY <1>1, <1>3 DEF Admit, AdmitThrows
  <2>2. NothingVanishes
    BY <2>1 DEF NothingVanishes
  <2>3. launch[k][c] # "none" /\ \E pc : Step(k, c, pc)
    BY <1>3 DEF Admit, AdmitThrows
  <2> QED
    BY <2>1, <2>2, <2>3, LaunchKnowsMore
<1>4. CASE turn' = turn /\ (admitted(k, c) \/ FailedCommits(k, c))
  <2>1. launch[k][c] # "none" /\ Step(k, c, "done")
    BY <1>4 DEF admitted, FailedCommits, Locked
  <2>2. \/ run' = run
        \/ \E row : run' = [run EXCEPT ![k] = row] /\ row.state # "none"
    <3>1. CASE admitted(k, c)
      BY <3>1, SettledRow DEF admitted
    <3>2. CASE FailedCommits(k, c)
      <4>1. [Settled(k, "pending") EXCEPT !.ready = FALSE].state = "pending"
        BY SettledRow DEF RunType
      <4>2. \E row : run' = [run EXCEPT ![k] = row] /\ row.state # "none"
        BY <3>2, <4>1, SettledRow DEF FailedCommits, Locked
      <4> QED
        BY <4>2
    <3> QED
      BY <1>4, <3>1, <3>2
  <2>3. NothingVanishes
    BY <1>1, <1>4, <2>2 DEF NothingVanishes
  <2> QED
    BY <2>1, <2>3, LaunchKnowsMore
<1>5. \/ run' = run /\ turn' = turn
      \/ turn' = [turn EXCEPT ![k] = "active"] /\ (Admit(k, c) \/ AdmitThrows(k, c))
      \/ turn' = turn /\ (admitted(k, c) \/ FailedCommits(k, c))
  <2>1. CASE authorizeClaim(k, c) \/ BeginAdmission(k, c) \/ Reserve(k, c) \/ FailedReads(k, c)
    BY <2>1 DEF authorizeClaim, BeginAdmission, Reserve, FailedReads
  <2>2. CASE Admit(k, c) \/ AdmitThrows(k, c)
    BY <2>2 DEF Admit, AdmitThrows
  <2>3. CASE admitted(k, c) \/ FailedCommits(k, c)
    BY <2>3 DEF admitted, FailedCommits
  <2>4. CASE Throws(k, c) \/ Crash(k, c)
    BY <2>4 DEF Throws, Crash
  <2> QED
    BY <2>1, <2>2, <2>3, <2>4 DEF Launch
<1> QED
  BY <1>2, <1>3, <1>4, <1>5

\* Every step keeps what launches know.
LEMMA NextKnows == ScheduleInv /\ LaunchKnows /\ [Next]_vars => LaunchKnows'
<1> SUFFICES ASSUME ScheduleInv, LaunchKnows, [Next]_vars PROVE LaunchKnows'
    OBVIOUS
<1>1. CASE Tick \/ Membership \/ UNCHANGED vars
  BY <1>1, KnowledgeStays DEF Tick, Membership, vars, NothingVanishes, LaunchesGoOn
<1>2. ASSUME NEW k \in Runs, SweepAdmission(k) \/ TurnMoves(k) \/ LeaseExpires(k) \/ RetryDue(k)
      PROVE  LaunchKnows'
  <2>1. run \in [Runs -> RunType] /\ turn \in [Runs -> {"none", "active", "held", "resumed", "ended"}]
    BY DEF ScheduleInv, TypeOK, Typed
  <2>2. launch' = launch
    BY <1>2 DEF SweepAdmission, TurnMoves, EndTurn, HoldTurn, RecoverTurn, LeaseExpires, RetryDue
  <2>3. \A j \in Runs : run'[j].state = run[j].state
    BY <1>2, <2>1 DEF SweepAdmission, TurnMoves, EndTurn, HoldTurn, RecoverTurn, LeaseExpires, RetryDue, RunType
  <2>4. \A j \in Runs : turn[j] # "none" => turn'[j] # "none"
    BY <1>2, <2>1 DEF SweepAdmission, TurnMoves, EndTurn, HoldTurn, RecoverTurn, LeaseExpires, RetryDue
  <2> QED
    BY <2>2, <2>3, <2>4, KnowledgeStays DEF NothingVanishes, LaunchesGoOn
<1> QED
  BY <1>1, <1>2, RowsKnow, UserKnows, LaunchStepsKnow DEF Next

\* What a launch knows holds throughout, overtaken or not.
THEOREM LaunchesKnow == Spec => []LaunchKnows
<1>1. Init => LaunchKnows
  BY DEF Init, LaunchKnows
<1>2. ScheduleInv /\ LaunchKnows /\ [Next]_vars => LaunchKnows'
  BY NextKnows
<1> QED
  BY <1>1, <1>2, ScheduleInvariant, PTL DEF Spec

\* The occurrences of the contract are the runs.
LEMMA OccurrencesAreRuns == Contract!Occurrences = Runs
BY DEF Contract!Occurrences, Runs

\* The initial states look like the contract's.
LEMMA InitImplements == Init => Contract!Init
<1> SUFFICES ASSUME Init PROVE Contract!Init
    OBVIOUS
<1>1. deletedBar = {} /\ recordBar = [k \in Runs |-> "none"]
  BY DEF Init, deletedBar, recordBar, NoRun
<1> QED
  BY <1>1, OccurrencesAreRuns DEF Init, Contract!Init

\* A step that leaves states, turns and deletions alone is not seen.
LEMMA NotSeen ==
    ASSUME \A k \in Runs : run'[k].state = run[k].state, UNCHANGED <<turn, overtakes>>,
           \A s \in Schedules : schedule'[s].deleted = schedule[s].deleted
    PROVE  UNCHANGED Contract!contractVars
<1>1. deletedBar' = deletedBar
  BY DEF deletedBar
<1>2. recordBar' = recordBar
  BY DEF recordBar
<1> QED
  BY <1>1, <1>2 DEF Contract!contractVars

\* A schedule is busy for the contract when it is for the code.
LEMMA BusyIsBusy ==
    ASSUME ScheduleInv, NEW s \in Schedules
    PROVE  Contract!Busy(s) <=> busy(s)
<1>1. \A k \in Runs : /\ recordBar[k] \in Contract!Open <=> run[k].state \in Waiting
                      /\ recordBar[k] = "admitted" <=> run[k].state = "admitted"
  BY DEF recordBar, Contract!Open, Waiting, ScheduleInv, TypeOK, Typed, RunType
<1> QED
  BY <1>1, OccurrencesAreRuns DEF Contract!Busy, busy, RunsOf

\* New rows are the contract's Record.
LEMMA RecordImplements ==
    ASSUME ScheduleInv, NEW N \in SUBSET Runs, UNCHANGED <<turn, overtakes>>,
           \A k \in N : run[k].state = "none" /\ ~schedule[k[1]].deleted,
           \A k, j \in N : k[1] = j[1] => k = j,
           \A k \in Runs : k \notin N => run'[k].state = run[k].state,
           \A k \in N : run'[k].state = IF busy(k[1]) THEN "skipped" ELSE "pending",
           \A s \in Schedules : schedule'[s].deleted = schedule[s].deleted
    PROVE  Contract!Next
<1>1. deletedBar' = deletedBar /\ \A k \in N : k[1] \notin deletedBar /\ recordBar[k] = "none"
  BY DEF deletedBar, recordBar
<1>2. \A k \in N : Contract!Busy(k[1]) <=> busy(k[1])
  BY BusyIsBusy, RunNames
<1>3. recordBar' = [k \in Contract!Occurrences |->
                      IF k \notin N THEN recordBar[k] ELSE IF Contract!Busy(k[1]) THEN "skipped" ELSE "pending"]
  <2>1. ASSUME NEW k \in Runs
        PROVE  recordBar'[k] = IF k \notin N THEN recordBar[k]
                               ELSE IF Contract!Busy(k[1]) THEN "skipped" ELSE "pending"
    <3>1. CASE k \notin N
      BY <3>1 DEF recordBar
    <3>2. CASE k \in N /\ busy(k[1])
      BY <1>2, <3>2 DEF recordBar
    <3>3. CASE k \in N /\ ~busy(k[1])
      BY <1>2, <3>3 DEF recordBar
    <3> QED
      BY <3>1, <3>2, <3>3
  <2>2. recordBar' = [k \in Runs |-> recordBar'[k]]
    BY DEF recordBar
  <2> QED
    BY <2>1, <2>2, OccurrencesAreRuns
<1>4. Contract!Record(N)
  BY <1>1, <1>3 DEF Contract!Record
<1> QED
  BY <1>4, OccurrencesAreRuns DEF Contract!Next


\* A step that writes the state of one row writes one record.
LEMMA RecordOne ==
    ASSUME NEW k \in Runs, NEW row, run' = [run EXCEPT ![k] = row], run \in [Runs -> RunType],
           row.state # "dispatching"
    PROVE  recordBar' = [recordBar EXCEPT ![k] = row.state]
<1>1. \A j \in Runs : run'[j] = IF j = k THEN row ELSE run[j]
  OBVIOUS
<1>2. \A j \in Runs : recordBar'[j] = IF j = k THEN row.state ELSE recordBar[j]
  BY <1>1 DEF recordBar
<1>3. recordBar' = [j \in Runs |-> recordBar'[j]] /\ recordBar = [j \in Runs |-> recordBar[j]]
  BY DEF recordBar
<1> QED
  BY <1>2, <1>3

\* The changes of a schedule skip what is pending; a deletion is for good.
LEMMA UserImplements ==
    ASSUME ScheduleInv, NEW s \in Schedules,
           \/ Resume(s) \/ Pause(s) \/ Edit(s) \/ Remove(s) \/ runNow(s)
           \/ \E kind \in {"once", "cron"} : Create(s, kind) \/ Reschedule(s, kind)
    PROVE  Contract!Next \/ UNCHANGED Contract!contractVars
<1>1. /\ schedule \in [Schedules -> ScheduleType] /\ run \in [Runs -> RunType]
      /\ UNCHANGED <<turn, overtakes>>
  BY DEF ScheduleInv, TypeOK, Typed, Resume, Pause, Edit, Remove, runNow, Create, Reschedule, UserOnly
<1>2. ASSUME run' = Cancelled(s) PROVE Contract!Skip(s)
  <2>1. ASSUME NEW k \in Runs
        PROVE  recordBar'[k] = IF k[1] = s /\ recordBar[k] = "pending" THEN "skipped" ELSE recordBar[k]
    <3>1. run'[k] = IF k[1] = s /\ run[k].state = "pending" THEN [run[k] EXCEPT !.state = "skipped"] ELSE run[k]
      BY <1>2 DEF Cancelled
    <3>2. run[k] \in RunType
      BY <1>1
    <3>3. recordBar[k] = "pending" <=> run[k].state = "pending"
      BY DEF recordBar
    <3>4. CASE k[1] = s /\ run[k].state = "pending"
      <4>1. run'[k].state = "skipped"
        BY <3>1, <3>2, <3>4 DEF RunType
      <4> QED
        BY <3>3, <3>4, <4>1 DEF recordBar
    <3>5. CASE ~(k[1] = s /\ run[k].state = "pending")
      BY <3>1, <3>3, <3>5 DEF recordBar
    <3> QED
      BY <3>4, <3>5
  <2>2. recordBar' = [k \in Runs |-> recordBar'[k]]
    BY DEF recordBar
  <2> QED
    BY <2>1, <2>2, OccurrencesAreRuns DEF Contract!Skip
<1>3. CASE Resume(s) \/ Pause(s) \/ Edit(s) \/ \E kind \in {"once", "cron"} : Reschedule(s, kind)
  <2>1. Active(s) /\ run' = Cancelled(s)
    BY <1>3 DEF Resume, Pause, Edit, Reschedule
  <2>2. \A z \in Schedules : schedule'[z].deleted = schedule[z].deleted
    BY <1>1, <1>3 DEF Resume, Pause, Edit, Reschedule, ScheduleType
  <2>3. deletedBar' = deletedBar /\ s \notin deletedBar
    BY <2>1, <2>2 DEF deletedBar, Active
  <2>4. Contract!Change(s)
    BY <1>1, <1>2, <2>1, <2>3 DEF Contract!Change
  <2> QED
    BY <2>4 DEF Contract!Next
<1>4. CASE Remove(s)
  <2>1. Active(s) /\ run' = Cancelled(s)
    BY <1>4 DEF Remove
  <2>2. /\ \A z \in Schedules : z # s => schedule'[z] = schedule[z]
        /\ schedule'[s].deleted = TRUE
    BY <1>1, <1>4 DEF Remove, ScheduleType
  <2>3. deletedBar' = deletedBar \cup {s} /\ s \notin deletedBar
    BY <2>1, <2>2 DEF deletedBar, Active
  <2>4. Contract!Delete(s)
    BY <1>1, <1>2, <2>1, <2>3 DEF Contract!Delete
  <2> QED
    BY <2>4 DEF Contract!Next
<1>5. ASSUME NEW kind \in {"once", "cron"}, Create(s, kind) PROVE UNCHANGED Contract!contractVars
  <2>1. schedule[s].state = "none" /\ run' = run /\ schedule[s].deleted \in BOOLEAN
    BY <1>1, <1>5 DEF Create, ScheduleType
  <2>2. ~schedule[s].deleted
    BY <2>1 DEF ScheduleInv, DeletedIsPaused
  <2>3. schedule'[s].deleted = FALSE /\ \A z \in Schedules : z # s => schedule'[z] = schedule[z]
    BY <1>1, <1>5 DEF Create
  <2>4. \A z \in Schedules : schedule'[z].deleted = schedule[z].deleted
    BY <2>1, <2>2, <2>3
  <2> QED
    BY <1>1, <2>1, <2>4, NotSeen
<1>6. CASE runNow(s)
  <2> DEFINE f == Fresh(s)
  <2>1. /\ f \in Runs /\ f[1] = s /\ run[f].state = "none" /\ run' = [run EXCEPT ![f] = NewRun(now, "manual", FALSE)]
        /\ ~busy(s) /\ schedule' = schedule /\ ~schedule[s].deleted
    BY <1>6, FreshNames DEF runNow, Active
  <2>2. NewRun(now, "manual", FALSE).state = "pending"
    BY DEF NewRun, NoRun
  <2> HIDE DEF f
  <2>3. {f} \in SUBSET Runs /\ run'[f].state = "pending" /\ \A k \in Runs : k \notin {f} => run'[k].state = run[k].state
    BY <1>1, <2>1, <2>2
  <2>4. \A k \in {f} : /\ run[k].state = "none" /\ ~schedule[k[1]].deleted
                       /\ run'[k].state = IF busy(k[1]) THEN "skipped" ELSE "pending"
    BY <2>1, <2>3
  <2>5. \A k, j \in {f} : k[1] = j[1] => k = j
    OBVIOUS
  <2> QED
    BY <1>1, <2>1, <2>3, <2>4, <2>5, RecordImplements
<1> QED
  BY <1>3, <1>4, <1>5, <1>6

\* enqueueDue records one occurrence of every schedule that is due.
LEMMA EnqueueImplements ==
    ASSUME ScheduleInv, enqueueDue
    PROVE  Contract!Next
<1>1. News \in SUBSET Runs /\ \A k, j \in News : k[1] = j[1] => k = j
  BY DEF News
<1> QED
  BY <1>1, EnqueueRows, RecordImplements

\* claimPending settles what has a chat and takes what it claims.
LEMMA ClaimImplements ==
    ASSUME ScheduleInv, NEW S \in SUBSET Runs, claimPending(S)
    PROVE  Contract!Next
<1> DEFINE A == {k \in Runs : Unrecorded(k)}
<1>1. deletedBar' = deletedBar /\ UNCHANGED <<turn, overtakes>>
  BY ClaimRows DEF deletedBar
<1>2. \A k \in A : recordBar[k] \in Contract!Open /\ turn[k] # "none"
  BY DEF recordBar, Contract!Open, Unrecorded, Waiting
<1>3. \A k \in S : recordBar[k] \in Contract!Open /\ turn[k] = "none"
  BY ClaimRows DEF recordBar, Contract!Open, Unrecorded, Waiting
<1>4. recordBar' = [k \in Runs |-> IF k \in A THEN "admitted" ELSE IF k \in S THEN "taken" ELSE recordBar[k]]
  <2>1. ASSUME NEW k \in Runs
        PROVE  recordBar'[k] = IF k \in A THEN "admitted" ELSE IF k \in S THEN "taken" ELSE recordBar[k]
    <3>1. run'[k].state = IF k \in A THEN "admitted" ELSE IF k \in S THEN "dispatching" ELSE run[k].state
      BY ClaimRows
    <3> QED
      BY <3>1 DEF recordBar
  <2>2. recordBar' = [k \in Runs |-> recordBar'[k]]
    BY DEF recordBar
  <2> HIDE DEF A
  <2> QED
    BY <2>1, <2>2
<1>5. A \in SUBSET Runs
  OBVIOUS
<1> HIDE DEF A
<1>6. Contract!Take(A, S)
  BY <1>1, <1>2, <1>3, <1>4, OccurrencesAreRuns DEF Contract!Take
<1> QED
  BY <1>5, <1>6, OccurrencesAreRuns DEF Contract!Next


\* An admission starts the chat of a record that is taken, or of a recorded one
\* once a dispatcher was overtaken.
LEMMA StartImplements ==
    ASSUME ScheduleInv, TurnsInv, LaunchKnows, NEW k \in Runs, NEW c \in Claims,
           launch[k][c] = "reserved", turn[k] = "none", turn' = [turn EXCEPT ![k] = "active"],
           UNCHANGED <<schedule, run, overtakes>>
    PROVE  Contract!Next
<1>1. deletedBar' = deletedBar /\ recordBar' = recordBar /\ overtakes \in Nat
  BY DEF deletedBar, recordBar, ScheduleInv, TypeOK, Typed
<1>2. recordBar[k] # "none"
  BY DEF recordBar, LaunchKnows
<1>3. recordBar[k] = "taken" \/ overtakes > 0
  <2>1. CASE overtakes = 0
    <3>1. AliveIsCurrent(k)
      BY <2>1, TurnsOf
    <3>2. run[k].state = "dispatching"
      BY <3>1 DEF AliveIsCurrent, Gone, Owns
    <3> QED
      BY <3>2 DEF recordBar
  <2>2. CASE overtakes # 0
    BY <1>1, <2>2
  <2> QED
    BY <2>1, <2>2
<1>4. Contract!Start(k)
  BY <1>1, <1>2, <1>3 DEF Contract!Start
<1> QED
  BY <1>4, OccurrencesAreRuns DEF Contract!Next

\* The owner settles its claim: as admitted with a chat, as failed without one
\* unless a dispatcher was overtaken, or puts it back unless the schedule is
\* deleted.
LEMMA SettleImplements ==
    ASSUME ScheduleInv, NEW k \in Runs, NEW c \in Claims, Owns(k, c),
           NEW state \in {"admitted", "failed", "pending"}, recordBar' = [recordBar EXCEPT ![k] = state],
           state = "admitted" => turn[k] # "none",
           state = "failed" => turn[k] = "none" \/ overtakes > 0,
           state = "pending" => ~schedule[k[1]].deleted,
           UNCHANGED <<schedule, turn, overtakes>>
    PROVE  Contract!Next
<1>1. deletedBar' = deletedBar /\ recordBar[k] = "taken"
  BY DEF deletedBar, recordBar, Owns
<1>2. Contract!Settle(k, state)
  BY <1>1 DEF Contract!Settle
<1>3. state = "pending" => k[1] \notin deletedBar
  BY DEF deletedBar
<1>4. Contract!Admit(k) \/ Contract!Fail(k) \/ Contract!PutBack(k)
  BY <1>2, <1>3 DEF Contract!Admit, Contract!Fail, Contract!PutBack
<1> QED
  BY <1>4, OccurrencesAreRuns DEF Contract!Next

\* What a dispatcher records of its claim.
LEMMA OutcomeImplements ==
    ASSUME ScheduleInv, TurnsInv, LaunchKnows, NEW k \in Runs, NEW c \in Claims,
           admitted(k, c) \/ FailedCommits(k, c)
    PROVE  Contract!Next \/ UNCHANGED Contract!contractVars
<1>1. UNCHANGED <<schedule, turn, overtakes>> /\ overtakes \in Nat /\ run \in [Runs -> RunType]
  BY DEF admitted, FailedCommits, counters, ScheduleInv, TypeOK, Typed
<1>2. CASE run' = run
  BY <1>1, <1>2, NotSeen
<1>3. ASSUME NEW state \in {"admitted", "failed"}, run' = [run EXCEPT ![k] = Settled(k, state)]
      PROVE  recordBar' = [recordBar EXCEPT ![k] = state]
  <2>1. PICK row : row = Settled(k, state) /\ row.state = state
    BY SettledRow
  <2>2. run' = [run EXCEPT ![k] = row] /\ row.state # "dispatching"
    BY <1>3, <2>1
  <2> QED
    BY <1>1, <2>1, <2>2, RecordOne
<1>4. CASE admitted(k, c) /\ Owns(k, c)
  <2>1. run' = [run EXCEPT ![k] = Settled(k, "admitted")] /\ turn[k] # "none"
    BY <1>4 DEF admitted, LaunchKnows
  <2> QED
    BY <1>1, <1>3, <1>4, <2>1, SettleImplements
<1>5. CASE FailedCommits(k, c)
  <2>1. launch[k][c] \in Locked /\ Owns(k, c)
    BY <1>5 DEF FailedCommits, ScheduleInv, LockedOwns
  <2>2. CASE launch[k][c] = "recovering"
    <3>1. run' = [run EXCEPT ![k] = Settled(k, "admitted")] /\ turn[k] # "none"
      BY <1>5, <2>2 DEF FailedCommits, LaunchKnows
    <3> QED
      BY <1>1, <1>3, <2>1, <3>1, SettleImplements
  <2>3. CASE launch[k][c] = "retrying"
    <3>0. [Settled(k, "pending") EXCEPT !.ready = FALSE].state = "pending"
      BY SettledRow DEF RunType
    <3>1. PICK row : row = [Settled(k, "pending") EXCEPT !.ready = FALSE] /\ row.state = "pending"
      BY <3>0
    <3>2. run' = [run EXCEPT ![k] = row] /\ row.state # "dispatching"
      BY <1>5, <2>3, <3>1 DEF FailedCommits
    <3>3. ~schedule[k[1]].deleted
      BY <2>3 DEF ScheduleInv, RetryingIsKept
    <3>4. recordBar' = [recordBar EXCEPT ![k] = "pending"]
      BY <1>1, <3>1, <3>2, RecordOne
    <3> QED
      BY <1>1, <2>1, <3>3, <3>4, SettleImplements
  <2>4. CASE launch[k][c] = "failing"
    <3>1. run' = [run EXCEPT ![k] = Settled(k, "failed")]
      BY <1>5, <2>4 DEF FailedCommits
    <3>2. turn[k] = "none" \/ overtakes > 0
      <4>1. CASE overtakes = 0
        BY <2>4, <4>1, TurnsOf DEF KnowsTheTurn
      <4>2. CASE overtakes # 0
        BY <1>1, <4>2
      <4> QED
        BY <4>1, <4>2
    <3>3. recordBar' = [recordBar EXCEPT ![k] = "failed"]
      BY <1>3, <3>1
    <3> QED
      BY <1>1, <2>1, <3>2, <3>3, SettleImplements
  <2> QED
    BY <2>1, <2>2, <2>3, <2>4 DEF Locked
<1> QED
  BY <1>2, <1>4, <1>5 DEF admitted

\* Every step of a launch.
LEMMA LaunchImplements ==
    ASSUME ScheduleInv, TurnsInv, LaunchKnows, NEW k \in Runs, NEW c \in Claims,
           Launch(k, c) \/ AdmitThrows(k, c) \/ Throws(k, c) \/ Crash(k, c)
    PROVE  Contract!Next \/ UNCHANGED Contract!contractVars
<1>1. CASE UNCHANGED <<schedule, run, turn, overtakes>>
  BY <1>1, NotSeen
<1>2. CASE /\ Admit(k, c) \/ AdmitThrows(k, c)
           /\ turn[k] = "none" /\ turn' = [turn EXCEPT ![k] = "active"]
  BY <1>2, StartImplements DEF Admit, AdmitThrows, counters
<1>3. CASE authorizeClaim(k, c) \/ BeginAdmission(k, c) \/ Reserve(k, c) \/ FailedReads(k, c)
  BY <1>1, <1>3 DEF authorizeClaim, BeginAdmission, Reserve, FailedReads, counters
<1>4. CASE Admit(k, c)
  BY <1>1, <1>2, <1>4 DEF Admit, counters
<1>5. CASE AdmitThrows(k, c)
  BY <1>1, <1>2, <1>5 DEF AdmitThrows
<1>6. CASE Throws(k, c) \/ Crash(k, c)
  BY <1>1, <1>6 DEF Throws, Crash
<1> QED
  BY <1>3, <1>4, <1>5, <1>6, OutcomeImplements DEF Launch

\* The sweep, the end, the review and the recovery of a turn, and time.
LEMMA OtherImplements ==
    ASSUME ScheduleInv, NEW k \in Runs, SweepAdmission(k) \/ TurnMoves(k) \/ LeaseExpires(k) \/ RetryDue(k)
    PROVE  Contract!Next \/ UNCHANGED Contract!contractVars
<1>1. run \in [Runs -> RunType] /\ schedule' = schedule
  BY DEF ScheduleInv, TypeOK, Typed, SweepAdmission, TurnMoves, EndTurn, HoldTurn, RecoverTurn, LeaseExpires, RetryDue
<1>2. \A j \in Runs : run'[j].state = run[j].state
  BY <1>1 DEF SweepAdmission, TurnMoves, EndTurn, HoldTurn, RecoverTurn, LeaseExpires, RetryDue, RunType
<1>3. deletedBar' = deletedBar /\ recordBar' = recordBar
  BY <1>1, <1>2 DEF deletedBar, recordBar
<1>4. CASE TurnMoves(k)
  <2>1. Contract!End(k) \/ Contract!Hold(k) \/ Contract!Recover(k)
    BY <1>3, <1>4 DEF TurnMoves, EndTurn, HoldTurn, RecoverTurn, Contract!End, Contract!Hold, Contract!Recover, counters
  <2> QED
    BY <2>1, OccurrencesAreRuns DEF Contract!Next
<1>5. CASE UNCHANGED <<turn, overtakes>>
  BY <1>1, <1>2, <1>5, NotSeen
<1>6. CASE LeaseExpires(k) /\ overtakes' = overtakes + 1
  <2>1. Contract!Overtake
    BY <1>3, <1>6 DEF LeaseExpires, Contract!Overtake
  <2> QED
    BY <2>1 DEF Contract!Next
<1> QED
  BY <1>4, <1>5, <1>6 DEF SweepAdmission, LeaseExpires, RetryDue, counters

\* Every step is a step of the contract or changes nothing a user sees.
LEMMA NextImplements ==
    ScheduleInv /\ TurnsInv /\ LaunchKnows /\ [Next]_vars => [Contract!Next]_(Contract!contractVars)
<1> SUFFICES ASSUME ScheduleInv, TurnsInv, LaunchKnows, [Next]_vars
             PROVE  Contract!Next \/ UNCHANGED Contract!contractVars
    OBVIOUS
<1>1. CASE Tick \/ Membership \/ UNCHANGED vars
  BY <1>1, NotSeen DEF Tick, Membership, vars, counters
<1>2. ASSUME NEW S \in SUBSET Runs, claimPending(S) PROVE Contract!Next
  BY <1>2, ClaimImplements
<1> QED
  BY <1>1, <1>2, EnqueueImplements, UserImplements, OtherImplements, LaunchImplements DEF Next

\* Schedules, dispatchers and their recovery implement the contract, for any
\* schedules, occurrences, claims, lost answers, dead and overtaken dispatchers.
THEOREM ScheduleImplementsContract == Spec => ContractSpec
<1>1. Init => Contract!Init
  BY InitImplements
<1>2. ScheduleInv /\ TurnsInv /\ LaunchKnows /\ [Next]_vars => [Contract!Next]_(Contract!contractVars)
  BY NextImplements
<1> QED
  BY <1>1, <1>2, ScheduleInvariant, TurnsInvariant, LaunchesKnow, PTL DEF Spec, ContractSpec, Contract!Spec
=============================================================================
