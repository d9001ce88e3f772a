--------------------------- MODULE QueuedFollowUps ---------------------------
(***************************************************************************)
(* The server-owned queue of follow-up prompts of one session               *)
(* (queued-follow-up.service.ts) and its promotion by the worker            *)
(* (turn-runner.ts): prompts queued while a turn runs become turns of their *)
(* own, one at a time and in order.                                         *)
(*                                                                          *)
(* One step is one SQL transaction, except two that overlap others while    *)
(* they wait: enqueue reads the active turn in the snapshot of the statement *)
(* that then waits for the locks on task and session, and holds them while  *)
(* it reserves budget in a transaction of its own; a cancellation has paused *)
(* the prompts it sees before it reaches the task's row.  The status         *)
(* delivering is written and left within one transaction, so it is not a     *)
(* state here.                                                               *)
(***************************************************************************)
EXTENDS Naturals, FiniteSets, Functions

CONSTANTS
    Items, NoItem,
    MaxQueue,      \* MAX_QUEUE_ITEMS
    MaxTurns,      \* model bound: turns the user starts or recovers
    MaxWaits,      \* model bound: waits for the user, and workers lost for good
    MaxStops,      \* model bound: cancellations
    MaxUpdates     \* model bound: updates of the queue by the user

ASSUME ItemsAssumption == IsFiniteSet(Items) /\ NoItem \notin Items
ASSUME BoundsAssumption == {MaxQueue, MaxTurns, MaxWaits, MaxStops, MaxUpdates} \subseteq Nat

VARIABLES
    status,     \* status of a row; "none" before it is inserted
    past,       \* the rows whose expires_at has passed
    ordinal,    \* ordinal of a row
    next,       \* COALESCE(MAX(ordinal),-1)+1 over the session's rows
    budget,     \* the zero-cost reservation of a prompt
    turn,       \* the session's turn
    last,       \* history: how the latest turn ended
    writer,     \* the prompt whose enqueue holds the locks on task and session
    reading,    \* the prompts whose enqueue saw an active turn and waits for the locks
    stopping,   \* a cancellation before its update of the task: what it paused
    removed,    \* the task was deleted or given to another user
    turns, waits, stops, updates,
    starts,     \* history: the turns started for a prompt
    resumed,    \* history: prompts the user queued again after the latest turn
    late        \* history: the prompts in reading when a turn last failed

counters == <<turns, waits, stops, updates>>
vars == <<status, past, ordinal, next, budget, turn, last, writer, reading, stopping, removed, counters,
          starts, resumed, late>>

Pending == {"queued", "paused", "failed"}      \* ACTIVE_QUEUE_STATUSES
\* An active turn: its worker runs it, it waits for the user, or its worker was
\* lost with no delivery left that would bring another (DurableTurn).
Running == {"running", "waiting", "stranded"}
\* failed: by the worker, whatever the state it records; expired: a wait ran
\* out; stopped: the user cancelled.
Endings == {"completed", "failed", "expired", "stopped"}
NotStopping == [on |-> FALSE, paused |-> {}]

TypeOK ==
    /\ status \in [Items -> {"none", "delivered", "cancelled", "expired"} \cup Pending]
    /\ past \subseteq Items
    /\ ordinal \in [Items -> Nat] /\ next \in Nat
    /\ budget \in [Items -> {"none", "reserved", "released"}]
    /\ turn \in {"none"} \cup Running
    /\ last \in {"none"} \cup Endings
    /\ writer \in Items \cup {NoItem} /\ reading \subseteq Items
    /\ stopping \in [on : BOOLEAN, paused : SUBSET Items]
    /\ removed \in BOOLEAN
    /\ counters \in Nat \X Nat \X Nat \X Nat
    /\ starts \in [Items -> Nat] /\ resumed \subseteq Items /\ late \subseteq Items

\* A follow-up can only be queued while a turn runs, so the first one is running.
Init ==
    /\ status = [i \in Items |-> "none"] /\ past = {}
    /\ ordinal = [i \in Items |-> 0] /\ next = 0
    /\ budget = [i \in Items |-> "none"]
    /\ turn = "running" /\ last = "none"
    /\ writer = NoItem /\ reading = {} /\ stopping = NotStopping /\ removed = FALSE
    /\ turns = 1 /\ waits = 0 /\ stops = 0 /\ updates = 0
    /\ starts = [i \in Items |-> 0] /\ resumed = {} /\ late = {}

-----------------------------------------------------------------------------
(* Sets of rows and the updates over them.                                 *)

Open == {i \in Items \ past : status[i] \in Pending}
InStatus(S, s) == {i \in S : status[i] = s}
Set(S, value) == [i \in Items |-> IF i \in S THEN value ELSE status[i]]
Before(i, j) == ordinal[i] < ordinal[j]

\* Nobody holds the rows of task and session.
Unlocked == writer = NoItem

\* A cancellation that waits for the task has the turn's row and the prompts
\* it paused.
NotHeld(S) == ~stopping.on \/ S \cap stopping.paused = {}

\* expireQueueItems: past their time, or out of the owner's reach.
AfterExpiry ==
    [i \in Items |-> IF status[i] \notin Pending THEN status[i]
                     ELSE IF i \in past THEN "expired"
                     ELSE IF removed THEN "cancelled" ELSE status[i]]

-----------------------------------------------------------------------------
(* Promotion.                                                              *)

\* Mutant: a prompt that failed or was paused does not hold back later ones.
CandidatesPastFailures ==
    {i \in InStatus(Open, "queued") : \A j \in InStatus(Open, "queued") : ~Before(j, i)}

\* A queued prompt with no earlier one still to be delivered.
Candidates ==
    {i \in InStatus(Open, "queued") : \A j \in Open : ~Before(j, i)}

\* promoteQueuedFollowUpSafely when the session has no turn: start the prompt's
\* turn, or mark it failed when that throws; with nothing to start, expire the
\* queued prompts whose time has passed.
Promote ==
    \/ /\ removed
       /\ status' = [i \in Items |-> IF status[i] \in Pending THEN "cancelled" ELSE status[i]]
       /\ turn' = "none"
       /\ UNCHANGED starts
    \/ /\ ~removed
       /\ \E i \in Candidates :
             \/ /\ status' = Set({i}, "delivered")
                /\ starts' = [starts EXCEPT ![i] = @ + 1]
                /\ turn' = "running"
             \/ /\ status' = Set({i}, "failed")
                /\ turn' = "none"
                /\ UNCHANGED starts
    \/ /\ ~removed /\ Candidates = {}
       /\ status' = Set(InStatus(past, "queued"), "expired")
       /\ turn' = "none"
       /\ UNCHANGED starts

\* Mutant: only a turn that completed lets the sweep go on.
SweepableAfterAnswer == turn = "none" /\ last = "completed"

\* The sweep's candidates: sessions without an active turn.
Sweepable == turn = "none"

\* Mutant: expired prompts are forgotten.
OnlyCancelled == {i \in Items : status[i] = "cancelled"}

\* Prompts that will never become a turn.
NeverDelivered == {i \in Items : status[i] \in {"cancelled", "expired"}}

\* promoteIdleQueuedFollowUps, in every dispatch cycle: first release the
\* reservations of prompts that will never be delivered.
IdleSweep ==
    /\ Unlocked /\ ~stopping.on
    /\ LET dead == {i \in NeverDelivered : budget[i] = "reserved"}
           due == Sweepable /\ InStatus(Items \ past, "queued") # {}
       IN  /\ dead # {} \/ due
           /\ budget' = [i \in Items |-> IF i \in dead THEN "released" ELSE budget[i]]
           /\ IF due THEN Promote ELSE UNCHANGED <<status, turn, starts>>
    /\ UNCHANGED <<past, ordinal, next, last, writer, reading, stopping, removed, counters, resumed, late>>

-----------------------------------------------------------------------------
(* The turn.                                                               *)

\* Mutant: prompts that arrived during a turn outlive its failure.
PausedNothing == {}

\* UPDATE ... status IN ('queued','delivering') AND expires_at > now().
PausedByFailure == InStatus(Open, "queued")

\* The worker commits the answer and promotes in the same transaction.
CompleteTurn ==
    /\ turn = "running" /\ Unlocked /\ ~stopping.on
    /\ last' = "completed" /\ resumed' = {} /\ late' = {}
    /\ Promote
    /\ UNCHANGED <<past, ordinal, next, budget, writer, reading, stopping, removed, counters>>

\* The worker ends the turn otherwise; its update of the task waits for the
\* lock before it pauses the queue.
InterruptTurn ==
    /\ turn = "running" /\ Unlocked /\ ~stopping.on
    /\ turn' = "none" /\ resumed' = {} /\ late' = reading
    /\ last' = "failed"
    /\ status' = Set(PausedByFailure, "paused")
    /\ UNCHANGED <<past, ordinal, next, budget, writer, reading, stopping, removed, counters, starts>>

WaitForUser ==
    /\ turn = "running" /\ ~stopping.on /\ waits < MaxWaits
    /\ turn' = "waiting" /\ waits' = waits + 1
    /\ UNCHANGED <<status, past, ordinal, next, budget, last, writer, reading, stopping, removed, turns, stops, updates, starts, resumed, late>>

\* The worker is lost and the turn's recovery row is spent: the turn stays active.
LoseWorker ==
    /\ turn = "running" /\ ~stopping.on /\ waits < MaxWaits
    /\ turn' = "stranded" /\ waits' = waits + 1
    /\ UNCHANGED <<status, past, ordinal, next, budget, last, writer, reading, stopping, removed, turns, stops, updates, starts, resumed, late>>

AnswerWait ==
    /\ turn = "waiting" /\ ~stopping.on
    /\ turn' = "running"
    /\ UNCHANGED <<status, past, ordinal, next, budget, last, writer, reading, stopping, removed, counters, starts, resumed, late>>

\* expireWaitTransaction, when the user decides or answers too late, ends the turn
\* and does not touch the queue.
ExpireWait ==
    /\ turn = "waiting" /\ Unlocked /\ ~stopping.on
    /\ turn' = "none" /\ resumed' = {} /\ late' = {}
    /\ last' = "expired"
    /\ UNCHANGED <<status, past, ordinal, next, budget, writer, reading, stopping, removed, counters, starts>>

\* cancel locks the turn and pauses the prompts that are there ...
StopTurn ==
    /\ turn \in Running /\ ~stopping.on /\ stops < MaxStops
    /\ stops' = stops + 1
    /\ stopping' = [on |-> TRUE, paused |-> InStatus(Open, "queued")]
    /\ UNCHANGED <<status, past, ordinal, next, budget, turn, last, writer, reading, removed, turns, waits, updates, starts, resumed, late>>

\* ... and commits once it has the task's row.
StopCommit ==
    /\ stopping.on /\ Unlocked
    /\ status' = Set(stopping.paused, "paused")
    /\ turn' = "none" /\ resumed' = {} /\ late' = {}
    /\ last' = "stopped"
    /\ stopping' = NotStopping
    /\ UNCHANGED <<past, ordinal, next, budget, writer, reading, removed, counters, starts>>

\* The user sends another message, or an operator retries an interrupted call.
StartTurn ==
    /\ turn = "none" /\ Unlocked /\ ~removed /\ turns < MaxTurns
    /\ turn' = "running" /\ turns' = turns + 1
    /\ UNCHANGED <<status, past, ordinal, next, budget, last, writer, reading, stopping, removed, waits, stops, updates, starts, resumed, late>>

\* deleteTask, or the task is given to another user.
RemoveAccess ==
    /\ ~removed /\ Unlocked /\ ~stopping.on /\ turn = "none"
    /\ removed' = TRUE
    /\ UNCHANGED <<status, past, ordinal, next, budget, turn, last, writer, reading, stopping, counters, starts, resumed, late>>

-----------------------------------------------------------------------------
(* The queue's owner.                                                      *)

\* enqueue's statement sees an active turn ...
EnqueueRead(i) ==
    /\ status[i] = "none" /\ i \notin reading /\ writer # i
    /\ turn \in Running /\ ~removed
    /\ reading' = reading \cup {i}
    /\ UNCHANGED <<status, past, ordinal, next, budget, turn, last, writer, stopping, removed, counters, starts, resumed, late>>

\* ... and locks task and session, of which alone it reads the latest version;
\* then it reserves.
EnqueueLock(i) ==
    /\ i \in reading /\ Unlocked /\ ~removed
    /\ Cardinality(Open) < MaxQueue
    /\ writer' = i /\ reading' = reading \ {i}
    /\ UNCHANGED <<status, past, ordinal, next, budget, turn, last, stopping, removed, counters, starts, resumed, late>>

EnqueueReserve(i) ==
    /\ writer = i /\ budget[i] = "none"
    /\ budget' = [budget EXCEPT ![i] = "reserved"]
    /\ UNCHANGED <<status, past, ordinal, next, turn, last, writer, reading, stopping, removed, counters, starts, resumed, late>>

EnqueueCommit(i) ==
    /\ writer = i /\ budget[i] = "reserved"
    /\ status' = Set({i}, "queued")
    /\ ordinal' = [ordinal EXCEPT ![i] = next] /\ next' = next + 1
    /\ writer' = NoItem
    /\ UNCHANGED <<past, budget, turn, last, reading, stopping, removed, counters, starts, resumed, late>>

\* The task is gone, the queue is full or the reservation is refused, or the
\* request dies.
EnqueueAbort(i) ==
    /\ writer = i \/ i \in reading
    /\ writer' = IF writer = i THEN NoItem ELSE writer
    /\ reading' = reading \ {i}
    /\ UNCHANGED <<status, past, ordinal, next, budget, turn, last, stopping, removed, counters, starts, resumed, late>>

\* Mutant: a delivered prompt can be edited like any other.
EditableAfterDelivery(i, value) == AfterExpiry[i] \in Pending \cup {"delivered"} /\ value \in Pending \cup {"cancelled"}

\* What update accepts: open prompts, and the removal of an expired one.
Editable(i, value) ==
    \/ AfterExpiry[i] \in Pending
    \/ AfterExpiry[i] = "expired" /\ value = "cancelled"

\* update and cancel, expiring what is due first; loadOwnedQueueRow locks the
\* prompt and the task.
Update(i, value) ==
    /\ updates < MaxUpdates /\ Unlocked /\ NotHeld({i} \cup {j \in Items : AfterExpiry[j] # status[j]})
    /\ Editable(i, value)
    /\ status' = [AfterExpiry EXCEPT ![i] = value]
    /\ resumed' = IF value = "queued" THEN resumed \cup {i} ELSE resumed \ {i}
    /\ updates' = updates + 1
    /\ UNCHANGED <<past, ordinal, next, budget, turn, last, writer, reading, stopping, removed, turns, waits, stops, starts, late>>

\* The places that a list of all prompts of S gives them.
Orderings(S) == {place \in [S -> 1 .. Cardinality(S)] : IsInjective(place)}

\* update with orderedIds: exactly the open prompts, which get new ordinals
\* above all others in the given order.  (The code leaves gaps.)
Reorder ==
    LET open == {i \in Items : AfterExpiry[i] \in Pending}
    IN  /\ updates < MaxUpdates /\ Unlocked /\ NotHeld(Items)
        /\ Cardinality(open) > 1
        /\ status' = AfterExpiry
        /\ \E place \in Orderings(open) :
              ordinal' = [i \in Items |-> IF i \in open THEN next + place[i] ELSE ordinal[i]]
        /\ next' = next + Cardinality(open) + 1
        /\ updates' = updates + 1
        /\ UNCHANGED <<past, budget, turn, last, writer, reading, stopping, removed, turns, waits, stops, starts, resumed, late>>

\* list, or an update that changes nothing else.
ExpireItems ==
    /\ AfterExpiry # status /\ NotHeld({i \in Items : AfterExpiry[i] # status[i]})
    /\ status' = AfterExpiry
    /\ UNCHANGED <<past, ordinal, next, budget, turn, last, writer, reading, stopping, removed, counters, starts, resumed, late>>

TimePasses(i) ==
    /\ status[i] \in Pending /\ i \notin past
    /\ past' = past \cup {i}
    /\ UNCHANGED <<status, ordinal, next, budget, turn, last, writer, reading, stopping, removed, counters, starts, resumed, late>>

-----------------------------------------------------------------------------
Enqueue(i) == EnqueueReserve(i) \/ EnqueueCommit(i)

Next ==
    \/ IdleSweep \/ CompleteTurn \/ InterruptTurn
    \/ WaitForUser \/ LoseWorker \/ AnswerWait \/ ExpireWait
    \/ StopTurn \/ StopCommit \/ StartTurn \/ RemoveAccess \/ ExpireItems \/ Reorder
    \/ \E i \in Items :
          \/ EnqueueRead(i) \/ EnqueueLock(i) \/ Enqueue(i) \/ EnqueueAbort(i) \/ TimePasses(i)
          \/ \E value \in {"queued", "paused", "cancelled"} : Update(i, value)

\* A turn that a worker runs ends, transactions finish, and every worker polls for
\* idle sessions.  A transaction that waits for a row lock gets it (PostgreSQL
\* queues waiters), hence strong fairness where a guard reads the lock.  Nothing
\* ends a wait but the user, nor a stranded turn.
Fairness ==
    /\ SF_vars(IdleSweep) /\ SF_vars(StopCommit)
    /\ SF_vars(CompleteTurn \/ InterruptTurn)
    /\ \A i \in Items : WF_vars(Enqueue(i))

Spec == Init /\ [][Next]_vars
FairSpec == Spec /\ Fairness

-----------------------------------------------------------------------------
(* Properties.                                                             *)

\* A prompt becomes at most one turn, whatever is edited, retried, reordered or
\* expired while terminal commits and the idle sweep promote
\* (promoteQueuedFollowUp: "a duplicate terminal event cannot deliver it twice").
DeliveredOnce == \A i \in Items : starts[i] <= 1

\* No prompt starts before one that the user put ahead of it and that is still
\* to be delivered, be it paused or failed.
InOrder ==
    [][\A i \in Items : starts'[i] > starts[i] =>
          \A j \in Open : j = i \/ Before(i, j)]_vars

\* A prompt never starts after a turn that the worker ended without an answer
\* unless the user queued it again (turn-runner.ts 4217: "A user-visible
\* failure/cancellation pauses the queue"), but for the prompts whose enqueue had
\* seen the turn active and waited for the locks of the failing commit: they are
\* inserted after the pause and start.  (A wait that runs out leaves the queue
\* alone, and a cancellation misses the prompt whose enqueue it overtakes.)
InterruptionHoldsQueue ==
    [][\A i \in Items : starts'[i] > starts[i] /\ last' = "failed" => i \in resumed \cup late]_vars

\* A prompt at the head of the queue does not stay there for ever: it starts,
\* fails, is paused, or is moved, also when no turn is left to finish
\* (promoteIdleQueuedFollowUps), unless the turn it follows waits for the user or
\* is stranded: such a turn holds the queue as long as its user lets it.
HeadMovesOn ==
    \A i \in Items :
        i \in Candidates ~> i \notin Candidates \/ turn \in {"waiting", "stranded"}

\* The reservation of a prompt that will never be delivered is released.
DeadReservationReleased ==
    \A i \in Items :
        status[i] \in {"cancelled", "expired"} /\ budget[i] = "reserved" ~> budget[i] = "released"

-----------------------------------------------------------------------------
(* The inductive invariant behind the safety properties.                   *)

\* The rows of a session have distinct ordinals, below the next one.
OrdinalsDistinct ==
    /\ \A i \in Items : status[i] # "none" => ordinal[i] < next
    /\ \A i, j \in Items :
          status[i] # "none" /\ status[j] # "none" /\ ordinal[i] = ordinal[j] => i = j

\* A prompt is delivered exactly when its turn was started.
StartedIsDelivered ==
    \A i \in Items : starts[i] = IF status[i] = "delivered" THEN 1 ELSE 0

\* A prompt being enqueued has no row yet.
WriterIsNew ==
    /\ writer # NoItem => status[writer] = "none"
    /\ \A i \in reading : status[i] = "none" /\ i # writer

\* Nobody touches the prompts that a cancellation has paused and not committed.
HeldAreQueued == stopping.on => \A i \in stopping.paused : status[i] = "queued"

\* After a failure the queue holds, and gets, only what the user queued again and
\* what an enqueue from before the failure brings.
FailureHolds ==
    last = "failed" /\ turn = "none" =>
        /\ \A i \in InStatus(Open, "queued") : i \in resumed \cup late
        /\ reading \subseteq late /\ (writer # NoItem => writer \in late)

QueueInv ==
    /\ TypeOK /\ OrdinalsDistinct /\ StartedIsDelivered /\ WriterIsNew
    /\ HeldAreQueued /\ FailureHolds
=============================================================================
