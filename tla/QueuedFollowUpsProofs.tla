----------------------- MODULE QueuedFollowUpsProofs -----------------------
(***************************************************************************)
(* Theorems about QueuedFollowUps, for any set of prompts and any bounds:    *)
(* type correctness, a prompt starts at most one turn, prompts start in the  *)
(* user's order, and a failed turn holds the queue until the user resumes.   *)
(***************************************************************************)
EXTENDS QueuedFollowUps, FiniteSetTheorems, TLAPS

StatusType == {"none", "delivered", "cancelled", "expired"} \cup Pending

\* The initial state.
LEMMA InitInv == Init => QueueInv
<1> SUFFICES ASSUME Init PROVE QueueInv
    OBVIOUS
<1> USE DEF Init
<1>1. TypeOK
  BY ItemsAssumption DEF TypeOK, counters, Pending, Running, NotStopping
<1>2. OrdinalsDistinct /\ StartedIsDelivered
  BY DEF OrdinalsDistinct, StartedIsDelivered
<1>3. WriterIsNew /\ HeldAreQueued /\ FailureHolds
  BY DEF WriterIsNew, HeldAreQueued, NotStopping, FailureHolds
<1> QED
  BY <1>1, <1>2, <1>3 DEF QueueInv

-----------------------------------------------------------------------------
(* Updates of the rows.                                                      *)

\* expireQueueItems changes nothing but pending rows, and makes none queued.
LEMMA ExpiryFacts ==
    ASSUME QueueInv
    PROVE  /\ AfterExpiry \in [Items -> StatusType]
           /\ \A i \in Items :
                 /\ status[i] \notin Pending => AfterExpiry[i] = status[i]
                 /\ AfterExpiry[i] \in Pending => AfterExpiry[i] = status[i] /\ i \notin past
                 /\ status[i] \in Pending => AfterExpiry[i] \in Pending \cup {"cancelled", "expired"}
BY DEF QueueInv, TypeOK, AfterExpiry, StatusType, Pending

\* Rows change but none is inserted or delivered; what is left of the invariant
\* when the ordinals and the history of starts stay as they are.
LEMMA RowsOnly ==
    ASSUME QueueInv, status' \in [Items -> StatusType], UNCHANGED <<ordinal, next, starts>>,
           \A i \in Items : /\ status'[i] = "none" <=> status[i] = "none"
                            /\ status'[i] = "delivered" <=> status[i] = "delivered"
    PROVE  OrdinalsDistinct' /\ StartedIsDelivered'
<1>1. OrdinalsDistinct'
  BY DEF QueueInv, OrdinalsDistinct
<1>2. StartedIsDelivered'
  BY DEF QueueInv, StartedIsDelivered
<1> QED
  BY <1>1, <1>2

\* What promotion does to a row: start it, being a queued one with nothing before
\* it, or anything short of that.
Started(i) == starts'[i] = starts[i] + 1 /\ status'[i] = "delivered" /\ i \in Candidates
Unstarted(i) == starts'[i] = starts[i] /\ (status'[i] = "delivered" <=> status[i] = "delivered")
Promoted(i) ==
    /\ status'[i] = "none" <=> status[i] = "none"
    /\ status'[i] = "queued" => status[i] = "queued"
    /\ Started(i) \/ Unstarted(i)

\* Promotion starts at most queued prompts with nothing before them.
LEMMA PromoteFacts ==
    ASSUME QueueInv, Promote
    PROVE  /\ status' \in [Items -> StatusType] /\ starts' \in [Items -> Nat]
           /\ turn' \in {"none", "running"} /\ \A i \in Items : Promoted(i)
<1>1. status \in [Items -> StatusType] /\ starts \in [Items -> Nat]
  BY DEF QueueInv, TypeOK, StatusType
<1>2. \A i \in Candidates : i \in Items /\ status[i] = "queued"
  BY DEF Candidates, InStatus, Open
<1> USE <1>1, <1>2 DEF Promoted, Started, Unstarted
<1>3. CASE /\ status' = [i \in Items |-> IF status[i] \in Pending THEN "cancelled" ELSE status[i]]
           /\ turn' = "none" /\ UNCHANGED starts
  BY <1>3 DEF Pending, StatusType
<1>4. ASSUME NEW i \in Candidates, status' = Set({i}, "delivered"),
             starts' = [starts EXCEPT ![i] = @ + 1], turn' = "running"
      PROVE  /\ status' \in [Items -> StatusType] /\ starts' \in [Items -> Nat]
             /\ \A j \in Items : Promoted(j)
  BY <1>4 DEF Set, StatusType
<1>5. ASSUME NEW i \in Candidates, status' = Set({i}, "failed"), UNCHANGED starts
      PROVE  /\ status' \in [Items -> StatusType] /\ starts' \in [Items -> Nat]
             /\ \A j \in Items : Promoted(j)
  BY <1>5 DEF Set, StatusType, Pending
<1>6. CASE status' = Set(InStatus(past, "queued"), "expired") /\ turn' = "none" /\ UNCHANGED starts
  BY <1>6 DEF Set, StatusType, InStatus
<1> QED
  BY <1>3, <1>4, <1>5, <1>6 DEF Promote

\* A promotion keeps what relates rows, ordinals and starts.
LEMMA PromoteKeeps ==
    ASSUME QueueInv, Promote, UNCHANGED <<ordinal, next>>
    PROVE  OrdinalsDistinct' /\ StartedIsDelivered'
<1>1. \A i \in Items : Promoted(i)
  BY PromoteFacts
<1>2. OrdinalsDistinct'
  BY <1>1 DEF Promoted, QueueInv, OrdinalsDistinct
<1>3. \A i \in Candidates : status[i] = "queued"
  BY DEF Candidates, InStatus
<1>4. StartedIsDelivered'
  BY <1>1, <1>3 DEF Promoted, Started, Unstarted, QueueInv, StartedIsDelivered
<1> QED
  BY <1>2, <1>4

-----------------------------------------------------------------------------
(* The turn.                                                                 *)

\* The idle sweep.
LEMMA SweepStep ==
    ASSUME QueueInv, IdleSweep
    PROVE  QueueInv'
<1>1. /\ writer = NoItem /\ ~stopping.on
      /\ UNCHANGED <<past, ordinal, next, last, writer, reading, stopping, removed, counters, resumed, late>>
      /\ UNCHANGED <<status, turn, starts>> \/ (turn = "none" /\ Promote)
      /\ budget' \in [Items -> {"none", "reserved", "released"}]
  BY DEF IdleSweep, Unlocked, Sweepable, QueueInv, TypeOK
<1>2. CASE UNCHANGED <<status, turn, starts>>
  <2>1. TypeOK'
    BY <1>1, <1>2 DEF QueueInv, TypeOK, counters
  <2>2. OrdinalsDistinct' /\ StartedIsDelivered' /\ WriterIsNew' /\ HeldAreQueued' /\ FailureHolds'
    BY <1>1, <1>2 DEF QueueInv, OrdinalsDistinct, StartedIsDelivered, WriterIsNew, HeldAreQueued,
                      FailureHolds, InStatus, Open
  <2> QED
    BY <2>1, <2>2 DEF QueueInv
<1>3. CASE turn = "none" /\ Promote
  <2>1. /\ status' \in [Items -> StatusType] /\ starts' \in [Items -> Nat]
        /\ turn' \in {"none", "running"} /\ \A i \in Items : Promoted(i)
    BY <1>3, PromoteFacts
  <2>2. TypeOK'
    BY <1>1, <2>1 DEF QueueInv, TypeOK, counters, StatusType, Running
  <2>3. OrdinalsDistinct' /\ StartedIsDelivered'
    BY <1>1, <1>3, PromoteKeeps
  <2>4. WriterIsNew' /\ HeldAreQueued'
    BY <1>1, <2>1 DEF QueueInv, TypeOK, WriterIsNew, HeldAreQueued, Promoted
  <2>5. FailureHolds'
    BY <1>1, <1>3, <2>1 DEF QueueInv, FailureHolds, InStatus, Open, Promoted
  <2> QED
    BY <2>2, <2>3, <2>4, <2>5 DEF QueueInv
<1> QED
  BY <1>1, <1>2, <1>3

\* The worker completes the turn and promotes.
LEMMA CompleteStep ==
    ASSUME QueueInv, CompleteTurn
    PROVE  QueueInv'
<1>1. /\ writer = NoItem /\ ~stopping.on /\ last' = "completed" /\ resumed' = {} /\ late' = {} /\ Promote
      /\ UNCHANGED <<past, ordinal, next, budget, writer, reading, stopping, removed, counters>>
  BY DEF CompleteTurn, Unlocked
<1>2. /\ status' \in [Items -> StatusType] /\ starts' \in [Items -> Nat]
      /\ turn' \in {"none", "running"} /\ \A i \in Items : Promoted(i)
  BY <1>1, PromoteFacts
<1>3. TypeOK'
  BY <1>1, <1>2 DEF QueueInv, TypeOK, counters, StatusType, Running, Endings
<1>4. OrdinalsDistinct' /\ StartedIsDelivered'
  BY <1>1, PromoteKeeps
<1>5. WriterIsNew' /\ HeldAreQueued' /\ FailureHolds'
  BY <1>1, <1>2 DEF QueueInv, TypeOK, WriterIsNew, HeldAreQueued, FailureHolds, Promoted
<1> QED
  BY <1>3, <1>4, <1>5 DEF QueueInv

\* The worker ends the turn without an answer and pauses the queue.
LEMMA InterruptStep ==
    ASSUME QueueInv, InterruptTurn
    PROVE  QueueInv'
<1>1. /\ writer = NoItem /\ ~stopping.on /\ last' = "failed" /\ resumed' = {} /\ late' = reading /\ turn' = "none"
      /\ UNCHANGED <<past, ordinal, next, budget, writer, reading, stopping, removed, counters, starts>>
      /\ status \in [Items -> StatusType]
  BY DEF InterruptTurn, Unlocked, QueueInv, TypeOK, StatusType
<1>2. /\ status' \in [Items -> StatusType]
      /\ \A i \in Items : status'[i] = IF i \in InStatus(Open, "queued") THEN "paused" ELSE status[i]
  BY <1>1 DEF InterruptTurn, Set, PausedByFailure, StatusType, Pending
<1>3. TypeOK'
  BY <1>1, <1>2 DEF QueueInv, TypeOK, counters, StatusType, Running, Endings
<1>4. OrdinalsDistinct' /\ StartedIsDelivered'
  BY <1>1, <1>2, RowsOnly DEF InStatus
<1>5. WriterIsNew' /\ HeldAreQueued'
  BY <1>1, <1>2 DEF QueueInv, TypeOK, WriterIsNew, HeldAreQueued, InStatus
<1>6. FailureHolds'
  BY <1>1, <1>2 DEF FailureHolds, InStatus, Open, Pending
<1> QED
  BY <1>3, <1>4, <1>5, <1>6 DEF QueueInv

\* What a step of the turn keeps that writes no row.
LEMMA TurnOnly ==
    ASSUME QueueInv, UNCHANGED <<status, past, ordinal, next, budget, writer, reading, removed, starts>>,
           turn' \in {"none"} \cup Running, last' \in {"none"} \cup Endings,
           turn' = "none" /\ last' = "failed" => UNCHANGED <<turn, last, resumed, late>>,
           counters' \in Nat \X Nat \X Nat \X Nat, resumed' \subseteq Items, late' \subseteq Items,
           stopping' \in [on : BOOLEAN, paused : SUBSET Items], HeldAreQueued'
    PROVE  QueueInv'
<1>1. TypeOK'
  BY DEF QueueInv, TypeOK
<1>2. OrdinalsDistinct' /\ StartedIsDelivered' /\ WriterIsNew'
  BY DEF QueueInv, OrdinalsDistinct, StartedIsDelivered, WriterIsNew
<1>3. FailureHolds'
  BY DEF QueueInv, FailureHolds, InStatus, Open
<1> QED
  BY <1>1, <1>2, <1>3 DEF QueueInv

\* Waiting, answering, the end of a wait, the next turn, the loss of access and
\* the first half of a cancellation write no row.
LEMMA TurnSteps ==
    ASSUME QueueInv, WaitForUser \/ LoseWorker \/ AnswerWait \/ ExpireWait \/ StartTurn \/ StopTurn
    PROVE  QueueInv'
<1>a. /\ turns \in Nat /\ waits \in Nat /\ stops \in Nat /\ updates \in Nat
      /\ resumed \subseteq Items /\ late \subseteq Items /\ stopping \in [on : BOOLEAN, paused : SUBSET Items] /\ HeldAreQueued
      /\ last \in {"none"} \cup Endings
  BY DEF QueueInv, TypeOK, counters
<1>1. CASE WaitForUser \/ LoseWorker \/ AnswerWait
  <2>1. /\ UNCHANGED <<status, past, ordinal, next, budget, last, writer, reading, stopping, removed, starts, resumed, late>>
        /\ turn' \in Running /\ turn' # "none" /\ counters' \in Nat \X Nat \X Nat \X Nat
    BY <1>1, <1>a DEF WaitForUser, LoseWorker, AnswerWait, Running, counters
  <2>2. HeldAreQueued'
    BY <1>a, <2>1 DEF HeldAreQueued
  <2> QED
    BY <1>a, <2>1, <2>2, TurnOnly
<1>2. CASE ExpireWait
  <2>1. /\ UNCHANGED <<status, past, ordinal, next, budget, writer, reading, stopping, removed, starts>>
        /\ turn' = "none" /\ last' = "expired" /\ resumed' = {} /\ late' = {} /\ writer = NoItem
        /\ counters' \in Nat \X Nat \X Nat \X Nat
    BY <1>2, <1>a DEF ExpireWait, Unlocked, counters
  <2>2. HeldAreQueued' /\ last' \in {"none"} \cup Endings
    BY <1>a, <2>1 DEF HeldAreQueued, Endings
  <2> QED
    BY <1>a, <2>1, <2>2, TurnOnly
<1>3. CASE StartTurn
  <2>1. /\ UNCHANGED <<status, past, ordinal, next, budget, last, writer, reading, stopping, removed, starts, resumed, late>>
        /\ turn' \in Running /\ turn' # "none" /\ counters' \in Nat \X Nat \X Nat \X Nat
    BY <1>3, <1>a DEF StartTurn, Running, counters
  <2>2. HeldAreQueued'
    BY <1>a, <2>1 DEF HeldAreQueued
  <2> QED
    BY <1>a, <2>1, <2>2, TurnOnly
<1>4. CASE StopTurn
  <2>1. /\ UNCHANGED <<status, past, ordinal, next, budget, turn, last, writer, reading, removed, starts, resumed, late>>
        /\ stopping' = [on |-> TRUE, paused |-> InStatus(Open, "queued")]
        /\ turn \in Running /\ turn # "none" /\ counters' \in Nat \X Nat \X Nat \X Nat
    BY <1>4, <1>a DEF StopTurn, Running, counters
  <2>2. HeldAreQueued' /\ stopping' \in [on : BOOLEAN, paused : SUBSET Items]
    BY <2>1 DEF HeldAreQueued, InStatus, Open
  <2> QED
    BY <1>a, <2>1, <2>2, TurnOnly
<1> QED
  BY <1>1, <1>2, <1>3, <1>4

\* A cancellation commits: the prompts it paused were still queued.
LEMMA StopCommitStep ==
    ASSUME QueueInv, StopCommit
    PROVE  QueueInv'
<1>1. /\ writer = NoItem /\ stopping.on /\ last' = "stopped" /\ resumed' = {} /\ late' = {} /\ turn' = "none"
      /\ stopping' = NotStopping
      /\ UNCHANGED <<past, ordinal, next, budget, writer, reading, removed, counters, starts>>
      /\ status \in [Items -> StatusType]
      /\ \A i \in stopping.paused : status[i] = "queued"
  BY DEF StopCommit, Unlocked, QueueInv, TypeOK, StatusType, HeldAreQueued
<1>2. /\ status' \in [Items -> StatusType]
      /\ \A i \in Items : status'[i] = IF i \in stopping.paused THEN "paused" ELSE status[i]
  BY <1>1 DEF StopCommit, Set, StatusType, Pending
<1>3. TypeOK'
  BY <1>1, <1>2 DEF QueueInv, TypeOK, counters, StatusType, Running, Endings, NotStopping
<1>4. OrdinalsDistinct' /\ StartedIsDelivered'
  BY <1>1, <1>2, RowsOnly
<1>5. WriterIsNew' /\ HeldAreQueued' /\ FailureHolds'
  BY <1>1, <1>2 DEF QueueInv, TypeOK, WriterIsNew, HeldAreQueued, FailureHolds, NotStopping
<1> QED
  BY <1>3, <1>4, <1>5 DEF QueueInv

\* The owner loses the task, or time passes for a prompt.
LEMMA OutsideSteps ==
    ASSUME QueueInv, RemoveAccess \/ \E i \in Items : TimePasses(i)
    PROVE  QueueInv'
<1>1. /\ UNCHANGED <<status, ordinal, next, budget, turn, last, writer, reading, stopping, counters, starts, resumed, late>>
      /\ past \subseteq past' /\ past' \subseteq Items /\ removed' \in BOOLEAN
  BY DEF RemoveAccess, TimePasses, QueueInv, TypeOK
<1>2. TypeOK'
  BY <1>1 DEF QueueInv, TypeOK, counters
<1>3. OrdinalsDistinct' /\ StartedIsDelivered' /\ WriterIsNew' /\ HeldAreQueued'
  BY <1>1 DEF QueueInv, OrdinalsDistinct, StartedIsDelivered, WriterIsNew, HeldAreQueued
<1>4. FailureHolds'
  BY <1>1 DEF QueueInv, FailureHolds, InStatus, Open
<1> QED
  BY <1>2, <1>3, <1>4 DEF QueueInv

-----------------------------------------------------------------------------
(* The queue's owner.                                                        *)

\* enqueue before its insert: only prompts without a row read, and none reads
\* while there is no turn.
LEMMA EnqueueOpens ==
    ASSUME QueueInv, NEW i \in Items,
           EnqueueRead(i) \/ EnqueueLock(i) \/ EnqueueReserve(i) \/ EnqueueAbort(i)
    PROVE  QueueInv'
<1>1. /\ UNCHANGED <<status, past, ordinal, next, turn, last, stopping, removed, counters, starts, resumed, late>>
      /\ budget' \in [Items -> {"none", "reserved", "released"}] /\ i # NoItem
      /\ reading \subseteq Items
  BY ItemsAssumption DEF EnqueueRead, EnqueueLock, EnqueueReserve, EnqueueAbort, QueueInv, TypeOK
<1>2. \/ /\ writer' = writer /\ reading' = reading \cup {i}
         /\ status[i] = "none" /\ writer # i /\ turn # "none"
      \/ writer' = i /\ reading' = reading \ {i} /\ i \in reading
      \/ writer' = writer /\ reading' = reading
      \/ writer' \in {NoItem, writer} /\ reading' = reading \ {i}
  BY DEF EnqueueRead, EnqueueLock, EnqueueReserve, EnqueueAbort, Running
<1>3. TypeOK'
  <2>1. writer' \in Items \cup {NoItem} /\ reading' \subseteq Items
    BY <1>1, <1>2 DEF QueueInv, TypeOK
  <2> QED
    BY <1>1, <2>1 DEF QueueInv, TypeOK, counters
<1>4. OrdinalsDistinct' /\ StartedIsDelivered' /\ HeldAreQueued'
  BY <1>1 DEF QueueInv, OrdinalsDistinct, StartedIsDelivered, HeldAreQueued
<1>5. WriterIsNew'
  BY <1>1, <1>2, ItemsAssumption DEF QueueInv, WriterIsNew
<1>6. FailureHolds'
  <2>1. last = "failed" /\ turn = "none" =>
            reading' \subseteq reading /\ (writer' \in {NoItem, writer} \/ writer' \in reading)
    BY <1>2
  <2> QED
    BY <1>1, <2>1 DEF QueueInv, FailureHolds, InStatus, Open
<1> QED
  BY <1>3, <1>4, <1>5, <1>6 DEF QueueInv

\* enqueue inserts the prompt behind all others.
LEMMA EnqueueCommits ==
    ASSUME QueueInv, NEW i \in Items, EnqueueCommit(i)
    PROVE  QueueInv'
<1>1. /\ writer = i /\ writer' = NoItem /\ i # NoItem
      /\ UNCHANGED <<past, budget, turn, last, reading, stopping, removed, counters, starts, resumed, late>>
      /\ status \in [Items -> StatusType] /\ ordinal \in [Items -> Nat] /\ next \in Nat
  BY ItemsAssumption DEF EnqueueCommit, QueueInv, TypeOK, StatusType
<1>2. status[i] = "none" /\ i \notin reading
  BY <1>1 DEF QueueInv, WriterIsNew
<1>3. status' \in [Items -> StatusType] /\ \A j \in Items : status'[j] = IF j = i THEN "queued" ELSE status[j]
  BY <1>1 DEF EnqueueCommit, Set, StatusType, Pending
<1>4. /\ ordinal' \in [Items -> Nat] /\ next' = next + 1
      /\ \A j \in Items : ordinal'[j] = IF j = i THEN next ELSE ordinal[j]
  BY <1>1 DEF EnqueueCommit
<1>5. TypeOK'
  BY <1>1, <1>3, <1>4 DEF QueueInv, TypeOK, counters, StatusType
<1>6. OrdinalsDistinct'
  <2>1. \A j \in Items : j # i /\ status'[j] # "none" => ordinal'[j] < next /\ ordinal'[j] = ordinal[j]
    BY <1>3, <1>4 DEF QueueInv, OrdinalsDistinct
  <2> QED
    BY <1>1, <1>3, <1>4, <2>1 DEF QueueInv, OrdinalsDistinct
<1>7. StartedIsDelivered' /\ WriterIsNew'
  <2>1. StartedIsDelivered'
    BY <1>1, <1>2, <1>3 DEF QueueInv, StartedIsDelivered
  <2>2. WriterIsNew'
    BY <1>1, <1>2, <1>3, ItemsAssumption DEF QueueInv, TypeOK, WriterIsNew
  <2> QED
    BY <2>1, <2>2
<1>8. HeldAreQueued' /\ FailureHolds'
  BY <1>1, <1>2, <1>3 DEF QueueInv, TypeOK, HeldAreQueued, FailureHolds, InStatus, Open
<1> QED
  BY <1>5, <1>6, <1>7, <1>8 DEF QueueInv

\* What an update of rows by their owner keeps: it makes nothing queued that was
\* not, except what it notes as resumed, and leaves held rows alone.
LEMMA OwnerChanges ==
    ASSUME QueueInv, status' \in [Items -> StatusType], resumed' \subseteq Items,
           \A i \in Items : /\ status'[i] = "none" <=> status[i] = "none"
                            /\ status'[i] = "delivered" <=> status[i] = "delivered"
                            /\ status'[i] = "queued" => i \in resumed' \/ status[i] = "queued"
                            /\ status'[i] = "queued" /\ i \in resumed => i \in resumed',
           NotHeld({i \in Items : status'[i] # status[i]}),
           UNCHANGED <<past, budget, turn, last, writer, reading, stopping, removed, starts, late>>
    PROVE  StartedIsDelivered' /\ WriterIsNew' /\ HeldAreQueued' /\ FailureHolds'
<1>1. StartedIsDelivered'
  BY DEF QueueInv, StartedIsDelivered
<1>2. WriterIsNew'
  BY DEF QueueInv, WriterIsNew, TypeOK
<1>3. HeldAreQueued'
  BY DEF QueueInv, HeldAreQueued, NotHeld, TypeOK
<1>4. FailureHolds'
  BY DEF QueueInv, FailureHolds, InStatus, Open
<1> QED
  BY <1>1, <1>2, <1>3, <1>4

\* update and cancel of one prompt.
LEMMA UpdateStep ==
    ASSUME QueueInv, NEW i \in Items, NEW value \in {"queued", "paused", "cancelled"}, Update(i, value)
    PROVE  QueueInv'
<1>1. /\ AfterExpiry \in [Items -> StatusType] /\ updates \in Nat /\ turns \in Nat /\ waits \in Nat /\ stops \in Nat
      /\ resumed \subseteq Items
  BY ExpiryFacts DEF QueueInv, TypeOK, counters
<1>2. /\ status' \in [Items -> StatusType]
      /\ \A j \in Items : status'[j] = IF j = i THEN value ELSE AfterExpiry[j]
  BY <1>1 DEF Update, StatusType, Pending
<1>3. /\ UNCHANGED <<past, ordinal, next, budget, turn, last, writer, reading, stopping, removed, starts, late>>
      /\ counters' \in Nat \X Nat \X Nat \X Nat
      /\ resumed' = IF value = "queued" THEN resumed \cup {i} ELSE resumed \ {i}
  BY <1>1 DEF Update, counters
<1>4. status[i] \notin {"none", "delivered"}
  BY ExpiryFacts DEF Update, Editable, Pending
<1>5. \A j \in Items : /\ status'[j] = "none" <=> status[j] = "none"
                       /\ status'[j] = "delivered" <=> status[j] = "delivered"
                       /\ status'[j] = "queued" => j = i \/ status[j] = "queued"
  BY <1>2, <1>4, ExpiryFacts DEF Pending
<1>6. \A j \in Items : /\ status'[j] = "queued" => j \in resumed' \/ status[j] = "queued"
                       /\ status'[j] = "queued" /\ j \in resumed => j \in resumed'
  BY <1>2, <1>3, <1>5
<1>7. NotHeld({j \in Items : status'[j] # status[j]})
  BY <1>2 DEF Update, NotHeld
<1>8. StartedIsDelivered' /\ WriterIsNew' /\ HeldAreQueued' /\ FailureHolds'
  BY <1>1, <1>2, <1>3, <1>5, <1>6, <1>7, OwnerChanges
<1>9. OrdinalsDistinct'
  BY <1>2, <1>3, <1>5, RowsOnly
<1>10. TypeOK'
  BY <1>1, <1>2, <1>3 DEF QueueInv, TypeOK, counters, StatusType
<1> QED
  BY <1>8, <1>9, <1>10 DEF QueueInv

\* list expires what is due.
LEMMA ExpireItemsStep ==
    ASSUME QueueInv, ExpireItems
    PROVE  QueueInv'
<1>1. /\ status' = AfterExpiry /\ status' \in [Items -> StatusType]
      /\ UNCHANGED <<past, ordinal, next, budget, turn, last, writer, reading, stopping, removed, counters, starts, resumed, late>>
      /\ resumed' \subseteq Items
  BY ExpiryFacts DEF ExpireItems, QueueInv, TypeOK
<1>2. \A j \in Items : /\ status'[j] = "none" <=> status[j] = "none"
                       /\ status'[j] = "delivered" <=> status[j] = "delivered"
                       /\ status'[j] = "queued" => status[j] = "queued"
  BY <1>1, ExpiryFacts DEF Pending
<1>3. NotHeld({j \in Items : status'[j] # status[j]})
  BY <1>1 DEF ExpireItems
<1>4. StartedIsDelivered' /\ WriterIsNew' /\ HeldAreQueued' /\ FailureHolds'
  BY <1>1, <1>2, <1>3, OwnerChanges
<1>5. OrdinalsDistinct'
  BY <1>1, <1>2, RowsOnly
<1>6. TypeOK'
  BY <1>1 DEF QueueInv, TypeOK, counters, StatusType
<1> QED
  BY <1>4, <1>5, <1>6 DEF QueueInv

\* Reordering gives the open prompts distinct ordinals above all others.
LEMMA ReorderStep ==
    ASSUME QueueInv, Reorder
    PROVE  QueueInv'
<1> DEFINE open == {i \in Items : AfterExpiry[i] \in Pending}
<1>a. PICK count \in Nat : count = Cardinality(open)
  <2>1. IsFiniteSet(open)
    BY ItemsAssumption, FS_Subset
  <2> QED
    BY <2>1, FS_CardinalityType
<1>1. /\ status' = AfterExpiry /\ status' \in [Items -> StatusType]
      /\ UNCHANGED <<past, budget, turn, last, writer, reading, stopping, removed, turns, waits, stops, starts, resumed, late>>
      /\ updates' = updates + 1 /\ next' = next + count + 1 /\ NotHeld(Items)
      /\ resumed' \subseteq Items
  BY <1>a, ExpiryFacts DEF Reorder, QueueInv, TypeOK
<1>2. PICK place \in Orderings(open) :
          ordinal' = [i \in Items |-> IF i \in open THEN next + place[i] ELSE ordinal[i]]
  BY DEF Reorder
<1>3. /\ place \in [open -> 1 .. count]
      /\ \A i, j \in open : place[i] = place[j] => i = j
  BY <1>a DEF Orderings, IsInjective
<1>4. ordinal \in [Items -> Nat] /\ next \in Nat
  BY DEF QueueInv, TypeOK
<1> HIDE DEF open
<1>5. \A i \in open : place[i] \in Nat /\ 1 <= place[i] /\ place[i] <= count
  BY <1>3
<1>6. /\ ordinal' \in [Items -> Nat]
      /\ \A i \in Items : i \in open => ordinal'[i] = next + place[i]
      /\ \A i \in Items : i \notin open => ordinal'[i] = ordinal[i]
  BY <1>2, <1>4, <1>5
<1>7. \A j \in Items : /\ status'[j] = "none" <=> status[j] = "none"
                       /\ status'[j] = "delivered" <=> status[j] = "delivered"
                       /\ status'[j] = "queued" => status[j] = "queued"
  BY <1>1, ExpiryFacts DEF Pending
<1>8. NotHeld({j \in Items : status'[j] # status[j]})
  BY <1>1 DEF NotHeld
<1>9. StartedIsDelivered' /\ WriterIsNew' /\ HeldAreQueued' /\ FailureHolds'
  BY <1>1, <1>7, <1>8, OwnerChanges
<1>10. OrdinalsDistinct'
  <2>1. \A i \in Items : status'[i] # "none" /\ i \notin open => ordinal'[i] < next
    BY <1>6, <1>7 DEF QueueInv, OrdinalsDistinct
  <2>2. \A i \in Items : i \in open => next < ordinal'[i] /\ ordinal'[i] < next'
    BY <1>1, <1>4, <1>5, <1>6
  <2>3. \A i \in Items : status'[i] # "none" => ordinal'[i] < next'
    BY <1>1, <1>4, <1>6, <2>1, <2>2
  <2>4. ASSUME NEW i \in Items, NEW j \in Items, status'[i] # "none", status'[j] # "none",
               ordinal'[i] = ordinal'[j]
        PROVE  i = j
    <3>1. CASE i \in open /\ j \in open
      BY <1>3, <1>4, <1>5, <1>6, <2>4, <3>1
    <3>2. CASE i \notin open /\ j \notin open
      BY <1>6, <1>7, <2>4, <3>2 DEF QueueInv, OrdinalsDistinct
    <3>3. (i \in open) <=> (j \in open)
      BY <1>4, <1>6, <2>1, <2>2, <2>4
    <3> QED
      BY <3>1, <3>2, <3>3
  <2> QED
    BY <2>3, <2>4 DEF OrdinalsDistinct
<1>11. TypeOK'
  BY <1>1, <1>4, <1>6 DEF QueueInv, TypeOK, counters, StatusType
<1> QED
  BY <1>9, <1>10, <1>11 DEF QueueInv

-----------------------------------------------------------------------------
(* The theorems.                                                             *)

\* Every step keeps the invariant.
LEMMA NextInv == QueueInv /\ [Next]_vars => QueueInv'
<1> SUFFICES ASSUME QueueInv, [Next]_vars PROVE QueueInv'
    OBVIOUS
<1>1. CASE IdleSweep \/ CompleteTurn \/ InterruptTurn
  BY <1>1, SweepStep, CompleteStep, InterruptStep
<1>2. CASE WaitForUser \/ LoseWorker \/ AnswerWait \/ ExpireWait \/ StartTurn \/ StopTurn
  BY <1>2, TurnSteps
<1>3. CASE StopCommit \/ RemoveAccess \/ ExpireItems \/ Reorder
  BY <1>3, StopCommitStep, OutsideSteps, ExpireItemsStep, ReorderStep
<1>4. ASSUME NEW i \in Items, EnqueueRead(i) \/ EnqueueLock(i) \/ Enqueue(i) \/ EnqueueAbort(i) \/ TimePasses(i)
      PROVE  QueueInv'
  BY <1>4, EnqueueOpens, EnqueueCommits, OutsideSteps DEF Enqueue
<1>5. ASSUME NEW i \in Items, NEW value \in {"queued", "paused", "cancelled"}, Update(i, value)
      PROVE  QueueInv'
  BY <1>5, UpdateStep
<1>6. CASE UNCHANGED vars
  <2>1. TypeOK'
    BY <1>6 DEF QueueInv, TypeOK, vars, counters
  <2>2. OrdinalsDistinct' /\ StartedIsDelivered' /\ WriterIsNew' /\ HeldAreQueued' /\ FailureHolds'
    BY <1>6 DEF QueueInv, OrdinalsDistinct, StartedIsDelivered, WriterIsNew, HeldAreQueued,
                FailureHolds, InStatus, Open, vars
  <2> QED
    BY <2>1, <2>2 DEF QueueInv
<1> QED
  BY <1>1, <1>2, <1>3, <1>4, <1>5, <1>6 DEF Next

\* The inductive invariant holds throughout.
THEOREM Invariance == Spec => []QueueInv
BY InitInv, NextInv, PTL DEF Spec

\* Rows, turn, cancellation and history keep their types.
THEOREM TypeCorrect == Spec => []TypeOK
<1>1. QueueInv => TypeOK
  BY DEF QueueInv
<1> QED
  BY <1>1, Invariance, PTL

\* A prompt becomes at most one turn, whatever is edited, reordered, expired,
\* stopped or promoted, and by whichever of the two promoters.
THEOREM AtMostOneTurn == Spec => []DeliveredOnce
<1>1. QueueInv => DeliveredOnce
  BY DEF QueueInv, StartedIsDelivered, DeliveredOnce
<1> QED
  BY <1>1, Invariance, PTL

\* Only a promotion starts a turn for a prompt, and only for a candidate.
LEMMA WhoStarts ==
    ASSUME QueueInv, Next, NEW i \in Items, starts'[i] > starts[i]
    PROVE  /\ i \in Candidates
           /\ CompleteTurn \/ (IdleSweep /\ turn = "none")
<1>0. starts[i] \in Nat
  BY DEF QueueInv, TypeOK
<1>1. starts' # starts
  BY <1>0
<1>2. IdleSweep \/ CompleteTurn
  BY <1>1 DEF Next, InterruptTurn, WaitForUser, LoseWorker, AnswerWait, ExpireWait, StopTurn, StopCommit, StartTurn,
              RemoveAccess, ExpireItems, Reorder, EnqueueRead, EnqueueLock, Enqueue, EnqueueReserve, EnqueueCommit,
              EnqueueAbort, TimePasses, Update
<1>3. Promote /\ (CompleteTurn \/ (IdleSweep /\ turn = "none"))
  BY <1>1, <1>2 DEF IdleSweep, CompleteTurn, Sweepable
<1>4. Promoted(i)
  BY <1>3, PromoteFacts
<1>5. Started(i)
  BY <1>0, <1>4 DEF Promoted, Unstarted
<1> QED
  BY <1>3, <1>5 DEF Started

\* No prompt starts before one that the user put ahead of it and that is still
\* to be delivered.
THEOREM StartsInOrder == Spec => InOrder
<1> DEFINE Ordered == \A i \in Items : starts'[i] > starts[i] =>
                         \A j \in Open : j = i \/ Before(i, j)
<1>1. QueueInv /\ [Next]_vars => [Ordered]_vars
  <2> SUFFICES ASSUME QueueInv, Next, NEW i \in Items, starts'[i] > starts[i], NEW j \in Open, j # i
               PROVE  Before(i, j)
    OBVIOUS
  <2>1. i \in Candidates
    BY WhoStarts
  <2>2. ~Before(j, i) /\ j \in Items /\ status[i] # "none" /\ status[j] # "none"
    BY <2>1 DEF Candidates, InStatus, Open, Pending
  <2>3. ordinal[i] \in Nat /\ ordinal[j] \in Nat /\ ordinal[i] # ordinal[j]
    BY <2>2 DEF QueueInv, TypeOK, OrdinalsDistinct
  <2> QED
    BY <2>2, <2>3 DEF Before
<1> HIDE DEF Ordered
<1>2. Spec => [][Ordered]_vars
  BY <1>1, Invariance, PTL DEF Spec
<1> QED
  BY <1>2 DEF InOrder, Ordered

\* After a turn that the worker ended without an answer no prompt starts unless
\* the user queued it again or its enqueue had read the turn before it failed.
THEOREM FailureHoldsTheQueue == Spec => InterruptionHoldsQueue
<1> DEFINE Held == \A i \in Items : starts'[i] > starts[i] /\ last' = "failed" => i \in resumed \cup late
<1>1. QueueInv /\ [Next]_vars => [Held]_vars
  <2> SUFFICES ASSUME QueueInv, Next, NEW i \in Items, starts'[i] > starts[i], last' = "failed"
               PROVE  i \in resumed \cup late
    OBVIOUS
  <2>1. i \in Candidates /\ IdleSweep /\ turn = "none"
    BY WhoStarts DEF CompleteTurn
  <2>2. last = "failed" /\ i \in InStatus(Open, "queued")
    BY <2>1 DEF IdleSweep, Candidates
  <2> QED
    BY <2>1, <2>2 DEF QueueInv, FailureHolds
<1> HIDE DEF Held
<1>2. Spec => [][Held]_vars
  BY <1>1, Invariance, PTL DEF Spec
<1> QED
  BY <1>2 DEF InterruptionHoldsQueue, Held
=============================================================================
