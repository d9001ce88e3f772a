-------------------------- MODULE OutboxRefinement --------------------------
(***************************************************************************)
(* RuntimeOutbox implements OutboxContract: every statement of a            *)
(* dispatcher, the queue, a worker or a producer is one contract step or    *)
(* none.                                                                    *)
(***************************************************************************)
EXTENDS RuntimeOutboxProofs

\* What a step that leaves the abstract state alone leaves alone.
LEMMA BarsUnchanged ==
    ASSUME UNCHANGED <<completed, dead, withdrawn, attempts, sent, seen>>
    PROVE  UNCHANGED <<statusBar, triesBar, sentBar, gotBar>>
  BY DEF statusBar, triesBar, sentBar, gotBar

\* The rows as inserted are the contract's initial state.
LEMMA InitImplements == Init => Contract!Init
  BY RowsAssumption DEF Init, Contract!Init, statusBar, triesBar, sentBar, gotBar, Receipts,
     NeedsReceipt

\* A step that only closes, reopens or dead-letters rows maps to a status change.
LEMMA StatusStep ==
    ASSUME OutboxInv,
           UNCHANGED <<attempts, sent, seen>>
    PROVE  UNCHANGED <<triesBar, sentBar, gotBar>>
  BY DEF triesBar, sentBar, gotBar

\* enqueuePendingFinalizations is the contract's Reopen.
LEMMA ReopenImplements ==
    ASSUME OutboxInv, NEW d \in Dispatchers, ReopenFinalizations(d)
    PROVE  Contract!Next
  <1> DEFINE S == {r \in Finalizers : completed[r] /\ r \notin begun}
  <1>1. UNCHANGED <<triesBar, sentBar, gotBar>>
    BY StatusStep DEF ReopenFinalizations, queueVars
  <1>2. S \in SUBSET Receipts /\ S \subseteq Finalizers
    BY RowsAssumption DEF Receipts, NeedsReceipt
  <1>3. statusBar' = [i \in Receipts |-> IF i \in S THEN "open" ELSE statusBar[i]]
    BY RowsAssumption DEF ReopenFinalizations, statusBar, Receipts, NeedsReceipt,
       OutboxInv, TypeOK
  <1>4. Contract!Reopen(S)
    BY <1>1, <1>2, <1>3 DEF Contract!Reopen, Contract!SetStatus
  <1> QED
    BY <1>2, <1>4 DEF Contract!Next

\* deadLetterExhaustedReceipts is the contract's DeadLetter.
LEMMA DeadLetterImplements ==
    ASSUME OutboxInv, NEW d \in Dispatchers, DeadLetterExhaustedReceipts(d)
    PROVE  Contract!Next
  <1> DEFINE S == {r \in NeedsReceipt : Due(r) /\ Exhausted(attempts[r])}
  <1>1. UNCHANGED <<triesBar, sentBar, gotBar>>
    BY StatusStep DEF DeadLetterExhaustedReceipts, queueVars, historyVars
  <1>2. S \in SUBSET Receipts
    BY DEF Receipts
  <1>3. statusBar' = [i \in Receipts |-> IF i \in S THEN "dead" ELSE statusBar[i]]
    BY RowsAssumption DEF DeadLetterExhaustedReceipts, Close, statusBar, Receipts,
       NeedsReceipt, historyVars, OutboxInv, TypeOK
  <1>4. Contract!Open(S) /\ \A i \in S : triesBar[i] >= MaxAttempts
    BY DEF Contract!Open, statusBar, triesBar, Due, Exhausted, Receipts
  <1>5. Contract!DeadLetter(S)
    BY <1>1, <1>3, <1>4 DEF Contract!DeadLetter, Contract!SetStatus
  <1> QED
    BY <1>2, <1>5 DEF Contract!Next

\* The claim is the contract's Attempt of the receipt rows it takes: what was
\* received before is not the new attempt.
LEMMA ClaimImplements ==
    ASSUME OutboxInv, NEW d \in Dispatchers, Claim(d)
    PROVE  Contract!Next
  <1>1. PICK Q \in SUBSET Claimable :
            /\ attempts' = [r \in Rows |-> IF r \in Q THEN attempts[r] + 1 ELSE attempts[r]]
            /\ UNCHANGED <<completed, dead, withdrawn, sent, seen>>
    BY DEF Claim, queueVars, historyVars
  <1> DEFINE S == Q \cap NeedsReceipt
  <1>2. S \in SUBSET Receipts
    BY DEF Receipts
  <1>3. UNCHANGED <<statusBar, sentBar>>
    BY <1>1 DEF statusBar, sentBar
  <1>4. triesBar' = [i \in Receipts |-> IF i \in S THEN triesBar[i] + 1 ELSE triesBar[i]]
    BY <1>1, RowsAssumption DEF triesBar, Receipts, NeedsReceipt
  <1>5. gotBar' = gotBar
    <2>1. ASSUME NEW r \in Receipts, NEW n \in Nat, <<r, n>> \in seen
          PROVE  n <= attempts[r] /\ attempts[r] <= attempts'[r]
      BY <1>1, <2>1, RowsAssumption DEF OutboxInv, TypeOK, CopiesAreOld, Old, Copy,
         Receipts, NeedsReceipt
    <2>2. \A r \in Receipts : attempts[r] \in Nat /\ attempts'[r] \in Nat
      BY <1>1, RowsAssumption DEF OutboxInv, TypeOK, Receipts, NeedsReceipt
    <2>3. ASSUME NEW r \in Receipts
          PROVE  {n \in 1 .. attempts[r] : <<r, n>> \in seen}
                   = {n \in 1 .. attempts'[r] : <<r, n>> \in seen}
      BY <2>1, <2>2, <1>1, RowsAssumption DEF Receipts, NeedsReceipt, OutboxInv, TypeOK
    <2> QED
      BY <1>1, <2>3 DEF gotBar
  <1>6. Contract!Open(S) /\ \A i \in S : triesBar[i] < MaxAttempts
    BY RowsAssumption, BoundsAssumption DEF Contract!Open, statusBar, triesBar, Claimable,
       Due, Exhausted, Receipts, NeedsReceipt, OutboxInv, TypeOK
  <1>7. Contract!Attempt(S)
    BY <1>3, <1>4, <1>5, <1>6 DEF Contract!Attempt
  <1> QED
    BY <1>2, <1>7 DEF Contract!Next

\* prepare is the contract's Withdraw of the superseded snapshots.
LEMMA PrepareImplements ==
    ASSUME OutboxInv, NEW d \in Dispatchers, Prepare(d)
    PROVE  Contract!Next
  <1>1. PICK c \in held[d], ok \in BOOLEAN :
          LET S == {r \in Rows : /\ ok /\ c.row \in Finalizers /\ r \in Supersedes[c.row]
                                 /\ ~completed[r]} IN
          /\ completed' = [r \in Rows |-> completed[r] \/ r \in S]
          /\ withdrawn' = withdrawn \cup S
          /\ UNCHANGED <<dead, attempts, sent, seen>>
    BY DEF Prepare, Close, queueVars
  <1> DEFINE S == {r \in Rows : /\ ok /\ c.row \in Finalizers /\ r \in Supersedes[c.row]
                                /\ ~completed[r]}
  <1>2. S \in SUBSET Receipts /\ S \in SUBSET Rows
    BY RowsAssumption DEF Receipts, NeedsReceipt
  <1>3. UNCHANGED <<triesBar, sentBar, gotBar>>
    BY <1>1, StatusStep
  <1>4. \A r \in S : ~completed[r] /\ ~dead[r]
    BY RowsAssumption DEF OutboxInv, DeadLetterIsLastResort
  <1>5. statusBar' = [i \in Receipts |-> IF i \in S THEN "withdrawn" ELSE statusBar[i]]
    <2> HIDE DEF S
    <2>1. /\ completed' = [r \in Rows |-> completed[r] \/ r \in S]
          /\ withdrawn' = withdrawn \cup S /\ UNCHANGED dead
      BY <1>1 DEF S
    <2> QED
      BY <1>2, <1>4, <2>1, RowsAssumption DEF statusBar, Receipts, NeedsReceipt
  <1>6. Contract!Open(S)
    BY <1>2, <1>4 DEF Contract!Open, statusBar
  <1>7. Contract!Withdraw(S)
    BY <1>3, <1>5, <1>6 DEF Contract!Withdraw, Contract!SetStatus
  <1> QED
    BY <1>2, <1>7 DEF Contract!Next

\* A job of a receipt row that enters the queue publishes its attempt.
LEMMA EnqueueImplements ==
    ASSUME OutboxInv, NEW d \in Dispatchers, Enqueue(d)
    PROVE  Contract!Next \/ UNCHANGED <<statusBar, triesBar, sentBar, gotBar>>
  <1>1. PICK c \in cur[d] :
          /\ c.row \notin Malformed
          /\ sent' = IF OutboxJobId(c) \notin ids THEN sent \cup {c} ELSE sent
          /\ UNCHANGED <<completed, dead, withdrawn, attempts, seen>>
    BY DEF Enqueue, rowVars, historyVars
  <1>2. /\ c \in Copy /\ c.attempt \in 1 .. attempts[c.row]
        /\ c.row \in Receipts => attempts[c.row] <= MaxAttempts
    BY DEF OutboxInv, TypeOK, CopiesAreOld, Copies, Old, Receipts, Copy
  <1>3. UNCHANGED <<statusBar, triesBar, gotBar>>
    BY <1>1 DEF statusBar, triesBar, gotBar
  <1>4. CASE OutboxJobId(c) \in ids
    BY <1>1, <1>3, <1>4 DEF sentBar
  <1>5. CASE OutboxJobId(c) \notin ids /\ c.row \notin Receipts
    <2>1. \A r \in Receipts : {j \in sent' : j.row = r} = {j \in sent : j.row = r}
      BY <1>1, <1>5
    <2> QED
      BY <1>3, <2>1 DEF sentBar
  <1>6. CASE OutboxJobId(c) \notin ids /\ c.row \in Receipts
    <2>1. sentBar' = [sentBar EXCEPT ![c.row] = @ \cup {c.attempt}]
      BY <1>1, <1>6 DEF sentBar
    <2>2. Contract!Publish(c.row, c.attempt)
      BY <1>1, <1>2, <1>3, <1>6, <2>1 DEF Contract!Publish, triesBar, Receipts
    <2>3. c.attempt \in 1 .. MaxAttempts
      BY <1>2, <1>6, RowsAssumption, BoundsAssumption
      DEF Copy, Receipts, NeedsReceipt, OutboxInv, TypeOK
    <2> QED
      BY <1>6, <2>2, <2>3 DEF Contract!Next
  <1> QED
    BY <1>4, <1>5, <1>6

\* Deferring a receipt row, or completing another, is no step of the contract.
LEMMA RecordImplements ==
    ASSUME OutboxInv, NEW d \in Dispatchers, Record(d)
    PROVE  UNCHANGED <<statusBar, triesBar, sentBar, gotBar>>
  <1>1. UNCHANGED <<triesBar, sentBar, gotBar>>
    BY StatusStep DEF Record, queueVars, historyVars
  <1>2. UNCHANGED <<dead, withdrawn>> /\ \A r \in Receipts : completed'[r] = completed[r]
    BY RowsAssumption DEF Record, historyVars, Receipts, NeedsReceipt, OutboxInv, TypeOK
  <1> QED
    BY <1>1, <1>2 DEF statusBar

\* fail dead-letters a receipt row or leaves it open.
LEMMA FailImplements ==
    ASSUME OutboxInv, NEW d \in Dispatchers, Fail(d)
    PROVE  Contract!Next
  <1>1. PICK c \in cur[d] :
          LET Q == {r \in {c.row} : Fenced(d, c)}
              D == {r \in Q : r \in Malformed \/ Exhausted(c.attempt)} IN
          /\ completed' = [r \in Rows |-> r \in D \/ (completed[r] /\ r \notin Q)]
          /\ dead' = [r \in Rows |-> r \in D \/ (dead[r] /\ r \notin Q)]
          /\ UNCHANGED <<attempts, withdrawn, sent, seen>>
    BY DEF Fail, queueVars, historyVars
  <1> DEFINE Q == {r \in {c.row} : Fenced(d, c)}
             S == {r \in Q \cap Receipts : r \in Malformed \/ Exhausted(c.attempt)}
  <1>2. S \in SUBSET Receipts
    OBVIOUS
  <1>3. UNCHANGED <<triesBar, sentBar, gotBar>>
    BY <1>1, StatusStep
  <1>4. c \in Copy /\ \A r \in Q : r = c.row /\ ~completed[r] /\ ~dead[r]
    BY DEF OutboxInv, TypeOK, Fenced
  <1>5. statusBar' = [i \in Receipts |-> IF i \in S THEN "dead" ELSE statusBar[i]]
    BY <1>1, <1>4, RowsAssumption DEF statusBar, Receipts, NeedsReceipt, OutboxInv,
       TypeOK
  <1>6. Contract!Open(S)
    BY <1>2, <1>4 DEF Contract!Open, statusBar
  <1>7. \A i \in S \ (Malformed \cap Receipts) : triesBar[i] >= MaxAttempts
    BY <1>4 DEF triesBar, Exhausted, Fenced, OutboxInv, CopiesAreOld, Copies, Old, Copy
  <1>8. Contract!DeadLetter(S)
    BY <1>3, <1>5, <1>6, <1>7 DEF Contract!DeadLetter, Contract!SetStatus
  <1> QED
    BY <1>2, <1>8 DEF Contract!Next

\* A job in the queue is an attempt its row has made and the contract allows.
LEMMA QueuedIsSent ==
    ASSUME OutboxInv, NEW c \in queue, c.row \in NeedsReceipt
    PROVE  /\ c \in Copy /\ c.row \in Receipts /\ c.epoch = c.attempt
           /\ c.epoch \in 1 .. attempts[c.row] /\ c.epoch \in 1 .. MaxAttempts
           /\ attempts[c.row] = epoch[c.row]
           /\ c.epoch \in sentBar[c.row]
  <1>1. c \in Copy /\ c \in sent /\ c.row \in Receipts
    BY DEF OutboxInv, TypeOK, CopiesAreOld, Receipts
  <1>2. /\ c.epoch = c.attempt /\ c.epoch \in 1 .. attempts[c.row]
        /\ attempts[c.row] = epoch[c.row] /\ attempts[c.row] <= MaxAttempts
    BY <1>1 DEF OutboxInv, CopiesAreOld, Old, Receipts, Copy
  <1>3. c.epoch \in 1 .. MaxAttempts
    BY <1>1, <1>2, BoundsAssumption DEF OutboxInv, TypeOK, Copy
  <1> QED
    BY <1>1, <1>2, <1>3 DEF sentBar

\* A worker that starts a delivery receives it; only the newest closes the row.
LEMMA StartImplements ==
    ASSUME OutboxInv, NEW c \in queue, Start(c)
    PROVE  Contract!Next
  <1> DEFINE S == {r \in {c.row} : Acknowledges(c)}
  <1>1. /\ c.row \in NeedsReceipt
        /\ completed' = [r \in Rows |-> completed[r] \/ r \in S]
        /\ seen' = seen \cup {<<c.row, c.epoch>>}
        /\ UNCHANGED <<dead, attempts, withdrawn, sent>>
    BY DEF Start, Close, NeedsReceipt, queueVars
  <1>2. /\ c.row \in Receipts /\ c.epoch \in 1 .. attempts[c.row]
        /\ c.epoch \in 1 .. MaxAttempts /\ attempts[c.row] = epoch[c.row]
        /\ c.epoch \in sentBar[c.row]
    BY <1>1, QueuedIsSent
  <1>3. UNCHANGED <<triesBar, sentBar>>
    BY <1>1 DEF triesBar, sentBar
  <1>4. gotBar' = [gotBar EXCEPT ![c.row] = @ \cup {c.epoch}]
    BY <1>1, <1>2 DEF gotBar
  <1>5. CASE Acknowledges(c)
    <2>1. /\ ~completed[c.row] /\ ~dead[c.row] /\ c.row \notin withdrawn
          /\ c.epoch = triesBar[c.row] /\ statusBar[c.row] = "open"
      BY <1>2, <1>5 DEF Acknowledges, triesBar, statusBar, OutboxInv, WithdrawnIsClosed
    <2>2. statusBar' = [i \in Receipts |-> IF i \in {c.row} THEN "done" ELSE statusBar[i]]
      BY <1>1, <1>5, <2>1, RowsAssumption DEF statusBar, Receipts, NeedsReceipt
    <2>3. Contract!Receive(c.row, c.epoch, TRUE)
      BY <1>2, <1>3, <1>4, <2>1, <2>2 DEF Contract!Receive, Contract!SetStatus
    <2> QED
      BY <1>2, <2>3 DEF Contract!Next
  <1>6. CASE ~Acknowledges(c)
    <2>1. statusBar' = statusBar
      BY <1>1, <1>6, RowsAssumption DEF statusBar, Receipts, NeedsReceipt, OutboxInv, TypeOK
    <2>2. Contract!Receive(c.row, c.epoch, FALSE)
      BY <1>2, <1>3, <1>4, <2>1 DEF Contract!Receive
    <2> QED
      BY <1>2, <2>2 DEF Contract!Next
  <1> QED
    BY <1>5, <1>6

\* The work of a file job receives its attempt and closes nothing.
LEMMA WorkImplements ==
    ASSUME OutboxInv, NEW c \in queue, Work(c)
    PROVE  Contract!Next
  <1>1. /\ c.row \in NeedsReceipt /\ seen' = seen \cup {<<c.row, c.epoch>>}
        /\ UNCHANGED <<completed, dead, attempts, withdrawn, sent>>
    BY DEF Work, NeedsReceipt, rowVars, queueVars
  <1>2. /\ c.row \in Receipts /\ c.epoch \in 1 .. attempts[c.row]
        /\ c.epoch \in 1 .. MaxAttempts /\ c.epoch \in sentBar[c.row]
    BY <1>1, QueuedIsSent
  <1>3. UNCHANGED <<statusBar, triesBar, sentBar>>
    BY <1>1 DEF statusBar, triesBar, sentBar
  <1>4. gotBar' = [gotBar EXCEPT ![c.row] = @ \cup {c.epoch}]
    BY <1>1, <1>2 DEF gotBar
  <1>5. Contract!Receive(c.row, c.epoch, FALSE)
    BY <1>2, <1>3, <1>4 DEF Contract!Receive
  <1> QED
    BY <1>2, <1>5 DEF Contract!Next

\* The receipt of a file job closes the row with the attempt received before.
LEMMA AcknowledgeWorkImplements ==
    ASSUME OutboxInv, NEW c \in queue, AcknowledgeWork(c)
    PROVE  Contract!Next
  <1>1. /\ c.row \in NeedsReceipt /\ <<c.row, c.epoch>> \in seen /\ Acknowledges(c)
        /\ completed' = [r \in Rows |-> completed[r] \/ r \in {c.row}]
        /\ UNCHANGED <<dead, attempts, withdrawn, sent, seen>>
    BY DEF AcknowledgeWork, Close, NeedsReceipt, queueVars, historyVars
  <1>2. /\ c.row \in Receipts /\ c.epoch \in 1 .. attempts[c.row]
        /\ c.epoch \in 1 .. MaxAttempts /\ attempts[c.row] = epoch[c.row]
        /\ c.epoch \in sentBar[c.row]
    BY <1>1, QueuedIsSent
  <1>3. UNCHANGED <<triesBar, sentBar, gotBar>>
    BY <1>1, StatusStep
  <1>4. gotBar' = [gotBar EXCEPT ![c.row] = @ \cup {c.epoch}]
    BY <1>1, <1>2, <1>3 DEF gotBar
  <1>5. /\ ~completed[c.row] /\ ~dead[c.row] /\ c.row \notin withdrawn
        /\ c.epoch = triesBar[c.row] /\ statusBar[c.row] = "open"
    BY <1>1, <1>2 DEF Acknowledges, triesBar, statusBar, OutboxInv, WithdrawnIsClosed
  <1>6. statusBar' = [i \in Receipts |-> IF i \in {c.row} THEN "done" ELSE statusBar[i]]
    BY <1>1, <1>5, RowsAssumption DEF statusBar, Receipts, NeedsReceipt
  <1>7. Contract!Receive(c.row, c.epoch, TRUE)
    BY <1>2, <1>3, <1>4, <1>5, <1>6 DEF Contract!Receive, Contract!SetStatus
  <1> QED
    BY <1>2, <1>7 DEF Contract!Next

\* The end of a run is the contract's Withdraw of one row.
LEMMA WithdrawImplements ==
    ASSUME OutboxInv, NEW r \in Rows, Withdraw(r)
    PROVE  Contract!Next
  <1>1. /\ r \in StartReceipt /\ r \in NeedsReceipt /\ ~completed[r]
        /\ completed' = [q \in Rows |-> completed[q] \/ q \in {r}]
        /\ withdrawn' = withdrawn \cup {r}
        /\ UNCHANGED <<dead, attempts, sent, seen>>
    BY DEF Withdraw, Close, NeedsReceipt, queueVars
  <1>2. {r} \in SUBSET Receipts /\ ~dead[r]
    BY <1>1, RowsAssumption DEF Receipts, OutboxInv, DeadLetterIsLastResort
  <1>3. UNCHANGED <<triesBar, sentBar, gotBar>>
    BY <1>1, StatusStep
  <1>4. statusBar' = [i \in Receipts |-> IF i \in {r} THEN "withdrawn" ELSE statusBar[i]]
    BY <1>1, <1>2, RowsAssumption DEF statusBar, Receipts, NeedsReceipt
  <1>5. Contract!Withdraw({r})
    BY <1>1, <1>2, <1>3, <1>4 DEF Contract!Withdraw, Contract!SetStatus, Contract!Open, statusBar
  <1> QED
    BY <1>2, <1>5 DEF Contract!Next

\* A producer's upsert reopens the row, or leaves it open or dead; the API's
\* cancellation withdraws an open row and leaves a dead letter dead.
LEMMA ProducersImplement ==
    ASSUME OutboxInv, Producers
    PROVE  Contract!Next \/ UNCHANGED <<statusBar, triesBar, sentBar, gotBar>>
  <1> USE RowsAssumption DEF OutboxInv, TypeOK, Receipts, NeedsReceipt
  <1>1. UNCHANGED <<triesBar, sentBar, gotBar>>
    BY StatusStep DEF Producers, Upsert, UpsertDuplicate, UpsertWatchdog, CancelDeletion,
       Reopen, queueVars
  <1>2. ASSUME NEW r \in Rows, r \in Upserted, withdrawn' = withdrawn \ {r},
               completed' = [completed EXCEPT ![r] = FALSE],
               dead' = dead \/ dead' = [dead EXCEPT ![r] = FALSE]
        PROVE  Contract!Next \/ UNCHANGED statusBar
    <2> DEFINE S == {q \in {r} \cap Receipts : ~dead'[q]}
    <2>1. S \in SUBSET Receipts /\ S \subseteq Finalizers \cup (Upserted \cap Receipts)
      BY <1>2
    <2>2. statusBar' = [i \in Receipts |-> IF i \in S THEN "open" ELSE statusBar[i]]
      <3>1. ASSUME NEW i \in Receipts, i # r PROVE statusBar'[i] = statusBar[i]
        BY <1>2, <3>1 DEF statusBar
      <3>2. ASSUME r \in Receipts, ~dead'[r] PROVE statusBar'[r] = "open"
        BY <1>2, <3>2 DEF statusBar
      <3>3. ASSUME r \in Receipts, dead'[r] PROVE statusBar'[r] = statusBar[r]
        BY <1>2, <3>3 DEF statusBar
      <3>4. statusBar' = [i \in Receipts |-> statusBar'[i]]
        BY DEF statusBar
      <3>5. ASSUME NEW i \in Receipts
            PROVE  statusBar'[i] = IF i \in S THEN "open" ELSE statusBar[i]
        BY <3>1, <3>2, <3>3
      <3> HIDE DEF S
      <3> QED
        BY <3>4, <3>5
    <2>3. Contract!Reopen(S)
      BY <1>1, <2>1, <2>2 DEF Contract!Reopen, Contract!SetStatus
    <2> QED
      BY <2>1, <2>3 DEF Contract!Next
  <1>3. ASSUME NEW r \in Rows, Upsert(r) \/ UpsertDuplicate(r)
        PROVE  Contract!Next \/ UNCHANGED statusBar
    BY <1>2, <1>3 DEF Upsert, UpsertDuplicate, Reopen
  <1>4. ASSUME NEW c \in queue, UpsertWatchdog(c)
        PROVE  Contract!Next \/ UNCHANGED statusBar
    <2>1. c.row \in Rows
      BY DEF Copy
    <2> QED
      BY <1>2, <1>4, <2>1 DEF UpsertWatchdog, Reopen
  <1>5. ASSUME NEW r \in Rows, CancelDeletion(r)
        PROVE  Contract!Next \/ UNCHANGED statusBar
    <2>1. /\ r \in Receipts /\ ~completed[r] /\ UNCHANGED dead
          /\ completed' = [completed EXCEPT ![r] = TRUE]
          /\ withdrawn' = withdrawn \cup {r}
      BY <1>5 DEF CancelDeletion
    <2>2. CASE dead[r]
      BY <2>1, <2>2 DEF statusBar
    <2>3. CASE ~dead[r]
      <3>1. statusBar' = [i \in Receipts |-> IF i \in {r} THEN "withdrawn" ELSE statusBar[i]]
        BY <2>1, <2>3 DEF statusBar
      <3>2. Contract!Withdraw({r})
        BY <1>1, <2>1, <2>3, <3>1
        DEF Contract!Withdraw, Contract!SetStatus, Contract!Open, statusBar
      <3> QED
        BY <2>1, <3>2 DEF Contract!Next
    <2> QED
      BY <2>2, <2>3
  <1> QED
    BY <1>1, <1>3, <1>4, <1>5 DEF Producers

\* Every step of the outbox is a step of the contract or changes nothing in it.
LEMMA NextImplements ==
    OutboxInv /\ [Next]_vars => [Contract!Next]_<<statusBar, triesBar, sentBar, gotBar>>
  <1> SUFFICES ASSUME OutboxInv, [Next]_vars
               PROVE  Contract!Next \/ UNCHANGED <<statusBar, triesBar, sentBar, gotBar>>
    OBVIOUS
  <1>1. ASSUME NEW d \in Dispatchers, Cycle(d)
        PROVE  Contract!Next \/ UNCHANGED <<statusBar, triesBar, sentBar, gotBar>>
    BY <1>1, ReopenImplements, DeadLetterImplements, ClaimImplements, PrepareImplements,
       EnqueueImplements, RecordImplements, FailImplements DEF Cycle
  <1>2. ASSUME NEW d \in Dispatchers, Abort(d)
        PROVE  UNCHANGED <<statusBar, triesBar, sentBar, gotBar>>
    BY <1>2, BarsUnchanged DEF Abort, rowVars, queueVars, historyVars
  <1>3. CASE Timers
    BY <1>3, BarsUnchanged DEF Timers, ExpireLease, Elapse, queueVars, historyVars
  <1>4. ASSUME NEW c \in queue, Leave(c)
        PROVE  UNCHANGED <<statusBar, triesBar, sentBar, gotBar>>
    BY <1>4, BarsUnchanged DEF Leave, rowVars, historyVars
  <1>5. CASE Worker
    BY <1>4, <1>5, StartImplements, WorkImplements, AcknowledgeWorkImplements DEF Worker
  <1>6. CASE UNCHANGED vars
    BY <1>6, BarsUnchanged DEF vars, rowVars, queueVars, historyVars
  <1> QED
    BY <1>1, <1>2, <1>3, <1>5, <1>6, WithdrawImplements, ProducersImplement DEF Next

\* The outbox implements its contract, for any rows, dispatchers and bounds.
THEOREM OutboxImplementsContract == Spec => ContractSpec
  <1>1. Init => Contract!Init
    BY InitImplements
  <1>2. OutboxInv /\ [Next]_vars => [Contract!Next]_Contract!contractVars
    BY NextImplements DEF Contract!contractVars
  <1> QED
    BY <1>1, <1>2, OutboxInvariant, PTL DEF Spec, ContractSpec, Contract!Spec
=============================================================================
