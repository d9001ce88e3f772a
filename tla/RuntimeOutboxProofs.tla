------------------------ MODULE RuntimeOutboxProofs ------------------------
(***************************************************************************)
(* Safety of the outbox for any rows, dispatchers and bounds.               *)
(***************************************************************************)
EXTENDS RuntimeOutbox, TLAPS

\* The types hold initially.
LEMMA InitTypeOK == Init => TypeOK
  BY OwnerAssumption DEF Init, TypeOK

\* Every operation keeps the types, and a row has a lease owner exactly while
\* it has a lease.
LEMMA NextTypeOK == TypeOK /\ [Next]_vars => TypeOK'
  <1> USE RowsAssumption, OwnerAssumption DEF TypeOK
  <1> SUFFICES ASSUME TypeOK, [Next]_vars PROVE TypeOK'
    OBVIOUS
  <1>1. ASSUME NEW d \in Dispatchers, ReopenFinalizations(d) PROVE TypeOK'
    BY <1>1 DEF ReopenFinalizations, Unlease, queueVars
  <1>2. ASSUME NEW d \in Dispatchers, DeadLetterExhaustedReceipts(d) PROVE TypeOK'
    BY <1>2 DEF DeadLetterExhaustedReceipts, Close, Unlease, queueVars, historyVars
  <1>3. ASSUME NEW d \in Dispatchers, Claim(d) PROVE TypeOK'
    BY <1>3 DEF Claim, Claimable, NextEpoch, Copy, queueVars, historyVars
  <1>4. ASSUME NEW d \in Dispatchers, Prepare(d) PROVE TypeOK'
    BY <1>4 DEF Prepare, Close, Unlease, queueVars
  <1>5. ASSUME NEW d \in Dispatchers, Enqueue(d) PROVE TypeOK'
    BY <1>5 DEF Enqueue, OutboxJobId, Copy, rowVars, historyVars
  <1>6. ASSUME NEW d \in Dispatchers, Record(d) PROVE TypeOK'
    BY <1>6 DEF Record, Advance, Unlease, queueVars, historyVars
  <1>7. ASSUME NEW d \in Dispatchers, Fail(d) PROVE TypeOK'
    BY <1>7 DEF Fail, Advance, Unlease, queueVars, historyVars
  <1>8. ASSUME NEW d \in Dispatchers, Abort(d) PROVE TypeOK'
    BY <1>8 DEF Abort, rowVars, queueVars, historyVars
  <1>9. ASSUME NEW r \in Rows, ExpireLease(r) PROVE TypeOK'
    BY <1>9 DEF ExpireLease, dispatcherVars, queueVars, historyVars
  <1>10. ASSUME NEW r \in Rows, Elapse(r) PROVE TypeOK'
    BY <1>10 DEF Elapse, dispatcherVars, queueVars, historyVars
  <1>11. ASSUME NEW c \in queue, Start(c) PROVE TypeOK'
    BY <1>11 DEF Start, Close, Unlease, Copy, dispatcherVars, queueVars
  <1>12. ASSUME NEW c \in queue, Work(c) PROVE TypeOK'
    BY <1>12 DEF Work, Copy, rowVars, dispatcherVars, queueVars
  <1>13. ASSUME NEW c \in queue, AcknowledgeWork(c) PROVE TypeOK'
    BY <1>13 DEF AcknowledgeWork, Close, Unlease, dispatcherVars, queueVars, historyVars
  <1>14. ASSUME NEW c \in queue, Leave(c) PROVE TypeOK'
    BY <1>14 DEF Leave, rowVars, dispatcherVars, historyVars
  <1>15. ASSUME NEW r \in Rows, Withdraw(r) PROVE TypeOK'
    BY <1>15 DEF Withdraw, Close, Unlease, dispatcherVars, queueVars
  <1>16. CASE Producers
    <2> USE DEF Reopen, dispatcherVars, queueVars
    <2>1. ASSUME NEW r \in Rows, Upsert(r) PROVE TypeOK'
      BY <2>1 DEF Upsert
    <2>2. ASSUME NEW r \in Rows, UpsertDuplicate(r) PROVE TypeOK'
      BY <2>2 DEF UpsertDuplicate
    <2>3. ASSUME NEW c \in queue, UpsertWatchdog(c) PROVE TypeOK'
      BY <2>3 DEF UpsertWatchdog, Unlease
    <2>4. ASSUME NEW r \in Rows, CancelDeletion(r) PROVE TypeOK'
      BY <2>4 DEF CancelDeletion
    <2> QED
      BY <1>16, <2>1, <2>2, <2>3, <2>4 DEF Producers
  <1>17. CASE UNCHANGED vars
    BY <1>17 DEF vars, rowVars, dispatcherVars, queueVars, historyVars
  <1> QED
    BY <1>1, <1>2, <1>3, <1>4, <1>5, <1>6, <1>7, <1>8, <1>9, <1>10, <1>11, <1>12,
       <1>13, <1>14, <1>15, <1>16, <1>17 DEF Next, Cycle, Timers, Worker

\* The columns of runtime_outbox and the dispatchers' local state keep their
\* types, and owner and expiry of a lease are set and cleared together.
THEOREM TypeCorrect == Spec => []TypeOK
  BY InitTypeOK, NextTypeOK, PTL DEF Spec

\* A claim moves epoch and attempts of a row together, beyond every copy of it.
LEMMA NextCopiesAreOld ==
    OutboxInv /\ TypeOK' /\ [Next]_vars => CopiesAreOld'
    <1> USE RowsAssumption, OwnerAssumption, BoundsAssumption DEF OutboxInv, TypeOK,
          CopiesAreOld, Old, Copies, Copy, NeedsReceipt, Exhausted, rowVars,
          dispatcherVars, queueVars, historyVars
  <1> SUFFICES ASSUME OutboxInv, TypeOK', [Next]_vars PROVE CopiesAreOld'
    OBVIOUS
  <1>1. ASSUME NEW d \in Dispatchers, ReopenFinalizations(d) PROVE CopiesAreOld'
    BY <1>1 DEF ReopenFinalizations, Unlease
  <1>2. ASSUME NEW d \in Dispatchers, DeadLetterExhaustedReceipts(d) PROVE CopiesAreOld'
    BY <1>2 DEF DeadLetterExhaustedReceipts, Close, Unlease, Due
  <1>3. ASSUME NEW d \in Dispatchers, Claim(d) PROVE CopiesAreOld'
    BY <1>3 DEF Claim, Claimable, NextEpoch, Due
  <1>4. ASSUME NEW d \in Dispatchers, Prepare(d) PROVE CopiesAreOld'
    BY <1>4 DEF Prepare, Close, Unlease
  <1>5. ASSUME NEW d \in Dispatchers, Enqueue(d) PROVE CopiesAreOld'
    BY <1>5 DEF Enqueue
  <1>6. ASSUME NEW d \in Dispatchers, Record(d) PROVE CopiesAreOld'
    BY <1>6 DEF Record, Advance, Unlease, Fenced
  <1>7. ASSUME NEW d \in Dispatchers, Fail(d) PROVE CopiesAreOld'
    BY <1>7 DEF Fail, Advance, Unlease, Fenced
  <1>8. ASSUME NEW d \in Dispatchers, Abort(d) PROVE CopiesAreOld'
    BY <1>8 DEF Abort
  <1>9. ASSUME NEW r \in Rows, ExpireLease(r) PROVE CopiesAreOld'
    BY <1>9 DEF ExpireLease
  <1>10. ASSUME NEW r \in Rows, Elapse(r) PROVE CopiesAreOld'
    BY <1>10 DEF Elapse
  <1>11. ASSUME NEW c \in queue, Start(c) PROVE CopiesAreOld'
    BY <1>11 DEF Start, Close, Unlease, Acknowledges
  <1>12. ASSUME NEW c \in queue, Work(c) PROVE CopiesAreOld'
    BY <1>12 DEF Work
  <1>13. ASSUME NEW c \in queue, AcknowledgeWork(c) PROVE CopiesAreOld'
    BY <1>13 DEF AcknowledgeWork, Close, Unlease, Acknowledges
  <1>14. ASSUME NEW c \in queue, Leave(c) PROVE CopiesAreOld'
    BY <1>14 DEF Leave
  <1>15. ASSUME NEW r \in Rows, Withdraw(r) PROVE CopiesAreOld'
    BY <1>15 DEF Withdraw, Close, Unlease
  <1>16. CASE Producers
    BY <1>16 DEF Producers, Upsert, UpsertDuplicate, UpsertWatchdog, CancelDeletion, Reopen,
       Unlease
  <1>17. CASE UNCHANGED vars
    BY <1>17 DEF vars
  <1> QED
    BY <1>1, <1>2, <1>3, <1>4, <1>5, <1>6, <1>7, <1>8, <1>9, <1>10, <1>11, <1>12,
       <1>13, <1>14, <1>15, <1>16, <1>17 DEF Next, Cycle, Timers, Worker

\* A new claim is newer than every copy in any dispatcher's hands.
LEMMA NextEpochFencesHolders ==
    OutboxInv /\ TypeOK' /\ CopiesAreOld' /\ [Next]_vars => EpochFencesHolders'
    <1> USE RowsAssumption, OwnerAssumption DEF OutboxInv, TypeOK, CopiesAreOld, Old,
          EpochFencesHolders, Copies, Copy, rowVars, dispatcherVars, queueVars,
          historyVars
  <1> SUFFICES ASSUME OutboxInv, TypeOK', CopiesAreOld', [Next]_vars PROVE EpochFencesHolders'
    OBVIOUS
  <1>1. ASSUME NEW d \in Dispatchers, ReopenFinalizations(d) PROVE EpochFencesHolders'
    BY <1>1 DEF ReopenFinalizations, Unlease
  <1>2. ASSUME NEW d \in Dispatchers, DeadLetterExhaustedReceipts(d) PROVE EpochFencesHolders'
    BY <1>2 DEF DeadLetterExhaustedReceipts, Close, Unlease, Due
  <1>3. ASSUME NEW d \in Dispatchers, Claim(d) PROVE EpochFencesHolders'
    BY <1>3 DEF Claim, Claimable, NextEpoch, Due
  <1>4. ASSUME NEW d \in Dispatchers, Prepare(d) PROVE EpochFencesHolders'
    BY <1>4 DEF Prepare, Close, Unlease
  <1>5. ASSUME NEW d \in Dispatchers, Enqueue(d) PROVE EpochFencesHolders'
    BY <1>5 DEF Enqueue
  <1>6. ASSUME NEW d \in Dispatchers, Record(d) PROVE EpochFencesHolders'
    BY <1>6 DEF Record, Advance, Unlease, Fenced
  <1>7. ASSUME NEW d \in Dispatchers, Fail(d) PROVE EpochFencesHolders'
    BY <1>7 DEF Fail, Advance, Unlease, Fenced
  <1>8. ASSUME NEW d \in Dispatchers, Abort(d) PROVE EpochFencesHolders'
    BY <1>8 DEF Abort
  <1>9. ASSUME NEW r \in Rows, ExpireLease(r) PROVE EpochFencesHolders'
    BY <1>9 DEF ExpireLease
  <1>10. ASSUME NEW r \in Rows, Elapse(r) PROVE EpochFencesHolders'
    BY <1>10 DEF Elapse
  <1>11. ASSUME NEW c \in queue, Start(c) PROVE EpochFencesHolders'
    BY <1>11 DEF Start, Close, Unlease, Acknowledges
  <1>12. ASSUME NEW c \in queue, Work(c) PROVE EpochFencesHolders'
    BY <1>12 DEF Work
  <1>13. ASSUME NEW c \in queue, AcknowledgeWork(c) PROVE EpochFencesHolders'
    BY <1>13 DEF AcknowledgeWork, Close, Unlease, Acknowledges
  <1>14. ASSUME NEW c \in queue, Leave(c) PROVE EpochFencesHolders'
    BY <1>14 DEF Leave
  <1>15. ASSUME NEW r \in Rows, Withdraw(r) PROVE EpochFencesHolders'
    BY <1>15 DEF Withdraw, Close, Unlease
  <1>16. CASE Producers
    BY <1>16 DEF Producers, Upsert, UpsertDuplicate, UpsertWatchdog, CancelDeletion, Reopen,
       Unlease
  <1>17. CASE UNCHANGED vars
    BY <1>17 DEF vars
  <1> QED
    BY <1>1, <1>2, <1>3, <1>4, <1>5, <1>6, <1>7, <1>8, <1>9, <1>10, <1>11, <1>12,
       <1>13, <1>14, <1>15, <1>16, <1>17 DEF Next, Cycle, Timers, Worker

\* A job id enters BullMQ only with its job.
LEMMA NextIdsWereSent ==
    OutboxInv /\ TypeOK' /\ [Next]_vars => IdsWereSent'
    <1> USE RowsAssumption, OwnerAssumption DEF OutboxInv, TypeOK, IdsWereSent, rowVars,
          dispatcherVars, queueVars, historyVars
  <1> SUFFICES ASSUME OutboxInv, TypeOK', [Next]_vars PROVE IdsWereSent'
    OBVIOUS
  <1>1. ASSUME NEW d \in Dispatchers, ReopenFinalizations(d) PROVE IdsWereSent'
    BY <1>1 DEF ReopenFinalizations, Unlease
  <1>2. ASSUME NEW d \in Dispatchers, DeadLetterExhaustedReceipts(d) PROVE IdsWereSent'
    BY <1>2 DEF DeadLetterExhaustedReceipts, Close, Unlease, Due
  <1>3. ASSUME NEW d \in Dispatchers, Claim(d) PROVE IdsWereSent'
    BY <1>3 DEF Claim, Claimable, NextEpoch, Due
  <1>4. ASSUME NEW d \in Dispatchers, Prepare(d) PROVE IdsWereSent'
    BY <1>4 DEF Prepare, Close, Unlease
  <1>5. ASSUME NEW d \in Dispatchers, Enqueue(d) PROVE IdsWereSent'
    BY <1>5 DEF Enqueue
  <1>6. ASSUME NEW d \in Dispatchers, Record(d) PROVE IdsWereSent'
    BY <1>6 DEF Record, Advance, Unlease, Fenced
  <1>7. ASSUME NEW d \in Dispatchers, Fail(d) PROVE IdsWereSent'
    BY <1>7 DEF Fail, Advance, Unlease, Fenced
  <1>8. ASSUME NEW d \in Dispatchers, Abort(d) PROVE IdsWereSent'
    BY <1>8 DEF Abort
  <1>9. ASSUME NEW r \in Rows, ExpireLease(r) PROVE IdsWereSent'
    BY <1>9 DEF ExpireLease
  <1>10. ASSUME NEW r \in Rows, Elapse(r) PROVE IdsWereSent'
    BY <1>10 DEF Elapse
  <1>11. ASSUME NEW c \in queue, Start(c) PROVE IdsWereSent'
    BY <1>11 DEF Start, Close, Unlease, Acknowledges
  <1>12. ASSUME NEW c \in queue, Work(c) PROVE IdsWereSent'
    BY <1>12 DEF Work
  <1>13. ASSUME NEW c \in queue, AcknowledgeWork(c) PROVE IdsWereSent'
    BY <1>13 DEF AcknowledgeWork, Close, Unlease, Acknowledges
  <1>14. ASSUME NEW c \in queue, Leave(c) PROVE IdsWereSent'
    BY <1>14 DEF Leave
  <1>15. ASSUME NEW r \in Rows, Withdraw(r) PROVE IdsWereSent'
    BY <1>15 DEF Withdraw, Close, Unlease
  <1>16. CASE Producers
    BY <1>16 DEF Producers, Upsert, UpsertDuplicate, UpsertWatchdog, CancelDeletion, Reopen,
       Unlease
  <1>17. CASE UNCHANGED vars
    BY <1>17 DEF vars
  <1> QED
    BY <1>1, <1>2, <1>3, <1>4, <1>5, <1>6, <1>7, <1>8, <1>9, <1>10, <1>11, <1>12,
       <1>13, <1>14, <1>15, <1>16, <1>17 DEF Next, Cycle, Timers, Worker

\* A dispatcher that goes on to record found its job in the queue, or put it there:
\* an id that BullMQ already knew is the id of the same delivery.
LEMMA NextRecordedWasSent ==
    OutboxInv /\ TypeOK' /\ [Next]_vars => RecordedWasSent'
    <1> USE RowsAssumption, OwnerAssumption DEF OutboxInv, TypeOK, CopiesAreOld, Old,
          IdsWereSent, RecordedWasSent, Copies, Copy, NeedsReceipt, rowVars,
          dispatcherVars, queueVars, historyVars
  <1> SUFFICES ASSUME OutboxInv, TypeOK', [Next]_vars PROVE RecordedWasSent'
    OBVIOUS
  <1>1. ASSUME NEW d \in Dispatchers, ReopenFinalizations(d) PROVE RecordedWasSent'
    BY <1>1 DEF ReopenFinalizations, Unlease
  <1>2. ASSUME NEW d \in Dispatchers, DeadLetterExhaustedReceipts(d) PROVE RecordedWasSent'
    BY <1>2 DEF DeadLetterExhaustedReceipts, Close, Unlease, Due
  <1>3. ASSUME NEW d \in Dispatchers, Claim(d) PROVE RecordedWasSent'
    BY <1>3 DEF Claim, Claimable, NextEpoch, Due
  <1>4. ASSUME NEW d \in Dispatchers, Prepare(d) PROVE RecordedWasSent'
    BY <1>4 DEF Prepare, Close, Unlease
  <1>5. ASSUME NEW d \in Dispatchers, Enqueue(d) PROVE RecordedWasSent'
    <2>1. PICK c \in cur[d] : /\ pc' = [pc EXCEPT ![d] = "record"] /\ cur' = cur
                              /\ sent' = IF OutboxJobId(c) \notin ids THEN sent \cup {c} ELSE sent
      BY <1>5 DEF Enqueue
    <2>2. c \in Copy /\ \A e \in cur[d] : e = c
      OBVIOUS
    <2>3. IF c.row \in NeedsReceipt THEN c \in sent' ELSE \E j \in sent' : j.row = c.row
      <3>1. CASE OutboxJobId(c) \notin ids
        BY <2>1, <3>1
      <3>2. CASE OutboxJobId(c) \in ids
        <4>1. PICK j \in sent : OutboxJobId(j) = OutboxJobId(c)
          BY <3>2
        <4>2. j \in Copy /\ j.attempt = j.epoch /\ c.attempt = c.epoch
          BY <2>2
        <4>3. j.row = c.row /\ (c.row \in NeedsReceipt => j = c)
          BY <2>2, <4>1, <4>2 DEF OutboxJobId
        <4> QED
          BY <2>1, <4>3
      <3> QED
        BY <3>1, <3>2
    <2>4. ASSUME NEW e \in Dispatchers, NEW f \in cur'[e], pc'[e] = "record"
          PROVE  IF f.row \in NeedsReceipt THEN f \in sent' ELSE \E j \in sent' : j.row = f.row
      <3>1. CASE e = d
        BY <2>1, <2>2, <2>3, <2>4, <3>1
      <3>2. CASE e # d
        BY <2>1, <2>4, <3>2
      <3> QED
        BY <3>1, <3>2
    <2> QED
      BY <2>4
  <1>6. ASSUME NEW d \in Dispatchers, Record(d) PROVE RecordedWasSent'
    BY <1>6 DEF Record, Advance, Unlease, Fenced
  <1>7. ASSUME NEW d \in Dispatchers, Fail(d) PROVE RecordedWasSent'
    BY <1>7 DEF Fail, Advance, Unlease, Fenced
  <1>8. ASSUME NEW d \in Dispatchers, Abort(d) PROVE RecordedWasSent'
    BY <1>8 DEF Abort
  <1>9. ASSUME NEW r \in Rows, ExpireLease(r) PROVE RecordedWasSent'
    BY <1>9 DEF ExpireLease
  <1>10. ASSUME NEW r \in Rows, Elapse(r) PROVE RecordedWasSent'
    BY <1>10 DEF Elapse
  <1>11. ASSUME NEW c \in queue, Start(c) PROVE RecordedWasSent'
    BY <1>11 DEF Start, Close, Unlease, Acknowledges
  <1>12. ASSUME NEW c \in queue, Work(c) PROVE RecordedWasSent'
    BY <1>12 DEF Work
  <1>13. ASSUME NEW c \in queue, AcknowledgeWork(c) PROVE RecordedWasSent'
    BY <1>13 DEF AcknowledgeWork, Close, Unlease, Acknowledges
  <1>14. ASSUME NEW c \in queue, Leave(c) PROVE RecordedWasSent'
    BY <1>14 DEF Leave
  <1>15. ASSUME NEW r \in Rows, Withdraw(r) PROVE RecordedWasSent'
    BY <1>15 DEF Withdraw, Close, Unlease
  <1>16. CASE Producers
    BY <1>16 DEF Producers, Upsert, UpsertDuplicate, UpsertWatchdog, CancelDeletion, Reopen,
       Unlease
  <1>17. CASE UNCHANGED vars
    BY <1>17 DEF vars
  <1> QED
    BY <1>1, <1>2, <1>3, <1>4, <1>5, <1>6, <1>7, <1>8, <1>9, <1>10, <1>11, <1>12,
       <1>13, <1>14, <1>15, <1>16, <1>17 DEF Next, Cycle, Timers, Worker

\* Only the holder of the newest epoch defers a row, and it has sent that epoch.
LEMMA NextAwaitedDeliveryWasSent ==
    OutboxInv /\ TypeOK' /\ [Next]_vars => AwaitedDeliveryWasSent'
    <1> USE RowsAssumption, OwnerAssumption DEF OutboxInv, TypeOK, CopiesAreOld, Old,
          RecordedWasSent, AwaitedDeliveryWasSent, Copies, Copy, NeedsReceipt, rowVars,
          dispatcherVars, queueVars, historyVars
  <1> SUFFICES ASSUME OutboxInv, TypeOK', [Next]_vars PROVE AwaitedDeliveryWasSent'
    OBVIOUS
  <1>1. ASSUME NEW d \in Dispatchers, ReopenFinalizations(d) PROVE AwaitedDeliveryWasSent'
    BY <1>1 DEF ReopenFinalizations, Unlease
  <1>2. ASSUME NEW d \in Dispatchers, DeadLetterExhaustedReceipts(d) PROVE AwaitedDeliveryWasSent'
    BY <1>2 DEF DeadLetterExhaustedReceipts, Close, Unlease, Due
  <1>3. ASSUME NEW d \in Dispatchers, Claim(d) PROVE AwaitedDeliveryWasSent'
    BY <1>3 DEF Claim, Claimable, NextEpoch, Due
  <1>4. ASSUME NEW d \in Dispatchers, Prepare(d) PROVE AwaitedDeliveryWasSent'
    BY <1>4 DEF Prepare, Close, Unlease
  <1>5. ASSUME NEW d \in Dispatchers, Enqueue(d) PROVE AwaitedDeliveryWasSent'
    BY <1>5 DEF Enqueue
  <1>6. ASSUME NEW d \in Dispatchers, Record(d) PROVE AwaitedDeliveryWasSent'
    BY <1>6 DEF Record, Advance, Unlease, Fenced
  <1>7. ASSUME NEW d \in Dispatchers, Fail(d) PROVE AwaitedDeliveryWasSent'
    BY <1>7 DEF Fail, Advance, Unlease, Fenced
  <1>8. ASSUME NEW d \in Dispatchers, Abort(d) PROVE AwaitedDeliveryWasSent'
    BY <1>8 DEF Abort
  <1>9. ASSUME NEW r \in Rows, ExpireLease(r) PROVE AwaitedDeliveryWasSent'
    BY <1>9 DEF ExpireLease
  <1>10. ASSUME NEW r \in Rows, Elapse(r) PROVE AwaitedDeliveryWasSent'
    BY <1>10 DEF Elapse
  <1>11. ASSUME NEW c \in queue, Start(c) PROVE AwaitedDeliveryWasSent'
    BY <1>11 DEF Start, Close, Unlease, Acknowledges
  <1>12. ASSUME NEW c \in queue, Work(c) PROVE AwaitedDeliveryWasSent'
    BY <1>12 DEF Work
  <1>13. ASSUME NEW c \in queue, AcknowledgeWork(c) PROVE AwaitedDeliveryWasSent'
    BY <1>13 DEF AcknowledgeWork, Close, Unlease, Acknowledges
  <1>14. ASSUME NEW c \in queue, Leave(c) PROVE AwaitedDeliveryWasSent'
    BY <1>14 DEF Leave
  <1>15. ASSUME NEW r \in Rows, Withdraw(r) PROVE AwaitedDeliveryWasSent'
    BY <1>15 DEF Withdraw, Close, Unlease
  <1>16. CASE Producers
    BY <1>16 DEF Producers, Upsert, UpsertDuplicate, UpsertWatchdog, CancelDeletion, Reopen,
       Unlease
  <1>17. CASE UNCHANGED vars
    BY <1>17 DEF vars
  <1> QED
    BY <1>1, <1>2, <1>3, <1>4, <1>5, <1>6, <1>7, <1>8, <1>9, <1>10, <1>11, <1>12,
       <1>13, <1>14, <1>15, <1>16, <1>17 DEF Next, Cycle, Timers, Worker

\* A withdrawn row is reopened only together with its withdrawal.
LEMMA NextWithdrawnIsClosed ==
    OutboxInv /\ TypeOK' /\ [Next]_vars => WithdrawnIsClosed'
    <1> USE RowsAssumption, OwnerAssumption DEF OutboxInv, TypeOK, WithdrawnIsClosed,
          rowVars, dispatcherVars, queueVars, historyVars
  <1> SUFFICES ASSUME OutboxInv, TypeOK', [Next]_vars PROVE WithdrawnIsClosed'
    OBVIOUS
  <1>1. ASSUME NEW d \in Dispatchers, ReopenFinalizations(d) PROVE WithdrawnIsClosed'
    BY <1>1 DEF ReopenFinalizations, Unlease
  <1>2. ASSUME NEW d \in Dispatchers, DeadLetterExhaustedReceipts(d) PROVE WithdrawnIsClosed'
    BY <1>2 DEF DeadLetterExhaustedReceipts, Close, Unlease, Due
  <1>3. ASSUME NEW d \in Dispatchers, Claim(d) PROVE WithdrawnIsClosed'
    BY <1>3 DEF Claim, Claimable, NextEpoch, Due
  <1>4. ASSUME NEW d \in Dispatchers, Prepare(d) PROVE WithdrawnIsClosed'
    BY <1>4 DEF Prepare, Close, Unlease
  <1>5. ASSUME NEW d \in Dispatchers, Enqueue(d) PROVE WithdrawnIsClosed'
    BY <1>5 DEF Enqueue
  <1>6. ASSUME NEW d \in Dispatchers, Record(d) PROVE WithdrawnIsClosed'
    BY <1>6 DEF Record, Advance, Unlease, Fenced
  <1>7. ASSUME NEW d \in Dispatchers, Fail(d) PROVE WithdrawnIsClosed'
    BY <1>7 DEF Fail, Advance, Unlease, Fenced
  <1>8. ASSUME NEW d \in Dispatchers, Abort(d) PROVE WithdrawnIsClosed'
    BY <1>8 DEF Abort
  <1>9. ASSUME NEW r \in Rows, ExpireLease(r) PROVE WithdrawnIsClosed'
    BY <1>9 DEF ExpireLease
  <1>10. ASSUME NEW r \in Rows, Elapse(r) PROVE WithdrawnIsClosed'
    BY <1>10 DEF Elapse
  <1>11. ASSUME NEW c \in queue, Start(c) PROVE WithdrawnIsClosed'
    BY <1>11 DEF Start, Close, Unlease, Acknowledges
  <1>12. ASSUME NEW c \in queue, Work(c) PROVE WithdrawnIsClosed'
    BY <1>12 DEF Work
  <1>13. ASSUME NEW c \in queue, AcknowledgeWork(c) PROVE WithdrawnIsClosed'
    BY <1>13 DEF AcknowledgeWork, Close, Unlease, Acknowledges
  <1>14. ASSUME NEW c \in queue, Leave(c) PROVE WithdrawnIsClosed'
    BY <1>14 DEF Leave
  <1>15. ASSUME NEW r \in Rows, Withdraw(r) PROVE WithdrawnIsClosed'
    BY <1>15 DEF Withdraw, Close, Unlease
  <1>16. CASE Producers
    BY <1>16 DEF Producers, Upsert, UpsertDuplicate, UpsertWatchdog, CancelDeletion, Reopen,
       Unlease
  <1>17. CASE UNCHANGED vars
    BY <1>17 DEF vars
  <1> QED
    BY <1>1, <1>2, <1>3, <1>4, <1>5, <1>6, <1>7, <1>8, <1>9, <1>10, <1>11, <1>12,
       <1>13, <1>14, <1>15, <1>16, <1>17 DEF Next, Cycle, Timers, Worker

\* Only an open row with all its attempts used is dead-lettered.
LEMMA NextDeadLetterIsLastResort ==
    OutboxInv /\ TypeOK' /\ [Next]_vars => DeadLetterIsLastResort'
    <1> USE RowsAssumption, OwnerAssumption DEF OutboxInv, TypeOK, CopiesAreOld, Old,
          WithdrawnIsClosed, DeadLetterIsLastResort, Copies, Copy, NeedsReceipt,
          Exhausted, rowVars, dispatcherVars, queueVars, historyVars
  <1> SUFFICES ASSUME OutboxInv, TypeOK', [Next]_vars PROVE DeadLetterIsLastResort'
    OBVIOUS
  <1>1. ASSUME NEW d \in Dispatchers, ReopenFinalizations(d) PROVE DeadLetterIsLastResort'
    BY <1>1 DEF ReopenFinalizations, Unlease
  <1>2. ASSUME NEW d \in Dispatchers, DeadLetterExhaustedReceipts(d) PROVE DeadLetterIsLastResort'
    BY <1>2 DEF DeadLetterExhaustedReceipts, Close, Unlease, Due
  <1>3. ASSUME NEW d \in Dispatchers, Claim(d) PROVE DeadLetterIsLastResort'
    BY <1>3 DEF Claim, Claimable, NextEpoch, Due
  <1>4. ASSUME NEW d \in Dispatchers, Prepare(d) PROVE DeadLetterIsLastResort'
    BY <1>4 DEF Prepare, Close, Unlease
  <1>5. ASSUME NEW d \in Dispatchers, Enqueue(d) PROVE DeadLetterIsLastResort'
    BY <1>5 DEF Enqueue
  <1>6. ASSUME NEW d \in Dispatchers, Record(d) PROVE DeadLetterIsLastResort'
    BY <1>6 DEF Record, Advance, Unlease, Fenced
  <1>7. ASSUME NEW d \in Dispatchers, Fail(d) PROVE DeadLetterIsLastResort'
    BY <1>7 DEF Fail, Advance, Unlease, Fenced
  <1>8. ASSUME NEW d \in Dispatchers, Abort(d) PROVE DeadLetterIsLastResort'
    BY <1>8 DEF Abort
  <1>9. ASSUME NEW r \in Rows, ExpireLease(r) PROVE DeadLetterIsLastResort'
    BY <1>9 DEF ExpireLease
  <1>10. ASSUME NEW r \in Rows, Elapse(r) PROVE DeadLetterIsLastResort'
    BY <1>10 DEF Elapse
  <1>11. ASSUME NEW c \in queue, Start(c) PROVE DeadLetterIsLastResort'
    BY <1>11 DEF Start, Close, Unlease, Acknowledges
  <1>12. ASSUME NEW c \in queue, Work(c) PROVE DeadLetterIsLastResort'
    BY <1>12 DEF Work
  <1>13. ASSUME NEW c \in queue, AcknowledgeWork(c) PROVE DeadLetterIsLastResort'
    BY <1>13 DEF AcknowledgeWork, Close, Unlease, Acknowledges
  <1>14. ASSUME NEW c \in queue, Leave(c) PROVE DeadLetterIsLastResort'
    BY <1>14 DEF Leave
  <1>15. ASSUME NEW r \in Rows, Withdraw(r) PROVE DeadLetterIsLastResort'
    BY <1>15 DEF Withdraw, Close, Unlease
  <1>16. CASE Producers
    BY <1>16 DEF Producers, Upsert, UpsertDuplicate, UpsertWatchdog, CancelDeletion, Reopen,
       Unlease
  <1>17. CASE UNCHANGED vars
    BY <1>17 DEF vars
  <1> QED
    BY <1>1, <1>2, <1>3, <1>4, <1>5, <1>6, <1>7, <1>8, <1>9, <1>10, <1>11, <1>12,
       <1>13, <1>14, <1>15, <1>16, <1>17 DEF Next, Cycle, Timers, Worker

\* A receipt closes a row together with the delivery it is for.
LEMMA NextCompletedMeansReceived ==
    OutboxInv /\ TypeOK' /\ [Next]_vars => CompletedMeansReceived'
    <1> USE RowsAssumption, OwnerAssumption DEF OutboxInv, TypeOK, CopiesAreOld, Old,
          RecordedWasSent, CompletedMeansReceived, Copies, Copy, NeedsReceipt, rowVars,
          dispatcherVars, queueVars, historyVars
  <1> SUFFICES ASSUME OutboxInv, TypeOK', [Next]_vars PROVE CompletedMeansReceived'
    OBVIOUS
  <1>1. ASSUME NEW d \in Dispatchers, ReopenFinalizations(d) PROVE CompletedMeansReceived'
    BY <1>1 DEF ReopenFinalizations, Unlease
  <1>2. ASSUME NEW d \in Dispatchers, DeadLetterExhaustedReceipts(d) PROVE CompletedMeansReceived'
    BY <1>2 DEF DeadLetterExhaustedReceipts, Close, Unlease, Due
  <1>3. ASSUME NEW d \in Dispatchers, Claim(d) PROVE CompletedMeansReceived'
    BY <1>3 DEF Claim, Claimable, NextEpoch, Due
  <1>4. ASSUME NEW d \in Dispatchers, Prepare(d) PROVE CompletedMeansReceived'
    BY <1>4 DEF Prepare, Close, Unlease
  <1>5. ASSUME NEW d \in Dispatchers, Enqueue(d) PROVE CompletedMeansReceived'
    BY <1>5 DEF Enqueue
  <1>6. ASSUME NEW d \in Dispatchers, Record(d) PROVE CompletedMeansReceived'
    BY <1>6 DEF Record, Advance, Unlease, Fenced
  <1>7. ASSUME NEW d \in Dispatchers, Fail(d) PROVE CompletedMeansReceived'
    BY <1>7 DEF Fail, Advance, Unlease, Fenced
  <1>8. ASSUME NEW d \in Dispatchers, Abort(d) PROVE CompletedMeansReceived'
    BY <1>8 DEF Abort
  <1>9. ASSUME NEW r \in Rows, ExpireLease(r) PROVE CompletedMeansReceived'
    BY <1>9 DEF ExpireLease
  <1>10. ASSUME NEW r \in Rows, Elapse(r) PROVE CompletedMeansReceived'
    BY <1>10 DEF Elapse
  <1>11. ASSUME NEW c \in queue, Start(c) PROVE CompletedMeansReceived'
    BY <1>11 DEF Start, Close, Unlease, Acknowledges
  <1>12. ASSUME NEW c \in queue, Work(c) PROVE CompletedMeansReceived'
    BY <1>12 DEF Work
  <1>13. ASSUME NEW c \in queue, AcknowledgeWork(c) PROVE CompletedMeansReceived'
    BY <1>13 DEF AcknowledgeWork, Close, Unlease, Acknowledges
  <1>14. ASSUME NEW c \in queue, Leave(c) PROVE CompletedMeansReceived'
    BY <1>14 DEF Leave
  <1>15. ASSUME NEW r \in Rows, Withdraw(r) PROVE CompletedMeansReceived'
    BY <1>15 DEF Withdraw, Close, Unlease
  <1>16. CASE Producers
    BY <1>16 DEF Producers, Upsert, UpsertDuplicate, UpsertWatchdog, CancelDeletion, Reopen,
       Unlease
  <1>17. CASE UNCHANGED vars
    BY <1>17 DEF vars
  <1> QED
    BY <1>1, <1>2, <1>3, <1>4, <1>5, <1>6, <1>7, <1>8, <1>9, <1>10, <1>11, <1>12,
       <1>13, <1>14, <1>15, <1>16, <1>17 DEF Next, Cycle, Timers, Worker

\* The rows as the API inserts them.
LEMMA InitOutboxInv == Init => OutboxInv
  BY InitTypeOK, BoundsAssumption, RowsAssumption
  DEF Init, OutboxInv, CopiesAreOld, EpochFencesHolders, Copies, IdsWereSent, RecordedWasSent,
      AwaitedDeliveryWasSent, WithdrawnIsClosed, DeadLetterIsLastResort,
      CompletedMeansReceived, NeedsReceipt

\* Every step of dispatchers, timers, queue, workers and producers preserves the
\* invariant.
LEMMA NextOutboxInv == OutboxInv /\ [Next]_vars => OutboxInv'
  <1> SUFFICES ASSUME OutboxInv, [Next]_vars PROVE OutboxInv'
    OBVIOUS
  <1>1. TypeOK'
    BY NextTypeOK DEF OutboxInv
  <1>2. CopiesAreOld'
    BY <1>1, NextCopiesAreOld
  <1> QED
    BY <1>1, <1>2, NextEpochFencesHolders, NextIdsWereSent, NextRecordedWasSent,
       NextAwaitedDeliveryWasSent, NextWithdrawnIsClosed, NextDeadLetterIsLastResort,
       NextCompletedMeansReceived DEF OutboxInv

\* The inductive invariant of the outbox, for any rows and dispatchers.
THEOREM OutboxInvariant == Spec => []OutboxInv
  BY InitOutboxInv, NextOutboxInv, PTL DEF Spec

\* A dispatcher whose lease ran out cannot act on the row for its successor,
\* however its statements interleave with the successor's.
THEOREM HoldersAreFenced == Spec => []EpochFencesHolders
  <1>1. OutboxInv => EpochFencesHolders
    BY DEF OutboxInv
  <1> QED
    BY <1>1, OutboxInvariant, PTL

\* A row is only ever completed by the receipt of its newest delivery, a
\* withdrawal or its dead letter; a row without receipt only after its job.
THEOREM ReceiptsAreEarned == Spec => []CompletedMeansReceived
  <1>1. OutboxInv => CompletedMeansReceived
    BY DEF OutboxInv
  <1> QED
    BY <1>1, OutboxInvariant, PTL

\* While a row awaits a receipt, the delivery it awaits entered the queue.
THEOREM AwaitedWasSent == Spec => []AwaitedDeliveryWasSent
  <1>1. OutboxInv => AwaitedDeliveryWasSent
    BY DEF OutboxInv
  <1> QED
    BY <1>1, OutboxInvariant, PTL

\* A row is dead-lettered only with all its attempts used.
THEOREM DeadLettersAreExhausted == Spec => []DeadLetterIsLastResort
  <1>1. OutboxInv => DeadLetterIsLastResort
    BY DEF OutboxInv
  <1> QED
    BY <1>1, OutboxInvariant, PTL

\* No statement touches completed_at or dead_lettered_at of a closed row, but the
\* reopening of finalizations and the upserts of its producers.
LEMMA StepKeepsClosed ==
    OutboxInv /\ [Next]_vars =>
      (\A r \in Rows : completed[r] =>
          /\ dead'[r] => dead[r]
          /\ \/ completed'[r] /\ dead'[r] = dead[r]
             \/ r \in Finalizers \ begun
             \/ r \in Upserted /\ upserts' # upserts)
    <1> USE RowsAssumption, OwnerAssumption DEF OutboxInv, TypeOK, rowVars,
          dispatcherVars, queueVars, historyVars
  <1> SUFFICES ASSUME OutboxInv, [Next]_vars, NEW q \in Rows, completed[q]
               PROVE  /\ dead'[q] => dead[q]
                      /\ \/ completed'[q] /\ dead'[q] = dead[q]
                         \/ q \in Finalizers \ begun
                         \/ q \in Upserted /\ upserts' # upserts
    OBVIOUS
  <1> DEFINE Kept == completed'[q] /\ dead'[q] = dead[q]
  <1>1. ASSUME NEW d \in Dispatchers, ReopenFinalizations(d)
        PROVE  (dead'[q] => dead[q]) /\ (Kept \/ q \in Finalizers \ begun)
    BY <1>1 DEF ReopenFinalizations, Unlease
  <1>2. ASSUME NEW d \in Dispatchers, DeadLetterExhaustedReceipts(d) PROVE Kept
    BY <1>2 DEF DeadLetterExhaustedReceipts, Close, Unlease, Due
  <1>3. ASSUME NEW d \in Dispatchers, Claim(d) PROVE Kept
    BY <1>3 DEF Claim, Claimable, NextEpoch, Due
  <1>4. ASSUME NEW d \in Dispatchers, Prepare(d) PROVE Kept
    BY <1>4 DEF Prepare, Close, Unlease
  <1>5. ASSUME NEW d \in Dispatchers, Enqueue(d) PROVE Kept
    BY <1>5 DEF Enqueue
  <1>6. ASSUME NEW d \in Dispatchers, Record(d) PROVE Kept
    BY <1>6 DEF Record, Advance, Unlease, Fenced
  <1>7. ASSUME NEW d \in Dispatchers, Fail(d) PROVE Kept
    BY <1>7 DEF Fail, Advance, Unlease, Fenced
  <1>8. ASSUME NEW d \in Dispatchers, Abort(d) PROVE Kept
    BY <1>8 DEF Abort
  <1>9. ASSUME NEW r \in Rows, ExpireLease(r) PROVE Kept
    BY <1>9 DEF ExpireLease
  <1>10. ASSUME NEW r \in Rows, Elapse(r) PROVE Kept
    BY <1>10 DEF Elapse
  <1>11. ASSUME NEW c \in queue, Start(c) PROVE Kept
    BY <1>11 DEF Start, Close, Unlease, Acknowledges
  <1>12. ASSUME NEW c \in queue, Work(c) PROVE Kept
    BY <1>12 DEF Work
  <1>13. ASSUME NEW c \in queue, AcknowledgeWork(c) PROVE Kept
    BY <1>13 DEF AcknowledgeWork, Close, Unlease, Acknowledges
  <1>14. ASSUME NEW c \in queue, Leave(c) PROVE Kept
    BY <1>14 DEF Leave
  <1>15. ASSUME NEW r \in Rows, Withdraw(r) PROVE Kept
    BY <1>15 DEF Withdraw, Close, Unlease
  <1>16. ASSUME Producers
         PROVE  (dead'[q] => dead[q]) /\ (Kept \/ (q \in Upserted /\ upserts' # upserts))
    BY <1>16 DEF Producers, Upsert, UpsertDuplicate, UpsertWatchdog, CancelDeletion, Reopen,
       Unlease
  <1>17. ASSUME UNCHANGED vars PROVE Kept
    BY <1>17 DEF vars
  <1> QED
    BY <1>1, <1>2, <1>3, <1>4, <1>5, <1>6, <1>7, <1>8, <1>9, <1>10, <1>11, <1>12,
       <1>13, <1>14, <1>15, <1>16, <1>17 DEF Next, Cycle, Timers, Worker

\* A closed row stays as it is, whoever is late, until the sweep finds its
\* finalization pending or its producer inserts it again.
THEOREM ClosedRowsStayClosed == Spec => ClosedStaysClosed
  <1>1. OutboxInv /\ [Next]_vars =>
          [\A r \in Rows : completed[r] =>
              /\ dead'[r] => dead[r]
              /\ \/ completed'[r] /\ dead'[r] = dead[r]
                 \/ r \in Finalizers \ begun
                 \/ r \in Upserted /\ upserts' # upserts]_vars
    BY StepKeepsClosed
  <1> QED
    BY <1>1, OutboxInvariant, PTL DEF Spec, ClosedStaysClosed
============================================================================
