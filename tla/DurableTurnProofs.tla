------------------------- MODULE DurableTurnProofs -------------------------
(***************************************************************************)
(* Proofs about DurableTurn: type correctness, the inductive invariant     *)
(* TurnInv, and the safety and action properties that follow from it.      *)
(***************************************************************************)
EXTENDS DurableTurn, FiniteSetTheorems, TLAPS

-----------------------------------------------------------------------------
(* Bags of jobs. *)

JobBag(B) == IsABag(B) /\ BagToSet(B) \subseteq Jobs

\* Redis without jobs is a bag of jobs.
LEMMA EmptyBagOfJobs == JobBag(EmptyBag)
BY DEF JobBag, IsABag, BagToSet, EmptyBag, SetToBag

\* A published or retried job leaves a bag of jobs.
LEMMA AddJob ==
    ASSUME NEW B, JobBag(B), NEW j \in Jobs
    PROVE  JobBag(B (+) SetToBag({j}))
<1> DEFINE C == B (+) SetToBag({j})
           D == DOMAIN B \cup {j}
           Q == {n \in Nat : n > 0}
<1>1. C = [e \in D |-> (IF e \in DOMAIN B THEN B[e] ELSE 0)
                       + (IF e \in {j} THEN 1 ELSE 0)]
  BY DEF SetToBag, (+)
<1>2. \A e \in DOMAIN B : B[e] \in Nat /\ B[e] > 0
  BY DEF JobBag, IsABag
<1>3. DOMAIN C = D
  BY <1>1
<1>4. \A e \in D : C[e] \in Q
  BY <1>1, <1>2
<1>5. C \in [D -> Q]
  BY <1>1, <1>3, <1>4
<1>6. D \subseteq Jobs
  BY DEF JobBag, BagToSet
<1> QED
  BY <1>3, <1>5, <1>6 DEF JobBag, IsABag, BagToSet

\* A job that a worker took leaves a bag of jobs.
LEMMA TakeJob ==
    ASSUME NEW B, JobBag(B), NEW j
    PROVE  JobBag(B (-) SetToBag({j}))
<1> DEFINE L == [e \in DOMAIN B |-> IF e \in {j} THEN B[e] - 1 ELSE B[e]]
           D == {d \in DOMAIN B : L[d] > 0}
           C == B (-) SetToBag({j})
           Q == {n \in Nat : n > 0}
<1>1. \A e \in DOMAIN B : B[e] \in Nat /\ B[e] > 0
  BY DEF JobBag, IsABag
<1>2. C = [e \in D |-> L[e]]
  BY DEF SetToBag, (-)
<1>3. \A e \in D : L[e] \in Q
  BY <1>1
<1>4. DOMAIN C = D /\ \A e \in D : C[e] \in Q
  BY <1>2, <1>3
<1>5. C \in [D -> Q]
  BY <1>2, <1>4
<1>6. D \subseteq Jobs
  BY DEF JobBag, BagToSet
<1> QED
  BY <1>4, <1>5, <1>6 DEF JobBag, IsABag, BagToSet

-----------------------------------------------------------------------------
(* Type correctness. *)

\* The initial values and the keys have their types.
LEMMA InitialTypes ==
    /\ NoTool \in ToolSteps /\ NoModel \in ModelSteps
    /\ NoJob \in Jobs /\ Idle \in WorkerType
<1>1. NoTool \in ToolSteps /\ NoModel \in ModelSteps
  BY DEF NoTool, NoModel, ToolSteps, ModelSteps, StepStates, Unfinished, Waits
<1>2. NoJob \in Jobs
  BY TurnBounds DEF NoJob, Jobs, Key, Keys, States
<1> QED
  BY <1>1, <1>2 DEF Idle, WorkerType, States, Active

\* A dedupe key of the API or of the scan is one of Keys.
LEMMA KeyType ==
    ASSUME NEW of \in {"admitted", "recovery", "approval", "question", "operator"},
           NEW at \in Nat
    PROVE  Key(of, at) \in Keys /\ Key(of, at).of = of /\ Key(of, at).at = at
BY DEF Key, Keys

\* So is the key of a wake-up.
LEMMA WakeKeyType ==
    ASSUME NEW version \in Nat, NEW next \in States
    PROVE  /\ WakeKey(version, next) \in Keys
           /\ WakeKey(version, next).of = "wake"
           /\ WakeKey(version, next).at = version
BY DEF WakeKey, Keys

\* closeTerminalChildren leaves a well-formed step: nothing unfinished, no
\* pending decision, and the rest as it was.
LEMMA ClosedFacts ==
    ASSUME NEW t \in ToolSteps, NEW next
    PROVE  LET c == Closed(t, next) IN
           /\ c \in ToolSteps
           /\ c.kind = t.kind /\ c.asks = t.asks /\ c.cleared = t.cleared
           /\ c.wait = IF t.wait = "pending" THEN "expired" ELSE t.wait
           /\ t.st \notin Unfinished => c.st = t.st
           /\ t.st \in Unfinished => c.st \in {"failed", "cancelled"}
BY DEF Closed, ToolSteps, StepStates, Unfinished, Waits

\* A model step with other values is a model step.
LEMMA ModelStepOfNextCall ==
    ASSUME NEW m \in ModelSteps, NEW i \in Nat, NEW a \in Nat, NEW b \in BOOLEAN
    PROVE  /\ [m EXCEPT !.iteration = i, !.attempt = a, !.empty = b] \in ModelSteps
           /\ [m EXCEPT !.iteration = i, !.attempt = a, !.empty = b].iteration = i
BY DEF ModelSteps

\* An empty answer or a repair marks the step.
LEMMA ModelStepOfMarks ==
    ASSUME NEW m \in ModelSteps, NEW b \in BOOLEAN
    PROVE  /\ [m EXCEPT !.empty = b] \in ModelSteps
           /\ [m EXCEPT !.empty = b].iteration = m.iteration
           /\ [m EXCEPT !.repair = b] \in ModelSteps
           /\ [m EXCEPT !.repair = b].iteration = m.iteration
BY DEF ModelSteps

\* The next model call is the one of the next iteration.
LEMMA NextCallFacts ==
    ASSUME NEW m \in ModelSteps
    PROVE  /\ NextCall(m) \in ModelSteps /\ NextCall(m).iteration = m.iteration + 1
           /\ [NextCall(m) EXCEPT !.empty = TRUE] \in ModelSteps
           /\ [NextCall(m) EXCEPT !.empty = TRUE].iteration = m.iteration + 1
           /\ [NextCall(m) EXCEPT !.repair = TRUE] \in ModelSteps
           /\ [NextCall(m) EXCEPT !.repair = TRUE].iteration = m.iteration + 1
<1>1. m.iteration + 1 \in Nat /\ 0 \in Nat
  BY DEF ModelSteps
<1>2. FALSE \in BOOLEAN /\ TRUE \in BOOLEAN
  OBVIOUS
<1>3. NextCall(m) \in ModelSteps /\ NextCall(m).iteration = m.iteration + 1
  <2> DEFINE n == [m EXCEPT !.iteration = m.iteration + 1, !.attempt = 0, !.empty = FALSE]
  <2>1. n \in ModelSteps /\ n.iteration = m.iteration + 1
    BY <1>1, <1>2, ModelStepOfNextCall, Zenon
  <2>2. NextCall(m) = n
    BY Zenon DEF NextCall
  <2> QED
    BY <2>1, <2>2, Zenon
<1> QED
  BY <1>2, <1>3, ModelStepOfMarks, Zenon

\* A worker that moves on is still a worker.
LEMMA WorkerMoves ==
    ASSUME TypeOK, NEW w \in Workers, NEW x \in WorkerType,
           ws' = [ws EXCEPT ![w] = x]
    PROVE  /\ ws' \in [Workers -> WorkerType]
           /\ ws'[w] = x /\ \A v \in Workers \ {w} : ws'[v] = ws[v]
BY DEF TypeOK

\* Its place is one of the places.
LEMMA PlaceType ==
    ASSUME NEW x \in WorkerType,
           NEW pc \in {"prepared", "requested", "answered", "ran", "publishing"}
    PROVE  [x EXCEPT !.pc = pc] \in WorkerType
BY DEF WorkerType

\* An error is one of the errors.
LEMMA RaisedType ==
    ASSUME NEW x \in WorkerType, NEW err \in {"retry", "terminal", "cancelled"}
    PROVE  [x EXCEPT !.pc = "raised", !.err = err] \in WorkerType
BY DEF WorkerType

\* INSERT ... ON CONFLICT DO NOTHING keeps the open rows among the used keys.
LEMMA InsertType ==
    ASSUME TypeOK, NEW k \in Keys, outbox' = Insert(k)
    PROVE  /\ outbox' \in [open: SUBSET Keys, used: SUBSET Keys]
           /\ outbox'.open \subseteq outbox'.used
           /\ outbox'.used = outbox.used \cup {k}
           /\ k \notin outbox.used => k \in outbox'.open
<1>1. /\ outbox.open \in SUBSET Keys /\ outbox.used \in SUBSET Keys
      /\ outbox.open \subseteq outbox.used
  BY DEF TypeOK
<1>2. outbox' = [open |-> outbox.open \cup ({k} \ outbox.used),
                 used |-> outbox.used \cup {k}]
  BY DEF Insert
<1> QED
  BY <1>1, <1>2

\* Closing rows keeps the keys.
LEMMA CloseType ==
    ASSUME TypeOK, NEW S, outbox' = [outbox EXCEPT !.open = @ \ S]
                          \/ outbox' = CloseTurnRows \/ outbox' = outbox
    PROVE  /\ outbox' \in [open: SUBSET Keys, used: SUBSET Keys]
           /\ outbox'.open \subseteq outbox'.used
           /\ outbox'.used = outbox.used
BY DEF TypeOK, CloseTurnRows

\* The outbox and the queue aside, what a commit writes is well formed.
LEMMA CommitType ==
    ASSUME TypeOK, NEW w \in Workers, NEW next \in States,
           NEW t \in ToolSteps, NEW m \in ModelSteps, Commit(w, next, t, m)
    PROVE  /\ run' \in RunType /\ tool' \in ToolSteps /\ model' \in ModelSteps
           /\ ws' \in [Workers -> WorkerType]
<1>1. run' \in RunType
  <2>1. run \in RunType /\ run.version + 1 \in Nat
    BY DEF TypeOK, RunType
  <2>2. run' = [run EXCEPT !.state = next, !.version = run.version + 1, !.lease = "none"]
    BY <2>1 DEF Commit, RunType
  <2> QED
    BY <2>1, <2>2 DEF RunType
<1>2. tool' \in ToolSteps
  BY ClosedFacts DEF Commit
<1>3. ws' \in [Workers -> WorkerType]
  BY InitialTypes, WorkerMoves DEF Commit
<1> QED
  BY <1>1, <1>2, <1>3 DEF Commit


\* A step that is released for review keeps the rest.
LEMMA StepCleared ==
    ASSUME NEW t \in ToolSteps
    PROVE  LET c == [t EXCEPT !.cleared = TRUE] IN
           /\ c \in ToolSteps
           /\ c.kind = t.kind /\ c.asks = t.asks /\ c.wait = t.wait /\ c.st = t.st
BY DEF ToolSteps

\* The call of an answer is a pending step without a decision.
LEMMA CallStep ==
    ASSUME NEW c \in Calls
    PROVE  LET t == [NoTool EXCEPT !.kind = c.kind, !.asks = c.asks, !.st = "pending"] IN
           /\ t \in ToolSteps /\ t.kind = c.kind /\ t.st = "pending"
           /\ t.wait = "none" /\ ~t.cleared
<1>1. c \in [kind: {"idempotent", "sandbox", "held", "question"}, asks: BOOLEAN]
  BY CallsAssumption
<1>2. "pending" \in StepStates /\ NoTool \in ToolSteps
  BY InitialTypes DEF StepStates, Unfinished
<1>3. NoTool.wait = "none" /\ ~NoTool.cleared
  BY DEF NoTool
<1> DEFINE t == [NoTool EXCEPT !.kind = c.kind, !.asks = c.asks, !.st = "pending"]
<1>4. /\ t \in ToolSteps /\ t.kind = c.kind /\ t.st = "pending"
      /\ t.wait = NoTool.wait /\ t.cleared = NoTool.cleared
  BY <1>1, <1>2 DEF ToolSteps
<1> QED
  BY <1>3, <1>4, Zenon

\* A fault is one of the faults that may happen.
LEMMA FaultType ==
    ASSUME TypeOK, Fault \/ UNCHANGED faults
    PROVE  faults' \in 0..MaxFaults
BY TurnBounds DEF TypeOK, Fault

\* A job that failed goes back with one attempt less.
LEMMA RetryJobType ==
    ASSUME TypeOK, NEW w \in Workers, RetryJob(w)
    PROVE  JobBag(queue')
<1>1. ws[w].job \in Jobs /\ JobBag(queue)
  BY DEF TypeOK, WorkerType, JobBag
<1>2. CASE ws[w].job.left > 1
  <2>1. [ws[w].job EXCEPT !.left = @ - 1] \in Jobs
    BY <1>1, <1>2, TurnBounds DEF Jobs
  <2> QED
    BY <1>1, <1>2, <2>1, AddJob DEF RetryJob
<1>3. CASE ~(ws[w].job.left > 1)
  BY <1>1, <1>3 DEF RetryJob
<1> QED
  BY <1>2, <1>3

\* A worker that gives up its lease leaves a well-formed row.
LEMMA ReleaseType ==
    ASSUME TypeOK, NEW w \in Workers, Release(w)
    PROVE  /\ run' \in RunType
           /\ run'.state = run.state /\ run'.gen = run.gen /\ run'.version = run.version
           /\ run.lease = "none" => run'.lease = "none"
           /\ run.state \in Terminal /\ run.lease = "none" => run' = run
BY DEF TypeOK, Release, Holder, RunType

\* A commit without a wake-up keeps the types.
LEMMA SilentType ==
    ASSUME TypeOK, NEW w \in Workers, NEW next \in States,
           NEW t \in ToolSteps, NEW m \in ModelSteps,
           CommitSilently(w, next, t, m),
           doubt' \in BOOLEAN, UNCHANGED <<queue, started, retries, faults>>
    PROVE  TypeOK' /\ outbox'.used = outbox.used
<1>1. /\ run' \in RunType /\ tool' \in ToolSteps /\ model' \in ModelSteps
      /\ ws' \in [Workers -> WorkerType]
  BY CommitType DEF CommitSilently
<1>2. /\ outbox' \in [open: SUBSET Keys, used: SUBSET Keys]
      /\ outbox'.open \subseteq outbox'.used
      /\ outbox'.used = outbox.used
  BY CloseType DEF CommitSilently
<1>3. IsABag(queue') /\ BagToSet(queue') \subseteq Jobs
  BY DEF TypeOK
<1> QED
  BY <1>1, <1>2, <1>3 DEF TypeOK

\* So does one that wakes the next delivery.
LEMMA WakeType ==
    ASSUME TypeOK, NEW w \in Workers, NEW next \in States,
           NEW t \in ToolSteps, NEW m \in ModelSteps,
           CommitAndWake(w, next, t, m),
           doubt' \in BOOLEAN, UNCHANGED <<queue, started, retries, faults>>
    PROVE  /\ TypeOK'
           /\ LET k == WakeKey(ws[w].version + 1, next) IN
              /\ k.of = "wake" /\ k.at = ws[w].version + 1
              /\ outbox'.used = outbox.used \cup {k}
              /\ k \notin outbox.used => k \in outbox'.open
<1>1. /\ run' \in RunType /\ tool' \in ToolSteps /\ model' \in ModelSteps
      /\ ws' \in [Workers -> WorkerType]
  BY CommitType DEF CommitAndWake
<1> DEFINE k == WakeKey(ws[w].version + 1, next)
<1>2. k \in Keys /\ k.of = "wake" /\ k.at = ws[w].version + 1
  <2>1. ws[w].version + 1 \in Nat
    BY DEF TypeOK, WorkerType
  <2> QED
    BY <2>1, WakeKeyType
<1> HIDE DEF k
<1>3. outbox' = Insert(k)
  BY DEF CommitAndWake, k
<1>4. /\ outbox' \in [open: SUBSET Keys, used: SUBSET Keys]
      /\ outbox'.open \subseteq outbox'.used
      /\ outbox'.used = outbox.used \cup {k}
      /\ k \notin outbox.used => k \in outbox'.open
  BY <1>2, <1>3, InsertType
<1>5. IsABag(queue') /\ BagToSet(queue') \subseteq Jobs
  BY DEF TypeOK
<1>6. TypeOK'
  BY <1>1, <1>4, <1>5 DEF TypeOK
<1> QED
  BY <1>2, <1>4, <1>6 DEF k

-----------------------------------------------------------------------------
(* Steps that leave the run where it is. *)

\* The beginnings of a call are counted by a natural number.
LEMMA BegunFacts ==
    ASSUME TypeOK, NEW i \in 1..MaxIterations
    PROVE  /\ IsFiniteSet(Intending(i)) /\ Cardinality(Intending(i)) \in Nat
           /\ started[i] \in Nat /\ retries[i] \in Nat /\ Begun(i) \in Nat
           /\ started[i] <= Begun(i)
           /\ started[i] = 0 /\ Intending(i) = {} => Begun(i) = 0
<1>1. IsFiniteSet(Intending(i))
  <2>1. Intending(i) \subseteq Workers
    BY DEF Intending
  <2> QED
    BY <2>1, WorkersAssumption, FS_Subset
<1>2. Cardinality(Intending(i)) \in Nat
  BY <1>1, FS_CardinalityType
<1>3. Intending(i) = {} => Cardinality(Intending(i)) = 0
  BY FS_EmptySet
<1>4. started[i] \in Nat /\ retries[i] \in Nat
  BY DEF TypeOK
<1> QED
  BY <1>1, <1>2, <1>3, <1>4 DEF Begun

\* A step in which no worker comes to intend a call adds no beginning.
LEMMA NoMoreBegun ==
    ASSUME TypeOK, TypeOK', NEW i \in 1..MaxIterations, started' = started,
           \A v \in Workers : ws'[v].pc = "intended" => ws'[v] = ws[v]
    PROVE  /\ Intending(i)' \subseteq Intending(i)
           /\ Begun(i)' \in Nat /\ Begun(i)' <= Begun(i)
<1>1. Intending(i)' \subseteq Intending(i)
  BY DEF Intending
<1>2. IsFiniteSet(Intending(i)) /\ Cardinality(Intending(i)) \in Nat /\ started[i] \in Nat
  BY BegunFacts
<1>3. Cardinality(Intending(i)') <= Cardinality(Intending(i))
  BY <1>1, <1>2, FS_Subset
<1>4. Cardinality(Intending(i)') \in Nat
  BY <1>1, <1>2, FS_Subset, FS_CardinalityType
<1>5. Begun(i)' = started[i] + Cardinality(Intending(i)')
  BY DEF Begun
<1>6. Begun(i) = started[i] + Cardinality(Intending(i))
  BY DEF Begun
<1> QED
  BY <1>1, <1>2, <1>3, <1>4, <1>5, <1>6

\* What a worker that stays with its claim may become.
Keeps(w, x) ==
    /\ Claimed(w) /\ x.pc \notin {"idle", "started", "intended"}
    /\ x.gen = ws[w].gen /\ x.version = ws[w].version /\ x.state = ws[w].state
    /\ x.pc # "claimed" =>
          \/ Hydrated(w) /\ x.tool = ws[w].tool /\ x.model = ws[w].model
          \/ x.tool = tool /\ x.model = model
    /\ x.pc \in {"prepared", "requested", "answered"} =>
          x.state = "calling_model" /\ x.model.iteration <= MaxIterations
    /\ x.pc = "ran" => x.state = "executing_tool" /\ x.tool.st = "running"
    /\ x.pc = "publishing" => x.state = "finalizing"

\* The run stays where it is: one worker moves, the lease may be given up,
\* renewed or run out, the version may move on, the lease-recovery scan may
\* insert its row.
Quiet(w, x) ==
    /\ ws' = [ws EXCEPT ![w] = x]
    /\ x = ws[w] \/ x.pc \in {"idle", "started"} \/ Keeps(w, x)
    /\ run' \in RunType /\ run'.state = run.state /\ run'.gen = run.gen
    /\ run'.version >= run.version
    /\ run.lease = "none" => run'.lease = "none"
    /\ model' \in ModelSteps /\ model'.iteration = model.iteration
    /\ outbox' \in [open: SUBSET Keys, used: SUBSET Keys]
    /\ outbox'.open \subseteq outbox'.used
    /\ \A k \in outbox'.used : k \in outbox.used \/ k.of = "recovery"
    /\ JobBag(queue') /\ faults' \in 0..MaxFaults
    /\ UNCHANGED <<tool, doubt, started, retries>>

\* Such a step preserves the invariant.
LEMMA QuietStep ==
    ASSUME TurnInv, NEW w \in Workers, NEW x \in WorkerType, Quiet(w, x)
    PROVE  TurnInv'
<1>1. TypeOK
  BY DEF TurnInv
<1>2. /\ ws' \in [Workers -> WorkerType]
      /\ ws'[w] = x /\ \A v \in Workers \ {w} : ws'[v] = ws[v]
  BY <1>1, WorkerMoves DEF Quiet
<1>3. TypeOK'
  BY <1>1, <1>2 DEF TypeOK, Quiet, JobBag
<1>4. \A v \in Workers : ws'[v].pc = "intended" => ws'[v] = ws[v]
  BY <1>2 DEF Quiet, Keeps
<1>5. LeaseFences'
  <2>1. \A v \in Workers : Claimed(v)' => Claimed(v) /\ ws'[v].gen = ws[v].gen
                                          /\ ws'[v].version = ws[v].version
    BY <1>2 DEF Quiet, Keeps, Claimed
  <2>2. run.version \in Nat /\ run'.version \in Nat
    BY <1>1 DEF TypeOK, RunType, Quiet
  <2>3. \A v \in Workers : ws[v].version \in Nat
    BY <1>1 DEF TypeOK, WorkerType
  <2> QED
    BY <2>1, <2>2, <2>3 DEF TurnInv, LeaseFences, Quiet
<1>6. HolderIsCurrent'
  <2> SUFFICES ASSUME NEW v \in Workers, Claimed(v)', Holder(v)'
               PROVE  /\ ws'[v].state = run'.state
                      /\ Hydrated(v)' => ws'[v].tool = tool'
                                         /\ ws'[v].model.iteration = model'.iteration
                      /\ \A k \in outbox'.used : k.of = "wake" => k.at <= ws'[v].version
    BY DEF HolderIsCurrent
  <2>1. Claimed(v) /\ Holder(v) /\ ws'[v].version = ws[v].version
        /\ ws'[v].state = ws[v].state
    BY <1>2 DEF Quiet, Keeps, Claimed, Holder
  <2>2. /\ ws[v].state = run.state
        /\ Hydrated(v) => ws[v].tool = tool /\ ws[v].model.iteration = model.iteration
        /\ \A k \in outbox.used : k.of = "wake" => k.at <= ws[v].version
    BY <2>1 DEF TurnInv, HolderIsCurrent
  <2>3. ASSUME Hydrated(v)'
        PROVE  ws'[v].tool = tool' /\ ws'[v].model.iteration = model'.iteration
    <3>1. tool' = tool /\ model'.iteration = model.iteration
      BY DEF Quiet
    <3>2. CASE ws'[v] = ws[v]
      BY <2>1, <2>2, <2>3, <3>1, <3>2 DEF Hydrated, Claimed
    <3>3. CASE v = w /\ Keeps(w, x)
      BY <1>2, <2>2, <2>3, <3>1, <3>3 DEF Keeps, Hydrated
    <3> QED
      BY <1>2, <2>3, <3>2, <3>3 DEF Quiet, Hydrated, Claimed
  <2>4. \A k \in outbox'.used : k.of = "wake" => k.at <= ws'[v].version
    BY <2>1, <2>2 DEF Quiet
  <2> QED
    BY <2>1, <2>2, <2>3, <2>4 DEF Quiet
<1>7. PlaceMatchesState'
  BY <1>2 DEF TurnInv, PlaceMatchesState, Quiet, Keeps
<1>8. IterationMatchesState' /\ RunMatchesStep' /\ QuestionsAreAsked'
  BY DEF TurnInv, IterationMatchesState, RunMatchesStep, QuestionsAreAsked,
         HoldsForReview, Quiet
<1>9. KeysAreSpent'
  <2>1. run.version \in Nat /\ run'.version \in Nat
    BY <1>1 DEF TypeOK, RunType, Quiet
  <2>2. \A k \in outbox.used : k.at \in Nat
    BY <1>1 DEF TypeOK, Keys
  <2> QED
    BY <2>1, <2>2 DEF TurnInv, KeysAreSpent, BetweenCalls, Quiet
<1>10. started' = started /\ retries' = retries /\ tool' = tool /\ doubt' = doubt
       /\ model'.iteration = model.iteration /\ run'.state = run.state
  BY DEF Quiet
<1>11. UnmadeCallsNotBegun'
  <2>1. \A i \in 1..MaxIterations : Intending(i)' \subseteq Intending(i)
    BY <1>1, <1>3, <1>4, <1>10, NoMoreBegun
  <2> QED
    BY <1>10, <2>1 DEF TurnInv, UnmadeCallsNotBegun, BetweenCalls
<1>12. CallsAreCounted'
  <2>1. \A i \in 1..MaxIterations :
            Begun(i)' \in Nat /\ Begun(i)' <= Begun(i) /\ Begun(i) \in Nat
            /\ retries[i] \in Nat
    BY <1>1, <1>3, <1>4, <1>10, NoMoreBegun, BegunFacts
  <2> QED
    BY <1>10, <2>1 DEF TurnInv, CallsAreCounted, NonIdempotent, HoldsForReview
<1> QED
  BY <1>3, <1>5, <1>6, <1>7, <1>8, <1>9, <1>11, <1>12 DEF TurnInv


\* What is left alone is well formed.
LEMMA Unmoved ==
    ASSUME TypeOK
    PROVE  /\ run \in RunType /\ run.version \in Nat /\ run.version >= run.version
           /\ model \in ModelSteps
           /\ outbox \in [open: SUBSET Keys, used: SUBSET Keys]
           /\ outbox.open \subseteq outbox.used
           /\ JobBag(queue) /\ faults \in 0..MaxFaults
           /\ ws \in [Workers -> WorkerType]
           /\ \A w \in Workers : ws[w] \in WorkerType /\ ws = [ws EXCEPT ![w] = ws[w]]
BY DEF TypeOK, RunType, JobBag

\* The dispatcher, Redis and the lease's clock change rows and jobs, and leave
\* the workers alone.
LEMMA BackgroundSteps ==
    ASSUME TurnInv,
           \/ Dispatch \/ ExpireLease \/ LoseQueue
           \/ \E k \in outbox.open : DeadLetter(k)
           \/ \E w \in Workers : Heartbeat(w)
    PROVE  TurnInv'
<1>1. TypeOK /\ LeaseFences
  BY DEF TurnInv
<1>2. PICK w \in Workers : TRUE
  BY WorkersAssumption
<1> USE <1>1, Unmoved
<1>3. SUFFICES Quiet(w, ws[w])
  BY <1>2, QuietStep
<1>4. ASSUME NEW k \in outbox.open, Publish(k)
      PROVE  Quiet(w, ws[w])
  <2>1. [key |-> k, left |-> JobAttempts] \in Jobs
    BY TurnBounds DEF Jobs
  <2>2. JobBag(queue')
    BY <2>1, <1>4, AddJob DEF Publish
  <2>3. faults' \in 0..MaxFaults
    BY <1>4, FaultType DEF Publish
  <2> QED
    BY <1>2, <1>4, <2>2, <2>3 DEF Publish, Quiet
<1>5. CASE RecoverLease
  <2>1. /\ Key("recovery", run.version) \in Keys
        /\ Key("recovery", run.version).of = "recovery"
    BY KeyType
  <2>2. /\ outbox' \in [open: SUBSET Keys, used: SUBSET Keys]
        /\ outbox'.open \subseteq outbox'.used
        /\ outbox'.used = outbox.used \cup {Key("recovery", run.version)}
    BY <1>5, <2>1, InsertType DEF RecoverLease
  <2>3. faults' \in 0..MaxFaults
    BY <1>5, FaultType DEF RecoverLease
  <2> QED
    BY <1>2, <1>5, <2>1, <2>2, <2>3 DEF RecoverLease, Quiet
<1>6. CASE ExpireLease
  <2>1. faults' \in 0..MaxFaults
    BY <1>6, FaultType DEF ExpireLease
  <2> QED
    BY <1>2, <1>6, <2>1 DEF ExpireLease, Quiet, RunType
<1>7. CASE LoseQueue
  <2>1. faults' \in 0..MaxFaults
    BY <1>7, FaultType DEF LoseQueue
  <2> QED
    BY <1>2, <1>7, <2>1, EmptyBagOfJobs DEF LoseQueue, Quiet
<1>8. ASSUME NEW k \in outbox.open, DeadLetter(k)
      PROVE  Quiet(w, ws[w])
  <2>1. /\ outbox' \in [open: SUBSET Keys, used: SUBSET Keys]
        /\ outbox'.open \subseteq outbox'.used
        /\ outbox'.used = outbox.used
    BY <1>8, CloseType DEF DeadLetter
  <2>2. faults' \in 0..MaxFaults
    BY <1>8, TurnBounds DEF DeadLetter, TypeOK
  <2> QED
    BY <1>2, <1>8, <2>1, <2>2 DEF DeadLetter, Quiet
<1>9. ASSUME NEW v \in Workers, Heartbeat(v)
      PROVE  Quiet(w, ws[w])
  BY <1>2, <1>9 DEF Heartbeat, Quiet, RunType
<1> QED
  BY <1>4, <1>5, <1>6, <1>7, <1>8, <1>9 DEF Dispatch

\* A delivery that starts, finds nothing, fails to read its steps, leaves a
\* waiting run, is dropped, retried or killed: its worker has no claim.
LEMMA UnclaimedSteps ==
    ASSUME TurnInv, NEW w \in Workers,
           \/ \E j \in BagToSet(queue) : Start(w, j)
           \/ FindNothing(w) \/ FailHydration(w) \/ LeaveWaiting(w)
           \/ RethrowHeld(w) \/ EndCancelled(w) \/ ReleaseAndRetry(w) \/ Crash(w)
    PROVE  TurnInv'
<1>1. TypeOK
  BY DEF TurnInv
<1>2. Idle \in WorkerType /\ Idle.pc = "idle"
  BY InitialTypes DEF Idle
<1> USE <1>1, Unmoved
<1>3. ASSUME NEW j \in BagToSet(queue), Start(w, j)
      PROVE  TurnInv'
  <2> DEFINE x == [Idle EXCEPT !.pc = "started", !.job = j]
  <2>1. j \in Jobs
    BY DEF JobBag
  <2>2. x \in WorkerType /\ x.pc = "started"
    BY <1>2, <2>1 DEF WorkerType
  <2>3. JobBag(queue')
    BY <1>3, TakeJob DEF Start
  <2>4. /\ outbox' \in [open: SUBSET Keys, used: SUBSET Keys]
        /\ outbox'.open \subseteq outbox'.used
        /\ outbox'.used = outbox.used
    BY <1>3, CloseType DEF Start
  <2>5. ws' = [ws EXCEPT ![w] = x]
    BY <1>3 DEF Start
  <2> HIDE DEF x
  <2>6. Quiet(w, x)
    BY <1>3, <2>2, <2>3, <2>4, <2>5 DEF Start, Quiet
  <2> QED
    BY <2>2, <2>6, QuietStep
<1>4. SUFFICES ASSUME \/ FindNothing(w) \/ FailHydration(w) \/ LeaveWaiting(w)
                      \/ RethrowHeld(w) \/ EndCancelled(w) \/ ReleaseAndRetry(w)
                      \/ Crash(w)
               PROVE  Quiet(w, Idle)
  BY <1>2, <1>3, QuietStep
<1>5. CASE FindNothing(w) \/ EndCancelled(w)
  BY <1>2, <1>5 DEF FindNothing, EndCancelled, Quiet
<1>6. CASE FailHydration(w)
  BY <1>2, <1>6, FaultType, RetryJobType, ReleaseType DEF FailHydration, Quiet
<1>7. CASE LeaveWaiting(w)
  BY <1>2, <1>7, ReleaseType DEF LeaveWaiting, Quiet
<1>8. CASE RethrowHeld(w)
  BY <1>2, <1>8, RetryJobType DEF RethrowHeld, Quiet
<1>9. CASE ReleaseAndRetry(w)
  BY <1>2, <1>9, RetryJobType, ReleaseType DEF ReleaseAndRetry, Quiet
<1>10. CASE Crash(w)
  <2>1. ws[w].job \in Jobs
    BY DEF WorkerType
  <2>2. JobBag(queue')
    BY <1>10, <2>1, AddJob DEF Crash
  <2> QED
    BY <1>2, <1>10, <2>2, FaultType DEF Crash, Quiet
<1> QED
  BY <1>4, <1>5, <1>6, <1>7, <1>8, <1>9, <1>10


\* An error leaves the operation: the worker keeps its claim and snapshot.
LEMMA RaisedKeeps ==
    ASSUME TypeOK, NEW w \in Workers, Hydrated(w),
           NEW err \in {"retry", "terminal", "cancelled"}
    PROVE  LET x == [ws[w] EXCEPT !.pc = "raised", !.err = err] IN
           x \in WorkerType /\ Keeps(w, x)
<1>1. ws[w] \in WorkerType
  BY Unmoved
<1> QED
  BY <1>1, RaisedType DEF Keeps, Hydrated, WorkerType

\* So does one that goes on to its next place in the same state.
LEMMA PlaceKeeps ==
    ASSUME TypeOK, NEW w \in Workers, Hydrated(w),
           NEW pc \in {"prepared", "requested", "answered", "publishing"},
           pc = "publishing" => ws[w].state = "finalizing",
           pc # "publishing" => ws[w].state = "calling_model"
                                /\ ws[w].model.iteration <= MaxIterations
    PROVE  LET x == [ws[w] EXCEPT !.pc = pc] IN
           x \in WorkerType /\ Keeps(w, x)
<1>1. ws[w] \in WorkerType
  BY Unmoved
<1> QED
  BY <1>1, PlaceType DEF Keeps, Hydrated, WorkerType

\* A commit under a kept lease moves the version on.
LEMMA KeepingFacts ==
    ASSUME TypeOK, NEW w \in Workers, NEW t, NEW m \in ModelSteps, CommitKeeping(w, t, m)
    PROVE  /\ run' \in RunType /\ run'.state = run.state /\ run'.gen = run.gen
           /\ run'.version = run.version + 1 /\ run'.version >= run.version
           /\ run'.lease = run.lease /\ run.lease = "live"
           /\ tool' = t /\ model' = m /\ outbox' = outbox
BY DEF TypeOK, CommitKeeping, CanCommit, RunType

\* Reading the steps, calling the model and the errors of a delivery keep the
\* worker's claim and the run's state.
LEMMA ClaimKeptSteps ==
    ASSUME TurnInv, NEW w \in Workers,
           \/ Hydrate(w) \/ StopAtLimit(w) \/ PrepareModel(w) \/ RequestModel(w)
           \/ RecordAnswer(w) \/ RejectAnswer(w) \/ PublishOutputs(w) \/ LoseCommit(w)
           \/ HearCancellation(w)
           \/ \E err \in {"retry", "terminal"} : FailModel(w, err) \/ RaiseError(w, err)
    PROVE  TurnInv'
<1>1. TypeOK /\ PlaceMatchesState
  BY DEF TurnInv
<1> USE <1>1, Unmoved
<1>2. CASE Hydrate(w)
  <2> DEFINE x == [ws[w] EXCEPT !.pc = "ready", !.tool = tool, !.model = model]
  <2>1. x \in WorkerType /\ x.pc = "ready" /\ x.tool = tool /\ x.model = model
        /\ x.gen = ws[w].gen /\ x.version = ws[w].version /\ x.state = ws[w].state
    BY DEF TypeOK, WorkerType
  <2>2. ws' = [ws EXCEPT ![w] = x]
    BY <1>2 DEF Hydrate
  <2> HIDE DEF x
  <2>3. Keeps(w, x)
    BY <1>2, <2>1 DEF Keeps, Hydrate, Claimed, At
  <2>4. Quiet(w, x)
    BY <1>2, <2>2, <2>3 DEF Quiet, Hydrate
  <2> QED
    BY <2>1, <2>4, QuietStep
<1>3. ASSUME NEW err \in {"retry", "terminal", "cancelled"},
             Raised(w, err), UNCHANGED <<run, model, tool, doubt, outbox, queue>>,
             UNCHANGED <<started, retries>>, Fault \/ UNCHANGED faults, Hydrated(w)
      PROVE  TurnInv'
  <2> DEFINE x == [ws[w] EXCEPT !.pc = "raised", !.err = err]
  <2>1. x \in WorkerType /\ Keeps(w, x)
    BY <1>3, RaisedKeeps
  <2>2. ws' = [ws EXCEPT ![w] = x]
    BY <1>3 DEF Raised
  <2> HIDE DEF x
  <2>3. Quiet(w, x)
    BY <1>3, <2>1, <2>2, FaultType DEF Quiet
  <2> QED
    BY <2>1, <2>3, QuietStep
<1>4. CASE StopAtLimit(w) \/ RejectAnswer(w)
  BY <1>3, <1>4 DEF StopAtLimit, RejectAnswer, Calling, At, Hydrated, Claimed
<1>5. CASE LoseCommit(w)
  BY <1>3, <1>5 DEF LoseCommit, At, Hydrated, Claimed
<1>6. CASE HearCancellation(w)
  BY <1>3, <1>6 DEF HearCancellation, Hydrated, Claimed
<1>7. ASSUME NEW err \in {"retry", "terminal"}, RaiseError(w, err)
      PROVE  TurnInv'
  BY <1>3, <1>7 DEF RaiseError, Hydrated, Claimed
<1>8. ASSUME NEW err \in {"retry", "terminal"}, FailModel(w, err)
      PROVE  TurnInv'
  <2> DEFINE x == [ws[w] EXCEPT !.pc = "raised", !.err = err]
  <2>1. x \in WorkerType /\ Keeps(w, x)
    BY <1>8, RaisedKeeps DEF FailModel, At, Hydrated, Claimed
  <2>2. ws' = [ws EXCEPT ![w] = x]
    BY <1>8 DEF FailModel, Raised
  <2> HIDE DEF x
  <2>3. CommitKeeping(w, tool, model)
    BY <1>8 DEF FailModel
  <2>4. Quiet(w, x)
    BY <1>8, <2>1, <2>2, <2>3, KeepingFacts, FaultType DEF FailModel, Quiet
  <2> QED
    BY <2>1, <2>4, QuietStep
<1>9. CASE PublishOutputs(w)
  <2> DEFINE x == [ws[w] EXCEPT !.pc = "publishing"]
  <2>1. x \in WorkerType /\ Keeps(w, x)
    BY <1>9, PlaceKeeps DEF PublishOutputs, At, Hydrated, Claimed
  <2>2. ws' = [ws EXCEPT ![w] = x]
    BY <1>9 DEF PublishOutputs, Goto
  <2> HIDE DEF x
  <2>3. Quiet(w, x)
    BY <1>9, <2>1, <2>2 DEF PublishOutputs, Quiet
  <2> QED
    BY <2>1, <2>3, QuietStep
<1>10. ASSUME NEW pc \in {"prepared", "requested", "answered"}, Goto(w, pc),
              NEW m \in ModelSteps, m.iteration = model.iteration,
              CommitKeeping(w, tool, m), Hydrated(w), ws[w].state = "calling_model",
              ws[w].model.iteration <= MaxIterations,
              UNCHANGED <<doubt, queue, started, retries, faults>>
       PROVE  TurnInv'
  <2> DEFINE x == [ws[w] EXCEPT !.pc = pc]
  <2>1. x \in WorkerType /\ Keeps(w, x)
    BY <1>10, PlaceKeeps
  <2>2. ws' = [ws EXCEPT ![w] = x]
    BY <1>10 DEF Goto
  <2> HIDE DEF x
  <2>3. Quiet(w, x)
    BY <1>10, <2>1, <2>2, KeepingFacts DEF Quiet
  <2> QED
    BY <2>1, <2>3, QuietStep
<1>11. CASE PrepareModel(w)
  <2>1. ws[w].model.iteration <= MaxIterations
    <3>1. ws[w].model.iteration \in Nat /\ MaxIterations \in Nat
      BY TurnBounds DEF WorkerType, ModelSteps
    <3> QED
      BY <1>11, <3>1 DEF PrepareModel, ModelLimit
  <2> QED
    BY <1>10, <1>11, <2>1 DEF PrepareModel, Calling, At, Hydrated, Claimed
<1>12. CASE RequestModel(w)
  <2>1. model.attempt + 1 \in Nat
    BY DEF ModelSteps
  <2> DEFINE m == [model EXCEPT !.attempt = model.attempt + 1]
  <2>2. m \in ModelSteps /\ m.iteration = model.iteration
    BY <2>1 DEF ModelSteps
  <2>3. CommitKeeping(w, tool, m)
    BY <1>12 DEF RequestModel
  <2> HIDE DEF m
  <2> QED
    BY <1>10, <1>12, <2>2, <2>3
    DEF RequestModel, At, Hydrated, Claimed, PlaceMatchesState
<1>13. CASE RecordAnswer(w)
  BY <1>10, <1>13 DEF RecordAnswer, At, Hydrated, Claimed, PlaceMatchesState
<1> QED
  BY <1>2, <1>4, <1>5, <1>6, <1>7, <1>8, <1>9, <1>11, <1>12, <1>13

-----------------------------------------------------------------------------
(* Claiming the run, and beginning its tool call. *)

\* A claim takes a generation no other worker has, and reads the run's state.
LEMMA ClaimStep ==
    ASSUME TurnInv, NEW w \in Workers, Claim(w)
    PROVE  TurnInv'
<1>1. TypeOK
  BY DEF TurnInv
<1> USE <1>1, Unmoved
<1> DEFINE x == [ws[w] EXCEPT !.pc = "claimed", !.gen = run.gen + 1,
                              !.version = run.version, !.state = run.state]
<1>2. run.gen \in Nat /\ run.gen + 1 \in Nat /\ run.version \in Nat /\ run.state \in States
  BY DEF RunType
<1>3. /\ x \in WorkerType /\ x.pc = "claimed" /\ x.gen = run.gen + 1
      /\ x.version = run.version /\ x.state = run.state
  BY <1>2 DEF WorkerType
<1>4. ws' = [ws EXCEPT ![w] = x]
  BY DEF Claim
<1> HIDE DEF x
<1>5. /\ ws' \in [Workers -> WorkerType]
      /\ ws'[w] = x /\ \A v \in Workers \ {w} : ws'[v] = ws[v]
  BY <1>3, <1>4, WorkerMoves
<1>6. /\ run' \in RunType /\ run'.gen = run.gen + 1 /\ run'.version = run.version
      /\ run'.state = run.state /\ run.state \notin Terminal
  <2>1. run' = [run EXCEPT !.gen = run.gen + 1, !.lease = "live"]
    BY DEF Claim
  <2> QED
    BY <1>2, <2>1 DEF Claim, RunType
<1>7. UNCHANGED <<model, tool, doubt, outbox, queue, started, retries, faults>>
  BY DEF Claim
<1>8. TypeOK'
  BY <1>5, <1>6, <1>7 DEF TypeOK
<1>9. \A v \in Workers : Claimed(v) => /\ ws[v].gen \in 1..run.gen
                                       /\ ws[v].version <= run.version
  BY DEF TurnInv, LeaseFences
<1>10. LeaseFences'
  <2>1. \A v \in Workers \ {w} : Claimed(v)' <=> Claimed(v)
    BY <1>5 DEF Claimed
  <2>2. \A v \in Workers : Claimed(v)' => ws'[v].gen \in 1..run'.gen
                                          /\ ws'[v].version <= run'.version
    BY <1>2, <1>3, <1>5, <1>6, <1>9, <2>1
  <2>3. \A u, v \in Workers : Claimed(u)' /\ Claimed(v)' /\ ws'[u].gen = ws'[v].gen => u = v
    <3>1. \A v \in Workers \ {w} : Claimed(v)' => ws'[v].gen # run.gen + 1
      BY <1>2, <1>5, <1>9, <2>1
    <3>2. \A u, v \in Workers \ {w} :
              Claimed(u)' /\ Claimed(v)' /\ ws'[u].gen = ws'[v].gen => u = v
      BY <1>5, <2>1 DEF TurnInv, LeaseFences
    <3> QED
      BY <1>3, <1>5, <3>1, <3>2
  <2> QED
    BY <1>6, <2>2, <2>3 DEF LeaseFences
<1>11. HolderIsCurrent'
  <2> SUFFICES ASSUME NEW v \in Workers, Claimed(v)', Holder(v)'
               PROVE  /\ ws'[v].state = run'.state
                      /\ ~Hydrated(v)'
                      /\ \A k \in outbox'.used : k.of = "wake" => k.at <= ws'[v].version
    BY DEF HolderIsCurrent
  <2>1. ws'[v].gen = run.gen + 1
    BY <1>6 DEF Holder
  <2>2. v # w => Claimed(v) /\ ws[v].gen = run.gen + 1
    BY <1>5, <2>1 DEF Claimed
  <2>3. v = w
    BY <1>2, <1>9, <2>2
  <2> QED
    BY <1>3, <1>5, <1>6, <1>7, <2>3 DEF TurnInv, KeysAreSpent, Hydrated
<1>12. PlaceMatchesState'
  BY <1>3, <1>5 DEF TurnInv, PlaceMatchesState
<1>13. IterationMatchesState' /\ RunMatchesStep' /\ QuestionsAreAsked' /\ KeysAreSpent'
  BY <1>6, <1>7 DEF TurnInv, IterationMatchesState, RunMatchesStep, QuestionsAreAsked,
                    HoldsForReview, KeysAreSpent, BetweenCalls
<1>14. \A i \in 1..MaxIterations :
           /\ Intending(i)' \subseteq Intending(i)
           /\ Begun(i)' \in Nat /\ Begun(i)' <= Begun(i) /\ Begun(i) \in Nat
           /\ retries[i] \in Nat
  <2>1. \A v \in Workers : ws'[v].pc = "intended" => ws'[v] = ws[v]
    BY <1>3, <1>5
  <2> QED
    BY <1>7, <1>8, <2>1, NoMoreBegun, BegunFacts
<1>15. UnmadeCallsNotBegun'
  BY <1>6, <1>7, <1>14 DEF TurnInv, UnmadeCallsNotBegun, BetweenCalls
<1>16. CallsAreCounted'
  BY <1>7, <1>14 DEF TurnInv, CallsAreCounted, NonIdempotent, HoldsForReview
<1> QED
  BY <1>8, <1>10, <1>11, <1>12, <1>13, <1>15, <1>16 DEF TurnInv

\* Only one worker holds the lease.
LEMMA OneHolder ==
    ASSUME TurnInv, NEW v \in Workers, NEW w \in Workers,
           Claimed(v), Holder(v), Claimed(w), Holder(w)
    PROVE  v = w
BY DEF TurnInv, LeaseFences, Holder

\* A worker that may commit sees the run and its steps as they are.
LEMMA CommitterIsCurrent ==
    ASSUME TurnInv, NEW w \in Workers, Hydrated(w), CanCommit(w)
    PROVE  /\ run.state = ws[w].state /\ ws[w].tool = tool
           /\ ws[w].model.iteration = model.iteration
           /\ ws[w].version <= run.version
           /\ \A k \in outbox.used : k.of = "wake" => k.at <= ws[w].version
           /\ run.state \notin Terminal
BY DEF TurnInv, HolderIsCurrent, LeaseFences, CanCommit, Hydrated

\* The running marker: one more beginning of the call, which it may have.
LEMMA IntendStep ==
    ASSUME TurnInv, NEW w \in Workers, IntendTool(w)
    PROVE  TurnInv'
<1>1. TypeOK
  BY DEF TurnInv
<1> USE <1>1, Unmoved
<1>2. Hydrated(w) /\ CanCommit(w) /\ ws[w].pc = "ready" /\ ws[w].state = "executing_tool"
  BY DEF IntendTool, Executing, At, CommitKeeping, Hydrated, Claimed
<1>3. /\ run.state = "executing_tool" /\ ws[w].tool = tool
      /\ ws[w].model.iteration = model.iteration
      /\ \A k \in outbox.used : k.of = "wake" => k.at <= ws[w].version
  BY <1>2, CommitterIsCurrent
<1> DEFINE t == [tool EXCEPT !.st = "running"]
           x == [ws[w] EXCEPT !.pc = "intended", !.tool = t]
<1>4. /\ t \in ToolSteps /\ t.st = "running" /\ t.kind = tool.kind
      /\ t.asks = tool.asks /\ t.wait = tool.wait /\ t.cleared = tool.cleared
  BY DEF TypeOK, ToolSteps, StepStates, Unfinished
<1>5. t = [ws[w].tool EXCEPT !.st = "running"]
  BY <1>3
<1>6. ws' = [ws EXCEPT ![w] = x]
  <2>1. x = [ws[w] EXCEPT !.pc = "intended", !.tool = [ws[w].tool EXCEPT !.st = "running"]]
    BY <1>3
  <2> HIDE DEF x
  <2> QED
    BY <2>1, Zenon DEF IntendTool
<1>7. CommitKeeping(w, t, model)
  BY <1>5 DEF IntendTool
<1> HIDE DEF t
<1>8. /\ x \in WorkerType /\ x.pc = "intended" /\ x.tool = t /\ x.gen = ws[w].gen
      /\ x.version = ws[w].version /\ x.state = ws[w].state /\ x.model = ws[w].model
  BY <1>4 DEF WorkerType
<1> HIDE DEF x
<1>9. /\ run' \in RunType /\ run'.state = run.state /\ run'.gen = run.gen
      /\ run'.version = run.version + 1 /\ run'.lease = run.lease
      /\ tool' = t /\ model' = model /\ outbox' = outbox
  BY <1>7, KeepingFacts
<1>10. UNCHANGED <<doubt, queue, started, retries, faults>>
  BY DEF IntendTool
<1>11. /\ ws' \in [Workers -> WorkerType]
       /\ ws'[w] = x /\ \A v \in Workers \ {w} : ws'[v] = ws[v]
  BY <1>6, <1>8, WorkerMoves
<1>12. TypeOK'
  BY <1>4, <1>9, <1>10, <1>11 DEF TypeOK
<1>13. Claimed(w) /\ Claimed(w)' /\ \A v \in Workers : Claimed(v)' <=> Claimed(v)
  BY <1>2, <1>8, <1>11 DEF Claimed, Hydrated
<1>14. LeaseFences'
  <2>1. \A v \in Workers : ws'[v].gen = ws[v].gen /\ ws'[v].version = ws[v].version
                           /\ ws[v].version \in Nat
    BY <1>8, <1>11 DEF WorkerType
  <2> QED
    BY <1>9, <1>13, <2>1 DEF TurnInv, LeaseFences, Terminal
<1>15. HolderIsCurrent'
  <2> SUFFICES ASSUME NEW v \in Workers, Claimed(v)', Holder(v)'
               PROVE  /\ ws'[v].state = run'.state
                      /\ ws'[v].tool = tool'
                      /\ ws'[v].model.iteration = model'.iteration
                      /\ \A k \in outbox'.used : k.of = "wake" => k.at <= ws'[v].version
    BY DEF HolderIsCurrent
  <2>1. Claimed(v) /\ Holder(v) /\ Holder(w)
    BY <1>2, <1>8, <1>9, <1>11, <1>13 DEF Holder, CanCommit
  <2>2. v = w
    BY <1>13, <2>1, OneHolder
  <2> QED
    BY <1>2, <1>3, <1>8, <1>9, <1>11, <2>2
<1>16. model.iteration \in 1..MaxIterations
  BY <1>3 DEF TurnInv, IterationMatchesState
<1>17. PlaceMatchesState'
  BY <1>2, <1>3, <1>4, <1>8, <1>11, <1>16 DEF TurnInv, PlaceMatchesState
<1>18. tool.st \in {"pending", "running"} /\ tool.kind # "question"
  BY <1>3 DEF TurnInv, RunMatchesStep, IntendTool
<1>19. IterationMatchesState' /\ RunMatchesStep' /\ QuestionsAreAsked'
  BY <1>3, <1>4, <1>9, <1>16, <1>18
  DEF TurnInv, IterationMatchesState, RunMatchesStep, QuestionsAreAsked, HoldsForReview
<1>20. KeysAreSpent'
  <2>1. \A k \in outbox.used : k.at \in Nat
    BY DEF Keys
  <2> QED
    BY <1>4, <1>9, <2>1 DEF TurnInv, KeysAreSpent, BetweenCalls
<1>21. \A i \in 1..MaxIterations : i # model.iteration => Intending(i)' = Intending(i)
  BY <1>2, <1>3, <1>8, <1>11 DEF Intending
<1>22. UnmadeCallsNotBegun'
  BY <1>3, <1>9, <1>10, <1>21 DEF TurnInv, UnmadeCallsNotBegun, BetweenCalls
<1>23. CallsAreCounted'
  <2> SUFFICES ASSUME NEW i \in 1..MaxIterations, i = model.iteration
               PROVE  /\ NonIdempotent(t) => Begun(i)' <= 1 + retries[i]
                      /\ ~(t.asks /\ t.wait # "approved")
                      /\ HoldsForReview(t) /\ doubt => retries[i] > 0
                      /\ t.cleared => retries[i] > 0
    BY <1>4, <1>9, <1>10 DEF CallsAreCounted
  <2>1. Begun(i)' = Begun(i) + 1
    <3>1. Intending(i)' = Intending(i) \cup {w} /\ w \notin Intending(i)
      BY <1>2, <1>3, <1>8, <1>11 DEF Intending
    <3>2. IsFiniteSet(Intending(i)) /\ Cardinality(Intending(i)) \in Nat /\ started[i] \in Nat
      BY BegunFacts
    <3>3. Cardinality(Intending(i)') = Cardinality(Intending(i)) + 1
      BY <3>1, <3>2, FS_AddElement
    <3>4. Begun(i)' = started'[i] + Cardinality(Intending(i)')
      BY DEF Begun
    <3>5. Begun(i) = started[i] + Cardinality(Intending(i))
      BY DEF Begun
    <3> QED
      BY <1>10, <3>2, <3>3, <3>4, <3>5
  <2>2. Begun(i) \in Nat /\ retries[i] \in Nat
    BY BegunFacts
  <2>3. /\ NonIdempotent(tool) /\ tool.st \in {"pending", "waiting"} => Begun(i) <= retries[i]
        /\ tool.cleared /\ tool.st \in Unfinished => retries[i] > 0
    BY DEF TurnInv, CallsAreCounted
  <2>4. /\ ~(tool.asks /\ tool.wait # "approved") \/ (tool.st = "running" /\ NonIdempotent(tool))
        /\ NonIdempotent(tool) => tool.st = "pending"
        /\ tool.st = "pending" /\ HoldsForReview(tool) /\ doubt => tool.cleared
    BY <1>3, <1>18 DEF IntendTool, HeldBack, Interrupted, NeedsApproval
  <2>5. t.kind = tool.kind /\ (t.asks <=> tool.asks) /\ t.wait = tool.wait
        /\ (t.cleared <=> tool.cleared)
    BY <1>4
  <2>6. NonIdempotent(t) => Begun(i)' <= 1 + retries[i]
    BY <2>1, <2>2, <2>3, <2>4, <2>5 DEF NonIdempotent
  <2>7. ~(t.asks /\ t.wait # "approved")
    BY <2>4, <2>5
  <2>8. t.cleared => retries[i] > 0
    BY <1>18, <2>3, <2>5 DEF Unfinished
  <2>9. HoldsForReview(t) /\ doubt => t.cleared
    BY <2>4, <2>5 DEF HoldsForReview, NonIdempotent
  <2> QED
    BY <2>6, <2>7, <2>8, <2>9
<1> QED
  BY <1>12, <1>14, <1>15, <1>17, <1>19, <1>20, <1>22, <1>23 DEF TurnInv

\* The call reaches its target: an intended beginning becomes a real one.
LEMMA RunStep ==
    ASSUME TurnInv, NEW w \in Workers, RunTool(w)
    PROVE  TurnInv'
<1>1. TypeOK
  BY DEF TurnInv
<1> USE <1>1, Unmoved
<1> DEFINE x == [ws[w] EXCEPT !.pc = "ran"]
<1>2. /\ x \in WorkerType /\ x.pc = "ran" /\ x.tool = ws[w].tool /\ x.gen = ws[w].gen
      /\ x.version = ws[w].version /\ x.state = ws[w].state /\ x.model = ws[w].model
  BY DEF WorkerType
<1>3. ws' = [ws EXCEPT ![w] = x]
  BY DEF RunTool, Goto
<1> HIDE DEF x
<1>4. /\ ws' \in [Workers -> WorkerType]
      /\ ws'[w] = x /\ \A v \in Workers \ {w} : ws'[v] = ws[v]
  BY <1>2, <1>3, WorkerMoves
<1>5. UNCHANGED <<run, model, tool, doubt, outbox, queue, retries, faults>>
  BY DEF RunTool
<1>6. PICK n \in 1..MaxIterations : n = ws[w].model.iteration
  BY DEF TurnInv, PlaceMatchesState, RunTool, At
<1>7. started' = [started EXCEPT ![n] = @ + 1]
  BY <1>6 DEF RunTool
<1>8. TypeOK'
  BY <1>4, <1>5, <1>7 DEF TypeOK
<1>9. \A v \in Workers :
          /\ Claimed(v)' <=> Claimed(v)
          /\ Hydrated(v)' <=> Hydrated(v)
          /\ ws'[v].gen = ws[v].gen /\ ws'[v].version = ws[v].version
          /\ ws'[v].state = ws[v].state /\ ws'[v].tool = ws[v].tool
          /\ ws'[v].model = ws[v].model
  BY <1>2, <1>4 DEF Claimed, Hydrated, RunTool, At
<1>10. LeaseFences'
  BY <1>5, <1>9 DEF TurnInv, LeaseFences
<1>11. HolderIsCurrent'
  BY <1>5, <1>9 DEF TurnInv, HolderIsCurrent, Holder
<1>12. PlaceMatchesState'
  BY <1>2, <1>4 DEF TurnInv, PlaceMatchesState, RunTool, At
<1>13. IterationMatchesState' /\ RunMatchesStep' /\ QuestionsAreAsked' /\ KeysAreSpent'
  BY <1>5 DEF TurnInv, IterationMatchesState, RunMatchesStep, QuestionsAreAsked,
              HoldsForReview, KeysAreSpent, BetweenCalls
<1>14. w \in Intending(n)
  BY <1>6 DEF Intending, RunTool, At
<1>15. \A i \in 1..MaxIterations :
           i # n => Intending(i)' = Intending(i) /\ started'[i] = started[i]
  BY <1>2, <1>4, <1>6, <1>7 DEF Intending, TypeOK
<1>16. UnmadeCallsNotBegun'
  BY <1>5, <1>14, <1>15 DEF TurnInv, UnmadeCallsNotBegun, BetweenCalls
<1>17. \A i \in 1..MaxIterations : Begun(i)' = Begun(i)
  <2>1. Begun(n)' = Begun(n)
    <3>1. Intending(n)' = Intending(n) \ {w}
      BY <1>2, <1>4 DEF Intending
    <3>2. IsFiniteSet(Intending(n)) /\ Cardinality(Intending(n)) \in Nat /\ started[n] \in Nat
      BY BegunFacts
    <3>3. Cardinality(Intending(n)') = Cardinality(Intending(n)) - 1
      BY <1>14, <3>1, <3>2, FS_RemoveElement
    <3>4. started'[n] = started[n] + 1
      BY <1>7 DEF TypeOK
    <3>5. Begun(n)' = started'[n] + Cardinality(Intending(n)')
      BY DEF Begun
    <3>6. Begun(n) = started[n] + Cardinality(Intending(n))
      BY DEF Begun
    <3> QED
      BY <3>2, <3>3, <3>4, <3>5, <3>6
  <2> QED
    BY <1>15, <2>1 DEF Begun
<1>18. CallsAreCounted'
  BY <1>5, <1>17 DEF TurnInv, CallsAreCounted, NonIdempotent, HoldsForReview
<1> QED
  BY <1>8, <1>10, <1>11, <1>12, <1>13, <1>16, <1>18 DEF TurnInv

-----------------------------------------------------------------------------
(* Steps that move the run to another state and clear its lease. *)

\* What the commits of a delivery and the API's transactions have in common.
Moves ==
    /\ TypeOK' /\ run'.lease = "none" /\ run'.gen = run.gen
    /\ run'.version >= run.version
    /\ \A v \in Workers : ws'[v] = ws[v] \/ ws'[v].pc = "idle"
    /\ started' = started

\* Without a lease there is no holder, and no other worker has moved.
LEMMA UnleasedStep ==
    ASSUME TurnInv, Moves
    PROVE  LeaseFences' /\ HolderIsCurrent' /\ PlaceMatchesState'
<1>1. TypeOK /\ TypeOK'
  BY DEF TurnInv, Moves
<1>2. \A v \in Workers : Claimed(v)' => Claimed(v) /\ ws'[v] = ws[v]
  BY DEF Moves, Claimed
<1>3. run.version \in Nat /\ run'.version \in Nat /\ \A v \in Workers : ws[v].version \in Nat
  BY <1>1 DEF TypeOK, RunType, WorkerType
<1>4. LeaseFences'
  BY <1>2, <1>3 DEF TurnInv, LeaseFences, Moves
<1>5. HolderIsCurrent'
  BY DEF HolderIsCurrent, Holder, Moves
<1>6. PlaceMatchesState'
  <2> SUFFICES ASSUME NEW v \in Workers, ws'[v].pc # "idle"
               PROVE  ws'[v] = ws[v]
    BY DEF TurnInv, PlaceMatchesState
  <2> QED
    BY DEF Moves
<1> QED
  BY <1>4, <1>5, <1>6

\* No beginning is added.
LEMMA MovesBeginNothing ==
    ASSUME TurnInv, Moves, NEW i \in 1..MaxIterations
    PROVE  /\ Intending(i)' \subseteq Intending(i) /\ started'[i] = started[i]
           /\ Begun(i)' \in Nat /\ Begun(i)' <= Begun(i) /\ Begun(i) \in Nat
           /\ retries[i] \in Nat
<1>1. TypeOK /\ TypeOK' /\ started' = started
  BY DEF TurnInv, Moves
<1>2. \A v \in Workers : ws'[v].pc = "intended" => ws'[v] = ws[v]
  BY DEF Moves
<1> QED
  BY <1>1, <1>2, NoMoreBegun, BegunFacts

\* While no call is at hand, its step is finished and nobody is asked.
LEMMA NoCallAtHand ==
    ASSUME TurnInv, BetweenCalls
    PROVE  tool.st \notin Unfinished \cup {"recovery_required"} /\ tool.wait # "pending"
BY DEF TurnInv, RunMatchesStep, BetweenCalls, Unfinished

\* Versions, iterations and the numbers of the keys are natural numbers.
LEMMA Numbers ==
    ASSUME TypeOK
    PROVE  /\ run.version \in Nat /\ model.iteration \in Nat
           /\ \A k \in outbox.used : k.at \in Nat
BY DEF TypeOK, RunType, ModelSteps, Keys

\* The run goes on with the next model call.
LEMMA ToNextCall ==
    ASSUME TurnInv, Moves, run'.state = "calling_model",
           model'.iteration = model.iteration + 1,
           tool'.st \notin Unfinished \cup {"recovery_required"}, tool'.wait # "pending",
           \A k \in outbox'.used :
               \/ k \in outbox.used
               \/ k.of \in {"wake", "operator"} /\ k.at <= run'.version
               \/ k.of = "question" /\ k.at = model.iteration
    PROVE  TurnInv'
<1>1. TypeOK /\ TypeOK'
  BY DEF TurnInv, Moves
<1>2. /\ run.version \in Nat /\ model.iteration \in Nat /\ run'.version \in Nat
      /\ \A k \in outbox'.used : k.at \in Nat
  BY <1>1, Numbers DEF TypeOK, RunType, Keys
<1>3. LeaseFences' /\ HolderIsCurrent' /\ PlaceMatchesState'
  BY UnleasedStep
<1>4. IterationMatchesState'
  BY <1>2 DEF IterationMatchesState
<1>5. RunMatchesStep' /\ QuestionsAreAsked'
  BY DEF RunMatchesStep, QuestionsAreAsked, Unfinished
<1>6. KeysAreSpent'
  <2> SUFFICES ASSUME NEW k \in outbox'.used
               PROVE  /\ k.of \in {"wake", "operator"} => k.at <= run'.version
                      /\ k.of \in {"question", "approval"} => k.at < model'.iteration
    BY DEF KeysAreSpent
  <2>1. CASE k \in outbox.used
    <3>1. /\ k.of \in {"wake", "operator"} => k.at <= run.version
          /\ k.of \in {"question", "approval"} => k.at <= model.iteration
      BY <1>2, <2>1 DEF TurnInv, KeysAreSpent
    <3> QED
      BY <1>2, <3>1 DEF Moves
  <2> QED
    BY <1>2, <2>1
<1>7. \A i \in 1..MaxIterations : i >= model'.iteration =>
          started[i] = 0 /\ Intending(i) = {}
  BY <1>2 DEF TurnInv, UnmadeCallsNotBegun
<1>8. UnmadeCallsNotBegun'
  <2> SUFFICES ASSUME NEW i \in 1..MaxIterations, i >= model'.iteration
               PROVE  started'[i] = 0 /\ Intending(i)' = {}
    BY <1>2 DEF UnmadeCallsNotBegun
  <2> QED
    BY <1>7, MovesBeginNothing
<1>9. CallsAreCounted'
  <2> SUFFICES ASSUME NEW i \in 1..MaxIterations, i = model'.iteration
               PROVE  Begun(i)' = 0 /\ retries'[i] \in Nat
    BY DEF CallsAreCounted, Unfinished
  <2>1. Begun(i) = 0
    BY <1>1, <1>7, BegunFacts
  <2>2. Begun(i)' \in Nat /\ Begun(i)' <= Begun(i)
    BY MovesBeginNothing
  <2>3. retries'[i] \in Nat
    BY <1>1 DEF TypeOK
  <2> QED
    BY <2>1, <2>2, <2>3
<1> QED
  BY <1>1, <1>3, <1>4, <1>5, <1>6, <1>8, <1>9 DEF TurnInv

\* The run ends, or waits for its review.
LEMMA ToTerminal ==
    ASSUME TurnInv, Moves, run'.state \in Terminal,
           model'.iteration = model.iteration, doubt' = doubt, retries' = retries,
           outbox'.used = outbox.used,
           tool'.kind = tool.kind, tool'.asks <=> tool.asks,
           tool'.wait = IF tool.wait = "pending" THEN "expired" ELSE tool.wait,
           tool'.st \notin Unfinished,
           tool'.st = "recovery_required" =>
               HoldsForReview(tool) /\ run'.state \in {"recovery_required", "cancelled"},
           run'.state = "recovery_required" =>
               tool'.st = "recovery_required" /\ model.iteration \in 1..MaxIterations
    PROVE  TurnInv'
<1>1. TypeOK /\ TypeOK'
  BY DEF TurnInv, Moves
<1>2. /\ run.version \in Nat /\ model.iteration \in Nat /\ run'.version \in Nat
      /\ \A k \in outbox.used : k.at \in Nat
  BY <1>1, Numbers DEF TypeOK, RunType
<1>3. LeaseFences' /\ HolderIsCurrent' /\ PlaceMatchesState'
  BY UnleasedStep
<1>4. IterationMatchesState'
  BY DEF IterationMatchesState, Terminal
<1>5. RunMatchesStep' /\ QuestionsAreAsked'
  BY DEF RunMatchesStep, QuestionsAreAsked, Unfinished, Terminal, HoldsForReview
<1>6. ~BetweenCalls'
  BY DEF BetweenCalls, Terminal
<1>7. KeysAreSpent'
  BY <1>2, <1>6 DEF TurnInv, KeysAreSpent, Moves
<1>8. UnmadeCallsNotBegun'
  BY <1>6, MovesBeginNothing DEF TurnInv, UnmadeCallsNotBegun
<1>9. CallsAreCounted'
  <2> SUFFICES ASSUME NEW i \in 1..MaxIterations, i = model.iteration
               PROVE  /\ NonIdempotent(tool) => Begun(i)' <= 1 + retries[i]
                      /\ tool.asks /\ tool'.wait # "approved" => Begun(i)' = 0
                      /\ HoldsForReview(tool) /\ doubt /\ Begun(i)' > 0 => retries[i] > 0
    BY DEF CallsAreCounted, Unfinished, NonIdempotent, HoldsForReview
  <2>1. /\ Begun(i)' \in Nat /\ Begun(i)' <= Begun(i) /\ Begun(i) \in Nat
        /\ retries[i] \in Nat
    BY MovesBeginNothing
  <2>2. /\ NonIdempotent(tool) => Begun(i) <= 1 + retries[i]
        /\ tool.asks /\ tool.wait # "approved" => Begun(i) = 0
        /\ HoldsForReview(tool) /\ doubt /\ Begun(i) > 0 => retries[i] > 0
    BY DEF TurnInv, CallsAreCounted
  <2> QED
    BY <2>1, <2>2
<1> QED
  BY <1>1, <1>3, <1>4, <1>5, <1>7, <1>8, <1>9 DEF TurnInv


\* A step that stays with the iteration and its beginnings.
LEMMA SameCallCounts ==
    ASSUME TurnInv, Moves, model'.iteration = model.iteration,
           BetweenCalls' => BetweenCalls
    PROVE  UnmadeCallsNotBegun'
BY MovesBeginNothing DEF TurnInv, UnmadeCallsNotBegun

\* The model answered with a call: nothing of it has begun.
LEMMA ToCall ==
    ASSUME TurnInv, Moves, run.state = "calling_model", run'.state = "executing_tool",
           model'.iteration = model.iteration, model.iteration \in 1..MaxIterations,
           tool'.st = "pending", tool'.wait = "none", ~tool'.cleared,
           \A k \in outbox'.used :
               k \in outbox.used \/ (k.of = "wake" /\ k.at <= run'.version)
    PROVE  TurnInv'
<1>1. TypeOK /\ TypeOK'
  BY DEF TurnInv, Moves
<1>2. /\ run.version \in Nat /\ model.iteration \in Nat /\ run'.version \in Nat
      /\ \A k \in outbox'.used : k.at \in Nat
  BY <1>1, Numbers DEF TypeOK, RunType, Keys
<1>3. LeaseFences' /\ HolderIsCurrent' /\ PlaceMatchesState'
  BY UnleasedStep
<1>4. IterationMatchesState' /\ RunMatchesStep' /\ QuestionsAreAsked'
  BY DEF IterationMatchesState, RunMatchesStep, QuestionsAreAsked
<1>5. KeysAreSpent'
  BY <1>2 DEF TurnInv, KeysAreSpent, BetweenCalls, Moves
<1>6. UnmadeCallsNotBegun'
  BY SameCallCounts DEF BetweenCalls
<1>7. CallsAreCounted'
  <2> SUFFICES ASSUME NEW i \in 1..MaxIterations, i = model.iteration
               PROVE  Begun(i)' = 0 /\ retries'[i] \in Nat
    BY DEF CallsAreCounted
  <2>1. Begun(i) = 0
    BY <1>1, BegunFacts DEF TurnInv, UnmadeCallsNotBegun, BetweenCalls
  <2>2. Begun(i)' \in Nat /\ Begun(i)' <= Begun(i)
    BY MovesBeginNothing
  <2>3. retries'[i] \in Nat
    BY <1>1 DEF TypeOK
  <2> QED
    BY <2>1, <2>2, <2>3
<1> QED
  BY <1>1, <1>3, <1>4, <1>5, <1>6, <1>7 DEF TurnInv

\* The model answered with the final text.
LEMMA ToFinalizing ==
    ASSUME TurnInv, Moves, run.state = "calling_model", run'.state = "finalizing",
           model'.iteration = model.iteration, tool' = tool, doubt' = doubt,
           retries' = retries,
           \A k \in outbox'.used :
               k \in outbox.used \/ (k.of = "wake" /\ k.at <= run'.version)
    PROVE  TurnInv'
<1>1. TypeOK /\ TypeOK'
  BY DEF TurnInv, Moves
<1>2. /\ run.version \in Nat /\ run'.version \in Nat
      /\ \A k \in outbox'.used : k.at \in Nat
  BY <1>1, Numbers DEF TypeOK, RunType, Keys
<1>3. LeaseFences' /\ HolderIsCurrent' /\ PlaceMatchesState'
  BY UnleasedStep
<1>4. IterationMatchesState' /\ RunMatchesStep' /\ QuestionsAreAsked'
  BY DEF TurnInv, IterationMatchesState, RunMatchesStep, QuestionsAreAsked
<1>5. KeysAreSpent'
  BY <1>2 DEF TurnInv, KeysAreSpent, BetweenCalls, Moves
<1>6. UnmadeCallsNotBegun'
  BY SameCallCounts DEF BetweenCalls
<1>7. CallsAreCounted'
  <2>1. \A i \in 1..MaxIterations :
            Begun(i)' \in Nat /\ Begun(i)' <= Begun(i) /\ Begun(i) \in Nat
            /\ retries[i] \in Nat
    BY MovesBeginNothing
  <2> QED
    BY <2>1 DEF TurnInv, CallsAreCounted, NonIdempotent, HoldsForReview
<1> QED
  BY <1>1, <1>3, <1>4, <1>5, <1>6, <1>7 DEF TurnInv

\* The call waits for a decision or an answer: nothing of it has begun since.
LEMMA ToWaiting ==
    ASSUME TurnInv, Moves, run.state = "executing_tool", run'.state = "waiting",
           model'.iteration = model.iteration, doubt' = doubt, retries' = retries,
           outbox'.used = outbox.used,
           tool'.kind = tool.kind, tool'.asks <=> tool.asks,
           tool'.cleared <=> tool.cleared, tool'.st = "waiting", tool'.wait = "pending",
           tool.wait = "none", NonIdempotent(tool) => tool.st = "pending"
    PROVE  TurnInv'
<1>1. TypeOK /\ TypeOK'
  BY DEF TurnInv, Moves
<1>2. /\ run.version \in Nat /\ run'.version \in Nat
      /\ \A k \in outbox.used : k.at \in Nat
  BY <1>1, Numbers DEF TypeOK, RunType
<1>3. LeaseFences' /\ HolderIsCurrent' /\ PlaceMatchesState'
  BY UnleasedStep
<1>4. IterationMatchesState' /\ RunMatchesStep' /\ QuestionsAreAsked'
  BY DEF TurnInv, IterationMatchesState, RunMatchesStep, QuestionsAreAsked
<1>5. KeysAreSpent'
  BY <1>2 DEF TurnInv, KeysAreSpent, Moves
<1>6. UnmadeCallsNotBegun'
  BY SameCallCounts DEF BetweenCalls
<1>7. CallsAreCounted'
  <2>1. \A i \in 1..MaxIterations :
            Begun(i)' \in Nat /\ Begun(i)' <= Begun(i) /\ Begun(i) \in Nat
            /\ retries[i] \in Nat
    BY MovesBeginNothing
  <2>2. tool.st \in Unfinished
    BY DEF TurnInv, RunMatchesStep, Unfinished
  <2> QED
    BY <2>1, <2>2 DEF TurnInv, CallsAreCounted, NonIdempotent, HoldsForReview
<1> QED
  BY <1>1, <1>3, <1>4, <1>5, <1>6, <1>7 DEF TurnInv

\* A decision was made on the waiting call.
LEMMA ToDecided ==
    ASSUME TurnInv, Moves, run.state = "waiting", run'.state = "executing_tool",
           model'.iteration = model.iteration, doubt' = doubt, retries' = retries,
           tool'.kind = tool.kind, tool'.asks <=> tool.asks, tool.kind # "question",
           tool'.cleared <=> tool.cleared, tool'.st = "pending",
           tool'.wait \in {"approved", "denied"},
           \A k \in outbox'.used :
               k \in outbox.used \/ (k.of = "approval" /\ k.at = model.iteration)
    PROVE  TurnInv'
<1>1. TypeOK /\ TypeOK'
  BY DEF TurnInv, Moves
<1>2. /\ run.version \in Nat /\ run'.version \in Nat
      /\ \A k \in outbox'.used : k.at \in Nat
  BY <1>1, Numbers DEF TypeOK, RunType, Keys
<1>3. LeaseFences' /\ HolderIsCurrent' /\ PlaceMatchesState'
  BY UnleasedStep
<1>4. IterationMatchesState' /\ RunMatchesStep' /\ QuestionsAreAsked'
  BY DEF TurnInv, IterationMatchesState, RunMatchesStep, QuestionsAreAsked
<1>5. KeysAreSpent'
  BY <1>2 DEF TurnInv, KeysAreSpent, Moves, BetweenCalls
<1>6. UnmadeCallsNotBegun'
  BY SameCallCounts DEF BetweenCalls
<1>7. CallsAreCounted'
  <2>1. \A i \in 1..MaxIterations :
            Begun(i)' \in Nat /\ Begun(i)' <= Begun(i) /\ Begun(i) \in Nat
            /\ retries[i] \in Nat
    BY MovesBeginNothing
  <2>2. tool.st = "waiting" /\ tool.wait = "pending" /\ tool.st \in Unfinished
    BY DEF TurnInv, RunMatchesStep, Unfinished
  <2> QED
    BY <2>1, <2>2 DEF TurnInv, CallsAreCounted, NonIdempotent, HoldsForReview
<1> QED
  BY <1>1, <1>3, <1>4, <1>5, <1>6, <1>7 DEF TurnInv

\* The operator runs the call again: it may begin once more.
LEMMA ToRetry ==
    ASSUME TurnInv, Moves, run.state = "recovery_required",
           run'.state = "executing_tool",
           model'.iteration = model.iteration, doubt' = doubt,
           retries' = [retries EXCEPT ![model.iteration] = @ + 1],
           tool'.kind = tool.kind, tool'.asks <=> tool.asks, tool'.wait = tool.wait,
           tool'.st = "pending",
           \A k \in outbox'.used :
               k \in outbox.used \/ (k.of = "operator" /\ k.at <= run'.version)
    PROVE  TurnInv'
<1>1. TypeOK /\ TypeOK'
  BY DEF TurnInv, Moves
<1>2. /\ run.version \in Nat /\ run'.version \in Nat
      /\ \A k \in outbox'.used : k.at \in Nat
  BY <1>1, Numbers DEF TypeOK, RunType, Keys
<1>3. LeaseFences' /\ HolderIsCurrent' /\ PlaceMatchesState'
  BY UnleasedStep
<1>4. tool.st = "recovery_required" /\ tool.kind = "held" /\ tool.wait # "pending"
  BY DEF TurnInv, RunMatchesStep, HoldsForReview
<1>5. IterationMatchesState' /\ RunMatchesStep' /\ QuestionsAreAsked'
  BY <1>4 DEF TurnInv, IterationMatchesState, RunMatchesStep, QuestionsAreAsked
<1>6. KeysAreSpent'
  BY <1>2 DEF TurnInv, KeysAreSpent, Moves, BetweenCalls
<1>7. UnmadeCallsNotBegun'
  BY SameCallCounts DEF BetweenCalls
<1>8. CallsAreCounted'
  <2>1. \A i \in 1..MaxIterations :
            Begun(i)' \in Nat /\ Begun(i)' <= Begun(i) /\ Begun(i) \in Nat
            /\ retries[i] \in Nat
    BY MovesBeginNothing
  <2>2. \A i \in 1..MaxIterations : i = model.iteration => retries'[i] = retries[i] + 1
    BY <1>1 DEF TypeOK
  <2> QED
    BY <1>4, <2>1, <2>2 DEF TurnInv, CallsAreCounted, NonIdempotent, HoldsForReview
<1> QED
  BY <1>1, <1>3, <1>5, <1>6, <1>7, <1>8 DEF TurnInv

-----------------------------------------------------------------------------
(* The commits that end a delivery. *)

\* What every such commit does to the run and to its worker.
LEMMA CommitFacts ==
    ASSUME TurnInv, NEW w \in Workers, NEW next \in States, NEW t, NEW m,
           Commit(w, next, t, m)
    PROVE  /\ run'.state = next /\ run'.lease = "none" /\ run'.gen = run.gen
           /\ run'.version = run.version + 1 /\ run'.version >= run.version
           /\ \A v \in Workers : ws'[v] = ws[v] \/ ws'[v].pc = "idle"
           /\ model' = m /\ tool' = (IF next \in Terminal THEN Closed(t, next) ELSE t)
           /\ CanCommit(w)
<1>1. TypeOK
  BY DEF TurnInv
<1>2. run' = [run EXCEPT !.state = next, !.version = run.version + 1, !.lease = "none"]
  BY <1>1 DEF Commit, TypeOK, RunType
<1>3. ws' = [ws EXCEPT ![w] = Idle] /\ Idle.pc = "idle"
  BY DEF Commit, Idle
<1>4. \A v \in Workers : ws'[v] = ws[v] \/ ws'[v].pc = "idle"
  BY <1>1, <1>3 DEF TypeOK
<1>5. /\ run'.state = next /\ run'.lease = "none" /\ run'.gen = run.gen
      /\ run'.version = run.version + 1 /\ run'.version >= run.version
  BY <1>1, <1>2 DEF TypeOK, RunType
<1> QED
  BY <1>4, <1>5 DEF Commit

\* A commit that wakes the next delivery: its key is new, and at most the
\* version the commit writes.
LEMMA WakeFacts ==
    ASSUME TurnInv, NEW w \in Workers, Hydrated(w), NEW next \in States \ Terminal,
           NEW t \in ToolSteps, NEW m \in ModelSteps, CommitAndWake(w, next, t, m),
           doubt' \in BOOLEAN, UNCHANGED <<queue, started, retries, faults>>
    PROVE  /\ Moves /\ run'.state = next /\ tool' = t /\ model' = m
           /\ outbox'.open \ outbox.used # {}
           /\ \A k \in outbox'.used :
                  k \in outbox.used \/ (k.of = "wake" /\ k.at <= run'.version)
<1>1. TypeOK
  BY DEF TurnInv
<1>2. Commit(w, next, t, m)
  BY DEF CommitAndWake
<1>3. /\ run'.state = next /\ run'.lease = "none" /\ run'.gen = run.gen
      /\ run'.version = run.version + 1 /\ run'.version >= run.version
      /\ \A v \in Workers : ws'[v] = ws[v] \/ ws'[v].pc = "idle"
      /\ model' = m /\ tool' = t /\ CanCommit(w)
  BY <1>2, CommitFacts
<1> DEFINE k == WakeKey(ws[w].version + 1, next)
<1>4. TypeOK' /\ k.of = "wake" /\ k.at = ws[w].version + 1
      /\ outbox'.used = outbox.used \cup {k} /\ (k \notin outbox.used => k \in outbox'.open)
  BY <1>1, WakeType
<1> HIDE DEF k
<1>5. /\ ws[w].version <= run.version
      /\ \A j \in outbox.used : j.of = "wake" => j.at <= ws[w].version
  BY <1>3, CommitterIsCurrent
<1>6. ws[w].version \in Nat /\ run.version \in Nat
  BY <1>1 DEF TypeOK, WorkerType, RunType
<1>7. k \notin outbox.used
  BY <1>4, <1>5, <1>6
<1>8. k.at <= run'.version
  BY <1>3, <1>4, <1>5, <1>6
<1> QED
  BY <1>3, <1>4, <1>7, <1>8 DEF Moves

\* A commit that goes on with the next model call.
LEMMA WakeToNextCall ==
    ASSUME TurnInv, NEW w \in Workers, Hydrated(w),
           NEW t \in ToolSteps, NEW m \in ModelSteps,
           CommitAndWake(w, "calling_model", t, m), m.iteration = model.iteration + 1,
           t.st \notin Unfinished \cup {"recovery_required"}, t.wait # "pending",
           doubt' \in BOOLEAN, UNCHANGED <<queue, started, retries, faults>>
    PROVE  TurnInv'
<1>1. "calling_model" \in States \ Terminal
  BY DEF States, Active, Terminal
<1>2. /\ Moves /\ run'.state = "calling_model" /\ tool' = t /\ model' = m
      /\ \A k \in outbox'.used :
             k \in outbox.used \/ (k.of = "wake" /\ k.at <= run'.version)
  BY <1>1, WakeFacts
<1> QED
  BY <1>2, ToNextCall

\* A commit that ends the run, with the step as it is or for review.
LEMMA SilentToTerminal ==
    ASSUME TurnInv, NEW w \in Workers, Hydrated(w), NEW next \in Terminal,
           NEW t \in ToolSteps, CommitSilently(w, next, t, model),
           t.kind = tool.kind, t.asks <=> tool.asks, t.wait = tool.wait,
           \/ next \in {"completed", "failed"} /\ t.st = tool.st
           \/ /\ next = "recovery_required" /\ t.st = "recovery_required"
              /\ HoldsForReview(tool) /\ run.state = "executing_tool",
           UNCHANGED <<doubt, queue, started, retries, faults>>
    PROVE  TurnInv'
<1>1. TypeOK /\ next \in States
  BY DEF TurnInv, States
<1>2. Commit(w, next, t, model) /\ model \in ModelSteps /\ doubt' \in BOOLEAN
  BY <1>1 DEF CommitSilently, TypeOK
<1>3. /\ run'.state = next /\ run'.lease = "none" /\ run'.gen = run.gen
      /\ run'.version >= run.version
      /\ \A v \in Workers : ws'[v] = ws[v] \/ ws'[v].pc = "idle"
      /\ model' = model /\ tool' = Closed(t, next) /\ CanCommit(w)
  BY <1>1, <1>2, CommitFacts
<1>4. TypeOK' /\ outbox'.used = outbox.used
  BY <1>1, <1>2, SilentType
<1>5. Moves
  BY <1>3, <1>4 DEF Moves
<1>6. /\ tool'.kind = t.kind /\ tool'.asks = t.asks
      /\ tool'.wait = IF t.wait = "pending" THEN "expired" ELSE t.wait
      /\ t.st \notin Unfinished => tool'.st = t.st
      /\ t.st \in Unfinished => tool'.st \in {"failed", "cancelled"}
  BY <1>3, ClosedFacts
<1>7. run.state \notin Terminal
  BY <1>3, CommitterIsCurrent
<1>8. tool.st # "recovery_required"
  BY <1>7 DEF TurnInv, RunMatchesStep, Terminal
<1>9. tool'.st \notin Unfinished
  BY <1>6 DEF Unfinished
<1>10. tool'.st = "recovery_required" => HoldsForReview(tool) /\ next = "recovery_required"
  BY <1>6, <1>8 DEF Unfinished
<1>11. next = "recovery_required" =>
           tool'.st = "recovery_required" /\ model.iteration \in 1..MaxIterations
  BY <1>6 DEF Unfinished, TurnInv, IterationMatchesState
<1> QED
  BY <1>3, <1>4, <1>5, <1>6, <1>9, <1>10, <1>11, ToTerminal


\* Assembling, the model's answers and the ends of a turn.
LEMMA AnswerSteps ==
    ASSUME TurnInv, NEW w \in Workers,
           \/ Assemble(w) \/ FinishForBudget(w) \/ AnswerWithText(w) \/ AnswerEmpty(w)
           \/ Finalize(w) \/ RepairPublication(w) \/ FailRun(w)
           \/ \E c \in Calls : AnswerWithTool(w, c)
    PROVE  TurnInv'
<1>1. TypeOK /\ tool \in ToolSteps /\ model \in ModelSteps /\ doubt \in BOOLEAN
  BY DEF TurnInv, TypeOK
<1> USE <1>1
<1>2. ASSUME NEW next \in {"completed", "failed"}, Hydrated(w),
             CommitSilently(w, next, tool, model),
             UNCHANGED <<doubt, queue, started, retries, faults>>
      PROVE  TurnInv'
  <2>1. next \in Terminal
    BY DEF Terminal
  <2> QED
    BY <1>2, <2>1, SilentToTerminal
<1>3. CASE FinishForBudget(w)
  BY <1>2, <1>3 DEF FinishForBudget, At, Hydrated, Claimed
<1>4. CASE Finalize(w)
  BY <1>2, <1>4 DEF Finalize, At, Hydrated, Claimed
<1>5. CASE FailRun(w)
  BY <1>2, <1>5 DEF FailRun, At, Hydrated, Claimed
<1>6. ASSUME NEW m \in ModelSteps, m.iteration = model.iteration + 1, Hydrated(w),
             ws[w].state \in {"queued", "calling_model", "finalizing"},
             CommitAndWake(w, "calling_model", tool, m),
             UNCHANGED <<doubt, queue, started, retries, faults>>
      PROVE  TurnInv'
  <2>1. CanCommit(w)
    BY <1>6 DEF CommitAndWake, Commit
  <2>2. BetweenCalls
    BY <1>6, <2>1, CommitterIsCurrent DEF BetweenCalls
  <2>3. tool.st \notin Unfinished \cup {"recovery_required"} /\ tool.wait # "pending"
    BY <2>2, NoCallAtHand
  <2> QED
    BY <1>6, <2>3, WakeToNextCall
<1>7. CASE Assemble(w)
  BY <1>6, <1>7, NextCallFacts DEF Assemble, At, Hydrated, Claimed
<1>8. CASE AnswerEmpty(w)
  <2>1. ws[w].state = "calling_model" /\ Hydrated(w)
    BY <1>8 DEF AnswerEmpty, At, TurnInv, PlaceMatchesState, Hydrated, Claimed
  <2> DEFINE m == [NextCall(model) EXCEPT !.empty = TRUE]
  <2>2. m \in ModelSteps /\ m.iteration = model.iteration + 1
    BY NextCallFacts, Zenon
  <2>3. CommitAndWake(w, "calling_model", tool, m)
        /\ UNCHANGED <<doubt, queue, started, retries, faults>>
    BY <1>8, Zenon DEF AnswerEmpty
  <2> HIDE DEF m
  <2> QED
    BY <1>6, <2>1, <2>2, <2>3
<1>9. CASE RepairPublication(w)
  <2>1. ws[w].state = "finalizing" /\ Hydrated(w)
    BY <1>9 DEF RepairPublication, At, TurnInv, PlaceMatchesState, Hydrated, Claimed
  <2> DEFINE m == [NextCall(model) EXCEPT !.repair = TRUE]
  <2>2. m \in ModelSteps /\ m.iteration = model.iteration + 1
    BY NextCallFacts, Zenon
  <2>3. CommitAndWake(w, "calling_model", tool, m)
        /\ UNCHANGED <<doubt, queue, started, retries, faults>>
    BY <1>9, Zenon DEF RepairPublication
  <2> HIDE DEF m
  <2> QED
    BY <1>6, <2>1, <2>2, <2>3
<1>10. ASSUME ws[w].pc = "answered", CanCommit(w)
       PROVE  /\ Hydrated(w) /\ run.state = "calling_model"
              /\ model.iteration \in 1..MaxIterations
  <2>1. /\ Hydrated(w) /\ ws[w].state = "calling_model"
        /\ ws[w].model.iteration <= MaxIterations
    BY <1>10 DEF TurnInv, PlaceMatchesState, Hydrated, Claimed
  <2>2. run.state = ws[w].state /\ ws[w].model.iteration = model.iteration
    BY <1>10, <2>1, CommitterIsCurrent
  <2>3. model.iteration >= 1 /\ model.iteration \in Nat /\ MaxIterations \in Nat
    BY <2>1, <2>2, TurnBounds, Numbers DEF TurnInv, IterationMatchesState
  <2> QED
    BY <2>1, <2>2, <2>3
<1>11. CASE AnswerWithText(w)
  <2>1. "finalizing" \in States \ Terminal
    BY DEF States, Active, Terminal
  <2>2. CanCommit(w) /\ ws[w].pc = "answered"
    BY <1>11 DEF AnswerWithText, At, CommitAndWake, Commit
  <2>3. /\ Moves /\ run'.state = "finalizing" /\ tool' = tool /\ model' = model
        /\ \A k \in outbox'.used :
               k \in outbox.used \/ (k.of = "wake" /\ k.at <= run'.version)
    BY <1>10, <1>11, <2>1, <2>2, WakeFacts DEF AnswerWithText
  <2> QED
    BY <1>10, <1>11, <2>2, <2>3, ToFinalizing DEF AnswerWithText
<1>12. ASSUME NEW c \in Calls, AnswerWithTool(w, c)
       PROVE  TurnInv'
  <2> DEFINE t == [NoTool EXCEPT !.kind = c.kind, !.asks = c.asks, !.st = "pending"]
  <2>1. t \in ToolSteps /\ t.st = "pending" /\ t.wait = "none" /\ ~t.cleared
    BY CallStep, Zenon
  <2>2. /\ CommitAndWake(w, "executing_tool", t, model) /\ ws[w].pc = "answered"
        /\ UNCHANGED <<doubt, queue, started, retries, faults>>
    BY <1>12, Zenon DEF AnswerWithTool, At
  <2> HIDE DEF t
  <2>3. CanCommit(w)
    BY <2>2 DEF CommitAndWake, Commit
  <2>4. "executing_tool" \in States \ Terminal
    BY DEF States, Active, Terminal
  <2>5. /\ Moves /\ run'.state = "executing_tool" /\ tool' = t /\ model' = model
        /\ \A k \in outbox'.used :
               k \in outbox.used \/ (k.of = "wake" /\ k.at <= run'.version)
    BY <1>10, <2>1, <2>2, <2>3, <2>4, WakeFacts
  <2> QED
    BY <1>10, <2>1, <2>2, <2>3, <2>5, ToCall
<1> QED
  BY <1>3, <1>4, <1>5, <1>7, <1>8, <1>9, <1>11, <1>12

\* The commits of a tool call: reviews, questions, approvals and results.
LEMMA ToolCommitSteps ==
    ASSUME TurnInv, NEW w \in Workers,
           \/ HoldCall(w) \/ AskQuestion(w) \/ HoldInterrupted(w) \/ RefuseDenied(w)
           \/ AskApproval(w) \/ ReportInterrupted(w) \/ CompleteTool(w)
           \/ (\E unsure \in BOOLEAN : FailTool(w, unsure)) \/ LoseReply(w) \/ CatchHeld(w)
    PROVE  TurnInv'
<1>1. TypeOK /\ tool \in ToolSteps /\ model \in ModelSteps /\ doubt \in BOOLEAN
  BY DEF TurnInv, TypeOK
<1> USE <1>1
<1>2. Hydrated(w) /\ ws[w].state = "executing_tool"
  BY DEF HoldCall, AskQuestion, HoldInterrupted, RefuseDenied, AskApproval,
         ReportInterrupted, CompleteTool, FailTool, LoseReply, CatchHeld, RunsHeldTool,
         Executing, At, Hydrated, Claimed, TurnInv, PlaceMatchesState
<1>3. CanCommit(w)
  BY DEF HoldCall, AskQuestion, HoldInterrupted, RefuseDenied, AskApproval,
         ReportInterrupted, CompleteTool, FailTool, LoseReply, CatchHeld, ToRecovery,
         CommitSilently, CommitAndWake, Commit
<1>4. run.state = "executing_tool" /\ ws[w].tool = tool
  BY <1>2, <1>3, CommitterIsCurrent
<1>5. tool.st \in {"pending", "running"} /\ tool.wait # "pending"
  BY <1>4 DEF TurnInv, RunMatchesStep
<1>6. ASSUME NEW t \in ToolSteps, ToRecovery(w, t), HoldsForReview(tool),
             t.kind = tool.kind, t.asks = tool.asks, t.wait = tool.wait
      PROVE  TurnInv'
  <2> DEFINE r == [t EXCEPT !.st = "recovery_required"]
  <2>1. /\ r \in ToolSteps /\ r.st = "recovery_required" /\ r.kind = tool.kind
        /\ r.asks = tool.asks /\ r.wait = tool.wait
    BY <1>6 DEF ToolSteps, StepStates
  <2>2. /\ CommitSilently(w, "recovery_required", r, model)
        /\ UNCHANGED <<doubt, queue, started, retries, faults>>
    BY <1>6 DEF ToRecovery
  <2> HIDE DEF r
  <2>3. "recovery_required" \in Terminal
    BY DEF Terminal
  <2> QED
    BY <1>2, <1>4, <1>6, <2>1, <2>2, <2>3, SilentToTerminal
<1>7. CASE HoldInterrupted(w) \/ LoseReply(w) \/ CatchHeld(w)
  BY <1>4, <1>6, <1>7 DEF HoldInterrupted, LoseReply, CatchHeld, RunsHeldTool,
                          InterruptedIfHeld, HoldsForReview
<1>8. CASE HoldCall(w)
  <2> DEFINE t == [tool EXCEPT !.cleared = TRUE]
  <2>1. /\ t \in ToolSteps /\ t.kind = tool.kind /\ t.asks = tool.asks
        /\ t.wait = tool.wait
    BY StepCleared, Zenon
  <2>2. ToRecovery(w, t) /\ HoldsForReview(tool)
    BY <1>4, <1>8 DEF HoldCall, HeldBack
  <2> HIDE DEF t
  <2> QED
    BY <1>6, <2>1, <2>2
<1>9. ASSUME NEW s \in {"failed", "completed"}, NEW d \in BOOLEAN, doubt' = d,
             CommitAndWake(w, "calling_model", [ws[w].tool EXCEPT !.st = s],
                           NextCall(model)),
             UNCHANGED <<queue, started, retries, faults>>
      PROVE  TurnInv'
  <2> DEFINE t == [tool EXCEPT !.st = s]
  <2>1. /\ t \in ToolSteps /\ t.wait # "pending"
        /\ t.st \notin Unfinished \cup {"recovery_required"}
    BY <1>5 DEF ToolSteps, StepStates, Unfinished
  <2>2. CommitAndWake(w, "calling_model", t, NextCall(model))
    BY <1>4, <1>9
  <2> HIDE DEF t
  <2> QED
    BY <1>2, <1>9, <2>1, <2>2, NextCallFacts, WakeToNextCall
<1>10. CASE RefuseDenied(w) \/ ReportInterrupted(w)
  BY <1>9, <1>10 DEF RefuseDenied, ReportInterrupted
<1>11. CASE CompleteTool(w)
  <2>1. (doubt /\ ~ws[w].tool.cleared) \in BOOLEAN
    OBVIOUS
  <2> QED
    BY <1>9, <1>11, <2>1 DEF CompleteTool
<1>12. ASSUME NEW unsure \in BOOLEAN, FailTool(w, unsure)
       PROVE  TurnInv'
  <2>1. (doubt \/ unsure) \in BOOLEAN
    OBVIOUS
  <2> QED
    BY <1>9, <1>12, <2>1 DEF FailTool
<1>13. ASSUME CommitSilently(w, "waiting", [ws[w].tool EXCEPT !.st = "waiting",
                                                            !.wait = "pending"], model),
              tool.wait = "none", NonIdempotent(tool) => tool.st = "pending",
              UNCHANGED <<doubt, queue, started, retries, faults>>
       PROVE  TurnInv'
  <2> DEFINE t == [tool EXCEPT !.st = "waiting", !.wait = "pending"]
  <2>1. /\ t \in ToolSteps /\ t.st = "waiting" /\ t.wait = "pending"
        /\ t.kind = tool.kind /\ t.asks = tool.asks /\ t.cleared = tool.cleared
    BY DEF ToolSteps, StepStates, Unfinished, Waits
  <2>2. CommitSilently(w, "waiting", t, model)
    BY <1>4, <1>13
  <2> HIDE DEF t
  <2>3. "waiting" \in States /\ "waiting" \notin Terminal
    BY DEF States, Terminal
  <2>4. TypeOK' /\ outbox'.used = outbox.used
    BY <1>13, <2>1, <2>2, <2>3, SilentType
  <2>5. /\ run'.state = "waiting" /\ run'.lease = "none" /\ run'.gen = run.gen
        /\ run'.version >= run.version
        /\ \A v \in Workers : ws'[v] = ws[v] \/ ws'[v].pc = "idle"
        /\ model' = model /\ tool' = t
    BY <2>2, <2>3, CommitFacts DEF CommitSilently
  <2>6. Moves
    BY <1>13, <2>4, <2>5 DEF Moves
  <2> QED
    BY <1>4, <1>13, <2>1, <2>4, <2>5, <2>6, ToWaiting
<1>14. CASE AskQuestion(w)
  <2>1. tool.wait = "none" /\ ~NonIdempotent(tool)
    BY <1>4, <1>5, <1>14 DEF AskQuestion, TurnInv, QuestionsAreAsked, NonIdempotent
  <2> QED
    BY <1>13, <1>14, <2>1 DEF AskQuestion
<1>15. CASE AskApproval(w)
  <2>1. tool.wait = "none" /\ (NonIdempotent(tool) => tool.st = "pending")
    BY <1>4, <1>5, <1>15 DEF AskApproval, NeedsApproval, Interrupted
  <2> QED
    BY <1>13, <1>15, <2>1 DEF AskApproval
<1> QED
  BY <1>7, <1>8, <1>10, <1>11, <1>12, <1>14, <1>15

-----------------------------------------------------------------------------
(* The API's transactions. *)

\* A transition clears the lease and moves the version on.
LEMMA TransitionFacts ==
    ASSUME TypeOK, NEW next \in States, Transition(next)
    PROVE  /\ run' \in RunType /\ run'.state = next /\ run'.lease = "none"
           /\ run'.gen = run.gen /\ run'.version = run.version + 1
           /\ run'.version >= run.version /\ run.version + 1 \in Nat
<1>1. run \in RunType /\ run.version + 1 \in Nat /\ run.version + 1 >= run.version
  BY DEF TypeOK, RunType
<1>2. run' = [run EXCEPT !.state = next, !.version = run.version + 1, !.lease = "none"]
  BY <1>1 DEF Transition, RunType
<1> QED
  BY <1>1, <1>2 DEF RunType

\* Cancelling, deciding, answering, expiring and recovering.
LEMMA ApiSteps ==
    ASSUME TurnInv, Api
    PROVE  TurnInv'
<1>1. TypeOK /\ tool \in ToolSteps /\ model \in ModelSteps /\ doubt \in BOOLEAN
  BY DEF TurnInv, TypeOK
<1> USE <1>1, Unmoved
<1>2. run.version \in Nat /\ model.iteration \in Nat
  BY Numbers
<1>3. \A next \in {"cancelled", "recovery_required", "failed", "executing_tool",
                   "calling_model"} : next \in States
  BY DEF States, Active, Terminal
<1>4. \A s \in {"recovery_required", "pending", "completed", "failed"} : s \in StepStates
  BY DEF StepStates, Unfinished
<1>5. CASE CancelRun
  <2>1. run.state \notin Terminal /\ tool.st # "recovery_required"
    BY <1>5 DEF CancelRun, TurnInv, RunMatchesStep, Terminal
  <2>2. /\ outbox' \in [open: SUBSET Keys, used: SUBSET Keys]
        /\ outbox'.open \subseteq outbox'.used /\ outbox'.used = outbox.used
    BY <1>5, CloseType DEF CancelRun
  <2>3. UNCHANGED <<model, doubt, queue, ws, started, retries, faults>>
    BY <1>5 DEF CancelRun
  <2>4. CASE tool.st = "running" /\ HoldsForReview(tool)
    <3>1. Transition("recovery_required") /\ tool' = [tool EXCEPT !.st = "recovery_required"]
      BY <1>5, <2>4 DEF CancelRun
    <3>2. /\ tool' \in ToolSteps /\ tool'.st = "recovery_required"
          /\ tool'.kind = tool.kind /\ tool'.asks = tool.asks /\ tool'.wait = tool.wait
      BY <1>4, <3>1 DEF ToolSteps
    <3>3. /\ run' \in RunType /\ run'.state = "recovery_required" /\ run'.lease = "none"
          /\ run'.gen = run.gen /\ run'.version >= run.version
      BY <1>3, <3>1, TransitionFacts
    <3>4. TypeOK'
      BY <2>2, <2>3, <3>2, <3>3 DEF TypeOK
    <3>5. Moves
      BY <2>3, <3>3, <3>4 DEF Moves
    <3>6. run.state = "executing_tool" /\ tool.wait # "pending"
      BY <2>4 DEF TurnInv, RunMatchesStep
    <3>7. model.iteration \in 1..MaxIterations
      BY <3>6 DEF TurnInv, IterationMatchesState
    <3>8. "recovery_required" \in Terminal /\ "recovery_required" \notin Unfinished
      BY DEF Terminal, Unfinished
    <3> QED
      BY <2>2, <2>3, <2>4, <3>2, <3>3, <3>5, <3>6, <3>7, <3>8, ToTerminal
  <2>5. CASE ~(tool.st = "running" /\ HoldsForReview(tool))
    <3>1. Transition("cancelled") /\ tool' = Closed(tool, "cancelled")
      BY <1>5, <2>5 DEF CancelRun
    <3>2. /\ tool' \in ToolSteps /\ tool'.kind = tool.kind /\ tool'.asks = tool.asks
          /\ tool'.wait = IF tool.wait = "pending" THEN "expired" ELSE tool.wait
          /\ tool.st \notin Unfinished => tool'.st = tool.st
          /\ tool.st \in Unfinished => tool'.st \in {"failed", "cancelled"}
      BY <3>1, ClosedFacts
    <3>3. /\ run' \in RunType /\ run'.state = "cancelled" /\ run'.lease = "none"
          /\ run'.gen = run.gen /\ run'.version >= run.version
      BY <1>3, <3>1, TransitionFacts
    <3>4. TypeOK'
      BY <2>2, <2>3, <3>2, <3>3 DEF TypeOK
    <3>5. Moves
      BY <2>3, <3>3, <3>4 DEF Moves
    <3>6. tool'.st \notin Unfinished /\ tool'.st # "recovery_required"
      BY <2>1, <3>2 DEF Unfinished
    <3>7. "cancelled" \in Terminal
      BY DEF Terminal
    <3> QED
      BY <2>2, <2>3, <3>2, <3>3, <3>5, <3>6, <3>7, ToTerminal
  <2> QED
    BY <2>4, <2>5
<1>6. ASSUME NEW decision \in {"approved", "denied"}, DecideApproval(decision)
      PROVE  TurnInv'
  <2> DEFINE k == Key("approval", model.iteration)
  <2>1. k \in Keys /\ k.of = "approval" /\ k.at = model.iteration
    BY <1>2, KeyType
  <2>2. outbox' = Insert(k)
    BY <1>6 DEF DecideApproval
  <2> HIDE DEF k
  <2>3. /\ outbox' \in [open: SUBSET Keys, used: SUBSET Keys]
        /\ outbox'.open \subseteq outbox'.used /\ outbox'.used = outbox.used \cup {k}
    BY <2>1, <2>2, InsertType
  <2>4. /\ tool' \in ToolSteps /\ tool'.st = "pending" /\ tool'.wait = decision
        /\ tool'.kind = tool.kind /\ tool'.asks = tool.asks
        /\ tool'.cleared = tool.cleared
    BY <1>4, <1>6 DEF DecideApproval, ToolSteps, Waits
  <2>5. /\ run' \in RunType /\ run'.state = "executing_tool" /\ run'.lease = "none"
        /\ run'.gen = run.gen /\ run'.version >= run.version
    BY <1>3, <1>6, TransitionFacts DEF DecideApproval
  <2>6. /\ UNCHANGED <<model, doubt, queue, ws, started, retries, faults>>
        /\ run.state = "waiting" /\ tool.kind # "question"
    BY <1>6 DEF DecideApproval, Decidable
  <2>7. TypeOK'
    BY <2>3, <2>4, <2>5, <2>6 DEF TypeOK
  <2>8. Moves
    BY <2>5, <2>6, <2>7 DEF Moves
  <2> QED
    BY <2>1, <2>3, <2>4, <2>5, <2>6, <2>8, ToDecided
<1>7. CASE AnswerQuestion
  <2> DEFINE k == Key("question", model.iteration)
  <2>1. k \in Keys /\ k.of = "question" /\ k.at = model.iteration
    BY <1>2, KeyType
  <2>2. outbox' = Insert(k)
    BY <1>7 DEF AnswerQuestion
  <2> HIDE DEF k
  <2>3. /\ outbox' \in [open: SUBSET Keys, used: SUBSET Keys]
        /\ outbox'.open \subseteq outbox'.used /\ outbox'.used = outbox.used \cup {k}
    BY <2>1, <2>2, InsertType
  <2>4. tool' \in ToolSteps /\ tool'.st = "completed" /\ tool'.wait = "answered"
    BY <1>4, <1>7 DEF AnswerQuestion, ToolSteps, Waits
  <2>5. /\ run' \in RunType /\ run'.state = "calling_model" /\ run'.lease = "none"
        /\ run'.gen = run.gen /\ run'.version >= run.version
    BY <1>3, <1>7, TransitionFacts DEF AnswerQuestion
  <2>6. UNCHANGED <<doubt, queue, ws, started, retries, faults>>
    BY <1>7 DEF AnswerQuestion
  <2>7. model' \in ModelSteps /\ model'.iteration = model.iteration + 1
    BY <1>7, NextCallFacts DEF AnswerQuestion
  <2>8. TypeOK'
    BY <2>3, <2>4, <2>5, <2>6, <2>7 DEF TypeOK
  <2>9. Moves
    BY <2>5, <2>6, <2>8 DEF Moves
  <2>10. "completed" \notin Unfinished \cup {"recovery_required"}
    BY DEF Unfinished
  <2> QED
    BY <2>1, <2>3, <2>4, <2>5, <2>7, <2>9, <2>10, ToNextCall
<1>8. CASE ExpireWait
  <2>1. /\ outbox' \in [open: SUBSET Keys, used: SUBSET Keys]
        /\ outbox'.open \subseteq outbox'.used /\ outbox'.used = outbox.used
    BY <1>8, CloseType DEF ExpireWait
  <2>2. /\ tool' \in ToolSteps /\ tool'.st = "failed" /\ tool'.wait = "expired"
        /\ tool'.kind = tool.kind /\ tool'.asks = tool.asks
    BY <1>4, <1>8 DEF ExpireWait, ToolSteps, Waits
  <2>3. /\ run' \in RunType /\ run'.state = "failed" /\ run'.lease = "none"
        /\ run'.gen = run.gen /\ run'.version >= run.version
    BY <1>3, <1>8, TransitionFacts DEF ExpireWait
  <2>4. /\ UNCHANGED <<model, doubt, queue, ws, started, retries, faults>>
        /\ tool.wait = "pending"
    BY <1>8 DEF ExpireWait, Decidable
  <2>5. TypeOK'
    BY <2>1, <2>2, <2>3, <2>4 DEF TypeOK
  <2>6. Moves
    BY <2>3, <2>4, <2>5 DEF Moves
  <2>7. "failed" \in Terminal /\ "failed" \notin Unfinished
    BY DEF Terminal, Unfinished
  <2> QED
    BY <2>1, <2>2, <2>3, <2>4, <2>6, <2>7, ToTerminal
<1>9. ASSUME Transition("executing_tool") \/ Transition("calling_model"),
             outbox' = Insert(Key("operator", run.version + 1))
      PROVE  /\ outbox' \in [open: SUBSET Keys, used: SUBSET Keys]
             /\ outbox'.open \subseteq outbox'.used
             /\ \A k \in outbox'.used :
                    k \in outbox.used \/ (k.of = "operator" /\ k.at <= run'.version)
  <2> DEFINE k == Key("operator", run.version + 1)
  <2>1. run.version + 1 \in Nat /\ run'.version = run.version + 1
    BY <1>3, <1>9, TransitionFacts
  <2>2. k \in Keys /\ k.of = "operator" /\ k.at = run.version + 1
    BY <2>1, KeyType
  <2>3. outbox' = Insert(k)
    BY <1>9
  <2> HIDE DEF k
  <2>4. /\ outbox' \in [open: SUBSET Keys, used: SUBSET Keys]
        /\ outbox'.open \subseteq outbox'.used /\ outbox'.used = outbox.used \cup {k}
    BY <2>2, <2>3, InsertType
  <2> QED
    BY <2>1, <2>2, <2>4
<1>10. CASE RecoverRetry
  <2>1. /\ tool' \in ToolSteps /\ tool'.st = "pending" /\ tool'.wait = tool.wait
        /\ tool'.kind = tool.kind /\ tool'.asks = tool.asks
    BY <1>4, <1>10 DEF RecoverRetry, ToolSteps
  <2>2. /\ run' \in RunType /\ run'.state = "executing_tool" /\ run'.lease = "none"
        /\ run'.gen = run.gen /\ run'.version >= run.version
    BY <1>3, <1>10, TransitionFacts DEF RecoverRetry
  <2>3. /\ UNCHANGED <<model, doubt, queue, ws, started, faults>>
        /\ run.state = "recovery_required"
        /\ retries' = [retries EXCEPT ![model.iteration] = @ + 1]
    BY <1>10 DEF RecoverRetry
  <2>4. retries' \in [1..MaxIterations -> Nat]
    BY <2>3 DEF TypeOK, TurnInv, IterationMatchesState
  <2>5. /\ outbox' \in [open: SUBSET Keys, used: SUBSET Keys]
        /\ outbox'.open \subseteq outbox'.used
        /\ \A k \in outbox'.used :
               k \in outbox.used \/ (k.of = "operator" /\ k.at <= run'.version)
    BY <1>9, <1>10 DEF RecoverRetry
  <2>6. TypeOK'
    BY <2>1, <2>2, <2>3, <2>4, <2>5 DEF TypeOK
  <2>7. Moves
    BY <2>2, <2>3, <2>6 DEF Moves
  <2> QED
    BY <2>1, <2>2, <2>3, <2>5, <2>7, ToRetry
<1>11. CASE RecoverMarkComplete
  <2>1. /\ tool' \in ToolSteps /\ tool'.st = "completed" /\ tool'.wait = tool.wait
    BY <1>4, <1>11 DEF RecoverMarkComplete, ToolSteps
  <2>2. /\ run' \in RunType /\ run'.state = "calling_model" /\ run'.lease = "none"
        /\ run'.gen = run.gen /\ run'.version >= run.version
    BY <1>3, <1>11, TransitionFacts DEF RecoverMarkComplete
  <2>3. UNCHANGED <<queue, ws, started, retries, faults>> /\ doubt' \in BOOLEAN
    BY <1>11 DEF RecoverMarkComplete
  <2>4. model' \in ModelSteps /\ model'.iteration = model.iteration + 1
    BY <1>11, NextCallFacts DEF RecoverMarkComplete
  <2>5. /\ outbox' \in [open: SUBSET Keys, used: SUBSET Keys]
        /\ outbox'.open \subseteq outbox'.used
        /\ \A k \in outbox'.used :
               k \in outbox.used \/ (k.of = "operator" /\ k.at <= run'.version)
    BY <1>9, <1>11 DEF RecoverMarkComplete
  <2>6. TypeOK'
    BY <2>1, <2>2, <2>3, <2>4, <2>5 DEF TypeOK
  <2>7. Moves
    BY <2>2, <2>3, <2>6 DEF Moves
  <2>8. tool.wait # "pending"
    BY <1>11 DEF RecoverMarkComplete, TurnInv, RunMatchesStep
  <2>9. "completed" \notin Unfinished \cup {"recovery_required"}
    BY DEF Unfinished
  <2> QED
    BY <2>1, <2>2, <2>4, <2>5, <2>7, <2>8, <2>9, ToNextCall
<1>12. CASE RecoverCancel
  <2>1. /\ UNCHANGED <<model, tool, doubt, outbox, queue, ws, started, retries, faults>>
        /\ run.state = "recovery_required"
    BY <1>12 DEF RecoverCancel
  <2>2. run.lease = "none"
    BY <2>1 DEF TurnInv, LeaseFences, Terminal
  <2>3. /\ run' \in RunType /\ run'.state = "cancelled" /\ run'.lease = "none"
        /\ run'.gen = run.gen /\ run'.version >= run.version
    BY <1>3, <1>12, <2>2 DEF RecoverCancel, RunType
  <2>4. TypeOK'
    BY <2>1, <2>3 DEF TypeOK
  <2>5. Moves
    BY <2>1, <2>3, <2>4 DEF Moves
  <2>6. tool.st = "recovery_required" /\ tool.wait # "pending" /\ HoldsForReview(tool)
    BY <2>1 DEF TurnInv, RunMatchesStep
  <2>7. "cancelled" \in Terminal /\ "recovery_required" \notin Unfinished
    BY DEF Terminal, Unfinished
  <2> QED
    BY <2>1, <2>3, <2>5, <2>6, <2>7, ToTerminal
<1> QED
  BY <1>5, <1>6, <1>7, <1>8, <1>10, <1>11, <1>12 DEF Api

-----------------------------------------------------------------------------
(* The theorems. *)

\* The admitted run, with its first wake-up row, satisfies the invariant.
LEMMA InitInv == Init => TurnInv
<1> SUFFICES ASSUME Init PROVE TurnInv
  OBVIOUS
<1>1. TypeOK
  <2>1. run \in RunType
    BY DEF Init, RunType, States, Active
  <2>2. Key("admitted", 0) \in Keys
    BY DEF Key, Keys
  <2>3. ws \in [Workers -> WorkerType]
    BY InitialTypes DEF Init
  <2>4. 0 \in 0..MaxFaults
    BY TurnBounds
  <2> QED
    BY <2>1, <2>2, <2>3, <2>4, InitialTypes, EmptyBagOfJobs DEF Init, TypeOK, JobBag
<1>2. \A w \in Workers : ws[w].pc = "idle"
  BY DEF Init, Idle
<1>3. LeaseFences /\ HolderIsCurrent /\ PlaceMatchesState
  BY <1>2 DEF LeaseFences, HolderIsCurrent, PlaceMatchesState, Claimed, Init, Terminal
<1>4. IterationMatchesState /\ RunMatchesStep /\ QuestionsAreAsked
  BY DEF Init, IterationMatchesState, RunMatchesStep, QuestionsAreAsked, NoTool
<1>5. KeysAreSpent
  BY DEF Init, KeysAreSpent, Key
<1>6. \A i \in 1..MaxIterations : started[i] = 0 /\ Intending(i) = {}
  BY <1>2 DEF Init, Intending
<1>7. UnmadeCallsNotBegun
  BY <1>6 DEF UnmadeCallsNotBegun
<1>8. CallsAreCounted
  BY DEF Init, CallsAreCounted, NoModel
<1> QED
  BY <1>1, <1>3, <1>4, <1>5, <1>7, <1>8 DEF TurnInv

\* Every step of the workers, the dispatcher and the API preserves it.
LEMMA NextInv == TurnInv /\ [Next]_vars => TurnInv'
<1> SUFFICES ASSUME TurnInv, [Next]_vars PROVE TurnInv'
  OBVIOUS
<1>1. ASSUME NEW w \in Workers, Work(w)
      PROVE  TurnInv'
  <2>1. CASE Deliver(w)
    BY <2>1, UnclaimedSteps, ClaimStep, ClaimKeptSteps DEF Deliver
  <2>2. CASE CallModel(w)
    BY <2>2, AnswerSteps, ClaimKeptSteps DEF CallModel
  <2>3. CASE ExecuteTool(w)
    BY <2>3, ToolCommitSteps, IntendStep, RunStep DEF ExecuteTool
  <2>4. CASE Finish(w)
    BY <2>4, AnswerSteps, ClaimKeptSteps DEF Finish
  <2>5. CASE Catch(w)
    BY <2>5, ClaimKeptSteps, ToolCommitSteps, UnclaimedSteps, AnswerSteps DEF Catch
  <2> QED
    BY <1>1, <2>1, <2>2, <2>3, <2>4, <2>5 DEF Work
<1>2. ASSUME NEW w \in Workers, Trouble(w)
      PROVE  TurnInv'
  BY <1>2, UnclaimedSteps, BackgroundSteps, ClaimKeptSteps DEF Trouble
<1>3. CASE Dispatch \/ ExpireLease \/ LoseQueue \/ \E k \in outbox.open : DeadLetter(k)
  BY <1>3, BackgroundSteps
<1>4. CASE Api
  BY <1>4, ApiSteps
<1>5. CASE UNCHANGED vars
  <2>1. PICK w \in Workers : TRUE
    BY WorkersAssumption
  <2>2. TypeOK
    BY DEF TurnInv
  <2>3. Quiet(w, ws[w]) /\ ws[w] \in WorkerType
    BY <1>5, <2>1, <2>2, Unmoved DEF vars, Quiet
  <2> QED
    BY <2>1, <2>3, QuietStep
<1> QED
  BY <1>1, <1>2, <1>3, <1>4, <1>5 DEF Next

\* The lease, the snapshots, the step, the dedupe keys and the beginnings of
\* the tool calls fit together in every reachable state of a durable turn.
THEOREM Invariance == Spec => []TurnInv
BY InitInv, NextInv, PTL DEF Spec

\* Every reachable state of a durable turn is well typed.
THEOREM TypeCorrect == Spec => []TypeOK
<1>1. TurnInv => TypeOK
  BY DEF TurnInv
<1> QED
  BY <1>1, Invariance, PTL

\* The run's state and its tool step agree in every reachable state.
THEOREM StepsFollowTheRun == Spec => []RunMatchesStep
<1>1. TurnInv => RunMatchesStep
  BY DEF TurnInv
<1> QED
  BY <1>1, Invariance, PTL

\* executeTool begins a non-idempotent call at most once, plus once per
\* operator retry, for any number of workers, deliveries, faults and crashes.
THEOREM NonIdempotentRunsOnce == Spec => []ToolStartedOnce
<1>1. ASSUME TurnInv PROVE ToolStartedOnce
  <2> SUFFICES ASSUME NEW i \in 1..MaxIterations, i = model.iteration, NonIdempotent(tool)
               PROVE  started[i] <= 1 + retries[i]
    BY DEF ToolStartedOnce, NonIdempotent
  <2>1. started[i] \in Nat /\ retries[i] \in Nat /\ Begun(i) \in Nat /\ started[i] <= Begun(i)
    BY <1>1, BegunFacts DEF TurnInv
  <2>2. Begun(i) <= 1 + retries[i]
    BY <1>1 DEF TurnInv, CallsAreCounted
  <2> QED
    BY <2>1, <2>2
<1> QED
  BY <1>1, Invariance, PTL

\* No call that asks for approval begins before its approval was granted.
THEOREM ApprovalPrecedesRun == Spec => []ApprovedBeforeRun
<1>1. ASSUME TurnInv PROVE ApprovedBeforeRun
  <2> SUFFICES ASSUME NEW i \in 1..MaxIterations, i = model.iteration,
                      tool.asks, tool.wait # "approved"
               PROVE  started[i] = 0
    BY DEF ApprovedBeforeRun
  <2>1. started[i] \in Nat /\ started[i] <= Begun(i)
    BY <1>1, BegunFacts DEF TurnInv
  <2>2. Begun(i) = 0
    BY <1>1 DEF TurnInv, CallsAreCounted
  <2> QED
    BY <2>1, <2>2
<1> QED
  BY <1>1, Invariance, PTL

\* A held call begins while an earlier one is in doubt only after a review.
THEOREM DoubtIsReviewed == Spec => []DoubtfulCallIsReviewed
<1>1. ASSUME TurnInv PROVE DoubtfulCallIsReviewed
  <2> SUFFICES ASSUME NEW i \in 1..MaxIterations, i = model.iteration,
                      HoldsForReview(tool), doubt, started[i] > 0
               PROVE  retries[i] > 0
    BY DEF DoubtfulCallIsReviewed
  <2>1. started[i] \in Nat /\ Begun(i) \in Nat /\ started[i] <= Begun(i)
    BY <1>1, BegunFacts DEF TurnInv
  <2>2. Begun(i) > 0
    BY <2>1
  <2> QED
    BY <1>1, <2>2 DEF TurnInv, CallsAreCounted
<1> QED
  BY <1>1, Invariance, PTL

-----------------------------------------------------------------------------
(* What a step may never do. *)

\* A terminal run has no lease, so no worker writes to it.
LEMMA TerminalStep ==
    ASSUME TurnInv, Next, run.state \in Terminal, run' # run
    PROVE  run.state = "recovery_required" /\ ws' = ws
<1>1. run.lease = "none" /\ TypeOK
  BY DEF TurnInv, LeaseFences
<1>2. \A w \in Workers : ~Holder(w) /\ ~CanCommit(w)
  BY <1>1 DEF Holder, CanCommit
<1>3. ASSUME NEW w \in Workers, Work(w)
      PROVE  run' = run
  <2>1. CASE Deliver(w)
    BY <1>2, <2>1 DEF Deliver, Start, Claim, FindNothing, Hydrate, LeaveWaiting, Release
  <2>2. CASE CallModel(w)
    BY <1>2, <2>2
    DEF CallModel, Assemble, StopAtLimit, PrepareModel, FinishForBudget, RequestModel,
        RecordAnswer, AnswerWithTool, AnswerWithText, AnswerEmpty, RejectAnswer,
        CommitKeeping, CommitAndWake, CommitSilently, Commit
  <2>3. CASE ExecuteTool(w)
    BY <1>2, <2>3
    DEF ExecuteTool, HoldCall, AskQuestion, HoldInterrupted, RefuseDenied, AskApproval,
        ReportInterrupted, IntendTool, RunTool, CompleteTool, FailTool, LoseReply,
        ToRecovery, CommitKeeping, CommitAndWake, CommitSilently, Commit
  <2>4. CASE Finish(w)
    BY <1>2, <2>4 DEF Finish, PublishOutputs, Finalize, RepairPublication, CommitAndWake,
                      CommitSilently, Commit
  <2>5. CASE Catch(w)
    BY <1>2, <2>5 DEF Catch, LoseCommit, CatchHeld, RethrowHeld, EndCancelled,
                      ReleaseAndRetry, FailRun, ToRecovery, CommitSilently, Commit, Release
  <2> QED
    BY <1>3, <2>1, <2>2, <2>3, <2>4, <2>5 DEF Work
<1>4. ASSUME NEW w \in Workers, Trouble(w)
      PROVE  run' = run
  BY <1>2, <1>4 DEF Trouble, FailHydration, Heartbeat, HearCancellation, Crash, FailModel,
                    RaiseError, Release, CommitKeeping
<1>5. CASE Dispatch \/ ExpireLease \/ LoseQueue \/ \E k \in outbox.open : DeadLetter(k)
  BY <1>1, <1>5 DEF Dispatch, Publish, RecoverLease, ExpireLease, LoseQueue, DeadLetter
<1>6. CASE Api
  BY <1>6 DEF Api, CancelRun, DecideApproval, AnswerQuestion, ExpireWait, Decidable,
              RecoverRetry, RecoverMarkComplete, RecoverCancel, Terminal
<1> QED
  BY <1>3, <1>4, <1>5, <1>6 DEF Next

\* Only recover, and only from recovery_required, moves a terminal run.
THEOREM TerminalRunsStay == Spec => TerminalStays
<1>1. TurnInv /\ [Next]_vars =>
          [run.state \in Terminal /\ run' # run
               => run.state = "recovery_required" /\ ws' = ws]_vars
  BY TerminalStep
<1> QED
  BY <1>1, Invariance, PTL DEF Spec, TerminalStays

\* A commit of a worker that leaves the run active wakes it by a new row.
LEMMA WorkerWakes ==
    ASSUME TurnInv, NEW w \in Workers, CallModel(w) \/ ExecuteTool(w) \/ Finish(w),
           run'.version # run.version, run'.state \in Active, run'.lease = "none"
    PROVE  outbox'.open \ outbox.used # {}
<1>1. TypeOK /\ tool \in ToolSteps /\ model \in ModelSteps /\ doubt \in BOOLEAN
      /\ ws[w].tool \in ToolSteps
  BY DEF TurnInv, TypeOK, WorkerType
<1> USE <1>1
<1>2. \A next \in {"calling_model", "executing_tool", "finalizing"} :
          next \in States \ Terminal
  BY DEF States, Active, Terminal
<1>3. \A next \in {"completed", "failed", "recovery_required", "waiting"} :
          next \in States /\ next \notin Active
  BY DEF States, Active, Terminal
<1>4. ASSUME NEW t, NEW m \in ModelSteps, CommitKeeping(w, t, m)
      PROVE  FALSE
  BY <1>4, KeepingFacts
<1>5. ASSUME NEW next \in {"completed", "failed", "recovery_required", "waiting"},
             NEW t, NEW m, CommitSilently(w, next, t, m)
      PROVE  FALSE
  BY <1>3, <1>5, CommitFacts DEF CommitSilently
<1>6. ASSUME NEW next \in {"calling_model", "executing_tool", "finalizing"},
             NEW t \in ToolSteps, NEW m \in ModelSteps, CommitAndWake(w, next, t, m),
             Hydrated(w), doubt' \in BOOLEAN, UNCHANGED <<queue, started, retries, faults>>
      PROVE  outbox'.open \ outbox.used # {}
  BY <1>2, <1>6, WakeFacts
<1>7. \A s \in {"failed", "completed"} : [ws[w].tool EXCEPT !.st = s] \in ToolSteps
  BY DEF ToolSteps, StepStates
<1>8. CASE CallModel(w)
  <2>1. ~StopAtLimit(w) /\ ~RejectAnswer(w)
    BY DEF StopAtLimit, RejectAnswer
  <2>2. ~PrepareModel(w) /\ ~RecordAnswer(w)
    BY <1>4 DEF PrepareModel, RecordAnswer
  <2>3. ~RequestModel(w)
    <3>1. [model EXCEPT !.attempt = model.attempt + 1] \in ModelSteps
      BY DEF ModelSteps
    <3> QED
      BY <1>4, <3>1 DEF RequestModel
  <2>4. ~FinishForBudget(w)
    BY <1>5 DEF FinishForBudget
  <2>5. CASE Assemble(w)
    BY <1>6, <2>5, NextCallFacts DEF Assemble, At, Hydrated, Claimed
  <2>6. ASSUME NEW c \in Calls, AnswerWithTool(w, c)
        PROVE  outbox'.open \ outbox.used # {}
    <3> DEFINE t == [NoTool EXCEPT !.kind = c.kind, !.asks = c.asks, !.st = "pending"]
    <3>1. t \in ToolSteps
      BY CallStep, Zenon
    <3>2. CommitAndWake(w, "executing_tool", t, model) /\ ws[w].pc = "answered"
          /\ UNCHANGED <<doubt, queue, started, retries, faults>>
      BY <2>6, Zenon DEF AnswerWithTool, At
    <3> HIDE DEF t
    <3> QED
      BY <1>6, <3>1, <3>2 DEF Hydrated, Claimed
  <2>7. CASE AnswerWithText(w)
    BY <1>6, <2>7 DEF AnswerWithText, At, Hydrated, Claimed
  <2>8. CASE AnswerEmpty(w)
    <3> DEFINE m == [NextCall(model) EXCEPT !.empty = TRUE]
    <3>1. m \in ModelSteps
      BY NextCallFacts, Zenon
    <3>2. CommitAndWake(w, "calling_model", tool, m) /\ ws[w].pc = "answered"
          /\ UNCHANGED <<doubt, queue, started, retries, faults>>
      BY <2>8, Zenon DEF AnswerEmpty, At
    <3> HIDE DEF m
    <3> QED
      BY <1>6, <3>1, <3>2 DEF Hydrated, Claimed
  <2> QED
    BY <1>8, <2>1, <2>2, <2>3, <2>4, <2>5, <2>6, <2>7, <2>8 DEF CallModel
<1>9. CASE ExecuteTool(w)
  <2>1. ~HoldCall(w) /\ ~HoldInterrupted(w) /\ ~LoseReply(w)
    BY <1>5 DEF HoldCall, HoldInterrupted, LoseReply, ToRecovery
  <2>2. ~AskQuestion(w) /\ ~AskApproval(w)
    BY <1>5 DEF AskQuestion, AskApproval
  <2>3. ~RunTool(w)
    BY DEF RunTool
  <2>4. ~IntendTool(w)
    BY <1>4 DEF IntendTool
  <2>5. CASE RefuseDenied(w) \/ ReportInterrupted(w)
    BY <1>6, <1>7, <2>5, NextCallFacts
    DEF RefuseDenied, ReportInterrupted, Executing, At, Hydrated, Claimed
  <2>6. CASE CompleteTool(w)
    BY <1>6, <1>7, <2>6, NextCallFacts DEF CompleteTool, At, Hydrated, Claimed
  <2>7. ASSUME NEW unsure \in BOOLEAN, FailTool(w, unsure)
        PROVE  outbox'.open \ outbox.used # {}
    BY <1>6, <1>7, <2>7, NextCallFacts DEF FailTool, At, Hydrated, Claimed
  <2> QED
    BY <1>9, <2>1, <2>2, <2>3, <2>4, <2>5, <2>6, <2>7 DEF ExecuteTool
<1>10. CASE Finish(w)
  <2>1. ~PublishOutputs(w)
    BY DEF PublishOutputs
  <2>2. ~Finalize(w)
    BY <1>5 DEF Finalize
  <2>3. CASE RepairPublication(w)
    <3> DEFINE m == [NextCall(model) EXCEPT !.repair = TRUE]
    <3>1. m \in ModelSteps
      BY NextCallFacts, Zenon
    <3>2. CommitAndWake(w, "calling_model", tool, m) /\ ws[w].pc = "publishing"
          /\ UNCHANGED <<doubt, queue, started, retries, faults>>
      BY <2>3, Zenon DEF RepairPublication, At
    <3> HIDE DEF m
    <3> QED
      BY <1>6, <3>1, <3>2 DEF Hydrated, Claimed
  <2> QED
    BY <1>10, <2>1, <2>2, <2>3 DEF Finish
<1> QED
  BY <1>8, <1>9, <1>10

\* So does the API: an approval, an answer or a recovery has a key of its own.
LEMMA ApiWakes ==
    ASSUME TurnInv, Api, run'.state \in Active, run'.version # run.version
    PROVE  outbox'.open \ outbox.used # {}
<1>1. TypeOK /\ run.version \in Nat /\ run.version + 1 \in Nat /\ model.iteration \in Nat
  BY Numbers DEF TurnInv
<1> USE <1>1
<1>2. \A next \in {"cancelled", "recovery_required", "failed"} :
          next \in States /\ next \notin Active
  BY DEF States, Active, Terminal
<1>3. ~CancelRun /\ ~ExpireWait
  BY <1>2, TransitionFacts DEF CancelRun, ExpireWait
<1>4. ~RecoverCancel
  BY DEF RecoverCancel, TypeOK, RunType
<1>5. ASSUME NEW k \in Keys, k \notin outbox.used, outbox' = Insert(k)
      PROVE  outbox'.open \ outbox.used # {}
  BY <1>5, InsertType
<1>6. ASSUME NEW decision \in {"approved", "denied"}, DecideApproval(decision)
      PROVE  outbox'.open \ outbox.used # {}
  <2> DEFINE k == Key("approval", model.iteration)
  <2>1. k \in Keys /\ k.of = "approval" /\ k.at = model.iteration
    BY KeyType
  <2>2. outbox' = Insert(k) /\ tool.wait = "pending"
    BY <1>6 DEF DecideApproval, Decidable
  <2> HIDE DEF k
  <2>3. k \notin outbox.used
    BY <2>1, <2>2 DEF TurnInv, KeysAreSpent
  <2> QED
    BY <1>5, <2>1, <2>2, <2>3
<1>7. CASE AnswerQuestion
  <2> DEFINE k == Key("question", model.iteration)
  <2>1. k \in Keys /\ k.of = "question" /\ k.at = model.iteration
    BY KeyType
  <2>2. outbox' = Insert(k)
    BY <1>7 DEF AnswerQuestion
  <2> HIDE DEF k
  <2>3. k \notin outbox.used
    BY <2>1 DEF TurnInv, KeysAreSpent
  <2> QED
    BY <1>5, <2>1, <2>2, <2>3
<1>8. CASE RecoverRetry \/ RecoverMarkComplete
  <2> DEFINE k == Key("operator", run.version + 1)
  <2>1. k \in Keys /\ k.of = "operator" /\ k.at = run.version + 1
    BY KeyType
  <2>2. outbox' = Insert(k)
    BY <1>8 DEF RecoverRetry, RecoverMarkComplete
  <2> HIDE DEF k
  <2>3. k \notin outbox.used
    BY <2>1 DEF TurnInv, KeysAreSpent
  <2> QED
    BY <1>5, <2>1, <2>2, <2>3
<1> QED
  BY <1>3, <1>4, <1>6, <1>7, <1>8 DEF Api

\* No other step leaves an active, unleased run at a new version.
LEMMA OthersKeepVersion ==
    ASSUME TurnInv,
           \/ \E w \in Workers : Deliver(w) \/ Catch(w) \/ Trouble(w)
           \/ Dispatch \/ ExpireLease \/ LoseQueue
           \/ \E k \in outbox.open : DeadLetter(k),
           run'.version # run.version, run'.state \in Active
    PROVE  run'.lease # "none"
<1>1. TypeOK /\ model \in ModelSteps
  BY DEF TurnInv, TypeOK
<1> USE <1>1
<1>2. ASSUME NEW w \in Workers, Deliver(w)
      PROVE  FALSE
  BY <1>2, ReleaseType DEF Deliver, Start, Claim, FindNothing, Hydrate, LeaveWaiting,
                           TypeOK, RunType
<1>3. ASSUME NEW w \in Workers, Catch(w)
      PROVE  FALSE
  <2>1. \A next \in {"failed", "recovery_required"} : next \in States /\ next \notin Active
    BY DEF States, Active, Terminal
  <2>2. ~CatchHeld(w) /\ ~FailRun(w)
    BY <2>1, CommitFacts DEF CatchHeld, FailRun, ToRecovery, CommitSilently
  <2>3. ~LoseCommit(w) /\ ~RethrowHeld(w) /\ ~EndCancelled(w)
    BY DEF LoseCommit, RethrowHeld, EndCancelled
  <2>4. ~ReleaseAndRetry(w)
    BY ReleaseType DEF ReleaseAndRetry
  <2> QED
    BY <1>3, <2>2, <2>3, <2>4 DEF Catch
<1>4. ASSUME NEW w \in Workers, Trouble(w)
      PROVE  run'.lease # "none"
  <2>1. ~FailHydration(w)
    BY ReleaseType DEF FailHydration
  <2>2. ~Heartbeat(w)
    BY DEF Heartbeat, TypeOK, RunType
  <2>3. ~HearCancellation(w) /\ ~Crash(w) /\ \A err : ~RaiseError(w, err)
    BY DEF HearCancellation, Crash, RaiseError
  <2>4. ASSUME NEW err, FailModel(w, err)
        PROVE  run'.lease # "none"
    BY <2>4, KeepingFacts DEF FailModel
  <2> QED
    BY <1>4, <2>1, <2>2, <2>3, <2>4 DEF Trouble
<1>5. ~Dispatch /\ ~ExpireLease /\ ~LoseQueue /\ \A k : ~DeadLetter(k)
  BY DEF Dispatch, Publish, RecoverLease, ExpireLease, LoseQueue, DeadLetter, TypeOK, RunType
<1> QED
  BY <1>2, <1>3, <1>4, <1>5

\* Whatever leaves the run active and unleased at a new version inserts a
\* wake-up row whose dedupe key was never used, so that none is dropped.
THEOREM WakeUpsAreNew == Spec => WakeIsNew
<1>1. ASSUME TurnInv, Next, run.version # run'.version, run'.state \in Active,
             run'.lease = "none"
      PROVE  outbox'.open \ outbox.used # {}
  BY <1>1, WorkerWakes, ApiWakes, OthersKeepVersion DEF Next, Work
<1>2. TurnInv /\ [Next]_vars =>
          [run.version # run'.version /\ run'.state \in Active /\ run'.lease = "none"
               => outbox'.open \ outbox.used # {}]_vars
  BY <1>1
<1> QED
  BY <1>2, Invariance, PTL DEF Spec, WakeIsNew
=============================================================================
