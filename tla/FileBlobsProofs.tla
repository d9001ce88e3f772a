--------------------------- MODULE FileBlobsProofs ---------------------------
(***************************************************************************)
(* What TLAPS proves about FileBlobs, for any files, workers, requests and *)
(* bounds: the type invariant, that the last file of a blob schedules its  *)
(* deletion, and that a live file keeps its object.                        *)
(***************************************************************************)
EXTENDS FileBlobs, TLAPS

\* CHOOSE in the idle rows names a file, because there is one.
LEMMA SomeFileIsFile == SomeFile \in Files
BY ContentAssumption DEF SomeFile

\* The rows' transitions keep the row's type.
LEMMA RowTypes ==
    ASSUME NEW row \in JobType
    PROVE  /\ Opened(row) \in JobType /\ Revived(row) \in JobType /\ Closed(row) \in JobType
           /\ Deliverable(row) => Delivered(row) \in JobType /\ row.epoch + 1 \in 0..MaxDeliveries
           /\ \A e : WatchdogClosed(row, e) \in JobType
<1>1. row.open \in BOOLEAN /\ row.dead \in BOOLEAN /\ row.epoch \in 0..MaxDeliveries
  BY DEF JobType
<1>2. Opened(row) \in JobType
  BY <1>1 DEF JobType, Opened
<1>3. Revived(row) \in JobType
  BY <1>1 DEF JobType, Revived
<1>4. Closed(row) \in JobType
  BY <1>1 DEF JobType, Closed
<1>5. Deliverable(row) => row.epoch + 1 \in 0..MaxDeliveries
  BY <1>1, BoundsAssumption DEF Deliverable
<1>6. Deliverable(row) => Delivered(row) \in JobType
  BY <1>1, <1>5 DEF JobType, Delivered
<1>7. \A e : WatchdogClosed(row, e) \in JobType
  BY <1>4 DEF WatchdogClosed
<1> QED
  BY <1>2, <1>3, <1>4, <1>5, <1>6, <1>7

\* A delivery is acknowledged or closed without any other change of the row.
LEMMA DeliveredClosed ==
    ASSUME NEW row \in JobType, Deliverable(row)
    PROVE  Closed(Delivered(row)) \in JobType
BY RowTypes

\* The history of rare events keeps its type.
LEMMA SpendTypes ==
    ASSUME TypeOK
    PROVE  /\ \A x \in Events : Spend(x) => used' \subseteq Events
           /\ \A x \in Events : \A p : SpendIf(x, p) => used' \subseteq Events
           /\ UNCHANGED used => used' \subseteq Events
<1>1. \A x \in Events : Spend(x) => used' \subseteq Events
  BY DEF TypeOK, Spend
<1>2. UNCHANGED used => used' \subseteq Events
  BY DEF TypeOK
<1> QED
  BY <1>1, <1>2 DEF SpendIf

\* What registering files does to the types.
LEMMA RegisterTypes ==
    ASSUME TypeOK, NEW f \in Files, InitiateUpload(f) \/ RegisterStored(f)
    PROVE  TypeOK'
<1> USE DEF TypeOK
<1>1. blob[f] \in BlobType /\ verifyJob[f] \in JobType
  OBVIOUS
<1>2. [blob[f] EXCEPT !.status = "unverified"] \in BlobType
  BY <1>1 DEF BlobType, Statuses
<1>3. blob' = [blob EXCEPT ![f] = [blob[f] EXCEPT !.status = "unverified"]]
  BY DEF InitiateUpload, RegisterStored
<1>4. blob' \in [Files -> BlobType]
  BY <1>2, <1>3
<1>5. used' \subseteq Events
  BY SpendTypes DEF InitiateUpload, RegisterStored, Events
<1>6. upload' \in [Files -> Uploads]
  BY DEF InitiateUpload, RegisterStored, Uploads
<1>7. links' \in [Files -> SUBSET Links]
  <2>1. {} \in SUBSET Links /\ {"user"} \in SUBSET Links
    BY DEF Links
  <2>2. PICK chat \in SUBSET Links : links' = [links EXCEPT ![f] = chat]
    BY <2>1 DEF InitiateUpload, RegisterStored, Links
  <2> QED
    BY <2>2
<1>8. object' \in [Files -> Objects]
  BY DEF InitiateUpload, RegisterStored, Objects
<1>9. verifyJob' \in [Files -> JobType]
  <2>1. Opened(verifyJob[f]) \in JobType
    BY <1>1, RowTypes
  <2>2. UNCHANGED verifyJob \/ verifyJob' = [verifyJob EXCEPT ![f] = Opened(verifyJob[f])]
    BY DEF InitiateUpload, RegisterStored
  <2> QED
    BY <2>1, <2>2
<1>10. UNCHANGED <<deleted, blobOf, deleteJob, gc, call, worker, quarantined>>
  BY DEF InitiateUpload, RegisterStored
<1>11. expected' \in [Files -> {"none", "right", "wrong"}]
  BY DEF InitiateUpload, RegisterStored, Declares
<1> QED
  BY <1>4, <1>5, <1>6, <1>7, <1>8, <1>9, <1>10, <1>11

\* What a collector decides keeps its type.
LEMMA CollectTypes ==
    ASSUME TypeOK, NEW f \in Files, NEW retires \in BOOLEAN, BeginCollect(f, retires)
    PROVE  gc' \in [Files -> GcType]
<1>1. [step |-> Decision(f), retires |-> retires] \in GcType
  BY DEF Decision, GcType
<1> QED
  BY <1>1 DEF BeginCollect, TypeOK

\* What the requests do to the types.
LEMMA RequestTypes ==
    ASSUME TypeOK, NEW c \in Calls, ApiStep(c)
    PROVE  TypeOK'
<1> USE DEF TypeOK
<1>1. call[c] \in CallType /\ call[c].file \in Files /\ call[c].blob \in Files
  BY DEF CallType
<1>2. IdleCall \in CallType
  BY SomeFileIsFile DEF IdleCall, CallType
<1>3. \A s \in {"mismatch", "stored", "aborted"} : [call[c] EXCEPT !.step = s] \in CallType
  BY <1>1 DEF CallType
<1>4. ASSUME NEW f \in Files, CompleteUpload(c, f) \/ AbortUpload(c, f)
      PROVE  TypeOK'
  <2>1. PICK op \in {"complete", "abort"} : Request(c, op, f)
    BY <1>4 DEF CompleteUpload, AbortUpload
  <2>2. [op |-> op, file |-> f, blob |-> blobOf[f], step |-> "read"] \in CallType
    BY DEF CallType
  <2>3. call' \in [Calls -> CallType]
    BY <2>1, <2>2 DEF Request
  <2>4. used' \subseteq Events
    BY <1>4, SpendTypes DEF CompleteUpload, AbortUpload, Events
  <2> QED
    BY <2>1, <2>3, <2>4 DEF Request
<1>5. CASE CompleteStore(c)
  <2>1. object' \in [Files -> Objects]
    <3>1. UNCHANGED object \/ \E o \in {"gone", "misfit", "stored"} : object' = [object EXCEPT ![call[c].blob] = o]
      BY <1>5 DEF CompleteStore
    <3>2. {"gone", "misfit", "stored"} \subseteq Objects
      BY DEF Objects
    <3> QED
      BY <3>1, <3>2
  <2>2. \/ call' = [call EXCEPT ![c] = IdleCall]
        \/ \E s \in {"mismatch", "stored"} :
              call' = [call EXCEPT ![c] = [call[c] EXCEPT !.step = s]]
    BY <1>5 DEF CompleteStore
  <2>3. call' \in [Calls -> CallType]
    BY <1>2, <1>3, <2>2
  <2> QED
    BY <1>5, <2>1, <2>3 DEF CompleteStore
<1>6. CASE CompleteCommit(c)
  <2> DEFINE f == call[c].file
             b == call[c].blob
  <2>1. f \in Files /\ b \in Files /\ blob[b] \in BlobType /\ verifyJob[b] \in JobType
    BY <1>1
  <2>2. call' \in [Calls -> CallType]
    BY <1>2, <1>6 DEF CompleteCommit
  <2>3. upload' \in [Files -> Uploads]
    BY <1>6 DEF CompleteCommit, Uploads
  <2>4. links' \in [Files -> SUBSET Links]
    BY <1>6, <2>1 DEF CompleteCommit, Links
  <2>5. \A s \in Statuses : [blob[b] EXCEPT !.status = s] \in BlobType
    BY <2>1 DEF BlobType
  <2>6. blob[b].status \in Statuses /\ "unverified" \in Statuses
    BY <2>1 DEF BlobType, Statuses
  <2>7. UNCHANGED blob \/ \E s \in Statuses : blob' = [blob EXCEPT ![b] = [blob[b] EXCEPT !.status = s]]
    BY <1>6, <2>6 DEF CompleteCommit
  <2>8. blob' \in [Files -> BlobType]
    <3> HIDE DEF b
    <3> QED
      BY <2>5, <2>7
  <2>9. verifyJob' \in [Files -> JobType]
    BY <1>6, <2>1, RowTypes DEF CompleteCommit
  <2>10. quarantined' \subseteq Files
    BY <1>6 DEF CompleteCommit
  <2> QED
    BY <1>6, <2>2, <2>3, <2>4, <2>8, <2>9, <2>10 DEF CompleteCommit
<1>7. CASE AbortStore(c)
  <2>1. object' \in [Files -> Objects]
    BY <1>1, <1>7 DEF AbortStore, Objects
  <2>2. call' = [call EXCEPT ![c] = [call[c] EXCEPT !.step = "aborted"]]
    BY <1>7 DEF AbortStore
  <2>3. call' \in [Calls -> CallType]
    BY <1>3, <2>2
  <2>4. UNCHANGED <<upload, links, deleted, blobOf, blob, verifyJob, deleteJob, gc, worker, expected, quarantined, used>>
    BY <1>7 DEF AbortStore
  <2> QED
    BY <2>1, <2>3, <2>4
<1>8. CASE RetireUpload(c)
  <2> DEFINE f == call[c].file
  <2>1. call' \in [Calls -> CallType]
    BY <1>2, <1>8 DEF RetireUpload
  <2>2. upload' \in [Files -> Uploads]
    BY <1>8 DEF RetireUpload, Uploads
  <2>3. links' \in [Files -> SUBSET Links]
    <3>1. {"branding"} \in SUBSET Links
      BY DEF Links
    <3>2. UNCHANGED links \/ links' = [links EXCEPT ![f] = {"branding"}]
      BY <1>8 DEF RetireUpload
    <3> QED
      BY <3>1, <3>2
  <2>4. UNCHANGED gc \/ BeginCollect(f, TRUE)
    BY <1>8 DEF RetireUpload
  <2>5. gc' \in [Files -> GcType]
    BY <1>1, <2>4, CollectTypes
  <2> QED
    BY <1>8, <2>1, <2>2, <2>3, <2>5 DEF RetireUpload
<1>9. CASE CallDies(c)
  <2>1. used' \subseteq Events
    BY <1>9, SpendTypes DEF CallDies, Events
  <2> QED
    BY <1>2, <1>9, <2>1 DEF CallDies
<1> QED
  BY <1>4, <1>5, <1>6, <1>7, <1>8, <1>9 DEF ApiStep

\* What a new status does to a blob row's type; the row's other columns too.
LEMMA BlobTypes ==
    ASSUME NEW r \in BlobType
    PROVE  /\ r.status \in Statuses
           /\ \A s \in Statuses : [r EXCEPT !.status = s] \in BlobType
           /\ Spared(r) \in BlobType
           /\ Scheduled(r) \in BlobType
           /\ [Scheduled(r) EXCEPT !.hashed = TRUE] \in BlobType
           /\ [r EXCEPT !.status = "verified", !.hashed = TRUE, !.due = "none"] \in BlobType
           /\ [r EXCEPT !.status = "verifying", !.fresh = TRUE] \in BlobType
           /\ [r EXCEPT !.status = "deleted", !.claimed = FALSE] \in BlobType
           /\ [r EXCEPT !.due = "over"] \in BlobType
           /\ \A v \in BOOLEAN : /\ [r EXCEPT !.fresh = v] \in BlobType
                                 /\ [r EXCEPT !.claimed = v] \in BlobType
<1> USE DEF BlobType, Statuses
<1>1. r.status \in Statuses
  OBVIOUS
<1>2. \A s \in Statuses : [r EXCEPT !.status = s] \in BlobType
  OBVIOUS
<1>3. Spared(r) \in BlobType
  BY DEF Spared
<1>4. Scheduled(r) \in BlobType
  BY DEF Scheduled
<1>5. [Scheduled(r) EXCEPT !.hashed = TRUE] \in BlobType
  BY <1>4
<1>6. [r EXCEPT !.status = "verified", !.hashed = TRUE, !.due = "none"] \in BlobType
  OBVIOUS
<1>7. [r EXCEPT !.status = "verifying", !.fresh = TRUE] \in BlobType
  OBVIOUS
<1>8. [r EXCEPT !.status = "deleted", !.claimed = FALSE] \in BlobType
  OBVIOUS
<1>9. [r EXCEPT !.due = "over"] \in BlobType
  OBVIOUS
<1>10. \A v \in BOOLEAN : [r EXCEPT !.fresh = v] \in BlobType /\ [r EXCEPT !.claimed = v] \in BlobType
  OBVIOUS
<1> QED
  BY <1>1, <1>2, <1>3, <1>4, <1>5, <1>6, <1>7, <1>8, <1>9, <1>10

\* What references and collections do to the types.
LEMMA FileTypes ==
    ASSUME TypeOK, NEW f \in Files, FileStep(f)
    PROVE  TypeOK'
<1> USE DEF TypeOK
<1>1. CASE InitiateUpload(f) \/ RegisterStored(f)
  BY <1>1, RegisterTypes
<1>2. CASE ExpireUpload(f)
  <2>1. upload' \in [Files -> Uploads]
    BY <1>2 DEF ExpireUpload, Uploads
  <2>2. links' \in [Files -> SUBSET Links]
    BY <1>2 DEF ExpireUpload
  <2> QED
    BY <1>2, <2>1, <2>2 DEF ExpireUpload
<1>3. ASSUME NEW link \in Links, Refer(f, link)
      PROVE  TypeOK'
  <2> DEFINE b == blobOf[f]
  <2>1. blob[b] \in BlobType /\ deleteJob[b] \in JobType
    OBVIOUS
  <2>2. used' \subseteq Events
    BY <1>3, SpendTypes DEF Refer, Events
  <2>3. links' \in [Files -> SUBSET Links]
    BY <1>3 DEF Refer
  <2>4. \/ UNCHANGED <<blob, deleteJob>>
        \/ /\ blob' = [blob EXCEPT ![b] = Spared(blob[b])]
           /\ deleteJob' = [deleteJob EXCEPT ![b] = Closed(deleteJob[b])]
    BY <1>3 DEF Refer
  <2>5. /\ Spared(blob[b]) \in BlobType
        /\ Closed(deleteJob[b]) \in JobType
    BY <2>1, BlobTypes, RowTypes
  <2>6. blob' \in [Files -> BlobType] /\ deleteJob' \in [Files -> JobType]
    <3> HIDE DEF b
    <3> QED
      BY <2>4, <2>5
  <2> QED
    BY <1>3, <2>2, <2>3, <2>6 DEF Refer
<1>4. ASSUME NEW link \in Links, Unrefer(f, link)
      PROVE  TypeOK'
  <2>1. links' \in [Files -> SUBSET Links]
    <3>1. links[f] \ {link} \in SUBSET Links
      OBVIOUS
    <3>2. UNCHANGED links \/ links' = [links EXCEPT ![f] = links[f] \ {link}]
      BY <1>4 DEF Unrefer
    <3> QED
      BY <3>1, <3>2
  <2>2. UNCHANGED gc \/ BeginCollect(f, FALSE)
    BY <1>4 DEF Unrefer
  <2>3. gc' \in [Files -> GcType]
    BY <2>2, CollectTypes
  <2> QED
    BY <1>4, <2>1, <2>3 DEF Unrefer
<1>5. CASE CleanupOrphan(f)
  <2>1. gc' \in [Files -> GcType]
    BY <1>5, CollectTypes DEF CleanupOrphan
  <2> QED
    BY <1>5, <2>1 DEF CleanupOrphan
<1>6. [step |-> "none", retires |-> FALSE] \in GcType
  BY DEF GcType
<1>7. CASE Collect(f)
  <2> DEFINE b == blobOf[f]
  <2>1. blob[b] \in BlobType /\ deleteJob[b] \in JobType
    OBVIOUS
  <2>2. Scheduled(blob[b]) \in BlobType /\ Opened(deleteJob[b]) \in JobType
    BY <2>1, BlobTypes, RowTypes
  <2>3. /\ UNCHANGED blob \/ blob' = [blob EXCEPT ![b] = Scheduled(blob[b])]
        /\ UNCHANGED deleteJob \/ deleteJob' = [deleteJob EXCEPT ![b] = Opened(deleteJob[b])]
    BY <1>7 DEF Collect
  <2>4. blob' \in [Files -> BlobType] /\ deleteJob' \in [Files -> JobType]
    BY <2>2, <2>3
  <2>5. gc' \in [Files -> GcType]
    BY <1>6, <1>7 DEF Collect
  <2>6. upload' \in [Files -> Uploads]
    BY <1>7 DEF Collect, Uploads
  <2>7. links' \in [Files -> SUBSET Links]
    <3>1. links[f] \cap {"branding"} \in SUBSET Links
      OBVIOUS
    <3>2. links' = [links EXCEPT ![f] = links[f] \cap {"branding"}]
      BY <1>7 DEF Collect
    <3> QED
      BY <3>1, <3>2
  <2>8. deleted' \in [Files -> BOOLEAN]
    BY <1>7 DEF Collect
  <2> QED
    BY <1>7, <2>4, <2>5, <2>6, <2>7, <2>8 DEF Collect
<1>8. CASE CollectRollsBack(f)
  <2>1. gc' \in [Files -> GcType]
    BY <1>6, <1>8 DEF CollectRollsBack
  <2>2. used' \subseteq Events
    BY <1>8, SpendTypes DEF CollectRollsBack, Events
  <2> QED
    BY <1>8, <2>1, <2>2 DEF CollectRollsBack
<1> QED
  BY <1>1, <1>2, <1>3, <1>4, <1>5, <1>7, <1>8 DEF FileStep

\* What the blob jobs do to the types.
LEMMA WorkerTypes ==
    ASSUME TypeOK, NEW w \in Workers, WorkerStep(w)
    PROVE  TypeOK'
<1> USE DEF TypeOK
<1> DEFINE v == worker[w].blob
<1>1. v \in Files /\ blob[v] \in BlobType /\ verifyJob[v] \in JobType /\ deleteJob[v] \in JobType
  <2>1. worker[w] \in WorkerType
    OBVIOUS
  <2>2. v \in Files
    BY <2>1 DEF WorkerType
  <2> QED
    BY <2>2
<1>2. Idle(w) => worker' \in [Workers -> WorkerType]
  <2>1. IdleWorker \in WorkerType
    BY SomeFileIsFile, BoundsAssumption DEF IdleWorker, WorkerType
  <2> QED
    BY <2>1 DEF Idle
<1>3. ASSUME NEW b \in Files, VerifyClaim(w, b)
      PROVE  TypeOK'
  <2>1. blob[b] \in BlobType /\ verifyJob[b] \in JobType /\ Deliverable(verifyJob[b])
    BY <1>3 DEF VerifyClaim
  <2>2. /\ Delivered(verifyJob[b]) \in JobType /\ Closed(Delivered(verifyJob[b])) \in JobType
        /\ Revived(Delivered(verifyJob[b])) \in JobType
        /\ verifyJob[b].epoch + 1 \in 0..MaxDeliveries
    BY <2>1, RowTypes
  <2>3. [blob[b] EXCEPT !.status = "verifying", !.fresh = TRUE] \in BlobType
    BY <2>1, BlobTypes
  <2>4. [step |-> "hashing", blob |-> b, epoch |-> verifyJob[b].epoch + 1] \in WorkerType
    BY <2>2 DEF WorkerType
  <2>5. verifyJob' \in [Files -> JobType]
    <3>1. \/ verifyJob' = [verifyJob EXCEPT ![b] = Closed(Delivered(verifyJob[b]))]
          \/ verifyJob' = [verifyJob EXCEPT ![b] = Delivered(verifyJob[b])]
          \/ verifyJob' = [verifyJob EXCEPT ![b] = Revived(Delivered(verifyJob[b]))]
      BY <1>3 DEF VerifyClaim
    <3> QED
      BY <2>2, <3>1
  <2>6. blob' \in [Files -> BlobType]
    <3>1. UNCHANGED blob \/ blob' = [blob EXCEPT ![b] = [blob[b] EXCEPT !.status = "verifying", !.fresh = TRUE]]
      BY <1>3 DEF VerifyClaim
    <3> QED
      BY <2>3, <3>1
  <2>7. worker' \in [Workers -> WorkerType]
    <3>1. UNCHANGED worker \/ worker' = [worker EXCEPT ![w] =
             [step |-> "hashing", blob |-> b, epoch |-> verifyJob[b].epoch + 1]]
      BY <1>3 DEF VerifyClaim
    <3> QED
      BY <2>4, <3>1
  <2>8. used' \subseteq Events
    BY <1>3, SpendTypes DEF VerifyClaim, Events
  <2> QED
    BY <1>3, <2>5, <2>6, <2>7, <2>8 DEF VerifyClaim
<1>4. ASSUME NEW b \in Files, DeleteClaim(w, b)
      PROVE  TypeOK'
  <2> DEFINE job == [step |-> "deleting", blob |-> b, epoch |-> deleteJob[b].epoch + 1]
  <2>1. blob[b] \in BlobType /\ deleteJob[b] \in JobType /\ Deliverable(deleteJob[b])
    BY <1>4 DEF DeleteClaim
  <2>2. /\ Delivered(deleteJob[b]) \in JobType /\ Closed(Delivered(deleteJob[b])) \in JobType
        /\ deleteJob[b].epoch + 1 \in 0..MaxDeliveries
    BY <2>1, RowTypes
  <2>3. /\ Spared(blob[b]) \in BlobType
        /\ [blob[b] EXCEPT !.claimed = TRUE] \in BlobType
    BY <2>1, BlobTypes
  <2>4. job \in WorkerType
    BY <2>2 DEF WorkerType
  <2>5. deleteJob' \in [Files -> JobType]
    <3>1. \/ deleteJob' = [deleteJob EXCEPT ![b] = Closed(Delivered(deleteJob[b]))]
          \/ deleteJob' = [deleteJob EXCEPT ![b] = Delivered(deleteJob[b])]
      BY <1>4 DEF DeleteClaim
    <3> QED
      BY <2>2, <3>1
  <2>6. blob' \in [Files -> BlobType]
    <3>1. \/ UNCHANGED blob
          \/ blob' = [blob EXCEPT ![b] = Spared(blob[b])]
          \/ blob' = [blob EXCEPT ![b] = [blob[b] EXCEPT !.claimed = TRUE]]
      BY <1>4 DEF DeleteClaim
    <3> QED
      BY <2>3, <3>1
  <2>7. worker' \in [Workers -> WorkerType]
    <3>1. UNCHANGED worker \/ worker' = [worker EXCEPT ![w] = job]
      BY <1>4 DEF DeleteClaim
    <3> HIDE DEF job
    <3> QED
      BY <2>4, <3>1
  <2>8. used' \subseteq Events
    BY <1>4, SpendTypes DEF DeleteClaim, Events
  <2> QED
    BY <1>4, <2>5, <2>6, <2>7, <2>8 DEF DeleteClaim
<1>5. CASE FinalizeVerification(w)
  <2>1. verifyJob' \in [Files -> JobType]
    <3>1. WatchdogClosed(verifyJob[v], worker[w].epoch) \in JobType
      BY <1>1, RowTypes
    <3>2. verifyJob' = [verifyJob EXCEPT ![v] = WatchdogClosed(verifyJob[v], worker[w].epoch)]
      BY <1>5 DEF FinalizeVerification
    <3> QED
      BY <3>1, <3>2
  <2>2. worker' \in [Workers -> WorkerType]
    BY <1>2, <1>5 DEF FinalizeVerification
  <2>3. blobOf' \in [Files -> Files]
    <3>1. UNCHANGED blobOf \/ \E x \in Winners(v) :
             blobOf' = [f \in Files |-> IF blobOf[f] = v THEN x ELSE blobOf[f]]
      BY <1>5 DEF FinalizeVerification
    <3>2. Winners(v) \subseteq Files
      BY DEF Winners
    <3> QED
      BY <3>1, <3>2
  <2>4. blob' \in [Files -> BlobType]
    <3>1. \/ UNCHANGED blob
          \/ blob' = [blob EXCEPT ![v] = [blob[v] EXCEPT !.status = "verified", !.hashed = TRUE, !.due = "none"]]
          \/ blob' = [blob EXCEPT ![v] = [Scheduled(blob[v]) EXCEPT !.hashed = TRUE]]
      BY <1>5 DEF FinalizeVerification
    <3>2. /\ [blob[v] EXCEPT !.status = "verified", !.hashed = TRUE, !.due = "none"] \in BlobType
          /\ [Scheduled(blob[v]) EXCEPT !.hashed = TRUE] \in BlobType
      BY <1>1, BlobTypes
    <3> HIDE DEF v
    <3> QED
      BY <3>1, <3>2
  <2>5. deleteJob' \in [Files -> JobType]
    <3>1. UNCHANGED deleteJob \/ deleteJob' = [deleteJob EXCEPT ![v] = Revived(deleteJob[v])]
      BY <1>5 DEF FinalizeVerification
    <3> QED
      BY <1>1, <3>1, RowTypes
  <2>6. quarantined' \subseteq Files
    BY <1>5 DEF FinalizeVerification
  <2> QED
    BY <1>5, <2>1, <2>2, <2>3, <2>4, <2>5, <2>6 DEF FinalizeVerification
<1>6. CASE VerificationFails(w)
  <2>1. PICK s \in Statuses : blob' = [blob EXCEPT ![v] = [blob[v] EXCEPT !.status = s]]
    <3>1. "failed" \in Statuses /\ blob[v].status \in Statuses
      BY <1>1, BlobTypes DEF Statuses
    <3> QED
      BY <1>6, <3>1 DEF VerificationFails
  <2>2. blob' \in [Files -> BlobType]
    BY <1>1, <2>1, BlobTypes
  <2>3. used' \subseteq Events
    BY <1>6, SpendTypes DEF VerificationFails, Events
  <2>4. worker' \in [Workers -> WorkerType]
    BY <1>2, <1>6 DEF VerificationFails
  <2>5. quarantined' \subseteq Files
    BY <1>6 DEF VerificationFails, LiveOn, FilesOn
  <2> QED
    BY <1>6, <2>2, <2>3, <2>4, <2>5 DEF VerificationFails
<1>7. CASE DeleteObject(w)
  <2>1. object' \in [Files -> Objects]
    <3>1. \E o \in Objects : object' = [object EXCEPT ![v] = o]
      BY <1>1, <1>7 DEF DeleteObject, Objects
    <3> QED
      BY <3>1
  <2>2. [worker[w] EXCEPT !.step = "erased"] \in WorkerType
    BY DEF WorkerType
  <2>3. worker' = [worker EXCEPT ![w] = [worker[w] EXCEPT !.step = "erased"]]
    BY <1>7 DEF DeleteObject
  <2>4. worker' \in [Workers -> WorkerType]
    BY <2>2, <2>3
  <2>5. UNCHANGED <<upload, links, deleted, blobOf, blob, verifyJob, deleteJob, gc, call, expected,
                    quarantined, used>>
    BY <1>7 DEF DeleteObject
  <2> QED
    BY <2>1, <2>4, <2>5
<1>8. CASE DeleteFails(w)
  <2>1. blob' = [blob EXCEPT ![v] = [blob[v] EXCEPT !.claimed = FALSE]]
    BY <1>8 DEF DeleteFails
  <2>2. blob' \in [Files -> BlobType]
    BY <1>1, <2>1, BlobTypes
  <2>3. used' \subseteq Events
    BY <1>8, SpendTypes DEF DeleteFails, Events
  <2>4. worker' \in [Workers -> WorkerType]
    BY <1>2, <1>8 DEF DeleteFails
  <2> QED
    BY <1>8, <2>2, <2>3, <2>4 DEF DeleteFails
<1>9. CASE CompleteDeletion(w)
  <2>1. \/ UNCHANGED blob
        \/ blob' = [blob EXCEPT ![v] = [blob[v] EXCEPT !.status = "deleted", !.claimed = FALSE]]
    BY <1>9 DEF CompleteDeletion
  <2>2. blob' \in [Files -> BlobType]
    <3>1. [blob[v] EXCEPT !.status = "deleted", !.claimed = FALSE] \in BlobType
      BY <1>1, BlobTypes
    <3> QED
      BY <2>1, <3>1
  <2>3. UNCHANGED deleteJob \/ deleteJob' = [deleteJob EXCEPT ![v] = Closed(deleteJob[v])]
    BY <1>9 DEF CompleteDeletion
  <2>4. deleteJob' \in [Files -> JobType]
    BY <1>1, <2>3, RowTypes
  <2>5. worker' \in [Workers -> WorkerType]
    BY <1>2, <1>9 DEF CompleteDeletion
  <2> QED
    BY <1>9, <2>2, <2>4, <2>5 DEF CompleteDeletion
<1>10. CASE WorkerDies(w)
  <2>1. used' \subseteq Events
    BY <1>10, SpendTypes DEF WorkerDies, Events
  <2> QED
    BY <1>2, <1>10, <2>1 DEF WorkerDies
<1> QED
  BY <1>3, <1>4, <1>5, <1>6, <1>7, <1>8, <1>9, <1>10 DEF WorkerStep

\* What time, maintenance and dead letters do to the types.
LEMMA BlobStepTypes ==
    ASSUME TypeOK, NEW b \in Files, BlobStep(b)
    PROVE  TypeOK'
<1> USE DEF TypeOK
<1>1. blob[b] \in BlobType /\ verifyJob[b] \in JobType /\ deleteJob[b] \in JobType
  OBVIOUS
<1>2. CASE ClaimAges(b)
  <2>1. blob' = [blob EXCEPT ![b] = [blob[b] EXCEPT !.fresh = FALSE]]
    BY <1>2 DEF ClaimAges
  <2>2. used' \subseteq Events
    BY <1>2, SpendTypes DEF ClaimAges, Events
  <2>3. blob' \in [Files -> BlobType]
    BY <1>1, <2>1, BlobTypes
  <2> QED
    BY <1>2, <2>2, <2>3 DEF ClaimAges
<1>3. CASE GraceEnds(b)
  <2>1. blob' = [blob EXCEPT ![b] = [blob[b] EXCEPT !.due = "over"]]
    BY <1>3 DEF GraceEnds
  <2>2. blob' \in [Files -> BlobType]
    BY <1>1, <2>1, BlobTypes
  <2> QED
    BY <1>3, <2>2 DEF GraceEnds
<1>4. CASE VerifyFileBlobs(b)
  <2>1. used' \subseteq Events
    BY <1>4, SpendTypes DEF VerifyFileBlobs, Events
  <2>2. verifyJob' \in [Files -> JobType]
    BY <1>1, <1>4, RowTypes DEF VerifyFileBlobs
  <2> QED
    BY <1>4, <2>1, <2>2 DEF VerifyFileBlobs
<1>5. CASE DeadLetterRow(b)
  <2> DEFINE Dead(row) == [row EXCEPT !.open = FALSE, !.dead = TRUE]
  <2>1. Dead(verifyJob[b]) \in JobType /\ Dead(deleteJob[b]) \in JobType
    BY <1>1 DEF JobType
  <2>2. /\ UNCHANGED verifyJob \/ verifyJob' = [verifyJob EXCEPT ![b] = Dead(verifyJob[b])]
        /\ UNCHANGED deleteJob \/ deleteJob' = [deleteJob EXCEPT ![b] = Dead(deleteJob[b])]
    BY <1>5 DEF DeadLetterRow, DeadLetter
  <2> HIDE DEF Dead
  <2>3. verifyJob' \in [Files -> JobType] /\ deleteJob' \in [Files -> JobType]
    BY <2>1, <2>2
  <2> QED
    BY <1>5, <2>3 DEF DeadLetterRow
<1> QED
  BY <1>2, <1>3, <1>4, <1>5 DEF BlobStep

\* Every step keeps the types.
LEMMA TypeNext == TypeOK /\ [Next]_vars => TypeOK'
<1> SUFFICES ASSUME TypeOK, [Next]_vars PROVE TypeOK'
  OBVIOUS
<1>1. CASE UNCHANGED vars
  BY <1>1 DEF vars, TypeOK
<1> QED
  BY <1>1, RequestTypes, FileTypes, WorkerTypes, BlobStepTypes DEF Next

-----------------------------------------------------------------------------
(* The invariant, kind of step by kind of step *)

\* The initial state.
LEMMA InitInv == Init => BlobInv
<1> SUFFICES ASSUME Init PROVE BlobInv
  OBVIOUS
<1> USE DEF Init
<1>1. TypeOK
  <2>1. NoRow \in JobType /\ [step |-> "none", retires |-> FALSE] \in GcType
    BY BoundsAssumption DEF NoRow, JobType, GcType
  <2>2. IdleCall \in CallType /\ IdleWorker \in WorkerType
    BY SomeFileIsFile, BoundsAssumption DEF IdleCall, IdleWorker, CallType, WorkerType
  <2>3. NoBlob \in BlobType
    BY DEF NoBlob, BlobType, Statuses
  <2>4. "none" \in Uploads /\ "absent" \in Objects /\ {} \in SUBSET Links
    BY DEF Uploads, Objects
  <2> QED
    BY <2>1, <2>2, <2>3, <2>4 DEF TypeOK
<1>2. UnregisteredIsUntouched
  BY DEF UnregisteredIsUntouched, FileFree, NoRow
<1>3. NamesAreRegistered
  BY DEF NamesAreRegistered, NoBlob, IdleCall, IdleWorker
<1>4. CollectorsHoldTheirBlob
  BY DEF CollectorsHoldTheirBlob, FileFree
<1>5. LastFileSchedules /\ DyingHasNoFiles
  BY DEF LastFileSchedules, DyingHasNoFiles, NoBlob, Dying
<1>9. LeavingIsFinal
  BY DEF LeavingIsFinal, IdleCall
<1>6. ErasersHoldDyingBlobs
  BY DEF ErasersHoldDyingBlobs, IdleWorker
<1>7. VerifiedIsStored
  BY DEF VerifiedIsStored, NoBlob
<1>8. MovedIsStored /\ CompletingIsStored /\ LiveFileHasObject
  BY DEF MovedIsStored, CompletingIsStored, LiveFileHasObject, IdleCall
<1> QED
  BY <1>1, <1>2, <1>3, <1>4, <1>5, <1>6, <1>7, <1>8, <1>9 DEF BlobInv

\* What the files of a blob are read from.
LEMMA LiveOnIsEmpty ==
    ASSUME NEW b
    PROVE  LiveOn(b) = {} <=> \A f \in Files : blobOf[f] = b => deleted[f]
BY DEF LiveOn, FilesOn

\* A step that moves and deletes no file leaves every blob its files, and every
\* collector its decision.
LEMMA FilesStay ==
    ASSUME UNCHANGED <<deleted, blobOf>>
    PROVE  /\ \A b : LiveOn(b)' = LiveOn(b) /\ FilesOn(b)' = FilesOn(b)
           /\ \A f \in Files : Decision(f)' = Decision(f)
<1>1. \A b : LiveOn(b)' = LiveOn(b) /\ FilesOn(b)' = FilesOn(b)
  BY DEF LiveOn, FilesOn
<1> QED
  BY <1>1 DEF Decision

\* Every file keeps its place, and none comes or goes.
PlacesStay ==
    /\ UNCHANGED <<deleted, blobOf>>
    /\ \A f \in Files : upload'[f] = "none" <=> upload[f] = "none"

Living == {"unverified", "verifying", "failed", "verified"}

\* A blob stays among the living or among the dying, and is verified only with
\* its bytes in storage.
StatusStays(b) ==
    \/ blob'[b].status = blob[b].status /\ blob'[b].hashed = blob[b].hashed
    \/ blob[b].status \in Dying /\ blob'[b].status \in Dying
    \/ /\ blob[b].status \in Living /\ blob'[b].status \in Living
       /\ blob'[b].hashed => blob'[b].status = "verified"
       /\ blob'[b].status = "verified" => object[b] = "stored"

\* A request is about registered files, and has stored what it says.
CallStays(c) ==
    \/ call'[c] = call[c] \/ call'[c].step = "idle"
    \/ /\ upload[call'[c].file] # "none" /\ upload[call'[c].blob] # "none"
       /\ blobOf[call'[c].file] = call'[c].file => call'[c].blob = call'[c].file
       /\ call'[c].step = "stored" => object'[call'[c].blob] = "stored"

\* A worker is on a registered blob, and an eraser on a dying one.
WorkerStays(w) ==
    \/ worker'[w] = worker[w] \/ worker'[w].step = "idle"
    \/ /\ upload[worker'[w].blob] # "none"
       /\ worker'[w].step = "hashing" \/ blob[worker'[w].blob].status \in Dying

\* Only files whose bytes are in storage become files to open; no object is
\* lost; unregistered files stay untouched.
FilesKept ==
    /\ \A f \in Files : upload'[f] \in {"completed", "direct"} /\ ~deleted[f] =>
          upload[f] \in {"completed", "direct"} \/ object[blobOf[f]] = "stored"
    /\ \A b \in Files : object[b] = "stored" => object'[b] = "stored"
    /\ \A f \in Files : upload[f] = "none" =>
          /\ links'[f] = {} /\ gc'[f].step = "none"
          /\ ~verifyJob'[f].open /\ ~deleteJob'[f].open

\* A step of these kinds keeps the invariant: all but registering a file,
\* collecting it, moving it to another blob and erasing an object.
LEMMA QuietStep ==
    ASSUME BlobInv, TypeOK', PlacesStay, FilesKept, CollectorsHoldTheirBlob',
           \A b \in Files : StatusStays(b),
           \A c \in Calls : CallStays(c),
           \A w \in Workers : WorkerStays(w)
    PROVE  BlobInv'
<1> USE DEF BlobInv
<1>0. /\ \A w \in Workers : worker[w].blob \in Files /\ worker'[w].blob \in Files
      /\ \A f \in Files : blobOf[f] \in Files
      /\ \A c \in Calls : call[c].file \in Files /\ call'[c].file \in Files /\
                          call[c].blob \in Files /\ call'[c].blob \in Files
  BY DEF TypeOK, WorkerType, CallType
<1>1. UnregisteredIsUntouched'
  BY DEF UnregisteredIsUntouched, FileFree, PlacesStay, FilesKept
<1>2. NamesAreRegistered'
  <2>1. \A f \in Files : blob'[f].status = "none" <=> upload'[f] = "none"
    BY DEF NamesAreRegistered, PlacesStay, StatusStays, Living, Dying
  <2>2. \A f \in Files : upload'[f] # "none" => upload'[blobOf'[f]] # "none"
    BY <1>0 DEF NamesAreRegistered, PlacesStay
  <2>3. \A c \in Calls : call'[c].step # "idle" =>
          upload'[call'[c].file] # "none" /\ upload'[call'[c].blob] # "none"
    BY <1>0 DEF NamesAreRegistered, PlacesStay, CallStays
  <2>4. \A w \in Workers : worker'[w].step # "idle" => upload'[worker'[w].blob] # "none"
    BY <1>0 DEF NamesAreRegistered, PlacesStay, WorkerStays
  <2> QED
    BY <2>1, <2>2, <2>3, <2>4 DEF NamesAreRegistered
<1>3. \A b \in Files : LiveOn(b)' = LiveOn(b)
  BY FilesStay DEF PlacesStay
<1>4. LastFileSchedules'
  BY <1>3 DEF LastFileSchedules, StatusStays, Living, Dying
<1>5. DyingHasNoFiles'
  BY <1>3 DEF DyingHasNoFiles, StatusStays, Living, Dying
<1>6. ErasersHoldDyingBlobs'
  BY <1>0 DEF ErasersHoldDyingBlobs, WorkerStays, StatusStays, Living, Dying
<1>7. VerifiedIsStored'
  BY DEF VerifiedIsStored, StatusStays, FilesKept, Living, Dying
<1>8. MovedIsStored'
  BY <1>0 DEF MovedIsStored, PlacesStay, FilesKept
<1>9. LiveFileHasObject'
  BY <1>0 DEF LiveFileHasObject, PlacesStay, FilesKept
<1>10. CompletingIsStored'
  BY <1>0 DEF CompletingIsStored, PlacesStay, FilesKept, CallStays
<1>11. LeavingIsFinal'
  <2>1. \A f \in Files : blobOf'[f] # f => blob'[f].status \in Dying
    BY DEF LeavingIsFinal, PlacesStay, StatusStays, Living, Dying
  <2>2. \A c \in Calls : call'[c].step # "idle" /\ blobOf'[call'[c].file] = call'[c].file
                            => call'[c].blob = call'[c].file
    BY <1>0 DEF LeavingIsFinal, PlacesStay, CallStays
  <2> QED
    BY <2>1, <2>2 DEF LeavingIsFinal
<1> QED
  BY <1>1, <1>2, <1>4, <1>5, <1>6, <1>7, <1>8, <1>9, <1>10, <1>11

\* Collectors are undisturbed by a step that moves no file and begins no
\* collection, and may end one.
LEMMA CollectorsStay ==
    ASSUME BlobInv, UNCHANGED <<deleted, blobOf>>,
           \A f \in Files : gc'[f] = gc[f] \/ gc'[f].step = "none"
    PROVE  CollectorsHoldTheirBlob'
<1>1. SUFFICES ASSUME NEW g \in Files, gc'[g].step # "none"
               PROVE  /\ \A h \in Files : blobOf[h] = blobOf[g] => h = g \/ gc'[h].step = "none"
                      /\ gc'[g].step = Decision(g)
  BY FilesStay DEF CollectorsHoldTheirBlob, FileFree, FilesOn
<1>2. gc'[g] = gc[g]
  BY <1>1
<1>3. /\ \A h \in Files : blobOf[h] = blobOf[g] => h = g \/ gc[h].step = "none"
      /\ gc[g].step = Decision(g)
  BY <1>1, <1>2 DEF BlobInv, CollectorsHoldTheirBlob, FileFree, FilesOn
<1> QED
  BY <1>2, <1>3

\* A collection begins under the locks of its file and of the file's blob.
LEMMA CollectorsBegin ==
    ASSUME BlobInv, UNCHANGED <<deleted, blobOf>>, NEW f \in Files, NEW retires, BeginCollect(f, retires)
    PROVE  CollectorsHoldTheirBlob'
<1>1. gc' = [gc EXCEPT ![f] = [step |-> Decision(f), retires |-> retires]] /\ gc \in [Files -> GcType]
  BY DEF BeginCollect, BlobInv, TypeOK
<1>2. \A g \in Files : gc'[g].step = IF g = f THEN Decision(f) ELSE gc[g].step
  BY <1>1
<1>3. \A g \in Files : blobOf[g] = blobOf[f] => gc[g].step = "none"
  BY DEF BeginCollect, BlobFree, FilesOn
<1>4. SUFFICES ASSUME NEW g \in Files, gc'[g].step # "none"
               PROVE  /\ \A h \in Files : blobOf[h] = blobOf[g] => h = g \/ gc'[h].step = "none"
                      /\ gc'[g].step = Decision(g)
  BY FilesStay DEF CollectorsHoldTheirBlob, FileFree, FilesOn
<1>5. CASE g = f
  BY <1>2, <1>3, <1>5
<1>6. CASE g # f
  <2>1. /\ \A h \in Files : blobOf[h] = blobOf[g] => h = g \/ gc[h].step = "none"
        /\ gc[g].step = Decision(g)
    BY <1>2, <1>4, <1>6 DEF BlobInv, CollectorsHoldTheirBlob, FileFree, FilesOn
  <2>2. blobOf[g] # blobOf[f]
    BY <1>2, <1>3, <1>4, <1>6
  <2> QED
    BY <1>2, <1>6, <2>1, <2>2
<1> QED
  BY <1>5, <1>6

\* A request keeps the invariant.
LEMMA RequestStep ==
    ASSUME BlobInv, NEW c \in Calls, ApiStep(c)
    PROVE  BlobInv'
<1> USE DEF BlobInv
<1>0. /\ TypeOK' /\ call \in [Calls -> CallType]
      /\ call[c].file \in Files /\ call[c].blob \in Files /\ \A f \in Files : blobOf[f] \in Files
  BY RequestTypes DEF TypeOK, CallType
<1>1. ASSUME NEW f \in Files, CompleteUpload(c, f) \/ AbortUpload(c, f)
      PROVE  BlobInv'
  <2>1. PICK op : Request(c, op, f)
    BY <1>1 DEF CompleteUpload, AbortUpload
  <2>2. PlacesStay /\ FilesKept
    BY <2>1 DEF Request, PlacesStay, FilesKept, UnregisteredIsUntouched, FileFree
  <2>3. CollectorsHoldTheirBlob'
    BY <2>1, CollectorsStay DEF Request
  <2>4. ASSUME NEW d \in Calls PROVE CallStays(d)
    BY <1>0, <2>1 DEF Request, CallStays, NamesAreRegistered, LeavingIsFinal
  <2>5. \A b \in Files : StatusStays(b)
    BY <2>1 DEF Request, StatusStays
  <2>6. \A w \in Workers : WorkerStays(w)
    BY <2>1 DEF Request, WorkerStays
  <2> QED
    BY <1>0, <2>2, <2>3, <2>4, <2>5, <2>6, QuietStep
<1>2. CASE CompleteStore(c)
  <2>1. ASSUME NEW b \in Files, object[b] = "stored" PROVE object'[b] = "stored"
    BY <1>0, <1>2, <2>1 DEF CompleteStore, TypeOK
  <2>2. PlacesStay /\ FilesKept
    BY <1>2, <2>1 DEF CompleteStore, PlacesStay, FilesKept, UnregisteredIsUntouched, FileFree
  <2>3. CollectorsHoldTheirBlob'
    BY <1>2, CollectorsStay DEF CompleteStore
  <2>4. ASSUME NEW d \in Calls PROVE CallStays(d)
    <3>1. CASE d = c
      <4>1. CASE object[call[c].blob] = "gone"
        BY <1>0, <1>2, <3>1, <4>1 DEF CompleteStore, CallStays, IdleCall
      <4>2. CASE object[call[c].blob] # "gone"
        <5>1. PICK t \in {"mismatch", "stored"} :
                /\ call' = [call EXCEPT ![c] = [call[c] EXCEPT !.step = t]]
                /\ t = "stored" => object' = [object EXCEPT ![call[c].blob] = "stored"]
          BY <1>2, <4>2 DEF CompleteStore
        <5>2. /\ call'[c].file = call[c].file /\ call'[c].blob = call[c].blob
              /\ call'[c].step = t
          BY <1>0, <5>1 DEF CallType
        <5>3. t = "stored" => object'[call[c].blob] = "stored"
          BY <1>0, <5>1 DEF TypeOK
        <5>4. /\ upload[call[c].file] # "none" /\ upload[call[c].blob] # "none"
              /\ blobOf[call[c].file] = call[c].file => call[c].blob = call[c].file
          BY <1>2 DEF CompleteStore, NamesAreRegistered, LeavingIsFinal
        <5> QED
          BY <3>1, <5>2, <5>3, <5>4 DEF CallStays
      <4> QED
        BY <4>1, <4>2
    <3>2. CASE d # c
      BY <1>0, <1>2, <3>2 DEF CompleteStore, CallStays
    <3> QED
      BY <3>1, <3>2
  <2>5. \A b \in Files : StatusStays(b)
    BY <1>2 DEF CompleteStore, StatusStays
  <2>6. \A w \in Workers : WorkerStays(w)
    BY <1>2 DEF CompleteStore, WorkerStays
  <2> QED
    BY <1>0, <2>2, <2>3, <2>4, <2>5, <2>6, QuietStep
<1>3. CASE CompleteCommit(c)
  <2> DEFINE f == call[c].file
             b == call[c].blob
  <2>1. upload[f] # "none" /\ upload[b] # "none" /\ blob[b].status # "none"
    BY <1>0, <1>3 DEF CompleteCommit, NamesAreRegistered
  <2>2. ~deleted[f] => object[blobOf[f]] = "stored"
    <3>1. CASE blobOf[f] = b
      BY <1>0, <1>3, <3>1 DEF CompleteCommit, CompletingIsStored
    <3>2. CASE blobOf[f] # f
      BY <1>0, <3>2 DEF MovedIsStored
    <3>3. CASE blobOf[f] = f /\ b # f
      BY <1>3, <3>3 DEF CompleteCommit, LeavingIsFinal
    <3> QED
      BY <3>1, <3>2, <3>3
  <2>3. PlacesStay
    BY <1>0, <1>3, <2>1 DEF CompleteCommit, PlacesStay, TypeOK
  <2>4. FilesKept
    <3>1. \A g \in Files : upload'[g] \in {"completed", "direct"} /\ ~deleted[g] =>
            upload[g] \in {"completed", "direct"} \/ object[blobOf[g]] = "stored"
      BY <1>0, <1>3, <2>2 DEF CompleteCommit, TypeOK
    <3>2. ASSUME NEW g \in Files, upload[g] = "none"
          PROVE  links'[g] = {} /\ gc'[g].step = "none" /\ ~verifyJob'[g].open /\ ~deleteJob'[g].open
      BY <1>0, <1>3, <2>1, <3>2 DEF CompleteCommit, UnregisteredIsUntouched, FileFree, TypeOK
    <3> QED
      BY <1>3, <3>1, <3>2 DEF CompleteCommit, FilesKept
  <2>5. CollectorsHoldTheirBlob'
    BY <1>3, CollectorsStay DEF CompleteCommit
  <2>6. \A d \in Calls : CallStays(d)
    BY <1>0, <1>3 DEF CompleteCommit, CallStays, IdleCall
  <2>7. ASSUME NEW x \in Files PROVE StatusStays(x)
    <3>1. blob[b] \in BlobType
      BY <1>0 DEF TypeOK
    <3>2. UNCHANGED blob \/ \E t \in {blob[b].status, "unverified"} :
             /\ t # blob[b].status => blob[b].status = "failed"
             /\ blob' = [blob EXCEPT ![b] = [blob[b] EXCEPT !.status = t]]
      BY <1>3 DEF CompleteCommit
    <3>3. blob[b].hashed => blob[b].status # "failed"
      BY <1>0 DEF VerifiedIsStored, Dying
    <3>4. CASE UNCHANGED blob \/ x # b
      BY <3>2, <3>4 DEF StatusStays, TypeOK
    <3>5. CASE ~UNCHANGED blob /\ x = b
      <4>1. PICK t \in {blob[b].status, "unverified"} :
               /\ t # blob[b].status => blob[b].status = "failed"
               /\ blob' = [blob EXCEPT ![b] = [blob[b] EXCEPT !.status = t]]
        BY <3>2, <3>5
      <4>2. blob'[b].status = t /\ (blob'[b].hashed <=> blob[b].hashed)
        BY <1>0, <3>1, <4>1 DEF TypeOK, BlobType
      <4> QED
        BY <3>1, <3>3, <3>5, <4>1, <4>2 DEF StatusStays, Living, BlobType
    <3> QED
      BY <3>4, <3>5
  <2>8. \A w \in Workers : WorkerStays(w)
    BY <1>3 DEF CompleteCommit, WorkerStays
  <2> QED
    BY <1>0, <2>3, <2>4, <2>5, <2>6, <2>7, <2>8, QuietStep
<1>4. CASE AbortStore(c)
  <2>1. ASSUME NEW b \in Files, object[b] = "stored" PROVE object'[b] = "stored"
    BY <1>0, <1>4, <2>1 DEF AbortStore, TypeOK
  <2>2. PlacesStay /\ FilesKept
    BY <1>4, <2>1 DEF AbortStore, PlacesStay, FilesKept, UnregisteredIsUntouched, FileFree
  <2>3. CollectorsHoldTheirBlob'
    BY <1>4, CollectorsStay DEF AbortStore
  <2>4. ASSUME NEW d \in Calls PROVE CallStays(d)
    BY <1>0, <1>4 DEF AbortStore, CallStays, NamesAreRegistered, LeavingIsFinal, CallType
  <2>5. \A b \in Files : StatusStays(b)
    BY <1>4 DEF AbortStore, StatusStays
  <2>6. \A w \in Workers : WorkerStays(w)
    BY <1>4 DEF AbortStore, WorkerStays
  <2> QED
    BY <1>0, <2>2, <2>3, <2>4, <2>5, <2>6, QuietStep
<1>5. CASE RetireUpload(c)
  <2> DEFINE f == call[c].file
  <2>1. upload[f] # "none" /\ gc[f].step = "none"
    BY <1>0, <1>5 DEF RetireUpload, NamesAreRegistered, FileFree
  <2>2. PlacesStay
    BY <1>0, <1>5, <2>1 DEF RetireUpload, PlacesStay, TypeOK
  <2>3. UNCHANGED gc \/ BeginCollect(f, TRUE)
    BY <1>5 DEF RetireUpload
  <2>4. FilesKept
    <3>1. \A g \in Files : upload'[g] \in {"completed", "direct"} => upload[g] \in {"completed", "direct"}
      BY <1>0, <1>5 DEF RetireUpload, TypeOK
    <3>2. ASSUME NEW g \in Files, upload[g] = "none"
          PROVE  links'[g] = {} /\ gc'[g].step = "none" /\ ~verifyJob'[g].open /\ ~deleteJob'[g].open
      BY <1>0, <1>5, <2>1, <3>2 DEF RetireUpload, BeginCollect, UnregisteredIsUntouched, FileFree, TypeOK
    <3> QED
      BY <1>5, <3>1, <3>2 DEF RetireUpload, FilesKept
  <2>5. CollectorsHoldTheirBlob'
    BY <1>0, <1>5, <2>3, CollectorsStay, CollectorsBegin DEF RetireUpload
  <2>6. \A d \in Calls : CallStays(d)
    BY <1>0, <1>5 DEF RetireUpload, CallStays, IdleCall
  <2>7. \A b \in Files : StatusStays(b)
    BY <1>5 DEF RetireUpload, StatusStays
  <2>8. \A w \in Workers : WorkerStays(w)
    BY <1>5 DEF RetireUpload, WorkerStays
  <2> QED
    BY <1>0, <2>2, <2>4, <2>5, <2>6, <2>7, <2>8, QuietStep
<1>9. CASE CallDies(c)
  <2>2. PlacesStay /\ FilesKept
    BY <1>9 DEF CallDies, PlacesStay, FilesKept, UnregisteredIsUntouched, FileFree
  <2>3. CollectorsHoldTheirBlob'
    BY <1>9, CollectorsStay DEF CallDies
  <2>4. \A d \in Calls : CallStays(d)
    BY <1>0, <1>9 DEF CallDies, CallStays, IdleCall
  <2>5. \A b \in Files : StatusStays(b)
    BY <1>9 DEF CallDies, StatusStays
  <2>6. \A w \in Workers : WorkerStays(w)
    BY <1>9 DEF CallDies, WorkerStays
  <2> QED
    BY <1>0, <2>2, <2>3, <2>4, <2>5, <2>6, QuietStep
<1> QED
  BY <1>1, <1>2, <1>3, <1>4, <1>5, <1>9 DEF ApiStep

\* A step that only opens, ends or leaves collections, changes references or
\* retires uploads keeps the invariant.
LEMMA ReferenceStep ==
    ASSUME BlobInv, NEW f \in Files, upload[f] # "none",
           \/ ExpireUpload(f) \/ CleanupOrphan(f) \/ CollectRollsBack(f)
           \/ \E link \in Links : Refer(f, link) \/ Unrefer(f, link)
    PROVE  BlobInv'
<1> USE DEF BlobInv
<1>0. TypeOK'
  BY FileTypes DEF FileStep
<1>1. UNCHANGED <<deleted, blobOf, object, verifyJob, call, worker>>
  BY DEF ExpireUpload, CleanupOrphan, CollectRollsBack, Refer, Unrefer
<1>2. UNCHANGED <<blob, deleteJob>>
  <2>1. ASSUME NEW link \in Links, Refer(f, link) PROVE UNCHANGED <<blob, deleteJob>>
    <3>1. blob[blobOf[f]].status # "pending_delete"
      BY <2>1, LiveOnIsEmpty DEF Refer, DyingHasNoFiles, Dying, TypeOK
    <3> QED
      BY <2>1, <3>1 DEF Refer
  <2> QED
    BY <2>1 DEF ExpireUpload, CleanupOrphan, CollectRollsBack, Unrefer
<1>3. /\ upload' \in [Files -> Uploads] /\ upload'[f] # "none"
      /\ \A g \in Files : g # f => upload'[g] = upload[g]
      /\ upload'[f] \in {"completed", "direct"} => upload[f] \in {"completed", "direct"}
  BY <1>0 DEF ExpireUpload, CleanupOrphan, CollectRollsBack, Refer, Unrefer, TypeOK
<1>4. \A g \in Files : g # f => links'[g] = links[g]
  BY DEF ExpireUpload, CleanupOrphan, CollectRollsBack, Refer, Unrefer, TypeOK
<1>5. \/ \A g \in Files : gc'[g] = gc[g] \/ (g = f /\ gc'[g].step = "none")
      \/ BeginCollect(f, FALSE)
  <2>1. \/ UNCHANGED gc \/ BeginCollect(f, FALSE)
        \/ gc' = [gc EXCEPT ![f] = [step |-> "none", retires |-> FALSE]]
    BY DEF ExpireUpload, CleanupOrphan, CollectRollsBack, Refer, Unrefer
  <2>2. ASSUME gc' = [gc EXCEPT ![f] = [step |-> "none", retires |-> FALSE]], NEW g \in Files
        PROVE  gc'[g] = gc[g] \/ (g = f /\ gc'[g].step = "none")
    BY <2>2 DEF TypeOK
  <2> QED
    BY <2>1, <2>2
<1>6. \A g \in Files : g # f => gc'[g] = gc[g]
  BY <1>5 DEF BeginCollect, TypeOK
<1>7. PlacesStay
  BY <1>1, <1>3 DEF PlacesStay
<1>8. FilesKept
  BY <1>1, <1>2, <1>3, <1>4, <1>6 DEF FilesKept, UnregisteredIsUntouched, FileFree
<1>9. CollectorsHoldTheirBlob'
  BY <1>1, <1>5, CollectorsStay, CollectorsBegin
<1>10. /\ \A b \in Files : StatusStays(b)
       /\ \A c \in Calls : CallStays(c)
       /\ \A w \in Workers : WorkerStays(w)
  BY <1>1, <1>2 DEF StatusStays, CallStays, WorkerStays
<1> QED
  BY <1>0, <1>7, <1>8, <1>9, <1>10, QuietStep

\* Registering a file keeps the invariant: nothing named it before.
LEMMA RegisterStep ==
    ASSUME BlobInv, NEW f \in Files, InitiateUpload(f) \/ RegisterStored(f)
    PROVE  BlobInv'
<1> USE DEF BlobInv
<1>0. TypeOK' /\ upload[f] = "none"
  BY FileTypes DEF FileStep, InitiateUpload, RegisterStored
<1>1. UNCHANGED <<deleted, blobOf, deleteJob, gc, call, worker>>
  BY DEF InitiateUpload, RegisterStored
<1>2. /\ blobOf[f] = f /\ ~deleted[f] /\ gc[f].step = "none" /\ blob[f].status = "none"
      /\ ~deleteJob[f].open
  BY <1>0 DEF UnregisteredIsUntouched, NamesAreRegistered, FileFree
<1>3. /\ upload'[f] \in {"uploading", "direct"}
      /\ upload'[f] = "direct" => object'[f] = "stored"
      /\ \A g \in Files \ {f} : /\ upload'[g] = upload[g] /\ links'[g] = links[g]
                                /\ object'[g] = object[g] /\ verifyJob'[g] = verifyJob[g]
  <2>1. CASE InitiateUpload(f)
    BY <2>1 DEF InitiateUpload, TypeOK
  <2>2. CASE RegisterStored(f)
    BY <2>2 DEF RegisterStored, TypeOK
  <2> QED
    BY <2>1, <2>2
<1>4. /\ blob'[f].status = "unverified" /\ (blob'[f].hashed <=> blob[f].hashed)
      /\ \A g \in Files \ {f} : blob'[g] = blob[g]
  <2>1. blob' = [blob EXCEPT ![f] = [blob[f] EXCEPT !.status = "unverified"]] /\ blob[f] \in BlobType
    BY DEF InitiateUpload, RegisterStored, TypeOK
  <2> QED
    BY <2>1 DEF TypeOK, BlobType
<1>5. ~blob[f].hashed
  BY <1>2 DEF VerifiedIsStored, Dying
<1>6. \A g \in Files : g # f => blobOf[g] # f
  BY <1>0, <1>2 DEF NamesAreRegistered, UnregisteredIsUntouched
<1>7. UnregisteredIsUntouched'
  BY <1>1, <1>3 DEF UnregisteredIsUntouched, FileFree
<1>8. NamesAreRegistered'
  <2>1. \A g \in Files : blob'[g].status = "none" <=> upload'[g] = "none"
    BY <1>3, <1>4 DEF NamesAreRegistered
  <2>2. \A g \in Files : upload'[g] # "none" => upload'[blobOf'[g]] # "none"
    BY <1>1, <1>2, <1>3 DEF NamesAreRegistered, TypeOK
  <2>3. \A c \in Calls : call'[c].step # "idle" =>
           upload'[call'[c].file] # "none" /\ upload'[call'[c].blob] # "none"
    BY <1>1, <1>3 DEF NamesAreRegistered, TypeOK, CallType
  <2>4. \A w \in Workers : worker'[w].step # "idle" => upload'[worker'[w].blob] # "none"
    BY <1>1, <1>3 DEF NamesAreRegistered, TypeOK, WorkerType
  <2> QED
    BY <2>1, <2>2, <2>3, <2>4 DEF NamesAreRegistered
<1>9. CollectorsHoldTheirBlob'
  BY <1>1, CollectorsStay
<1>10. \A b \in Files : LiveOn(b)' = LiveOn(b)
  BY <1>1, FilesStay
<1>11. LastFileSchedules'
  BY <1>2, <1>4, <1>10, LiveOnIsEmpty DEF LastFileSchedules
<1>12. DyingHasNoFiles'
  BY <1>4, <1>10 DEF DyingHasNoFiles, Dying
<1>13. LeavingIsFinal'
  <2>1. \A g \in Files : blobOf'[g] # g => blob'[g].status \in Dying
    BY <1>1, <1>2, <1>4 DEF LeavingIsFinal
  <2> QED
    BY <1>1, <2>1 DEF LeavingIsFinal
<1>14. ErasersHoldDyingBlobs'
  BY <1>1, <1>2, <1>4 DEF ErasersHoldDyingBlobs, Dying, TypeOK, WorkerType
<1>15. VerifiedIsStored'
  BY <1>3, <1>4, <1>5 DEF VerifiedIsStored, Dying
<1>16. MovedIsStored'
  BY <1>1, <1>3, <1>6 DEF MovedIsStored, TypeOK
<1>17. CompletingIsStored'
  <2> SUFFICES ASSUME NEW c \in Calls, call[c].step = "stored", ~deleted[call[c].file],
                      blobOf[call[c].file] = call[c].blob
               PROVE  object'[call[c].blob] = "stored"
    BY <1>1 DEF CompletingIsStored
  <2>1. object[call[c].blob] = "stored" /\ upload[call[c].blob] # "none" /\ call[c].blob \in Files
    BY DEF CompletingIsStored, NamesAreRegistered, TypeOK, CallType
  <2> QED
    BY <1>0, <1>3, <2>1
<1>18. LiveFileHasObject'
  BY <1>1, <1>2, <1>3, <1>6 DEF LiveFileHasObject, TypeOK
<1> QED
  BY <1>0, <1>7, <1>8, <1>9, <1>11, <1>12, <1>13, <1>14, <1>15, <1>16, <1>17, <1>18

\* Collecting a file keeps the invariant: the decision taken under the locks
\* still says whether this is the last file of the blob.
LEMMA CollectStep ==
    ASSUME BlobInv, NEW f \in Files, Collect(f)
    PROVE  BlobInv'
<1> USE DEF BlobInv
<1>b. PICK b \in Files : b = blobOf[f]
  BY DEF TypeOK
<1> USE <1>b
<1> DEFINE schedules == gc[f].step = "schedule" /\ blob[b].status # "deleted"
<1>0. TypeOK' /\ blob[b] \in BlobType
  BY FileTypes DEF FileStep, TypeOK
<1>1. UNCHANGED <<blobOf, object, verifyJob, call, worker>>
  BY DEF Collect
<1>2. gc[f].step # "none" /\ gc[f].step = Decision(f)
  BY DEF Collect, FileFree, CollectorsHoldTheirBlob
<1>3. upload[f] # "none" /\ upload[b] # "none" /\ blob[b].status # "none"
  BY <1>0, <1>2 DEF UnregisteredIsUntouched, NamesAreRegistered, FileFree
<1>4. deleted'[f] /\ \A g \in Files \ {f} : deleted'[g] = deleted[g]
  BY DEF Collect, TypeOK
<1>5. /\ upload'[f] \in {upload[f], "retired"}
      /\ \A g \in Files \ {f} : upload'[g] = upload[g]
  BY DEF Collect, TypeOK
<1>6. \A g \in Files \ {f} : links'[g] = links[g]
  BY DEF Collect, TypeOK
<1>7. gc'[f].step = "none" /\ \A g \in Files \ {f} : gc'[g] = gc[g]
  BY DEF Collect, TypeOK
<1>8. \A x \in Files \ {b} : blob'[x] = blob[x] /\ deleteJob'[x] = deleteJob[x]
  BY DEF Collect, TypeOK
<1>9. /\ schedules => blob'[b].status = "pending_delete"
      /\ ~schedules => blob'[b].status = blob[b].status
      /\ blob'[b].hashed <=> blob[b].hashed
  <2>1. CASE schedules
    <3>1. blob' = [blob EXCEPT ![b] = Scheduled(blob[b])]
      BY <2>1 DEF Collect
    <3>2. Scheduled(blob[b]).status = "pending_delete" /\ (Scheduled(blob[b]).hashed <=> blob[b].hashed)
      BY <1>0 DEF Scheduled, BlobType
    <3> QED
      BY <1>0, <2>1, <3>1, <3>2 DEF TypeOK
  <2>2. CASE ~schedules
    <3>1. UNCHANGED blob
      BY <2>2 DEF Collect
    <3> QED
      BY <2>2, <3>1
  <2> QED
    BY <2>1, <2>2
<1>10. \A x \in Files \ {b} : LiveOn(x)' = LiveOn(x)
  BY <1>1, <1>4 DEF LiveOn, FilesOn
<1>11. /\ gc[f].step = "schedule" => LiveOn(b)' = {}
       /\ gc[f].step # "schedule" => LiveOn(b)' # {} /\ LiveOn(b) # {}
  BY <1>1, <1>2, <1>4 DEF Decision, LiveOn, FilesOn
<1>12. blob[b].status \in Dying <=> LiveOn(b) = {}
  BY <1>0, <1>3 DEF LastFileSchedules, DyingHasNoFiles, Dying
<1> HIDE DEF schedules
<1>13. UnregisteredIsUntouched'
  BY <1>1, <1>3, <1>4, <1>5, <1>6, <1>7, <1>8 DEF UnregisteredIsUntouched, FileFree
<1>14. NamesAreRegistered'
  <2>1. \A g \in Files : upload'[g] = "none" <=> upload[g] = "none"
    BY <1>3, <1>5
  <2>2. \A g \in Files : blob'[g].status = "none" <=> upload'[g] = "none"
    BY <1>0, <1>3, <1>8, <1>9, <2>1 DEF NamesAreRegistered
  <2> QED
    BY <1>1, <2>1, <2>2 DEF NamesAreRegistered, TypeOK, CallType, WorkerType
<1>15. CollectorsHoldTheirBlob'
  <2> SUFFICES ASSUME NEW g \in Files, gc'[g].step # "none"
               PROVE  /\ \A h \in Files : blobOf[h] = blobOf[g] => h = g \/ gc'[h].step = "none"
                      /\ gc'[g].step = Decision(g)'
    BY <1>1 DEF CollectorsHoldTheirBlob, FileFree, FilesOn
  <2>1. g # f /\ gc'[g] = gc[g] /\ gc[g].step # "none"
    BY <1>7
  <2>2. /\ \A h \in Files : blobOf[h] = blobOf[g] => h = g \/ gc[h].step = "none"
        /\ gc[g].step = Decision(g)
    BY <2>1 DEF CollectorsHoldTheirBlob, FileFree, FilesOn
  <2>3. blobOf[g] # b /\ blobOf[g] \in Files
    BY <1>2, <2>1, <2>2 DEF TypeOK
  <2>4. Decision(g)' = Decision(g)
    BY <1>1, <1>10, <2>3 DEF Decision
  <2> QED
    BY <1>7, <2>1, <2>2, <2>4
<1>16. LastFileSchedules'
  <2> SUFFICES ASSUME NEW x \in Files, blob'[x].status # "none", LiveOn(x)' = {}
               PROVE  blob'[x].status \in Dying
    BY DEF LastFileSchedules, Dying
  <2>1. CASE x = b
    BY <1>9, <1>11, <2>1 DEF schedules, Dying
  <2>2. CASE x # b
    BY <1>8, <1>10, <2>2 DEF LastFileSchedules, Dying
  <2> QED
    BY <2>1, <2>2
<1>17. DyingHasNoFiles'
  <2> SUFFICES ASSUME NEW x \in Files, blob'[x].status \in Dying
               PROVE  LiveOn(x)' = {}
    BY DEF DyingHasNoFiles
  <2>1. CASE x = b
    BY <1>9, <1>11, <1>12, <2>1 DEF schedules, Dying
  <2>2. CASE x # b
    BY <1>8, <1>10, <2>2 DEF DyingHasNoFiles
  <2> QED
    BY <2>1, <2>2
<1>18. \A x \in Files : blob[x].status \in Dying => blob'[x].status \in Dying
  BY <1>8, <1>9 DEF Dying
<1>19. LeavingIsFinal'
  BY <1>1, <1>18 DEF LeavingIsFinal
<1>20. ErasersHoldDyingBlobs'
  BY <1>1, <1>18 DEF ErasersHoldDyingBlobs, TypeOK, WorkerType
<1>21. VerifiedIsStored'
  BY <1>1, <1>8, <1>9 DEF VerifiedIsStored, Dying
<1>22. MovedIsStored'
  BY <1>1, <1>4 DEF MovedIsStored
<1>23. CompletingIsStored'
  BY <1>1, <1>4 DEF CompletingIsStored, TypeOK, CallType
<1>24. LiveFileHasObject'
  BY <1>1, <1>4, <1>5 DEF LiveFileHasObject
<1> QED
  BY <1>0, <1>13, <1>14, <1>15, <1>16, <1>17, <1>19, <1>20, <1>21, <1>22, <1>23, <1>24

\* A step of a worker, of time or of maintenance that touches rows only: the
\* blobs' statuses stay living or dying.
LEMMA RowStep ==
    ASSUME BlobInv, TypeOK', UNCHANGED <<upload, links, deleted, blobOf, object, gc, call>>,
           \A b \in Files : upload[b] = "none" => ~verifyJob'[b].open /\ ~deleteJob'[b].open,
           \A b \in Files : StatusStays(b),
           \A w \in Workers : WorkerStays(w)
    PROVE  BlobInv'
<1>1. PlacesStay
  BY DEF PlacesStay
<1>2. FilesKept
  BY DEF FilesKept, BlobInv, UnregisteredIsUntouched, FileFree
<1>3. CollectorsHoldTheirBlob'
  BY CollectorsStay
<1>4. \A c \in Calls : CallStays(c)
  BY DEF CallStays
<1> QED
  BY <1>1, <1>2, <1>3, <1>4, QuietStep

\* Time, maintenance and dead letters keep the invariant.
LEMMA BlobStepInv ==
    ASSUME BlobInv, NEW b \in Files, BlobStep(b)
    PROVE  BlobInv'
<1> USE DEF BlobInv
<1>0. /\ TypeOK' /\ blob[b] \in BlobType /\ verifyJob[b] \in JobType /\ deleteJob[b] \in JobType
      /\ UNCHANGED <<upload, links, deleted, blobOf, object, gc, call, worker>>
  <2>1. UNCHANGED <<upload, links, deleted, blobOf, object, gc, call, worker>>
    BY DEF BlobStep, ClaimAges, GraceEnds, VerifyFileBlobs, DeadLetterRow
  <2> QED
    BY <2>1, BlobStepTypes DEF TypeOK
<1>1. \A w \in Workers : WorkerStays(w)
  BY <1>0 DEF WorkerStays
<1>2. ASSUME NEW x \in Files
      PROVE  /\ StatusStays(x)
             /\ upload[x] = "none" => ~verifyJob'[x].open /\ ~deleteJob'[x].open
  <2>1. CASE ClaimAges(b) \/ GraceEnds(b)
    <3>1. PICK r : /\ r \in {[blob[b] EXCEPT !.fresh = FALSE], [blob[b] EXCEPT !.due = "over"]}
                   /\ blob' = [blob EXCEPT ![b] = r]
      BY <2>1 DEF ClaimAges, GraceEnds
    <3>4. r.status = blob[b].status /\ r.hashed = blob[b].hashed
      BY <1>0, <3>1 DEF BlobType
    <3>2. blob'[x].status = blob[x].status /\ blob'[x].hashed = blob[x].hashed
      <4>1. CASE x = b
        BY <3>1, <3>4, <4>1 DEF TypeOK
      <4>2. CASE x # b
        BY <3>1, <4>2 DEF TypeOK
      <4> QED
        BY <4>1, <4>2
    <3>3. UNCHANGED <<verifyJob, deleteJob>>
      BY <2>1 DEF ClaimAges, GraceEnds
    <3> QED
      BY <3>2, <3>3 DEF StatusStays, UnregisteredIsUntouched
  <2>2. CASE VerifyFileBlobs(b)
    <3>1. upload[b] # "none"
      BY <2>2 DEF VerifyFileBlobs, NamesAreRegistered
    <3>2. UNCHANGED <<blob, deleteJob>> /\ verifyJob' = [verifyJob EXCEPT ![b] = Opened(verifyJob[b])]
      BY <2>2 DEF VerifyFileBlobs
    <3>3. x # b => verifyJob'[x] = verifyJob[x]
      BY <3>2 DEF TypeOK
    <3> QED
      BY <3>1, <3>2, <3>3 DEF StatusStays, UnregisteredIsUntouched
  <2>3. CASE DeadLetterRow(b)
    <3>1. UNCHANGED blob
      BY <2>3 DEF DeadLetterRow
    <3>2. ASSUME upload[x] = "none" PROVE x # b
      BY <2>3, <3>2 DEF DeadLetterRow, DeadLetter, UnregisteredIsUntouched
    <3>3. x # b => verifyJob'[x] = verifyJob[x] /\ deleteJob'[x] = deleteJob[x]
      BY <2>3 DEF DeadLetterRow, DeadLetter, TypeOK
    <3> QED
      BY <3>1, <3>2, <3>3 DEF StatusStays, UnregisteredIsUntouched
  <2> QED
    BY <2>1, <2>2, <2>3 DEF BlobStep
<1> QED
  BY <1>0, <1>1, <1>2, RowStep

\* Erasing an object keeps the invariant: its blob is dying and has no live file.
LEMMA EraseStep ==
    ASSUME BlobInv, NEW w \in Workers, DeleteObject(w)
    PROVE  BlobInv'
<1> USE DEF BlobInv
<1>0. TypeOK'
  BY WorkerTypes DEF WorkerStep
<1>1. PICK v \in Files : v = worker[w].blob
  BY DEF TypeOK, WorkerType
<1>2. UNCHANGED <<upload, links, deleted, blobOf, blob, verifyJob, deleteJob, gc, call>>
  BY DEF DeleteObject
<1>3. blob[v].status \in Dying /\ \A f \in Files : blobOf[f] = v => deleted[f]
  BY <1>1, LiveOnIsEmpty DEF DeleteObject, ErasersHoldDyingBlobs, DyingHasNoFiles
<1>4. \A x \in Files : x # v => object'[x] = object[x]
  BY <1>1 DEF DeleteObject, TypeOK
<1>5. /\ worker'[w].blob = v
      /\ \A u \in Workers : worker'[u].blob = worker[u].blob
      /\ \A u \in Workers : u # w => worker'[u] = worker[u]
  BY <1>1 DEF DeleteObject, TypeOK, WorkerType
<1>6. UnregisteredIsUntouched'
  BY <1>2 DEF UnregisteredIsUntouched, FileFree
<1>7. NamesAreRegistered'
  <2>1. upload[v] # "none"
    BY <1>1 DEF DeleteObject, NamesAreRegistered
  <2>2. \A u \in Workers : worker'[u].step # "idle" => upload'[worker'[u].blob] # "none"
    BY <1>2, <1>5, <2>1 DEF NamesAreRegistered
  <2> QED
    BY <1>2, <2>2 DEF NamesAreRegistered
<1>8. CollectorsHoldTheirBlob'
  BY <1>2, CollectorsStay
<1>9. LastFileSchedules' /\ DyingHasNoFiles'
  BY <1>2, FilesStay DEF LastFileSchedules, DyingHasNoFiles
<1>10. LeavingIsFinal'
  BY <1>2 DEF LeavingIsFinal
<1>11. ErasersHoldDyingBlobs'
  BY <1>2, <1>3, <1>5 DEF ErasersHoldDyingBlobs
<1>12. VerifiedIsStored'
  BY <1>2, <1>3, <1>4 DEF VerifiedIsStored, Dying
<1>13. MovedIsStored'
  BY <1>2, <1>3, <1>4 DEF MovedIsStored, TypeOK
<1>14. CompletingIsStored'
  BY <1>2, <1>3, <1>4 DEF CompletingIsStored, TypeOK, CallType
<1>15. LiveFileHasObject'
  BY <1>2, <1>3, <1>4 DEF LiveFileHasObject, TypeOK
<1> QED
  BY <1>0, <1>6, <1>7, <1>8, <1>9, <1>10, <1>11, <1>12, <1>13, <1>14, <1>15

\* A worker that claims, gives up, fails or completes changes rows only.
LEMMA WorkerRowStep ==
    ASSUME BlobInv, NEW w \in Workers,
           \/ \E b \in Files : VerifyClaim(w, b) \/ DeleteClaim(w, b)
           \/ VerificationFails(w) \/ DeleteFails(w) \/ CompleteDeletion(w) \/ WorkerDies(w)
    PROVE  BlobInv'
<1> USE DEF BlobInv
<1>0. TypeOK' /\ UNCHANGED <<upload, links, deleted, blobOf, object, gc, call>>
  <2>1. UNCHANGED <<upload, links, deleted, blobOf, object, gc, call>>
    BY DEF VerifyClaim, DeleteClaim, VerificationFails, DeleteFails, CompleteDeletion, WorkerDies
  <2> QED
    BY <2>1, WorkerTypes DEF WorkerStep
<1>1. PICK v \in Files : v = worker[w].blob
  BY DEF TypeOK, WorkerType
<1>2. Idle(w) => \A u \in Workers : WorkerStays(u)
  BY DEF Idle, WorkerStays, IdleWorker, TypeOK
<1>3. ASSUME NEW b \in Files, blob[b].hashed, blob[b].status \in Living
      PROVE  blob[b].status = "verified" /\ object[b] = "stored"
  BY <1>3 DEF VerifiedIsStored, Living, Dying
<1>4. ASSUME NEW b \in Files, NEW r, blob' = [blob EXCEPT ![b] = r],
             \/ r.status = blob[b].status /\ r.hashed = blob[b].hashed
             \/ blob[b].status \in Dying /\ r.status \in Dying
             \/ blob[b].status \in Living /\ r.status \in Living \ {"verified"} /\ ~r.hashed
             \/ blob[b].status \in Living /\ r.status = "verified" /\ object[b] = "stored"
      PROVE  \A x \in Files : StatusStays(x)
  <2>1. blob'[b] = r /\ \A x \in Files : x # b => blob'[x] = blob[x]
    BY <1>4 DEF TypeOK
  <2>2. StatusStays(b)
    BY <1>4, <2>1 DEF StatusStays, Living
  <2>3. \A x \in Files : x # b => StatusStays(x)
    BY <2>1 DEF StatusStays
  <2> QED
    BY <2>2, <2>3
<1>5. ASSUME NEW b \in Files, VerifyClaim(w, b) PROVE BlobInv'
  <2>1. /\ verifyJob[b].open /\ upload[b] # "none" /\ blob[b].status # "none"
        /\ blob[b] \in BlobType
    BY <1>5 DEF VerifyClaim, Deliverable, UnregisteredIsUntouched, NamesAreRegistered, TypeOK
  <2>2. \A x \in Files : x # b => verifyJob'[x] = verifyJob[x]
    BY <1>5 DEF VerifyClaim, TypeOK
  <2>3. \A x \in Files : upload[x] = "none" => ~verifyJob'[x].open /\ ~deleteJob'[x].open
    BY <1>5, <2>1, <2>2 DEF VerifyClaim, UnregisteredIsUntouched
  <2>4. \A x \in Files : StatusStays(x)
    <3>1. CASE UNCHANGED blob
      BY <3>1 DEF StatusStays
    <3>2. CASE ~UNCHANGED blob
      <4>1. PICK r : /\ r = [blob[b] EXCEPT !.status = "verifying", !.fresh = TRUE]
                     /\ blob' = [blob EXCEPT ![b] = r]
                     /\ blob[b].status \notin {"verified", "pending_delete", "deleted"}
        BY <1>5, <3>2 DEF VerifyClaim
      <4>2. r.status = "verifying" /\ (r.hashed <=> blob[b].hashed)
        BY <2>1, <4>1 DEF BlobType
      <4>3. ~blob[b].hashed /\ blob[b].status \in Living
        BY <2>1, <4>1 DEF VerifiedIsStored, Living, Dying, BlobType, Statuses
      <4> QED
        BY <1>4, <4>1, <4>2, <4>3 DEF Living
    <3> QED
      BY <3>1, <3>2
  <2>5. ASSUME NEW u \in Workers PROVE WorkerStays(u)
    <3>1. CASE UNCHANGED worker
      BY <3>1 DEF WorkerStays
    <3>2. CASE ~UNCHANGED worker
      <4>1. PICK e : worker' = [worker EXCEPT ![w] = [step |-> "hashing", blob |-> b, epoch |-> e]]
        BY <1>5, <3>2 DEF VerifyClaim
      <4> QED
        BY <2>1, <4>1 DEF WorkerStays, TypeOK
    <3> QED
      BY <3>1, <3>2
  <2> QED
    BY <1>0, <2>3, <2>4, <2>5, RowStep
<1>6. ASSUME NEW b \in Files, DeleteClaim(w, b) PROVE BlobInv'
  <2>1. /\ deleteJob[b].open /\ upload[b] # "none" /\ blob[b].status # "none"
        /\ blob[b] \in BlobType
    BY <1>6 DEF DeleteClaim, Deliverable, UnregisteredIsUntouched, NamesAreRegistered, TypeOK
  <2>2. \A x \in Files : x # b => deleteJob'[x] = deleteJob[x]
    BY <1>6 DEF DeleteClaim, TypeOK
  <2>3. \A x \in Files : upload[x] = "none" => ~verifyJob'[x].open /\ ~deleteJob'[x].open
    BY <1>6, <2>1, <2>2 DEF DeleteClaim, UnregisteredIsUntouched
  <2>4. \A x \in Files : StatusStays(x)
    <3>1. CASE UNCHANGED blob
      BY <3>1 DEF StatusStays
    <3>2. CASE LiveOn(b) # {} /\ blob' = [blob EXCEPT ![b] = Spared(blob[b])]
      <4>1. blob[b].status \in Living
        BY <2>1, <3>2 DEF DyingHasNoFiles, Living, Dying, BlobType, Statuses
      <4>2. /\ Spared(blob[b]).status = IF blob[b].hashed THEN "verified" ELSE "unverified"
            /\ Spared(blob[b]).hashed <=> blob[b].hashed
        BY <2>1 DEF Spared, BlobType
      <4> QED
        BY <1>3, <1>4, <3>2, <4>1, <4>2 DEF Living
    <3>3. CASE blob' = [blob EXCEPT ![b] = [blob[b] EXCEPT !.claimed = TRUE]]
      <4>1. PICK r : r = [blob[b] EXCEPT !.claimed = TRUE]
        OBVIOUS
      <4>2. r.status = blob[b].status /\ r.hashed = blob[b].hashed
        BY <2>1, <4>1 DEF BlobType
      <4> QED
        BY <1>4, <3>3, <4>1, <4>2
    <3> QED
      BY <1>6, <3>1, <3>2, <3>3 DEF DeleteClaim
  <2>5. ASSUME NEW u \in Workers PROVE WorkerStays(u)
    <3>1. CASE UNCHANGED worker
      BY <3>1 DEF WorkerStays
    <3>2. CASE ~UNCHANGED worker
      <4>1. PICK e : /\ worker' = [worker EXCEPT ![w] = [step |-> "deleting", blob |-> b, epoch |-> e]]
                     /\ blob[b].status = "pending_delete"
        BY <1>6, <3>2 DEF DeleteClaim
      <4> QED
        BY <2>1, <4>1 DEF WorkerStays, TypeOK, Dying
    <3> QED
      BY <3>1, <3>2
  <2> QED
    BY <1>0, <2>3, <2>4, <2>5, RowStep
<1>7. CASE VerificationFails(w)
  <2>1. blob[v] \in BlobType /\ blob[v].status # "none"
    BY <1>1, <1>7 DEF VerificationFails, NamesAreRegistered, TypeOK
  <2>2. \A x \in Files : StatusStays(x)
    <3>1. PICK r : /\ r = [blob[v] EXCEPT !.status = IF blob[v].status = "verifying" THEN "failed" ELSE blob[v].status]
                   /\ blob' = [blob EXCEPT ![v] = r]
      BY <1>1, <1>7 DEF VerificationFails
    <3>2. /\ r.status = IF blob[v].status = "verifying" THEN "failed" ELSE blob[v].status
          /\ r.hashed = blob[v].hashed
      BY <2>1, <3>1 DEF BlobType
    <3>3. blob[v].status = "verifying" => ~blob[v].hashed
      BY DEF VerifiedIsStored, Dying
    <3>4. CASE blob[v].status = "verifying"
      <4>1. blob[v].status \in Living /\ r.status \in Living \ {"verified"} /\ ~r.hashed
        BY <3>2, <3>3, <3>4 DEF Living
      <4> QED
        BY <1>4, <3>1, <4>1
    <3>5. CASE blob[v].status # "verifying"
      BY <1>4, <3>1, <3>2, <3>5
    <3> QED
      BY <3>4, <3>5
  <2> QED
    BY <1>0, <1>2, <1>7, <2>2, RowStep DEF VerificationFails, UnregisteredIsUntouched
<1>8. CASE DeleteFails(w)
  <2>1. blob[v] \in BlobType
    BY DEF TypeOK
  <2>2. \A x \in Files : StatusStays(x)
    <3>1. PICK r : r = [blob[v] EXCEPT !.claimed = FALSE] /\ blob' = [blob EXCEPT ![v] = r]
      BY <1>1, <1>8 DEF DeleteFails
    <3>2. r.status = blob[v].status /\ r.hashed = blob[v].hashed
      BY <2>1, <3>1 DEF BlobType
    <3> QED
      BY <1>4, <3>1, <3>2
  <2> QED
    BY <1>0, <1>2, <1>8, <2>2, RowStep DEF DeleteFails, UnregisteredIsUntouched
<1>9. CASE CompleteDeletion(w)
  <2>1. blob[v] \in BlobType /\ upload[v] # "none"
    BY <1>1, <1>9 DEF CompleteDeletion, NamesAreRegistered, TypeOK
  <2>2. \A x \in Files : StatusStays(x)
    <3>1. CASE UNCHANGED blob
      BY <3>1 DEF StatusStays
    <3>2. CASE ~UNCHANGED blob
      <4>1. PICK r : /\ r = [blob[v] EXCEPT !.status = "deleted", !.claimed = FALSE]
                     /\ blob' = [blob EXCEPT ![v] = r] /\ blob[v].status = "pending_delete"
        BY <1>1, <1>9, <3>2 DEF CompleteDeletion
      <4>2. r.status = "deleted"
        BY <2>1, <4>1 DEF BlobType
      <4> QED
        BY <1>4, <4>1, <4>2 DEF Dying
    <3> QED
      BY <3>1, <3>2
  <2>3. \A x \in Files : x # v => deleteJob'[x] = deleteJob[x]
    BY <1>1, <1>9 DEF CompleteDeletion, TypeOK
  <2>4. \A x \in Files : upload[x] = "none" => ~verifyJob'[x].open /\ ~deleteJob'[x].open
    BY <1>9, <2>1, <2>3 DEF CompleteDeletion, UnregisteredIsUntouched
  <2> QED
    BY <1>0, <1>2, <1>9, <2>2, <2>4, RowStep DEF CompleteDeletion
<1>10. CASE WorkerDies(w)
  BY <1>0, <1>2, <1>10, RowStep DEF WorkerDies, StatusStays, UnregisteredIsUntouched
<1> QED
  BY <1>5, <1>6, <1>7, <1>8, <1>9, <1>10

\* Ending a verification keeps the invariant.  A duplicate's files move to a
\* verified blob that nobody is collecting, and leave theirs to die.
LEMMA FinalizeStep ==
    ASSUME BlobInv, NEW w \in Workers, FinalizeVerification(w)
    PROVE  BlobInv'
<1> USE DEF BlobInv
<1>0. TypeOK' /\ UNCHANGED <<upload, links, deleted, object, gc, call>>
  BY WorkerTypes DEF WorkerStep, FinalizeVerification
<1>1. PICK v \in Files : v = worker[w].blob
  BY DEF TypeOK, WorkerType
<1>2. /\ blob[v] \in BlobType /\ upload[v] # "none" /\ blob[v].status # "none"
      /\ object[v] = "stored"
  BY <1>1 DEF FinalizeVerification, NamesAreRegistered, TypeOK, Matches
<1>3. \A u \in Workers : \/ worker'[u] = worker[u] \/ worker'[u].step = "idle"
  BY DEF FinalizeVerification, Idle, IdleWorker, TypeOK
<1>4. \A x \in Files : x # v => verifyJob'[x] = verifyJob[x]
  BY <1>1 DEF FinalizeVerification, TypeOK
<1> DEFINE Verified == [blob[v] EXCEPT !.status = "verified", !.hashed = TRUE, !.due = "none"]
           Duplicate == [Scheduled(blob[v]) EXCEPT !.hashed = TRUE]
<1>5. \/ UNCHANGED <<blob, blobOf, deleteJob>>
      \/ /\ blob[v].status \notin Dying /\ blob' = [blob EXCEPT ![v] = Verified]
         /\ UNCHANGED <<blobOf, deleteJob>>
      \/ /\ blob[v].status \notin Dying /\ blob' = [blob EXCEPT ![v] = Duplicate]
         /\ \E x \in Winners(v) :
               blobOf' = [f \in Files |-> IF blobOf[f] = v THEN x ELSE blobOf[f]]
         /\ deleteJob' = [deleteJob EXCEPT ![v] = Revived(deleteJob[v])]
  BY <1>1 DEF FinalizeVerification, Dying
<1>6. blob[v].status \notin Dying => blob[v].status \in Living
  BY <1>2 DEF Living, Dying, BlobType, Statuses
<1>7. Verified.status = "verified" /\ Duplicate.status = "pending_delete"
  BY <1>2 DEF Scheduled, BlobType
<1> HIDE DEF Verified, Duplicate
<1>8. CASE /\ UNCHANGED <<blobOf, deleteJob>>
           /\ \/ UNCHANGED blob
              \/ blob[v].status \notin Dying /\ blob' = [blob EXCEPT ![v] = Verified]
  <2>1. ASSUME NEW x \in Files PROVE StatusStays(x)
    <3>1. CASE UNCHANGED blob
      BY <3>1 DEF StatusStays
    <3>2. CASE blob[v].status \notin Dying /\ blob' = [blob EXCEPT ![v] = Verified]
      <4>1. x # v => blob'[x] = blob[x]
        BY <3>2 DEF TypeOK
      <4>2. blob'[v] = Verified
        BY <3>2 DEF TypeOK
      <4> QED
        BY <1>2, <1>6, <1>7, <3>2, <4>1, <4>2 DEF StatusStays, Living
    <3> QED
      BY <1>8, <3>1, <3>2
  <2>2. \A x \in Files : upload[x] = "none" => ~verifyJob'[x].open /\ ~deleteJob'[x].open
    BY <1>2, <1>4, <1>8 DEF UnregisteredIsUntouched
  <2>3. \A u \in Workers : WorkerStays(u)
    BY <1>3 DEF WorkerStays
  <2> QED
    BY <1>0, <1>8, <2>1, <2>2, <2>3, RowStep
<1>9. ASSUME blob[v].status \notin Dying, blob' = [blob EXCEPT ![v] = Duplicate],
             NEW t \in Winners(v),
             blobOf' = [f \in Files |-> IF blobOf[f] = v THEN t ELSE blobOf[f]],
             deleteJob' = [deleteJob EXCEPT ![v] = Revived(deleteJob[v])]
      PROVE  BlobInv'
  <2>1. t \in Files /\ t # v /\ blob[t].status = "verified" /\ object[t] = "stored" /\ upload[t] # "none"
    BY DEF Winners, VerifiedIsStored, NamesAreRegistered
  <2>2. blob'[v].status = "pending_delete" /\ \A x \in Files : x # v => blob'[x] = blob[x]
    BY <1>7, <1>9 DEF TypeOK
  <2>3. /\ \A f \in Files : blobOf[f] = v => blobOf'[f] = t
        /\ \A f \in Files : blobOf[f] # v => blobOf'[f] = blobOf[f]
        /\ \A f \in Files : blobOf[f] \in Files
    BY <1>9 DEF TypeOK
  <2>4. \A f \in Files : blobOf[f] \in {v, t} => gc[f].step = "none"
    BY <1>1 DEF FinalizeVerification, BlobFree, FilesOn
  <2>5. \A x \in Files : x # v => deleteJob'[x] = deleteJob[x]
    BY <1>9 DEF TypeOK
  <2>6. \A f \in Files : blobOf[f] # f => blobOf'[f] # f
    <3> SUFFICES ASSUME NEW f \in Files, blobOf[f] # f, f = t PROVE FALSE
      BY <2>3
    <3> QED
      BY <2>1 DEF LeavingIsFinal, Dying
  <2>7. UnregisteredIsUntouched'
    <3>1. \A f \in Files : upload[f] = "none" => f # v /\ blobOf'[f] = f
      BY <1>2, <2>3 DEF UnregisteredIsUntouched
    <3> QED
      BY <1>0, <1>4, <2>5, <3>1 DEF UnregisteredIsUntouched, FileFree
  <2>8. NamesAreRegistered'
    <3>1. \A f \in Files : blob'[f].status = "none" <=> upload'[f] = "none"
      BY <1>0, <1>2, <2>2 DEF NamesAreRegistered
    <3>2. \A f \in Files : upload'[f] # "none" => upload'[blobOf'[f]] # "none"
      BY <1>0, <2>1, <2>3 DEF NamesAreRegistered
    <3>3. \A u \in Workers : worker'[u].step # "idle" => upload'[worker'[u].blob] # "none"
      BY <1>0, <1>3 DEF NamesAreRegistered
    <3> QED
      BY <1>0, <3>1, <3>2, <3>3 DEF NamesAreRegistered
  <2>9. \A f \in Files : blobOf[f] \notin {v, t} =>
           \A g \in Files : blobOf'[g] = blobOf'[f] <=> blobOf[g] = blobOf[f]
    BY <2>3
  <2>10. CollectorsHoldTheirBlob'
    <3> SUFFICES ASSUME NEW g \in Files, gc[g].step # "none"
                 PROVE  /\ \A h \in Files : blobOf'[h] = blobOf'[g] => h = g \/ gc[h].step = "none"
                        /\ gc[g].step = Decision(g)'
      BY <1>0 DEF CollectorsHoldTheirBlob, FileFree, FilesOn
    <3>1. blobOf[g] \notin {v, t}
      BY <2>4
    <3>2. /\ \A h \in Files : blobOf[h] = blobOf[g] => h = g \/ gc[h].step = "none"
          /\ gc[g].step = Decision(g)
      BY DEF CollectorsHoldTheirBlob, FileFree, FilesOn
    <3>3. LiveOn(blobOf[g])' = LiveOn(blobOf[g])
      BY <1>0, <2>9, <3>1 DEF LiveOn, FilesOn
    <3>4. Decision(g)' = Decision(g)
      BY <3>3 DEF Decision
    <3> QED
      BY <2>9, <3>1, <3>2, <3>4
  <2>11. \A x \in Files \ {v, t} : LiveOn(x)' = LiveOn(x)
    BY <1>0, <2>3 DEF LiveOn, FilesOn
  <2>12. LiveOn(v)' = {}
    BY <2>1, <2>3, LiveOnIsEmpty DEF LiveOn, FilesOn
  <2>13. LiveOn(t)' # {}
    <3>1. LiveOn(t) # {}
      BY <2>1 DEF LastFileSchedules
    <3>2. LiveOn(t) \subseteq LiveOn(t)'
      BY <1>0, <2>1, <2>3 DEF LiveOn, FilesOn
    <3> QED
      BY <3>1, <3>2
  <2>14. LastFileSchedules'
    <3> SUFFICES ASSUME NEW x \in Files, blob'[x].status # "none", LiveOn(x)' = {}
                 PROVE  blob'[x].status \in Dying
      BY DEF LastFileSchedules, Dying
    <3> QED
      BY <2>2, <2>11, <2>13 DEF LastFileSchedules, Dying
  <2>15. DyingHasNoFiles'
    BY <2>1, <2>2, <2>11, <2>12 DEF DyingHasNoFiles, Dying
  <2>16. \A x \in Files : blob[x].status \in Dying => blob'[x].status \in Dying
    BY <2>2 DEF Dying
  <2>17. LeavingIsFinal'
    <3>1. \A f \in Files : blobOf'[f] # f => blob'[f].status \in Dying
      BY <2>2, <2>3, <2>16 DEF LeavingIsFinal, Dying
    <3>2. \A c \in Calls : call[c].step # "idle" /\ blobOf'[call[c].file] = call[c].file
                              => call[c].blob = call[c].file
      BY <2>6 DEF LeavingIsFinal, TypeOK, CallType
    <3> QED
      BY <1>0, <3>1, <3>2 DEF LeavingIsFinal
  <2>18. ErasersHoldDyingBlobs'
    BY <1>3, <2>16 DEF ErasersHoldDyingBlobs, TypeOK, WorkerType
  <2>19. VerifiedIsStored'
    BY <1>0, <2>2 DEF VerifiedIsStored, Dying
  <2>20. MovedIsStored'
    BY <1>0, <2>1, <2>3 DEF MovedIsStored
  <2>21. CompletingIsStored'
    <3> SUFFICES ASSUME NEW c \in Calls, call[c].step = "stored", ~deleted[call[c].file],
                        blobOf'[call[c].file] = call[c].blob
                 PROVE  object[blobOf'[call[c].file]] = "stored"
      BY <1>0 DEF CompletingIsStored
    <3> QED
      BY <2>1, <2>3 DEF CompletingIsStored, TypeOK, CallType
  <2>22. LiveFileHasObject'
    BY <1>0, <2>1, <2>3 DEF LiveFileHasObject
  <2> QED
    BY <1>0, <2>7, <2>8, <2>10, <2>14, <2>15, <2>17, <2>18, <2>19, <2>20, <2>21, <2>22
<1>10. CASE /\ blob[v].status \notin Dying /\ blob' = [blob EXCEPT ![v] = Duplicate]
            /\ \E x \in Winners(v) :
                  blobOf' = [f \in Files |-> IF blobOf[f] = v THEN x ELSE blobOf[f]]
            /\ deleteJob' = [deleteJob EXCEPT ![v] = Revived(deleteJob[v])]
  <2>1. PICK t \in Winners(v) : blobOf' = [f \in Files |-> IF blobOf[f] = v THEN t ELSE blobOf[f]]
    BY <1>10
  <2> HIDE DEF BlobInv
  <2> QED
    BY <1>9, <1>10, <2>1
<1> HIDE DEF BlobInv
<1> QED
  BY <1>5, <1>8, <1>10

-----------------------------------------------------------------------------
\* Every step keeps the invariant.
LEMMA NextInv == BlobInv /\ [Next]_vars => BlobInv'
<1> SUFFICES ASSUME BlobInv, [Next]_vars PROVE BlobInv'
  OBVIOUS
<1>1. CASE UNCHANGED vars
  <2>1. TypeOK'
    BY <1>1, TypeNext DEF BlobInv
  <2> QED
    BY <1>1, <2>1, RowStep DEF vars, StatusStays, WorkerStays, BlobInv, UnregisteredIsUntouched
<1>2. ASSUME NEW f \in Files, FileStep(f) PROVE BlobInv'
  <2>1. CASE InitiateUpload(f) \/ RegisterStored(f)
    BY <2>1, RegisterStep
  <2>2. CASE Collect(f)
    BY <2>2, CollectStep
  <2>3. CASE \/ ExpireUpload(f) \/ CleanupOrphan(f) \/ CollectRollsBack(f)
             \/ \E link \in Links : Refer(f, link) \/ Unrefer(f, link)
    <3>1. upload[f] # "none"
      BY <2>3 DEF ExpireUpload, CleanupOrphan, CollectRollsBack, Refer, Unrefer, BlobInv,
                  UnregisteredIsUntouched
    <3> QED
      BY <2>3, <3>1, ReferenceStep
  <2> QED
    BY <1>2, <2>1, <2>2, <2>3 DEF FileStep
<1>3. ASSUME NEW w \in Workers, WorkerStep(w) PROVE BlobInv'
  BY <1>3, WorkerRowStep, EraseStep, FinalizeStep DEF WorkerStep
<1> QED
  BY <1>1, <1>2, <1>3, RequestStep, BlobStepInv DEF Next

\* The inductive invariant of files, blobs and their jobs: nothing touches what
\* is not registered, a collector's decision is true while it holds its locks,
\* a blob has live files exactly while it is not dying, a file that left its blob
\* never comes back, and bytes are erased under dying blobs only.
THEOREM Invariance == Spec => []BlobInv
BY InitInv, NextInv, PTL DEF Spec

\* Files, blobs, jobs, requests and workers keep their types, and no delivery
\* goes past the outbox limit.
THEOREM TypeCorrect == Spec => []TypeOK
<1>1. BlobInv => TypeOK
  BY DEF BlobInv
<1> QED
  BY <1>1, Invariance, PTL

\* For any number of files, workers and requests, collectors of the last files
\* of a blob never both leave the blob to the other (maintenance.ts,
\* file-lifecycle.ts): a blob all of whose files are gone is on its way out.
THEOREM LastFileIsSeen == Spec => []LastFileSchedules
<1>1. BlobInv => LastFileSchedules
  BY DEF BlobInv
<1> QED
  BY <1>1, Invariance, PTL

\* For any number of files, workers and requests, and whatever duplicates are
\* merged, deliveries overtake each other and calls die, a file a user can open
\* has its bytes in storage (file-blobs.ts delete, finalizeVerification).
THEOREM LiveFilesKeepTheirBytes == Spec => []LiveFileHasObject
<1>1. BlobInv => LiveFileHasObject
  BY DEF BlobInv
<1> QED
  BY <1>1, Invariance, PTL
=============================================================================
