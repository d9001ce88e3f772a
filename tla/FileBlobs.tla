----------------------------- MODULE FileBlobs -----------------------------
(***************************************************************************)
(* Logical files, the stored objects (blobs) behind them and the jobs that *)
(* verify, deduplicate and delete them.                                    *)
(*                                                                         *)
(* The API registers files (file-platform.service.ts), drops references    *)
(* and collects a file nobody refers to (file-lifecycle.ts); maintenance   *)
(* repairs what those calls left (maintenance.ts); workers take            *)
(* file.verify-blob and file.delete-blob rows of the outbox                *)
(* (file-blobs.ts).  Every call is split where it leaves PostgreSQL for    *)
(* object storage.  A collection is split where it holds its row locks and *)
(* has read the other files of the blob but has not committed.             *)
(*                                                                         *)
(* The blob an upload creates has the name of its file.                    *)
(***************************************************************************)
EXTENDS Naturals, FiniteSets

CONSTANTS
    Files,           \* files that may be registered
    Workers,         \* worker slots that take blob jobs
    Calls,           \* API requests that may be in flight at once
    Digests,         \* contents
    Content,         \* [Files -> Digests]: the bytes a client stores for a file
    Origins,         \* [Files -> sets of <<origin, digest>>]: how a file may come, "upload" or
                     \* "direct", and the digest declared for it: "none", "right" or "wrong"
    MaxDeliveries,   \* outbox attempts before a row is dead-lettered
    MaxEvents        \* model bound: rare events, each kind at most once

\* faults: a crash, a storage error or a rolled back transaction;
\* overtakes: a delivery or claim that overtakes a live worker;
\* revisits: a verify_file_blobs pass; brandings: a file becomes the
\* organization's logo; aborts: an abort request; misfits: an upload whose
\* bytes have not the declared size or digest.
Events == {"faults", "overtakes", "revisits", "brandings", "aborts", "misfits"}

ASSUME ContentAssumption == Files # {} /\ Content \in [Files -> Digests]
ASSUME BoundsAssumption == MaxDeliveries \in Nat /\ MaxEvents \in Nat

VARIABLES
    upload,      \* file_uploads.status; "direct" for a file stored without one
    links,       \* live references of a file
    deleted,     \* files.deleted_at is set
    blobOf,      \* files.blob_id
    object,      \* the object in storage
    blob,        \* the file_blobs row
    verifyJob,   \* the outbox row file.verify-blob:<blob>
    deleteJob,   \* the outbox row file.delete-blob:<blob>
    gc,          \* an open collecting transaction: what it decided on the blob
    call,        \* API requests between two of their steps
    worker,      \* workers between two of their steps
    expected,    \* file_blobs.metadata.expectedSha256, against the bytes' digest
    quarantined, \* the files whose status is quarantined by a failed verification
    used         \* history: the rare events so far

vars == <<upload, links, deleted, blobOf, object, blob, verifyJob, deleteJob,
          gc, call, worker, expected, quarantined, used>>

Uploads  == {"none", "uploading", "completed", "retired", "direct"}
\* "misfit": the bytes, uploaded in parts or stored, have not the declared size.
Objects  == {"absent", "parts", "misfit parts", "stored", "misfit", "gone"}
Statuses == {"none", "unverified", "verifying", "verified", "failed",
             "pending_delete", "deleted"}

\* "user" stands for the references that count alike: a library entry,
\* file_associations and workspace_files rows (an active knowledge source
\* counts only together with its workspace_files row).  Dropping one of
\* several changes nothing else.
Links == {"user", "branding"}

NoRow    == [open |-> FALSE, dead |-> FALSE, epoch |-> 0]
SomeFile == CHOOSE f \in Files : TRUE
IdleCall == [op |-> "none", file |-> SomeFile, blob |-> SomeFile, step |-> "idle"]
IdleWorker == [step |-> "idle", blob |-> SomeFile, epoch |-> 0]
NoBlob   == [status |-> "none", hashed |-> FALSE, due |-> "none",
             claimed |-> FALSE, fresh |-> FALSE]

Init ==
    /\ upload = [f \in Files |-> "none"]
    /\ links = [f \in Files |-> {}]
    /\ deleted = [f \in Files |-> FALSE]
    /\ blobOf = [f \in Files |-> f]
    /\ object = [f \in Files |-> "absent"]
    /\ blob = [f \in Files |-> NoBlob]
    /\ verifyJob = [f \in Files |-> NoRow]
    /\ deleteJob = [f \in Files |-> NoRow]
    /\ gc = [f \in Files |-> [step |-> "none", retires |-> FALSE]]
    /\ call = [c \in Calls |-> IdleCall]
    /\ worker = [w \in Workers |-> IdleWorker]
    /\ expected = [f \in Files |-> "none"] /\ quarantined = {}
    /\ used = {}

Spend(x) ==
    /\ x \notin used /\ Cardinality(used) < MaxEvents
    /\ used' = used \cup {x}

\* Spend x only if the step overtakes somebody.
SpendIf(x, overtakes) == IF overtakes THEN Spend(x) ELSE UNCHANGED used

-----------------------------------------------------------------------------
(* Row locks: a collecting transaction holds its file and the file's blob. *)

FilesOn(b) == {f \in Files : blobOf[f] = b}

FileFree(f) == gc[f].step = "none"

\* Mutant: the collector reads the other files without locking the blob row.
BlobFreeAlways(b) == b = b

BlobFree(b) == \A f \in FilesOn(b) : gc[f].step = "none"

LiveOn(b) == {f \in FilesOn(b) : ~deleted[f]}

\* The references garbageCollectFileIfUnreferenced looks for.
Referenced(f, rest) == rest # {} \/ upload[f] = "uploading"

-----------------------------------------------------------------------------
(* Outbox rows *)

\* ON CONFLICT ... completed_at = NULL: opened again, but a dead-lettered row
\* stays dead-lettered and keeps its attempts.
Opened(row) == [row EXCEPT !.open = TRUE]

Revived(row) == [row EXCEPT !.open = TRUE, !.dead = FALSE]

Deliverable(row) == row.open /\ ~row.dead /\ row.epoch < MaxDeliveries

Delivered(row) == [row EXCEPT !.epoch = @ + 1]

\* acknowledgeBlobOutbox: the current delivery closes the row, a row that is
\* already closed is a success, anything else throws.
MayAcknowledge(row, epoch) ==
    ~row.dead /\ (row.open => row.epoch = epoch)

Closed(row) == [row EXCEPT !.open = FALSE]

\* completeVerificationWatchdog: a stale or dead row is left alone.
WatchdogClosed(row, epoch) ==
    IF row.open /\ ~row.dead /\ row.epoch = epoch THEN Closed(row) ELSE row

DeadLetter(b) ==
    \/ /\ verifyJob[b].open /\ ~verifyJob[b].dead
       /\ verifyJob[b].epoch >= MaxDeliveries
       /\ verifyJob' = [verifyJob EXCEPT ![b].open = FALSE, ![b].dead = TRUE]
       /\ UNCHANGED deleteJob
    \/ /\ deleteJob[b].open /\ ~deleteJob[b].dead
       /\ deleteJob[b].epoch >= MaxDeliveries
       /\ deleteJob' = [deleteJob EXCEPT ![b].open = FALSE, ![b].dead = TRUE]
       /\ UNCHANGED verifyJob

DeadLetterRow(b) ==
    /\ DeadLetter(b)
    /\ UNCHANGED <<upload, links, deleted, blobOf, object, blob, gc, call,
                   worker, used, expected, quarantined>>

-----------------------------------------------------------------------------
(* Registering files *)

\* The digest the row is created with: a client may declare one for an upload,
\* an import and an image come with theirs, a sandbox output with it or without.
Declares(f, origin, digests) ==
    \E d \in digests : <<origin, d>> \in Origins[f] /\ expected' = [expected EXCEPT ![f] = d]

InitiateUpload(f) ==
    /\ upload[f] = "none"
    /\ upload' = [upload EXCEPT ![f] = "uploading"]
    /\ \E chat \in SUBSET {"user"} : links' = [links EXCEPT ![f] = chat]
    /\ \/ /\ object' = [object EXCEPT ![f] = "parts"]
          /\ \/ Declares(f, "upload", {"none", "right"}) /\ UNCHANGED used
             \/ Declares(f, "upload", {"wrong"}) /\ Spend("misfits")
       \/ /\ object' = [object EXCEPT ![f] = "misfit parts"]
          /\ Declares(f, "upload", {"none"}) /\ Spend("misfits")
    /\ blob' = [blob EXCEPT ![f].status = "unverified"]
    /\ UNCHANGED <<deleted, blobOf, verifyJob, deleteJob, gc, call, worker,
                   quarantined>>

\* A sandbox output, a generated image or a connector import: stored first,
\* registered with its references and its verification job in one transaction.
RegisterStored(f) ==
    /\ upload[f] = "none"
    /\ upload' = [upload EXCEPT ![f] = "direct"]
    /\ links' = [links EXCEPT ![f] = {"user"}]
    /\ object' = [object EXCEPT ![f] = "stored"]
    /\ blob' = [blob EXCEPT ![f].status = "unverified"]
    /\ verifyJob' = [verifyJob EXCEPT ![f] = Opened(@)]
    /\ Declares(f, "direct", {"none", "right"})
    /\ UNCHANGED <<deleted, blobOf, deleteJob, gc, call, worker, quarantined,
                   used>>

\* requireUpload: the request keeps the blob the file has now.
Request(c, op, f) ==
    /\ call[c].step = "idle"
    /\ upload[f] = "uploading" /\ ~deleted[f]
    /\ call' = [call EXCEPT ![c] = [op |-> op, file |-> f, blob |-> blobOf[f],
                                    step |-> "read"]]
    /\ UNCHANGED <<upload, links, deleted, blobOf, object, blob, verifyJob,
                   deleteJob, gc, worker, expected, quarantined>>

CompleteUpload(c, f) == Request(c, "complete", f) /\ UNCHANGED used
AbortUpload(c, f)    == Request(c, "abort", f) /\ Spend("aborts")

\* CompleteMultipartUpload, or the object an earlier attempt completed; an
\* object of the wrong size is deleted, or stays when that fails too.
CompleteStore(c) ==
    LET b == call[c].blob
        misfit == object[b] \in {"misfit parts", "misfit"} IN
    /\ call[c].op = "complete" /\ call[c].step = "read"
    /\ IF object[b] = "gone"
       THEN /\ call' = [call EXCEPT ![c] = IdleCall]
            /\ UNCHANGED object
       ELSE /\ \E o \in IF misfit THEN {"gone", "misfit"} ELSE {"stored"} :
                  object' = [object EXCEPT ![b] = o]
            /\ call' = [call EXCEPT ![c].step =
                            IF misfit THEN "mismatch" ELSE "stored"]
    /\ UNCHANGED <<upload, links, deleted, blobOf, blob, verifyJob,
                   deleteJob, gc, worker, used, expected, quarantined>>

\* The transaction of completeUpload.  Its last read rolls everything back
\* when the file is deleted; it does not look at the upload's status again.
CompleteCommit(c) ==
    LET f == call[c].file
        b == call[c].blob IN
    /\ call[c].op = "complete" /\ call[c].step = "stored"
    /\ FileFree(f) /\ BlobFree(b)
    /\ call' = [call EXCEPT ![c] = IdleCall]
    /\ IF deleted[f]
       THEN UNCHANGED <<upload, links, blob, verifyJob, quarantined>>
       ELSE /\ upload' = [upload EXCEPT ![f] = "completed"]
            /\ links' = [links EXCEPT ![f] = @ \cup {"user"}]
            /\ blob' = [blob EXCEPT ![b].status =
                            IF @ = "failed" THEN "unverified" ELSE @]
            /\ verifyJob' = [verifyJob EXCEPT ![b] = Opened(@)]
            /\ quarantined' = quarantined \ {f}
    /\ UNCHANGED <<deleted, blobOf, object, deleteJob, gc, worker, expected, used>>

\* AbortMultipartUpload; a multipart upload that is already gone is no error.
AbortStore(c) ==
    LET b == call[c].blob IN
    /\ call[c].op = "abort" /\ call[c].step = "read"
    /\ object' = [object EXCEPT ![b] = IF @ \in {"parts", "misfit parts"} THEN "gone" ELSE @]
    /\ call' = [call EXCEPT ![c].step = "aborted"]
    /\ UNCHANGED <<upload, links, deleted, blobOf, blob, verifyJob,
                   deleteJob, gc, worker, used, expected, quarantined>>

CallDies(c) ==
    /\ call[c].step # "idle"
    /\ call' = [call EXCEPT ![c] = IdleCall]
    /\ Spend("faults")
    /\ UNCHANGED <<upload, links, deleted, blobOf, object, blob, verifyJob,
                   deleteJob, gc, worker, expected, quarantined>>

-----------------------------------------------------------------------------
(* References, and the collection of a file without one *)

\* The deletion of a blob that has a file again is cancelled.
Spared(row) ==
    [row EXCEPT !.status = IF row.hashed THEN "verified" ELSE "unverified",
                !.due = "none"]

\* associateInputFiles, registerSandboxOutput again, reviveLibraryEntry of an
\* import: the file is locked, must be live, and a scheduled deletion of its
\* blob is cancelled.
Refer(f, link) ==
    /\ upload[f] \in {"completed", "direct"} /\ ~deleted[f]
    /\ link \notin links[f]
    /\ FileFree(f) /\ BlobFree(blobOf[f])
    /\ blob[blobOf[f]].status # "deleted"
    /\ links' = [links EXCEPT ![f] = @ \cup {link}]
    /\ LET b == blobOf[f] IN
       IF link # "branding" /\ blob[b].status = "pending_delete"
       THEN /\ blob' = [blob EXCEPT ![b] = Spared(@)]
            /\ deleteJob' = [deleteJob EXCEPT ![b] = Closed(@)]
       ELSE UNCHANGED <<blob, deleteJob>>
    /\ SpendIf("brandings", link = "branding")
    /\ UNCHANGED <<upload, deleted, blobOf, object, verifyJob, gc, call,
                   worker, expected, quarantined>>

\* What a collector decides once it holds the file and the blob.
Decision(f) ==
    IF \E g \in LiveOn(blobOf[f]) \ {f} : TRUE THEN "keep" ELSE "schedule"

BeginCollect(f, retires) ==
    /\ FileFree(f) /\ BlobFree(blobOf[f])
    /\ gc' = [gc EXCEPT ![f] = [step |-> Decision(f), retires |-> retires]]

\* removeFromLibrary and unlinkWorkspaceFile (or a deleted message range):
\* drop one reference, then collect the file if that was the last.
Unrefer(f, link) ==
    LET rest == links[f] \ {link} IN
    /\ link \in links[f] \ {"branding"} /\ ~deleted[f]
    /\ FileFree(f)
    /\ IF Referenced(f, rest)
       THEN links' = [links EXCEPT ![f] = rest] /\ UNCHANGED gc
       ELSE BeginCollect(f, FALSE) /\ UNCHANGED links
    /\ UNCHANGED <<upload, deleted, blobOf, object, blob, verifyJob,
                   deleteJob, call, worker, used, expected, quarantined>>

\* The transaction that ends abortUpload or a completion of the wrong size:
\* unconditional, it retires the upload, drops its references and collects.
RetireUpload(c) ==
    LET f == call[c].file IN
    /\ call[c].step \in {"aborted", "mismatch"}
    /\ FileFree(f)
    /\ call' = [call EXCEPT ![c] = IdleCall]
    /\ IF "branding" \in links[f]
       THEN /\ upload' = [upload EXCEPT ![f] = "retired"]
            /\ links' = [links EXCEPT ![f] = {"branding"}]
            /\ UNCHANGED gc
       ELSE BeginCollect(f, TRUE) /\ UNCHANGED <<upload, links>>
    /\ UNCHANGED <<deleted, blobOf, object, blob, verifyJob, deleteJob,
                   worker, used, expected, quarantined>>

\* retireExpiredUploads, a day after the upload began.
ExpireUpload(f) ==
    /\ upload[f] = "uploading" /\ FileFree(f)
    /\ upload' = [upload EXCEPT ![f] = "retired"]
    /\ links' = [links EXCEPT ![f] =
                    IF deleted[f] THEN @ ELSE @ \cap {"branding"}]
    /\ UNCHANGED <<deleted, blobOf, object, blob, verifyJob, deleteJob, gc,
                   call, worker, used, expected, quarantined>>

\* A deleted file whose blob was left without a scheduled deletion.
Unscheduled(f) ==
    LET b == blobOf[f] IN
    /\ deleted[f] /\ LiveOn(b) = {}
    /\ blob[b].status # "deleted"
    /\ blob[b].status = "pending_delete" => ~deleteJob[b].open

\* cleanupOrphanFiles skips locked files and does not look at branding.
CleanupOrphan(f) ==
    /\ upload[f] \notin {"none", "uploading"}
    /\ "user" \notin links[f]
    /\ ~deleted[f] \/ Unscheduled(f)
    /\ BeginCollect(f, FALSE)
    /\ UNCHANGED <<upload, links, deleted, blobOf, object, blob, verifyJob,
                   deleteJob, call, worker, used, expected, quarantined>>

Scheduled(row) ==
    [row EXCEPT !.status = "pending_delete",
                !.due = IF @ = "none" THEN "waiting" ELSE @]

Collect(f) ==
    LET b == blobOf[f]
        schedules == gc[f].step = "schedule" /\ blob[b].status # "deleted" IN
    /\ ~FileFree(f)
    /\ gc' = [gc EXCEPT ![f] = [step |-> "none", retires |-> FALSE]]
    /\ deleted' = [deleted EXCEPT ![f] = TRUE]
    /\ links' = [links EXCEPT ![f] = @ \cap {"branding"}]
    /\ upload' = [upload EXCEPT ![f] = IF gc[f].retires THEN "retired" ELSE @]
    /\ blob' = IF schedules THEN [blob EXCEPT ![b] = Scheduled(@)] ELSE blob
    /\ deleteJob' = IF schedules
                    THEN [deleteJob EXCEPT ![b] = Opened(@)] ELSE deleteJob
    /\ UNCHANGED <<blobOf, object, verifyJob, call, worker, used, expected,
                   quarantined>>

CollectRollsBack(f) ==
    /\ ~FileFree(f)
    /\ gc' = [gc EXCEPT ![f] = [step |-> "none", retires |-> FALSE]]
    /\ Spend("faults")
    /\ UNCHANGED <<upload, links, deleted, blobOf, object, blob, verifyJob,
                   deleteJob, call, worker, expected, quarantined>>

-----------------------------------------------------------------------------
(* Verification *)

Busy(b, steps) == \E w \in Workers : worker[w].blob = b /\ worker[w].step \in steps

\* A delivery of file.verify-blob and the claim that starts verify(), in one
\* step.  Only a delivery that overtakes the fifteen-minute watchdog finds a fresh
\* claim.  A claim leaves the row open, and not dead-lettered, as its watchdog.
VerifyClaim(w, b) ==
    LET epoch == verifyJob[b].epoch + 1
        fresh == blob[b].status = "verifying" /\ blob[b].fresh IN
    /\ worker[w].step = "idle"
    /\ Deliverable(verifyJob[b]) /\ BlobFree(b)
    /\ SpendIf("overtakes", fresh)
    /\ IF blob[b].status \in {"verified", "pending_delete", "deleted"}
       THEN /\ verifyJob' = [verifyJob EXCEPT ![b] = Closed(Delivered(@))]
            /\ UNCHANGED <<blob, worker>>
       ELSE /\ IF fresh
               THEN UNCHANGED <<blob, worker>>
               ELSE /\ blob' = [blob EXCEPT ![b] = [@ EXCEPT !.status = "verifying",
                                                         !.fresh = TRUE]]
                    /\ worker' = [worker EXCEPT ![w] =
                           [step |-> "hashing", blob |-> b, epoch |-> epoch]]
            /\ verifyJob' = [verifyJob EXCEPT ![b] =
                                 IF fresh THEN Delivered(@) ELSE Revived(Delivered(@))]
    /\ UNCHANGED <<upload, links, deleted, blobOf, object, deleteJob, gc,
                   call, expected, quarantined>>

\* Fifteen minutes after the claim; a worker may still be hashing.
ClaimAges(b) ==
    /\ blob[b].fresh
    /\ blob' = [blob EXCEPT ![b].fresh = FALSE]
    /\ SpendIf("overtakes", Busy(b, {"hashing"}))
    /\ UNCHANGED <<upload, links, deleted, blobOf, object, verifyJob,
                   deleteJob, gc, call, worker, expected, quarantined>>

\* Mutant: a blob already scheduled for deletion still attracts duplicates.
WinnersPendingToo(b) ==
    {x \in Files \ {b} : /\ blob[x].status \in {"verified", "pending_delete"}
                         /\ blob[x].hashed /\ Content[x] = Content[b]}

\* The verified blob of the tenant with the same digest; the partial unique
\* index leaves at most one, and a conflict on it retries with the winner.
Winners(b) ==
    {x \in Files \ {b} : /\ blob[x].status = "verified" /\ blob[x].hashed
                         /\ Content[x] = Content[b]}

Idle(w) == worker' = [worker EXCEPT ![w] = IdleWorker]

\* The object can be read, has the recorded size and the expected digest.
Matches(b) == object[b] = "stored" /\ expected[b] # "wrong"

\* immutableExpectedSha256 falls back on the digest an earlier verification
\* recorded, so a second one that began before that finds it changed.  (One that
\* begins later does not get this far: the blob is verified.)
ExpectationChanged(b) == expected[b] = "none" /\ blob[b].hashed

\* FileBlobIntegrityError, as opposed to an object that cannot be read.
IntegrityError(b) ==
    \/ object[b] = "misfit"
    \/ object[b] = "stored" /\ expected[b] = "wrong"
    \/ Matches(b) /\ ExpectationChanged(b) /\ blob[b].status \notin {"pending_delete", "deleted"}

\* finalizeVerification.  Success ends the quarantine of the blob's files.
FinalizeVerification(w) ==
    LET b == worker[w].blob IN
    /\ worker[w].step = "hashing" /\ Matches(b)
    /\ BlobFree(b) /\ \A x \in Winners(b) : BlobFree(x)
    /\ verifyJob' = [verifyJob EXCEPT ![b] = WatchdogClosed(@, worker[w].epoch)]
    /\ Idle(w)
    /\ \/ /\ blob[b].status \in {"pending_delete", "deleted"}
          /\ UNCHANGED <<blob, blobOf, deleteJob, quarantined>>
       \/ /\ blob[b].status \notin {"pending_delete", "deleted"} /\ ~ExpectationChanged(b)
          /\ Winners(b) = {}
          /\ blob' = [blob EXCEPT ![b] = [@ EXCEPT !.status = "verified", !.hashed = TRUE,
                                               !.due = "none"]]
          /\ quarantined' = quarantined \ FilesOn(b)
          /\ UNCHANGED <<blobOf, deleteJob>>
       \/ /\ blob[b].status \notin {"pending_delete", "deleted"} /\ ~ExpectationChanged(b)
          /\ \E x \in Winners(b) :
                blobOf' = [f \in Files |-> IF blobOf[f] = b THEN x
                                                            ELSE blobOf[f]]
          /\ blob' = [blob EXCEPT ![b] = [Scheduled(@) EXCEPT !.hashed = TRUE]]
          /\ deleteJob' = [deleteJob EXCEPT ![b] = Revived(@)]
          /\ quarantined' = quarantined \ FilesOn(b)
    /\ UNCHANGED <<upload, links, deleted, object, gc, call, expected, used>>

\* recordVerificationFailure: an integrity error quarantines the live files of
\* the blob, whatever has become of the blob itself; an object that cannot be
\* read and a storage error do not.
VerificationFails(w) ==
    LET b == worker[w].blob IN
    /\ worker[w].step = "hashing" /\ BlobFree(b)
    /\ \/ /\ IntegrityError(b) /\ UNCHANGED used
          /\ quarantined' = quarantined \cup {f \in LiveOn(b) : upload[f] \in {"completed", "direct"}}
       \/ /\ SpendIf("faults", object[b] \in {"stored", "misfit"})
          /\ UNCHANGED quarantined
    /\ blob' = [blob EXCEPT ![b].status = IF @ = "verifying" THEN "failed"
                                                             ELSE @]
    /\ Idle(w)
    /\ UNCHANGED <<upload, links, deleted, blobOf, object, verifyJob, deleteJob,
                   gc, call, expected>>

\* The verify_file_blobs maintenance pass.
VerifyFileBlobs(b) ==
    /\ \/ blob[b].status \in {"unverified", "failed"}
       \/ blob[b].status = "verifying" /\ ~blob[b].fresh
    /\ Spend("revisits")
    /\ verifyJob' = [verifyJob EXCEPT ![b] = Opened(@)]
    /\ UNCHANGED <<upload, links, deleted, blobOf, object, blob, deleteJob,
                   gc, call, worker, expected, quarantined>>

-----------------------------------------------------------------------------
(* Physical deletion *)

\* Seven days, which outlast a request that is in flight.
GraceEnds(b) ==
    /\ blob[b].due = "waiting"
    /\ \A c \in Calls : call[c].step # "idle" => call[c].blob # b
    /\ blob' = [blob EXCEPT ![b].due = "over"]
    /\ UNCHANGED <<upload, links, deleted, blobOf, object, verifyJob,
                   deleteJob, gc, call, worker, used, expected, quarantined>>

\* A delivery of file.delete-blob and claimDeletion.  The claim's owner is the
\* outbox row, so a second delivery of the row takes the claim over.
DeleteClaim(w, b) ==
    /\ worker[w].step = "idle"
    /\ Deliverable(deleteJob[b]) /\ blob[b].due # "waiting" /\ BlobFree(b)
    /\ SpendIf("overtakes", Busy(b, {"deleting", "erased"}))
    /\ IF blob[b].status = "deleted"
       THEN /\ deleteJob' = [deleteJob EXCEPT ![b] = Closed(Delivered(@))]
            /\ UNCHANGED <<blob, worker>>
       ELSE IF LiveOn(b) # {}
       THEN /\ deleteJob' = [deleteJob EXCEPT ![b] = Closed(Delivered(@))]
            /\ blob' = [blob EXCEPT ![b] = Spared(@)]
            /\ UNCHANGED worker
       ELSE /\ deleteJob' = [deleteJob EXCEPT ![b] = Delivered(@)]
            /\ IF blob[b].status = "pending_delete" /\ blob[b].due = "over"
               THEN /\ blob' = [blob EXCEPT ![b].claimed = TRUE]
                    /\ worker' = [worker EXCEPT ![w] =
                           [step |-> "deleting", blob |-> b,
                            epoch |-> deleteJob[b].epoch + 1]]
               ELSE UNCHANGED <<blob, worker>>
    /\ UNCHANGED <<upload, links, deleted, blobOf, object, verifyJob, gc,
                   call, expected, quarantined>>

\* deleteCapturedObjectVersion: versions only.  The parts of a multipart upload
\* that was never completed nor aborted stay.
DeleteObject(w) ==
    /\ worker[w].step = "deleting"
    /\ object' = [object EXCEPT ![worker[w].blob] =
                     IF @ \in {"parts", "misfit parts"} THEN @ ELSE "gone"]
    /\ worker' = [worker EXCEPT ![w].step = "erased"]
    /\ UNCHANGED <<upload, links, deleted, blobOf, blob, verifyJob,
                   deleteJob, gc, call, used, expected, quarantined>>

\* Mutant: a failed storage call goes on to completeDeletion.
DeleteFailsSilently(w) ==
    /\ worker[w].step = "deleting" /\ BlobFree(worker[w].blob)
    /\ worker' = [worker EXCEPT ![w].step = "erased"]
    /\ Spend("faults")
    /\ UNCHANGED <<upload, links, deleted, blobOf, object, blob, verifyJob,
                   deleteJob, gc, call, expected, quarantined>>

\* Storage failed: releaseDeletionClaim, which cannot tell two deliveries of
\* the row apart.
DeleteFails(w) ==
    LET b == worker[w].blob IN
    /\ worker[w].step = "deleting" /\ BlobFree(b)
    /\ blob' = [blob EXCEPT ![b].claimed = FALSE]
    /\ Idle(w)
    /\ Spend("faults")
    /\ UNCHANGED <<upload, links, deleted, blobOf, object, verifyJob,
                   deleteJob, gc, call, expected, quarantined>>

\* completeDeletion: throws, and changes nothing, when the claim was lost or
\* the receipt belongs to a newer delivery.
CompleteDeletion(w) ==
    LET b == worker[w].blob
        owned == blob[b].claimed /\ blob[b].status = "pending_delete"
        ends == /\ owned \/ blob[b].status = "deleted"
                /\ MayAcknowledge(deleteJob[b], worker[w].epoch) IN
    /\ worker[w].step = "erased" /\ BlobFree(b)
    /\ blob' = IF ends /\ owned
               THEN [blob EXCEPT ![b] = [@ EXCEPT !.status = "deleted", !.claimed = FALSE]]
               ELSE blob
    /\ deleteJob' = IF ends THEN [deleteJob EXCEPT ![b] = Closed(@)]
                            ELSE deleteJob
    /\ Idle(w)
    /\ UNCHANGED <<upload, links, deleted, blobOf, object, verifyJob, gc,
                   call, used, expected, quarantined>>

WorkerDies(w) ==
    /\ worker[w].step # "idle"
    /\ Idle(w)
    /\ Spend("faults")
    /\ UNCHANGED <<upload, links, deleted, blobOf, object, blob, verifyJob,
                   deleteJob, gc, call, expected, quarantined>>

-----------------------------------------------------------------------------
ApiStep(c) ==
    \/ \E f \in Files : CompleteUpload(c, f) \/ AbortUpload(c, f)
    \/ CompleteStore(c) \/ CompleteCommit(c) \/ AbortStore(c)
    \/ RetireUpload(c) \/ CallDies(c)

FileStep(f) ==
    \/ InitiateUpload(f) \/ RegisterStored(f) \/ ExpireUpload(f)
    \/ \E link \in Links : Refer(f, link) \/ Unrefer(f, link)
    \/ CleanupOrphan(f) \/ Collect(f) \/ CollectRollsBack(f)

WorkerStep(w) ==
    \/ \E b \in Files : VerifyClaim(w, b) \/ DeleteClaim(w, b)
    \/ FinalizeVerification(w) \/ VerificationFails(w)
    \/ DeleteObject(w) \/ DeleteFails(w) \/ CompleteDeletion(w) \/ WorkerDies(w)

BlobStep(b) ==
    ClaimAges(b) \/ GraceEnds(b) \/ VerifyFileBlobs(b) \/ DeadLetterRow(b)

Next ==
    \/ \E c \in Calls : ApiStep(c)
    \/ \E f \in Files : FileStep(f)
    \/ \E w \in Workers : WorkerStep(w)
    \/ \E b \in Files : BlobStep(b)

Spec == Init /\ [][Next]_vars

\* The code of workers and requests goes on, the relay keeps delivering, open
\* transactions end and time passes.
Fairness ==
    /\ \A c \in Calls :
          WF_vars(CompleteStore(c) \/ CompleteCommit(c) \/ AbortStore(c) \/ RetireUpload(c))
    /\ \A w \in Workers :
          /\ WF_vars(FinalizeVerification(w) \/ VerificationFails(w))
          /\ WF_vars(DeleteObject(w)) /\ WF_vars(CompleteDeletion(w))
    /\ \A b \in Files :
          /\ SF_vars(\E w \in Workers : VerifyClaim(w, b))
          /\ SF_vars(\E w \in Workers : DeleteClaim(w, b))
          /\ WF_vars(ClaimAges(b)) /\ WF_vars(GraceEnds(b))
          /\ WF_vars(Collect(b))

FairSpec == Spec /\ Fairness

-----------------------------------------------------------------------------
(* Properties *)

BlobType == [status : Statuses, hashed : BOOLEAN, due : {"none", "waiting", "over"},
             claimed : BOOLEAN, fresh : BOOLEAN]
JobType == [open : BOOLEAN, dead : BOOLEAN, epoch : 0..MaxDeliveries]
GcType == [step : {"none", "keep", "schedule"}, retires : BOOLEAN]
CallType == [op : {"none", "complete", "abort"}, file : Files, blob : Files,
             step : {"idle", "read", "stored", "mismatch", "aborted"}]
WorkerType == [step : {"idle", "hashing", "deleting", "erased"}, blob : Files,
               epoch : 0..MaxDeliveries]

TypeOK ==
    /\ upload \in [Files -> Uploads]
    /\ links \in [Files -> SUBSET Links]
    /\ deleted \in [Files -> BOOLEAN]
    /\ blobOf \in [Files -> Files]
    /\ object \in [Files -> Objects]
    /\ blob \in [Files -> BlobType]
    /\ verifyJob \in [Files -> JobType]
    /\ deleteJob \in [Files -> JobType]
    /\ gc \in [Files -> GcType]
    /\ call \in [Calls -> CallType]
    /\ worker \in [Workers -> WorkerType]
    /\ expected \in [Files -> {"none", "right", "wrong"}] /\ quarantined \subseteq Files
    /\ used \subseteq Events

\* The bytes of a live file are in storage: neither a duplicate moved to
\* another blob, nor a deletion claimed before the last file went, nor an
\* expiry racing the end of an upload takes away an object a user can open
\* (file-blobs.ts delete, finalizeVerification).
LiveFileHasObject ==
    \A f \in Files :
        upload[f] \in {"completed", "direct"} /\ ~deleted[f]
            => object[blobOf[f]] = "stored"

\* Two collectors of the last two files of a blob never both leave the blob
\* to the other (the FOR UPDATE on file_blobs in maintenance.ts and
\* file-lifecycle.ts): a blob all of whose files are gone is on its way out.
LastFileSchedules ==
    \A b \in Files :
        blob[b].status # "none" /\ LiveOn(b) = {}
            => blob[b].status \in {"pending_delete", "deleted"}

\* Every blob comes to rest.  The object of a blob without files is erased in
\* the end, across crashed workers, storage errors, two deliveries that share
\* a claim and a request that completes it late, and one recorded as deleted is
\* gone; only parts of an upload that nobody completed stay (file-blobs.ts
\* delete, completeDeletion).  A stored file is verified in the end, unless it
\* goes first, and out of quarantine: a worker that dies in the middle leaves the
\* watchdog row behind (verify).  Left out of this second part: a file whose
\* client declared another digest, which stays failed and quarantined; a
\* maintenance pass that queues the verification of an unfinished upload, for it
\* spends deliveries, and the row that completeUpload opens again stays
\* dead-lettered (maintenance.ts); and, of the quarantine, a verification that
\* overtakes a live one, for the one that ends second quarantines what the first
\* has verified.
EveryBlobSettles ==
    <>[](/\ \A b \in Files :
               blob[b].status \in {"pending_delete", "deleted"} => object[b] \notin {"stored", "misfit"}
         /\ \A f \in Files :
               upload[f] \in {"completed", "direct"} /\ expected[f] # "wrong" /\ "revisits" \notin used
                   => /\ blob[f].status \in {"verified", "pending_delete", "deleted"}
                      /\ deleted[f] \/ f \notin quarantined \/ "overtakes" \in used)

-----------------------------------------------------------------------------
(* The inductive invariant behind the two safety properties.               *)

Dying == {"pending_delete", "deleted"}

\* Before a file is registered nothing names it, its blob or its jobs.
UnregisteredIsUntouched ==
    \A f \in Files : upload[f] = "none" =>
        /\ blobOf[f] = f /\ ~deleted[f] /\ links[f] = {} /\ FileFree(f)
        /\ ~verifyJob[f].open /\ ~deleteJob[f].open

\* A registered file has a blob, and so has every file on another file's blob;
\* requests and workers are about registered files only.
NamesAreRegistered ==
    /\ \A f \in Files : blob[f].status = "none" <=> upload[f] = "none"
    /\ \A f \in Files : upload[f] # "none" => upload[blobOf[f]] # "none"
    /\ \A c \in Calls : call[c].step # "idle" =>
          upload[call[c].file] # "none" /\ upload[call[c].blob] # "none"
    /\ \A w \in Workers : worker[w].step # "idle" =>
          upload[worker[w].blob] # "none"

\* One collector at a time is on a blob, and what it decided is still true.
CollectorsHoldTheirBlob ==
    \A f \in Files : ~FileFree(f) =>
        /\ \A g \in FilesOn(blobOf[f]) : g = f \/ FileFree(g)
        /\ gc[f].step = Decision(f)

\* The other half of LastFileSchedules: no live file is on a dying blob.
DyingHasNoFiles ==
    \A b \in Files : blob[b].status \in Dying => LiveOn(b) = {}

\* A file leaves its own blob when that blob dies, so it never comes back, and
\* a request that read the file before it moved does not meet it there again.
LeavingIsFinal ==
    /\ \A f \in Files : blobOf[f] # f => blob[f].status \in Dying
    /\ \A c \in Calls :
          call[c].step # "idle" /\ blobOf[call[c].file] = call[c].file
              => call[c].blob = call[c].file

\* The object of a dying blob only is erased.
ErasersHoldDyingBlobs ==
    \A w \in Workers : worker[w].step \in {"deleting", "erased"} =>
        blob[worker[w].blob].status \in Dying

\* A digest is known only of a blob that was verified, and whose bytes are
\* there until it dies: what makes it safe to move a duplicate's files to it.
VerifiedIsStored ==
    \A b \in Files :
        /\ blob[b].hashed => blob[b].status \in Dying \cup {"verified"}
        /\ blob[b].status = "verified" => object[b] = "stored"

\* A live file that was moved is on stored bytes, and so is one whose
\* completion has stored them but has not committed.
MovedIsStored ==
    \A f \in Files : ~deleted[f] /\ blobOf[f] # f => object[blobOf[f]] = "stored"

CompletingIsStored ==
    \A c \in Calls :
        LET f == call[c].file IN
        call[c].step = "stored" /\ ~deleted[f] /\ blobOf[f] = call[c].blob
            => object[blobOf[f]] = "stored"

BlobInv ==
    /\ TypeOK
    /\ UnregisteredIsUntouched /\ NamesAreRegistered
    /\ CollectorsHoldTheirBlob
    /\ LastFileSchedules /\ DyingHasNoFiles /\ LeavingIsFinal
    /\ ErasersHoldDyingBlobs
    /\ VerifiedIsStored /\ MovedIsStored /\ CompletingIsStored
    /\ LiveFileHasObject
=============================================================================
