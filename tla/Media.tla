------------------------------- MODULE Media -------------------------------
(***************************************************************************)
(* Uploaded images: the file on disk, its StoredFile row, what uses it,    *)
(* and the two-phase cleanup of the images nothing shows any more.  Disk   *)
(* and database never share a transaction, so each is a step of its own.   *)
(*                                                                         *)
(* Files are named in advance: saveImage gives every upload a fresh id,    *)
(* so a file is written once and then only renamed or removed.  The shop   *)
(* has one product, one affiliate listing and one news item.  Durations    *)
(* (24 h of grace, 15 min of a claim, the back-off) are a flag "elapsed"   *)
(* of the job that time raises at any moment: a run stamps all its claims  *)
(* with the time it started at, so a claim may age while it is worked on.  *)
(***************************************************************************)
EXTENDS Naturals

CONSTANTS
    Files,         \* the files that may be uploaded
    ListingFiles,  \* those that, added as an image, are the affiliate listing's
    Server, Cli,   \* the job of the server and the media:cleanup command
    MaxFaults      \* bound: steps of the cleanup that fail, and crashes

ASSUME MediaAssumption ==
    /\ ListingFiles \subseteq Files
    /\ Server # Cli
    /\ MaxFaults \in Nat

VARIABLES
    place,     \* where the file is on disk
    rows,      \* the files with a StoredFile row
    usedBy,    \* the ProductImage or NewsItem that points at the file
    ordered,   \* the files an order item's snapshot names
    products,  \* the products that exist
    upload,    \* how far the request that uploads the file is
    job,       \* the FileCleanupJob of the file
    worker,    \* where each cleanup run is, and its candidate
    faults     \* failed steps and crashes so far

mediaVars == <<place, rows, usedBy, ordered, products, upload, job, worker,
               faults>>

Workers == {Server, Cli}
Product(f) == IF f \in ListingFiles THEN "listing" ELSE "product"

NoJob  == [status |-> "NONE", elapsed |-> FALSE]
Queued == [status |-> "PENDING", elapsed |-> FALSE]

Idle == [at |-> "idle"]
At(step, f) == [at |-> step, file |-> f]
CleanupSteps == {"inspect", "restore", "retain", "look", "rename", "detach",
                 "purge", "complete"}

MediaInit ==
    /\ place = [f \in Files |-> "nowhere"]
    /\ rows = {}
    /\ usedBy = [f \in Files |-> "nothing"]
    /\ ordered = {}
    /\ products = {"product", "listing"}
    /\ upload = [f \in Files |-> "new"]
    /\ job = [f \in Files |-> NoJob]
    /\ worker = [w \in Workers |-> Idle]
    /\ faults = 0

(***************************************************************************)
(* Uploads: write the file, create its row, attach it in a transaction;    *)
(* a failed attachment is compensated file first, row second.              *)
(***************************************************************************)
Uploading(f, from, to) ==
    /\ upload[f] = from
    /\ upload' = [upload EXCEPT ![f] = to]
    /\ UNCHANGED <<products, worker, faults>>

WriteFile(f) ==
    /\ Uploading(f, "new", "written")
    /\ place' = [place EXCEPT ![f] = "stored"]
    /\ UNCHANGED <<rows, usedBy, ordered, job>>

CreateRow(f) ==
    /\ Uploading(f, "written", "saved")
    /\ rows' = rows \cup {f}
    /\ UNCHANGED <<place, usedBy, ordered, job>>

RowFails(f) ==
    /\ Uploading(f, "written", "ended")
    /\ place' = [place EXCEPT ![f] = "nowhere"]
    /\ UNCHANGED <<rows, usedBy, ordered, job>>

AddProductImage(f) ==
    /\ Product(f) \in products
    /\ Uploading(f, "saved", "ended")
    /\ usedBy' = [usedBy EXCEPT ![f] = "image"]
    /\ UNCHANGED <<place, rows, ordered, job>>

\* The transaction that attaches the file fails.
Rejected(f) ==
    /\ Uploading(f, "saved", "rejected")
    /\ UNCHANGED <<place, rows, usedBy, ordered, job>>
RejectImage(f) == Rejected(f)
RejectCover(f) == Rejected(f)

DiscardFile(f) ==
    /\ usedBy[f] = "nothing"
    /\ Uploading(f, "rejected", "unlinked")
    /\ place' = [place EXCEPT ![f] = "nowhere"]
    /\ UNCHANGED <<rows, usedBy, ordered, job>>

DiscardRow(f) ==
    /\ Uploading(f, "unlinked", "ended")
    /\ rows' = rows \ {f}
    /\ UNCHANGED <<place, usedBy, ordered, job>>

(***************************************************************************)
(* What the back office, the affiliate and the buyer do with the images.   *)
(***************************************************************************)
Pointed(use) == {f \in Files : usedBy[f] = use}
Images(p) == {f \in Pointed("image") \cup Pointed("retired") : Product(f) = p}

\* scheduleFileCleanup: an upsert, which also restarts a job under way
Scheduled(files) == [f \in Files |-> IF f \in files THEN Queued ELSE job[f]]

Released(files) ==
    [f \in Files |-> IF f \in files THEN "nothing" ELSE usedBy[f]]

\* Wrong form of ReplacedCover: the new cover is taken for the old one.
ReplacedCoverMistaken(f) == Pointed("cover") \cap {f}

ReplacedCover(f) == Pointed("cover") \ {f}

SetNewsCover(f) ==
    /\ Uploading(f, "saved", "ended")
    /\ usedBy' = [Released(Pointed("cover")) EXCEPT ![f] = "cover"]
    /\ job' = Scheduled(ReplacedCover(f))
    /\ UNCHANGED <<place, rows, ordered>>

Uncover ==
    /\ Pointed("cover") # {}
    /\ usedBy' = Released(Pointed("cover"))
    /\ job' = Scheduled(Pointed("cover"))
    /\ UNCHANGED <<place, rows, ordered, products, upload, worker, faults>>

ClearNewsCover == Uncover

\* the news item goes with its cover; the one that follows it has none
DeleteNews == Uncover

RetireProductImage(f) ==
    /\ usedBy[f] = "image"
    /\ usedBy' = [usedBy EXCEPT ![f] = "retired"]
    /\ job' = Scheduled({f})
    /\ UNCHANGED <<place, rows, ordered, products, upload, worker, faults>>

\* the affiliate's own DELETE of a listing's image
RetireListingImage(f) ==
    /\ f \in ListingFiles
    /\ usedBy[f] = "image"
    /\ usedBy' = [usedBy EXCEPT ![f] = "retired"]
    /\ UNCHANGED <<place, rows, ordered, products, upload, job, worker, faults>>

DeleteProduct(p) ==
    /\ p \in products
    /\ products' = products \ {p}
    /\ usedBy' = Released(Images(p))
    /\ job' = Scheduled(Images(p))
    /\ UNCHANGED <<place, rows, ordered, upload, worker, faults>>

DeleteListing ==
    /\ "listing" \in products
    /\ products' = products \ {"listing"}
    /\ usedBy' = Released(Images("listing"))
    /\ UNCHANGED <<place, rows, ordered, upload, job, worker, faults>>

\* createOrder copies the product's first active image into the order item
PlaceOrder(f) ==
    /\ usedBy[f] = "image"
    /\ f \notin ordered
    /\ ordered' = ordered \cup {f}
    /\ UNCHANGED <<place, rows, usedBy, products, upload, job, worker, faults>>

(***************************************************************************)
(* CleanupRetiredProductImages.execute, one candidate at a time.  The      *)
(* server runs one at a time; the command runs beside it.                  *)
(***************************************************************************)
Elapse(f) ==
    /\ job[f].status \in {"PENDING", "PROCESSING"}
    /\ ~job[f].elapsed
    /\ job' = [job EXCEPT ![f].elapsed = TRUE]
    /\ UNCHANGED <<place, rows, usedBy, ordered, products, upload, worker, faults>>

\* Wrong form of Claimable: a claim left by a crash is never taken over.
ClaimableUnclaimed(f) ==
    \/ job[f].status = "PENDING" /\ job[f].elapsed
    \/ job[f].status = "QUARANTINED"

Claimable(f) ==
    \/ job[f].status \in {"PENDING", "PROCESSING"} /\ job[f].elapsed
    \/ job[f].status = "QUARANTINED"

\* Wrong form of MustRetain: only product images are looked at.
MustRetainImagesOnly(f) == usedBy[f] = "image"

\* a cover is not looked at: no job exists for a file that is one
MustRetain(f) == f \in ordered \/ usedBy[f] = "image"

SetStatus(f, from, to) ==
    job' = IF job[f].status \in from
           THEN [job EXCEPT ![f] = [status |-> to, elapsed |-> FALSE]]
           ELSE job

Claim(w, f) ==
    /\ worker[w] = Idle
    /\ Claimable(f)
    /\ job' = [job EXCEPT ![f] = [status |-> "PROCESSING", elapsed |-> FALSE]]
    /\ worker' = [worker EXCEPT ![w] = At("inspect", f)]
    /\ UNCHANGED <<place, rows, usedBy, ordered, products, upload, faults>>

\* the worker is at a step of its candidate, and goes on to another
Working(w, f, from, to) ==
    /\ worker[w] = At(from, f)
    /\ worker' = [worker EXCEPT ![w] = IF to = "idle" THEN Idle ELSE At(to, f)]
    /\ UNCHANGED <<ordered, products, upload, faults>>

Inspect(w, f) ==
    /\ Working(w, f, "inspect", IF MustRetain(f) THEN "restore" ELSE "look")
    /\ UNCHANGED <<place, rows, usedBy, job>>

Restore(w, f) ==
    /\ Working(w, f, "restore", "retain")
    /\ place' = IF place[f] = "quarantine"
                THEN [place EXCEPT ![f] = "stored"] ELSE place
    /\ UNCHANGED <<rows, usedBy, job>>

MarkRetained(w, f) ==
    /\ Working(w, f, "retain", "idle")
    /\ SetStatus(f, {"PENDING", "PROCESSING", "QUARANTINED"}, "RETAINED")
    /\ UNCHANGED <<place, rows, usedBy>>

\* quarantine: the existence checks, then the rename, with an await between
LookForFile(w, f) ==
    /\ Working(w, f, "look", IF place[f] = "stored" THEN "rename" ELSE "detach")
    /\ UNCHANGED <<place, rows, usedBy, job>>

Rename(w, f) ==
    /\ Working(w, f, "rename",
               IF place[f] = "stored" THEN "detach" ELSE "retry")
    /\ place' = IF place[f] = "stored"
                THEN [place EXCEPT ![f] = "quarantine"] ELSE place
    /\ UNCHANGED <<rows, usedBy, job>>

\* Wrong form of Detach: the job is completed before the file is purged.
DetachCompleting(w, f) ==
    /\ Working(w, f, "detach", "purge")
    /\ usedBy' = Released({f})
    /\ rows' = rows \ {f}
    /\ SetStatus(f, {"PROCESSING"}, "COMPLETED")
    /\ UNCHANGED place

Detach(w, f) ==
    /\ Working(w, f, "detach", IF MustRetain(f) THEN "restore" ELSE "purge")
    /\ IF MustRetain(f)
       THEN UNCHANGED <<rows, usedBy, job>>
       ELSE /\ usedBy' = Released({f})
            /\ rows' = rows \ {f}
            /\ SetStatus(f, {"PROCESSING"}, "QUARANTINED")
    /\ UNCHANGED place

Purge(w, f) ==
    /\ Working(w, f, "purge", "complete")
    /\ place' = IF place[f] = "quarantine"
                THEN [place EXCEPT ![f] = "nowhere"] ELSE place
    /\ UNCHANGED <<rows, usedBy, job>>

MarkCompleted(w, f) ==
    /\ Working(w, f, "complete", "idle")
    /\ SetStatus(f, {"PROCESSING", "QUARANTINED"}, "COMPLETED")
    /\ UNCHANGED <<place, rows, usedBy>>

Retry(w, f) ==
    /\ Working(w, f, "retry", "idle")
    /\ SetStatus(f, {"PROCESSING", "QUARANTINED"}, "PENDING")
    /\ UNCHANGED <<place, rows, usedBy>>

Advance(w, f) ==
    \/ Inspect(w, f) \/ Restore(w, f) \/ MarkRetained(w, f)
    \/ LookForFile(w, f) \/ Rename(w, f) \/ Detach(w, f)
    \/ Purge(w, f) \/ MarkCompleted(w, f) \/ Retry(w, f)

Fault == faults < MaxFaults /\ faults' = faults + 1

\* a disk or database error in any step of the candidate
Fail(w, f) ==
    /\ Fault
    /\ worker[w].at \in CleanupSteps
    /\ worker[w].file = f
    /\ worker' = [worker EXCEPT ![w] = At("retry", f)]
    /\ UNCHANGED <<place, rows, usedBy, ordered, products, upload, job>>

\* the server takes the uploads it was serving with it
CrashServer ==
    /\ Fault
    /\ worker' = [worker EXCEPT ![Server] = Idle]
    /\ upload' = [f \in Files |->
                    IF upload[f] \in {"new", "ended"} THEN upload[f] ELSE "lost"]
    /\ UNCHANGED <<place, rows, usedBy, ordered, products, job>>

CrashCli ==
    /\ worker[Cli] # Idle
    /\ Fault
    /\ worker' = [worker EXCEPT ![Cli] = Idle]
    /\ UNCHANGED <<place, rows, usedBy, ordered, products, upload, job>>

MediaNext ==
    \/ \E f \in Files :
          \/ WriteFile(f) \/ CreateRow(f) \/ RowFails(f)
          \/ AddProductImage(f) \/ SetNewsCover(f)
          \/ RejectImage(f) \/ RejectCover(f)
          \/ DiscardFile(f) \/ DiscardRow(f)
          \/ RetireProductImage(f) \/ RetireListingImage(f) \/ PlaceOrder(f)
          \/ Elapse(f)
          \/ \E w \in Workers : Claim(w, f) \/ Advance(w, f) \/ Fail(w, f)
    \/ ClearNewsCover \/ DeleteNews
    \/ \E p \in {"product", "listing"} : DeleteProduct(p)
    \/ DeleteListing
    \/ CrashServer \/ CrashCli

MediaSpec == MediaInit /\ [][MediaNext]_mediaVars

\* time passes, the server's job runs every five minutes, and a run that was
\* not cut short goes on; the command need never be run
FairMediaSpec ==
    /\ MediaSpec
    /\ \A f \in Files :
          /\ WF_mediaVars(Elapse(f))
          /\ WF_mediaVars(Claim(Server, f))
          /\ \A w \in Workers : WF_mediaVars(Advance(w, f))

\* The public URL of the file answers with it.
Served(f) == f \in rows /\ place[f] = "stored"

-----------------------------------------------------------------------------
MediaTypeOK ==
    /\ place \in [Files -> {"nowhere", "stored", "quarantine"}]
    /\ rows \subseteq Files
    /\ usedBy \in [Files -> {"nothing", "image", "retired", "cover"}]
    /\ ordered \subseteq Files
    /\ products \subseteq {"product", "listing"}
    /\ upload \in [Files -> {"new", "written", "saved", "rejected", "unlinked",
                             "ended", "lost"}]
    /\ job \in [Files -> [status : {"NONE", "PENDING", "PROCESSING",
                                    "QUARANTINED", "RETAINED", "COMPLETED"},
                          elapsed : BOOLEAN]]
    /\ worker \in [Workers ->
                     {Idle} \cup [at : CleanupSteps \cup {"retry"}, file : Files]]
    /\ faults \in 0..MaxFaults

(***************************************************************************)
(* A file that a product shows, that is a cover, or that an order's        *)
(* snapshot names is in its place with its row at every moment: the        *)
(* cleanup does not even move it aside, whatever was retired, deleted or   *)
(* ordered while the runs were under way.                                  *)
(***************************************************************************)
ReferencedFilesInPlace ==
    \A f \in Files :
        f \in ordered \/ usedBy[f] \in {"image", "cover"} => Served(f)

(***************************************************************************)
(* A finished job tells the truth: COMPLETED means that the file, its row  *)
(* and its image are gone, RETAINED that the file is back in its place,    *)
(* with two runs on the same job, retries and crashes between the steps.   *)
(***************************************************************************)
FinishedJobsTrue ==
    \A f \in Files :
        /\ job[f].status = "COMPLETED" =>
              place[f] = "nowhere" /\ f \notin rows /\ usedBy[f] = "nothing"
        /\ job[f].status = "RETAINED" => Served(f)

(***************************************************************************)
(* No file is forgotten: one that the shop no longer shows has a cleanup   *)
(* job.  The exceptions are the code's: what an affiliate removes from a   *)
(* listing is never queued, and a crash loses the upload it interrupts.    *)
(***************************************************************************)
UnusedFilesQueued ==
    \A f \in Files \ ListingFiles :
        f \in rows /\ upload[f] = "ended" /\ usedBy[f] \notin {"image", "cover"}
            => job[f].status # "NONE"

(***************************************************************************)
(* README.md:58 says that retiring an image creates a persistent job.  The *)
(* affiliate's own DELETE of an image only marks it retired.               *)
(***************************************************************************)
RetiredImagesQueued ==
    \A f \in Files : usedBy[f] = "retired" => job[f].status # "NONE"

(***************************************************************************)
(* Every cleanup ends: a queued job is at last completed or retained, in   *)
(* spite of failed steps and of crashes that leave a claim behind.         *)
(***************************************************************************)
CleanupEnds ==
    \A f \in Files :
        job[f].status = "PENDING" ~> job[f].status \in {"RETAINED", "COMPLETED"}
=============================================================================
