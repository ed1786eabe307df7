---------------------------- MODULE MediaProofs -----------------------------
(***************************************************************************)
(* Proofs about the images, for any set of files, two cleanup runs side by *)
(* side and any number of faults.                                          *)
(*                                                                         *)
(* The properties are not inductive: the cleanup looks at a file before it *)
(* moves it, and the file must not come into use in between.  FileInv says *)
(* why it does not: a file in use has no job, so no run is on it; one that *)
(* is queued can never be ordered any more; and each stage of a run keeps  *)
(* what the stages before it found or did.                                 *)
(***************************************************************************)
EXTENDS Media, TLAPS

InUse(f) == usedBy[f] \in {"image", "cover"}
Gone(f) == place[f] = "nowhere" /\ f \notin rows /\ usedBy[f] = "nothing"

\* Run w has file f at one of some stages.
On(w, f, stages) == worker[w].at \in stages /\ worker[w].file = f

\* Nothing points at a file before its upload ended.
UploadInv(f) ==
    /\ upload[f] # "ended" =>
           usedBy[f] = "nothing" /\ f \notin ordered /\ job[f].status = "NONE"
    /\ upload[f] = "new" => place[f] = "nowhere" /\ f \notin rows
    /\ upload[f] = "written" => place[f] = "stored" /\ f \notin rows
    /\ upload[f] \in {"saved", "rejected"} => Served(f)

UseInv(f) ==
    /\ InUse(f) \/ f \in ordered => Served(f)
    /\ InUse(f) => job[f].status = "NONE"
    /\ job[f].status = "COMPLETED" => Gone(f)
    /\ job[f].status = "RETAINED" => f \in ordered
    /\ f \notin ListingFiles /\ f \in rows /\ upload[f] = "ended" /\ ~InUse(f) =>
           job[f].status # "NONE"

\* What run w knows of file f at the stage it is at.
RunInv(w, f) ==
    /\ On(w, f, CleanupSteps \cup {"retry"}) => job[f].status # "NONE"
    /\ On(w, f, {"restore", "retain"}) => f \in ordered
    /\ On(w, f, {"look", "rename", "detach", "purge", "complete"}) => f \notin ordered
    /\ On(w, f, {"detach", "purge", "complete"}) => place[f] # "stored"
    /\ On(w, f, {"purge", "complete"}) => f \notin rows /\ usedBy[f] = "nothing"
    /\ On(w, f, {"complete"}) => place[f] = "nowhere"

FileInv(f) == UploadInv(f) /\ UseInv(f) /\ \A w \in Workers : RunInv(w, f)

MediaInv == MediaTypeOK /\ \A f \in Files : FileInv(f)

-----------------------------------------------------------------------------
(* The types.                                                               *)

LEMMA WorkingType ==
    ASSUME MediaTypeOK, NEW w \in Workers, NEW f \in Files, NEW from,
           NEW to \in CleanupSteps \cup {"retry", "idle"}, Working(w, f, from, to)
    PROVE  /\ worker' \in [Workers -> {Idle} \cup [at : CleanupSteps \cup {"retry"}, file : Files]]
           /\ UNCHANGED <<ordered, products, upload, faults>>
BY DEF Working, MediaTypeOK, At

LEMMA StatusType ==
    ASSUME MediaTypeOK, NEW f \in Files, NEW from,
           NEW to \in {"PENDING", "QUARANTINED", "RETAINED", "COMPLETED"}, SetStatus(f, from, to)
    PROVE  job' \in [Files -> [status : {"NONE", "PENDING", "PROCESSING", "QUARANTINED",
                                         "RETAINED", "COMPLETED"},
                               elapsed : BOOLEAN]]
BY DEF SetStatus, MediaTypeOK

LEMMA PlaceType ==
    ASSUME MediaTypeOK, NEW f \in Files
    PROVE  /\ \A to \in {"nowhere", "stored", "quarantine"} :
                 [place EXCEPT ![f] = to] \in [Files -> {"nowhere", "stored", "quarantine"}]
           /\ Released({f}) \in [Files -> {"nothing", "image", "retired", "cover"}]
BY DEF MediaTypeOK, Released

LEMMA AdvanceType ==
    ASSUME MediaTypeOK, NEW w \in Workers, NEW f \in Files, Advance(w, f)
    PROVE  MediaTypeOK'
<1>1. /\ worker' \in [Workers -> {Idle} \cup [at : CleanupSteps \cup {"retry"}, file : Files]]
      /\ UNCHANGED <<ordered, products, upload, faults>>
  BY WorkingType DEF Advance, Inspect, Restore, MarkRetained, LookForFile, Rename, Detach, Purge,
                     MarkCompleted, Retry, CleanupSteps
<1>2. /\ place' \in [Files -> {"nowhere", "stored", "quarantine"}]
      /\ usedBy' \in [Files -> {"nothing", "image", "retired", "cover"}]
      /\ rows' \subseteq Files
  BY PlaceType DEF Advance, Inspect, Restore, MarkRetained, LookForFile, Rename, Detach, Purge,
                   MarkCompleted, Retry, MediaTypeOK
<1>3. job' = job \/ \E from, to : SetStatus(f, from, to)
                       /\ to \in {"PENDING", "QUARANTINED", "RETAINED", "COMPLETED"}
  BY DEF Advance, Inspect, Restore, MarkRetained, LookForFile, Rename, Detach, Purge,
         MarkCompleted, Retry
<1> QED
  BY <1>1, <1>2, <1>3, StatusType DEF MediaTypeOK

LEMMA RequestType ==
    ASSUME MediaTypeOK, NEW f \in Files,
           \/ WriteFile(f) \/ CreateRow(f) \/ RowFails(f) \/ AddProductImage(f) \/ Rejected(f)
           \/ DiscardFile(f) \/ DiscardRow(f)
    PROVE  MediaTypeOK'
<1>1. /\ UNCHANGED <<products, worker, faults, ordered, job>>
      /\ \E to \in {"written", "saved", "rejected", "unlinked", "ended"} :
            upload' = [upload EXCEPT ![f] = to]
  BY DEF WriteFile, CreateRow, RowFails, AddProductImage, Rejected, DiscardFile, DiscardRow,
         Uploading
<1>2. upload' \in [Files -> {"new", "written", "saved", "rejected", "unlinked", "ended", "lost"}]
  BY <1>1 DEF MediaTypeOK
<1>3. /\ place' \in [Files -> {"nowhere", "stored", "quarantine"}]
      /\ usedBy' \in [Files -> {"nothing", "image", "retired", "cover"}]
      /\ rows' \subseteq Files
  BY DEF WriteFile, CreateRow, RowFails, AddProductImage, Rejected, DiscardFile, DiscardRow,
         MediaTypeOK
<1> QED
  BY <1>1, <1>2, <1>3 DEF MediaTypeOK

LEMMA UseType ==
    ASSUME MediaTypeOK,
           \/ \E f \in Files : \/ SetNewsCover(f) \/ RetireProductImage(f) \/ RetireListingImage(f)
                               \/ PlaceOrder(f) \/ Elapse(f)
           \/ Uncover
           \/ \E p \in {"product", "listing"} : DeleteProduct(p)
           \/ DeleteListing
    PROVE  MediaTypeOK'
<1> DEFINE Uses == [Files -> {"nothing", "image", "retired", "cover"}]
           Jobs == [Files -> [status : {"NONE", "PENDING", "PROCESSING", "QUARANTINED",
                                        "RETAINED", "COMPLETED"}, elapsed : BOOLEAN]]
<1>1. \A files : Released(files) \in Uses /\ Scheduled(files) \in Jobs
  BY DEF Released, Scheduled, Queued, MediaTypeOK
<1>2. UNCHANGED <<place, rows, worker, faults>>
  BY DEF SetNewsCover, RetireProductImage, RetireListingImage, PlaceOrder, Elapse, Uncover,
         DeleteProduct, DeleteListing, Uploading
<1>3. usedBy' \in Uses
  <2>1. \A f \in Files : [Released(Pointed("cover")) EXCEPT ![f] = "cover"] \in Uses
    BY <1>1
  <2>2. \A f \in Files : [usedBy EXCEPT ![f] = "retired"] \in Uses /\ usedBy \in Uses
    BY DEF MediaTypeOK
  <2> HIDE DEF Uses
  <2> QED
    BY <1>1, <2>1, <2>2
    DEF SetNewsCover, RetireProductImage, RetireListingImage, PlaceOrder, Elapse, Uncover,
        DeleteProduct, DeleteListing
<1>4. job' \in Jobs
  <2>1. job \in Jobs /\ \A f \in Files : [job EXCEPT ![f].elapsed = TRUE] \in Jobs
    BY DEF MediaTypeOK
  <2> HIDE DEF Jobs
  <2> QED
    BY <1>1, <2>1
    DEF SetNewsCover, RetireProductImage, RetireListingImage, PlaceOrder, Elapse, Uncover,
        DeleteProduct, DeleteListing
<1>5. /\ ordered' \subseteq Files /\ products' \subseteq {"product", "listing"}
      /\ upload' \in [Files -> {"new", "written", "saved", "rejected", "unlinked", "ended", "lost"}]
  BY DEF SetNewsCover, RetireProductImage, RetireListingImage, PlaceOrder, Elapse, Uncover,
         DeleteProduct, DeleteListing, Uploading, MediaTypeOK
<1> QED
  BY <1>2, <1>3, <1>4, <1>5 DEF MediaTypeOK

LEMMA RunType ==
    ASSUME MediaTypeOK,
           \/ \E w \in Workers, f \in Files : Claim(w, f) \/ Fail(w, f)
           \/ CrashServer \/ CrashCli
    PROVE  MediaTypeOK'
<1>1. /\ UNCHANGED <<place, rows, usedBy, ordered, products>>
      /\ faults' \in 0..MaxFaults
  BY MediaAssumption DEF Claim, Fail, CrashServer, CrashCli, Fault, MediaTypeOK
<1>2. worker' \in [Workers -> {Idle} \cup [at : CleanupSteps \cup {"retry"}, file : Files]]
  BY DEF Claim, Fail, CrashServer, CrashCli, MediaTypeOK, At, CleanupSteps
<1> DEFINE Jobs == [Files -> [status : {"NONE", "PENDING", "PROCESSING", "QUARANTINED",
                                        "RETAINED", "COMPLETED"}, elapsed : BOOLEAN]]
<1>3. job' \in Jobs
  <2>1. job \in Jobs
    BY DEF MediaTypeOK
  <2>2. ASSUME NEW f \in Files
        PROVE  [job EXCEPT ![f] = [status |-> "PROCESSING", elapsed |-> FALSE]] \in Jobs
    BY <2>1
  <2>3. \/ job' = job
        \/ \E f \in Files : job' = [job EXCEPT ![f] = [status |-> "PROCESSING", elapsed |-> FALSE]]
    BY DEF Claim, Fail, CrashServer, CrashCli
  <2> HIDE DEF Jobs
  <2> QED
    BY <2>1, <2>2, <2>3
<1>4. upload' \in [Files -> {"new", "written", "saved", "rejected", "unlinked", "ended", "lost"}]
  BY DEF Claim, Fail, CrashServer, CrashCli, MediaTypeOK
<1> QED
  BY <1>1, <1>2, <1>3, <1>4 DEF MediaTypeOK

LEMMA MediaTypes == MediaTypeOK /\ [MediaNext]_mediaVars => MediaTypeOK'
<1> SUFFICES ASSUME MediaTypeOK, [MediaNext]_mediaVars PROVE MediaTypeOK'
  OBVIOUS
<1>1. CASE UNCHANGED mediaVars
  BY <1>1 DEF mediaVars, MediaTypeOK
<1> QED
  BY <1>1, AdvanceType, RequestType, UseType, RunType
  DEF MediaNext, RejectImage, RejectCover, ClearNewsCover, DeleteNews

-----------------------------------------------------------------------------
(* What a step leaves alone.                                                *)

Stages == CleanupSteps \cup {"retry"}

\* Nothing that concerns file f changes, but for where a run may be.
Untouched(f) ==
    /\ place'[f] = place[f] /\ usedBy'[f] = usedBy[f] /\ upload'[f] = upload[f]
    /\ job'[f].status = job[f].status
    /\ (f \in rows') <=> (f \in rows)
    /\ (f \in ordered') <=> (f \in ordered)

\* No run comes to file f, or gets on with it.
RunsKept(f) == \A w \in Workers : worker'[w] = worker[w] \/ ~On(w, f, Stages)'

LEMMA UntouchedKept ==
    ASSUME NEW f \in Files, FileInv(f), Untouched(f), RunsKept(f)
    PROVE  FileInv(f)'
<1>1. UploadInv(f)'
  BY DEF FileInv, UploadInv, Untouched, Served
<1>2. UseInv(f)'
  BY DEF FileInv, UseInv, Untouched, Served, InUse, Gone
<1>3. ASSUME NEW w \in Workers PROVE RunInv(w, f)'
  <2>1. RunInv(w, f)
    BY DEF FileInv
  <2> QED
    BY <2>1 DEF RunsKept, RunInv, Untouched, On, Stages, CleanupSteps
<1> QED
  BY <1>1, <1>2, <1>3 DEF FileInv

\* A file without a job has no run.
LEMMA NoRun ==
    ASSUME NEW f \in Files, FileInv(f), job[f].status = "NONE", NEW w \in Workers
    PROVE  ~On(w, f, Stages)
BY DEF FileInv, RunInv, Stages

LEMMA NoRunsKept ==
    ASSUME NEW f \in Files, FileInv(f), job[f].status = "NONE", worker' = worker
    PROVE  \A w \in Workers : RunInv(w, f)'
BY NoRun DEF RunInv, On, Stages, CleanupSteps

-----------------------------------------------------------------------------
(* Uploads.                                                                 *)

LEMMA RequestKeeps ==
    ASSUME MediaInv, NEW f \in Files,
           \/ WriteFile(f) \/ CreateRow(f) \/ RowFails(f) \/ AddProductImage(f) \/ Rejected(f)
           \/ DiscardFile(f) \/ DiscardRow(f)
    PROVE  \A g \in Files : FileInv(g)'
<1> USE DEF WriteFile, CreateRow, RowFails, AddProductImage, Rejected, DiscardFile, DiscardRow,
            Uploading
<1>1. ASSUME NEW g \in Files, g # f PROVE FileInv(g)'
  BY <1>1, UntouchedKept DEF MediaInv, MediaTypeOK, Untouched, RunsKept
<1>2. FileInv(f)'
  <2>1. /\ FileInv(f) /\ upload[f] # "ended" /\ worker' = worker /\ job' = job
        /\ usedBy[f] = "nothing" /\ f \notin ordered /\ job[f].status = "NONE"
    BY DEF MediaInv, FileInv, UploadInv
  <2>2. \A w \in Workers : RunInv(w, f)'
    BY <2>1, NoRunsKept
  <2>3. UploadInv(f)' /\ UseInv(f)'
    BY <2>1 DEF MediaInv, MediaTypeOK, FileInv, UploadInv, UseInv, Served, InUse, Gone
  <2> QED
    BY <2>2, <2>3 DEF FileInv
<1> QED
  BY <1>1, <1>2

-----------------------------------------------------------------------------
(* What is done with the images.                                            *)

\* A file that was pointed at no longer is: it is queued, or the listing's.
Withdrawn(f) ==
    /\ usedBy[f] # "nothing" /\ usedBy'[f] \in {"nothing", "retired"}
    /\ job'[f].status = "PENDING" \/ (f \in ListingFiles /\ job'[f].status = job[f].status)
    /\ place'[f] = place[f] /\ upload'[f] = upload[f]
    /\ (f \in rows') <=> (f \in rows)
    /\ (f \in ordered') <=> (f \in ordered)
    /\ worker' = worker

LEMMA WithdrawnKept ==
    ASSUME NEW f \in Files, FileInv(f), Withdrawn(f)
    PROVE  FileInv(f)'
<1>1. upload[f] = "ended"
  BY DEF FileInv, UploadInv, Withdrawn
<1>2. UploadInv(f)'
  BY <1>1 DEF UploadInv, Withdrawn
<1>3. UseInv(f)'
  BY <1>1 DEF FileInv, UseInv, Withdrawn, Served, InUse, Gone
<1>4. ASSUME NEW w \in Workers PROVE RunInv(w, f)'
  <2>1. RunInv(w, f)
    BY DEF FileInv
  <2> QED
    BY <2>1 DEF Withdrawn, RunInv, On, CleanupSteps
<1> QED
  BY <1>2, <1>3, <1>4 DEF FileInv

\* Files that are released and queued together.
LEMMA ReleasedKept ==
    ASSUME MediaInv, NEW files,
           \A f \in files : f \in Files /\ usedBy[f] # "nothing",
           usedBy' = Released(files),
           job' = Scheduled(files) \/ (job' = job /\ files \subseteq ListingFiles),
           UNCHANGED <<place, rows, ordered, upload, worker>>
    PROVE  \A g \in Files : FileInv(g)'
<1> SUFFICES ASSUME NEW g \in Files PROVE FileInv(g)'
  OBVIOUS
<1>1. CASE g \in files
  <2>1. Withdrawn(g)
    BY <1>1 DEF Withdrawn, Released, Scheduled, Queued
  <2> QED
    BY <2>1, WithdrawnKept DEF MediaInv
<1>2. CASE g \notin files
  <2>1. Untouched(g) /\ RunsKept(g)
    BY <1>2 DEF Untouched, RunsKept, Released, Scheduled
  <2> QED
    BY <2>1, UntouchedKept DEF MediaInv
<1> QED
  BY <1>1, <1>2

LEMMA UseKeeps ==
    ASSUME MediaInv,
           \/ \E f \in Files : \/ SetNewsCover(f) \/ RetireProductImage(f) \/ RetireListingImage(f)
                               \/ PlaceOrder(f) \/ Elapse(f)
           \/ Uncover
           \/ \E p \in {"product", "listing"} : DeleteProduct(p)
           \/ DeleteListing
    PROVE  \A g \in Files : FileInv(g)'
<1>1. ASSUME NEW f \in Files, SetNewsCover(f) PROVE \A g \in Files : FileInv(g)'
  <2>1. /\ upload[f] = "saved" /\ FileInv(f)
        /\ UNCHANGED <<place, rows, ordered, worker>>
        /\ upload' = [upload EXCEPT ![f] = "ended"]
    BY <1>1 DEF SetNewsCover, Uploading, MediaInv
  <2>2. /\ usedBy[f] = "nothing" /\ job[f].status = "NONE" /\ Served(f)
    BY <2>1 DEF FileInv, UploadInv
  <2>3. FileInv(f)'
    <3>1. usedBy'[f] = "cover" /\ job'[f].status = "NONE" /\ Served(f)'
      BY <1>1, <2>1, <2>2 DEF SetNewsCover, Released, Scheduled, ReplacedCover, Served
    <3>2. UploadInv(f)' /\ UseInv(f)'
      BY <2>1, <3>1 DEF UploadInv, UseInv, InUse, MediaInv, MediaTypeOK
    <3> QED
      BY <2>1, <2>2, <3>2, NoRunsKept DEF FileInv
  <2>4. ASSUME NEW g \in Files, g # f PROVE FileInv(g)'
    <3>1. upload'[g] = upload[g]
      BY <2>1, <2>4 DEF MediaInv, MediaTypeOK
    <3>2. CASE usedBy[g] = "cover"
      <4>1. Withdrawn(g)
        BY <1>1, <2>1, <2>4, <3>1, <3>2
        DEF SetNewsCover, Withdrawn, Released, Scheduled, ReplacedCover, Pointed, Queued
      <4> QED
        BY <4>1, WithdrawnKept DEF MediaInv
    <3>3. CASE usedBy[g] # "cover"
      <4>1. Untouched(g) /\ RunsKept(g)
        BY <1>1, <2>1, <2>4, <3>1, <3>3
        DEF SetNewsCover, Untouched, RunsKept, Released, Scheduled, ReplacedCover, Pointed
      <4> QED
        BY <4>1, UntouchedKept DEF MediaInv
    <3> QED
      BY <3>2, <3>3
  <2> QED
    BY <2>3, <2>4
<1>2. ASSUME NEW f \in Files, RetireProductImage(f) \/ RetireListingImage(f)
      PROVE  \A g \in Files : FileInv(g)'
  <2>1. Withdrawn(f)
    BY <1>2 DEF RetireProductImage, RetireListingImage, Withdrawn, Scheduled, Queued, MediaInv,
                MediaTypeOK
  <2>2. ASSUME NEW g \in Files, g # f PROVE Untouched(g) /\ RunsKept(g)
    BY <1>2, <2>2 DEF RetireProductImage, RetireListingImage, Untouched, RunsKept, Scheduled,
                      MediaInv, MediaTypeOK
  <2> QED
    BY <2>1, <2>2, WithdrawnKept, UntouchedKept DEF MediaInv
<1>3. ASSUME NEW f \in Files, PlaceOrder(f) PROVE \A g \in Files : FileInv(g)'
  <2>1. FileInv(f) /\ usedBy[f] = "image" /\ worker' = worker
    BY <1>3 DEF PlaceOrder, MediaInv
  <2>2. job[f].status = "NONE" /\ upload[f] = "ended" /\ Served(f)
    BY <2>1 DEF FileInv, UseInv, UploadInv, InUse
  <2>3. UploadInv(f)' /\ UseInv(f)'
    BY <1>3, <2>1, <2>2 DEF PlaceOrder, UploadInv, UseInv, InUse, Served, FileInv
  <2>4. FileInv(f)'
    BY <2>1, <2>2, <2>3, NoRunsKept DEF FileInv
  <2>5. ASSUME NEW g \in Files, g # f PROVE Untouched(g) /\ RunsKept(g)
    BY <1>3, <2>5 DEF PlaceOrder, Untouched, RunsKept
  <2> QED
    BY <2>4, <2>5, UntouchedKept DEF MediaInv
<1>4. ASSUME NEW f \in Files, Elapse(f) PROVE \A g \in Files : FileInv(g)'
  <2>1. ASSUME NEW g \in Files PROVE Untouched(g) /\ RunsKept(g)
    BY <1>4 DEF Elapse, Untouched, RunsKept, MediaInv, MediaTypeOK
  <2> QED
    BY <2>1, UntouchedKept DEF MediaInv
<1>5. CASE Uncover
  <2>1. \A f \in Pointed("cover") : f \in Files /\ usedBy[f] # "nothing"
    BY DEF Pointed
  <2> QED
    BY <1>5, <2>1, ReleasedKept DEF Uncover
<1>6. ASSUME NEW p \in {"product", "listing"}, DeleteProduct(p)
      PROVE  \A g \in Files : FileInv(g)'
  <2>1. \A f \in Images(p) : f \in Files /\ usedBy[f] # "nothing"
    BY DEF Images, Pointed
  <2> QED
    BY <1>6, <2>1, ReleasedKept DEF DeleteProduct
<1>7. CASE DeleteListing
  <2>1. \A f \in Images("listing") : f \in Files /\ usedBy[f] # "nothing"
    BY DEF Images, Pointed
  <2>2. Images("listing") \subseteq ListingFiles
    BY DEF Images, Product
  <2> QED
    BY <1>7, <2>1, <2>2, ReleasedKept DEF DeleteListing
<1> QED
  BY <1>1, <1>2, <1>3, <1>4, <1>5, <1>6, <1>7

-----------------------------------------------------------------------------
(* The cleanup runs.                                                        *)

\* A file with a job is not in use, and its upload is over.
LEMMA WithJob ==
    ASSUME NEW f \in Files, FileInv(f), job[f].status # "NONE"
    PROVE  upload[f] = "ended" /\ ~InUse(f)
BY DEF FileInv, UploadInv, UseInv

\* Run w gets on with file f: whatever the others may have found stays so.
Advanced(w, f) ==
    /\ \A v \in Workers \ {w} : worker'[v] = worker[v]
    /\ upload'[f] = upload[f] /\ ((f \in ordered') <=> (f \in ordered))
    /\ job'[f].status # "NONE"
    /\ place[f] # "stored" => place'[f] # "stored"
    /\ place[f] = "nowhere" => place'[f] = "nowhere"
    /\ (f \in rows') => (f \in rows)
    /\ usedBy[f] = "nothing" => usedBy'[f] = "nothing"
    /\ f \in ordered => place'[f] = place[f] /\ ((f \in rows') <=> (f \in rows))
    /\ usedBy'[f] \in {usedBy[f], "nothing"}

LEMMA AdvancedKept ==
    ASSUME NEW f \in Files, FileInv(f), job[f].status # "NONE", NEW w \in Workers,
           Advanced(w, f), RunInv(w, f)',
           job'[f].status = "COMPLETED" => Gone(f)',
           job'[f].status = "RETAINED" => f \in ordered'
    PROVE  FileInv(f)'
<1>1. upload[f] = "ended" /\ ~InUse(f)
  BY WithJob
<1>2. UploadInv(f)'
  BY <1>1 DEF UploadInv, Advanced
<1>3. UseInv(f)'
  BY <1>1 DEF FileInv, UseInv, Advanced, InUse, Served
<1>4. ASSUME NEW v \in Workers \ {w} PROVE RunInv(v, f)'
  <2>1. RunInv(v, f)
    BY DEF FileInv
  <2> QED
    BY <2>1 DEF Advanced, RunInv, On
<1> QED
  BY <1>2, <1>3, <1>4 DEF FileInv

\* A run that moves from one stage of file f to another.
LEMMA WorkingFacts ==
    ASSUME MediaInv, NEW w \in Workers, NEW f \in Files, NEW from \in Stages,
           NEW to \in Stages \cup {"idle"}, Working(w, f, from, to)
    PROVE  /\ On(w, f, {from}) /\ RunInv(w, f) /\ FileInv(f) /\ job[f].status # "NONE"
           /\ \A v \in Workers \ {w} : worker'[v] = worker[v]
           /\ worker'[w].at = to
           /\ to # "idle" => worker'[w].file = f
           /\ UNCHANGED <<ordered, upload>>
<1>1. /\ worker[w].at = from /\ worker[w].file = f
      /\ \A v \in Workers \ {w} : worker'[v] = worker[v]
      /\ worker'[w].at = to
      /\ to # "idle" => worker'[w].file = f
      /\ UNCHANGED <<ordered, upload>>
  BY DEF Working, At, Idle, MediaInv, MediaTypeOK
<1>2. RunInv(w, f) /\ FileInv(f)
  BY DEF MediaInv, FileInv
<1> QED
  BY <1>1, <1>2 DEF RunInv, On, Stages

LEMMA StatusFacts ==
    ASSUME MediaTypeOK, NEW f \in Files, NEW from, NEW to, SetStatus(f, from, to)
    PROVE  /\ \A g \in Files \ {f} : job'[g] = job[g]
           /\ job[f].status \in from => job'[f].status = to
           /\ job[f].status \notin from => job'[f].status = job[f].status
BY DEF SetStatus, MediaTypeOK

\* The files the run is not about.
LEMMA OthersKept ==
    ASSUME MediaInv, NEW w \in Workers, NEW f \in Files,
           NEW g \in Files, g # f,
           \A v \in Workers \ {w} : worker'[v] = worker[v],
           worker'[w].at = "idle" \/ worker'[w].file = f,
           place'[g] = place[g], usedBy'[g] = usedBy[g], upload'[g] = upload[g],
           job'[g].status = job[g].status, (g \in rows') <=> (g \in rows),
           ordered' = ordered
    PROVE  FileInv(g)'
<1>1. Untouched(g) /\ RunsKept(g)
  BY DEF Untouched, RunsKept, On, Stages, CleanupSteps
<1> QED
  BY <1>1, UntouchedKept DEF MediaInv

\* Each stage, for the file it is about and for the others.
LEMMA InspectKeeps ==
    ASSUME MediaInv, NEW w \in Workers, NEW f \in Files, Inspect(w, f)
    PROVE  \A g \in Files : FileInv(g)'
<1> DEFINE to == IF MustRetain(f) THEN "restore" ELSE "look"
<1>1. Working(w, f, "inspect", to) /\ to \in Stages \cup {"idle"} /\ to # "idle"
  BY DEF Inspect, Stages, CleanupSteps
<1>2. UNCHANGED <<place, rows, usedBy, job>>
  BY DEF Inspect
<1>3. to = IF f \in ordered THEN "restore" ELSE "look"
  BY <1>1, WorkingFacts, WithJob DEF MustRetain, InUse, Stages, CleanupSteps
<1> HIDE DEF to
<1>4. /\ RunInv(w, f) /\ FileInv(f) /\ job[f].status # "NONE"
      /\ \A v \in Workers \ {w} : worker'[v] = worker[v]
      /\ worker'[w].at = to /\ worker'[w].file = f
      /\ UNCHANGED <<ordered, upload>>
  BY <1>1, WorkingFacts DEF Stages, CleanupSteps
<1>5. Advanced(w, f)
  BY <1>2, <1>4 DEF Advanced
<1>6. RunInv(w, f)'
  BY <1>2, <1>3, <1>4 DEF RunInv, On, CleanupSteps
<1>7. FileInv(f)'
  BY <1>2, <1>4, <1>5, <1>6, AdvancedKept DEF FileInv, UseInv, Gone
<1> QED
  BY <1>2, <1>4, <1>7, OthersKept

LEMMA RestoreKeeps ==
    ASSUME MediaInv, NEW w \in Workers, NEW f \in Files, Restore(w, f)
    PROVE  \A g \in Files : FileInv(g)'
<1>1. Working(w, f, "restore", "retain")
  BY DEF Restore
<1>2. /\ On(w, f, {"restore"}) /\ RunInv(w, f) /\ FileInv(f) /\ job[f].status # "NONE"
      /\ \A v \in Workers \ {w} : worker'[v] = worker[v]
      /\ worker'[w].at = "retain" /\ worker'[w].file = f
      /\ UNCHANGED <<ordered, upload>>
  BY <1>1, WorkingFacts DEF Stages, CleanupSteps
<1>3. f \in ordered /\ Served(f)
  BY <1>2 DEF RunInv, On, FileInv, UseInv
<1>4. UNCHANGED <<place, rows, usedBy, job>>
  BY <1>3 DEF Restore, Served
<1>5. Advanced(w, f) /\ RunInv(w, f)'
  BY <1>2, <1>3, <1>4 DEF Advanced, RunInv, On, CleanupSteps
<1>6. FileInv(f)'
  BY <1>2, <1>4, <1>5, AdvancedKept DEF FileInv, UseInv, Gone
<1> QED
  BY <1>2, <1>4, <1>6, OthersKept

LEMMA MarkRetainedKeeps ==
    ASSUME MediaInv, NEW w \in Workers, NEW f \in Files, MarkRetained(w, f)
    PROVE  \A g \in Files : FileInv(g)'
<1>1. /\ Working(w, f, "retain", "idle") /\ UNCHANGED <<place, rows, usedBy>>
      /\ SetStatus(f, {"PENDING", "PROCESSING", "QUARANTINED"}, "RETAINED")
  BY DEF MarkRetained
<1>2. /\ On(w, f, {"retain"}) /\ RunInv(w, f) /\ FileInv(f) /\ job[f].status # "NONE"
      /\ \A v \in Workers \ {w} : worker'[v] = worker[v]
      /\ worker'[w].at = "idle"
      /\ UNCHANGED <<ordered, upload>>
  BY <1>1, WorkingFacts DEF Stages, CleanupSteps
<1>3. /\ \A g \in Files \ {f} : job'[g] = job[g]
      /\ job'[f].status \in {"RETAINED", job[f].status}
  BY <1>1, StatusFacts DEF MediaInv
<1>4. f \in ordered
  BY <1>2 DEF RunInv, On
<1>5. Advanced(w, f) /\ RunInv(w, f)'
  BY <1>1, <1>2, <1>3, <1>4 DEF Advanced, RunInv, On, CleanupSteps
<1>6. FileInv(f)'
  BY <1>1, <1>2, <1>3, <1>4, <1>5, AdvancedKept DEF FileInv, UseInv, Gone
<1> QED
  BY <1>1, <1>2, <1>3, <1>6, OthersKept

LEMMA LookKeeps ==
    ASSUME MediaInv, NEW w \in Workers, NEW f \in Files, LookForFile(w, f)
    PROVE  \A g \in Files : FileInv(g)'
<1> DEFINE to == IF place[f] = "stored" THEN "rename" ELSE "detach"
<1>1. /\ Working(w, f, "look", to) /\ to \in Stages \cup {"idle"} /\ to # "idle"
      /\ UNCHANGED <<place, rows, usedBy, job>>
  BY DEF LookForFile, Stages, CleanupSteps
<1>2. to = "rename" \/ (to = "detach" /\ place[f] # "stored")
  OBVIOUS
<1> HIDE DEF to
<1>3. /\ On(w, f, {"look"}) /\ RunInv(w, f) /\ FileInv(f) /\ job[f].status # "NONE"
      /\ \A v \in Workers \ {w} : worker'[v] = worker[v]
      /\ worker'[w].at = to /\ worker'[w].file = f
      /\ UNCHANGED <<ordered, upload>>
  BY <1>1, WorkingFacts DEF Stages, CleanupSteps
<1>4. f \notin ordered
  BY <1>3 DEF RunInv, On
<1>5. Advanced(w, f) /\ RunInv(w, f)'
  BY <1>1, <1>2, <1>3, <1>4 DEF Advanced, RunInv, On, CleanupSteps
<1>6. FileInv(f)'
  BY <1>1, <1>3, <1>5, AdvancedKept DEF FileInv, UseInv, Gone
<1> QED
  BY <1>1, <1>3, <1>6, OthersKept

LEMMA RenameKeeps ==
    ASSUME MediaInv, NEW w \in Workers, NEW f \in Files, Rename(w, f)
    PROVE  \A g \in Files : FileInv(g)'
<1> DEFINE to == IF place[f] = "stored" THEN "detach" ELSE "retry"
<1>1. /\ Working(w, f, "rename", to) /\ to \in Stages \cup {"idle"} /\ to # "idle"
      /\ UNCHANGED <<rows, usedBy, job>>
  BY DEF Rename, Stages, CleanupSteps
<1>2. /\ \A g \in Files \ {f} : place'[g] = place[g]
      /\ place'[f] # "stored"
      /\ place[f] = "nowhere" => place'[f] = "nowhere"
      /\ to \in {"detach", "retry"}
  BY DEF Rename, MediaInv, MediaTypeOK
<1> HIDE DEF to
<1>3. /\ On(w, f, {"rename"}) /\ RunInv(w, f) /\ FileInv(f) /\ job[f].status # "NONE"
      /\ \A v \in Workers \ {w} : worker'[v] = worker[v]
      /\ worker'[w].at = to /\ worker'[w].file = f
      /\ UNCHANGED <<ordered, upload>>
  BY <1>1, WorkingFacts DEF Stages, CleanupSteps
<1>4. f \notin ordered
  BY <1>3 DEF RunInv, On
<1>5. Advanced(w, f) /\ RunInv(w, f)'
  BY <1>1, <1>2, <1>3, <1>4 DEF Advanced, RunInv, On, CleanupSteps
<1>6. FileInv(f)'
  BY <1>1, <1>2, <1>3, <1>5, AdvancedKept DEF FileInv, UseInv, Gone
<1> QED
  BY <1>1, <1>2, <1>3, <1>6, OthersKept

LEMMA DetachKeeps ==
    ASSUME MediaInv, NEW w \in Workers, NEW f \in Files, Detach(w, f)
    PROVE  \A g \in Files : FileInv(g)'
<1> DEFINE to == IF MustRetain(f) THEN "restore" ELSE "purge"
<1>1. Working(w, f, "detach", to) /\ to \in Stages \cup {"idle"}
  BY DEF Detach, Stages, CleanupSteps
<1> HIDE DEF to
<1>2. /\ On(w, f, {"detach"}) /\ RunInv(w, f) /\ FileInv(f) /\ job[f].status # "NONE"
      /\ \A v \in Workers \ {w} : worker'[v] = worker[v]
      /\ worker'[w].at = to /\ (to # "idle" => worker'[w].file = f)
      /\ UNCHANGED <<ordered, upload>>
  BY <1>1, WorkingFacts DEF Stages, CleanupSteps
<1>3. f \notin ordered /\ place[f] # "stored" /\ usedBy[f] # "image"
  BY <1>2, WithJob DEF RunInv, On, InUse
<1>4. /\ to = "purge" /\ usedBy' = Released({f}) /\ rows' = rows \ {f}
      /\ SetStatus(f, {"PROCESSING"}, "QUARANTINED") /\ UNCHANGED place
  BY <1>3 DEF Detach, MustRetain, to
<1>5. /\ \A g \in Files \ {f} : job'[g] = job[g]
      /\ job'[f].status \in {"QUARANTINED", job[f].status}
  BY <1>4, StatusFacts DEF MediaInv
<1>6. usedBy'[f] = "nothing" /\ \A g \in Files \ {f} : usedBy'[g] = usedBy[g]
  BY <1>4 DEF Released
<1>7. Advanced(w, f) /\ RunInv(w, f)'
  BY <1>2, <1>3, <1>4, <1>5, <1>6 DEF Advanced, RunInv, On, CleanupSteps
<1>8. FileInv(f)'
  BY <1>2, <1>4, <1>5, <1>6, <1>7, AdvancedKept DEF FileInv, UseInv, Gone
<1> QED
  BY <1>2, <1>4, <1>5, <1>6, <1>8, OthersKept

LEMMA PurgeKeeps ==
    ASSUME MediaInv, NEW w \in Workers, NEW f \in Files, Purge(w, f)
    PROVE  \A g \in Files : FileInv(g)'
<1>1. Working(w, f, "purge", "complete") /\ UNCHANGED <<rows, usedBy, job>>
  BY DEF Purge
<1>2. /\ On(w, f, {"purge"}) /\ RunInv(w, f) /\ FileInv(f) /\ job[f].status # "NONE"
      /\ \A v \in Workers \ {w} : worker'[v] = worker[v]
      /\ worker'[w].at = "complete" /\ worker'[w].file = f
      /\ UNCHANGED <<ordered, upload>>
  BY <1>1, WorkingFacts DEF Stages, CleanupSteps
<1>3. Gone(f)' /\ f \notin ordered
  BY <1>1, <1>2 DEF Purge, Gone, RunInv, On, MediaInv, MediaTypeOK
<1>4. \A g \in Files \ {f} : place'[g] = place[g]
  BY DEF Purge, MediaInv, MediaTypeOK
<1>5. Advanced(w, f) /\ RunInv(w, f)'
  BY <1>1, <1>2, <1>3 DEF Advanced, RunInv, On, CleanupSteps, Gone
<1>6. FileInv(f)'
  BY <1>1, <1>2, <1>3, <1>5, AdvancedKept DEF FileInv, UseInv
<1> QED
  BY <1>1, <1>2, <1>4, <1>6, OthersKept

LEMMA MarkCompletedKeeps ==
    ASSUME MediaInv, NEW w \in Workers, NEW f \in Files, MarkCompleted(w, f)
    PROVE  \A g \in Files : FileInv(g)'
<1>1. /\ Working(w, f, "complete", "idle") /\ UNCHANGED <<place, rows, usedBy>>
      /\ SetStatus(f, {"PROCESSING", "QUARANTINED"}, "COMPLETED")
  BY DEF MarkCompleted
<1>2. /\ On(w, f, {"complete"}) /\ RunInv(w, f) /\ FileInv(f) /\ job[f].status # "NONE"
      /\ \A v \in Workers \ {w} : worker'[v] = worker[v]
      /\ worker'[w].at = "idle"
      /\ UNCHANGED <<ordered, upload>>
  BY <1>1, WorkingFacts DEF Stages, CleanupSteps
<1>3. /\ \A g \in Files \ {f} : job'[g] = job[g]
      /\ job'[f].status \in {"COMPLETED", job[f].status}
  BY <1>1, StatusFacts DEF MediaInv
<1>4. Gone(f)' /\ f \notin ordered
  BY <1>1, <1>2 DEF RunInv, On, Gone
<1>5. Advanced(w, f) /\ RunInv(w, f)'
  BY <1>1, <1>2, <1>3, <1>4 DEF Advanced, RunInv, On, CleanupSteps, Gone
<1>6. FileInv(f)'
  BY <1>1, <1>2, <1>3, <1>4, <1>5, AdvancedKept DEF FileInv, UseInv
<1> QED
  BY <1>1, <1>2, <1>3, <1>6, OthersKept

LEMMA RetryKeeps ==
    ASSUME MediaInv, NEW w \in Workers, NEW f \in Files, Retry(w, f)
    PROVE  \A g \in Files : FileInv(g)'
<1>1. /\ Working(w, f, "retry", "idle") /\ UNCHANGED <<place, rows, usedBy>>
      /\ SetStatus(f, {"PROCESSING", "QUARANTINED"}, "PENDING")
  BY DEF Retry
<1>2. /\ FileInv(f) /\ job[f].status # "NONE"
      /\ \A v \in Workers \ {w} : worker'[v] = worker[v]
      /\ worker'[w].at = "idle"
      /\ UNCHANGED <<ordered, upload>>
  BY <1>1, WorkingFacts DEF Stages, CleanupSteps
<1>3. /\ \A g \in Files \ {f} : job'[g] = job[g]
      /\ job'[f].status \in {"PENDING", job[f].status}
  BY <1>1, StatusFacts DEF MediaInv
<1>4. Advanced(w, f) /\ RunInv(w, f)'
  BY <1>1, <1>2, <1>3 DEF Advanced, RunInv, On, CleanupSteps
<1>5. FileInv(f)'
  BY <1>1, <1>2, <1>3, <1>4, AdvancedKept DEF FileInv, UseInv, Gone
<1> QED
  BY <1>1, <1>2, <1>3, <1>5, OthersKept

LEMMA ClaimKeeps ==
    ASSUME MediaInv, NEW w \in Workers, NEW f \in Files, Claim(w, f)
    PROVE  \A g \in Files : FileInv(g)'
<1>1. /\ \A v \in Workers \ {w} : worker'[v] = worker[v]
      /\ worker'[w].at = "inspect" /\ worker'[w].file = f
      /\ UNCHANGED <<place, rows, usedBy, ordered, upload>>
      /\ job[f].status # "NONE" /\ job'[f].status = "PROCESSING"
      /\ \A g \in Files \ {f} : job'[g] = job[g]
  BY DEF Claim, Claimable, At, MediaInv, MediaTypeOK
<1>2. Advanced(w, f) /\ RunInv(w, f)'
  BY <1>1 DEF Advanced, RunInv, On, CleanupSteps
<1>3. FileInv(f)'
  BY <1>1, <1>2, AdvancedKept DEF MediaInv
<1> QED
  BY <1>1, <1>3, OthersKept

\* A step that fails sends the run to the retry of its file.
LEMMA FailKeeps ==
    ASSUME MediaInv, NEW w \in Workers, NEW f \in Files, Fail(w, f)
    PROVE  \A g \in Files : FileInv(g)'
<1>1. /\ \A v \in Workers \ {w} : worker'[v] = worker[v]
      /\ worker'[w].at = "retry" /\ worker'[w].file = f
      /\ UNCHANGED <<place, rows, usedBy, ordered, upload, job>>
      /\ On(w, f, CleanupSteps) /\ FileInv(f) /\ RunInv(w, f)
  BY DEF Fail, At, On, MediaInv, MediaTypeOK, FileInv
<1>2. job[f].status # "NONE"
  BY <1>1 DEF RunInv, On
<1>3. Advanced(w, f) /\ RunInv(w, f)'
  BY <1>1, <1>2 DEF Advanced, RunInv, On, CleanupSteps
<1>4. FileInv(f)'
  BY <1>1, <1>2, <1>3, AdvancedKept DEF FileInv, UseInv, Gone
<1> QED
  BY <1>1, <1>4, OthersKept

\* A crash stops the run, and loses the uploads under way.
LEMMA CrashKeeps ==
    ASSUME MediaInv, CrashServer \/ CrashCli, NEW f \in Files
    PROVE  FileInv(f)'
<1>1. /\ \A w \in Workers : worker'[w] = worker[w] \/ worker'[w].at = "idle"
      /\ UNCHANGED <<place, rows, usedBy, ordered, job>>
      /\ upload'[f] = upload[f] \/ (upload[f] # "ended" /\ upload'[f] = "lost")
      /\ FileInv(f)
  BY DEF CrashServer, CrashCli, Idle, MediaInv, MediaTypeOK
<1>2. UploadInv(f)' /\ UseInv(f)'
  BY <1>1 DEF FileInv, UploadInv, UseInv, Served, InUse, Gone
<1>3. ASSUME NEW w \in Workers PROVE RunInv(w, f)'
  <2>1. RunInv(w, f)
    BY <1>1 DEF FileInv
  <2> QED
    BY <1>1, <2>1 DEF RunInv, On, CleanupSteps
<1> QED
  BY <1>2, <1>3 DEF FileInv

-----------------------------------------------------------------------------
(* The theorems.                                                            *)

LEMMA MediaStarts == MediaInit => MediaInv
<1> SUFFICES ASSUME MediaInit PROVE MediaInv
  OBVIOUS
<1>1. MediaTypeOK
  BY MediaAssumption DEF MediaInit, MediaTypeOK, NoJob, Workers
<1>2. ASSUME NEW f \in Files PROVE FileInv(f)
  BY DEF MediaInit, FileInv, UploadInv, UseInv, RunInv, On, NoJob, Idle, CleanupSteps, InUse
<1> QED
  BY <1>1, <1>2 DEF MediaInv

LEMMA AdvanceKeeps ==
    ASSUME MediaInv, NEW w \in Workers, NEW f \in Files, Advance(w, f)
    PROVE  \A g \in Files : FileInv(g)'
BY InspectKeeps, RestoreKeeps, MarkRetainedKeeps, LookKeeps, RenameKeeps, DetachKeeps, PurgeKeeps,
   MarkCompletedKeeps, RetryKeeps
DEF Advance

LEMMA MediaSteps == MediaInv /\ [MediaNext]_mediaVars => MediaInv'
<1> SUFFICES ASSUME MediaInv, [MediaNext]_mediaVars PROVE MediaInv'
  OBVIOUS
<1>1. MediaTypeOK'
  BY MediaTypes DEF MediaInv
<1>2. \A g \in Files : FileInv(g)'
  <2>1. CASE UNCHANGED mediaVars
    <3>1. ASSUME NEW g \in Files PROVE FileInv(g)'
      BY <2>1, UntouchedKept DEF mediaVars, Untouched, RunsKept, MediaInv
    <3> QED
      BY <3>1
  <2>2. CASE \E f \in Files : \/ WriteFile(f) \/ CreateRow(f) \/ RowFails(f) \/ AddProductImage(f)
                              \/ Rejected(f) \/ DiscardFile(f) \/ DiscardRow(f)
    BY <2>2, RequestKeeps
  <2>3. CASE \/ \E f \in Files : \/ SetNewsCover(f) \/ RetireProductImage(f)
                                 \/ RetireListingImage(f) \/ PlaceOrder(f) \/ Elapse(f)
             \/ Uncover
             \/ \E p \in {"product", "listing"} : DeleteProduct(p)
             \/ DeleteListing
    BY <2>3, UseKeeps
  <2>4. CASE \E f \in Files, w \in Workers : Claim(w, f) \/ Advance(w, f) \/ Fail(w, f)
    BY <2>4, ClaimKeeps, AdvanceKeeps, FailKeeps
  <2>5. CASE CrashServer \/ CrashCli
    BY <2>5, CrashKeeps
  <2> QED
    BY <2>1, <2>2, <2>3, <2>4, <2>5
    DEF MediaNext, RejectImage, RejectCover, ClearNewsCover, DeleteNews
<1> QED
  BY <1>1, <1>2 DEF MediaInv

(***************************************************************************)
(* FileInv holds of every file at every moment: what a run of the cleanup  *)
(* found or did at one stage is still so when it comes to the next one,    *)
(* whatever requests, the other run, faults and crashes do in between.     *)
(***************************************************************************)
THEOREM MediaInvariance == MediaSpec => []MediaInv
<1> QED
  BY MediaStarts, MediaSteps, PTL DEF MediaSpec

(***************************************************************************)
(* Every variable of the images keeps its type.                            *)
(***************************************************************************)
THEOREM MediaTypesHold == MediaSpec => []MediaTypeOK
<1>1. MediaInv => MediaTypeOK
  BY DEF MediaInv
<1> QED
  BY <1>1, MediaInvariance, PTL

(***************************************************************************)
(* The cleanup never moves or removes a file that a product shows, that is *)
(* a cover, or that an order's snapshot names.                             *)
(***************************************************************************)
THEOREM ReferencedStay == MediaSpec => []ReferencedFilesInPlace
<1>1. MediaInv => ReferencedFilesInPlace
  BY DEF MediaInv, FileInv, UseInv, InUse, ReferencedFilesInPlace
<1> QED
  BY <1>1, MediaInvariance, PTL

(***************************************************************************)
(* COMPLETED means that file, row and image are gone; RETAINED that the    *)
(* file is in its place.                                                   *)
(***************************************************************************)
THEOREM FinishedJobsTell == MediaSpec => []FinishedJobsTrue
<1>1. MediaInv => FinishedJobsTrue
  BY DEF MediaInv, FileInv, UseInv, Gone, FinishedJobsTrue
<1> QED
  BY <1>1, MediaInvariance, PTL

(***************************************************************************)
(* A file the shop no longer shows has a cleanup job, except an affiliate  *)
(* listing's and those of an upload that a crash cut short.                *)
(***************************************************************************)
THEOREM UnusedQueued == MediaSpec => []UnusedFilesQueued
<1>1. MediaInv => UnusedFilesQueued
  BY DEF MediaInv, FileInv, UseInv, InUse, UnusedFilesQueued
<1> QED
  BY <1>1, MediaInvariance, PTL
=============================================================================
