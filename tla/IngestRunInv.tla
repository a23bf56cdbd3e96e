--------------------------- MODULE IngestRunInv ---------------------------
(***************************************************************************)
(* The inductive invariants behind the safety properties of IngestRun:     *)
(* IInv for SkipIsSound, RowInv for RowNeverAheadOfIndex, HideInv for      *)
(* HidesOnlyTheMissing, AclInv for AclSkipIsSound, MirrorInv for           *)
(* CleanFullScanMirrors and CursorInv for NothingLostBehindCursor. Those   *)
(* that hold under conditions only name them beside the invariant; IInv    *)
(* needs a source that never brings a document back under its old ETag     *)
(* ("restore").                                                            *)
(***************************************************************************)
EXTENDS IngestRun

InRun == run.phase \in {"list", "process"}

\* The index serves the bytes the source has now.
Served(d) == points[d].state = "live" /\ points[d].content = src[d].content

\* The manifest knows the listed document by its ETag or by its content.
Known(d) ==
    /\ Listed(d)
    /\ manifest[d].state # "none"
    /\ manifest[d].etag = src[d].etag \/ manifest[d].content = src[d].content

\* Versions only grow, and nothing recorded is newer than the source.
Versions(d) ==
    /\ 1 <= src[d].content
    /\ src[d].content <= clock
    /\ src[d].etag <= clock
    /\ manifest[d].etag <= src[d].etag
    /\ manifest[d].content <= src[d].content

\* An ETag names one content.
EtagNamesContent(d) ==
    manifest[d].content # NoHash /\ manifest[d].etag = src[d].etag
        => manifest[d].content = src[d].content

\* The content hash is what vouches for the index; the ETag only through it.
HashVouches(d) ==
    Listed(d) /\ manifest[d].state = "live" /\ manifest[d].content = src[d].content => Served(d)

\* What is recorded as deleted is deleted at the source, or was uploaded anew.
GoneIsUnknown(d) == manifest[d].state = "gone" => ~Known(d)

\* A task never lags behind the manifest its run started from, and its outcome
\* vouches for the index as a manifest entry does.
TaskSound(d) ==
    (InRun /\ work[d].step # "none") =>
      /\ d \in run.seen
      /\ work[d].etag <= src[d].etag
      /\ work[d].content <= src[d].content
      /\ work[d].kind # "none"
      /\ work[d].kind = "delete" => ~Known(d)
      /\ work[d].kind = "acl" => manifest[d].state = "live" /\ work[d].etag = manifest[d].etag
      /\ work[d].kind = "fetch" => manifest[d].etag <= work[d].etag
      /\ work[d].kind = "fetch" /\ work[d].content # NoHash =>
            manifest[d].content <= work[d].content
      /\ work[d].kind = "fetch" /\ work[d].step \in {"write", "row", "acl"} =>
            work[d].content # NoHash
      /\ work[d].content # NoHash /\ work[d].etag = src[d].etag => work[d].content = src[d].content
      /\ (/\ work[d].step \in {"acl", "row", "done"}
          /\ work[d].kind # "delete"
          /\ Listed(d)
          /\ work[d].content = src[d].content) => Served(d)
      /\ work[d].kind = "delete" => work[d].step \in {"todo", "row", "deleted", "failed"}
      /\ work[d].step = "deleted" => work[d].kind = "delete"

\* What the run will tombstone is not a document the manifest knows.
PlanSound(d) ==
    /\ InRun => run.prior = manifest
    /\ (run.phase = "list" /\ FullScan(run) /\ d \notin run.todo \cup run.seen) => ~Known(d)
    /\ (run.phase = "process" /\ d \in run.gone) => ~Known(d) /\ work[d].step = "none"
    /\ run.phase = "idle" => work[d].step = "none"
    /\ run.phase = "list" /\ d \in run.todo => work[d].step = "none"
    /\ run.phase = "list" => work[d].step \in {"none", "todo"}

DocInv(d) ==
    /\ Versions(d)
    /\ EtagNamesContent(d)
    /\ HashVouches(d)
    /\ GoneIsUnknown(d)
    /\ TaskSound(d)
    /\ PlanSound(d)

IInv == TypeOK /\ \A d \in Docs : DocInv(d)

-----------------------------------------------------------------------------
(* The invariant behind HidesOnlyTheMissing, which "restore" does not break. *)

\* The run may hide the document: it was missing, or moved since the run started.
MayHide(d) == ~Listed(d) \/ src[d].mod > run.start

\* Every deletion the run has planned, or is about to infer, is of such a document.
HideSound(d) ==
    /\ src[d].mod <= clock
    /\ (run.phase \in {"list", "process"} /\ work[d].kind = "delete") => MayHide(d)
    /\ (run.phase = "list" /\ FullScan(run) /\ d \notin run.todo \cup run.seen) => MayHide(d)
    /\ (run.phase = "process" /\ d \in run.gone) => MayHide(d)
    /\ run.phase = "idle" => work[d] = NoWork

HideInv == TypeOK /\ run.start <= clock /\ \A d \in Docs : HideSound(d)

-----------------------------------------------------------------------------
(* The invariant behind RowNeverAheadOfIndex, which holds of every source. *)

\* What was recorded without a hash was too large: its version is not the one that
\* is listed, or it is a row, which moves its ETag with its ACL.
Unhashed(d, etag, acl) == etag < src[d].etag \/ (Materialised /\ acl = src[d].acl)

\* The content of a row, of the index and of an entry come in this order of time, and
\* what the index never had has no hash anywhere.
StoresOrdered(d) ==
    /\ 1 <= src[d].content
    /\ src[d].etag <= clock /\ src[d].content <= clock
    /\ manifest[d].etag <= src[d].etag
    /\ points[d].content <= src[d].content
    /\ points[d].state = "none" => points[d].content = NoHash
    /\ rows[d].state = "live" => points[d].state # "none" /\ rows[d].content <= points[d].content
    /\ manifest[d].content <= points[d].content
    /\ manifest[d].state # "none" /\ manifest[d].content = NoHash => Unhashed(d, manifest[d].etag, manifest[d].acl)

\* What a task carries is no older than the index until it is written, and in the
\* index from then on.
TaskOrdered(d) ==
    (InRun /\ work[d].step # "none") =>
      /\ work[d].etag <= src[d].etag
      /\ work[d].content <= src[d].content
      /\ work[d].kind \in {"fetch", "acl", "delete"}
      /\ work[d].kind = "delete" => work[d].step \in {"todo", "row", "deleted", "failed"}
      /\ work[d].kind = "acl" =>
           /\ manifest[d].content # NoHash
           /\ work[d].step \in {"todo", "row", "done", "failed"}
           /\ work[d].step = "done" => work[d].content # NoHash
      /\ work[d].kind = "fetch" /\ work[d].step = "todo" /\ ~Materialised =>
           /\ work[d].content = NoHash
           /\ src[d].big => work[d].etag < src[d].etag
      /\ work[d].kind = "fetch" /\ work[d].step \in {"todo", "write"} =>
           work[d].content = NoHash \/ points[d].content <= work[d].content
      /\ work[d].kind # "delete" /\ work[d].step \in {"write", "acl", "row"} => work[d].content # NoHash
      /\ work[d].kind # "delete" /\ work[d].step = "row" => points[d].state # "none"
      /\ work[d].kind # "delete" /\ work[d].step \in {"acl", "row", "done"} =>
           work[d].content <= points[d].content
      /\ work[d].kind = "fetch" /\ work[d].content = NoHash /\ (Materialised \/ work[d].step = "done") =>
           Unhashed(d, work[d].etag, work[d].acl)

RunOrdered(d) ==
    /\ InRun => run.prior = manifest
    /\ run.phase = "idle" => work[d].step = "none"

RowInv == TypeOK /\ \A d \in Docs : StoresOrdered(d) /\ TaskOrdered(d) /\ RunOrdered(d)

-----------------------------------------------------------------------------
(* The invariant behind AclSkipIsSound. *)

\* The conditions under which a skipped permission was applied: no ACL comes back to an
\* old value; where permissions are read and bodies downloaded, no read fails, and
\* no forced run records the ACL of a document answered "not modified".
AclConditions ==
    /\ "restore" \notin Changes /\ "aclback" \notin Changes
    /\ Materialised \/ ("aclread" \notin Faults /\ Modes \cap {"forced", "reindex"} = {})

\* ACLs only grow too, and the index has had what the manifest vouches for.
AclOrdered(d) ==
    /\ src[d].acl <= clock
    /\ points[d].acl <= src[d].acl
    /\ manifest[d].content # NoHash => manifest[d].acl <= points[d].acl
    /\ (InRun /\ work[d].step # "none" /\ work[d].kind # "delete") =>
         /\ work[d].acl <= src[d].acl
         /\ work[d].step \in {"todo", "write", "acl"} => points[d].acl <= work[d].acl
         /\ work[d].step \in {"row", "done"} /\ work[d].content # NoHash => work[d].acl <= points[d].acl

\* A download is never asked for with the ETag on record.
DownloadIsNew(d) ==
    /\ run.phase # "idle" => run.mode \in Modes
    /\ (InRun /\ ~Materialised /\ work[d].step = "todo" /\ work[d].kind = "fetch") =>
         manifest[d].state = "none" \/ manifest[d].etag # work[d].etag

AclInv == TypeOK /\ \A d \in Docs : AclOrdered(d) /\ DownloadIsNew(d)

-----------------------------------------------------------------------------
(* The invariant behind CleanFullScanMirrors and NothingLostBehindCursor: what a *)
(* run makes of a document that did not change since the run started.            *)

Steady(d) == src[d].mod <= run.start
\* Its change lies before the cursor the pass resumed from.
Behind(d) == ~FullScan(run) /\ src[d].mod <= run.from

MirrorConditions == AclConditions /\ (Materialised => "grow" \notin Changes)

\* Rows never too large have a hash everywhere.
Hashed(d) ==
    Materialised =>
      /\ ~src[d].big
      /\ manifest[d].state # "none" => manifest[d].content # NoHash
      /\ InRun /\ work[d].step # "none" /\ work[d].kind # "delete" => work[d].content # NoHash

TaskRight(d) ==
    (run.phase # "idle" /\ work[d].step # "none") =>
      /\ work[d].step = "deleted" => work[d].kind = "delete"
      /\ work[d].kind = "delete" => work[d].step \in {"todo", "row", "deleted", "failed"}
      /\ Steady(d) =>
           /\ work[d].step = "failed" => Faults \cap {"fail", "partial"} # {}
           /\ work[d].kind = "delete" =>
                /\ ~src[d].present
                /\ work[d].step \in {"row", "deleted"} => points[d].state # "live"
           /\ work[d].kind # "delete" =>
                /\ Listed(d)
                /\ work[d].acl = src[d].acl
                /\ work[d].step = "todo" => work[d].etag = src[d].etag
                /\ work[d].step = "todo" /\ work[d].kind = "acl" => Served(d)
                /\ work[d].step = "todo" /\ Materialised => work[d].content = src[d].content
                /\ work[d].step = "write" => work[d].content = src[d].content
                /\ work[d].step = "acl" => Served(d)
                /\ work[d].step \in {"row", "done"} => Mirrors(d)

\* A document that got no task was skipped, will be hidden or is not looked at.
NoTaskRight(d) ==
    (/\ run.phase # "idle" /\ ~Single /\ ~run.error
     /\ Steady(d) /\ ~Behind(d)
     /\ work[d].step = "none" /\ d \notin run.todo) =>
      IF Listed(d) THEN Mirrors(d)
      ELSE \/ src[d].present /\ ~FullScan(run)
           \/ run.phase = "list" /\ FullScan(run) /\ d \notin run.seen
           \/ run.phase = "process" /\ (d \in run.gone \/ run.prior[d].state # "live")
           \/ /\ run.phase = "record"
              /\ "live" \in {run.prior[d].state, manifest[d].state} => points[d].state # "live"

RunShape(d) ==
    /\ run.phase = "list" => run.hidden = {} /\ ~run.error /\ (d \in run.todo => d \notin run.seen)
    /\ run.phase \in {"process", "record"} => run.todo = {}
    /\ run.phase = "record" => work[d].step \in {"none", "done", "deleted", "failed"}
    /\ run.phase = "process" /\ d \in run.hidden => d \in run.gone /\ points[d].state # "live"

MirrorInv == TypeOK /\ \A d \in Docs : Hashed(d) /\ TaskRight(d) /\ NoTaskRight(d) /\ RunShape(d)

\* The conditions under which the cursor loses nothing, and its part of the invariant.
CursorConditions ==
    /\ MirrorConditions
    /\ Faults \cap {"fail", "partial"} = {}
    /\ Modes \cap {"single", "reindex"} = {}

CursorOrdered ==
    /\ cursor <= clock
    /\ run.phase # "idle" =>
         /\ run.from <= cursor /\ cursor <= run.start /\ run.start <= clock
         /\ ~Single
         /\ run.token # NoCursor => run.token = run.start /\ ~run.error

CursorInv == CursorOrdered /\ NothingLostBehindCursor
=============================================================================
