----------------------------- MODULE IngestRun -----------------------------
(***************************************************************************)
(* One ingestion source and the runs over it: plan_source,                 *)
(* process_document and finalize_run of services/ingestion, with the       *)
(* source changing under them, documents failing half way and the worker   *)
(* dying between two steps. Runs are sequential here (the nightly timer);  *)
(* the manifest under concurrent runs is module ManifestStore.             *)
(*                                                                         *)
(* `clock' numbers the changes of the source. An ETag, a content hash and  *)
(* an ACL fingerprint are the clock value at which they appeared, so equal *)
(* numbers mean equal values and a larger number is a newer one.           *)
(***************************************************************************)
EXTENDS Integers, FiniteSets

CONSTANTS
    Docs,       \* the documents of the source
    NoDoc,      \* no document
    Connector,  \* the kind of source: "blob" (and local files), "sharepoint" or "sql"
    Changes,    \* kinds of change the source makes
    Faults,     \* kinds of failure the run meets
    Modes,      \* ways a run is started
    MaxClock,   \* bound on the changes of the source
    MaxFaults   \* bound on the failures

ChangeKinds == {"edit", "touch", "acl", "aclback", "remove", "upload", "restore", "grow"}
FaultKinds  == {"fail", "partial", "crash", "enum", "aclread"}
ModeKinds   == {"delta", "full", "forced", "single", "reindex"}

ASSUME ConstantsAssumption ==
    /\ NoDoc \notin Docs
    /\ Connector \in {"blob", "sharepoint", "sql"}
    /\ Changes \subseteq ChangeKinds
    /\ Faults \subseteq FaultKinds
    /\ Modes \subseteq ModeKinds
    /\ MaxClock \in Nat \ {0}
    /\ MaxFaults \in Nat

NoHash == 0         \* an empty content_sha256
DefaultAcl == 0     \* the source's default access control
NoCursor == 0

\* The connector keeps a cursor: a Graph deltaLink, the highest watermark read.
Delta == Connector \in {"sharepoint", "sql"}
\* Rows carry their text, so what is listed is what is fetched, and deleted rows are
\* flagged, not gone.
Materialised == Connector = "sql"

VARIABLES
    clock,      \* number of the source's latest change
    src,        \* the source: what a listing and a download return
    points,     \* the Qdrant points of each document
    rows,       \* the documents row of each document in Postgres
    manifest,   \* the stored manifest: one entry per document
    cursor,     \* source_configs.cursor, which connectors resume from
    faults,     \* failures so far
    run,        \* the run in progress: its plan and its phase
    work,       \* the DocumentTask of each document and how far it got
    last        \* the summary of the latest run

vars == <<clock, src, points, rows, manifest, cursor, faults, run, work, last>>
stores == <<points, rows, manifest, cursor>>

Times == 0..MaxClock
Steps == {"none", "todo", "write", "acl", "row", "done", "deleted", "failed"}

SrcType   == [present: BOOLEAN, big: BOOLEAN, etag: Times, content: Times,
              acl: Times, mod: Times]
IndexType == [state: {"none", "live", "tomb"}, content: Times, acl: Times]
EntryType == [state: {"none", "live", "gone"}, etag: Times, content: Times, acl: Times]
WorkType  == [step: Steps, kind: {"none", "fetch", "acl", "delete"},
              etag: Times, content: Times, acl: Times]
RunType   == [phase: {"idle", "list", "process", "record"}, mode: ModeKinds,
              doc: Docs \cup {NoDoc}, from: Times, start: Times, token: Times,
              error: BOOLEAN, todo: SUBSET Docs, seen: SUBSET Docs,
              skipped: SUBSET Docs, gone: SUBSET Docs, hidden: SUBSET Docs,
              prior: [Docs -> EntryType]]
LastType  == [status: {"none", "succeeded", "partial", "failed"},
              full: BOOLEAN, start: Times]

TypeOK ==
    /\ clock \in Times
    /\ src \in [Docs -> SrcType]
    /\ points \in [Docs -> IndexType]
    /\ rows \in [Docs -> IndexType]
    /\ manifest \in [Docs -> EntryType]
    /\ cursor \in Times
    /\ faults \in 0..MaxFaults
    /\ run \in RunType
    /\ work \in [Docs -> WorkType]
    /\ last \in LastType

Absent  == [state |-> "none", content |-> NoHash, acl |-> DefaultAcl]
NoEntry == [state |-> "none", etag |-> 0, content |-> NoHash, acl |-> DefaultAcl]
NoWork  == [step |-> "none", kind |-> "none", etag |-> 0, content |-> NoHash,
            acl |-> DefaultAcl]
NoRun   == [status |-> "none", full |-> FALSE, start |-> 0]
Idle    == [phase |-> "idle", mode |-> "delta", doc |-> NoDoc, from |-> NoCursor,
            start |-> 0, token |-> NoCursor, error |-> FALSE, todo |-> {},
            seen |-> {}, skipped |-> {}, gone |-> {}, hidden |-> {},
            prior |-> [d \in Docs |-> NoEntry]]

Init ==
    /\ clock = 1
    /\ \E there \in SUBSET Docs :
         src = [d \in Docs |-> [present |-> d \in there, big |-> FALSE, etag |-> 1,
                                content |-> 1, acl |-> 1, mod |-> 1]]
    /\ points = [d \in Docs |-> Absent]
    /\ rows = [d \in Docs |-> Absent]
    /\ manifest = [d \in Docs |-> NoEntry]
    /\ cursor = NoCursor
    /\ faults = 0
    /\ run = Idle
    /\ work = [d \in Docs |-> NoWork]
    /\ last = NoRun

-----------------------------------------------------------------------------
(* The source, as its owner changes it. *)

\* A row's ETag is its watermark, so every change of a row moves it.
Change(kind, d, new) ==
    /\ kind \in Changes
    /\ clock < MaxClock
    /\ clock' = clock + 1
    /\ src' = [src EXCEPT ![d] = [new EXCEPT !.mod = clock + 1,
                                             !.etag = IF Materialised THEN clock + 1 ELSE @]]
    /\ UNCHANGED <<stores, faults, run, work, last>>

\* The document gets new bytes; "grow" makes them larger than
\* ingest_max_document_bytes.
Edit(d) ==
    /\ src[d].present
    /\ \E big \in BOOLEAN :
         Change(IF big THEN "grow" ELSE "edit", d,
                [src[d] EXCEPT !.etag = clock + 1, !.content = clock + 1, !.big = big])

\* Copied, re-saved or re-tagged: a new ETag over the same bytes.
Touch(d) ==
    /\ src[d].present
    /\ Change("touch", d, [src[d] EXCEPT !.etag = clock + 1])

SetAcl(d) ==
    /\ src[d].present
    /\ Change("acl", d, [src[d] EXCEPT !.acl = clock + 1])

\* An administrator takes an ACL change back: the fingerprint is an old one.
RevertAcl(d) ==
    /\ src[d].present
    /\ \E old \in 1..(src[d].acl - 1) : Change("aclback", d, [src[d] EXCEPT !.acl = old])

Remove(d) ==
    /\ src[d].present
    /\ Change("remove", d, [src[d] EXCEPT !.present = FALSE])

Upload(d) ==
    /\ ~src[d].present
    /\ Change("upload", d, [present |-> TRUE, big |-> FALSE, etag |-> clock + 1,
                            content |-> clock + 1, acl |-> clock + 1, mod |-> 0])

\* Moved back or undeleted: the same bytes under the same ETag.
Restore(d) ==
    /\ ~src[d].present
    /\ Change("restore", d, [src[d] EXCEPT !.present = TRUE])

SourceNext ==
    \E d \in Docs : \/ Edit(d) \/ Touch(d) \/ SetAcl(d) \/ RevertAcl(d)
                    \/ Remove(d) \/ Upload(d) \/ Restore(d)

-----------------------------------------------------------------------------
(* plan_source *)

\* Mutant: performed_full_scan stays True on a resumed pass.
FullScanAlways(r) == TRUE

\* performed_full_scan
FullScan(r) == ~Delta \/ r.from = NoCursor

\* Mutant: the cursor is taken when the listing ends, past changes it did not list.
CursorAtEnd(r) == IF Delta THEN clock ELSE NoCursor

\* The connector's cursor after the enumeration.
NextCursor(r) == IF Delta THEN r.start ELSE NoCursor

\* What the enumeration will mention: everything, or what changed past the cursor.
Mentioned(from) == {d \in Docs : (Delta /\ from # NoCursor) => src[d].mod > from}

StartRun(mode, d) ==
    /\ run.phase = "idle"
    /\ mode \in Modes
    /\ (d # NoDoc) <=> (mode \in {"single", "reindex"})
    /\ mode = "reindex" => rows[d].state # "none"
    /\ LET from == IF mode = "full" THEN NoCursor ELSE cursor
       IN  run' = [Idle EXCEPT !.phase = "list", !.mode = mode, !.doc = d,
                               !.from = from, !.start = clock, !.prior = manifest,
                               !.todo = Mentioned(from)]
    /\ last' = NoRun
    /\ UNCHANGED <<clock, src, stores, faults, work>>

\* Mutant: the ACL fingerprint is not compared.
ClassifyIgnoringAcl(entry, doc, acl, forced) ==
    IF forced \/ entry.state # "live" \/ doc.etag # entry.etag THEN "fetch" ELSE "skip"

\* classify_document with no content hash in hand (phase 1).
Classify(entry, doc, acl, forced) ==
    IF forced \/ entry.state # "live" \/ doc.etag # entry.etag THEN "fetch"
    ELSE IF acl # entry.acl THEN "acl"
    ELSE "skip"

Forced == run.mode \in {"forced", "reindex"}

Task(kind, doc, acl) ==
    [NoWork EXCEPT !.step = "todo", !.kind = kind, !.etag = doc.etag, !.acl = acl,
                   !.content = IF Materialised /\ ~doc.big THEN doc.content ELSE NoHash]

\* Listings leave out what is too large; a query of rows does not.
Enumerated(d) == src[d].present /\ (src[d].big => Materialised)

\* One descriptor of list_documents: resolve its ACL, classify, make a task.
\* A failed permission read falls back to the source's default ACL; a row carries its
\* ACL in its own columns, where nothing is read.
ListDoc(d) ==
    /\ run.phase = "list"
    /\ d \in run.todo
    /\ IF Enumerated(d)
       THEN \E failed \in IF "aclread" \in Faults /\ ~Materialised /\ faults < MaxFaults
                          THEN BOOLEAN ELSE {FALSE} :
              LET acl  == IF failed THEN DefaultAcl ELSE src[d].acl
                  kind == Classify(run.prior[d], src[d], acl, Forced)
              IN  /\ faults' = IF failed THEN faults + 1 ELSE faults
                  /\ IF kind = "skip"
                     THEN /\ run' = [run EXCEPT !.todo = @ \ {d}, !.seen = @ \cup {d},
                                                !.skipped = @ \cup {d}]
                          /\ UNCHANGED work
                     ELSE /\ run' = [run EXCEPT !.todo = @ \ {d}, !.seen = @ \cup {d}]
                          /\ work' = [work EXCEPT ![d] = Task(kind, src[d], acl)]
       ELSE /\ IF ~src[d].present /\ (FullScan(run) => Materialised)
               THEN /\ work' = [work EXCEPT ![d] = Task("delete", src[d], DefaultAcl)]
                    /\ run' = [run EXCEPT !.todo = @ \ {d}, !.seen = @ \cup {d}]
               ELSE /\ run' = [run EXCEPT !.todo = @ \ {d}]
                    /\ UNCHANGED work
            /\ UNCHANGED faults
    /\ UNCHANGED <<clock, src, stores, last>>

\* missing_document_ids: live entries the scan did not mention.
Missing(r) == {d \in Docs : r.prior[d].state = "live" /\ d \notin r.seen}

Single == run.doc # NoDoc

\* ingest_single_document keeps one document's task of the whole plan.  It finds it
\* by the hash of its URL; the ids of SharePoint's documents hash the item id.
InScope(d) == Single => d = run.doc /\ Connector # "sharepoint"

\* Leave the plan with what was enumerated; a single-document run that did not
\* find its document raises and leaves no trace.
Plan(token, gone, error) ==
    IF Single /\ ({d \in Docs : InScope(d) /\ work[d].step # "none"} = {})
              /\ ({d \in run.skipped : InScope(d)} = {})
    THEN /\ run' = Idle
         /\ work' = [d \in Docs |-> NoWork]
    ELSE /\ run' = [run EXCEPT !.phase = "process", !.token = token, !.error = error,
                               !.todo = {}, !.skipped = {d \in @ : InScope(d)},
                               !.gone = IF Single THEN {} ELSE gone]
         /\ work' = [d \in Docs |-> IF InScope(d) THEN work[d] ELSE NoWork]

EndList ==
    /\ run.phase = "list"
    /\ run.todo = {}
    /\ Plan(NextCursor(run), IF FullScan(run) THEN Missing(run) ELSE {}, FALSE)
    /\ UNCHANGED <<clock, src, stores, faults, last>>

\* The connector breaks while listing: the tasks made so far stay in the plan.
ListFails ==
    /\ run.phase = "list"
    /\ "enum" \in Faults
    /\ faults < MaxFaults
    /\ faults' = faults + 1
    /\ Plan(NoCursor, {}, TRUE)
    /\ UNCHANGED <<clock, src, stores, last>>

-----------------------------------------------------------------------------
(* process_document: tasks of one run interleave freely. *)

Ready(d, kind, step) == run.phase = "process" /\ work[d].kind = kind /\ work[d].step = step

Advance(d, step) == work' = [work EXCEPT ![d].step = step]

DeleteIndex(d) ==
    /\ Ready(d, "delete", "todo")
    /\ points' = IF points[d].state = "none" THEN points
                 ELSE [points EXCEPT ![d].state = "tomb"]
    /\ Advance(d, "row")
    /\ UNCHANGED <<clock, src, rows, manifest, cursor, faults, run, last>>

DeleteRow(d) ==
    /\ Ready(d, "delete", "row")
    /\ rows' = IF rows[d].state = "none" THEN rows
               ELSE [rows EXCEPT ![d].state = "tomb"]
    /\ Advance(d, "deleted")
    /\ UNCHANGED <<clock, src, points, manifest, cursor, faults, run, last>>

\* Mutant: the ACL-only reindex leaves the payloads alone.
KeepAcl(d) == UNCHANGED points

\* set_payload on the document's points, tombstoned ones included.
RewriteAcl(d) ==
    points' = IF points[d].state = "none" THEN points
              ELSE [points EXCEPT ![d].acl = work[d].acl]

AclIndex(d) ==
    /\ Ready(d, "acl", "todo")
    /\ RewriteAcl(d)
    /\ work' = [work EXCEPT ![d].step = "row", ![d].content = run.prior[d].content]
    /\ UNCHANGED <<clock, src, rows, manifest, cursor, faults, run, last>>

\* The bytes fetch returns; a body too large to ingest has no hash.
Body(d) ==
    IF Materialised THEN work[d].content ELSE IF src[d].big THEN NoHash ELSE src[d].content

\* fetch, then classify_document on the content hash (phase 2).  A connector that
\* downloads answers "not modified" when the listed ETag is the recorded one, and
\* returns the ETag of the listing or the one of the download.
Fetch(d) ==
    /\ Ready(d, "fetch", "todo")
    /\ LET entry == run.prior[d]
           known == ~Materialised /\ entry.state # "none" /\ entry.etag = work[d].etag
           there == Materialised \/ src[d].present
           same  == entry.state = "live" /\ Body(d) = entry.content /\ ~Forced
           etags == IF Materialised THEN {work[d].etag} ELSE {work[d].etag, src[d].etag}
       IN  \/ /\ known
              /\ work' = [work EXCEPT ![d].step = "done", ![d].content = entry.content]
           \/ /\ ~known /\ ~there
              /\ Advance(d, "failed")
           \/ /\ ~known /\ there /\ Body(d) = NoHash
              /\ Advance(d, "done")
           \/ /\ ~known /\ there /\ Body(d) # NoHash
              /\ \E etag \in etags :
                   work' = [work EXCEPT
                     ![d].etag = etag, ![d].content = Body(d),
                     ![d].step = IF ~same THEN "write"
                                 ELSE IF work[d].acl # entry.acl THEN "acl"
                                 ELSE "done"]
    /\ UNCHANGED <<clock, src, stores, faults, run, last>>

\* Phase 2 found only the ACL changed: the payloads are rewritten, not the row.
LateAcl(d) ==
    /\ Ready(d, "fetch", "acl")
    /\ RewriteAcl(d)
    /\ Advance(d, "done")
    /\ UNCHANGED <<clock, src, rows, manifest, cursor, faults, run, last>>

\* Parse, enrich, chunk, embed, upsert the points and prune the stale ones.
WriteIndex(d) ==
    /\ Ready(d, "fetch", "write")
    /\ points' = [points EXCEPT ![d] = [state |-> "live", content |-> work[d].content,
                                        acl |-> work[d].acl]]
    /\ Advance(d, "row")
    /\ UNCHANGED <<clock, src, rows, manifest, cursor, faults, run, last>>

\* Mutant: the row is written before the index.
WriteRowFirst(d) ==
    /\ Ready(d, "fetch", "write")
    /\ rows' = [rows EXCEPT ![d] = [state |-> "live", content |-> work[d].content,
                                    acl |-> work[d].acl]]
    /\ Advance(d, "row")
    /\ UNCHANGED <<clock, src, points, manifest, cursor, faults, run, last>>

\* upsert_document of the repositories, after an index write or an ACL rewrite.
WriteRow(d) ==
    /\ Ready(d, "fetch", "row") \/ Ready(d, "acl", "row")
    /\ rows' = [rows EXCEPT ![d] = [state |-> "live", content |-> work[d].content,
                                    acl |-> work[d].acl]]
    /\ Advance(d, "done")
    /\ UNCHANGED <<clock, src, points, manifest, cursor, faults, run, last>>

\* process_document returns status FAILED: before its index write ("fail"), or
\* after it, when the Postgres write fails ("partial").
FailDoc(d) ==
    /\ run.phase = "process"
    /\ \/ "fail" \in Faults /\ work[d].step \in {"todo", "write", "acl"}
       \/ "partial" \in Faults /\ work[d].step = "row"
    /\ faults < MaxFaults
    /\ faults' = faults + 1
    /\ Advance(d, "failed")
    /\ UNCHANGED <<clock, src, stores, run, last>>

ProcessNext ==
    \E d \in Docs : \/ DeleteIndex(d) \/ DeleteRow(d) \/ AclIndex(d) \/ Fetch(d)
                    \/ LateAcl(d) \/ WriteIndex(d) \/ WriteRow(d)

-----------------------------------------------------------------------------
(* finalize_run *)

Settled == \A d \in Docs : work[d].step \in {"none", "done", "deleted", "failed"}

\* tombstone_documents is called without a session, so the row is left alone.
TombstoneMissing(d) ==
    /\ run.phase = "process"
    /\ Settled
    /\ d \in run.gone \ run.hidden
    /\ points' = IF points[d].state = "none" THEN points
                 ELSE [points EXCEPT ![d].state = "tomb"]
    /\ run' = [run EXCEPT !.hidden = @ \cup {d}]
    /\ UNCHANGED <<clock, src, rows, manifest, cursor, faults, work, last>>

MarkDeleted(entry) == IF entry.state = "none" THEN entry ELSE [entry EXCEPT !.state = "gone"]

OutcomeEntry(d) == [state |-> "live", etag |-> work[d].etag, content |-> work[d].content,
                    acl |-> work[d].acl]

\* Mutant: a FAILED outcome is recorded like any other.
FoldFailedToo(d) ==
    IF work[d].step \in {"done", "failed"} THEN OutcomeEntry(d)
    ELSE IF work[d].step = "deleted" \/ d \in run.gone THEN MarkDeleted(manifest[d])
    ELSE manifest[d]

\* One document's outcome folded into the manifest; a failed one leaves no trace.
Fold(d) ==
    IF work[d].step = "done" THEN OutcomeEntry(d)
    ELSE IF work[d].step = "deleted" \/ d \in run.gone THEN MarkDeleted(manifest[d])
    ELSE manifest[d]

SaveManifest ==
    /\ run.phase = "process"
    /\ Settled
    /\ run.hidden = run.gone
    /\ manifest' = [d \in Docs |-> Fold(d)]
    /\ run' = [run EXCEPT !.phase = "record"]
    /\ UNCHANGED <<clock, src, points, rows, cursor, faults, work, last>>

\* Mutant: a run with failures is never given a terminal status.
StatusLeftRunning == IF \E d \in Docs : work[d].step = "failed" THEN "running" ELSE "succeeded"

\* IngestRunSummary.finish: deletions do not count as success.
Status ==
    LET With(steps) == {d \in Docs : work[d].step \in steps}
    IN  IF run.error /\ With(Steps \ {"none"}) = {} THEN "failed"
        ELSE IF With({"failed"}) = {} THEN "succeeded"
        ELSE IF With({"done"}) # {} \/ run.skipped # {} THEN "partial"
        ELSE "failed"

\* record_ingest_run and _persist_source_state.
RecordRun ==
    /\ run.phase = "record"
    /\ cursor' = IF run.token = NoCursor THEN cursor ELSE run.token
    /\ last' = [status |-> Status, full |-> FullScan(run) /\ ~Single /\ ~run.error,
                start |-> run.start]
    /\ run' = Idle
    /\ work' = [d \in Docs |-> NoWork]
    /\ UNCHANGED <<clock, src, points, rows, manifest, faults>>

\* The worker dies between two steps; nothing of the run survives but its writes.
Crash ==
    /\ run.phase # "idle"
    /\ "crash" \in Faults
    /\ faults < MaxFaults
    /\ faults' = faults + 1
    /\ run' = Idle
    /\ work' = [d \in Docs |-> NoWork]
    /\ UNCHANGED <<clock, src, stores, last>>

-----------------------------------------------------------------------------

Start == \E mode \in ModeKinds : \E d \in Docs \cup {NoDoc} : StartRun(mode, d)

\* The steps a run takes by itself once it is started.
RunNext ==
    \/ \E d \in Docs : ListDoc(d)
    \/ EndList
    \/ ProcessNext
    \/ \E d \in Docs : TombstoneMissing(d)
    \/ SaveManifest
    \/ RecordRun

FaultNext == ListFails \/ (\E d \in Docs : FailDoc(d)) \/ Crash

Next == SourceNext \/ Start \/ RunNext \/ FaultNext

Spec == Init /\ [][Next]_vars

\* The timer fires every night, whatever else is triggered in between, and a run
\* that was started keeps going.
FairSpec == Spec /\ SF_vars(StartRun("delta", NoDoc)) /\ WF_vars(RunNext)
-----------------------------------------------------------------------------
(* Properties. *)

Listed(d) == src[d].present /\ ~src[d].big

\* The index serves document d exactly as the source has it.
Mirrors(d) == points[d] = [state |-> "live", content |-> src[d].content, acl |-> src[d].acl]

\* A live manifest entry with a hash whose ETag is the source's current one: the
\* next plan will not look at the document's bytes.
Unmoved(d) ==
    /\ manifest[d].state = "live"
    /\ manifest[d].content # NoHash
    /\ Listed(d)
    /\ manifest[d].etag = src[d].etag

\* Skipping on the ETag is sound: whatever failed, crashed or changed before, a
\* document whose bytes phase 1 will not download again is live in the index with
\* the bytes the source has now (classify_document, fetch, finalize_run).
SkipIsSound ==
    \A d \in Docs : Unmoved(d) => points[d].state = "live" /\ points[d].content = src[d].content

\* The same for permissions: if the recorded ACL fingerprint is the source's current
\* one, the next plan skips the document, so the index must carry that ACL already.
AclSkipIsSound ==
    \A d \in Docs : Unmoved(d) /\ manifest[d].acl = src[d].acl => points[d].acl = src[d].acl

\* With a server-side cursor, a document the index has wrong is always one the next
\* delta pass will mention: its change lies past the stored cursor.  (Documents too
\* large to ingest, and deleted ones the manifest never recorded, are not covered.)
NothingLostBehindCursor ==
    \A d \in Docs :
        src[d].mod <= cursor =>
          /\ Listed(d) => Mirrors(d)
          /\ ~src[d].present /\ manifest[d].state = "live" => points[d].state # "live"

\* The documents row is written after the index, so it never describes bytes the
\* index does not have yet (WriteIndex before WriteRow, AclIndex before its row).
RowNeverAheadOfIndex ==
    \A d \in Docs : rows[d].state = "live" => points[d].state # "none" /\ rows[d].content <= points[d].content

\* No pass hides a document it merely did not look at: points are tombstoned only
\* when their document was missing or too large, or changed since the run started
\* (detect_deletions after an incremental pass, a broken listing, a single-document run).
HidesOnlyTheMissing ==
    [][\A d \in Docs :
         points[d].state = "live" /\ points'[d].state = "tomb"
           => ~Listed(d) \/ src[d].mod > run.start]_vars

\* A run that listed the whole source, failed nowhere and overlapped no change ends
\* with every document present served as it is, and every document that is missing and
\* that the manifest had as live out of the index (plan_source, process_document,
\* finalize_run together).  A document the manifest does not have as live is not looked
\* for: one removed after a crash that left its points unrecorded stays in the index.
CleanFullScanMirrors ==
    [][(/\ RecordRun
        /\ last'.status = "succeeded"
        /\ last'.full
        /\ last'.start = clock)
       => \A d \in Docs : IF Listed(d) THEN Mirrors(d)
                         ELSE run.prior[d].state = "live" => points[d].state # "live"]_vars

\* Once the source stops changing and the failures stop, the nightly runs bring
\* every listed document into the index as it stands (FairSpec).
EventuallyMirrored == <>[](\A d \in Docs : Listed(d) => Mirrors(d))

\* What the code's own documents say of it; these are the ones a run refutes.

\* pipeline.py of ingest_single_document: "Ingest exactly one document".  It must not
\* consume the change notices of the others: the cursor it stores stays behind every
\* change of another document that the index does not show.
SingleRunKeepsOtherChanges ==
    [][Single /\ cursor' # cursor
         => \A d \in Docs \ {run.doc} : Listed(d) /\ ~Mirrors(d) => src[d].mod > cursor']_vars
=============================================================================
