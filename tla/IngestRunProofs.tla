-------------------------- MODULE IngestRunProofs --------------------------
(***************************************************************************)
(* Proofs about IngestRun, for any number of documents, any kind of source *)
(* and connector, and any bounds: the types, SkipIsSound and the order of  *)
(* the stores first; then what a run leaves in the index (AclSkipIsSound,  *)
(* CleanFullScanMirrors, NothingLostBehindCursor), which rests on them.    *)
(***************************************************************************)
EXTENDS IngestRunInv, TLAPS

USE ConstantsAssumption DEF Times

LEMMA IdleTyped == Idle \in RunType
BY DEF Idle, RunType, NoEntry, EntryType, NoHash, DefaultAcl, NoCursor, ModeKinds

LEMMA NoWorkTyped == NoWork \in WorkType
BY DEF NoWork, WorkType, Steps, NoHash, DefaultAcl

LEMMA InitTyped == Init => TypeOK
<1> SUFFICES ASSUME Init PROVE TypeOK
  OBVIOUS
<1>1. src \in [Docs -> SrcType]
  BY DEF Init, SrcType
<1>2. points \in [Docs -> IndexType] /\ rows \in [Docs -> IndexType]
  BY DEF Init, Absent, IndexType, NoHash, DefaultAcl
<1>3. manifest \in [Docs -> EntryType]
  BY DEF Init, NoEntry, EntryType, NoHash, DefaultAcl
<1>4. run \in RunType /\ work \in [Docs -> WorkType]
  BY IdleTyped, NoWorkTyped DEF Init
<1>5. last \in LastType
  BY DEF Init, NoRun, LastType
<1> QED
  BY <1>1, <1>2, <1>3, <1>4, <1>5 DEF Init, TypeOK, NoCursor

\* A change of the source, as every action of SourceNext makes one.
LEMMA ChangeTyped ==
    ASSUME TypeOK, NEW kind, NEW d \in Docs, NEW new \in SrcType, Change(kind, d, new)
    PROVE  TypeOK'
<1>1. clock + 1 \in Times
  BY DEF Change, TypeOK
<1>2. src' \in [Docs -> SrcType]
  <2>1. [new EXCEPT !.mod = clock + 1,
                    !.etag = IF Materialised THEN clock + 1 ELSE @] \in SrcType
    BY <1>1 DEF SrcType
  <2> QED BY <2>1 DEF Change, TypeOK
<1> QED
  BY <1>1, <1>2 DEF Change, TypeOK, stores

LEMMA SourceTyped == TypeOK /\ SourceNext => TypeOK'
<1> SUFFICES ASSUME TypeOK, NEW d \in Docs,
                    \/ Edit(d) \/ Touch(d) \/ SetAcl(d) \/ RevertAcl(d)
                    \/ Remove(d) \/ Upload(d) \/ Restore(d)
             PROVE  TypeOK'
  BY DEF SourceNext
<1>0. src[d] \in SrcType /\ clock \in Nat
  BY DEF TypeOK
<1> DEFINE later == clock + 1
<1>1. CASE Edit(d)
  <2> PICK big \in BOOLEAN : Change(IF big THEN "grow" ELSE "edit", d,
                [src[d] EXCEPT !.etag = later, !.content = later, !.big = big])
    BY <1>1 DEF Edit
  <2>1. later \in Times
    BY <1>0 DEF Change
  <2> QED
    BY <2>1, <1>0, ChangeTyped DEF SrcType
<1>2. CASE Touch(d)
  <2>1. later \in Times
    BY <1>0, <1>2 DEF Touch, Change
  <2> QED
    BY <2>1, <1>0, <1>2, ChangeTyped DEF Touch, SrcType
<1>3. CASE SetAcl(d)
  <2>1. later \in Times
    BY <1>0, <1>3 DEF SetAcl, Change
  <2> QED
    BY <2>1, <1>0, <1>3, ChangeTyped DEF SetAcl, SrcType
<1>4. CASE RevertAcl(d)
  <2> PICK old \in 1..(src[d].acl - 1) : Change("aclback", d, [src[d] EXCEPT !.acl = old])
    BY <1>4 DEF RevertAcl
  <2>1. old \in Times
    BY <1>0 DEF SrcType
  <2> QED
    BY <2>1, <1>0, ChangeTyped DEF SrcType
<1>5. CASE Remove(d)
  BY <1>0, <1>5, ChangeTyped DEF Remove, SrcType
<1>6. CASE Upload(d)
  <2> DEFINE fresh == [present |-> TRUE, big |-> FALSE, etag |-> later,
                       content |-> later, acl |-> later, mod |-> 0]
  <2>1. Change("upload", d, fresh)
    BY <1>6 DEF Upload
  <2>2. later \in Times
    BY <1>0, <2>1 DEF Change
  <2>3. fresh \in SrcType
    BY <2>2 DEF SrcType
  <2> QED
    BY <2>1, <2>3, ChangeTyped
<1>7. CASE Restore(d)
  BY <1>0, <1>7, ChangeTyped DEF Restore, SrcType
<1> QED
  BY <1>1, <1>2, <1>3, <1>4, <1>5, <1>6, <1>7

LEMMA StartTyped == TypeOK /\ Start => TypeOK'
<1> SUFFICES ASSUME TypeOK, NEW mode \in ModeKinds, NEW d \in Docs \cup {NoDoc},
                    StartRun(mode, d)
             PROVE  TypeOK'
  BY DEF Start
<1> DEFINE from == IF mode = "full" THEN NoCursor ELSE cursor
<1>1. from \in Times
  BY DEF TypeOK, NoCursor
<1>2. Mentioned(from) \in SUBSET Docs
  BY DEF Mentioned
<1>3. run' = [Idle EXCEPT !.phase = "list", !.mode = mode, !.doc = d, !.from = from,
                          !.start = clock, !.prior = manifest, !.todo = Mentioned(from)]
  BY DEF StartRun
<1>4. run' \in RunType
  <2>1. clock \in Times /\ manifest \in [Docs -> EntryType]
    BY DEF TypeOK
  <2> HIDE DEF from
  <2> QED
    BY <1>1, <1>2, <1>3, <2>1, IdleTyped DEF RunType
<1>5. last' \in LastType
  BY DEF StartRun, NoRun, LastType
<1> QED
  BY <1>4, <1>5 DEF StartRun, TypeOK, stores

LEMMA ListDocTyped == ASSUME TypeOK, NEW d \in Docs, ListDoc(d) PROVE TypeOK'
<1>1. src[d] \in SrcType /\ run \in RunType /\ work \in [Docs -> WorkType]
  BY DEF TypeOK
<1>2. /\ [run EXCEPT !.todo = @ \ {d}] \in RunType
      /\ [run EXCEPT !.todo = @ \ {d}, !.seen = @ \cup {d}] \in RunType
      /\ [run EXCEPT !.todo = @ \ {d}, !.seen = @ \cup {d},
                     !.skipped = @ \cup {d}] \in RunType
  BY <1>1 DEF RunType
<1>3. ASSUME NEW kind \in {"fetch", "acl", "delete"}, NEW acl \in Times
      PROVE  Task(kind, src[d], acl) \in WorkType
  <2>1. (IF Materialised /\ ~src[d].big THEN src[d].content ELSE NoHash) \in Times
    BY <1>1 DEF SrcType, NoHash
  <2> QED
    BY <1>1, <1>3, <2>1, NoWorkTyped DEF Task, WorkType, SrcType, Steps
<1>4. CASE Enumerated(d)
  <2> PICK failed \in IF "aclread" \in Faults /\ ~Materialised /\ faults < MaxFaults
                      THEN BOOLEAN ELSE {FALSE} :
        LET acl  == IF failed THEN DefaultAcl ELSE src[d].acl
            kind == Classify(run.prior[d], src[d], acl, Forced)
        IN  /\ faults' = IF failed THEN faults + 1 ELSE faults
            /\ IF kind = "skip"
               THEN /\ run' = [run EXCEPT !.todo = @ \ {d}, !.seen = @ \cup {d},
                                          !.skipped = @ \cup {d}]
                    /\ UNCHANGED work
               ELSE /\ run' = [run EXCEPT !.todo = @ \ {d}, !.seen = @ \cup {d}]
                    /\ work' = [work EXCEPT ![d] = Task(kind, src[d], acl)]
    BY <1>4 DEF ListDoc
  <2> DEFINE acl == IF failed THEN DefaultAcl ELSE src[d].acl
             kind == Classify(run.prior[d], src[d], acl, Forced)
  <2>1. acl \in Times
    BY <1>1 DEF SrcType, DefaultAcl
  <2>2. kind = "skip" \/ kind \in {"fetch", "acl", "delete"}
    BY DEF Classify
  <2>3. faults' \in 0..MaxFaults
    <3>1. failed => faults < MaxFaults
      OBVIOUS
    <3>2. failed \in BOOLEAN
      OBVIOUS
    <3>3. faults' = IF failed THEN faults + 1 ELSE faults
      OBVIOUS
    <3> QED
      BY <3>1, <3>2, <3>3 DEF TypeOK
  <2>4. run' \in RunType
    BY <1>2
  <2>5. work' \in [Docs -> WorkType]
    <3>1. kind # "skip" => Task(kind, src[d], acl) \in WorkType
      BY <2>1, <2>2, <1>3
    <3> QED
      BY <3>1, <1>1
  <2> QED
    BY <2>3, <2>4, <2>5 DEF ListDoc, TypeOK, stores
<1>5. CASE ~Enumerated(d)
  <2>1. run' \in RunType /\ faults' = faults
    BY <1>2, <1>5 DEF ListDoc
  <2>2. work' \in [Docs -> WorkType]
    <3>1. Task("delete", src[d], DefaultAcl) \in WorkType
      BY <1>3 DEF DefaultAcl
    <3> QED
      BY <3>1, <1>1, <1>5 DEF ListDoc
  <2> QED
    BY <2>1, <2>2 DEF ListDoc, TypeOK, stores
<1> QED
  BY <1>4, <1>5

LEMMA PlanTyped ==
    ASSUME TypeOK, NEW token \in Times, NEW gone \in SUBSET Docs, NEW error \in BOOLEAN,
           Plan(token, gone, error)
    PROVE  run' \in RunType /\ work' \in [Docs -> WorkType]
<1> run \in RunType /\ work \in [Docs -> WorkType]
  BY DEF TypeOK
<1>1. {d \in run.skipped : InScope(d)} \in SUBSET Docs
  BY DEF RunType
<1>2. [run EXCEPT !.phase = "process", !.token = token, !.error = error,
                  !.todo = {}, !.skipped = {d \in @ : InScope(d)},
                  !.gone = IF Single THEN {} ELSE gone] \in RunType
  BY <1>1 DEF RunType
<1>3. [d \in Docs |-> IF InScope(d) THEN work[d] ELSE NoWork] \in [Docs -> WorkType]
  BY NoWorkTyped
<1> QED
  BY <1>2, <1>3, IdleTyped, NoWorkTyped DEF Plan

LEMMA EndListTyped == TypeOK /\ EndList => TypeOK'
<1> SUFFICES ASSUME TypeOK, EndList PROVE TypeOK'
  OBVIOUS
<1> DEFINE gone == IF FullScan(run) THEN Missing(run) ELSE {}
<1>1. NextCursor(run) \in Times
  BY DEF NextCursor, NoCursor, TypeOK, RunType
<1>2. gone \in SUBSET Docs
  BY DEF Missing
<1>3. Plan(NextCursor(run), gone, FALSE)
  BY DEF EndList
<1>4. run' \in RunType /\ work' \in [Docs -> WorkType]
  BY <1>1, <1>2, <1>3, PlanTyped
<1> QED
  BY <1>4 DEF EndList, TypeOK, stores

LEMMA ListFailsTyped == TypeOK /\ ListFails => TypeOK'
<1> SUFFICES ASSUME TypeOK, ListFails PROVE TypeOK'
  OBVIOUS
<1>0. NoCursor \in Times /\ {} \in SUBSET Docs /\ TRUE \in BOOLEAN
  BY DEF NoCursor
<1>1. run' \in RunType /\ work' \in [Docs -> WorkType]
  BY <1>0, PlanTyped DEF ListFails
<1>2. faults' \in 0..MaxFaults
  BY DEF ListFails, TypeOK
<1> QED
  BY <1>1, <1>2 DEF ListFails, TypeOK, stores

LEMMA ProcessTyped == TypeOK /\ ProcessNext => TypeOK'
<1> SUFFICES ASSUME TypeOK, NEW d \in Docs,
                    \/ DeleteIndex(d) \/ DeleteRow(d) \/ AclIndex(d) \/ Fetch(d)
                    \/ LateAcl(d) \/ WriteIndex(d) \/ WriteRow(d)
             PROVE  TypeOK'
  BY DEF ProcessNext
<1>0. /\ src[d] \in SrcType /\ points[d] \in IndexType /\ rows[d] \in IndexType
      /\ work[d] \in WorkType /\ run.prior[d] \in EntryType
  BY DEF TypeOK, RunType
<1>1. ASSUME NEW step \in Steps, Advance(d, step)
      PROVE  work' \in [Docs -> WorkType]
  <2>1. [work[d] EXCEPT !.step = step] \in WorkType
    BY <1>0 DEF WorkType
  <2> QED
    BY <1>1, <2>1 DEF Advance, TypeOK
<1>2. ASSUME RewriteAcl(d) PROVE points' \in [Docs -> IndexType]
  <2>1. [points[d] EXCEPT !.acl = work[d].acl] \in IndexType
    BY <1>0 DEF IndexType, WorkType
  <2> QED
    BY <1>2, <2>1 DEF RewriteAcl, TypeOK
<1>3. CASE DeleteIndex(d)
  <2>1. [points[d] EXCEPT !.state = "tomb"] \in IndexType
    BY <1>0 DEF IndexType
  <2>2. points' \in [Docs -> IndexType]
    BY <1>3, <2>1 DEF DeleteIndex, TypeOK
  <2> QED
    BY <1>1, <1>3, <2>2 DEF DeleteIndex, TypeOK, Steps
<1>4. CASE DeleteRow(d)
  <2>1. [rows[d] EXCEPT !.state = "tomb"] \in IndexType
    BY <1>0 DEF IndexType
  <2>2. rows' \in [Docs -> IndexType]
    BY <1>4, <2>1 DEF DeleteRow, TypeOK
  <2> QED
    BY <1>1, <1>4, <2>2 DEF DeleteRow, TypeOK, Steps
<1>5. CASE AclIndex(d)
  <2>1. [work[d] EXCEPT !.step = "row", !.content = run.prior[d].content] \in WorkType
    BY <1>0 DEF WorkType, EntryType, Steps
  <2>2. work' \in [Docs -> WorkType]
    BY <1>5, <2>1 DEF AclIndex, TypeOK
  <2> QED
    BY <1>2, <1>5, <2>2 DEF AclIndex, TypeOK
<1>6. CASE Fetch(d)
  <2>1. ASSUME NEW step \in Steps, NEW etag \in Times, NEW content \in Times
        PROVE  [work[d] EXCEPT !.etag = etag, !.content = content, !.step = step] \in WorkType
    BY <1>0 DEF WorkType
  <2>2. work' \in [Docs -> WorkType]
    <3> DEFINE entry == run.prior[d]
               same  == entry.state = "live" /\ Body(d) = entry.content /\ ~Forced
               next  == IF ~same THEN "write"
                        ELSE IF work[d].acl # entry.acl THEN "acl" ELSE "done"
    <3>1. CASE work' = [work EXCEPT ![d].step = "done", ![d].content = entry.content]
      <4>1. [work[d] EXCEPT !.step = "done", !.content = entry.content] \in WorkType
        BY <1>0 DEF WorkType, EntryType, Steps
      <4> QED
        BY <3>1, <4>1 DEF TypeOK
    <3>2. CASE Advance(d, "failed") \/ Advance(d, "done")
      BY <1>1, <3>2 DEF Steps
    <3>3. ASSUME NEW etag \in {work[d].etag, src[d].etag},
                 work' = [work EXCEPT ![d].etag = etag, ![d].content = Body(d),
                                      ![d].step = next]
          PROVE  work' \in [Docs -> WorkType]
      <4>1. etag \in Times /\ Body(d) \in Times /\ next \in Steps
        BY <1>0, <3>3 DEF WorkType, SrcType, Steps, Body, NoHash
      <4> HIDE DEF next
      <4>2. [work[d] EXCEPT !.etag = etag, !.content = Body(d), !.step = next] \in WorkType
        BY <2>1, <4>1
      <4> QED
        BY <3>3, <4>2 DEF TypeOK
    <3> QED
      BY <1>6, <3>1, <3>2, <3>3 DEF Fetch
  <2> QED
    BY <1>6, <2>2 DEF Fetch, TypeOK, stores
<1>7. CASE LateAcl(d)
  BY <1>1, <1>2, <1>7 DEF LateAcl, TypeOK, Steps
<1>8. CASE WriteIndex(d)
  <2>1. points' \in [Docs -> IndexType]
    BY <1>0, <1>8 DEF WriteIndex, TypeOK, IndexType, WorkType
  <2> QED
    BY <1>1, <1>8, <2>1 DEF WriteIndex, TypeOK, Steps
<1>9. CASE WriteRow(d)
  <2>1. rows' \in [Docs -> IndexType]
    BY <1>0, <1>9 DEF WriteRow, TypeOK, IndexType, WorkType
  <2> QED
    BY <1>1, <1>9, <2>1 DEF WriteRow, TypeOK, Steps
<1> QED
  BY <1>3, <1>4, <1>5, <1>6, <1>7, <1>8, <1>9

LEMMA FailDocTyped == ASSUME TypeOK, NEW d \in Docs, FailDoc(d) PROVE TypeOK'
<1>1. [work[d] EXCEPT !.step = "failed"] \in WorkType
  BY DEF TypeOK, WorkType, Steps
<1>2. work' \in [Docs -> WorkType] /\ faults' \in 0..MaxFaults
  BY <1>1 DEF FailDoc, Advance, TypeOK
<1> QED
  BY <1>2 DEF FailDoc, TypeOK, stores

LEMMA TombstoneTyped == ASSUME TypeOK, NEW d \in Docs, TombstoneMissing(d) PROVE TypeOK'
<1>1. [points[d] EXCEPT !.state = "tomb"] \in IndexType
  BY DEF TypeOK, IndexType
<1>2. points' \in [Docs -> IndexType]
  BY <1>1 DEF TombstoneMissing, TypeOK
<1>3. run' \in RunType
  BY DEF TombstoneMissing, TypeOK, RunType
<1> QED
  BY <1>2, <1>3 DEF TombstoneMissing, TypeOK

LEMMA FoldTyped == ASSUME TypeOK, NEW d \in Docs PROVE Fold(d) \in EntryType
<1>1. manifest[d] \in EntryType /\ work[d] \in WorkType
  BY DEF TypeOK
<1>2. OutcomeEntry(d) \in EntryType
  BY <1>1 DEF OutcomeEntry, EntryType, WorkType
<1>3. MarkDeleted(manifest[d]) \in EntryType
  BY <1>1 DEF MarkDeleted, EntryType
<1> QED
  BY <1>1, <1>2, <1>3 DEF Fold

LEMMA SaveTyped == TypeOK /\ SaveManifest => TypeOK'
<1> SUFFICES ASSUME TypeOK, SaveManifest PROVE TypeOK'
  OBVIOUS
<1>1. manifest' \in [Docs -> EntryType]
  BY FoldTyped DEF SaveManifest
<1>2. run' \in RunType
  BY DEF SaveManifest, TypeOK, RunType
<1> QED
  BY <1>1, <1>2 DEF SaveManifest, TypeOK

LEMMA RecordTyped == TypeOK /\ RecordRun => TypeOK'
<1> SUFFICES ASSUME TypeOK, RecordRun PROVE TypeOK'
  OBVIOUS
<1>1. cursor' \in Times /\ run.start \in Times
  BY DEF RecordRun, TypeOK, RunType
<1>2. Status \in {"succeeded", "partial", "failed"}
  BY DEF Status
<1>3. last' \in LastType
  BY <1>1, <1>2 DEF RecordRun, LastType
<1> QED
  BY <1>1, <1>3, IdleTyped, NoWorkTyped DEF RecordRun, TypeOK

LEMMA CrashTyped == TypeOK /\ Crash => TypeOK'
BY IdleTyped, NoWorkTyped DEF Crash, TypeOK, stores

LEMMA NextTyped == TypeOK /\ [Next]_vars => TypeOK'
<1>1. CASE UNCHANGED vars
  BY <1>1 DEF vars, TypeOK
<1>2. ASSUME TypeOK, RunNext PROVE TypeOK'
  BY <1>2, ListDocTyped, EndListTyped, ProcessTyped, TombstoneTyped, SaveTyped, RecordTyped
     DEF RunNext
<1>3. ASSUME TypeOK, FaultNext PROVE TypeOK'
  BY <1>3, ListFailsTyped, FailDocTyped, CrashTyped DEF FaultNext
<1> QED
  BY <1>1, <1>2, <1>3, SourceTyped, StartTyped DEF Next

\* Every reachable state is well formed: each document, entry and task has the
\* fields and the range the code gives it, whatever the source and the faults do.
THEOREM TypeCorrect == Spec => []TypeOK
<1> QED
  BY InitTyped, NextTyped, PTL DEF Spec

-----------------------------------------------------------------------------
(* SkipIsSound, from the inductive invariant IInv. *)

LEMMA InitInv == Init => IInv
<1> SUFFICES ASSUME Init, NEW d \in Docs PROVE DocInv(d)
  BY InitTyped DEF IInv
<1> QED
  BY DEF Init, DocInv, Versions, EtagNamesContent, HashVouches, GoneIsUnknown, TaskSound,
         PlanSound, InRun, NoEntry, NoHash, NoWork, Idle, Absent

\* A document none of whose state moved keeps its part of the invariant.
LEMMA Frame ==
    ASSUME NEW d \in Docs, DocInv(d),
           src'[d] = src[d], manifest' = manifest, points'[d] = points[d],
           work'[d] = work[d], run' = run, clock' = clock
    PROVE  DocInv(d)'
BY DEF DocInv, Versions, EtagNamesContent, HashVouches, GoneIsUnknown, TaskSound,
       PlanSound, InRun, Known, Listed, Served, FullScan

\* What every change of the source but "restore" guarantees: versions grow, and a
\* version that is not new is the one the document had, while it was listed.
LEMMA SourceStep ==
    ASSUME TypeOK, "restore" \notin Changes, NEW d \in Docs, Versions(d),
           \/ Edit(d) \/ Touch(d) \/ SetAcl(d) \/ RevertAcl(d)
           \/ Remove(d) \/ Upload(d) \/ Restore(d)
    PROVE  /\ clock' = clock + 1
           /\ \A e \in Docs \ {d} : src'[e] = src[e]
           /\ UNCHANGED <<points, manifest, run, work>>
           /\ src[d].content <= src'[d].content /\ src'[d].content <= clock'
           /\ src[d].etag <= src'[d].etag /\ src'[d].etag <= clock'
           /\ src'[d].etag <= clock =>
                 src'[d].etag = src[d].etag /\ src'[d].content = src[d].content
           /\ Listed(d)' /\ src'[d].etag <= clock => Listed(d)
           /\ Listed(d)' /\ src'[d].content <= clock =>
                 Listed(d) /\ src'[d].content = src[d].content
<1> src[d] \in SrcType /\ clock \in Nat /\ src \in [Docs -> SrcType]
  BY DEF TypeOK
<1> USE DEF Change, Versions, Listed, SrcType, stores
<1>1. CASE Edit(d)
  <2> PICK big \in BOOLEAN : Change(IF big THEN "grow" ELSE "edit", d,
        [src[d] EXCEPT !.etag = clock + 1, !.content = clock + 1, !.big = big])
    BY <1>1 DEF Edit
  <2>1. src' = [src EXCEPT ![d] = [[src[d] EXCEPT !.etag = clock + 1, !.content = clock + 1,
                                                  !.big = big]
                  EXCEPT !.mod = clock + 1, !.etag = IF Materialised THEN clock + 1 ELSE @]]
    OBVIOUS
  <2>2. clock' = clock + 1 /\ UNCHANGED <<points, manifest, run, work>>
    OBVIOUS
  <2> QED
    BY <2>1, <2>2
<1>2. CASE Touch(d)
  BY <1>2 DEF Touch
<1>3. CASE SetAcl(d)
  BY <1>3 DEF SetAcl
<1>4. CASE RevertAcl(d)
  <2> PICK old \in 1..(src[d].acl - 1) : Change("aclback", d, [src[d] EXCEPT !.acl = old])
    BY <1>4 DEF RevertAcl
  <2>1. src' = [src EXCEPT ![d] = [[src[d] EXCEPT !.acl = old]
                  EXCEPT !.mod = clock + 1, !.etag = IF Materialised THEN clock + 1 ELSE @]]
    OBVIOUS
  <2>2. clock' = clock + 1 /\ UNCHANGED <<points, manifest, run, work>>
    OBVIOUS
  <2> QED
    BY <2>1, <2>2
<1>5. CASE Remove(d)
  BY <1>5 DEF Remove
<1>6. CASE Upload(d)
  BY <1>6 DEF Upload
<1>7. CASE Restore(d)
  BY <1>7 DEF Restore
<1> QED
  BY <1>1, <1>2, <1>3, <1>4, <1>5, <1>6, <1>7

LEMMA SourceInv == "restore" \notin Changes /\ IInv /\ SourceNext => IInv'
<1> SUFFICES ASSUME "restore" \notin Changes, IInv, NEW d \in Docs,
                    \/ Edit(d) \/ Touch(d) \/ SetAcl(d) \/ RevertAcl(d)
                    \/ Remove(d) \/ Upload(d) \/ Restore(d)
             PROVE  IInv'
  BY DEF SourceNext
<1> TypeOK /\ TypeOK'
  BY SourceTyped DEF IInv, SourceNext
<1> SUFFICES ASSUME NEW e \in Docs PROVE DocInv(e)'
  BY DEF IInv
<1> DocInv(e) /\ DocInv(d)
  BY DEF IInv
<1>0. /\ src[e] \in SrcType /\ src'[e] \in SrcType /\ clock \in Nat /\ clock' \in Nat
      /\ manifest[e] \in EntryType /\ work[e] \in WorkType
  BY DEF TypeOK
<1> USE DEF SrcType, EntryType, WorkType
<1>1. CASE e # d
  <2>1. /\ clock' = clock + 1 /\ src'[e] = src[e]
        /\ UNCHANGED <<points, manifest, run, work>>
    BY <1>1, SourceStep DEF DocInv
  <2> QED
    BY <2>1, <1>0 DEF DocInv, Versions, EtagNamesContent, HashVouches, GoneIsUnknown,
         TaskSound, PlanSound, InRun, Known, Listed, Served, FullScan
<1>2. CASE e = d
  <2>1. Versions(d)
    BY DEF DocInv
  <2>2. /\ clock' = clock + 1
        /\ UNCHANGED <<points, manifest, run, work>>
        /\ src[e].content <= src'[e].content /\ src'[e].content <= clock'
        /\ src[e].etag <= src'[e].etag /\ src'[e].etag <= clock'
        /\ src'[e].etag <= clock =>
              src'[e].etag = src[e].etag /\ src'[e].content = src[e].content
        /\ Listed(e)' /\ src'[e].etag <= clock => Listed(e)
        /\ Listed(e)' /\ src'[e].content <= clock =>
              Listed(e) /\ src'[e].content = src[e].content
    BY <1>2, <2>1, SourceStep
  <2>3. Versions(e)'
    BY <1>0, <2>2 DEF DocInv, Versions
  <2>4. manifest[e].etag <= clock /\ manifest[e].content <= clock
    BY <1>0 DEF DocInv, Versions
  <2>5. EtagNamesContent(e)'
    BY <1>0, <2>2, <2>4 DEF DocInv, EtagNamesContent
  <2>6. Served(e) /\ src'[e].content = src[e].content => Served(e)'
    BY <2>2 DEF Served
  <2>7. HashVouches(e)'
    BY <1>0, <2>2, <2>4, <2>6 DEF DocInv, HashVouches
  <2>8. Known(e)' => Known(e)
    BY <1>0, <2>2, <2>4 DEF Known
  <2>9. GoneIsUnknown(e)'
    BY <2>2, <2>8 DEF DocInv, GoneIsUnknown
  <2>10. TaskSound(e)'
    <3> SUFFICES ASSUME InRun, work[e].step # "none" PROVE TaskSound(e)'
      BY <2>2 DEF TaskSound, InRun
    <3>1. work[e].etag <= clock /\ work[e].content <= clock
      BY <1>0 DEF DocInv, TaskSound, Versions
    <3> QED
      BY <1>0, <2>2, <2>6, <2>8, <3>1 DEF DocInv, TaskSound
  <2>11. PlanSound(e)'
    BY <2>2, <2>8 DEF DocInv, PlanSound, InRun, FullScan
  <2> QED
    BY <2>3, <2>5, <2>7, <2>9, <2>10, <2>11 DEF DocInv
<1> QED
  BY <1>1, <1>2

LEMMA StartInv == IInv /\ Start => IInv'
<1> SUFFICES ASSUME IInv, NEW mode \in ModeKinds, NEW d \in Docs \cup {NoDoc},
                    StartRun(mode, d), NEW e \in Docs
             PROVE  DocInv(e)'
  BY StartTyped DEF Start, IInv
<1> TypeOK /\ DocInv(e)
  BY DEF IInv
<1> DEFINE from == IF mode = "full" THEN NoCursor ELSE cursor
<1>1. run' = [Idle EXCEPT !.phase = "list", !.mode = mode, !.doc = d, !.from = from,
                          !.start = clock, !.prior = manifest, !.todo = Mentioned(from)]
  BY DEF StartRun
<1>2. /\ run'.phase = "list" /\ run'.prior = manifest /\ run'.from = from
      /\ run'.todo = Mentioned(from)
  BY <1>1 DEF Idle
<1>3. UNCHANGED <<src, manifest, points, work, clock>> /\ run.phase = "idle"
  BY DEF StartRun, stores
<1>4. FullScan(run') => e \in Mentioned(from)
  BY <1>2 DEF FullScan, Mentioned
<1>5. work[e].step = "none"
  BY <1>3 DEF DocInv, PlanSound
<1>6. TaskSound(e)' /\ PlanSound(e)'
  BY <1>2, <1>3, <1>4, <1>5 DEF TaskSound, PlanSound, InRun, FullScan
<1> QED
  BY <1>3, <1>6 DEF DocInv, Versions, EtagNamesContent, HashVouches, GoneIsUnknown,
       Known, Listed, Served

\* The outcomes of listing one document: skipped, made a task, or not mentioned.
LEMMA ListDocCases ==
    ASSUME TypeOK, NEW d \in Docs, ListDoc(d)
    PROVE  \/ /\ run' = [run EXCEPT !.todo = @ \ {d}, !.seen = @ \cup {d},
                                    !.skipped = @ \cup {d}]
              /\ work' = work
           \/ /\ run' = [run EXCEPT !.todo = @ \ {d}, !.seen = @ \cup {d}]
              /\ \E kind \in {"fetch", "acl", "delete"}, acl \in Times :
                   /\ work' = [work EXCEPT ![d] = Task(kind, src[d], acl)]
                   /\ kind = "delete" => ~Listed(d)
                   /\ kind = "acl" => /\ run.prior[d].state = "live"
                                     /\ src[d].etag = run.prior[d].etag
           \/ /\ run' = [run EXCEPT !.todo = @ \ {d}]
              /\ work' = work
              /\ ~Listed(d)
<1> src[d] \in SrcType
  BY DEF TypeOK
<1>1. CASE Enumerated(d)
  <2> PICK failed \in IF "aclread" \in Faults /\ ~Materialised /\ faults < MaxFaults
                      THEN BOOLEAN ELSE {FALSE} :
        LET acl  == IF failed THEN DefaultAcl ELSE src[d].acl
            kind == Classify(run.prior[d], src[d], acl, Forced)
        IN  /\ faults' = IF failed THEN faults + 1 ELSE faults
            /\ IF kind = "skip"
               THEN /\ run' = [run EXCEPT !.todo = @ \ {d}, !.seen = @ \cup {d},
                                          !.skipped = @ \cup {d}]
                    /\ UNCHANGED work
               ELSE /\ run' = [run EXCEPT !.todo = @ \ {d}, !.seen = @ \cup {d}]
                    /\ work' = [work EXCEPT ![d] = Task(kind, src[d], acl)]
    BY <1>1 DEF ListDoc
  <2> DEFINE acl == IF failed THEN DefaultAcl ELSE src[d].acl
             kind == Classify(run.prior[d], src[d], acl, Forced)
  <2>1. acl \in Times
    BY DEF SrcType, DefaultAcl
  <2>2. /\ kind \in {"fetch", "acl", "skip"}
        /\ kind = "acl" => run.prior[d].state = "live" /\ src[d].etag = run.prior[d].etag
    BY DEF Classify
  <2> HIDE DEF acl, kind
  <2>3. CASE kind = "skip"
    BY <2>3 DEF kind, acl
  <2>4. CASE kind # "skip"
    <3>1. /\ run' = [run EXCEPT !.todo = @ \ {d}, !.seen = @ \cup {d}]
          /\ work' = [work EXCEPT ![d] = Task(kind, src[d], acl)]
      BY <2>4 DEF kind, acl
    <3> QED
      BY <2>1, <2>2, <2>4, <3>1
  <2> QED
    BY <2>3, <2>4
<1>2. CASE ~Enumerated(d)
  <2>1. DefaultAcl \in Times
    BY DEF DefaultAcl
  <2>2. ~Listed(d)
    BY <1>2 DEF Listed, Enumerated
  <2> QED
    BY <1>2, <2>1, <2>2 DEF ListDoc
<1> QED
  BY <1>1, <1>2

LEMMA ListDocInv == ASSUME IInv, NEW d \in Docs, ListDoc(d) PROVE IInv'
<1> TypeOK /\ TypeOK'
  BY ListDocTyped DEF IInv
<1> SUFFICES ASSUME NEW e \in Docs PROVE DocInv(e)'
  BY DEF IInv
<1>1. DocInv(e) /\ DocInv(d)
  BY DEF IInv
<1>2. /\ src[d] \in SrcType /\ manifest[d] \in EntryType /\ work \in [Docs -> WorkType]
      /\ run \in RunType
  BY DEF TypeOK
<1>3. /\ run.phase = "list" /\ d \in run.todo
      /\ UNCHANGED <<src, manifest, points, clock>>
  BY DEF ListDoc, stores
<1>4. work[d].step = "none" /\ run.prior = manifest
  BY <1>1, <1>3 DEF DocInv, PlanSound, InRun
<1>5. /\ run'.phase = "list" /\ run'.prior = run.prior /\ run'.todo = run.todo \ {d}
      /\ run'.from = run.from /\ run.seen \subseteq run'.seen
      /\ run'.seen \subseteq run.seen \cup {d}
      /\ \A x \in Docs \ {d} : work'[x] = work[x]
  <2> DEFINE r1 == [run EXCEPT !.todo = @ \ {d}, !.seen = @ \cup {d},
                               !.skipped = @ \cup {d}]
             r2 == [run EXCEPT !.todo = @ \ {d}, !.seen = @ \cup {d}]
             r3 == [run EXCEPT !.todo = @ \ {d}]
             Kept(r) == /\ r.phase = run.phase /\ r.prior = run.prior
                        /\ r.todo = run.todo \ {d} /\ r.from = run.from
                        /\ run.seen \subseteq r.seen /\ r.seen \subseteq run.seen \cup {d}
  <2>1. /\ run' = r1 \/ run' = r2 \/ run' = r3
        /\ \A x \in Docs \ {d} : work'[x] = work[x]
    BY <1>2, ListDocCases
  <2>2. Kept(r1)
    BY <1>2 DEF RunType
  <2>3. Kept(r2)
    BY <1>2 DEF RunType
  <2>4. Kept(r3)
    BY <1>2 DEF RunType
  <2> HIDE DEF r1, r2, r3
  <2> QED
    BY <1>3, <2>1, <2>2, <2>3, <2>4
<1>6. CASE e # d
  <2>1. TaskSound(e)'
    BY <1>1, <1>3, <1>5, <1>6 DEF DocInv, TaskSound, InRun, Known, Listed, Served
  <2>2. PlanSound(e)'
    BY <1>1, <1>3, <1>4, <1>5, <1>6 DEF DocInv, PlanSound, InRun, FullScan, Known, Listed
  <2> QED
    BY <1>1, <1>3, <2>1, <2>2
       DEF DocInv, Versions, EtagNamesContent, HashVouches, GoneIsUnknown, Known, Listed, Served
<1>7. CASE e = d
  <2>1. \/ /\ work' = work
           /\ d \in run'.seen \/ ~Listed(d)
        \/ \E kind \in {"fetch", "acl", "delete"}, acl \in Times :
             /\ work'[d] = Task(kind, src[d], acl)
             /\ d \in run'.seen
             /\ kind = "delete" => ~Listed(d)
             /\ kind = "acl" => run.prior[d].state = "live" /\ src[d].etag = run.prior[d].etag
    <3> DEFINE r1 == [run EXCEPT !.todo = @ \ {d}, !.seen = @ \cup {d},
                                 !.skipped = @ \cup {d}]
               r2 == [run EXCEPT !.todo = @ \ {d}, !.seen = @ \cup {d}]
    <3>1. d \in r1.seen /\ d \in r2.seen
      BY <1>2 DEF RunType
    <3>2. CASE run' = r2 /\ \E kind \in {"fetch", "acl", "delete"}, acl \in Times :
                 /\ work' = [work EXCEPT ![d] = Task(kind, src[d], acl)]
                 /\ kind = "delete" => ~Listed(d)
                 /\ kind = "acl" => /\ run.prior[d].state = "live"
                                   /\ src[d].etag = run.prior[d].etag
      <4> HIDE DEF r2
      <4>1. PICK kind \in {"fetch", "acl", "delete"}, acl \in Times :
                 /\ work' = [work EXCEPT ![d] = Task(kind, src[d], acl)]
                 /\ kind = "delete" => ~Listed(d)
                 /\ kind = "acl" => /\ run.prior[d].state = "live"
                                   /\ src[d].etag = run.prior[d].etag
        BY <3>2
      <4>2. work'[d] = Task(kind, src[d], acl)
        BY <1>2, <4>1
      <4> QED
        BY <3>1, <3>2, <4>1, <4>2
    <3>3. CASE run' = r1 /\ work' = work
      BY <3>1, <3>3
    <3> QED
      BY <3>2, <3>3, ListDocCases
  <2>2. TaskSound(d)'
    <3>1. CASE work' = work
      BY <1>4, <3>1 DEF TaskSound
    <3>2. ASSUME NEW kind \in {"fetch", "acl", "delete"}, NEW acl \in Times,
                 work'[d] = Task(kind, src[d], acl), d \in run'.seen,
                 kind = "delete" => ~Listed(d),
                 kind = "acl" => run.prior[d].state = "live" /\ src[d].etag = run.prior[d].etag
          PROVE  TaskSound(d)'
      <4>1. /\ work'[d].step = "todo" /\ work'[d].kind = kind /\ work'[d].etag = src[d].etag
            /\ work'[d].content \in {NoHash, src[d].content}
        BY <3>2 DEF Task, NoWork
      <4> QED
        BY <1>1, <1>2, <1>3, <1>4, <3>2, <4>1
           DEF TaskSound, DocInv, Versions, Known, Listed, NoHash, SrcType, EntryType
    <3> QED
      BY <2>1, <3>1, <3>2
  <2>3. PlanSound(d)'
    <3>1. work'[d].step \in {"none", "todo"}
      BY <1>4, <2>1 DEF Task, NoWork
    <3>2. d \in run'.seen \/ ~Known(d)'
      BY <1>3, <2>1 DEF Known, Listed
    <3> QED
      BY <1>4, <1>3, <1>5, <3>1, <3>2 DEF PlanSound, InRun, FullScan
  <2> QED
    BY <1>1, <1>3, <1>7, <2>2, <2>3
       DEF DocInv, Versions, EtagNamesContent, HashVouches, GoneIsUnknown, Known, Listed, Served
<1> QED
  BY <1>6, <1>7

\* A run that ends or dies leaves its writes, and they are sound by themselves.
LEMMA ResetInv ==
    ASSUME IInv, UNCHANGED <<clock, src, points, manifest>>,
           run' = Idle, work' = [d \in Docs |-> NoWork], NEW d \in Docs
    PROVE  DocInv(d)'
<1> DocInv(d)
  BY DEF IInv
<1>1. work'[d].step = "none" /\ run'.phase = "idle"
  BY DEF NoWork, Idle
<1> QED
  BY <1>1 DEF DocInv, Versions, EtagNamesContent, HashVouches, GoneIsUnknown, TaskSound,
       PlanSound, InRun, Known, Listed, Served

LEMMA PlanInv ==
    ASSUME IInv, run.phase = "list", UNCHANGED <<clock, src, points, manifest>>,
           NEW token, NEW gone, NEW error, Plan(token, gone, error),
           \A d \in Docs : d \in gone => ~Known(d) /\ work[d].step = "none",
           NEW d \in Docs
    PROVE  DocInv(d)'
<1>1. DocInv(d) /\ run \in RunType
  BY DEF IInv, TypeOK
<1>2. CASE run' = Idle /\ work' = [x \in Docs |-> NoWork]
  BY <1>2, ResetInv
<1>3. CASE /\ run' = [run EXCEPT !.phase = "process", !.token = token, !.error = error,
                               !.todo = {}, !.skipped = {x \in @ : InScope(x)},
                               !.gone = IF Single THEN {} ELSE gone]
           /\ work' = [x \in Docs |-> IF InScope(x) THEN work[x] ELSE NoWork]
  <2>1. /\ run'.phase = "process" /\ run'.prior = run.prior /\ run'.seen = run.seen
        /\ d \in run'.gone => d \in gone
    BY <1>1, <1>3 DEF RunType
  <2>2. work'[d] = work[d] \/ work'[d] = NoWork
    BY <1>3
  <2>3. TaskSound(d)'
    <3>1. CASE work'[d] = NoWork
      BY <3>1 DEF TaskSound, NoWork
    <3>2. CASE work'[d] = work[d]
      BY <1>1, <2>1, <3>2 DEF DocInv, TaskSound, InRun, Known, Listed, Served
    <3> QED
      BY <2>2, <3>1, <3>2
  <2>4. PlanSound(d)'
    BY <1>1, <2>1, <2>2 DEF DocInv, PlanSound, InRun, NoWork, Known, Listed
  <2> QED
    BY <1>1, <2>3, <2>4
       DEF DocInv, Versions, EtagNamesContent, HashVouches, GoneIsUnknown, Known, Listed, Served
<1> QED
  BY <1>2, <1>3 DEF Plan

LEMMA EndListInv == IInv /\ EndList => IInv'
<1> SUFFICES ASSUME IInv, EndList, NEW d \in Docs PROVE DocInv(d)'
  BY EndListTyped DEF IInv
<1> DEFINE gone == IF FullScan(run) THEN Missing(run) ELSE {}
<1>1. ASSUME NEW x \in Docs, x \in gone PROVE ~Known(x) /\ work[x].step = "none"
  <2>1. FullScan(run) /\ x \notin run.seen /\ run.todo = {} /\ run.phase = "list"
    BY <1>1 DEF Missing, EndList
  <2> QED
    BY <2>1 DEF IInv, DocInv, PlanSound, TaskSound, InRun
<1>2. Plan(NextCursor(run), gone, FALSE) /\ run.phase = "list"
  BY DEF EndList
<1>3. UNCHANGED <<clock, src, points, manifest>>
  BY DEF EndList, stores
<1> HIDE DEF gone
<1> QED
  BY <1>1, <1>2, <1>3, PlanInv

LEMMA ListFailsInv == IInv /\ ListFails => IInv'
<1> SUFFICES ASSUME IInv, ListFails, NEW d \in Docs PROVE DocInv(d)'
  BY ListFailsTyped DEF IInv
<1> DEFINE gone == {}
<1>1. Plan(NoCursor, gone, TRUE) /\ run.phase = "list"
  BY DEF ListFails
<1>2. UNCHANGED <<clock, src, points, manifest>>
  BY DEF ListFails, stores
<1>3. \A x \in Docs : x \in gone => ~Known(x) /\ work[x].step = "none"
  OBVIOUS
<1> HIDE DEF gone
<1> QED
  BY <1>1, <1>2, <1>3, PlanInv

LEMMA ResetStepsInv == IInv /\ (RecordRun \/ Crash) => IInv'
<1> SUFFICES ASSUME IInv, RecordRun \/ Crash, NEW d \in Docs PROVE DocInv(d)'
  BY RecordTyped, CrashTyped DEF IInv
<1> QED
  BY ResetInv DEF RecordRun, Crash, stores

\* A step of one document's task leaves the other documents alone.
LEMMA TaskStepInv ==
    ASSUME IInv, NEW d \in Docs, UNCHANGED <<clock, src, manifest, run>>,
           \A x \in Docs \ {d} : points'[x] = points[x] /\ work'[x] = work[x],
           DocInv(d)', NEW e \in Docs
    PROVE  DocInv(e)'
BY Frame DEF IInv

LEMMA ProcessInv == IInv /\ ProcessNext => IInv'
<1> SUFFICES ASSUME IInv, NEW d \in Docs,
                    \/ DeleteIndex(d) \/ DeleteRow(d) \/ AclIndex(d) \/ Fetch(d)
                    \/ LateAcl(d) \/ WriteIndex(d) \/ WriteRow(d)
             PROVE  IInv'
  BY DEF ProcessNext
<1>0. TypeOK /\ TypeOK' /\ DocInv(d)
  BY ProcessTyped DEF IInv, ProcessNext
<1>1. /\ src[d] \in SrcType /\ manifest[d] \in EntryType /\ work[d] \in WorkType
      /\ points[d] \in IndexType /\ clock \in Nat
      /\ work \in [Docs -> WorkType] /\ points \in [Docs -> IndexType]
  BY <1>0 DEF TypeOK
<1>2. /\ UNCHANGED <<clock, src, manifest, run>>
      /\ \A x \in Docs \ {d} : points'[x] = points[x] /\ work'[x] = work[x]
      /\ run.phase = "process" /\ work[d].step # "none"
  <2> USE <1>1 DEF stores, Advance, RewriteAcl, Ready
  <2>1. CASE DeleteIndex(d)
    BY <2>1 DEF DeleteIndex
  <2>2. CASE DeleteRow(d)
    BY <2>2 DEF DeleteRow
  <2>3. CASE AclIndex(d)
    BY <2>3 DEF AclIndex
  <2>4. CASE Fetch(d)
    BY <2>4 DEF Fetch
  <2>5. CASE LateAcl(d)
    BY <2>5 DEF LateAcl
  <2>6. CASE WriteIndex(d)
    BY <2>6 DEF WriteIndex
  <2>7. CASE WriteRow(d)
    BY <2>7 DEF WriteRow
  <2> QED
    BY <2>1, <2>2, <2>3, <2>4, <2>5, <2>6, <2>7
<1>3. run.prior = manifest
  BY <1>0, <1>2 DEF DocInv, PlanSound, InRun
<1>4. /\ Versions(d)' /\ EtagNamesContent(d)' /\ GoneIsUnknown(d)'
      /\ Known(d)' <=> Known(d)
      /\ Listed(d)' <=> Listed(d)
  BY <1>0, <1>2 DEF DocInv, Versions, EtagNamesContent, GoneIsUnknown, Known, Listed
<1>5. PlanSound(d)'
  BY <1>0, <1>2, <1>4 DEF DocInv, PlanSound, InRun, FullScan
<1>6. ASSUME TaskSound(d)', HashVouches(d)' PROVE IInv'
  <2>1. DocInv(d)'
    BY <1>4, <1>5, <1>6 DEF DocInv
  <2> QED
    BY <1>0, <1>2, <2>1, TaskStepInv DEF IInv
<1>7. InRun /\ InRun' /\ TaskSound(d)
  BY <1>0, <1>2 DEF InRun, DocInv
<1>8. ASSUME points'[d] = points[d] PROVE HashVouches(d)' /\ (Served(d)' <=> Served(d))
  BY <1>0, <1>2, <1>8 DEF DocInv, HashVouches, Served, Listed
<1>9. ASSUME RewriteAcl(d) PROVE HashVouches(d)' /\ (Served(d)' <=> Served(d))
  <2>1. points'[d].state = points[d].state /\ points'[d].content = points[d].content
    BY <1>1, <1>9 DEF RewriteAcl, IndexType
  <2> QED
    BY <1>0, <1>2, <2>1 DEF DocInv, HashVouches, Served, Listed
<1> USE DEF WorkType, EntryType, SrcType, NoHash
<1>10. CASE DeleteIndex(d)
  <2>1. /\ work[d].kind = "delete" /\ work'[d] = [work[d] EXCEPT !.step = "row"]
    BY <1>1, <1>10 DEF DeleteIndex, Ready, Advance
  <2>2. ~Known(d)
    BY <1>2, <1>7, <2>1 DEF TaskSound
  <2>3. HashVouches(d)'
    BY <1>2, <1>4, <2>2 DEF HashVouches, Known
  <2>4. TaskSound(d)'
    BY <1>1, <1>2, <1>4, <1>7, <2>1 DEF TaskSound
  <2> QED
    BY <1>6, <2>3, <2>4
<1>11. CASE DeleteRow(d)
  <2>1. /\ work[d].kind = "delete" /\ work'[d] = [work[d] EXCEPT !.step = "deleted"]
    BY <1>1, <1>11 DEF DeleteRow, Ready, Advance
  <2>2. TaskSound(d)'
    BY <1>1, <1>2, <1>4, <1>7, <2>1 DEF TaskSound
  <2> QED
    BY <1>6, <1>8, <1>11, <2>2 DEF DeleteRow
<1>12. CASE AclIndex(d)
  <2>1. /\ work[d].kind = "acl" /\ work[d].step = "todo"
        /\ work'[d] = [work[d] EXCEPT !.step = "row", !.content = manifest[d].content]
    BY <1>1, <1>3, <1>12 DEF AclIndex, Ready
  <2>2. HashVouches(d)' /\ (Served(d)' <=> Served(d))
    BY <1>9, <1>12 DEF AclIndex
  <2>3. TaskSound(d)'
    BY <1>0, <1>1, <1>2, <1>4, <1>7, <2>1, <2>2
       DEF TaskSound, DocInv, HashVouches, EtagNamesContent, Versions
  <2> QED
    BY <1>6, <2>2, <2>3
<1>13. CASE LateAcl(d)
  <2>1. work[d].kind = "fetch" /\ work[d].step = "acl" /\ work'[d] = [work[d] EXCEPT !.step = "done"]
    BY <1>1, <1>13 DEF LateAcl, Ready, Advance
  <2>2. HashVouches(d)' /\ (Served(d)' <=> Served(d))
    BY <1>9, <1>13 DEF LateAcl
  <2>3. TaskSound(d)'
    BY <1>1, <1>2, <1>4, <1>7, <2>1, <2>2 DEF TaskSound
  <2> QED
    BY <1>6, <2>2, <2>3
<1>14. CASE WriteRow(d)
  <2>1. /\ work[d].kind \in {"fetch", "acl"} /\ work[d].step = "row"
        /\ work'[d] = [work[d] EXCEPT !.step = "done"]
    BY <1>1, <1>14 DEF WriteRow, Ready, Advance
  <2>2. HashVouches(d)' /\ (Served(d)' <=> Served(d))
    BY <1>8, <1>14 DEF WriteRow
  <2>3. TaskSound(d)'
    BY <1>1, <1>2, <1>4, <1>7, <2>1, <2>2 DEF TaskSound
  <2> QED
    BY <1>6, <2>2, <2>3
<1>15. CASE WriteIndex(d)
  <2>1. /\ work[d].kind = "fetch" /\ work[d].step = "write"
        /\ work'[d] = [work[d] EXCEPT !.step = "row"]
        /\ points'[d].state = "live" /\ points'[d].content = work[d].content
    BY <1>1, <1>15 DEF WriteIndex, Ready, Advance
  <2>2. manifest[d].content <= work[d].content /\ work[d].content <= src[d].content
    BY <1>2, <1>7, <2>1 DEF TaskSound
  <2>3. HashVouches(d)'
    BY <1>1, <1>2, <2>1, <2>2, SMTT(25) DEF HashVouches, Served
  <2>4. TaskSound(d)'
    BY <1>1, <1>2, <1>4, <1>7, <2>1 DEF TaskSound, Served
  <2> QED
    BY <1>6, <2>3, <2>4
<1>16. CASE Fetch(d)
  <2>1. /\ work[d].kind = "fetch" /\ work[d].step = "todo"
        /\ points' = points
    BY <1>16 DEF Fetch, Ready, stores
  <2>2. HashVouches(d)' /\ (Served(d)' <=> Served(d))
    BY <1>8, <2>1
  <2>3. TaskSound(d)'
    <3> DEFINE entry == manifest[d]
               same  == entry.state = "live" /\ Body(d) = entry.content /\ ~Forced
               next  == IF ~same THEN "write"
                        ELSE IF work[d].acl # entry.acl THEN "acl" ELSE "done"
    <3>1. CASE /\ entry.state # "none" /\ entry.etag = work[d].etag
               /\ work' = [work EXCEPT ![d].step = "done", ![d].content = entry.content]
      <4>1. work'[d] = [work[d] EXCEPT !.step = "done", !.content = entry.content]
        BY <1>1, <3>1
      <4>2. Listed(d) /\ entry.content = src[d].content => entry.state = "live"
        BY <1>0, <1>1, <3>1 DEF DocInv, GoneIsUnknown, Known
      <4> QED
        BY <1>0, <1>1, <1>2, <1>4, <1>7, <2>1, <2>2, <3>1, <4>1, <4>2
           DEF TaskSound, DocInv, HashVouches, EtagNamesContent, Versions
    <3>2. CASE Advance(d, "failed")
      <4>1. work'[d] = [work[d] EXCEPT !.step = "failed"]
        BY <1>1, <3>2 DEF Advance
      <4> QED
        BY <1>1, <1>2, <1>4, <1>7, <2>1, <4>1 DEF TaskSound
    <3>3. CASE Body(d) = NoHash /\ Advance(d, "done")
      <4>1. work'[d] = [work[d] EXCEPT !.step = "done"]
        BY <1>1, <3>3 DEF Advance
      <4>2. work[d].content = NoHash \/ ~Listed(d)
        BY <1>0, <1>1, <3>3 DEF Body, Listed, DocInv, Versions
      <4>3. 1 <= src[d].content
        BY <1>0 DEF DocInv, Versions
      <4> QED
        BY <1>1, <1>2, <1>4, <1>7, <2>1, <4>1, <4>2, <4>3 DEF TaskSound
    <3>4. ASSUME NEW etag \in IF Materialised THEN {work[d].etag} ELSE {work[d].etag, src[d].etag},
                 Body(d) # NoHash,
                 work' = [work EXCEPT ![d].etag = etag, ![d].content = Body(d),
                                      ![d].step = next]
          PROVE  TaskSound(d)'
      <4>1. work'[d] = [work[d] EXCEPT !.etag = etag, !.content = Body(d), !.step = next]
        BY <1>1, <3>4
      <4>2. /\ work[d].etag <= etag /\ etag <= src[d].etag /\ manifest[d].etag <= etag
            /\ manifest[d].content <= Body(d) /\ Body(d) <= src[d].content
            /\ etag = src[d].etag => Body(d) = src[d].content
        BY <1>0, <1>1, <1>2, <1>7, <2>1, <3>4 DEF DocInv, TaskSound, Versions, Body
      <4>3. next # "write" /\ Listed(d) /\ Body(d) = src[d].content => Served(d)
        BY <1>0 DEF DocInv, HashVouches
      <4>4. next \in {"write", "acl", "done"}
        OBVIOUS
      <4> HIDE DEF next
      <4>5. /\ work'[d].kind = "fetch" /\ work'[d].etag = etag
            /\ work'[d].content = Body(d) /\ work'[d].step = next
        BY <1>1, <2>1, <4>1
      <4> QED
        BY <1>1, <1>2, <1>4, <1>7, <2>2, <3>4, <4>2, <4>3, <4>4, <4>5 DEF TaskSound
    <3> QED
      BY <1>3, <1>16, <3>1, <3>2, <3>3, <3>4 DEF Fetch
  <2> QED
    BY <1>6, <2>2, <2>3
<1> QED
  BY <1>10, <1>11, <1>12, <1>13, <1>14, <1>15, <1>16

LEMMA FailDocInv == ASSUME IInv, NEW d \in Docs, FailDoc(d) PROVE IInv'
<1> TypeOK'
  BY FailDocTyped DEF IInv
<1>1. DocInv(d) /\ work \in [Docs -> WorkType]
  BY DEF IInv, TypeOK
<1>2. UNCHANGED <<clock, src, points, manifest, run>> /\ run.phase = "process"
  BY DEF FailDoc, stores
<1>3. work'[d] = [work[d] EXCEPT !.step = "failed"] /\ work[d].step # "none"
  BY <1>1 DEF FailDoc, Advance
<1>4. \A x \in Docs \ {d} : work'[x] = work[x]
  BY <1>1 DEF FailDoc, Advance
<1>5. TaskSound(d)'
  BY <1>1, <1>2, <1>3 DEF DocInv, TaskSound, WorkType, InRun, Known, Listed
<1>6. PlanSound(d)'
  BY <1>1, <1>2, <1>3 DEF DocInv, PlanSound, InRun, FullScan
<1>7. DocInv(d)'
  BY <1>1, <1>2, <1>5, <1>6
     DEF DocInv, Versions, EtagNamesContent, HashVouches, GoneIsUnknown, Known, Listed, Served
<1> QED
  BY <1>2, <1>4, <1>7, TaskStepInv DEF IInv

LEMMA TombstoneInv == ASSUME IInv, NEW d \in Docs, TombstoneMissing(d) PROVE IInv'
<1> TypeOK'
  BY TombstoneTyped DEF IInv
<1> SUFFICES ASSUME NEW e \in Docs PROVE DocInv(e)'
  BY DEF IInv
<1>1. DocInv(e) /\ run \in RunType /\ points \in [Docs -> IndexType]
  BY DEF IInv, TypeOK
<1>2. UNCHANGED <<clock, src, manifest, work>> /\ run.phase = "process" /\ d \in run.gone
  BY DEF TombstoneMissing
<1>3. /\ run'.phase = "process" /\ run'.prior = run.prior /\ run'.seen = run.seen
      /\ run'.gone = run.gone
  BY <1>1, <1>2 DEF TombstoneMissing, RunType
<1>4. PlanSound(e)'
  BY <1>1, <1>2, <1>3 DEF DocInv, PlanSound, InRun, Known, Listed
<1>5. HashVouches(e)' /\ TaskSound(e)'
  <2>1. CASE e \in run.gone
    <3>1. ~Known(e) /\ work[e].step = "none"
      BY <1>1, <1>2, <2>1 DEF DocInv, PlanSound
    <3> QED
      BY <1>2, <3>1 DEF HashVouches, TaskSound, Known, Listed
  <2>2. CASE e \notin run.gone
    <3>1. points'[e] = points[e]
      BY <1>1, <1>2, <2>2 DEF TombstoneMissing
    <3> QED
      BY <1>1, <1>2, <1>3, <3>1 DEF DocInv, HashVouches, TaskSound, InRun, Known, Listed, Served
  <2> QED
    BY <2>1, <2>2
<1> QED
  BY <1>1, <1>2, <1>4, <1>5 DEF DocInv, Versions, EtagNamesContent, GoneIsUnknown, Known, Listed

LEMMA SaveInv == IInv /\ SaveManifest => IInv'
<1> SUFFICES ASSUME IInv, SaveManifest, NEW d \in Docs PROVE DocInv(d)'
  BY SaveTyped DEF IInv
<1>1. /\ DocInv(d) /\ src[d] \in SrcType /\ manifest[d] \in EntryType /\ work[d] \in WorkType
      /\ run \in RunType /\ clock \in Nat
  BY DEF IInv, TypeOK
<1>2. /\ UNCHANGED <<clock, src, points, work>> /\ run.phase = "process" /\ run'.phase = "record"
      /\ manifest'[d] = Fold(d)
  BY <1>1 DEF SaveManifest, RunType
<1>3. TaskSound(d)' /\ PlanSound(d)'
  BY <1>2 DEF TaskSound, PlanSound, InRun
<1> USE DEF EntryType, WorkType, SrcType, NoHash
<1>4. CASE work[d].step = "done"
  <2>1. /\ manifest'[d].state = "live" /\ manifest'[d].etag = work[d].etag
        /\ manifest'[d].content = work[d].content
    BY <1>2, <1>4 DEF Fold, OutcomeEntry
  <2>2. /\ work[d].etag <= src[d].etag /\ work[d].content <= src[d].content
        /\ work[d].content # NoHash /\ work[d].etag = src[d].etag
              => work[d].content = src[d].content
        /\ Listed(d) /\ work[d].content = src[d].content => Served(d)
    BY <1>1, <1>2, <1>4 DEF DocInv, TaskSound, InRun
  <2> QED
    BY <1>1, <1>2, <1>3, <2>1, <2>2
       DEF DocInv, Versions, EtagNamesContent, HashVouches, GoneIsUnknown, Listed, Served
<1>5. CASE work[d].step # "done" /\ (work[d].step = "deleted" \/ d \in run.gone)
  <2>1. ~Known(d)
    BY <1>1, <1>2, <1>5 DEF DocInv, TaskSound, PlanSound, InRun
  <2>2. /\ manifest'[d].etag = manifest[d].etag /\ manifest'[d].content = manifest[d].content
        /\ manifest'[d].state \in {"none", "gone"}
        /\ manifest'[d].state # "none" <=> manifest[d].state # "none"
    BY <1>1, <1>2, <1>5 DEF Fold, MarkDeleted
  <2> QED
    BY <1>1, <1>2, <1>3, <2>1, <2>2
       DEF DocInv, Versions, EtagNamesContent, HashVouches, GoneIsUnknown, Known, Listed
<1>6. CASE work[d].step \notin {"done", "deleted"} /\ d \notin run.gone
  <2>1. manifest'[d] = manifest[d]
    BY <1>2, <1>6 DEF Fold
  <2> QED
    BY <1>1, <1>2, <1>3, <2>1
       DEF DocInv, Versions, EtagNamesContent, HashVouches, GoneIsUnknown, Known, Listed, Served
<1> QED
  BY <1>4, <1>5, <1>6

LEMMA NextInv == "restore" \notin Changes /\ IInv /\ [Next]_vars => IInv'
<1>1. ASSUME IInv, UNCHANGED vars PROVE IInv'
  <2>1. TypeOK'
    BY <1>1, NextTyped DEF IInv
  <2>2. ASSUME NEW d \in Docs PROVE DocInv(d)'
    BY <1>1, <2>2, Frame DEF vars, IInv
  <2> QED
    BY <2>1, <2>2 DEF IInv
<1>2. ASSUME IInv, RunNext PROVE IInv'
  BY <1>2, ListDocInv, EndListInv, ProcessInv, TombstoneInv, SaveInv, ResetStepsInv DEF RunNext
<1>3. ASSUME IInv, FaultNext PROVE IInv'
  BY <1>3, ListFailsInv, FailDocInv, ResetStepsInv DEF FaultNext
<1> QED
  BY <1>1, <1>2, <1>3, SourceInv, StartInv DEF Next

\* IInv holds of every run over a source that never brings a document back under
\* its old ETag, whatever the connector, the triggers and the failures are.
THEOREM Inductive == "restore" \notin Changes /\ Spec => []IInv
<1>1. ASSUME "restore" \notin Changes PROVE IInv /\ [Next]_vars => IInv'
  BY <1>1, NextInv
<1>2. ASSUME "restore" \notin Changes PROVE Spec => []IInv
  BY <1>1, <1>2, InitInv, PTL DEF Spec
<1> QED
  BY <1>2

\* SkipIsSound for every number of documents, changes and failures: the next plan
\* never skips the download of a document the index does not serve as it is.
THEOREM SkipSoundness == "restore" \notin Changes /\ Spec => []SkipIsSound
<1>1. ASSUME IInv, NEW d \in Docs, Unmoved(d) PROVE Served(d)
  <2>1. EtagNamesContent(d) /\ HashVouches(d)
    BY <1>1 DEF IInv, DocInv
  <2> QED
    BY <1>1, <2>1 DEF EtagNamesContent, HashVouches, Unmoved
<1>2. IInv => SkipIsSound
  BY <1>1 DEF SkipIsSound, Served
<1> QED
  BY <1>2, Inductive, PTL

-----------------------------------------------------------------------------
(* HidesOnlyTheMissing, from the invariant HideInv. *)

LEMMA HideInit == Init => HideInv
<1> SUFFICES ASSUME Init PROVE HideInv
  OBVIOUS
<1>1. run.start <= clock
  BY DEF Init, Idle
<1>2. ASSUME NEW d \in Docs PROVE HideSound(d)
  BY DEF Init, HideSound, NoWork, Idle
<1> QED
  BY <1>1, <1>2, InitTyped DEF HideInv

\* What a change of the source does to the documents, for any kind of change.
LEMMA ChangeMoves ==
    ASSUME TypeOK, NEW kind, NEW d \in Docs, NEW new \in SrcType, Change(kind, d, new)
    PROVE  /\ clock' = clock + 1
           /\ UNCHANGED <<run, work>>
           /\ src'[d].mod = clock'
           /\ \A e \in Docs \ {d} : src'[e] = src[e]
<1>1. [new EXCEPT !.mod = clock + 1,
                  !.etag = IF Materialised THEN clock + 1 ELSE @].mod = clock + 1
  BY DEF SrcType
<1> QED
  BY <1>1 DEF Change, TypeOK

LEMMA SourceMoves ==
    ASSUME TypeOK, SourceNext
    PROVE  \E d \in Docs : /\ clock' = clock + 1
                           /\ UNCHANGED <<run, work>>
                           /\ src'[d].mod = clock'
                           /\ \A e \in Docs \ {d} : src'[e] = src[e]
<1> SUFFICES ASSUME NEW d \in Docs,
                    \/ Edit(d) \/ Touch(d) \/ SetAcl(d) \/ RevertAcl(d)
                    \/ Remove(d) \/ Upload(d) \/ Restore(d)
             PROVE  \E kind : \E new \in SrcType : Change(kind, d, new)
  BY ChangeMoves DEF SourceNext
<1>0. src[d] \in SrcType /\ clock \in Nat
  BY DEF TypeOK
<1>1. clock + 1 \in Times
  <2>1. clock < MaxClock
    BY DEF Edit, Touch, SetAcl, RevertAcl, Remove, Upload, Restore, Change
  <2> QED
    BY <1>0, <2>1, ConstantsAssumption
<1>2. CASE Edit(d)
  <2> PICK big \in BOOLEAN : Change(IF big THEN "grow" ELSE "edit", d,
        [src[d] EXCEPT !.etag = clock + 1, !.content = clock + 1, !.big = big])
    BY <1>2 DEF Edit
  <2>1. [src[d] EXCEPT !.etag = clock + 1, !.content = clock + 1, !.big = big] \in SrcType
    BY <1>0, <1>1 DEF SrcType
  <2> QED
    BY <2>1
<1>3. CASE Touch(d)
  <2>1. [src[d] EXCEPT !.etag = clock + 1] \in SrcType
    BY <1>0, <1>1 DEF SrcType
  <2> QED
    BY <1>3, <2>1 DEF Touch
<1>4. CASE SetAcl(d)
  <2>1. [src[d] EXCEPT !.acl = clock + 1] \in SrcType
    BY <1>0, <1>1 DEF SrcType
  <2> QED
    BY <1>4, <2>1 DEF SetAcl
<1>5. CASE RevertAcl(d)
  <2> PICK old \in 1..(src[d].acl - 1) : Change("aclback", d, [src[d] EXCEPT !.acl = old])
    BY <1>5 DEF RevertAcl
  <2>1. [src[d] EXCEPT !.acl = old] \in SrcType
    BY <1>0 DEF SrcType
  <2> QED
    BY <2>1
<1>6. CASE Remove(d)
  <2>1. [src[d] EXCEPT !.present = FALSE] \in SrcType
    BY <1>0 DEF SrcType
  <2> QED
    BY <1>6, <2>1 DEF Remove
<1>7. CASE Upload(d)
  <2>1. [present |-> TRUE, big |-> FALSE, etag |-> clock + 1, content |-> clock + 1,
         acl |-> clock + 1, mod |-> 0] \in SrcType
    BY <1>1 DEF SrcType
  <2> QED
    BY <1>7, <2>1 DEF Upload
<1>8. CASE Restore(d)
  <2>1. [src[d] EXCEPT !.present = TRUE] \in SrcType
    BY <1>0 DEF SrcType
  <2> QED
    BY <1>8, <2>1 DEF Restore
<1> QED
  BY <1>2, <1>3, <1>4, <1>5, <1>6, <1>7, <1>8

LEMMA HideSource == HideInv /\ SourceNext => HideInv'
<1> SUFFICES ASSUME HideInv, SourceNext PROVE HideInv'
  OBVIOUS
<1>1. TypeOK /\ TypeOK'
  BY SourceTyped DEF HideInv
<1>2. PICK d \in Docs : /\ clock' = clock + 1
                        /\ UNCHANGED <<run, work>>
                        /\ src'[d].mod = clock'
                        /\ \A e \in Docs \ {d} : src'[e] = src[e]
  BY <1>1, SourceMoves
<1>3. run.start \in Nat /\ clock \in Nat /\ run.start <= clock
  BY <1>1 DEF TypeOK, RunType, HideInv
<1>4. ASSUME NEW e \in Docs PROVE HideSound(e)'
  <2>1. HideSound(e) /\ src[e].mod \in Nat
    BY <1>1 DEF HideInv, TypeOK, SrcType
  <2>2. MayHide(e) => MayHide(e)'
    <3>1. CASE e = d
      BY <1>2, <1>3, <3>1 DEF MayHide
    <3>2. CASE e # d
      BY <1>2, <3>2 DEF MayHide, Listed
    <3> QED
      BY <3>1, <3>2
  <2>3. src'[e].mod <= clock'
    BY <1>2, <1>3, <2>1 DEF HideSound
  <2> QED
    BY <1>2, <2>1, <2>2, <2>3 DEF HideSound, FullScan
<1> QED
  BY <1>1, <1>2, <1>3, <1>4 DEF HideInv

LEMMA HideStart == HideInv /\ Start => HideInv'
<1> SUFFICES ASSUME HideInv, NEW mode \in ModeKinds, NEW d \in Docs \cup {NoDoc},
                    StartRun(mode, d)
             PROVE  HideInv'
  BY DEF Start
<1>1. TypeOK /\ TypeOK'
  BY StartTyped DEF HideInv, Start
<1> DEFINE from == IF mode = "full" THEN NoCursor ELSE cursor
<1>2. run' = [Idle EXCEPT !.phase = "list", !.mode = mode, !.doc = d, !.from = from,
                          !.start = clock, !.prior = manifest, !.todo = Mentioned(from)]
  BY DEF StartRun
<1>3. /\ run'.phase = "list" /\ run'.from = from /\ run'.todo = Mentioned(from)
      /\ run'.start = clock
  BY <1>2 DEF Idle
<1>4. UNCHANGED <<src, work, clock>> /\ run.phase = "idle"
  BY DEF StartRun
<1>5. ASSUME NEW e \in Docs PROVE HideSound(e)'
  <2>1. FullScan(run') => e \in Mentioned(from)
    BY <1>3 DEF FullScan, Mentioned
  <2>2. work[e] = NoWork /\ src[e].mod <= clock
    BY <1>4 DEF HideInv, HideSound
  <2> QED
    BY <1>3, <1>4, <2>1, <2>2 DEF HideSound, NoWork, FullScan
<1> QED
  BY <1>1, <1>3, <1>4, <1>5 DEF HideInv, TypeOK

LEMMA HideListDoc == ASSUME HideInv, NEW d \in Docs, ListDoc(d) PROVE HideInv'
<1>1. TypeOK /\ TypeOK'
  BY ListDocTyped DEF HideInv
<1>2. UNCHANGED <<clock, src>> /\ run \in RunType /\ run.phase = "list"
  BY <1>1 DEF ListDoc, TypeOK
<1>3. /\ run'.phase = "list" /\ run'.start = run.start /\ run'.from = run.from
      /\ run'.gone = run.gone /\ run'.todo = run.todo \ {d}
      /\ \/ d \in run'.seen \/ ~Listed(d)
      /\ \A e \in Docs \ {d} : work'[e] = work[e] /\ (e \in run'.seen <=> e \in run.seen)
  <2> DEFINE r1 == [run EXCEPT !.todo = @ \ {d}, !.seen = @ \cup {d},
                               !.skipped = @ \cup {d}]
             r2 == [run EXCEPT !.todo = @ \ {d}, !.seen = @ \cup {d}]
             r3 == [run EXCEPT !.todo = @ \ {d}]
             Kept(r) == /\ r.phase = run.phase /\ r.start = run.start /\ r.from = run.from
                        /\ r.gone = run.gone /\ r.todo = run.todo \ {d}
                        /\ \A e \in Docs \ {d} : e \in r.seen <=> e \in run.seen
  <2>1. Kept(r1) /\ d \in r1.seen
    BY <1>2 DEF RunType
  <2>2. Kept(r2) /\ d \in r2.seen
    BY <1>2 DEF RunType
  <2>3. Kept(r3)
    BY <1>2 DEF RunType
  <2>4. \/ run' = r1 /\ work' = work
        \/ run' = r2 /\ \E new : work' = [work EXCEPT ![d] = new]
        \/ run' = r3 /\ work' = work /\ ~Listed(d)
    BY <1>1, ListDocCases
  <2>5. \A e \in Docs \ {d} : work'[e] = work[e]
    BY <1>1, <2>4 DEF TypeOK
  <2> HIDE DEF r1, r2, r3
  <2> QED
    BY <1>2, <2>1, <2>2, <2>3, <2>4, <2>5
<1>4. work'[d].kind = "delete" => work[d].kind = "delete" \/ ~Listed(d)
  <2>1. ASSUME NEW kind \in {"fetch", "acl", "delete"}, NEW acl \in Times,
               work' = [work EXCEPT ![d] = Task(kind, src[d], acl)]
        PROVE  work'[d].kind = kind
    BY <1>1, <2>1 DEF TypeOK, Task, NoWork
  <2> QED
    BY <1>1, <2>1, ListDocCases
<1>5. ASSUME NEW e \in Docs PROVE HideSound(e)'
  <2>1. HideSound(e)
    BY DEF HideInv
  <2>2. CASE e = d
    BY <1>2, <1>3, <1>4, <2>1, <2>2 DEF HideSound, MayHide, Listed
  <2>3. CASE e # d
    BY <1>2, <1>3, <2>1, <2>3 DEF HideSound, MayHide, Listed, FullScan
  <2> QED
    BY <2>2, <2>3
<1> QED
  BY <1>1, <1>2, <1>3, <1>5 DEF HideInv

\* The run ends, or dies: nothing it planned survives.
LEMMA HideReset ==
    ASSUME HideInv, TypeOK', UNCHANGED <<clock, src>>,
           run' = Idle, work' = [d \in Docs |-> NoWork]
    PROVE  HideInv'
<1>1. run'.start <= clock' /\ run'.phase = "idle"
  BY DEF Idle, HideInv, TypeOK
<1>2. ASSUME NEW d \in Docs PROVE HideSound(d)'
  BY <1>1 DEF HideInv, HideSound
<1> QED
  BY <1>1, <1>2 DEF HideInv

\* A step of the run keeps the deletions it has planned and adds only sound ones.
LEMMA HideStep ==
    ASSUME HideInv, TypeOK', UNCHANGED <<clock, src>>, run'.start = run.start,
           run.phase \in {"list", "process"}, run'.phase \in {"process", "record"},
           \A d \in Docs : /\ work'[d].kind = "delete" => work[d].kind = "delete"
                           /\ d \in run'.gone => MayHide(d)
    PROVE  HideInv'
<1>1. ASSUME NEW d \in Docs PROVE HideSound(d)'
  BY DEF HideInv, HideSound, MayHide, Listed
<1> QED
  BY <1>1 DEF HideInv

LEMMA HidePlan ==
    ASSUME HideInv, TypeOK', run.phase = "list", UNCHANGED <<clock, src>>,
           NEW token, NEW gone, NEW error, Plan(token, gone, error),
           \A d \in Docs : d \in gone => MayHide(d)
    PROVE  HideInv'
<1>1. CASE run' = Idle /\ work' = [d \in Docs |-> NoWork]
  BY <1>1, HideReset
<1>2. CASE /\ run' = [run EXCEPT !.phase = "process", !.token = token, !.error = error,
                               !.todo = {}, !.skipped = {x \in @ : InScope(x)},
                               !.gone = IF Single THEN {} ELSE gone]
           /\ work' = [x \in Docs |-> IF InScope(x) THEN work[x] ELSE NoWork]
  <2>1. /\ run'.phase = "process" /\ run'.start = run.start
        /\ \A d \in Docs : d \in run'.gone => d \in gone
    BY <1>2 DEF HideInv, TypeOK, RunType
  <2>2. ASSUME NEW d \in Docs, work'[d].kind = "delete" PROVE work[d].kind = "delete"
    BY <1>2, <2>2 DEF NoWork
  <2> QED
    BY <2>1, <2>2, HideStep
<1> QED
  BY <1>1, <1>2 DEF Plan

LEMMA HideEndList == HideInv /\ EndList => HideInv'
<1> SUFFICES ASSUME HideInv, EndList PROVE HideInv'
  OBVIOUS
<1> DEFINE gone == IF FullScan(run) THEN Missing(run) ELSE {}
<1>1. ASSUME NEW d \in Docs, d \in gone PROVE MayHide(d)
  <2>1. FullScan(run) /\ d \notin run.seen /\ run.todo = {} /\ run.phase = "list"
    BY <1>1 DEF Missing, EndList
  <2> QED
    BY <2>1 DEF HideInv, HideSound
<1>2. Plan(NextCursor(run), gone, FALSE) /\ run.phase = "list" /\ TypeOK'
  BY EndListTyped DEF EndList, HideInv
<1>3. UNCHANGED <<clock, src>>
  BY DEF EndList
<1> HIDE DEF gone
<1> QED
  BY <1>1, <1>2, <1>3, HidePlan

LEMMA HideListFails == HideInv /\ ListFails => HideInv'
<1> SUFFICES ASSUME HideInv, ListFails PROVE HideInv'
  OBVIOUS
<1> DEFINE gone == {}
<1>1. Plan(NoCursor, gone, TRUE) /\ run.phase = "list" /\ TypeOK'
  BY ListFailsTyped DEF ListFails, HideInv
<1>2. UNCHANGED <<clock, src>> /\ \A d \in Docs : d \in gone => MayHide(d)
  BY DEF ListFails
<1> HIDE DEF gone
<1> QED
  BY <1>1, <1>2, HidePlan

LEMMA HideProcess == HideInv /\ ProcessNext => HideInv'
<1> SUFFICES ASSUME HideInv, NEW d \in Docs,
                    \/ DeleteIndex(d) \/ DeleteRow(d) \/ AclIndex(d) \/ Fetch(d)
                    \/ LateAcl(d) \/ WriteIndex(d) \/ WriteRow(d)
             PROVE  HideInv'
  BY DEF ProcessNext
<1>1. TypeOK /\ TypeOK' /\ work \in [Docs -> WorkType]
  BY ProcessTyped DEF HideInv, ProcessNext, TypeOK
<1>2. /\ UNCHANGED <<clock, src, run>> /\ run.phase = "process"
      /\ \A e \in Docs : work'[e].kind = work[e].kind
  <2> USE <1>1 DEF Advance, Ready, WorkType
  <2>1. CASE DeleteIndex(d)
    BY <2>1 DEF DeleteIndex
  <2>2. CASE DeleteRow(d)
    BY <2>2 DEF DeleteRow
  <2>3. CASE AclIndex(d)
    BY <2>3 DEF AclIndex
  <2>4. CASE Fetch(d)
    <3> DEFINE entry == run.prior[d]
               same  == entry.state = "live" /\ Body(d) = entry.content /\ ~Forced
               next  == IF ~same THEN "write"
                        ELSE IF work[d].acl # entry.acl THEN "acl" ELSE "done"
    <3>0. UNCHANGED <<clock, src, run>> /\ run.phase = "process"
      BY <2>4 DEF Fetch, stores
    <3>1. CASE work' = [work EXCEPT ![d].step = "done", ![d].content = entry.content]
      BY <3>0, <3>1
    <3>2. CASE Advance(d, "failed") \/ Advance(d, "done")
      BY <3>0, <3>2
    <3>3. ASSUME NEW etag,
                 work' = [work EXCEPT ![d].etag = etag, ![d].content = Body(d),
                                      ![d].step = next]
          PROVE  \A e \in Docs : work'[e].kind = work[e].kind
      <4> HIDE DEF next
      <4> QED
        BY <3>3
    <3> QED
      BY <2>4, <3>0, <3>1, <3>2, <3>3 DEF Fetch
  <2>5. CASE LateAcl(d)
    BY <2>5 DEF LateAcl
  <2>6. CASE WriteIndex(d)
    BY <2>6 DEF WriteIndex
  <2>7. CASE WriteRow(d)
    BY <2>7 DEF WriteRow
  <2> QED
    BY <2>1, <2>2, <2>3, <2>4, <2>5, <2>6, <2>7
<1>3. ASSUME NEW e \in Docs, e \in run'.gone PROVE MayHide(e)
  BY <1>2, <1>3 DEF HideInv, HideSound
<1> QED
  BY <1>1, <1>2, <1>3, HideStep

\* The remaining steps of a run, and the failures.
LEMMA HideRest ==
    HideInv /\ (\/ \E d \in Docs : TombstoneMissing(d) \/ FailDoc(d)
               \/ SaveManifest \/ RecordRun \/ Crash) => HideInv'
<1> SUFFICES ASSUME HideInv PROVE (\/ \E d \in Docs : TombstoneMissing(d) \/ FailDoc(d)
                                  \/ SaveManifest \/ RecordRun \/ Crash) => HideInv'
  OBVIOUS
<1>0. TypeOK /\ run \in RunType /\ work \in [Docs -> WorkType]
  BY DEF HideInv, TypeOK
<1>1. ASSUME NEW d \in Docs, d \in run.gone, run.phase = "process" PROVE MayHide(d)
  BY <1>1 DEF HideInv, HideSound
<1>2. ASSUME NEW d \in Docs, TombstoneMissing(d) PROVE HideInv'
  <2>1. run'.start = run.start /\ run'.phase = "process" /\ run'.gone = run.gone
    BY <1>0, <1>2 DEF TombstoneMissing, RunType
  <2> QED
    BY <1>0, <1>1, <1>2, <2>1, HideStep, TombstoneTyped DEF TombstoneMissing
<1>3. ASSUME NEW d \in Docs, FailDoc(d) PROVE HideInv'
  <2>1. \A e \in Docs : work'[e].kind = work[e].kind
    BY <1>0, <1>3 DEF FailDoc, Advance, WorkType
  <2> QED
    BY <1>0, <1>1, <1>3, <2>1, HideStep, FailDocTyped DEF FailDoc
<1>4. ASSUME SaveManifest PROVE HideInv'
  <2>1. run'.start = run.start /\ run'.phase = "record" /\ run'.gone = run.gone
    BY <1>0, <1>4 DEF SaveManifest, RunType
  <2> QED
    BY <1>0, <1>1, <1>4, <2>1, HideStep, SaveTyped DEF SaveManifest
<1>5. ASSUME RecordRun \/ Crash PROVE HideInv'
  BY <1>0, <1>5, HideReset, RecordTyped, CrashTyped DEF RecordRun, Crash
<1> QED
  BY <1>2, <1>3, <1>4, <1>5

LEMMA HideNext == HideInv /\ [Next]_vars => HideInv'
<1>1. ASSUME HideInv, UNCHANGED vars PROVE HideInv'
  <2>1. ASSUME NEW d \in Docs PROVE HideSound(d)'
    BY <1>1 DEF vars, HideInv, HideSound, MayHide, Listed, FullScan
  <2> QED
    BY <1>1, <2>1, NextTyped DEF vars, HideInv
<1>2. ASSUME HideInv, RunNext PROVE HideInv'
  BY <1>2, HideListDoc, HideEndList, HideProcess, HideRest DEF RunNext
<1>3. ASSUME HideInv, FaultNext PROVE HideInv'
  BY <1>3, HideListFails, HideRest DEF FaultNext
<1> QED
  BY <1>1, <1>2, <1>3, HideSource, HideStart DEF Next

\* HidesOnlyTheMissing for every number of documents, connector, trigger and failure:
\* a pass tombstones the points of no document that it merely did not look at.
THEOREM HidesSoundly == Spec => HidesOnlyTheMissing
<1>1. ASSUME HideInv, [Next]_vars, NEW d \in Docs,
             points[d].state = "live", points'[d].state = "tomb"
      PROVE  MayHide(d)
  <2>0. TypeOK /\ points \in [Docs -> IndexType] /\ HideSound(d)
    BY <1>1 DEF HideInv, TypeOK
  <2>1. \/ run.phase = "process" /\ work[d].kind = "delete"
        \/ run.phase = "process" /\ d \in run.gone
    <3>1. PICK e \in Docs : TombstoneMissing(e) \/ ProcessNext
      BY <1>1 DEF Next, RunNext, FaultNext, SourceNext, Start, vars, stores, Edit, Touch,
           SetAcl, RevertAcl, Remove, Upload, Restore, Change, StartRun, ListDoc, EndList,
           ListFails, SaveManifest, RecordRun, FailDoc, Crash
    <3>2. CASE TombstoneMissing(e)
      BY <1>1, <2>0, <3>2 DEF TombstoneMissing
    <3>3. CASE ProcessNext
      <4> PICK x \in Docs : \/ DeleteIndex(x) \/ DeleteRow(x) \/ AclIndex(x) \/ Fetch(x)
                            \/ LateAcl(x) \/ WriteIndex(x) \/ WriteRow(x)
        BY <3>3 DEF ProcessNext
      <4> USE <1>1, <2>0 DEF IndexType, stores, RewriteAcl, Ready
      <4>1. CASE DeleteIndex(x)
        BY <4>1 DEF DeleteIndex
      <4>2. CASE DeleteRow(x)
        BY <4>2 DEF DeleteRow
      <4>3. CASE AclIndex(x)
        BY <4>3 DEF AclIndex
      <4>4. CASE Fetch(x)
        BY <4>4 DEF Fetch
      <4>5. CASE LateAcl(x)
        BY <4>5 DEF LateAcl
      <4>6. CASE WriteIndex(x)
        BY <4>6 DEF WriteIndex
      <4>7. CASE WriteRow(x)
        BY <4>7 DEF WriteRow
      <4> QED
        BY <4>1, <4>2, <4>3, <4>4, <4>5, <4>6, <4>7
    <3> QED
      BY <3>1, <3>2, <3>3
  <2> QED
    BY <2>0, <2>1 DEF HideSound
<1>2. HideInv /\ [Next]_vars
        => [\A d \in Docs : points[d].state = "live" /\ points'[d].state = "tomb"
             => ~Listed(d) \/ src[d].mod > run.start]_vars
  BY <1>1 DEF MayHide
<1> QED
  BY <1>2, HideInit, HideNext, PTL DEF Spec, HidesOnlyTheMissing

-----------------------------------------------------------------------------
(* RowNeverAheadOfIndex, from the invariant RowInv. *)

LEMMA RowInit == Init => RowInv
<1> SUFFICES ASSUME Init, NEW d \in Docs PROVE StoresOrdered(d) /\ TaskOrdered(d) /\ RunOrdered(d)
  BY InitTyped DEF RowInv
<1> QED
  BY DEF Init, StoresOrdered, TaskOrdered, RunOrdered, InRun, Unhashed, NoEntry, NoHash, NoWork, Idle, Absent

\* A document none of whose state moved keeps its part of the invariant.
LEMMA RowFrame ==
    ASSUME NEW d \in Docs, StoresOrdered(d), TaskOrdered(d),
           src'[d] = src[d], manifest'[d] = manifest[d], points'[d] = points[d], rows'[d] = rows[d],
           work'[d] = work[d], clock <= clock', clock \in Nat, clock' \in Nat, src[d] \in SrcType, InRun' => InRun
    PROVE  StoresOrdered(d)' /\ TaskOrdered(d)'
BY DEF StoresOrdered, TaskOrdered, Unhashed, SrcType

\* What every change of the source guarantees: versions grow, a document that becomes
\* too large gets a new ETag, and so does a row with every change.
LEMMA SourceGrows ==
    ASSUME TypeOK, NEW d \in Docs, src[d].etag <= clock, src[d].content <= clock, 1 <= src[d].content,
           \/ Edit(d) \/ Touch(d) \/ SetAcl(d) \/ RevertAcl(d)
           \/ Remove(d) \/ Upload(d) \/ Restore(d)
    PROVE  /\ clock' = clock + 1
           /\ \A e \in Docs \ {d} : src'[e] = src[e]
           /\ UNCHANGED <<stores, run, work>>
           /\ src[d].content <= src'[d].content /\ src'[d].content <= clock'
           /\ src[d].etag <= src'[d].etag /\ src'[d].etag <= clock'
           /\ (Materialised \/ (src'[d].big /\ ~src[d].big)) => src[d].etag < src'[d].etag
<1> src[d] \in SrcType /\ clock \in Nat /\ src \in [Docs -> SrcType]
  BY DEF TypeOK
<1> USE DEF Change, SrcType
<1>1. CASE Edit(d)
  <2> PICK big \in BOOLEAN : Change(IF big THEN "grow" ELSE "edit", d,
        [src[d] EXCEPT !.etag = clock + 1, !.content = clock + 1, !.big = big])
    BY <1>1 DEF Edit
  <2>1. src' = [src EXCEPT ![d] = [[src[d] EXCEPT !.etag = clock + 1, !.content = clock + 1,
                                                  !.big = big]
                  EXCEPT !.mod = clock + 1, !.etag = IF Materialised THEN clock + 1 ELSE @]]
    OBVIOUS
  <2>2. clock' = clock + 1 /\ UNCHANGED <<stores, run, work>>
    OBVIOUS
  <2> QED
    BY <2>1, <2>2
<1>2. CASE Touch(d)
  BY <1>2 DEF Touch
<1>3. CASE SetAcl(d)
  BY <1>3 DEF SetAcl
<1>4. CASE RevertAcl(d)
  <2> PICK old \in 1..(src[d].acl - 1) : Change("aclback", d, [src[d] EXCEPT !.acl = old])
    BY <1>4 DEF RevertAcl
  <2>1. src' = [src EXCEPT ![d] = [[src[d] EXCEPT !.acl = old]
                  EXCEPT !.mod = clock + 1, !.etag = IF Materialised THEN clock + 1 ELSE @]]
    OBVIOUS
  <2>2. clock' = clock + 1 /\ UNCHANGED <<stores, run, work>>
    OBVIOUS
  <2> QED
    BY <2>1, <2>2
<1>5. CASE Remove(d)
  BY <1>5 DEF Remove
<1>6. CASE Upload(d)
  BY <1>6 DEF Upload
<1>7. CASE Restore(d)
  BY <1>7 DEF Restore
<1> QED
  BY <1>1, <1>2, <1>3, <1>4, <1>5, <1>6, <1>7

LEMMA RowSource == RowInv /\ SourceNext => RowInv'
<1> SUFFICES ASSUME RowInv, NEW d \in Docs,
                    \/ Edit(d) \/ Touch(d) \/ SetAcl(d) \/ RevertAcl(d)
                    \/ Remove(d) \/ Upload(d) \/ Restore(d),
                    NEW e \in Docs
             PROVE  StoresOrdered(e)' /\ TaskOrdered(e)' /\ RunOrdered(e)'
  BY SourceTyped DEF RowInv, SourceNext
<1> TypeOK /\ TypeOK'
  BY SourceTyped DEF RowInv, SourceNext
<1>1. StoresOrdered(e) /\ TaskOrdered(e) /\ RunOrdered(e) /\ StoresOrdered(d)
  BY DEF RowInv
<1>2. /\ src[e] \in SrcType /\ src'[e] \in SrcType /\ clock \in Nat /\ clock' \in Nat
      /\ manifest[e] \in EntryType /\ work[e] \in WorkType /\ points[e] \in IndexType
  BY DEF TypeOK
<1>3. src[d].etag <= clock /\ src[d].content <= clock /\ 1 <= src[d].content
  BY <1>1 DEF StoresOrdered
<1>4. /\ clock' = clock + 1
      /\ \A x \in Docs \ {d} : src'[x] = src[x]
      /\ UNCHANGED <<points, rows, manifest, run, work>>
      /\ src[d].content <= src'[d].content /\ src'[d].content <= clock'
      /\ src[d].etag <= src'[d].etag /\ src'[d].etag <= clock'
      /\ (Materialised \/ (src'[d].big /\ ~src[d].big)) => src[d].etag < src'[d].etag
  BY <1>3, SourceGrows DEF stores
<1>5. RunOrdered(e)'
  BY <1>1, <1>4 DEF RunOrdered, InRun
<1>6. CASE e # d
  BY <1>1, <1>2, <1>4, <1>5, <1>6, RowFrame DEF InRun
<1>7. CASE e = d
  <2>1. \A etag, acl \in Times : etag <= src[e].etag /\ Unhashed(e, etag, acl) => Unhashed(e, etag, acl)'
    BY <1>2, <1>4, <1>7 DEF Unhashed, SrcType
  <2>2. StoresOrdered(e)'
    BY <1>1, <1>2, <1>4, <1>7, <2>1 DEF StoresOrdered, SrcType, EntryType, IndexType
  <2>3. TaskOrdered(e)'
    BY <1>1, <1>2, <1>4, <1>7, <2>1 DEF TaskOrdered, SrcType, WorkType, InRun
  <2> QED
    BY <1>5, <2>2, <2>3
<1> QED
  BY <1>6, <1>7

LEMMA RowStart == RowInv /\ Start => RowInv'
<1> SUFFICES ASSUME RowInv, NEW mode \in ModeKinds, NEW d \in Docs \cup {NoDoc},
                    StartRun(mode, d), NEW e \in Docs
             PROVE  StoresOrdered(e)' /\ TaskOrdered(e)' /\ RunOrdered(e)'
  BY StartTyped DEF Start, RowInv
<1>1. StoresOrdered(e) /\ RunOrdered(e)
  BY DEF RowInv
<1> DEFINE from == IF mode = "full" THEN NoCursor ELSE cursor
<1>2. run' = [Idle EXCEPT !.phase = "list", !.mode = mode, !.doc = d, !.from = from,
                          !.start = clock, !.prior = manifest, !.todo = Mentioned(from)]
  BY DEF StartRun
<1>3. run'.phase = "list" /\ run'.prior = manifest
  BY <1>2 DEF Idle
<1>4. UNCHANGED <<src, manifest, points, rows, work, clock>> /\ run.phase = "idle"
  BY DEF StartRun, stores
<1> QED
  BY <1>1, <1>3, <1>4 DEF StoresOrdered, TaskOrdered, RunOrdered, Unhashed

\* The task that listing one document makes, if it makes one.
LEMMA ListDocTask ==
    ASSUME TypeOK, NEW d \in Docs, ListDoc(d)
    PROVE  /\ run'.phase = "list" /\ run'.prior = run.prior
           /\ \/ work' = work
              \/ \E kind \in {"fetch", "acl", "delete"}, acl \in Times :
                   /\ work' = [work EXCEPT ![d] = Task(kind, src[d], acl)]
                   /\ kind # "delete" => /\ ~Materialised => ~src[d].big
                                         /\ Materialised => acl = src[d].acl
                   /\ kind = "acl" => /\ src[d].etag = run.prior[d].etag
                                      /\ acl # run.prior[d].acl
                                      /\ run.prior[d].state = "live"
<1> src[d] \in SrcType /\ run \in RunType
  BY DEF TypeOK
<1>0. run'.phase = "list" /\ run'.prior = run.prior
  <2> DEFINE r1 == [run EXCEPT !.todo = @ \ {d}, !.seen = @ \cup {d}, !.skipped = @ \cup {d}]
             r2 == [run EXCEPT !.todo = @ \ {d}, !.seen = @ \cup {d}]
             r3 == [run EXCEPT !.todo = @ \ {d}]
  <2>1. r1.phase = run.phase /\ r1.prior = run.prior
    BY DEF RunType
  <2>2. r2.phase = run.phase /\ r2.prior = run.prior
    BY DEF RunType
  <2>3. r3.phase = run.phase /\ r3.prior = run.prior
    BY DEF RunType
  <2>4. run' = r1 \/ run' = r2 \/ run' = r3
    BY ListDocCases
  <2>5. run.phase = "list"
    BY DEF ListDoc
  <2> HIDE DEF r1, r2, r3
  <2> QED
    BY <2>1, <2>2, <2>3, <2>4, <2>5
<1>1. CASE Enumerated(d)
  <2> PICK failed \in IF "aclread" \in Faults /\ ~Materialised /\ faults < MaxFaults
                      THEN BOOLEAN ELSE {FALSE} :
        LET acl  == IF failed THEN DefaultAcl ELSE src[d].acl
            kind == Classify(run.prior[d], src[d], acl, Forced)
        IN  /\ faults' = IF failed THEN faults + 1 ELSE faults
            /\ IF kind = "skip"
               THEN /\ run' = [run EXCEPT !.todo = @ \ {d}, !.seen = @ \cup {d},
                                          !.skipped = @ \cup {d}]
                    /\ UNCHANGED work
               ELSE /\ run' = [run EXCEPT !.todo = @ \ {d}, !.seen = @ \cup {d}]
                    /\ work' = [work EXCEPT ![d] = Task(kind, src[d], acl)]
    BY <1>1 DEF ListDoc
  <2> DEFINE acl == IF failed THEN DefaultAcl ELSE src[d].acl
             kind == Classify(run.prior[d], src[d], acl, Forced)
  <2>0. failed \in BOOLEAN /\ (Materialised => ~failed)
    OBVIOUS
  <2>1. acl \in Times /\ (Materialised => acl = src[d].acl)
    BY <2>0 DEF SrcType, DefaultAcl
  <2>2. /\ kind \in {"fetch", "acl", "skip"}
        /\ kind = "acl" => /\ src[d].etag = run.prior[d].etag /\ acl # run.prior[d].acl
                           /\ run.prior[d].state = "live"
    BY DEF Classify
  <2>3. ~Materialised => ~src[d].big
    BY <1>1 DEF Enumerated
  <2> HIDE DEF acl, kind
  <2>4. CASE kind = "skip"
    BY <1>0, <2>4 DEF kind, acl
  <2>5. CASE kind # "skip"
    <3>1. work' = [work EXCEPT ![d] = Task(kind, src[d], acl)]
      BY <2>5 DEF kind, acl
    <3> QED
      BY <1>0, <2>1, <2>2, <2>3, <2>5, <3>1
  <2> QED
    BY <2>4, <2>5
<1>2. CASE ~Enumerated(d)
  <2>1. DefaultAcl \in Times
    BY DEF DefaultAcl
  <2>2. work' = work \/ work' = [work EXCEPT ![d] = Task("delete", src[d], DefaultAcl)]
    BY <1>2 DEF ListDoc
  <2> QED
    BY <1>0, <2>1, <2>2
<1> QED
  BY <1>1, <1>2

LEMMA RowListDoc == ASSUME RowInv, NEW d \in Docs, ListDoc(d) PROVE RowInv'
<1> TypeOK /\ TypeOK'
  BY ListDocTyped DEF RowInv
<1> SUFFICES ASSUME NEW e \in Docs PROVE StoresOrdered(e)' /\ TaskOrdered(e)' /\ RunOrdered(e)'
  BY DEF RowInv
<1>1. /\ StoresOrdered(e) /\ TaskOrdered(e) /\ RunOrdered(e)
      /\ src[e] \in SrcType /\ manifest[e] \in EntryType /\ work \in [Docs -> WorkType] /\ clock \in Nat
  BY DEF RowInv, TypeOK
<1>2. run.phase = "list" /\ UNCHANGED <<src, manifest, points, rows, clock>>
  BY DEF ListDoc, stores
<1>3. run'.phase = "list" /\ run'.prior = run.prior
  BY ListDocTask
<1>4. RunOrdered(e)' /\ run.prior = manifest
  BY <1>1, <1>2, <1>3 DEF RunOrdered, InRun
<1>5. CASE work'[e] = work[e]
  BY <1>1, <1>2, <1>3, <1>4, <1>5, RowFrame DEF InRun
<1>6. ASSUME NEW kind \in {"fetch", "acl", "delete"}, NEW acl \in Times,
             work'[e] = Task(kind, src[e], acl),
             kind # "delete" => /\ ~Materialised => ~src[e].big
                                /\ Materialised => acl = src[e].acl,
             kind = "acl" => /\ src[e].etag = manifest[e].etag
                             /\ acl # manifest[e].acl
                             /\ manifest[e].state = "live"
      PROVE  StoresOrdered(e)' /\ TaskOrdered(e)'
  <2>1. /\ work'[e].step = "todo" /\ work'[e].kind = kind /\ work'[e].etag = src[e].etag /\ work'[e].acl = acl
        /\ work'[e].content = IF Materialised /\ ~src[e].big THEN src[e].content ELSE NoHash
    BY <1>6 DEF Task, NoWork
  <2>2. StoresOrdered(e)'
    BY <1>1, <1>2 DEF StoresOrdered, Unhashed
  <2>3. kind = "acl" => manifest[e].content # NoHash
    BY <1>1, <1>6 DEF StoresOrdered, Unhashed, SrcType, EntryType
  <2>4. TaskOrdered(e)'
    <3>1. /\ work'[e].content <= src[e].content
          /\ work'[e].content = NoHash \/ points[e].content <= work'[e].content
      BY <1>1, <2>1 DEF StoresOrdered, SrcType, NoHash
    <3>2. kind = "fetch" /\ ~Materialised => work'[e].content = NoHash /\ ~src[e].big
      BY <1>6, <2>1
    <3>3. kind = "fetch" /\ Materialised => Unhashed(e, src[e].etag, acl)'
      BY <1>2, <1>6 DEF Unhashed
    <3>4. work'[e].etag <= src[e].etag
      BY <1>1, <2>1 DEF SrcType
    <3> QED
      BY <1>2, <2>1, <2>3, <3>1, <3>2, <3>3, <3>4 DEF TaskOrdered
  <2> QED
    BY <2>2, <2>4
<1>7. \/ work'[e] = work[e]
      \/ \E kind \in {"fetch", "acl", "delete"}, acl \in Times :
            /\ work'[e] = Task(kind, src[e], acl)
            /\ kind # "delete" => /\ ~Materialised => ~src[e].big
                                  /\ Materialised => acl = src[e].acl
            /\ kind = "acl" => /\ src[e].etag = manifest[e].etag
                               /\ acl # manifest[e].acl
                               /\ manifest[e].state = "live"
  BY <1>1, <1>4, ListDocTask
<1> QED
  BY <1>4, <1>5, <1>6, <1>7

LEMMA RowReset ==
    ASSUME RowInv, UNCHANGED <<clock, src, points, rows, manifest>>,
           run' = Idle, work' = [d \in Docs |-> NoWork], NEW d \in Docs
    PROVE  StoresOrdered(d)' /\ TaskOrdered(d)' /\ RunOrdered(d)'
<1>1. StoresOrdered(d)
  BY DEF RowInv
<1>2. work'[d].step = "none" /\ run'.phase = "idle"
  BY DEF NoWork, Idle
<1> QED
  BY <1>1, <1>2 DEF StoresOrdered, TaskOrdered, RunOrdered, InRun, Unhashed

LEMMA RowPlan ==
    ASSUME RowInv, run.phase = "list", UNCHANGED <<clock, src, points, rows, manifest>>,
           NEW token, NEW gone, NEW error, Plan(token, gone, error), NEW d \in Docs
    PROVE  StoresOrdered(d)' /\ TaskOrdered(d)' /\ RunOrdered(d)'
<1>1. StoresOrdered(d) /\ TaskOrdered(d) /\ RunOrdered(d) /\ run \in RunType
  BY DEF RowInv, TypeOK
<1>2. CASE run' = Idle /\ work' = [x \in Docs |-> NoWork]
  BY <1>2, RowReset
<1>3. CASE /\ run' = [run EXCEPT !.phase = "process", !.token = token, !.error = error,
                               !.todo = {}, !.skipped = {x \in @ : InScope(x)},
                               !.gone = IF Single THEN {} ELSE gone]
           /\ work' = [x \in Docs |-> IF InScope(x) THEN work[x] ELSE NoWork]
  <2>1. run'.phase = "process" /\ run'.prior = run.prior
    BY <1>1, <1>3 DEF RunType
  <2>2. work'[d] = work[d] \/ work'[d].step = "none"
    BY <1>3 DEF NoWork
  <2> QED
    BY <1>1, <2>1, <2>2 DEF StoresOrdered, TaskOrdered, RunOrdered, InRun, Unhashed
<1> QED
  BY <1>2, <1>3 DEF Plan

LEMMA RowPlanned == RowInv /\ (EndList \/ ListFails) => RowInv'
<1> SUFFICES ASSUME RowInv, EndList \/ ListFails, NEW d \in Docs
             PROVE  StoresOrdered(d)' /\ TaskOrdered(d)' /\ RunOrdered(d)'
  BY EndListTyped, ListFailsTyped DEF RowInv
<1>1. \E token, gone, error : Plan(token, gone, error)
  BY DEF EndList, ListFails
<1>2. run.phase = "list" /\ UNCHANGED <<clock, src, points, rows, manifest>>
  BY DEF EndList, ListFails, stores
<1> QED
  BY <1>1, <1>2, RowPlan

LEMMA RowProcess == RowInv /\ ProcessNext => RowInv'
<1> SUFFICES ASSUME RowInv, NEW d \in Docs,
                    \/ DeleteIndex(d) \/ DeleteRow(d) \/ AclIndex(d) \/ Fetch(d)
                    \/ LateAcl(d) \/ WriteIndex(d) \/ WriteRow(d)
             PROVE  RowInv'
  BY DEF ProcessNext
<1> TypeOK /\ TypeOK'
  BY ProcessTyped DEF RowInv, ProcessNext
<1>1. /\ src[d] \in SrcType /\ manifest[d] \in EntryType /\ work[d] \in WorkType
      /\ points[d] \in IndexType /\ rows[d] \in IndexType /\ clock \in Nat /\ src \in [Docs -> SrcType]
      /\ work \in [Docs -> WorkType] /\ points \in [Docs -> IndexType] /\ rows \in [Docs -> IndexType]
  BY DEF TypeOK
<1>2. /\ UNCHANGED <<clock, src, manifest, run>>
      /\ \A x \in Docs \ {d} : points'[x] = points[x] /\ work'[x] = work[x] /\ rows'[x] = rows[x]
      /\ run.phase = "process" /\ work[d].step # "none"
  <2> USE <1>1 DEF stores, Advance, RewriteAcl, Ready
  <2>1. CASE DeleteIndex(d)
    BY <2>1 DEF DeleteIndex
  <2>2. CASE DeleteRow(d)
    BY <2>2 DEF DeleteRow
  <2>3. CASE AclIndex(d)
    BY <2>3 DEF AclIndex
  <2>4. CASE Fetch(d)
    BY <2>4 DEF Fetch
  <2>5. CASE LateAcl(d)
    BY <2>5 DEF LateAcl
  <2>6. CASE WriteIndex(d)
    BY <2>6 DEF WriteIndex
  <2>7. CASE WriteRow(d)
    BY <2>7 DEF WriteRow
  <2> QED
    BY <2>1, <2>2, <2>3, <2>4, <2>5, <2>6, <2>7
<1>3. StoresOrdered(d) /\ TaskOrdered(d) /\ RunOrdered(d) /\ run.prior = manifest /\ InRun
  BY <1>2 DEF RowInv, RunOrdered, InRun
<1>4. ASSUME StoresOrdered(d)', TaskOrdered(d)' PROVE RowInv'
  <2> SUFFICES ASSUME NEW e \in Docs PROVE StoresOrdered(e)' /\ TaskOrdered(e)' /\ RunOrdered(e)'
    BY DEF RowInv
  <2>1. StoresOrdered(e) /\ TaskOrdered(e) /\ RunOrdered(e)
    BY DEF RowInv
  <2>2. RunOrdered(e)'
    BY <1>2, <2>1 DEF RunOrdered, InRun
  <2>3. CASE e # d
    BY <1>1, <1>2, <2>1, <2>2, <2>3, RowFrame DEF InRun
  <2> QED
    BY <1>4, <2>2, <2>3
<1> USE DEF WorkType, EntryType, SrcType, NoHash
<1>10. CASE DeleteIndex(d)
  <2>1. /\ work[d].kind = "delete" /\ work'[d] = [work[d] EXCEPT !.step = "row"]
        /\ points'[d].content = points[d].content /\ (points'[d].state = "none" <=> points[d].state = "none")
        /\ rows' = rows
    BY <1>1, <1>10 DEF DeleteIndex, Ready, Advance, IndexType
  <2> QED
    BY <1>1, <1>2, <1>3, <1>4, <2>1 DEF StoresOrdered, TaskOrdered, InRun, Unhashed
<1>11. CASE DeleteRow(d)
  <2>1. /\ work[d].kind = "delete" /\ work'[d] = [work[d] EXCEPT !.step = "deleted"]
        /\ points' = points /\ (rows'[d].state # "live")
        /\ run' = run
    BY <1>1, <1>11 DEF DeleteRow, Ready, Advance, IndexType
  <2> QED
    BY <1>1, <1>2, <1>3, <1>4, <2>1 DEF StoresOrdered, TaskOrdered, InRun, Unhashed
<1>12. ASSUME RewriteAcl(d)
       PROVE  points'[d].state = points[d].state /\ points'[d].content = points[d].content
  BY <1>1, <1>12 DEF RewriteAcl, IndexType
<1>13. CASE AclIndex(d)
  <2>1. /\ work[d].kind = "acl" /\ work[d].step = "todo" /\ rows' = rows
        /\ work'[d] = [work[d] EXCEPT !.step = "row", !.content = manifest[d].content]
    BY <1>1, <1>3, <1>13 DEF AclIndex, Ready
  <2>2. points'[d].state = points[d].state /\ points'[d].content = points[d].content
    BY <1>12, <1>13 DEF AclIndex
  <2>3. manifest[d].content # NoHash /\ manifest[d].content <= points[d].content
    BY <1>2, <1>3, <2>1 DEF StoresOrdered, TaskOrdered
  <2>4. points[d].state # "none"
    BY <1>1, <1>3, <2>3 DEF StoresOrdered, IndexType
  <2>5. manifest[d].content <= src[d].content
    BY <1>1, <1>3 DEF StoresOrdered, IndexType
  <2> QED
    BY <1>1, <1>2, <1>3, <1>4, <2>1, <2>2, <2>3, <2>4, <2>5 DEF StoresOrdered, TaskOrdered, InRun, Unhashed
<1>14. CASE LateAcl(d)
  <2>1. /\ work[d].kind = "fetch" /\ work[d].step = "acl" /\ rows' = rows
        /\ work'[d] = [work[d] EXCEPT !.step = "done"]
    BY <1>1, <1>14 DEF LateAcl, Ready, Advance
  <2>2. points'[d].state = points[d].state /\ points'[d].content = points[d].content
    BY <1>12, <1>14 DEF LateAcl
  <2> QED
    BY <1>1, <1>2, <1>3, <1>4, <2>1, <2>2 DEF StoresOrdered, TaskOrdered, InRun, Unhashed
<1>15. CASE WriteIndex(d)
  <2>1. /\ work[d].kind = "fetch" /\ work[d].step = "write" /\ rows' = rows
        /\ work'[d] = [work[d] EXCEPT !.step = "row"]
        /\ points'[d].state = "live" /\ points'[d].content = work[d].content
    BY <1>1, <1>15 DEF WriteIndex, Ready, Advance
  <2>2. points[d].content <= work[d].content /\ work[d].content # NoHash
    BY <1>2, <1>3, <2>1 DEF TaskOrdered
  <2> QED
    BY <1>1, <1>2, <1>3, <1>4, <2>1, <2>2 DEF StoresOrdered, TaskOrdered, InRun, Unhashed, IndexType
<1>16. CASE WriteRow(d)
  <2>1. /\ work[d].kind \in {"fetch", "acl"} /\ work[d].step = "row" /\ points' = points
        /\ work'[d] = [work[d] EXCEPT !.step = "done"]
        /\ rows'[d].content = work[d].content
    BY <1>1, <1>16 DEF WriteRow, Ready, Advance
  <2>2. points[d].state # "none" /\ work[d].content <= points[d].content
    BY <1>2, <1>3, <2>1 DEF TaskOrdered
  <2>3. work[d].kind = "fetch" => work[d].content # NoHash
    BY <1>2, <1>3, <2>1 DEF TaskOrdered
  <2> QED
    BY <1>1, <1>2, <1>3, <1>4, <2>1, <2>2, <2>3 DEF StoresOrdered, TaskOrdered, InRun, Unhashed
<1>17. CASE Fetch(d)
  <2>1. /\ work[d].kind = "fetch" /\ work[d].step = "todo" /\ UNCHANGED <<points, rows>>
    BY <1>17 DEF Fetch, Ready, stores
  <2>2. StoresOrdered(d)'
    BY <1>2, <1>3, <2>1 DEF StoresOrdered, Unhashed
  <2>3. TaskOrdered(d)'
    <3> DEFINE entry == manifest[d]
               same  == entry.state = "live" /\ Body(d) = entry.content /\ ~Forced
               next  == IF ~same THEN "write"
                        ELSE IF work[d].acl # entry.acl THEN "acl" ELSE "done"
    <3>1. CASE /\ ~Materialised /\ entry.state # "none" /\ entry.etag = work[d].etag
               /\ work' = [work EXCEPT ![d].step = "done", ![d].content = entry.content]
      <4>1. work'[d] = [work[d] EXCEPT !.step = "done", !.content = entry.content]
        BY <1>1, <3>1
      <4>2. entry.content = NoHash => work[d].etag < src[d].etag
        BY <1>3, <3>1 DEF StoresOrdered, Unhashed
      <4>3. entry.content <= points[d].content /\ entry.content <= src[d].content
        BY <1>1, <1>3 DEF StoresOrdered, IndexType
      <4> QED
        BY <1>1, <1>2, <1>3, <2>1, <3>1, <4>1, <4>2, <4>3 DEF TaskOrdered, InRun, Unhashed
    <3>2. CASE Advance(d, "failed")
      <4>1. work'[d] = [work[d] EXCEPT !.step = "failed"]
        BY <1>1, <3>2 DEF Advance
      <4> QED
        BY <1>1, <1>2, <1>3, <2>1, <4>1 DEF TaskOrdered, InRun, Unhashed
    <3>3. CASE Body(d) = NoHash /\ Advance(d, "done")
      <4>1. work'[d] = [work[d] EXCEPT !.step = "done"]
        BY <1>1, <3>3 DEF Advance
      <4>2. work[d].content = NoHash /\ Unhashed(d, work[d].etag, work[d].acl)
        BY <1>1, <1>2, <1>3, <2>1, <3>3 DEF Body, TaskOrdered, StoresOrdered, Unhashed
      <4> QED
        BY <1>1, <1>2, <1>3, <2>1, <4>1, <4>2 DEF TaskOrdered, InRun, Unhashed, IndexType
    <3>4. ASSUME NEW etag \in IF Materialised THEN {work[d].etag} ELSE {work[d].etag, src[d].etag},
                 Body(d) # NoHash,
                 work' = [work EXCEPT ![d].etag = etag, ![d].content = Body(d),
                                      ![d].step = next]
          PROVE  TaskOrdered(d)'
      <4>1. work'[d] = [work[d] EXCEPT !.etag = etag, !.content = Body(d), !.step = next]
        BY <1>1, <3>4
      <4>2. /\ etag <= src[d].etag /\ Body(d) <= src[d].content
            /\ points[d].content <= Body(d)
        BY <1>1, <1>2, <1>3, <2>1, <3>4 DEF StoresOrdered, TaskOrdered, Body
      <4>3. next # "write" => Body(d) <= points[d].content
        BY <1>3 DEF StoresOrdered
      <4>4. next \in {"write", "acl", "done"}
        OBVIOUS
      <4> HIDE DEF next
      <4>5. /\ work'[d].kind = "fetch" /\ work'[d].etag = etag
            /\ work'[d].content = Body(d) /\ work'[d].step = next
        BY <1>1, <2>1, <4>1
      <4> QED
        BY <1>1, <1>2, <1>3, <2>1, <3>4, <4>2, <4>3, <4>4, <4>5 DEF TaskOrdered, InRun
    <3> QED
      BY <1>3, <1>17, <3>1, <3>2, <3>3, <3>4 DEF Fetch
  <2> QED
    BY <1>4, <2>2, <2>3
<1> QED
  BY <1>10, <1>11, <1>13, <1>14, <1>15, <1>16, <1>17

LEMMA RowRest ==
    RowInv /\ (\/ \E d \in Docs : TombstoneMissing(d) \/ FailDoc(d)
               \/ RecordRun \/ Crash) => RowInv'
<1> SUFFICES ASSUME RowInv PROVE (\/ \E d \in Docs : TombstoneMissing(d) \/ FailDoc(d)
                                  \/ RecordRun \/ Crash) => RowInv'
  OBVIOUS
<1>0. /\ TypeOK /\ run \in RunType /\ work \in [Docs -> WorkType] /\ points \in [Docs -> IndexType]
      /\ clock \in Nat
      /\ \A e \in Docs : StoresOrdered(e) /\ TaskOrdered(e) /\ RunOrdered(e) /\ src[e] \in SrcType
  BY DEF RowInv, TypeOK
<1>1. ASSUME NEW d \in Docs, TombstoneMissing(d) PROVE RowInv'
  <2>1. /\ run'.phase = "process" /\ run'.prior = run.prior /\ run.phase = "process"
        /\ UNCHANGED <<clock, src, rows, manifest, work>>
        /\ \A e \in Docs : /\ points'[e].content = points[e].content
                           /\ points'[e].state = "none" <=> points[e].state = "none"
    BY <1>0, <1>1 DEF TombstoneMissing, RunType, IndexType
  <2>2. ASSUME NEW e \in Docs PROVE StoresOrdered(e)' /\ TaskOrdered(e)' /\ RunOrdered(e)'
    BY <1>0, <2>1 DEF StoresOrdered, TaskOrdered, RunOrdered, InRun, Unhashed
  <2> QED
    BY <1>0, <1>1, <2>2, TombstoneTyped DEF RowInv
<1>2. ASSUME NEW d \in Docs, FailDoc(d) PROVE RowInv'
  <2>1. /\ run.phase = "process" /\ UNCHANGED <<clock, src, points, rows, manifest, run>>
        /\ work'[d] = [work[d] EXCEPT !.step = "failed"] /\ work[d].step # "none"
        /\ work[d].step # "done"
        /\ \A e \in Docs \ {d} : work'[e] = work[e]
    BY <1>0, <1>2 DEF FailDoc, Advance, stores
  <2>2. ASSUME NEW e \in Docs PROVE StoresOrdered(e)' /\ TaskOrdered(e)' /\ RunOrdered(e)'
    <3>1. RunOrdered(e)'
      BY <1>0, <2>1 DEF RunOrdered, InRun
    <3>2. CASE e # d
      BY <1>0, <2>1, <3>1, <3>2, RowFrame DEF InRun
    <3>3. CASE e = d
      BY <1>0, <2>1, <3>1, <3>3 DEF StoresOrdered, TaskOrdered, InRun, Unhashed, WorkType
    <3> QED
      BY <3>2, <3>3
  <2> QED
    BY <1>0, <1>2, <2>2, FailDocTyped DEF RowInv
<1>3. ASSUME RecordRun \/ Crash PROVE RowInv'
  <2>1. ASSUME NEW d \in Docs PROVE StoresOrdered(d)' /\ TaskOrdered(d)' /\ RunOrdered(d)'
    BY <1>3, RowReset DEF RecordRun, Crash, stores
  <2> QED
    BY <1>0, <1>3, <2>1, RecordTyped, CrashTyped DEF RowInv
<1> QED
  BY <1>1, <1>2, <1>3

LEMMA RowSave == RowInv /\ SaveManifest => RowInv'
<1> SUFFICES ASSUME RowInv, SaveManifest, NEW d \in Docs
             PROVE  StoresOrdered(d)' /\ TaskOrdered(d)' /\ RunOrdered(d)'
  BY SaveTyped DEF RowInv
<1>1. /\ StoresOrdered(d) /\ TaskOrdered(d) /\ src[d] \in SrcType /\ manifest[d] \in EntryType
      /\ work[d] \in WorkType /\ run \in RunType /\ points[d] \in IndexType
  BY DEF RowInv, TypeOK
<1>2. /\ UNCHANGED <<clock, src, points, rows, work>> /\ run.phase = "process" /\ run'.phase = "record"
      /\ manifest'[d] = Fold(d)
  BY <1>1 DEF SaveManifest, RunType, TypeOK
<1>3. TaskOrdered(d)' /\ RunOrdered(d)'
  BY <1>2 DEF TaskOrdered, RunOrdered, InRun
<1>4. CASE work[d].step = "done"
  <2>1. /\ manifest'[d].state = "live" /\ manifest'[d].etag = work[d].etag
        /\ manifest'[d].content = work[d].content /\ manifest'[d].acl = work[d].acl
    BY <1>2, <1>4 DEF Fold, OutcomeEntry
  <2>2. /\ work[d].etag <= src[d].etag /\ work[d].content <= points[d].content
        /\ work[d].content = NoHash => Unhashed(d, work[d].etag, work[d].acl)
    BY <1>1, <1>2, <1>4 DEF TaskOrdered, InRun
  <2> QED
    BY <1>1, <1>2, <1>3, <2>1, <2>2 DEF StoresOrdered, Unhashed
<1>5. CASE work[d].step # "done"
  <2>1. /\ manifest'[d].etag = manifest[d].etag /\ manifest'[d].content = manifest[d].content
        /\ manifest'[d].acl = manifest[d].acl
        /\ manifest'[d].state # "none" <=> manifest[d].state # "none"
    BY <1>1, <1>2, <1>5 DEF Fold, MarkDeleted, EntryType
  <2> QED
    BY <1>1, <1>2, <1>3, <2>1 DEF StoresOrdered, Unhashed
<1> QED
  BY <1>4, <1>5

LEMMA RowNext == RowInv /\ [Next]_vars => RowInv'
<1>1. ASSUME RowInv, UNCHANGED vars PROVE RowInv'
  <2>1. ASSUME NEW d \in Docs PROVE StoresOrdered(d)' /\ TaskOrdered(d)' /\ RunOrdered(d)'
    BY <1>1 DEF vars, RowInv, StoresOrdered, TaskOrdered, RunOrdered, InRun, Unhashed
  <2> QED
    BY <1>1, <2>1, NextTyped DEF RowInv
<1>2. ASSUME RowInv, RunNext PROVE RowInv'
  BY <1>2, RowListDoc, RowPlanned, RowProcess, RowRest, RowSave DEF RunNext
<1>3. ASSUME RowInv, FaultNext PROVE RowInv'
  BY <1>3, RowPlanned, RowRest DEF FaultNext
<1> QED
  BY <1>1, <1>2, <1>3, RowSource, RowStart DEF Next

\* RowNeverAheadOfIndex for every number of documents, connector, trigger and failure:
\* whatever Postgres says of a live document, the index has had.
THEOREM RowsFollow == Spec => []RowNeverAheadOfIndex
<1>1. RowInv => RowNeverAheadOfIndex
  BY DEF RowInv, StoresOrdered, RowNeverAheadOfIndex
<1> QED
  BY <1>1, RowInit, RowNext, PTL DEF Spec
-----------------------------------------------------------------------------
(* What a run leaves in the index (AclSkipIsSound, CleanFullScanMirrors and
   NothingLostBehindCursor), beginning with what each step does, field by field. *)

\* What a change of the source does to the ACL, the size and the date of a document.
LEMMA SourceAcl ==
    ASSUME TypeOK, "restore" \notin Changes, "aclback" \notin Changes, NEW d \in Docs,
           src[d].acl <= clock,
           \/ Edit(d) \/ Touch(d) \/ SetAcl(d) \/ RevertAcl(d)
           \/ Remove(d) \/ Upload(d) \/ Restore(d)
    PROVE  /\ clock' = clock + 1
           /\ \A e \in Docs \ {d} : src'[e] = src[e]
           /\ UNCHANGED <<points, manifest, cursor, run, work>>
           /\ src'[d].mod = clock'
           /\ src[d].acl <= src'[d].acl /\ src'[d].acl <= clock'
           /\ "grow" \notin Changes /\ ~src[d].big => ~src'[d].big
<1> src[d] \in SrcType /\ clock \in Nat /\ src \in [Docs -> SrcType]
  BY DEF TypeOK
<1> USE DEF Change, SrcType, stores
<1>1. CASE Edit(d)
  <2> PICK big \in BOOLEAN : Change(IF big THEN "grow" ELSE "edit", d,
        [src[d] EXCEPT !.etag = clock + 1, !.content = clock + 1, !.big = big])
    BY <1>1 DEF Edit
  <2>1. src' = [src EXCEPT ![d] = [[src[d] EXCEPT !.etag = clock + 1, !.content = clock + 1,
                                                  !.big = big]
                  EXCEPT !.mod = clock + 1, !.etag = IF Materialised THEN clock + 1 ELSE @]]
    OBVIOUS
  <2>2. /\ clock' = clock + 1 /\ UNCHANGED <<points, manifest, cursor, run, work>>
        /\ "grow" \notin Changes => ~big
    OBVIOUS
  <2> QED
    BY <2>1, <2>2
<1>2. CASE Touch(d)
  BY <1>2 DEF Touch
<1>3. CASE SetAcl(d)
  BY <1>3 DEF SetAcl
<1>4. CASE RevertAcl(d)
  BY <1>4 DEF RevertAcl
<1>5. CASE Remove(d)
  BY <1>5 DEF Remove
<1>6. CASE Upload(d)
  BY <1>6 DEF Upload
<1>7. CASE Restore(d)
  BY <1>7 DEF Restore
<1> QED
  BY <1>1, <1>2, <1>3, <1>4, <1>5, <1>6, <1>7

\* A run starts by looking at every document its cursor is not past.
LEMMA StartFields ==
    ASSUME TypeOK, NEW mode \in ModeKinds, NEW d \in Docs \cup {NoDoc}, StartRun(mode, d)
    PROVE  /\ run'.phase = "list" /\ run'.mode = mode /\ run'.doc = d /\ run'.start = clock
           /\ run'.prior = manifest /\ ~run'.error /\ run'.token = NoCursor
           /\ run'.seen = {} /\ run'.hidden = {}
           /\ run'.from \in {NoCursor, cursor}
           /\ \A e \in Docs \ run'.todo : ~FullScan(run') /\ src[e].mod <= run'.from
           /\ UNCHANGED <<clock, src, stores, work>> /\ run.phase = "idle" /\ mode \in Modes
           /\ d # NoDoc <=> mode \in {"single", "reindex"}
<1> DEFINE from == IF mode = "full" THEN NoCursor ELSE cursor
<1>1. run' = [Idle EXCEPT !.phase = "list", !.mode = mode, !.doc = d, !.from = from,
                          !.start = clock, !.prior = manifest, !.todo = Mentioned(from)]
  BY DEF StartRun
<1>2. /\ run'.phase = "list" /\ run'.mode = mode /\ run'.doc = d /\ run'.start = clock
      /\ run'.prior = manifest /\ ~run'.error /\ run'.token = NoCursor
      /\ run'.seen = {} /\ run'.hidden = {} /\ run'.from = from /\ run'.todo = Mentioned(from)
  BY <1>1 DEF Idle
<1>3. from \in {NoCursor, cursor} /\ from \in Nat
  BY DEF TypeOK, NoCursor
<1>4. ASSUME NEW e \in Docs \ Mentioned(from) PROVE ~FullScan(run') /\ src[e].mod <= from
  <2>1. ~((Delta /\ from # NoCursor) => src[e].mod > from)
    BY <1>4 DEF Mentioned
  <2>2. src[e].mod \in Nat
    BY DEF TypeOK, SrcType
  <2> HIDE DEF from
  <2> QED
    BY <1>2, <1>3, <2>1, <2>2 DEF FullScan
<1> HIDE DEF from
<1> QED
  BY <1>2, <1>3, <1>4 DEF StartRun

\* The fields of the run that listing and processing never touch.
SameRun == /\ run'.phase = run.phase /\ run'.mode = run.mode /\ run'.doc = run.doc
           /\ run'.from = run.from /\ run'.start = run.start /\ run'.token = run.token
           /\ run'.error = run.error /\ run'.prior = run.prior
           /\ run'.gone = run.gone /\ run'.hidden = run.hidden

\* The task that listing one document gives it, if it gives it one.
LEMMA ListDocFields ==
    ASSUME TypeOK, NEW d \in Docs, ListDoc(d), Materialised \/ "aclread" \notin Faults
    PROVE  /\ SameRun /\ run.phase = "list" /\ run'.todo = run.todo \ {d} /\ d \in run.todo
           /\ UNCHANGED <<clock, src, stores>>
           /\ \A e \in Docs \ {d} : work'[e] = work[e]
           /\ \/ /\ Enumerated(d) /\ work' = work /\ run'.seen = run.seen \cup {d}
                 /\ run.prior[d].state = "live" /\ run.prior[d].etag = src[d].etag
                 /\ run.prior[d].acl = src[d].acl
              \/ /\ run'.seen = run.seen \cup {d}
                 /\ Enumerated(d)
                 /\ \E kind \in {"fetch", "acl"} :
                      /\ work'[d] = Task(kind, src[d], src[d].acl)
                      /\ kind = "acl" => /\ run.prior[d].state = "live"
                                        /\ run.prior[d].etag = src[d].etag
                      /\ kind = "fetch" => \/ Forced \/ run.prior[d].state # "live"
                                          \/ run.prior[d].etag # src[d].etag
              \/ /\ run'.seen = run.seen \cup {d} /\ ~src[d].present
                 /\ work'[d] = Task("delete", src[d], DefaultAcl)
              \/ /\ run'.seen = run.seen /\ work' = work /\ ~Enumerated(d)
                 /\ src[d].present \/ FullScan(run)
<1> src[d] \in SrcType /\ run \in RunType /\ work \in [Docs -> WorkType]
  BY DEF TypeOK
<1>0. run.phase = "list" /\ UNCHANGED <<clock, src, stores>> /\ d \in run.todo
  BY DEF ListDoc
<1> DEFINE r1 == [run EXCEPT !.todo = @ \ {d}, !.seen = @ \cup {d}, !.skipped = @ \cup {d}]
           r2 == [run EXCEPT !.todo = @ \ {d}, !.seen = @ \cup {d}]
           r3 == [run EXCEPT !.todo = @ \ {d}]
<1>1. run' = r1 => SameRun /\ run'.todo = run.todo \ {d} /\ run'.seen = run.seen \cup {d}
  BY DEF RunType, SameRun
<1>2. run' = r2 => SameRun /\ run'.todo = run.todo \ {d} /\ run'.seen = run.seen \cup {d}
  BY DEF RunType, SameRun
<1>3. run' = r3 => SameRun /\ run'.todo = run.todo \ {d} /\ run'.seen = run.seen
  BY DEF RunType, SameRun
<1>4. CASE Enumerated(d)
  <2> PICK failed \in IF "aclread" \in Faults /\ ~Materialised /\ faults < MaxFaults
                      THEN BOOLEAN ELSE {FALSE} :
        LET acl  == IF failed THEN DefaultAcl ELSE src[d].acl
            kind == Classify(run.prior[d], src[d], acl, Forced)
        IN  /\ faults' = IF failed THEN faults + 1 ELSE faults
            /\ IF kind = "skip"
               THEN run' = r1 /\ UNCHANGED work
               ELSE run' = r2 /\ work' = [work EXCEPT ![d] = Task(kind, src[d], acl)]
    BY <1>4 DEF ListDoc
  <2> DEFINE kind == Classify(run.prior[d], src[d], src[d].acl, Forced)
  <2>1. ~failed
    OBVIOUS
  <2>2. IF kind = "skip" THEN run' = r1 /\ UNCHANGED work
        ELSE run' = r2 /\ work' = [work EXCEPT ![d] = Task(kind, src[d], src[d].acl)]
    BY <2>1
  <2>3. /\ kind \in {"fetch", "acl", "skip"}
        /\ kind = "skip" => /\ run.prior[d].state = "live" /\ run.prior[d].etag = src[d].etag
                           /\ run.prior[d].acl = src[d].acl
        /\ kind = "acl" => run.prior[d].state = "live" /\ run.prior[d].etag = src[d].etag
        /\ kind = "fetch" => Forced \/ run.prior[d].state # "live" \/ run.prior[d].etag # src[d].etag
    BY DEF Classify
  <2> HIDE DEF kind, r1, r2, r3
  <2>4. CASE kind = "skip"
    BY <1>0, <1>1, <1>4, <2>2, <2>3, <2>4
  <2>5. CASE kind # "skip"
    BY <1>0, <1>2, <1>4, <2>2, <2>3, <2>5
  <2> QED
    BY <2>4, <2>5
<1>5. CASE ~Enumerated(d)
  <2>1. IF ~src[d].present /\ (FullScan(run) => Materialised)
        THEN work' = [work EXCEPT ![d] = Task("delete", src[d], DefaultAcl)] /\ run' = r2
        ELSE run' = r3 /\ UNCHANGED work
    BY <1>5 DEF ListDoc
  <2> HIDE DEF r1, r2, r3
  <2> QED
    BY <1>0, <1>2, <1>3, <1>5, <2>1
<1> QED
  BY <1>4, <1>5

\* Leaving the list keeps the tasks in scope and turns what is missing into deletions.
LEMMA PlanFields ==
    ASSUME TypeOK, NEW token, NEW gone, NEW error, Plan(token, gone, error)
    PROVE  \/ run' = Idle /\ work' = [x \in Docs |-> NoWork]
           \/ /\ run'.phase = "process" /\ run'.token = token /\ run'.error = error
              /\ run'.mode = run.mode /\ run'.doc = run.doc /\ run'.from = run.from
              /\ run'.start = run.start /\ run'.prior = run.prior /\ run'.hidden = run.hidden
              /\ run'.todo = {} /\ run'.gone = IF Single THEN {} ELSE gone
              /\ \A d \in Docs : \/ work'[d] = work[d]
                                 \/ work'[d] = NoWork /\ Single
<1> run \in RunType
  BY DEF TypeOK
<1>1. CASE run' = Idle /\ work' = [d \in Docs |-> NoWork]
  BY <1>1
<1>2. CASE /\ run' = [run EXCEPT !.phase = "process", !.token = token, !.error = error,
                                 !.todo = {}, !.skipped = {d \in @ : InScope(d)},
                                 !.gone = IF Single THEN {} ELSE gone]
           /\ work' = [d \in Docs |-> IF InScope(d) THEN work[d] ELSE NoWork]
  <2>1. \A d \in Docs : work'[d] = work[d] \/ (work'[d] = NoWork /\ Single)
    BY <1>2 DEF InScope
  <2> QED
    BY <1>2, <2>1 DEF RunType
<1> QED
  BY <1>1, <1>2 DEF Plan

\* Where a step of its task leaves document d.
WorkMoves(d, step, etag, content) ==
    /\ work'[d].step = step /\ work'[d].etag = etag /\ work'[d].content = content
    /\ work'[d].kind = work[d].kind /\ work'[d].acl = work[d].acl

AclRewritten(d) ==
    /\ points'[d].state = points[d].state /\ points'[d].content = points[d].content
    /\ points'[d].acl = IF points[d].state = "none" THEN points[d].acl ELSE work[d].acl

Fetched(d) ==
    \/ /\ ~Materialised /\ run.prior[d].state # "none" /\ run.prior[d].etag = work[d].etag
       /\ WorkMoves(d, "done", work[d].etag, run.prior[d].content)
    \/ /\ ~Materialised /\ ~src[d].present
       /\ WorkMoves(d, "failed", work[d].etag, work[d].content)
    \/ /\ Body(d) = NoHash
       /\ WorkMoves(d, "done", work[d].etag, work[d].content)
    \/ /\ Body(d) # NoHash
       /\ \E etag, step :
            /\ WorkMoves(d, step, etag, Body(d))
            /\ step \in {"write", "acl", "done"}
            /\ step # "write" => run.prior[d].state = "live" /\ run.prior[d].content = Body(d)
            /\ step = "done" => run.prior[d].acl = work[d].acl

TaskMoves(d) ==
    \/ /\ work[d].kind = "delete" /\ work[d].step = "todo"
       /\ WorkMoves(d, "row", work[d].etag, work[d].content)
       /\ points'[d].state # "live" /\ points'[d].content = points[d].content
       /\ points'[d].acl = points[d].acl
    \/ /\ work[d].kind = "delete" /\ work[d].step = "row" /\ points'[d] = points[d]
       /\ WorkMoves(d, "deleted", work[d].etag, work[d].content)
    \/ /\ work[d].kind = "acl" /\ work[d].step = "todo" /\ AclRewritten(d)
       /\ WorkMoves(d, "row", work[d].etag, run.prior[d].content)
    \/ /\ work[d].kind = "fetch" /\ work[d].step = "acl" /\ AclRewritten(d)
       /\ WorkMoves(d, "done", work[d].etag, work[d].content)
    \/ /\ work[d].kind = "fetch" /\ work[d].step = "write"
       /\ points'[d] = [state |-> "live", content |-> work[d].content, acl |-> work[d].acl]
       /\ WorkMoves(d, "row", work[d].etag, work[d].content)
    \/ /\ work[d].kind \in {"fetch", "acl"} /\ work[d].step = "row" /\ points'[d] = points[d]
       /\ WorkMoves(d, "done", work[d].etag, work[d].content)
    \/ /\ work[d].kind = "fetch" /\ work[d].step = "todo" /\ points'[d] = points[d]
       /\ Fetched(d)

LEMMA ProcessMoves ==
    ASSUME TypeOK, NEW d \in Docs,
           \/ DeleteIndex(d) \/ DeleteRow(d) \/ AclIndex(d) \/ Fetch(d)
           \/ LateAcl(d) \/ WriteIndex(d) \/ WriteRow(d)
    PROVE  /\ UNCHANGED <<clock, src, manifest, cursor, run, last>> /\ run.phase = "process"
           /\ \A e \in Docs \ {d} : points'[e] = points[e] /\ work'[e] = work[e]
           /\ TaskMoves(d)
<1>1. /\ work[d] \in WorkType /\ points[d] \in IndexType /\ work \in [Docs -> WorkType]
      /\ points \in [Docs -> IndexType] /\ run \in RunType
  BY DEF TypeOK
<1>2. ASSUME NEW step, work' = [work EXCEPT ![d].step = step]
      PROVE  /\ WorkMoves(d, step, work[d].etag, work[d].content)
             /\ \A e \in Docs \ {d} : work'[e] = work[e]
  BY <1>1, <1>2 DEF WorkMoves, WorkType
<1>3. RewriteAcl(d) => AclRewritten(d) /\ \A e \in Docs \ {d} : points'[e] = points[e]
  BY <1>1 DEF RewriteAcl, AclRewritten, IndexType
<1>4. CASE DeleteIndex(d)
  <2>1. /\ points'[d].state # "live" /\ points'[d].content = points[d].content
        /\ points'[d].acl = points[d].acl /\ \A e \in Docs \ {d} : points'[e] = points[e]
    BY <1>1, <1>4 DEF DeleteIndex, IndexType
  <2> QED
    BY <1>2, <1>4, <2>1 DEF DeleteIndex, Ready, Advance, TaskMoves
<1>5. CASE DeleteRow(d)
  BY <1>2, <1>5 DEF DeleteRow, Ready, Advance, TaskMoves
<1>6. CASE AclIndex(d)
  <2>1. /\ WorkMoves(d, "row", work[d].etag, run.prior[d].content)
        /\ \A e \in Docs \ {d} : work'[e] = work[e]
    BY <1>1, <1>6 DEF AclIndex, WorkMoves, WorkType
  <2> QED
    BY <1>3, <1>6, <2>1 DEF AclIndex, Ready, TaskMoves
<1>7. CASE LateAcl(d)
  BY <1>2, <1>3, <1>7 DEF LateAcl, Ready, Advance, TaskMoves
<1>8. CASE WriteIndex(d)
  <2>1. /\ points'[d] = [state |-> "live", content |-> work[d].content, acl |-> work[d].acl]
        /\ \A e \in Docs \ {d} : points'[e] = points[e]
    BY <1>1, <1>8 DEF WriteIndex
  <2> QED
    BY <1>2, <1>8, <2>1 DEF WriteIndex, Ready, Advance, TaskMoves
<1>9. CASE WriteRow(d)
  BY <1>2, <1>9 DEF WriteRow, Ready, Advance, TaskMoves
<1>10. CASE Fetch(d)
  <2> DEFINE entry == run.prior[d]
             known == ~Materialised /\ entry.state # "none" /\ entry.etag = work[d].etag
             there == Materialised \/ src[d].present
             same  == entry.state = "live" /\ Body(d) = entry.content /\ ~Forced
             next  == IF ~same THEN "write" ELSE IF work[d].acl # entry.acl THEN "acl" ELSE "done"
  <2>1. Fetched(d) /\ \A e \in Docs \ {d} : work'[e] = work[e]
    <3>1. CASE known /\ work' = [work EXCEPT ![d].step = "done", ![d].content = entry.content]
      BY <1>1, <3>1 DEF Fetched, WorkMoves, WorkType
    <3>2. CASE ~there /\ Advance(d, "failed")
      BY <1>2, <3>2 DEF Fetched, Advance
    <3>3. CASE Body(d) = NoHash /\ Advance(d, "done")
      BY <1>2, <3>3 DEF Fetched, Advance
    <3>4. ASSUME Body(d) # NoHash,
                 NEW etag, work' = [work EXCEPT ![d].etag = etag, ![d].content = Body(d),
                                                ![d].step = next]
          PROVE  Fetched(d) /\ \A e \in Docs \ {d} : work'[e] = work[e]
      <4>1. /\ next \in {"write", "acl", "done"}
            /\ next # "write" => entry.state = "live" /\ entry.content = Body(d)
            /\ next = "done" => entry.acl = work[d].acl
        OBVIOUS
      <4> HIDE DEF next
      <4>2. /\ WorkMoves(d, next, etag, Body(d))
            /\ \A e \in Docs \ {d} : work'[e] = work[e]
        BY <1>1, <3>4 DEF WorkMoves, WorkType
      <4> QED
        BY <3>4, <4>1, <4>2 DEF Fetched
    <3> QED
      BY <1>10, <3>1, <3>2, <3>3, <3>4 DEF Fetch
  <2> QED
    BY <1>10, <2>1 DEF Fetch, Ready, TaskMoves, stores
<1> QED
  BY <1>4, <1>5, <1>6, <1>7, <1>8, <1>9, <1>10

-----------------------------------------------------------------------------
(* AclSkipIsSound, from the invariant AclInv. *)

LEMMA AclInit == Init => AclInv
<1> SUFFICES ASSUME Init, NEW d \in Docs PROVE AclOrdered(d) /\ DownloadIsNew(d)
  BY InitTyped DEF AclInv
<1>1. /\ src[d].acl = 1 /\ clock = 1 /\ points[d].acl = 0 /\ manifest[d].content = NoHash
      /\ run.phase = "idle"
  BY DEF Init, NoEntry, Idle, Absent, DefaultAcl
<1> QED
  BY <1>1 DEF AclOrdered, DownloadIsNew, InRun

\* A document none of whose state moved keeps its part of the invariant.
LEMMA AclFrame ==
    ASSUME NEW d \in Docs, AclOrdered(d), DownloadIsNew(d),
           src'[d] = src[d], manifest'[d] = manifest[d], points'[d] = points[d],
           work'[d] = work[d], clock <= clock', clock \in Nat, clock' \in Nat, src[d] \in SrcType,
           run'.phase = run.phase, run'.mode = run.mode
    PROVE  AclOrdered(d)' /\ DownloadIsNew(d)'
BY DEF AclOrdered, DownloadIsNew, InRun, SrcType

LEMMA AclSource == AclConditions /\ AclInv /\ SourceNext => AclInv'
<1> SUFFICES ASSUME AclConditions, AclInv, NEW d \in Docs,
                    \/ Edit(d) \/ Touch(d) \/ SetAcl(d) \/ RevertAcl(d)
                    \/ Remove(d) \/ Upload(d) \/ Restore(d),
                    NEW e \in Docs
             PROVE  AclOrdered(e)' /\ DownloadIsNew(e)'
  BY SourceTyped DEF AclInv, SourceNext
<1>1. TypeOK /\ TypeOK' /\ AclOrdered(d) /\ AclOrdered(e) /\ DownloadIsNew(e)
  BY SourceTyped DEF AclInv, SourceNext
<1>2. /\ src[e] \in SrcType /\ src'[e] \in SrcType /\ clock \in Nat /\ clock' \in Nat
      /\ points[e] \in IndexType /\ work[e] \in WorkType
  BY <1>1 DEF TypeOK
<1>3. /\ clock' = clock + 1
      /\ \A x \in Docs \ {d} : src'[x] = src[x]
      /\ UNCHANGED <<points, manifest, cursor, run, work>>
      /\ src[d].acl <= src'[d].acl /\ src'[d].acl <= clock'
  BY <1>1, SourceAcl DEF AclConditions, AclOrdered
<1>4. CASE e # d
  BY <1>1, <1>2, <1>3, <1>4, AclFrame
<1>5. CASE e = d
  BY <1>1, <1>2, <1>3, <1>5 DEF AclOrdered, DownloadIsNew, InRun, SrcType, IndexType, WorkType
<1> QED
  BY <1>4, <1>5

LEMMA AclStart == AclInv /\ RowInv /\ Start => AclInv'
<1> SUFFICES ASSUME AclInv, RowInv, NEW mode \in ModeKinds, NEW d \in Docs \cup {NoDoc},
                    StartRun(mode, d), NEW e \in Docs
             PROVE  AclOrdered(e)' /\ DownloadIsNew(e)'
  BY StartTyped DEF Start, AclInv
<1>1. AclOrdered(e) /\ work[e].step = "none"
  BY StartFields DEF AclInv, RowInv, RunOrdered
<1>2. /\ run'.phase = "list" /\ run'.mode = mode /\ mode \in Modes
      /\ UNCHANGED <<clock, src, points, manifest, work>>
  BY StartFields DEF AclInv, stores
<1> QED
  BY <1>1, <1>2 DEF AclOrdered, DownloadIsNew

LEMMA TaskFields ==
    ASSUME NEW d \in Docs, NEW kind, NEW doc, NEW acl, work'[d] = Task(kind, doc, acl)
    PROVE  /\ work'[d].step = "todo" /\ work'[d].kind = kind /\ work'[d].etag = doc.etag
           /\ work'[d].acl = acl
           /\ work'[d].content = IF Materialised /\ ~doc.big THEN doc.content ELSE NoHash
BY DEF Task, NoWork

LEMMA AclListDoc ==
    ASSUME AclConditions, IInv, AclInv, NEW d \in Docs, ListDoc(d)
    PROVE  AclInv'
<1> SUFFICES ASSUME NEW e \in Docs PROVE AclOrdered(e)' /\ DownloadIsNew(e)'
  BY ListDocTyped DEF AclInv
<1>1. /\ TypeOK /\ AclOrdered(e) /\ DownloadIsNew(e) /\ src[e] \in SrcType /\ clock \in Nat
      /\ points[e] \in IndexType
  BY DEF AclInv, TypeOK
<1>2. Materialised \/ "aclread" \notin Faults
  BY DEF AclConditions
<1>3. /\ UNCHANGED <<clock, src, points, manifest>> /\ run.phase = "list"
      /\ run'.phase = run.phase /\ run'.mode = run.mode
      /\ \A x \in Docs \ {d} : work'[x] = work[x]
  BY <1>1, <1>2, ListDocFields DEF SameRun, stores
<1>4. CASE work'[e] = work[e]
  BY <1>1, <1>3, <1>4, AclFrame
<1>5. CASE e = d /\ work'[d] = Task("delete", src[d], DefaultAcl)
  <2>1. work'[e].kind = "delete"
    BY <1>5, TaskFields
  <2> QED
    BY <1>1, <1>3, <2>1 DEF AclOrdered, DownloadIsNew
<1>6. ASSUME e = d, Enumerated(e), NEW kind \in {"fetch", "acl"}, work'[e] = Task(kind, src[e], src[e].acl),
             kind = "fetch" => \/ Forced \/ run.prior[e].state # "live"
                               \/ run.prior[e].etag # src[e].etag
      PROVE  AclOrdered(e)' /\ DownloadIsNew(e)'
  <2>1. /\ work'[e].step = "todo" /\ work'[e].kind = kind /\ work'[e].etag = src[e].etag
        /\ work'[e].acl = src[e].acl
    BY <1>6, TaskFields
  <2>2. AclOrdered(e)'
    BY <1>1, <1>3, <2>1 DEF AclOrdered, SrcType, IndexType
  <2>3. /\ run.prior = manifest /\ GoneIsUnknown(e) /\ manifest[e] \in EntryType
        /\ run.mode \in Modes
    BY <1>1, <1>3 DEF IInv, DocInv, PlanSound, InRun, TypeOK, DownloadIsNew
  <2>4. ~Materialised => Listed(e) /\ ~Forced
    BY <1>6, <2>3 DEF Enumerated, Listed, Forced, AclConditions
  <2>5. ~Materialised /\ kind = "fetch" => manifest[e].state = "none" \/ manifest[e].etag # src[e].etag
    BY <1>6, <2>3, <2>4 DEF GoneIsUnknown, Known, EntryType
  <2> QED
    BY <1>3, <2>1, <2>2, <2>3, <2>5 DEF DownloadIsNew
<1> QED
  <2>1. \/ work'[e] = work[e]
        \/ e = d /\ work'[d] = Task("delete", src[d], DefaultAcl)
        \/ /\ e = d /\ Enumerated(e)
           /\ \E kind \in {"fetch", "acl"} :
                /\ work'[e] = Task(kind, src[e], src[e].acl)
                /\ kind = "fetch" => \/ Forced \/ run.prior[e].state # "live"
                                    \/ run.prior[e].etag # src[e].etag
    BY <1>1, <1>2, ListDocFields
  <2> QED
    BY <1>4, <1>5, <1>6, <2>1

LEMMA AclReset ==
    ASSUME AclInv, UNCHANGED <<clock, src, points, manifest>>,
           run' = Idle, NEW d \in Docs
    PROVE  AclOrdered(d)' /\ DownloadIsNew(d)'
<1>1. AclOrdered(d) /\ run'.phase = "idle"
  BY DEF AclInv, Idle
<1> QED
  BY <1>1 DEF AclOrdered, DownloadIsNew, InRun

LEMMA AclPlan == AclInv /\ (EndList \/ ListFails) => AclInv'
<1> SUFFICES ASSUME AclInv, EndList \/ ListFails, NEW d \in Docs
             PROVE  AclOrdered(d)' /\ DownloadIsNew(d)'
  BY EndListTyped, ListFailsTyped DEF AclInv
<1>1. PICK token, gone, error : Plan(token, gone, error)
  BY DEF EndList, ListFails
<1>2. /\ run.phase = "list" /\ UNCHANGED <<clock, src, points, manifest>>
      /\ TypeOK /\ AclOrdered(d) /\ DownloadIsNew(d)
  BY DEF EndList, ListFails, stores, AclInv
<1>3. CASE run' = Idle
  BY <1>2, <1>3, AclReset
<1>4. CASE /\ run'.phase = "process" /\ run'.mode = run.mode
           /\ work'[d] = work[d] \/ work'[d] = NoWork
  BY <1>2, <1>4 DEF AclOrdered, DownloadIsNew, InRun, NoWork
<1> QED
  BY <1>1, <1>2, <1>3, <1>4, PlanFields

LEMMA AclProcess == AclInv /\ RowInv /\ ProcessNext => AclInv'
<1> SUFFICES ASSUME AclInv, RowInv, NEW d \in Docs,
                    \/ DeleteIndex(d) \/ DeleteRow(d) \/ AclIndex(d) \/ Fetch(d)
                    \/ LateAcl(d) \/ WriteIndex(d) \/ WriteRow(d),
                    NEW e \in Docs
             PROVE  AclOrdered(e)' /\ DownloadIsNew(e)'
  BY ProcessTyped DEF AclInv, ProcessNext
<1>1. /\ TypeOK /\ TypeOK' /\ AclOrdered(e) /\ DownloadIsNew(e)
      /\ StoresOrdered(d) /\ TaskOrdered(d) /\ RunOrdered(d)
  BY ProcessTyped DEF AclInv, RowInv, ProcessNext
<1>2. /\ src[e] \in SrcType /\ clock \in Nat /\ manifest[d] \in EntryType
      /\ work[d] \in WorkType /\ points[d] \in IndexType
  BY <1>1 DEF TypeOK
<1>3. /\ UNCHANGED <<clock, src, manifest, run>> /\ run.phase = "process"
      /\ \A x \in Docs \ {d} : points'[x] = points[x] /\ work'[x] = work[x]
      /\ TaskMoves(d)
  BY <1>1, ProcessMoves
<1>4. CASE e # d
  BY <1>1, <1>2, <1>3, <1>4, AclFrame
<1>5. CASE e = d
  <2> USE DEF SrcType, EntryType, WorkType, IndexType, NoHash
  <2>0. InRun /\ InRun' /\ run.prior = manifest
    BY <1>1, <1>3 DEF RunOrdered, InRun
  <2>1. DownloadIsNew(e)'
    BY <1>1, <1>3, <1>5 DEF DownloadIsNew, TaskMoves, WorkMoves, Fetched
  <2>2. CASE /\ work[d].kind = "delete"
             /\ work'[d].kind = "delete" /\ points'[d].acl = points[d].acl
    BY <1>1, <1>2, <1>3, <1>5, <2>1, <2>2 DEF AclOrdered
  <2>3. CASE /\ work[d].kind = "acl" /\ work[d].step = "todo" /\ AclRewritten(d)
             /\ WorkMoves(d, "row", work[d].etag, run.prior[d].content)
    <3>1. points[d].state = "none" => manifest[d].content = NoHash
      BY <1>1, <1>2 DEF StoresOrdered
    <3> QED
      BY <1>1, <1>2, <1>3, <1>5, <2>0, <2>1, <2>3, <3>1 DEF AclOrdered, AclRewritten, WorkMoves
  <2>4. CASE /\ work[d].kind = "fetch" /\ work[d].step = "acl" /\ AclRewritten(d)
             /\ WorkMoves(d, "done", work[d].etag, work[d].content)
    <3>1. points[d].state # "none"
      BY <1>1, <1>2, <2>0, <2>4 DEF StoresOrdered, TaskOrdered
    <3> QED
      BY <1>1, <1>2, <1>3, <1>5, <2>0, <2>1, <2>4, <3>1 DEF AclOrdered, AclRewritten, WorkMoves
  <2>5. CASE /\ work[d].kind = "fetch" /\ work[d].step = "write"
             /\ points'[d] = [state |-> "live", content |-> work[d].content, acl |-> work[d].acl]
             /\ WorkMoves(d, "row", work[d].etag, work[d].content)
    <3>1. points'[d].acl = work[d].acl
      BY <2>5
    <3> QED
      BY <1>1, <1>2, <1>3, <1>5, <2>0, <2>1, <2>5, <3>1 DEF AclOrdered, WorkMoves
  <2>6. CASE /\ work[d].kind \in {"fetch", "acl"} /\ work[d].step = "row" /\ points'[d] = points[d]
             /\ WorkMoves(d, "done", work[d].etag, work[d].content)
    BY <1>1, <1>2, <1>3, <1>5, <2>0, <2>1, <2>6 DEF AclOrdered, WorkMoves
  <2>7. CASE /\ work[d].kind = "fetch" /\ work[d].step = "todo" /\ points'[d] = points[d]
             /\ Fetched(d)
    <3>1. Body(d) = NoHash => work[d].content = NoHash
      BY <1>1, <2>0, <2>7 DEF Body, TaskOrdered
    <3>2. ~(/\ ~Materialised /\ run.prior[d].state # "none"
            /\ run.prior[d].etag = work[d].etag)
      BY <1>1, <1>5, <2>0, <2>7 DEF DownloadIsNew
    <3>3. work'[d].kind = "fetch" /\ work'[d].acl = work[d].acl
      BY <2>7 DEF Fetched, WorkMoves
    <3>4. work'[d].step \in {"write", "acl", "done", "failed"}
      BY <2>7 DEF Fetched, WorkMoves
    <3>5. work'[d].step = "done" /\ work'[d].content # NoHash => work[d].acl <= points[d].acl
      BY <1>1, <1>5, <2>0, <2>7, <3>1, <3>2 DEF Fetched, WorkMoves, AclOrdered
    <3> QED
      BY <1>1, <1>2, <1>3, <1>5, <2>0, <2>1, <2>7, <3>3, <3>4, <3>5 DEF AclOrdered
  <2> QED
    BY <1>3, <2>2, <2>3, <2>4, <2>5, <2>6, <2>7 DEF TaskMoves, WorkMoves
<1> QED
  BY <1>4, <1>5

LEMMA AclRest ==
    AclInv /\ RowInv /\ (\/ \E d \in Docs : TombstoneMissing(d) \/ FailDoc(d)
                         \/ SaveManifest \/ RecordRun \/ Crash) => AclInv'
<1> SUFFICES ASSUME AclInv, RowInv PROVE (\/ \E d \in Docs : TombstoneMissing(d) \/ FailDoc(d)
                                          \/ SaveManifest \/ RecordRun \/ Crash) => AclInv'
  OBVIOUS
<1>0. /\ TypeOK /\ run \in RunType /\ work \in [Docs -> WorkType] /\ points \in [Docs -> IndexType]
      /\ manifest \in [Docs -> EntryType]
      /\ \A e \in Docs : AclOrdered(e) /\ DownloadIsNew(e)
  BY DEF AclInv, TypeOK
<1>1. ASSUME NEW d \in Docs, TombstoneMissing(d) PROVE AclInv'
  <2>1. /\ run'.phase = run.phase /\ run'.mode = run.mode
        /\ UNCHANGED <<clock, src, manifest, work>>
        /\ \A e \in Docs : points'[e].acl = points[e].acl
    BY <1>0, <1>1 DEF TombstoneMissing, RunType, IndexType
  <2>2. ASSUME NEW e \in Docs PROVE AclOrdered(e)' /\ DownloadIsNew(e)'
    BY <1>0, <2>1 DEF AclOrdered, DownloadIsNew, InRun
  <2> QED
    BY <1>0, <1>1, <2>2, TombstoneTyped DEF AclInv
<1>2. ASSUME NEW d \in Docs, FailDoc(d) PROVE AclInv'
  <2>1. /\ UNCHANGED <<clock, src, points, manifest, run>>
        /\ work'[d].step = "failed" /\ work'[d].kind = work[d].kind /\ work'[d].acl = work[d].acl
        /\ work[d].step # "none"
        /\ \A e \in Docs \ {d} : work'[e] = work[e]
    BY <1>0, <1>2 DEF FailDoc, Advance, stores, WorkType
  <2>2. ASSUME NEW e \in Docs PROVE AclOrdered(e)' /\ DownloadIsNew(e)'
    <3>1. CASE e = d
      BY <1>0, <2>1, <3>1 DEF AclOrdered, DownloadIsNew, InRun
    <3>2. CASE e # d
      BY <1>0, <2>1, <3>2 DEF AclOrdered, DownloadIsNew, InRun
    <3> QED
      BY <3>1, <3>2
  <2> QED
    BY <1>0, <1>2, <2>2, FailDocTyped DEF AclInv
<1>3. ASSUME SaveManifest PROVE AclInv'
  <2>1. ASSUME NEW d \in Docs PROVE AclOrdered(d)' /\ DownloadIsNew(d)'
    <3>1. /\ UNCHANGED <<clock, src, points, work>> /\ run.phase = "process"
          /\ run'.phase = "record" /\ run'.mode = run.mode /\ manifest'[d] = Fold(d)
      BY <1>0, <1>3 DEF SaveManifest, RunType
    <3>2. AclOrdered(d) /\ TaskOrdered(d) /\ InRun /\ manifest[d] \in EntryType /\ DownloadIsNew(d)
      BY <1>0, <3>1 DEF RowInv, InRun
    <3>3. manifest'[d].content # NoHash => manifest'[d].acl <= points[d].acl
      <4>1. CASE work[d].step = "done"
        <5>1. manifest'[d].content = work[d].content /\ manifest'[d].acl = work[d].acl
          BY <3>1, <4>1 DEF Fold, OutcomeEntry
        <5> QED
          BY <3>2, <4>1, <5>1 DEF AclOrdered, TaskOrdered
      <4>2. CASE work[d].step # "done"
        <5>1. manifest'[d].content = manifest[d].content /\ manifest'[d].acl = manifest[d].acl
          BY <3>1, <3>2, <4>2 DEF Fold, MarkDeleted, EntryType
        <5> QED
          BY <3>2, <5>1 DEF AclOrdered
      <4> QED
        BY <4>1, <4>2
    <3> QED
      BY <3>1, <3>2, <3>3 DEF AclOrdered, DownloadIsNew, InRun
  <2> QED
    BY <1>0, <1>3, <2>1, SaveTyped DEF AclInv
<1>4. ASSUME RecordRun \/ Crash PROVE AclInv'
  <2>1. ASSUME NEW d \in Docs PROVE AclOrdered(d)' /\ DownloadIsNew(d)'
    BY <1>4, AclReset DEF RecordRun, Crash, stores
  <2> QED
    BY <1>0, <1>4, <2>1, RecordTyped, CrashTyped DEF AclInv
<1> QED
  BY <1>1, <1>2, <1>3, <1>4

LEMMA AclNext == AclConditions /\ IInv /\ RowInv /\ AclInv /\ [Next]_vars => AclInv'
<1>1. ASSUME AclInv, UNCHANGED vars PROVE AclInv'
  <2>1. ASSUME NEW d \in Docs PROVE AclOrdered(d)' /\ DownloadIsNew(d)'
    BY <1>1 DEF vars, AclInv, AclOrdered, DownloadIsNew, InRun
  <2> QED
    BY <1>1, <2>1, NextTyped DEF AclInv
<1>2. ASSUME AclConditions, IInv, RowInv, AclInv, RunNext PROVE AclInv'
  BY <1>2, AclListDoc, AclPlan, AclProcess, AclRest DEF RunNext
<1>3. ASSUME RowInv, AclInv, FaultNext PROVE AclInv'
  BY <1>3, AclPlan, AclRest DEF FaultNext
<1> QED
  BY <1>1, <1>2, <1>3, AclSource, AclStart DEF Next

\* The invariants the rest of the module builds on, for a source that restores nothing.
LEMMA Established == ASSUME "restore" \notin Changes PROVE Spec => [](IInv /\ RowInv /\ HideInv)
<1>1. IInv /\ [Next]_vars => IInv'
  BY NextInv
<1> QED
  BY <1>1, InitInv, RowInit, RowNext, HideInit, HideNext, PTL DEF Spec

LEMMA AclInvariant == ASSUME AclConditions PROVE Spec => []AclInv
<1>1. IInv /\ RowInv /\ HideInv /\ AclInv /\ [Next]_vars => AclInv'
  BY AclNext
<1>2. Spec => [](IInv /\ RowInv /\ HideInv)
  BY Established DEF AclConditions
<1> QED
  BY <1>1, <1>2, AclInit, PTL DEF Spec

\* AclSkipIsSound for every number of documents and every crash: a document that phase 1
\* skips because its fingerprint is the recorded one carries that ACL in the index.
THEOREM AclSkipSoundness == ASSUME AclConditions PROVE Spec => []AclSkipIsSound
<1>1. ASSUME AclInv, NEW d \in Docs, Unmoved(d), manifest[d].acl = src[d].acl
      PROVE  points[d].acl = src[d].acl
  <2>1. AclOrdered(d) /\ src[d] \in SrcType /\ points[d] \in IndexType
    BY <1>1 DEF AclInv, TypeOK
  <2> QED
    BY <1>1, <2>1 DEF AclOrdered, Unmoved, SrcType, IndexType
<1>2. AclInv => AclSkipIsSound
  BY <1>1 DEF AclSkipIsSound
<1> QED
  BY <1>2, AclInvariant, PTL

-----------------------------------------------------------------------------
(* What a run makes of a steady document: the invariant MirrorInv. *)

MirrorPart(d) == Hashed(d) /\ TaskRight(d) /\ NoTaskRight(d) /\ RunShape(d)

\* Everything that is known of document d when a step is taken.
DocFacts(d) == DocInv(d) /\ StoresOrdered(d) /\ TaskOrdered(d) /\ RunOrdered(d)
             /\ HideSound(d) /\ AclOrdered(d) /\ DownloadIsNew(d) /\ MirrorPart(d)

Ground == MirrorConditions /\ IInv /\ RowInv /\ HideInv /\ AclInv /\ MirrorInv

LEMMA GroundOf ==
    ASSUME Ground, NEW d \in Docs
    PROVE  /\ TypeOK /\ DocFacts(d) /\ AclConditions
           /\ src[d] \in SrcType /\ points[d] \in IndexType /\ manifest[d] \in EntryType
           /\ work[d] \in WorkType /\ run \in RunType /\ clock \in Nat /\ run.start <= clock
BY DEF Ground, MirrorConditions, IInv, RowInv, HideInv, AclInv, MirrorInv, DocFacts, MirrorPart, TypeOK

LEMMA MirrorsIff ==
    ASSUME NEW d \in Docs, points[d] \in IndexType
    PROVE  Mirrors(d) <=> Served(d) /\ points[d].acl = src[d].acl
BY DEF Mirrors, Served, IndexType

LEMMA MirrorInit == Init => MirrorInv
<1> SUFFICES ASSUME Init, NEW d \in Docs PROVE MirrorPart(d)
  BY InitTyped DEF MirrorInv, MirrorPart
<1>1. /\ ~src[d].big /\ manifest[d].state = "none" /\ run.phase = "idle" /\ work[d].step = "none"
  BY DEF Init, NoEntry, Idle, NoWork
<1> QED
  BY <1>1 DEF MirrorPart, Hashed, TaskRight, NoTaskRight, RunShape, InRun

\* A document none of whose state moved keeps its part of the invariant.
LEMMA MirrorFrame ==
    ASSUME NEW d \in Docs, MirrorPart(d), SameRun,
           src'[d] = src[d], manifest'[d] = manifest[d], points'[d] = points[d],
           work'[d] = work[d],
           d \in run'.todo <=> d \in run.todo, d \in run'.seen <=> d \in run.seen,
           run.phase \in {"process", "record"} => run'.todo = {}
    PROVE  MirrorPart(d)'
BY DEF MirrorPart, SameRun, Hashed, TaskRight, NoTaskRight, RunShape, InRun, Steady, Behind,
       FullScan, Single, Listed, Served, Mirrors

LEMMA MirrorSource == Ground /\ SourceNext => MirrorInv'
<1> SUFFICES ASSUME Ground, NEW d \in Docs,
                    \/ Edit(d) \/ Touch(d) \/ SetAcl(d) \/ RevertAcl(d)
                    \/ Remove(d) \/ Upload(d) \/ Restore(d),
                    NEW e \in Docs
             PROVE  MirrorPart(e)'
  BY GroundOf, SourceTyped DEF MirrorInv, MirrorPart, SourceNext, Ground
<1>1. /\ clock' = clock + 1
      /\ \A x \in Docs \ {d} : src'[x] = src[x]
      /\ UNCHANGED <<points, manifest, cursor, run, work>>
      /\ src'[d].mod = clock'
      /\ "grow" \notin Changes /\ ~src[d].big => ~src'[d].big
  BY GroundOf, SourceAcl DEF DocFacts, AclOrdered, AclConditions
<1>2. MirrorPart(e) /\ run.start <= clock /\ run \in RunType /\ clock \in Nat
  BY GroundOf DEF DocFacts
<1>3. CASE e # d
  BY <1>1, <1>2, <1>3, MirrorFrame DEF SameRun, MirrorPart, RunShape
<1>4. CASE e = d
  <2>1. ~Steady(e)'
    BY <1>1, <1>2, <1>4 DEF Steady, RunType
  <2>2. Hashed(e)'
    BY <1>1, <1>2, <1>4 DEF MirrorPart, Hashed, InRun, Ground, MirrorConditions
  <2>3. TaskRight(e)' /\ NoTaskRight(e)' /\ RunShape(e)'
    BY <1>1, <1>2, <2>1 DEF MirrorPart, TaskRight, NoTaskRight, RunShape
  <2> QED
    BY <2>2, <2>3 DEF MirrorPart
<1> QED
  BY <1>3, <1>4

LEMMA MirrorStart == Ground /\ Start => MirrorInv'
<1> SUFFICES ASSUME Ground, NEW mode \in ModeKinds, NEW d \in Docs \cup {NoDoc},
                    StartRun(mode, d), NEW e \in Docs
             PROVE  MirrorPart(e)'
  BY GroundOf, StartTyped DEF MirrorInv, MirrorPart, Start, Ground
<1>1. DocFacts(e) /\ TypeOK
  BY GroundOf
<1>2. /\ run'.phase = "list" /\ ~run'.error /\ run'.seen = {} /\ run'.hidden = {}
      /\ e \notin run'.todo => ~FullScan(run') /\ src[e].mod <= run'.from
      /\ UNCHANGED <<clock, src, points, manifest, work>> /\ run.phase = "idle"
  BY <1>1, StartFields DEF stores
<1>3. work[e].step = "none"
  BY <1>1, <1>2 DEF DocFacts, RunOrdered
<1>4. e \notin run'.todo => Behind(e)'
  BY <1>2 DEF Behind
<1> QED
  BY <1>1, <1>2, <1>3, <1>4 DEF DocFacts, MirrorPart, Hashed, TaskRight, NoTaskRight, RunShape

\* A skip, and an ACL-only task, are of a document the index has the bytes of.
LEMMA SkipServed ==
    ASSUME Ground, NEW d \in Docs, InRun, Listed(d),
           run.prior[d].state = "live", run.prior[d].etag = src[d].etag
    PROVE  /\ Served(d)
           /\ run.prior[d].acl = src[d].acl => Mirrors(d)
<1>1. /\ DocFacts(d) /\ src[d] \in SrcType /\ points[d] \in IndexType /\ manifest[d] \in EntryType
  BY GroundOf
<1>2. run.prior = manifest
  BY <1>1 DEF DocFacts, RunOrdered
<1>3. manifest[d].content # NoHash
  BY <1>1, <1>2 DEF DocFacts, MirrorPart, Hashed, StoresOrdered, Unhashed, SrcType, EntryType
<1>4. Served(d)
  BY <1>1, <1>2, <1>3 DEF DocFacts, DocInv, EtagNamesContent, HashVouches
<1>5. manifest[d].acl = src[d].acl => points[d].acl = src[d].acl
  BY <1>1, <1>3 DEF DocFacts, AclOrdered, SrcType, IndexType
<1> QED
  BY <1>1, <1>2, <1>4, <1>5, MirrorsIff

LEMMA MirrorListDoc == ASSUME Ground, NEW d \in Docs, ListDoc(d) PROVE MirrorInv'
<1> SUFFICES ASSUME NEW e \in Docs PROVE MirrorPart(e)'
  BY GroundOf, ListDocTyped DEF MirrorInv, MirrorPart
<1>1. /\ TypeOK /\ DocFacts(e) /\ AclConditions /\ src[e] \in SrcType /\ points[e] \in IndexType
      /\ manifest[e] \in EntryType
  BY GroundOf
<1>2. /\ SameRun /\ run.phase = "list" /\ run'.todo = run.todo \ {d} /\ d \in run.todo
      /\ UNCHANGED <<clock, src, points, manifest>>
      /\ \A x \in Docs \ {d} : work'[x] = work[x]
      /\ run'.seen \in {run.seen, run.seen \cup {d}}
  BY <1>1, ListDocFields DEF stores, AclConditions
<1>3. CASE e # d
  BY <1>1, <1>2, <1>3, MirrorFrame DEF DocFacts
<1>4. CASE e = d
  <2>0. /\ work[e].step = "none" /\ e \notin run.seen /\ InRun /\ run.hidden = {} /\ ~run.error
        /\ run'.phase = "list"
    BY <1>1, <1>2, <1>4 DEF DocFacts, DocInv, PlanSound, MirrorPart, RunShape, InRun, SameRun
  <2>1. RunShape(e)'
    BY <1>1, <1>2, <1>4, <2>0 DEF RunShape, SameRun, DocFacts, MirrorPart
  <2>2. Enumerated(e) => Listed(e)
    BY <1>1 DEF Enumerated, Listed, DocFacts, MirrorPart, Hashed
  <2>3. CASE /\ Enumerated(e) /\ work' = work
             /\ run.prior[e].state = "live" /\ run.prior[e].etag = src[e].etag
             /\ run.prior[e].acl = src[e].acl
    <3>1. Listed(e)' /\ Mirrors(e)'
      BY <1>2, <2>0, <2>2, <2>3, SkipServed DEF Listed, Mirrors
    <3>2. Hashed(e)'
      BY <1>1, <1>2, <2>0, <2>3 DEF DocFacts, MirrorPart, Hashed
    <3> QED
      BY <2>0, <2>1, <2>3, <3>1, <3>2 DEF MirrorPart, TaskRight, NoTaskRight
  <2>4. ASSUME Enumerated(e), NEW kind \in {"fetch", "acl"},
               work'[e] = Task(kind, src[e], src[e].acl),
               kind = "acl" => /\ run.prior[e].state = "live"
                              /\ run.prior[e].etag = src[e].etag
        PROVE  MirrorPart(e)'
    <3>1. /\ work'[e].step = "todo" /\ work'[e].kind = kind /\ work'[e].etag = src[e].etag
          /\ work'[e].acl = src[e].acl
          /\ Materialised => work'[e].content = src[e].content
      BY <1>1, <2>4, TaskFields DEF DocFacts, MirrorPart, Hashed
    <3>2. kind = "acl" => Served(e)'
      BY <1>2, <2>0, <2>2, <2>4, SkipServed DEF Served
    <3>3. Listed(e)'
      BY <1>2, <2>2, <2>4 DEF Listed
    <3>4. src[e].content # NoHash
      BY <1>1 DEF DocFacts, StoresOrdered, NoHash, SrcType
    <3>5. Hashed(e)'
      BY <1>1, <1>2, <3>1, <3>4 DEF DocFacts, MirrorPart, Hashed
    <3>6. TaskRight(e)' /\ NoTaskRight(e)'
      BY <1>2, <3>1, <3>2, <3>3 DEF TaskRight, NoTaskRight
    <3> QED
      BY <2>1, <3>5, <3>6 DEF MirrorPart
  <2>5. CASE ~src[e].present /\ work'[e] = Task("delete", src[e], DefaultAcl)
    <3>1. work'[e].step = "todo" /\ work'[e].kind = "delete"
      BY <2>5, TaskFields
    <3> QED
      BY <1>1, <1>2, <2>1, <2>5, <3>1
         DEF DocFacts, MirrorPart, Hashed, TaskRight, NoTaskRight
  <2>6. CASE /\ run'.seen = run.seen /\ work' = work /\ ~Enumerated(e)
             /\ src[e].present \/ FullScan(run)
    <3>1. ~Listed(e)'
      BY <1>2, <2>6 DEF Listed, Enumerated
    <3>2. FullScan(run') <=> FullScan(run)
      BY <1>2 DEF FullScan, SameRun
    <3>3. Hashed(e)'
      BY <1>1, <1>2, <2>0, <2>6 DEF DocFacts, MirrorPart, Hashed
    <3> QED
      BY <1>2, <2>0, <2>1, <2>6, <3>1, <3>2, <3>3 DEF MirrorPart, TaskRight, NoTaskRight
  <2> QED
    <3>1. \/ /\ Enumerated(e) /\ work' = work
             /\ run.prior[e].state = "live" /\ run.prior[e].etag = src[e].etag
             /\ run.prior[e].acl = src[e].acl
          \/ /\ Enumerated(e)
             /\ \E kind \in {"fetch", "acl"} :
                  /\ work'[e] = Task(kind, src[e], src[e].acl)
                  /\ kind = "acl" => /\ run.prior[e].state = "live"
                                    /\ run.prior[e].etag = src[e].etag
          \/ ~src[e].present /\ work'[e] = Task("delete", src[e], DefaultAcl)
          \/ /\ run'.seen = run.seen /\ work' = work /\ ~Enumerated(e)
             /\ src[e].present \/ FullScan(run)
      BY <1>1, <1>4, ListDocFields DEF AclConditions
    <3> QED
      BY <2>3, <2>4, <2>5, <2>6, <3>1
<1> QED
  BY <1>3, <1>4

LEMMA MirrorReset ==
    ASSUME Ground, UNCHANGED <<src, points, manifest>>,
           run' = Idle, work' = [d \in Docs |-> NoWork], NEW d \in Docs
    PROVE  MirrorPart(d)'
<1>1. Hashed(d) /\ run'.phase = "idle" /\ work'[d].step = "none"
  BY GroundOf DEF DocFacts, MirrorPart, Idle, NoWork
<1> QED
  BY <1>1 DEF MirrorPart, Hashed, TaskRight, NoTaskRight, RunShape, InRun

LEMMA MirrorEndList == Ground /\ EndList => MirrorInv'
<1> SUFFICES ASSUME Ground, EndList, NEW d \in Docs PROVE MirrorPart(d)'
  BY GroundOf, EndListTyped DEF MirrorInv, MirrorPart, Ground
<1> DEFINE gone == IF FullScan(run) THEN Missing(run) ELSE {}
<1>1. /\ Plan(NextCursor(run), gone, FALSE) /\ run.phase = "list" /\ run.todo = {}
      /\ UNCHANGED <<clock, src, points, manifest>> /\ TypeOK /\ DocFacts(d)
  BY GroundOf DEF EndList, stores
<1>2. FullScan(run) /\ d \notin run.seen => d \in gone \/ run.prior[d].state # "live"
  BY DEF Missing
<1> HIDE DEF gone
<1>3. CASE run' = Idle /\ work' = [x \in Docs |-> NoWork]
  BY <1>1, <1>3, MirrorReset
<1>4. CASE /\ run'.phase = "process" /\ ~run'.error
           /\ run'.doc = run.doc /\ run'.from = run.from
           /\ run'.start = run.start /\ run'.prior = run.prior /\ run'.hidden = run.hidden
           /\ run'.todo = {} /\ run'.gone = IF Single THEN {} ELSE gone
           /\ \/ work'[d] = work[d]
              \/ work'[d] = NoWork /\ Single
  <2>1. RunShape(d)' /\ run.hidden = {} /\ ~run.error
    BY <1>1, <1>4 DEF DocFacts, MirrorPart, RunShape
  <2>2. CASE work'[d] = NoWork /\ Single
    <3>1. work'[d].step = "none" /\ Single'
      BY <1>4, <2>2 DEF NoWork, Single
    <3> QED
      BY <1>1, <2>1, <3>1 DEF DocFacts, MirrorPart, Hashed, TaskRight, NoTaskRight
  <2>3. CASE work'[d] = work[d]
    <3>1. TaskRight(d)' /\ Hashed(d)'
      BY <1>1, <1>4, <2>3 DEF DocFacts, MirrorPart, TaskRight, Hashed, InRun, Steady, Listed, Served, Mirrors
    <3>2. NoTaskRight(d)'
      BY <1>1, <1>2, <1>4, <2>1, <2>3
         DEF DocFacts, MirrorPart, NoTaskRight, Single, Steady, Behind, FullScan, Listed, Mirrors
    <3> QED
      BY <2>1, <3>1, <3>2 DEF MirrorPart
  <2> QED
    BY <1>4, <2>2, <2>3
<1> QED
  BY <1>1, <1>3, <1>4, PlanFields

LEMMA MirrorListFails == Ground /\ ListFails => MirrorInv'
<1> SUFFICES ASSUME Ground, ListFails, NEW d \in Docs PROVE MirrorPart(d)'
  BY GroundOf, ListFailsTyped DEF MirrorInv, MirrorPart, Ground
<1>1. /\ Plan(NoCursor, {}, TRUE) /\ run.phase = "list"
      /\ UNCHANGED <<clock, src, points, manifest>> /\ TypeOK /\ DocFacts(d)
  BY GroundOf DEF ListFails, stores
<1>2. CASE run' = Idle /\ work' = [x \in Docs |-> NoWork]
  BY <1>1, <1>2, MirrorReset
<1>3. CASE /\ run'.phase = "process" /\ run'.error
           /\ run'.start = run.start /\ run'.hidden = run.hidden /\ run'.todo = {}
           /\ work'[d] = work[d] \/ work'[d] = NoWork
  BY <1>1, <1>3 DEF DocFacts, MirrorPart, Hashed, TaskRight, NoTaskRight, RunShape, InRun, Steady,
                    Listed, Served, Mirrors, NoWork
<1> QED
  BY <1>1, <1>2, <1>3, PlanFields

\* One step of a task leaves a steady document as its task should.
LEMMA TaskMirrors ==
    ASSUME Ground, NEW d \in Docs, UNCHANGED <<clock, src, manifest, run>>,
           run.phase = "process", TaskMoves(d), TypeOK'
    PROVE  Hashed(d)' /\ TaskRight(d)' /\ work[d].step # "none"
<1>1. /\ TypeOK /\ DocFacts(d) /\ AclConditions /\ src[d] \in SrcType /\ points[d] \in IndexType
      /\ manifest[d] \in EntryType /\ work[d] \in WorkType
  BY GroundOf
<1>0. points'[d] \in IndexType
  BY DEF TypeOK
<1>2. /\ InRun /\ run.prior = manifest /\ Hashed(d) /\ TaskRight(d) /\ TaskOrdered(d)
  BY <1>1 DEF DocFacts, MirrorPart, RunOrdered, InRun
<1> USE DEF SrcType, IndexType, EntryType, WorkType
<1>3. work[d].step # "none"
  BY DEF TaskMoves
<1>4. Hashed(d)'
  <2>1. work'[d].kind = work[d].kind
    BY DEF TaskMoves, WorkMoves, Fetched
  <2>2. Materialised /\ work[d].kind # "delete" => work'[d].content # NoHash
    BY <1>2, <1>3 DEF Hashed, TaskMoves, WorkMoves, Fetched, TaskOrdered
  <2> QED
    BY <1>2, <2>1, <2>2 DEF Hashed
<1>5. Steady(d)' <=> Steady(d)
  BY DEF Steady
<1>6. Listed(d)' <=> Listed(d)
  BY DEF Listed
<1>7. Mirrors(d)' <=> (points'[d] = [state |-> "live", content |-> src[d].content, acl |-> src[d].acl])
  BY DEF Mirrors
<1>8. AclRewritten(d) /\ Served(d) /\ work[d].acl = src[d].acl
        => points'[d].state = "live" /\ points'[d].content = src[d].content /\ points'[d].acl = src[d].acl
  BY DEF AclRewritten, Served
<1>9. /\ work'[d].kind = work[d].kind /\ work'[d].acl = work[d].acl
      /\ work'[d].step = "deleted" => work[d].kind = "delete"
      /\ work[d].kind = "delete" => work'[d].step \in {"row", "deleted"}
      /\ work'[d].step # "todo"
  BY <1>2, <1>3 DEF TaskMoves, WorkMoves, Fetched
<1>10. ASSUME Steady(d), work[d].kind = "delete"
       PROVE  /\ ~src[d].present
              /\ work'[d].step # "failed"
              /\ work'[d].step \in {"row", "deleted"} => points'[d].state # "live"
  BY <1>2, <1>3, <1>10 DEF TaskMoves, WorkMoves, TaskRight
<1>11. ASSUME Steady(d), work[d].kind # "delete"
       PROVE  /\ Listed(d) /\ work[d].acl = src[d].acl
              /\ work'[d].step # "failed"
              /\ work'[d].step = "write" => work'[d].content = src[d].content
              /\ work'[d].step = "acl" => Served(d)'
              /\ work'[d].step \in {"row", "done"} => Mirrors(d)'
  <2>1. /\ Listed(d) /\ work[d].acl = src[d].acl
        /\ work[d].step = "todo" /\ work[d].kind = "acl" => Served(d)
        /\ work[d].step = "todo" /\ Materialised => work[d].content = src[d].content
        /\ work[d].step = "write" => work[d].content = src[d].content
        /\ work[d].step = "acl" => Served(d)
        /\ work[d].step \in {"row", "done"} => Mirrors(d)
    BY <1>2, <1>3, <1>11 DEF TaskRight, InRun
  <2>2. CASE /\ work[d].kind = "acl" /\ work[d].step = "todo" /\ AclRewritten(d)
             /\ WorkMoves(d, "row", work[d].etag, run.prior[d].content)
    <3>1. points'[d] = [state |-> "live", content |-> src[d].content, acl |-> src[d].acl]
      BY <1>0, <1>8, <2>1, <2>2
    <3> QED
      BY <1>7, <2>1, <2>2, <3>1 DEF WorkMoves
  <2>3. CASE /\ work[d].kind = "fetch" /\ work[d].step = "acl" /\ AclRewritten(d)
             /\ WorkMoves(d, "done", work[d].etag, work[d].content)
    <3>1. points'[d] = [state |-> "live", content |-> src[d].content, acl |-> src[d].acl]
      BY <1>0, <1>8, <2>1, <2>3
    <3> QED
      BY <1>7, <2>1, <2>3, <3>1 DEF WorkMoves
  <2>4. CASE /\ work[d].kind = "fetch" /\ work[d].step = "write"
             /\ points'[d] = [state |-> "live", content |-> work[d].content, acl |-> work[d].acl]
             /\ WorkMoves(d, "row", work[d].etag, work[d].content)
    BY <1>7, <2>1, <2>4 DEF WorkMoves
  <2>5. CASE /\ work[d].kind \in {"fetch", "acl"} /\ work[d].step = "row" /\ points'[d] = points[d]
             /\ WorkMoves(d, "done", work[d].etag, work[d].content)
    BY <1>7, <2>1, <2>5 DEF WorkMoves, Mirrors
  <2>6. CASE /\ work[d].kind = "fetch" /\ work[d].step = "todo" /\ points'[d] = points[d]
             /\ Fetched(d)
    <3>1. src[d].content # NoHash /\ Body(d) = src[d].content /\ src[d].present
      BY <1>1, <2>1, <2>6 DEF Body, Listed, DocFacts, StoresOrdered, NoHash
    <3>2. ~(/\ ~Materialised /\ run.prior[d].state # "none"
            /\ run.prior[d].etag = work[d].etag)
      BY <1>1, <1>2, <2>6 DEF DocFacts, DownloadIsNew
    <3>3. PICK etag, step :
            /\ WorkMoves(d, step, etag, Body(d))
            /\ step \in {"write", "acl", "done"}
            /\ step # "write" => run.prior[d].state = "live" /\ run.prior[d].content = Body(d)
            /\ step = "done" => run.prior[d].acl = work[d].acl
      BY <2>6, <3>1, <3>2 DEF Fetched
    <3>4. step # "write" => Served(d)
      BY <1>1, <1>2, <2>1, <3>1, <3>3 DEF DocFacts, DocInv, HashVouches
    <3>5. step = "done" => Mirrors(d)
      <4>1. step = "done" => points[d].acl = src[d].acl
        BY <1>1, <1>2, <2>1, <3>1, <3>3 DEF DocFacts, AclOrdered
      <4> QED
        BY <1>1, <3>3, <3>4, <4>1, MirrorsIff
    <3> QED
      BY <2>1, <2>6, <3>1, <3>3, <3>4, <3>5 DEF WorkMoves, Served, Mirrors
  <2> QED
    BY <1>2, <1>3, <1>11, <2>1, <2>2, <2>3, <2>4, <2>5, <2>6 DEF TaskMoves
<1> QED
  BY <1>3, <1>4, <1>5, <1>6, <1>9, <1>10, <1>11 DEF TaskRight

LEMMA MirrorProcess == Ground /\ ProcessNext => MirrorInv'
<1> SUFFICES ASSUME Ground, NEW d \in Docs,
                    \/ DeleteIndex(d) \/ DeleteRow(d) \/ AclIndex(d) \/ Fetch(d)
                    \/ LateAcl(d) \/ WriteIndex(d) \/ WriteRow(d),
                    NEW e \in Docs
             PROVE  MirrorPart(e)'
  BY GroundOf, ProcessTyped DEF MirrorInv, MirrorPart, ProcessNext, Ground
<1>1. TypeOK /\ TypeOK' /\ DocFacts(e) /\ DocFacts(d)
  BY GroundOf, ProcessTyped DEF ProcessNext
<1>2. /\ UNCHANGED <<clock, src, manifest, run>> /\ run.phase = "process"
      /\ \A x \in Docs \ {d} : points'[x] = points[x] /\ work'[x] = work[x]
      /\ TaskMoves(d)
  BY <1>1, ProcessMoves
<1>3. CASE e # d
  BY <1>1, <1>2, <1>3, MirrorFrame DEF DocFacts, SameRun, MirrorPart, RunShape
<1>4. CASE e = d
  <2>1. Hashed(d)' /\ TaskRight(d)' /\ work[d].step # "none"
    BY <1>1, <1>2, TaskMirrors
  <2>2. work'[d].step # "none"
    BY <1>2 DEF TaskMoves, WorkMoves, Fetched
  <2>3. d \notin run.hidden /\ run.todo = {}
    BY <1>1, <1>2, <2>1 DEF DocFacts, MirrorPart, RunShape, DocInv, PlanSound
  <2> QED
    BY <1>2, <1>4, <2>1, <2>2, <2>3 DEF MirrorPart, NoTaskRight, RunShape
<1> QED
  BY <1>3, <1>4

LEMMA MirrorTombstone == ASSUME Ground, NEW d \in Docs, TombstoneMissing(d) PROVE MirrorInv'
<1> SUFFICES ASSUME NEW e \in Docs PROVE MirrorPart(e)'
  BY GroundOf, TombstoneTyped DEF MirrorInv, MirrorPart
<1>1. DocFacts(e) /\ points \in [Docs -> IndexType] /\ run \in RunType
  BY GroundOf DEF TypeOK
<1>2. /\ run.phase = "process" /\ UNCHANGED <<clock, src, manifest, work>> /\ d \in run.gone
      /\ run'.hidden = run.hidden \cup {d}
      /\ run'.phase = run.phase /\ run'.mode = run.mode /\ run'.doc = run.doc
      /\ run'.from = run.from /\ run'.start = run.start /\ run'.token = run.token
      /\ run'.error = run.error /\ run'.prior = run.prior /\ run'.gone = run.gone
      /\ run'.todo = run.todo /\ run'.seen = run.seen
      /\ points'[e] = points[e] \/ e = d
      /\ points'[d].state # "live"
  BY <1>1 DEF TombstoneMissing, RunType, IndexType
<1>3. CASE e # d
  BY <1>1, <1>2, <1>3
     DEF DocFacts, MirrorPart, Hashed, TaskRight, NoTaskRight, RunShape, InRun, Steady, Behind,
         FullScan, Single, Listed, Served, Mirrors
<1>4. CASE e = d
  <2>1. work[d].step = "none" /\ (~Listed(d) \/ ~Steady(d))
    BY <1>1, <1>2, <1>4, GroundOf DEF DocFacts, DocInv, PlanSound, HideSound, MayHide, Steady, RunType, SrcType
  <2>2. Hashed(d)' /\ RunShape(d)' /\ TaskRight(d)'
    BY <1>1, <1>2, <1>4, <2>1 DEF DocFacts, MirrorPart, Hashed, TaskRight, RunShape, InRun
  <2>3. NoTaskRight(d)'
    BY <1>2, <2>1 DEF NoTaskRight, Listed, Steady
  <2> QED
    BY <1>4, <2>2, <2>3 DEF MirrorPart
<1> QED
  BY <1>3, <1>4

LEMMA MirrorFailDoc == ASSUME Ground, NEW d \in Docs, FailDoc(d) PROVE MirrorInv'
<1> SUFFICES ASSUME NEW e \in Docs PROVE MirrorPart(e)'
  BY GroundOf, FailDocTyped DEF MirrorInv, MirrorPart
<1>1. DocFacts(e) /\ work[d] \in WorkType /\ work \in [Docs -> WorkType]
  BY GroundOf DEF TypeOK
<1>2. /\ run.phase = "process" /\ UNCHANGED <<clock, src, points, manifest, run>>
      /\ \A x \in Docs \ {d} : work'[x] = work[x]
      /\ work'[d].step = "failed" /\ work'[d].kind = work[d].kind /\ work'[d].acl = work[d].acl
      /\ work'[d].content = work[d].content /\ work[d].step # "none"
      /\ Faults \cap {"fail", "partial"} # {}
  BY <1>1 DEF FailDoc, Advance, stores, WorkType
<1>3. CASE e # d
  BY <1>1, <1>2, <1>3, MirrorFrame DEF DocFacts, SameRun, MirrorPart, RunShape
<1>4. CASE e = d
  BY <1>1, <1>2, <1>4
     DEF DocFacts, MirrorPart, Hashed, TaskRight, NoTaskRight, RunShape, InRun, Steady, Listed
<1> QED
  BY <1>3, <1>4

LEMMA MirrorSave == Ground /\ SaveManifest => MirrorInv'
<1> SUFFICES ASSUME Ground, SaveManifest, NEW d \in Docs PROVE MirrorPart(d)'
  BY GroundOf, SaveTyped DEF MirrorInv, MirrorPart, Ground
<1>1. DocFacts(d) /\ manifest[d] \in EntryType /\ run \in RunType
  BY GroundOf
<1>2. /\ run.phase = "process" /\ UNCHANGED <<clock, src, points, work>>
      /\ run'.phase = "record" /\ run'.doc = run.doc /\ run'.from = run.from
      /\ run'.start = run.start /\ run'.error = run.error /\ run'.prior = run.prior
      /\ run'.todo = run.todo /\ run.hidden = run.gone /\ manifest'[d] = Fold(d)
      /\ work[d].step \in {"none", "done", "deleted", "failed"}
  BY <1>1 DEF SaveManifest, RunType, Settled
<1>3. InRun /\ run.prior = manifest
  BY <1>1, <1>2 DEF DocFacts, RunOrdered, InRun
<1>4. Hashed(d)'
  <2>1. CASE work[d].step = "done"
    <3>1. work[d].kind # "delete" /\ manifest'[d].content = work[d].content
      BY <1>1, <1>2, <2>1 DEF DocFacts, MirrorPart, TaskRight, Fold, OutcomeEntry
    <3> QED
      BY <1>1, <1>2, <1>3, <2>1, <3>1 DEF DocFacts, MirrorPart, Hashed, InRun
  <2>2. CASE work[d].step # "done"
    <3>1. /\ manifest'[d].content = manifest[d].content
          /\ manifest'[d].state # "none" => manifest[d].state # "none"
      BY <1>1, <1>2, <2>2 DEF Fold, MarkDeleted, EntryType
    <3> QED
      BY <1>1, <1>2, <3>1 DEF DocFacts, MirrorPart, Hashed, InRun
  <2> QED
    BY <2>1, <2>2
<1>5. TaskRight(d)' /\ RunShape(d)'
  BY <1>1, <1>2 DEF DocFacts, MirrorPart, TaskRight, RunShape, Steady, Listed, Served, Mirrors
<1>6. NoTaskRight(d)'
  <2>1. work[d].step = "none" /\ manifest'[d].state = "live" => manifest[d].state = "live"
    BY <1>1, <1>2 DEF Fold, MarkDeleted, EntryType
  <2>2. d \in run.gone => points[d].state # "live"
    BY <1>1, <1>2 DEF DocFacts, MirrorPart, RunShape
  <2> QED
    BY <1>1, <1>2, <1>3, <2>1, <2>2
       DEF DocFacts, MirrorPart, NoTaskRight, Single, Steady, Behind, FullScan, Listed, Mirrors
<1> QED
  BY <1>4, <1>5, <1>6 DEF MirrorPart

LEMMA MirrorNext == Ground /\ [Next]_vars => MirrorInv'
<1>1. ASSUME Ground, UNCHANGED vars PROVE MirrorInv'
  <2>1. TypeOK'
    BY <1>1, NextTyped, GroundOf DEF Ground, MirrorInv
  <2>2. ASSUME NEW d \in Docs PROVE MirrorPart(d)'
    BY <1>1, GroundOf, MirrorFrame DEF vars, SameRun, DocFacts, MirrorPart, RunShape
  <2> QED
    BY <2>1, <2>2 DEF MirrorInv, MirrorPart
<1>2. ASSUME Ground, RecordRun \/ Crash PROVE MirrorInv'
  <2>1. ASSUME NEW d \in Docs PROVE MirrorPart(d)'
    BY <1>2, MirrorReset DEF RecordRun, Crash, stores
  <2> QED
    BY <1>2, <2>1, RecordTyped, CrashTyped DEF Ground, MirrorInv, MirrorPart
<1>3. ASSUME Ground, RunNext PROVE MirrorInv'
  BY <1>2, <1>3, MirrorListDoc, MirrorEndList, MirrorProcess, MirrorTombstone, MirrorSave DEF RunNext
<1>4. ASSUME Ground, FaultNext PROVE MirrorInv'
  BY <1>2, <1>4, MirrorListFails, MirrorFailDoc DEF FaultNext
<1> QED
  BY <1>1, <1>3, <1>4, MirrorSource, MirrorStart DEF Next

LEMMA GroundHolds == ASSUME MirrorConditions PROVE Spec => []Ground
<1>1. AclConditions
  BY DEF MirrorConditions
<1>2. Spec => [](IInv /\ RowInv /\ HideInv)
  BY <1>1, Established DEF AclConditions
<1>3. Spec => []AclInv
  BY <1>1, AclInvariant
<1>4. IInv /\ RowInv /\ HideInv /\ AclInv /\ MirrorInv /\ [Next]_vars => MirrorInv'
  BY MirrorNext DEF Ground
<1>5. IInv /\ RowInv /\ HideInv /\ AclInv /\ MirrorInv => Ground
  BY DEF Ground
<1> QED
  BY <1>2, <1>3, <1>4, <1>5, MirrorInit, PTL DEF Spec

\* CleanFullScanMirrors for every number of documents, connector and failure: what a run
\* that listed the whole source reports as a success is what the index serves.
THEOREM CleanScansMirror == ASSUME MirrorConditions PROVE Spec => CleanFullScanMirrors
<1>1. ASSUME Ground, RecordRun,
             last'.status = "succeeded", last'.full, last'.start = clock, NEW d \in Docs
      PROVE  IF Listed(d) THEN Mirrors(d)
             ELSE run.prior[d].state = "live" => points[d].state # "live"
  <2>1. DocFacts(d) /\ src[d] \in SrcType /\ run \in RunType /\ clock \in Nat
    BY <1>1, GroundOf
  <2>2. /\ run.phase = "record" /\ run.start = clock /\ Status = "succeeded"
        /\ FullScan(run) /\ ~Single /\ ~run.error
    BY <1>1 DEF RecordRun
  <2>3. work[d].step \in {"none", "done", "deleted"} /\ run.todo = {}
    BY <1>1, <2>1, <2>2 DEF DocFacts, MirrorPart, RunShape, Status
  <2>4. Steady(d) /\ ~Behind(d)
    BY <2>1, <2>2 DEF Steady, Behind, DocFacts, HideSound
  <2>5. CASE work[d].step = "none"
    BY <2>1, <2>2, <2>3, <2>4, <2>5 DEF DocFacts, MirrorPart, NoTaskRight
  <2>6. CASE work[d].step # "none"
    BY <2>1, <2>2, <2>3, <2>4, <2>6 DEF DocFacts, MirrorPart, TaskRight, Listed
  <2> QED
    BY <2>5, <2>6
<1>2. ASSUME Ground, [Next]_vars
      PROVE  [(/\ RecordRun
               /\ last'.status = "succeeded"
               /\ last'.full
               /\ last'.start = clock)
              => \A d \in Docs : IF Listed(d) THEN Mirrors(d)
                                ELSE run.prior[d].state = "live" => points[d].state # "live"]_vars
  BY <1>1, <1>2
<1> QED
  BY <1>2, GroundHolds, PTL DEF Spec, CleanFullScanMirrors

-----------------------------------------------------------------------------
(* NothingLostBehindCursor, from the invariant CursorInv. *)

\* NothingLostBehindCursor for one document.
CursorSound(d) ==
    src[d].mod <= cursor =>
      /\ Listed(d) => Mirrors(d)
      /\ ~src[d].present /\ manifest[d].state = "live" => points[d].state # "live"

LEMMA CursorInit == Init => CursorInv
<1> SUFFICES ASSUME Init PROVE CursorInv
  OBVIOUS
<1>1. cursor = 0 /\ clock = 1 /\ run.phase = "idle" /\ \A d \in Docs : src[d].mod = 1
  BY DEF Init, NoCursor, Idle
<1> QED
  BY <1>1 DEF CursorInv, CursorOrdered, NothingLostBehindCursor

\* The cursor never runs ahead of the source, nor a run's start behind the cursor.
LEMMA CursorAdvances ==
    ASSUME CursorConditions, Ground, CursorOrdered, Next
    PROVE  CursorOrdered'
<1>1. /\ TypeOK /\ run \in RunType /\ clock \in Nat /\ cursor \in Nat
      /\ run.from \in Nat /\ run.start \in Nat
  BY DEF Ground, IInv, TypeOK, RunType
<1>2. CASE SourceNext
  <2>1. UNCHANGED <<cursor, run>> /\ clock' = clock + 1
    BY <1>2 DEF SourceNext, Edit, Touch, SetAcl, RevertAcl, Remove, Upload, Restore, Change, stores
  <2> QED
    BY <1>1, <2>1 DEF CursorOrdered, Single
<1>3. ASSUME NEW mode \in ModeKinds, NEW d \in Docs \cup {NoDoc}, StartRun(mode, d)
      PROVE  CursorOrdered'
  <2>1. /\ run'.doc = d /\ run'.start = clock /\ run'.token = NoCursor
        /\ run'.from \in {NoCursor, cursor} /\ UNCHANGED <<clock, cursor>>
        /\ mode \in Modes /\ (d # NoDoc <=> mode \in {"single", "reindex"})
    BY <1>1, <1>3, StartFields DEF stores
  <2> QED
    BY <1>1, <2>1 DEF CursorOrdered, CursorConditions, Single, NoCursor
<1>4. ASSUME NEW d \in Docs, ListDoc(d) PROVE CursorOrdered'
  <2>1. SameRun /\ UNCHANGED <<clock, cursor>>
    BY <1>1, <1>4, ListDocFields DEF stores, CursorConditions, MirrorConditions, AclConditions
  <2> QED
    BY <2>1 DEF CursorOrdered, SameRun, Single
<1>5. ASSUME NEW token, NEW gone, NEW error, Plan(token, gone, error),
             run.phase = "list", UNCHANGED <<clock, cursor>>,
             token # NoCursor => token = run.start /\ ~error
      PROVE  CursorOrdered'
  BY <1>1, <1>5, PlanFields DEF CursorOrdered, Single, Idle
<1>6. CASE EndList
  <2>1. NextCursor(run) # NoCursor => NextCursor(run) = run.start
    BY DEF NextCursor
  <2> QED
    BY <1>5, <1>6, <2>1 DEF EndList, stores
<1>7. CASE ListFails
  BY <1>5, <1>7 DEF ListFails, stores
<1>8. CASE ProcessNext
  <2>1. UNCHANGED <<clock, cursor, run>>
    BY <1>1, <1>8, ProcessMoves DEF ProcessNext
  <2> QED
    BY <2>1 DEF CursorOrdered, Single
<1>9. CASE \E d \in Docs : TombstoneMissing(d) \/ FailDoc(d)
  <2>1. /\ run'.phase = run.phase /\ run'.doc = run.doc /\ run'.from = run.from
        /\ run'.start = run.start /\ run'.token = run.token /\ run'.error = run.error
        /\ UNCHANGED <<clock, cursor>>
    BY <1>1, <1>9 DEF TombstoneMissing, FailDoc, RunType, stores
  <2> QED
    BY <2>1 DEF CursorOrdered, Single
<1>10. CASE SaveManifest
  <2>1. /\ run.phase = "process" /\ run'.doc = run.doc /\ run'.from = run.from
        /\ run'.start = run.start /\ run'.token = run.token /\ run'.error = run.error
        /\ UNCHANGED <<clock, cursor>>
    BY <1>1, <1>10 DEF SaveManifest, RunType
  <2> QED
    BY <2>1 DEF CursorOrdered, Single
<1>11. CASE RecordRun
  <2>1. /\ run.phase = "record" /\ run'.phase = "idle" /\ UNCHANGED clock
        /\ cursor' = IF run.token = NoCursor THEN cursor ELSE run.token
    BY <1>11 DEF RecordRun, Idle
  <2> QED
    BY <1>1, <2>1 DEF CursorOrdered
<1>12. CASE Crash
  <2>1. run'.phase = "idle" /\ UNCHANGED <<clock, cursor>>
    BY <1>12 DEF Crash, Idle, stores
  <2> QED
    BY <2>1 DEF CursorOrdered
<1> QED
  BY <1>2, <1>3, <1>4, <1>6, <1>7, <1>8, <1>9, <1>10, <1>11, <1>12
     DEF Next, Start, RunNext, FaultNext

\* A step that moves neither the cursor nor the stores.
LEMMA CursorFrame ==
    ASSUME NEW d \in Docs, CursorSound(d),
           UNCHANGED <<cursor, manifest>>, src'[d] = src[d], points'[d] = points[d]
    PROVE  CursorSound(d)'
BY DEF CursorSound, Listed, Mirrors

\* A task of a document behind the cursor writes again what is there.
LEMMA CursorTask ==
    ASSUME Ground, CursorOrdered, NEW d \in Docs, CursorSound(d),
           UNCHANGED <<clock, src, manifest, cursor, run>>, run.phase = "process",
           TaskMoves(d), TypeOK'
    PROVE  CursorSound(d)'
<1> SUFFICES ASSUME src[d].mod <= cursor
             PROVE  /\ Listed(d) => Mirrors(d)'
                    /\ ~src[d].present /\ manifest[d].state = "live" => points'[d].state # "live"
  BY DEF CursorSound, Listed
<1>1. /\ DocFacts(d) /\ src[d] \in SrcType /\ run.start \in Nat /\ cursor \in Nat
      /\ points'[d] \in IndexType
  BY GroundOf DEF RunType, TypeOK
<1>2. Steady(d) /\ TaskRight(d) /\ work[d].step # "none"
  BY <1>1 DEF Steady, CursorOrdered, DocFacts, MirrorPart, SrcType, TaskMoves
<1>3. CASE work[d].kind = "delete"
  <2>1. points'[d].state # "live" \/ points'[d] = points[d]
    BY <1>3 DEF TaskMoves
  <2> QED
    BY <1>2, <1>3, <2>1 DEF TaskRight, CursorSound, Listed
<1>4. CASE work[d].kind # "delete"
  <2>1. /\ Listed(d) /\ Mirrors(d) /\ work[d].acl = src[d].acl
        /\ work[d].step = "write" => work[d].content = src[d].content
    BY <1>2, <1>4 DEF TaskRight, CursorSound
  <2>2. CASE AclRewritten(d)
    <3>1. points'[d].state = "live" /\ points'[d].content = src[d].content /\ points'[d].acl = src[d].acl
      BY <2>1, <2>2 DEF AclRewritten, Mirrors
    <3>2. points'[d] = [state |-> "live", content |-> src[d].content, acl |-> src[d].acl]
      BY <1>1, <3>1 DEF IndexType
    <3> QED
      BY <2>1, <3>2 DEF Mirrors, Listed
  <2>3. CASE /\ work[d].step = "write"
             /\ points'[d] = [state |-> "live", content |-> work[d].content, acl |-> work[d].acl]
    BY <2>1, <2>3 DEF Mirrors, Listed
  <2>4. CASE points'[d] = points[d]
    BY <2>1, <2>4 DEF Mirrors, Listed
  <2> QED
    BY <1>4, <2>2, <2>3, <2>4 DEF TaskMoves
<1> QED
  BY <1>3, <1>4

\* The cursor that a run stores is only past documents the run has dealt with.
LEMMA CursorRecord ==
    ASSUME CursorConditions, Ground, CursorOrdered, RecordRun, NEW d \in Docs, CursorSound(d)
    PROVE  CursorSound(d)'
<1>1. /\ run.phase = "record" /\ UNCHANGED <<src, points, manifest>>
      /\ cursor' = IF run.token = NoCursor THEN cursor ELSE run.token
  BY DEF RecordRun
<1>2. CASE run.token = NoCursor
  BY <1>1, <1>2, CursorFrame
<1>3. CASE run.token # NoCursor
  <2>1. cursor' = run.start /\ ~Single /\ ~run.error /\ run.from <= cursor
    BY <1>1, <1>3 DEF CursorOrdered
  <2>2. /\ DocFacts(d) /\ src[d] \in SrcType /\ run.from \in Nat /\ cursor \in Nat
    BY GroundOf DEF RunType, TypeOK
  <2> SUFFICES ASSUME Steady(d)
               PROVE  /\ Listed(d) => Mirrors(d)
                      /\ ~src[d].present /\ manifest[d].state = "live" => points[d].state # "live"
    BY <1>1, <2>1 DEF CursorSound, Steady, Listed, Mirrors
  <2>3. CASE Behind(d)
    <3>1. src[d].mod <= cursor
      BY <2>1, <2>2, <2>3 DEF Behind, SrcType
    <3> QED
      BY <3>1 DEF CursorSound
  <2>4. CASE ~Behind(d) /\ work[d].step = "none"
    BY <1>1, <2>1, <2>2, <2>4 DEF DocFacts, MirrorPart, RunShape, NoTaskRight, Listed
  <2>5. CASE work[d].step # "none"
    <3>1. work[d].step \in {"done", "deleted", "failed"} /\ TaskRight(d)
      BY <1>1, <2>2, <2>5 DEF DocFacts, MirrorPart, RunShape
    <3>2. work[d].step # "failed"
      BY <1>1, <2>5, <3>1 DEF TaskRight, CursorConditions
    <3> QED
      BY <1>1, <2>5, <3>1, <3>2 DEF TaskRight, Listed
  <2> QED
    BY <2>3, <2>4, <2>5
<1> QED
  BY <1>2, <1>3

LEMMA CursorNext ==
    ASSUME CursorConditions
    PROVE  Ground /\ CursorInv /\ [Next]_vars => CursorInv'
<1> SUFFICES ASSUME Ground, CursorInv, [Next]_vars PROVE CursorInv'
  OBVIOUS
<1>1. CursorOrdered /\ \A d \in Docs : CursorSound(d)
  BY DEF CursorInv, NothingLostBehindCursor, CursorSound
<1>2. CursorOrdered'
  <2>1. CASE UNCHANGED vars
    BY <1>1, <2>1 DEF vars, CursorOrdered, Single
  <2> QED
    BY <1>1, <2>1, CursorAdvances
<1>3. ASSUME NEW d \in Docs PROVE CursorSound(d)'
  <2>0. /\ CursorSound(d) /\ TypeOK /\ TypeOK' /\ points \in [Docs -> IndexType]
        /\ src[d] \in SrcType /\ clock \in Nat /\ cursor \in Nat /\ DocFacts(d)
    BY <1>1, <1>3, GroundOf, NextTyped DEF TypeOK
  <2>1. CASE \/ UNCHANGED vars \/ Start \/ (\E e \in Docs : ListDoc(e) \/ FailDoc(e))
             \/ EndList \/ ListFails \/ Crash
    BY <2>0, <2>1, CursorFrame DEF vars, Start, StartRun, ListDoc, FailDoc, EndList, ListFails, Crash, stores
  <2>2. CASE SourceNext
    <3>1. PICK e \in Docs : /\ clock' = clock + 1 /\ src'[e].mod = clock'
                            /\ \A x \in Docs \ {e} : src'[x] = src[x]
      BY <2>0, <2>2, SourceMoves
    <3>2. UNCHANGED <<points, manifest, cursor>>
      BY <2>2 DEF SourceNext, Edit, Touch, SetAcl, RevertAcl, Remove, Upload, Restore, Change, stores
    <3>3. CASE e = d
      BY <1>1, <2>0, <3>1, <3>2, <3>3 DEF CursorSound, CursorOrdered
    <3>4. CASE e # d
      BY <2>0, <3>1, <3>2, <3>4, CursorFrame
    <3> QED
      BY <3>3, <3>4
  <2>3. CASE ProcessNext
    <3>1. PICK e \in Docs :
            /\ UNCHANGED <<clock, src, manifest, cursor, run>> /\ run.phase = "process"
            /\ \A x \in Docs \ {e} : points'[x] = points[x]
            /\ TaskMoves(e)
      BY <2>0, <2>3, ProcessMoves DEF ProcessNext
    <3>2. CASE e = d
      BY <1>1, <2>0, <3>1, <3>2, CursorTask
    <3>3. CASE e # d
      BY <2>0, <3>1, <3>3, CursorFrame
    <3> QED
      BY <3>2, <3>3
  <2>4. ASSUME NEW e \in Docs, TombstoneMissing(e) PROVE CursorSound(d)'
    <3>1. /\ UNCHANGED <<clock, src, manifest, cursor>> /\ run.phase = "process" /\ e \in run.gone
          /\ points'[d] = points[d] \/ e = d
          /\ points'[e].state # "live"
      BY <2>0, <2>4 DEF TombstoneMissing, IndexType
    <3>2. CASE e = d
      <4>1. ~Listed(d) \/ ~(src[d].mod <= cursor)
        BY <1>1, <2>0, <3>1, <3>2, GroundOf
           DEF DocFacts, HideSound, MayHide, CursorOrdered, RunType, SrcType
      <4> QED
        BY <3>1, <3>2, <4>1 DEF CursorSound, Listed
    <3>3. CASE e # d
      BY <2>0, <3>1, <3>3, CursorFrame
    <3> QED
      BY <3>2, <3>3
  <2>5. CASE SaveManifest
    <3>1. /\ UNCHANGED <<clock, src, points, cursor>> /\ run.phase = "process"
          /\ manifest'[d] = Fold(d)
      BY <2>5 DEF SaveManifest
    <3>2. ASSUME src[d].mod <= cursor, ~src[d].present, manifest'[d].state = "live"
          PROVE  manifest[d].state = "live"
      <4>1. Steady(d) /\ manifest[d] \in EntryType
        BY <1>1, <2>0, <3>1, <3>2, GroundOf DEF Steady, CursorOrdered, RunType, SrcType
      <4>2. work[d].step # "done"
        BY <2>0, <3>1, <3>2, <4>1 DEF DocFacts, MirrorPart, TaskRight, Listed
      <4> QED
        BY <3>1, <3>2, <4>1, <4>2 DEF Fold, MarkDeleted, EntryType
    <3> QED
      BY <2>0, <3>1, <3>2 DEF CursorSound, Listed, Mirrors
  <2>6. CASE RecordRun
    BY <1>1, <2>6, CursorRecord
  <2> QED
    BY <2>1, <2>2, <2>3, <2>4, <2>5, <2>6 DEF Next, RunNext, FaultNext
<1> QED
  BY <1>2, <1>3 DEF CursorInv, NothingLostBehindCursor, CursorSound

\* NothingLostBehindCursor for every number of documents, changes and crashes: whatever
\* an incremental pass will not be told of again, the index already shows.
THEOREM CursorLosesNothing ==
    ASSUME CursorConditions PROVE Spec => []NothingLostBehindCursor
<1>1. Ground /\ CursorInv /\ [Next]_vars => CursorInv'
  BY CursorNext
<1>2. Spec => []Ground
  BY GroundHolds DEF CursorConditions
<1>3. CursorInv => NothingLostBehindCursor
  BY DEF CursorInv
<1> QED
  BY <1>1, <1>2, <1>3, CursorInit, PTL DEF Spec
=============================================================================
