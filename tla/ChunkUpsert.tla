------------------------------ MODULE ChunkUpsert ------------------------------
(***************************************************************************)
(* The chunks of the documents in the index: ingestion/upsert.py over      *)
(* vectorstore/writer.py.                                                  *)
(*                                                                         *)
(* A document's chunks are texts. RunUpserter drops a text that the run    *)
(* already kept, that another document already owns in the index, or that  *)
(* is nearly one the run kept; it writes the others in batches and prunes  *)
(* the positions left over. The documents of a run are processed side by   *)
(* side, with one upserter for all (process_documents) or one for each     *)
(* (the durable activities). Two texts that are nearly the same are a pair *)
(* of NearPairs: long enough, with a band in common and a small Hamming    *)
(* distance.                                                               *)
(***************************************************************************)
EXTENDS Naturals, Sequences, SequencesExt, FiniteSets

CONSTANTS
    Documents,        \* documents of one tenant
    Drafts,           \* what a document may be chunked into: sequences of texts
    Blank,            \* the text that is empty once stripped
    DedupeEnabled,    \* dedupe_enabled
    NearPairs,        \* the pairs of texts that are near-duplicates
    BatchSize,        \* qdrant_upsert_batch_size
    MaxRuns,          \* bound: runs
    MaxMishaps        \* bound: calls that fail

ASSUME ChunkAssumption ==
    /\ \A s \in Drafts : s \in Seq(ToSet(s))
    /\ DedupeEnabled \in BOOLEAN /\ BatchSize \in Nat \ {0} /\ MaxRuns \in Nat \ {0} /\ MaxMishaps \in Nat

VARIABLES
    drafts,     \* what the source holds, chunked
    indexed,     \* the index: of each document, [text, live] by position
    upserts,    \* what is done with each document in this run
    registered, \* _seen_hashes and _bands: the texts the run's one upserter has kept
    settled,    \* the documents whose last upsert succeeded, on what the source holds
    oneForAll,  \* the run has one upserter
    runCount,
    mishaps,    \* how many calls failed
    happened    \* what the guarantees do not cover, if it happened

chunkVars ==
    <<drafts, indexed, upserts, registered, settled, oneForAll, runCount, mishaps, happened>>

\* A document that nothing is being done with.
Rest(at) == [at |-> at, owned |-> {}, kept |-> <<>>, written |-> 0]

ChunkInit ==
    /\ drafts \in [Documents -> Drafts] /\ indexed = [d \in Documents |-> <<>>]
    /\ upserts = [d \in Documents |-> Rest("idle")] /\ registered = {} /\ settled = {}
    /\ oneForAll \in BOOLEAN
    /\ runCount = 1 /\ mishaps = 0 /\ happened = {}

InFlight == {d \in Documents : upserts[d].at \in {"probed", "write", "prune"}}
TextsOf(d) == ToSet(drafts[d]) \ {Blank}
LiveTexts(d) == {indexed[d][i].text : i \in {j \in DOMAIN indexed[d] : indexed[d][j].live}}
Ends(d) == upserts' = [upserts EXCEPT ![d] = Rest("ended")]
-----------------------------------------------------------------------------
(* upsert_document, from one call it waits for to the next. *)

\* Mutant: a document's own chunks count as somebody's.
OwnersAndItself(d) == {UNION {LiveTexts(e) : e \in Documents}}

\* _corpus_hashes: who owns a text.  Of several owners the scroll's first is taken.
Owners(d) ==
    LET others == UNION {LiveTexts(e) : e \in Documents \ {d}} IN
    {owned \in SUBSET others : others \ LiveTexts(d) \subseteq owned}

Begin(d, owned) ==
    /\ d \notin InFlight
    /\ upserts' = [upserts EXCEPT ![d] = [at |-> "probed", owned |-> owned, kept |-> <<>>, written |-> 0]]
    /\ settled' = settled \ {d}
    /\ UNCHANGED <<drafts, indexed, registered, oneForAll, runCount>>

\* A second time in a run, or beside another document that has an upserter of its own.
Uncovered(d) == {h \in {"twice", "overlap"} : IF h = "twice" THEN upserts[d].at # "idle"
                                                            ELSE ~oneForAll /\ InFlight # {}}

ProbeCorpus(d) ==
    /\ \E owned \in IF DedupeEnabled THEN Owners(d) ELSE {{}} : Begin(d, owned)
    /\ happened' = happened \cup Uncovered(d) /\ UNCHANGED mishaps

\* The probe that fails finds no owner.
ProbeFails(d) ==
    /\ DedupeEnabled /\ mishaps < MaxMishaps /\ Begin(d, {})
    /\ mishaps' = mishaps + 1 /\ happened' = happened \cup Uncovered(d) \cup {"probe"}

Near(t, u) == {t, u} \in NearPairs

\* Mutant: the run's own texts are all that is looked at.
KeptForTheRun(d) == SelectSeq(drafts[d], LAMBDA t : t # Blank /\ t \notin registered)

\* One turn of upsert_document's loop: a text that is nothing new is dropped.
Considered(d, kept, t) ==
    LET known == registered \cup ToSet(kept) IN
    IF \/ t = Blank \/ t \in known \/ t \in upserts[d].owned
       \/ DedupeEnabled /\ \E u \in known : Near(t, u)
    THEN kept ELSE Append(kept, t)

\* What upsert_document keeps of the drafts, in their order.
KeptOf(d) ==
    LET F[i \in 0..Len(drafts[d])] ==
          IF i = 0 THEN <<>> ELSE Considered(d, F[i - 1], drafts[d][i])
    IN  F[Len(drafts[d])]

\* The kept texts are registered before any of them is embedded or written.  An upserter
\* of the document's own is not asked again.
Decide(d) ==
    /\ upserts[d].at = "probed"
    /\ LET kept == KeptOf(d) IN
       /\ upserts' = [upserts EXCEPT ![d] = [at |-> IF kept = <<>> THEN "prune" ELSE "write",
                                             owned |-> {}, kept |-> kept, written |-> 0]]
       /\ registered' = IF oneForAll THEN registered \cup ToSet(kept) ELSE {}
    /\ UNCHANGED <<drafts, indexed, settled, oneForAll, runCount, mishaps, happened>>

\* upsert_points: a batch overwrites the points at its positions, tombstoned or not.
WriteBatch(d) ==
    LET u == upserts[d]  upTo == IF u.written + BatchSize < Len(u.kept) THEN u.written + BatchSize
                                                                       ELSE Len(u.kept) IN
    /\ u.at = "write"
    /\ indexed' = [indexed EXCEPT ![d] =
         [i \in 1..(IF upTo > Len(@) THEN upTo ELSE Len(@)) |->
            IF i \in (u.written + 1)..upTo THEN [text |-> u.kept[i], live |-> TRUE] ELSE @[i]]]
    /\ upserts' = [upserts EXCEPT ![d].at = IF upTo = Len(u.kept) THEN "prune" ELSE "write",
                                  ![d].written = upTo]
    /\ UNCHANGED <<drafts, registered, settled, oneForAll, runCount, mishaps, happened>>

\* Mutant: the positions of the drafts are kept, those of dropped ones too.
PruneByDrafts(d) ==
    /\ upserts[d].at = "prune"
    /\ indexed' = [indexed EXCEPT ![d] = IF Len(@) < Len(drafts[d]) THEN @ ELSE SubSeq(@, 1, Len(drafts[d]))]
    /\ Ends(d) /\ settled' = settled \cup {d}
    /\ UNCHANGED <<drafts, registered, oneForAll, runCount, mishaps, happened>>

\* prune_document, with which an upsert ends.
Prune(d) ==
    /\ upserts[d].at = "prune"
    /\ indexed' = [indexed EXCEPT ![d] = SubSeq(@, 1, Len(upserts[d].kept))]
    /\ Ends(d) /\ settled' = settled \cup {d}
    /\ UNCHANGED <<drafts, registered, oneForAll, runCount, mishaps, happened>>

\* The embedder or the vector store fails: process_document reports the document as failed.
Fail(d) ==
    /\ upserts[d].at \in {"write", "prune"} /\ mishaps < MaxMishaps
    /\ Ends(d) /\ mishaps' = mishaps + 1
    /\ UNCHANGED <<drafts, indexed, registered, settled, oneForAll, runCount, happened>>
-----------------------------------------------------------------------------
\* soft_delete_document, for a document that is gone at its source.
Tombstone(d) ==
    /\ upserts[d].at = "idle" /\ LiveTexts(d) # {}
    /\ indexed' = [indexed EXCEPT ![d] = [i \in DOMAIN @ |-> [@[i] EXCEPT !.live = FALSE]]]
    /\ Ends(d)
    /\ settled' = settled \ {d}
    /\ UNCHANGED <<drafts, registered, oneForAll, runCount, mishaps, happened>>

\* The next run has new upserters.
NextRun ==
    /\ InFlight = {} /\ runCount < MaxRuns /\ runCount' = runCount + 1
    /\ upserts' = [d \in Documents |-> Rest("idle")] /\ registered' = {}
    /\ UNCHANGED <<drafts, indexed, settled, oneForAll, mishaps, happened>>

\* The source changes a document before the last run (a bound).
Edit(d, draft) ==
    /\ upserts[d].at = "idle" /\ runCount = MaxRuns /\ draft # drafts[d]
    /\ drafts' = [drafts EXCEPT ![d] = draft] /\ settled' = settled \ {d}
    /\ happened' = happened \cup IF TextsOf(d) \subseteq ToSet(draft) THEN {} ELSE {"shrunk"}
    /\ UNCHANGED <<indexed, upserts, registered, oneForAll, runCount, mishaps>>

ChunkNext ==
    \/ NextRun
    \/ \E d \in Documents :
         \/ ProbeCorpus(d) \/ ProbeFails(d) \/ Decide(d) \/ WriteBatch(d)
         \/ Prune(d) \/ Fail(d) \/ Tombstone(d)
         \/ \E draft \in Drafts : Edit(d, draft)

ChunkSpec == ChunkInit /\ [][ChunkNext]_chunkVars
-----------------------------------------------------------------------------
Texts == (UNION {ToSet(s) : s \in Drafts}) \ {Blank}

ChunkTypeOK ==
    /\ drafts \in [Documents -> Drafts] /\ settled \subseteq Documents
    /\ \A d \in Documents :
         /\ \A i \in DOMAIN indexed[d] : indexed[d][i] \in [text : Texts, live : BOOLEAN]
         /\ upserts[d].at \in {"idle", "probed", "write", "prune", "ended"}
         /\ upserts[d].written \in 0..Len(upserts[d].kept)
    /\ registered \subseteq Texts
    /\ runCount \in 1..MaxRuns /\ mishaps \in 0..MaxMishaps
    /\ happened \subseteq {"twice", "overlap", "probe", "shrunk"}

\* A text is live in the index under one document only, as long as the probe of the
\* corpus answered and documents with upserters of their own were not processed side by
\* side (upsert.py 737-747, 806-840).
NoTextTwice ==
    DedupeEnabled /\ happened \cap {"probe", "overlap"} = {} =>
        \A d, e \in Documents : d # e => LiveTexts(d) \cap LiveTexts(e) = {}

\* Texts that hang together: a group holds both texts of a pair of near-duplicates, or none.
Groups == {g \in SUBSET Texts : \A pair \in NearPairs : pair \cap g # {} => pair \subseteq g}

\* Once every document is written, each of its texts is live in the index, or one nearly
\* the same is, under this document or another (upsert.py 734-758).  With one upserter for
\* a run's documents it is a weaker promise: being nearly the same is not transitive, and
\* the text that another was dropped for may itself be dropped for a third in a later run,
\* so all that is sure is a live text at the end of a chain of near-duplicates.  It takes
\* that no document lost a text another was dropped for, that none went through one
\* upserter twice, and that the corpus was probed in time; failed writes that are repeated,
\* and documents that went and came back, lose nothing.
EveryTextHasAHome ==
    /\ settled = Documents
    /\ happened \cap {"probe", "overlap", "shrunk"} = {}
    /\ oneForAll => "twice" \notin happened
    => \A d \in Documents :
         IF oneForAll
         THEN \A g \in Groups : TextsOf(d) \cap g # {} => \E e \in Documents : LiveTexts(e) \cap g # {}
         ELSE \A t \in TextsOf(d) : \E e \in Documents : \E u \in LiveTexts(e) : u = t \/ Near(u, t)

\* A document that is written shows nothing it no longer holds, whatever its earlier
\* versions, failed writes and tombstones left at their positions (upsert.py 290-334).
NothingIsLeftOver == \A d \in settled : LiveTexts(d) \subseteq TextsOf(d)

\* What the index shows of the documents is what they hold, once (RunUpserter).
IndexIsHonest == NoTextTwice /\ EveryTextHasAHome /\ NothingIsLeftOver
=============================================================================
