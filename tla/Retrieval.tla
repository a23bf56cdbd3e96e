------------------------------ MODULE Retrieval ------------------------------
(***************************************************************************)
(* Stage 5 and 6 of a turn: every probe is embedded and searched           *)
(* (retriever, hybrid), the results are merged, deduplicated, reranked,    *)
(* diversified and cut, and the out-of-domain gate (guardrails/ood.py)     *)
(* judges what is left. The same question may then be asked again and be   *)
(* served from the cached plan. Scores are whole numbers from 0 to         *)
(* ScoreTop, which stands for 1.                                           *)
(***************************************************************************)
EXTENDS Listing, SequencesExt, FiniteSetsExt

CONSTANTS
    ProbeCount,   \* the rewritten question, its sub-questions, the HyDE passage
    Corpora,      \* what the collection may hold: [chunk -> [doc, body, kin, topic, mine]]
    FusionScores, RerankScores, ScoreTop,
    SearchLimit,  \* retrieval_limit
    RerankLimit, RerankTop, RerankFloor,
    Logistic,     \* of a cross-encoder's raw score
    PerDocument, TopN,
    OodFloor, OodMeanFloor, CollapseSpread, CollapseTop

ASSUME RetrievalAssumption ==
    /\ ProbeCount \in Nat /\ ScoreTop \in Nat
    /\ FusionScores \subseteq 0..ScoreTop /\ RerankScores \subseteq 0..ScoreTop
    /\ {SearchLimit, RerankLimit, RerankTop, PerDocument, TopN} \subseteq Nat \ {0}
    /\ RerankFloor \in Int
    /\ Logistic \in [0..ScoreTop -> 0..ScoreTop]
    /\ \A a, b \in 0..ScoreTop : a <= b => Logistic[a] <= Logistic[b]

VARIABLES
    corpus,     \* the collection the turn searches
    ranker,     \* the configured reranker: a cross-encoder or the no-op
    probes,     \* each probe: its state, and the points it brought
    retrieving, \* the stage
    pool,       \* the chunks still in, best first, with their scores
    ledger,     \* the chunks dropped, each with its reason
    gate        \* what stage 6 saw and said

retrievalVars == <<corpus, ranker, probes, retrieving, pool, ledger, gate>>

ChunkIds == UNION {DOMAIN c : c \in Corpora}
Scored   == [chunk : ChunkIds, fusion : 0..ScoreTop, rerank : -1..ScoreTop, final : 0..ScoreTop]
DropReasons == {"duplicate", "candidate_limit", "min_score", "rerank_top_n", "max_per_document", "top_n"}
NoGate   == [verdict |-> "none", classified |-> FALSE]

RetrievalTypeOK ==
    /\ corpus \in Corpora /\ ranker \in {"encoder", "noop"}
    /\ \A p \in 1..ProbeCount : probes[p].state \in {"new", "embedded", "failed", "found", "broken"}
    /\ retrieving \in {"embed", "search", "dedupe", "rerank", "diversify", "gate", "done", "again", "error"}
    /\ pool \in Seq(Scored) /\ ledger \in Seq([chunk : ChunkIds, reason : DropReasons])
    /\ gate \in [verdict : {"none", "answer", "tool", "refuse"}, classified : BOOLEAN]

RetrievalInit ==
    /\ corpus \in Corpora /\ ranker \in {"encoder", "noop"}
    /\ probes = [p \in 1..ProbeCount |-> [state |-> "new", points |-> <<>>]]
    /\ retrieving = "embed"
    /\ pool = <<>> /\ ledger = <<>> /\ gate = NoGate

Dropped(chunks, reason) == [i \in DOMAIN chunks |-> [chunk |-> chunks[i].chunk, reason |-> reason]]
-----------------------------------------------------------------------------
(* _embed_probes: a probe that cannot be embedded is left out; when none can be,
   the turn fails, since nothing was searched. *)
EmbedProbe(p) ==
    /\ retrieving = "embed" /\ probes[p].state = "new"
    /\ \A q \in 1..p - 1 : probes[q].state # "new"
    /\ \E outcome \in {"embedded", "failed"} : probes' = [probes EXCEPT ![p].state = outcome]
    /\ UNCHANGED <<corpus, ranker, retrieving, pool, ledger, gate>>

Embedded == {p \in 1..ProbeCount : probes[p].state # "failed"}

\* As it would be without the check after _embed_probes.
EmbedDoneAnyway ==
    /\ retrieving = "embed" /\ \A p \in 1..ProbeCount : probes[p].state # "new"
    /\ retrieving' = "search"
    /\ UNCHANGED <<corpus, ranker, probes, pool, ledger, gate>>

EmbedDone ==
    /\ retrieving = "embed" /\ \A p \in 1..ProbeCount : probes[p].state # "new"
    /\ retrieving' = IF Embedded = {} THEN "error" ELSE "search"
    /\ UNCHANGED <<corpus, ranker, probes, pool, ledger, gate>>

\* hybrid_search: the fused points of the dense and the sparse branch, best first.
Ranking(points) ==
    \A i, j \in DOMAIN points :
        i < j => points[i].fusion >= points[j].fusion /\ points[i].chunk # points[j].chunk
Results == {s \in SeqOf([chunk : DOMAIN corpus, fusion : FusionScores], SearchLimit) : Ranking(s)}

(* One probe's search, through the ACL filter; one that fails costs its own results.
   The points are whatever the engine returns: the reader does not rely on its filter. *)
SearchProbe(p) ==
    /\ retrieving = "search" /\ probes[p].state = "embedded"
    /\ \A q \in 1..p - 1 : probes[q].state # "embedded"
    /\ \/ \E points \in Results :
            probes' = [probes EXCEPT ![p] = [state |-> "found", points |-> points]]
       \/ probes' = [probes EXCEPT ![p].state = "broken"]
    /\ UNCHANGED <<corpus, ranker, retrieving, pool, ledger, gate>>

\* As it would be if the engine's filter were trusted.
CandidateTrusted(point) == TRUE

\* _to_candidate: tenant, ACL and payload are checked again in process.
Candidate(point) == corpus[point.chunk].mine

\* _union: a chunk that several probes found keeps its best score.
Union ==
    LET found  == FlattenSeq([p \in 1..ProbeCount |-> probes[p].points])
        places == {i \in DOMAIN found : Candidate(found[i])}
        same(i) == {j \in places : found[j].chunk = found[i].chunk}
        firsts == {i \in places : \A j \in same(i) : i <= j}
        best   == [i \in firsts |-> Max({found[j].fusion : j \in same(i)})]
        order  == Sorted(firsts, Descending(firsts, best))
    IN [k \in DOMAIN order |-> [chunk |-> found[order[k]].chunk, fusion |-> best[order[k]],
                                rerank |-> -1, final |-> 0]]

\* All searches are back.  Every one failing is an outage, and the turn fails.
SearchDone ==
    /\ retrieving = "search" /\ \A p \in Embedded : probes[p].state # "embedded"
    /\ IF Embedded # {} /\ \A p \in Embedded : probes[p].state = "broken"
       THEN retrieving' = "error" /\ UNCHANGED pool
       ELSE retrieving' = "dedupe" /\ pool' = Union
    /\ UNCHANGED <<corpus, ranker, probes, ledger, gate>>

\* dedupe_chunks: a copy of, or a text too near to, a chunk already kept.
Near(a, b) == corpus[a].kin - corpus[b].kin \in -1..1
Copies(i, kept) == \E j \in kept :
    \/ corpus[pool[j].chunk].body = corpus[pool[i].chunk].body
    \/ Near(pool[j].chunk, pool[i].chunk)

\* The places of the chunks that stay.
Deduplicated ==
    LET after[i \in 0..Len(pool)] ==
            IF i = 0 THEN {}
            ELSE after[i - 1] \cup IF Copies(i, after[i - 1]) THEN {} ELSE {i}
    IN  after[Len(pool)]

Dedupe ==
    /\ retrieving = "dedupe"
    /\ pool' = Picked(pool, Deduplicated)
    /\ ledger' = ledger \o Dropped(Picked(pool, DOMAIN pool \ Deduplicated), "duplicate")
    /\ retrieving' = "rerank"
    /\ UNCHANGED <<corpus, ranker, probes, gate>>
-----------------------------------------------------------------------------
First(chunks, n) == SubSeq(chunks, 1, IF n < Len(chunks) THEN n ELSE Len(chunks))
After(chunks, n) == SubSeq(chunks, n + 1, Len(chunks))

\* As it would be, counted from the wrong end.
PositionFromZero(n) == [i \in 1..n |-> (ScoreTop * (n - i + 2)) \div n]

\* The no-op scores a pool by position: the first is 1 and the last is above 0.
Position(n) == [i \in 1..n |-> (ScoreTop * (n - i + 1)) \div n]

\* As it would be if the floor dropped without a word.
RerankCutSilently(scored) ==
    LET above == Picked(scored, {i \in DOMAIN scored : scored[i].rerank >= RerankFloor}) IN
    [kept |-> First(above, RerankTop), out |-> Dropped(After(above, RerankTop), "rerank_top_n")]

\* _rerank's bounds, on a pool that has its scores: the order, the floor, the cut.
RerankCut(scored) ==
    LET order  == Sorted(DOMAIN scored,
                      Descending(DOMAIN scored, [i \in DOMAIN scored |-> scored[i].rerank]))
        ranked == [k \in DOMAIN order |-> scored[order[k]]]
        high   == {k \in DOMAIN ranked : ranked[k].rerank >= RerankFloor}
        above  == Picked(ranked, high)
        below  == Picked(ranked, DOMAIN ranked \ high)
    IN [kept |-> First(above, RerankTop),
        out  |-> Dropped(below, "min_score") \o Dropped(After(above, RerankTop), "rerank_top_n")]

Rerank ==
    /\ retrieving = "rerank"
    /\ LET head == First(pool, RerankLimit)
           late == Dropped(After(pool, RerankLimit), "candidate_limit") IN
       \/ \* a reranker that raises leaves the fusion order, without either bound
          /\ ranker = "encoder" /\ head # <<>>
          /\ pool' = head /\ ledger' = ledger \o late
       \/ \E scores \in IF ranker = "noop" THEN {Position(Len(head))} ELSE [DOMAIN head -> RerankScores] :
            LET cut == RerankCut([i \in DOMAIN head |-> [head[i] EXCEPT !.rerank = scores[i]]]) IN
            pool' = cut.kept /\ ledger' = ledger \o late \o cut.out
    /\ retrieving' = "diversify"
    /\ UNCHANGED <<corpus, ranker, probes, gate>>

\* _relevance: the logistic of the cross-encoder's score when there is one, else the fusion score.
Final(c) == IF ranker = "encoder" /\ c.rerank >= 0 THEN Logistic[c.rerank] ELSE c.fusion

\* Of the numbers in T, the one of the largest value, the smallest of those.
Foremost(T, value) == CHOOSE i \in T : \A j \in T \ {i} : <<i, j>> \in Descending(T, value)

\* maximal_marginal_relevance, lambda 1/2: what is relevant and unlike what was chosen.
Signal(c) == IF c.rerank >= 0 THEN c.rerank ELSE c.fusion
Diversified(known) ==
    LET low == Min({Signal(pool[i]) : i \in DOMAIN pool})
        spread == Max({Signal(pool[i]) : i \in DOMAIN pool}) - low
        alike(i, j) == /\ {pool[i].chunk, pool[j].chunk} \subseteq known
                       /\ corpus[pool[i].chunk].topic = corpus[pool[j].chunk].topic
        worth(i, chosen) ==
            LET repeats == \E j \in chosen : alike(i, j) IN
            IF spread = 0 THEN IF repeats THEN 0 ELSE 1
            ELSE Signal(pool[i]) - low - IF repeats THEN spread ELSE 0
        after[k \in 0..Len(pool)] ==
            IF k = 0 THEN <<>>
            ELSE LET chosen == ToSet(after[k - 1])
                     left == DOMAIN pool \ chosen IN
                 Append(after[k - 1], Foremost(left, [i \in left |-> worth(i, chosen)]))
    IN  after[Len(pool)]

\* Taken in some order, at most PerDocument chunks of a document and TopN in all.
CutInOrder(order) ==
    LET listed == [k \in DOMAIN order |-> [pool[order[k]] EXCEPT !.final = Final(pool[order[k]])]]
        siblings(k, some) == {j \in some : corpus[listed[j].chunk].doc = corpus[listed[k].chunk].doc}
        room(k, some) == Cardinality(some) < TopN /\ Cardinality(siblings(k, some)) < PerDocument
        after[k \in 0..Len(order)] ==
            IF k = 0 THEN {} ELSE after[k - 1] \cup IF room(k, after[k - 1]) THEN {k} ELSE {}
        kept == after[Len(order)]
        tail == {k \in DOMAIN order \ kept : Cardinality(after[k - 1]) >= TopN}
    IN  [kept |-> Picked(listed, kept),
         out  |-> Dropped(Picked(listed, (DOMAIN order \ kept) \ tail), "max_per_document")
                  \o Dropped(Picked(listed, tail), "top_n")]

\* As it would be from the worst to the best.
CutFromWorst(order) == CutInOrder(Reverse(order))

\* _finalise: the diversified order.
Cut(order) == CutInOrder(order)

\* The vectors MMR needs may be missing, some or all: then nothing counts as alike.
Diversify ==
    /\ retrieving = "diversify"
    /\ \E known \in {{}, {pool[i].chunk : i \in DOMAIN pool}} :
         LET cut == Cut(IF Len(pool) > 1 THEN Diversified(known) ELSE [i \in DOMAIN pool |-> i]) IN
         pool' = cut.kept /\ ledger' = ledger \o cut.out
    /\ retrieving' = "gate"
    /\ UNCHANGED <<corpus, ranker, probes, gate>>
-----------------------------------------------------------------------------
\* relevance_signals: the gate reads rerank scores when there are any.
Evidence == {IF \E j \in DOMAIN pool : pool[j].rerank >= 0 THEN pool[i].rerank ELSE pool[i].final :
                i \in DOMAIN pool}
Weak ==
    \/ pool = <<>>
    \/ Max(Evidence) < OodFloor
    \/ FoldLeft(LAMBDA sum, c : sum + IF c.rerank >= 0 THEN c.rerank ELSE c.final, 0, pool)
         < OodMeanFloor * Len(pool)
    \/ Len(pool) >= 3 /\ Max(Evidence) - Min(Evidence) <= CollapseSpread /\ Max(Evidence) <= CollapseTop

\* run_ood_gate: the classifier, when it is on, settles what evidence and transformer dispute.
Disputed(flagged) == flagged # Weak /\ (Weak => pool # <<>>)
Refused(flagged, label) == IF Disputed(flagged) /\ label # "off" THEN label # "in_domain" ELSE Weak

OodGateRuns(flagged, label, tools, wanted) ==
    /\ retrieving \in {"gate", "again"}
    /\ gate' = [verdict |-> IF ~Refused(flagged, label) THEN "answer"
                            ELSE IF tools /\ (wanted \/ (Disputed(flagged) /\ label = "needs_tool"))
                            THEN "tool" ELSE "refuse",
                classified |-> label # "off"]
    /\ retrieving' = "done"
    /\ UNCHANGED <<corpus, ranker, probes, pool, ledger>>

\* The chunks of a search of this turn: a cached plan has no fusion scores.
Fresh == retrieving \in {"gate", "done"} /\ \A i \in DOMAIN pool : pool[i].fusion > 0

(* The question again: the cached plan's chunks, those still visible, come back with
   scores made from their ranks. *)
AskAgain ==
    /\ Fresh /\ retrieving = "done" /\ pool # <<>>
    /\ \E visible \in SUBSET DOMAIN pool :
         /\ visible # {}
         /\ pool' = LET order == Sorted(visible, Ascending(visible)) IN
                    [k \in DOMAIN order |->
                        [chunk |-> pool[order[k]].chunk, fusion |-> 0, rerank |-> -1,
                         final |-> Position(Len(pool))[order[k]]]]
    /\ retrieving' = "again" /\ gate' = NoGate
    /\ UNCHANGED <<corpus, ranker, probes, ledger>>

RetrievalNext ==
    \/ \E p \in 1..ProbeCount : EmbedProbe(p) \/ SearchProbe(p)
    \/ EmbedDone \/ SearchDone \/ Dedupe \/ Rerank \/ Diversify \/ AskAgain
    \/ \E flagged, tools, wanted \in BOOLEAN, label \in {"off", "in_domain", "needs_tool", "out_of_domain"} :
         OodGateRuns(flagged, label, tools, wanted)

RetrievalSpec == RetrievalInit /\ [][RetrievalNext]_retrievalVars
-----------------------------------------------------------------------------
FoundChunks == UNION {{probes[p].points[i].chunk : i \in DOMAIN probes[p].points} : p \in 1..ProbeCount}
Kept        == {pool[i].chunk : i \in DOMAIN pool}

(* What the search found is in the answer's context or in the ledger with one reason, and
   never twice: through the merge of the probes, the duplicates, a reranker that is down,
   both of its bounds, the document cap and the final cut. *)
DropsAreAudited ==
    Fresh => /\ {c \in FoundChunks : corpus[c].mine} = Kept \cup {ledger[i].chunk : i \in DOMAIN ledger}
             /\ Len(pool) + Len(ledger) = Cardinality({c \in FoundChunks : corpus[c].mine})

(* Nobody is told that the corpus does not cover a question which was never searched:
   a refusal means that at least one probe was embedded and answered. *)
OutageIsNoRefusal == gate.verdict = "refuse" => \E p \in 1..ProbeCount : probes[p].state = "found"

(* A chunk of someone else never gets past the merge, whatever the engine returned. *)
OnlyMineIsKept == \A c \in Kept \cup {ledger[i].chunk : i \in DOMAIN ledger} : corpus[c].mine

(* Diversity and the document cap reorder and drop, but never the chunk that ranked first:
   the best evidence the reranker left is in the context. *)
BestIsKept ==
    [][retrieving = "diversify" /\ pool # <<>> =>
         \E i \in DOMAIN pool' : Signal(pool'[i]) = Max({Signal(pool[j]) : j \in DOMAIN pool})]_retrievalVars

(* What the documentation of the gate says: evidence below the floor is refused unless the
   classifier or a tool takes over.  The scores of the no-op reranker, and those of a cached
   plan, are positions and always start at 1. *)
WeakIsRefused ==
    Fresh /\ gate.verdict = "answer" /\ ~gate.classified
    => \E i \in DOMAIN pool : pool[i].final >= OodFloor

\* The context and the ledger of the dropped say together what the search found.
RetrievalIsHonest == DropsAreAudited /\ OutageIsNoRefusal /\ OnlyMineIsKept
=============================================================================
