--------------------------- MODULE ContextPacking ---------------------------
(***************************************************************************)
(* How context.py fits a prompt into its budget: it ranks the retrieved    *)
(* chunks, packs summary, memories, sources and history by estimated       *)
(* tokens, then measures the rendered prompt and sheds until it fits or    *)
(* has been shed as often as the settings allow.                           *)
(*                                                                         *)
(* A source, a memory, a turn and a summary are two sizes and what the     *)
(* packing looks at: `tokens' is what the item was counted as, the only    *)
(* size packing and shedding know, and `exact' is what it adds to the      *)
(* measured prompt, where items are rendered and framed together.  The two *)
(* may differ either way, item by item.  The scores are whole numbers and  *)
(* the duplicate penalty is 1/2.                                           *)
(***************************************************************************)
EXTENDS Integers, Sequences, SequencesExt, FiniteSetsExt, Listing

CONSTANTS
    ChunkKinds,      \* what a retrieved chunk may be: [tokens, exact, score]
    MaxChunks, Memories, Histories, Summaries,
    Overheads,       \* what a measured prompt has beyond its items: tools and framing
    PromptBudget, RetrievedBudget, MemoryBudget, SummaryBudget,
    FixedTokens,     \* system, question, preferences and notes
    MinChunks, MinTurns, FitPasses

\* What is rendered has tokens: a source and a memory have their markup, and a turn is not blank.
ASSUME PackAssumption ==
    /\ ChunkKinds \subseteq [tokens : Nat \ {0}, exact : Nat, score : Nat]
    /\ Memories \subseteq Seq([tokens : Nat \ {0}, exact : Nat])
    /\ Histories \subseteq Seq([tokens : Nat \ {0}, exact : Nat, pinned : BOOLEAN])
    /\ Summaries \subseteq [tokens : Nat, exact : Nat] /\ Overheads \subseteq Int
    /\ {MaxChunks, PromptBudget, RetrievedBudget, MemoryBudget, SummaryBudget} \subseteq Nat
    /\ {FixedTokens, MinChunks, MinTurns, FitPasses} \subseteq Nat

VARIABLES packInput, packing, packPhase, packPasses

packVars == <<packInput, packing, packPhase, packPasses>>

Chunk  == [tokens : {k.tokens : k \in ChunkKinds}, exact : {k.exact : k \in ChunkKinds},
           score : {k.score : k \in ChunkKinds}, copy : {"none", "exact", "near"}, rank : 1..MaxChunks]
Reasons == {"duplicate_exact", "duplicate_near", "retrieved_cap", "budget"}

PackTypeOK ==
    /\ packPhase \in {"ranked", "packed", "fitting", "shedding", "done"}
    /\ packing.sources \in Seq(Chunk)
    /\ packing.dropped \in Seq([chunk : Chunk, reason : Reasons])
    /\ packing.memories \subseteq DOMAIN packInput.memories
    /\ packing.history \subseteq DOMAIN packInput.history
    /\ packing.summary \in [tokens : Nat, exact : Nat]
    /\ packing.excess \in Nat /\ packPasses \in 0..FitPasses + 1

Total(tokens) ==
    LET upto[n \in 0..Len(tokens)] == IF n = 0 THEN 0 ELSE upto[n - 1] + tokens[n]
    IN  upto[Len(tokens)]

NoSummary == [tokens |-> 0, exact |-> 0]

PackInit ==
    /\ \E n \in 0..MaxChunks :
       \E kinds \in [1..n -> ChunkKinds], copies \in [1..n -> {"none", "exact", "near"}],
          memories \in Memories, history \in Histories, summary \in Summaries, extra \in Overheads :
         /\ n > 0 => copies[1] = "none"
         /\ packInput = [chunks |-> [i \in 1..n |-> [tokens |-> kinds[i].tokens,
                             exact |-> kinds[i].exact, score |-> kinds[i].score, copy |-> copies[i], rank |-> i]],
                         memories |-> memories, history |-> history,
                         summary |-> summary, extra |-> extra]
    /\ packing = [sources |-> <<>>, dropped |-> <<>>, memories |-> {}, history |-> {},
                  summary |-> NoSummary, excess |-> 0]
    /\ packPhase = "ranked" /\ packPasses = 0
-----------------------------------------------------------------------------
Drop(chunk, reason) == [chunk |-> chunk, reason |-> reason]

\* rank_sources: an exact copy of an earlier chunk is dropped.
Exact   == {i \in DOMAIN packInput.chunks : packInput.chunks[i].copy = "exact"}
Ranked  == Picked(packInput.chunks, DOMAIN packInput.chunks \ Exact)
Copies  == Picked(packInput.chunks, Exact)

\* PackedSource.value, doubled to stay whole: a near duplicate has half its score.
Value(c) == IF c.copy = "near" THEN c.score ELSE 2 * c.score

\* (density, value), the larger first and ties in retrieval order.
Denser(c, d) ==
    \/ Value(c) * d.tokens > Value(d) * c.tokens
    \/ /\ Value(c) * d.tokens = Value(d) * c.tokens
       /\ Value(c) > Value(d) \/ (Value(c) = Value(d) /\ c.rank < d.rank)

Pinned(i)  == packInput.history[i].pinned
Turns(ids) == Total([i \in DOMAIN packInput.history |->
                        IF i \in ids THEN packInput.history[i].tokens ELSE 0])
PinnedTurns == {i \in DOMAIN packInput.history : Pinned(i)}

Room(used) == IF used > PromptBudget THEN 0 ELSE PromptBudget - used

\* The memories that fit their share: a long one is skipped, no room stops the rest.
TakeMemory(acc, i, used) ==
    LET t == packInput.memories[i].tokens IN
    IF acc.full \/ acc.spent + t > MemoryBudget THEN acc
    ELSE IF t > Room(used + acc.spent) THEN [acc EXCEPT !.full = TRUE]
    ELSE [acc EXCEPT !.kept = @ \cup {i}, !.spent = @ + t]

PackMemories(used) ==
    LET n == Len(packInput.memories)
        after[i \in 0..n] == IF i = 0 THEN [kept |-> {}, spent |-> 0, full |-> FALSE]
                             ELSE TakeMemory(after[i - 1], i, used)
    IN  after[n]

\* The sources by density, up to their share of the budget; the first MinChunks may exceed it.
TakeSource(acc, c, used) ==
    IF acc.spent + c.tokens > RetrievedBudget /\ Len(acc.kept) >= MinChunks
    THEN [acc EXCEPT !.dropped = Append(@, Drop(c, "retrieved_cap"))]
    ELSE IF c.tokens > Room(used + acc.spent)
    THEN [acc EXCEPT !.dropped = Append(@, Drop(c, "budget"))]
    ELSE [acc EXCEPT !.kept = Append(@, c), !.spent = @ + c.tokens]

ByDensity == Sorted(ToSet(Ranked), {p \in Chunk \X Chunk : Denser(p[1], p[2])})

PackSources(used) ==
    LET n == Len(ByDensity)
        after[i \in 0..n] == IF i = 0 THEN [kept |-> <<>>, dropped |-> <<>>, spent |-> 0]
                             ELSE TakeSource(after[i - 1], ByDensity[i], used)
    IN  after[n]

\* _select_history: pinned and latest turns always, older ones from the newest while they fit.
TakeTurn(acc, i, used) ==
    LET t == packInput.history[i].tokens IN
    IF i \in acc.kept \/ acc.spent + t > Room(used) THEN acc
    ELSE [acc EXCEPT !.kept = @ \cup {i}, !.spent = @ + t]

TurnsFrom(always, used) ==
    LET n == Len(packInput.history)
        after[k \in 0..n] == IF k = 0 THEN [kept |-> always, spent |-> Turns(always \ PinnedTurns)]
                             ELSE TakeTurn(after[k - 1], n + 1 - k, used)
    IN  after[n].kept

\* As it would be if a pinned turn had to fit like the others.
PackHistoryThatFits(used) == TurnsFrom({}, used)

PackHistory(used) ==
    LET n == Len(packInput.history) IN TurnsFrom(PinnedTurns \cup {i \in 1..n : i > n - MinTurns}, used)

\* As it would be if the sources stayed in the order they were packed in.
InPackedOrder(sources) == sources

\* _renumber: the markers follow the retrieval order of what is kept.
InOrder(sources) == Sorted(ToSet(sources), {p \in Chunk \X Chunk : p[1].rank < p[2].rank})

Pack ==
    /\ packPhase = "ranked"
    /\ LET fixed    == FixedTokens + Turns(PinnedTurns)
           summary  == IF packInput.summary.tokens <= Min({SummaryBudget, Room(fixed)})
                       THEN packInput.summary ELSE NoSummary
           memories == PackMemories(fixed + summary.tokens)
           sources  == PackSources(fixed + summary.tokens + memories.spent)
           history  == PackHistory(fixed + summary.tokens + memories.spent + sources.spent)
       IN packing' = [packing EXCEPT
             !.sources = InOrder(sources.kept),
             !.dropped = [i \in DOMAIN Copies |-> Drop(Copies[i], "duplicate_exact")] \o sources.dropped,
             !.memories = memories.kept, !.history = history, !.summary = summary]
    /\ packPhase' = "packed"
    /\ UNCHANGED <<packInput, packPasses>>

\* _suppress_overflow: the turns that did not fit are folded into the summary, which is
\* then in the prompt whatever its length.
SuppressOverflow ==
    /\ packPhase = "packed"
    /\ LET overflow == DOMAIN packInput.history \ packing.history IN
       \E summary \in {s \in Summaries : s.tokens > 0} :
         packing' = IF overflow = {} THEN packing ELSE [packing EXCEPT !.summary = summary]
    /\ packPhase' = "fitting"
    /\ UNCHANGED <<packInput, packPasses>>
-----------------------------------------------------------------------------
Exactly(items, ids) == Total([i \in DOMAIN items |-> IF i \in ids THEN items[i].exact ELSE 0])

\* count_prompt of the rendered prompt: what is in it, each as long as it really is.
Measured == FixedTokens + packInput.extra + packing.summary.exact
            + Exactly(packing.sources, DOMAIN packing.sources)
            + Exactly(packInput.memories, packing.memories)
            + Exactly(packInput.history, packing.history)

Droppable == {i \in packing.history : ~Pinned(i)}

\* What shedding may take: everything but the pinned turns and the question.
Sheddable == packing.sources # <<>> \/ packing.memories # {} \/ Droppable # {}
             \/ packing.summary.tokens > 0

(* _fit: measure the rendered prompt; while it is too long, shed what was counted as that
   much and measure again.  After FitPasses + 1 sheddings it is sent however long it is. *)
Measure ==
    /\ packPhase = "fitting"
    /\ IF Measured <= PromptBudget \/ packPasses > FitPasses \/ ~Sheddable
       THEN packPhase' = "done" /\ UNCHANGED <<packing, packPasses>>
       ELSE /\ packPhase' = "shedding" /\ packPasses' = packPasses + 1
            /\ packing' = [packing EXCEPT !.excess = Measured - PromptBudget]
    /\ UNCHANGED packInput

Freed(tokens) == IF tokens = 0 THEN 1 ELSE tokens
\* As it would be if the excess were allowed below zero, or anything shed were enough.
LeftBelowZero(tokens) == packing.excess - Freed(tokens)
LeftNothing(tokens)   == 0

LeftAfter(tokens) == IF Freed(tokens) >= packing.excess THEN 0 ELSE packing.excess - Freed(tokens)

\* _shed_weakest_source
Weaker(c, d) == \/ Value(c) * d.tokens < Value(d) * c.tokens
                \/ /\ Value(c) * d.tokens = Value(d) * c.tokens
                   /\ Value(c) < Value(d) \/ (Value(c) = Value(d) /\ c.rank < d.rank)
Weakest == CHOOSE i \in DOMAIN packing.sources :
              \A j \in DOMAIN packing.sources \ {i} : Weaker(packing.sources[i], packing.sources[j])
\* As it would be if a source were shed without a record.
ShedSilently ==
    [packing EXCEPT !.sources = RemoveAt(@, Weakest), !.excess = LeftAfter(packing.sources[Weakest].tokens)]

ShedSource ==
    LET c == packing.sources[Weakest] IN
    [packing EXCEPT !.sources = RemoveAt(@, Weakest), !.excess = LeftAfter(c.tokens),
                    !.dropped = Append(@, Drop(c, IF c.copy = "near" THEN "duplicate_near" ELSE "budget"))]

\* _shed: the least valuable thing left.
Shedding ==
    IF Len(packing.sources) > MinChunks THEN ShedSource
    ELSE IF packing.memories # {}
    THEN LET i == Max(packing.memories) IN
         [packing EXCEPT !.memories = @ \ {i}, !.excess = LeftAfter(packInput.memories[i].tokens)]
    ELSE IF packing.sources # <<>> THEN ShedSource
    ELSE IF Droppable # {}
    THEN LET i == Min(Droppable) IN
         [packing EXCEPT !.history = @ \ {i}, !.excess = LeftAfter(packInput.history[i].tokens)]
    ELSE [packing EXCEPT !.summary = NoSummary, !.excess = LeftAfter(packing.summary.tokens)]

Shed ==
    /\ packPhase = "shedding" /\ packing.excess > 0 /\ Sheddable
    /\ packing' = Shedding
    /\ UNCHANGED <<packInput, packPhase, packPasses>>

\* Enough was freed, or nothing is left to free.
Remeasure ==
    /\ packPhase = "shedding"
    /\ packing.excess = 0 \/ ~Sheddable
    /\ packPhase' = "fitting"
    /\ packing' = [packing EXCEPT !.excess = 0]
    /\ UNCHANGED <<packInput, packPasses>>

PackNext == Pack \/ SuppressOverflow \/ Measure \/ Shed \/ Remeasure
PackSpec == PackInit /\ [][PackNext]_packVars
-----------------------------------------------------------------------------
Packed == packPhase = "done"

(* Every retrieved chunk is accounted for once: cited in the prompt or dropped with a
   reason, through every pass of packing and shedding. *)
NoChunkVanishes ==
    packPhase # "ranked" =>
      /\ Len(packing.sources) + Len(packing.dropped) = Len(packInput.chunks)
      /\ {packing.sources[i] : i \in DOMAIN packing.sources}
         \cup {packing.dropped[i].chunk : i \in DOMAIN packing.dropped}
         = {packInput.chunks[i] : i \in DOMAIN packInput.chunks}

\* Something that is not in the prompt was counted as more than it added to it.
Overcounted ==
    \/ \E i \in DOMAIN packing.dropped : packing.dropped[i].chunk.exact < packing.dropped[i].chunk.tokens
    \/ \E i \in DOMAIN packInput.memories \ packing.memories :
          packInput.memories[i].exact < packInput.memories[i].tokens
    \/ \E i \in DOMAIN packInput.history \ packing.history :
          packInput.history[i].exact < packInput.history[i].tokens

(* The prompt fits its budget when the assembler stops, unless all it may drop is gone, or
   every pass was used and what was shed had been counted as more than it was: however the
   counts are off, _fit never gives up early, and one pass is enough when none is too high.
   (settings.py says the prompt is then stripped of all it may drop: context.py sends it.) *)
FitsUnlessPinned ==
    Packed => \/ Measured <= PromptBudget \/ ~Sheddable
              \/ packPasses = FitPasses + 1 /\ Overcounted

(* A marker means the same chunk to the prompt and to the citations: kept sources stay in
   retrieval order whatever is shed between them. *)
MarkersFollowRank ==
    \A i, j \in DOMAIN packing.sources : i < j => packing.sources[i].rank < packing.sources[j].rank

\* What the user pinned is in the prompt however long it is, whatever is shed.
PinnedStays == packPhase # "ranked" => PinnedTurns \subseteq packing.history

\* The prompt accounts for every chunk, numbers them by rank and keeps what is pinned.
PackingIsHonest == FitsUnlessPinned /\ NoChunkVanishes /\ MarkersFollowRank /\ PinnedStays
=============================================================================
