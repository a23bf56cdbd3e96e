---------------------------- MODULE LongTermMemory ----------------------------
(***************************************************************************)
(* The durable memories of one user: points in Qdrant (the copy that       *)
(* recall reads), rows in Postgres (the copy that the user lists), the     *)
(* consent switch, and the actors that change them: a chat turn (recall,   *)
(* touch, write-back; long_term.py), the consolidation of consolidate.py   *)
(* and the endpoints of routers/memory.py.                                 *)
(*                                                                         *)
(* Memories are numbered in the order they are extracted. What a text says *)
(* is left out: whether a candidate duplicates a memory is a choice.       *)
(***************************************************************************)
EXTENDS Integers, FiniteSets

CONSTANTS
    MaxMemories,    \* bound on the memories ever extracted
    MemoryCap,      \* memory_max_per_user
    TopK,           \* memory_top_k
    MaxCandidates,  \* bound on the memories extracted from one turn
    MaxSalience,    \* salience is 0..MaxSalience; 0 is below memory_min_salience
    MemoryFaults,   \* kinds of failure: "commit", "resolve", "search"
    MaxMemoryFaults,
    MaxMemoryEvents \* bound on deletes, consent changes, expiries and consolidations

ASSUME MemoryAssumption ==
    /\ {MaxMemories, MemoryCap, TopK, MaxCandidates, MaxSalience, MaxMemoryFaults,
        MaxMemoryEvents} \subseteq Nat
    /\ MemoryFaults \subseteq {"commit", "resolve", "search"}

VARIABLES
    points,    \* the rag_memories collection
    memoryRows,      \* the user_memories table
    consent,   \* user_profiles.memory_consent
    turn,      \* the chat turn in flight
    sweep,     \* the consolidation in flight
    forgetting,\* the memory a DELETE is removing, or 0
    forgotten, \* memories whose DELETE found and removed the point
    born,      \* memories extracted so far
    memoryFaults,
    memoryEvents,
    restored   \* how often a consolidation wrote a memory that could no longer be read

memoryVars == <<points, memoryRows, consent, turn, sweep, forgetting, forgotten, born,
                memoryFaults, memoryEvents, restored>>

Memories == 1..MaxMemories
Ids      == 0..MaxMemories
PointType == [held: BOOLEAN, salience: 0..MaxSalience, expired: BOOLEAN, supersedes: Ids]

\* What a transaction has flushed and not committed, row by row.
FlushType == [Memories -> {"same", "live", "deleted"}]
Clean     == [m \in Memories |-> "same"]

MemoryTypeOK ==
    /\ points \in [Memories -> PointType]
    /\ memoryRows \in [Memories -> {"none", "live", "deleted"}]
    /\ consent \in BOOLEAN
    /\ turn \in [phase: {"idle", "recalled", "answering", "answered", "writing", "replacing",
                         "pruning"},
                 consented: BOOLEAN, recalled: SUBSET Memories, seen: SUBSET Memories,
                 left: 0..MaxCandidates, new: Ids, victims: SUBSET Memories, flush: FlushType]
    /\ sweep \in [phase: {"idle", "expired", "merging", "decayed"},
                  copies: [Memories -> PointType], flush: FlushType]
    /\ forgetting \in Ids
    /\ forgotten \subseteq Memories
    /\ born \in Ids
    /\ memoryFaults \in 0..MaxMemoryFaults
    /\ memoryEvents \in 0..MaxMemoryEvents
    /\ restored \in Nat

NoPoint == [held |-> FALSE, salience |-> 0, expired |-> FALSE, supersedes |-> 0]
NoTurn  == [phase |-> "idle", consented |-> FALSE, recalled |-> {}, seen |-> {}, left |-> 0,
            new |-> 0, victims |-> {}, flush |-> Clean]
NoSweep == [phase |-> "idle", copies |-> [m \in Memories |-> NoPoint], flush |-> Clean]

MemoryInit ==
    /\ points = [m \in Memories |-> NoPoint]
    /\ memoryRows = [m \in Memories |-> "none"]
    /\ consent = TRUE
    /\ turn = NoTurn
    /\ sweep = NoSweep
    /\ forgetting = 0
    /\ forgotten = {}
    /\ born = 0
    /\ memoryFaults = 0
    /\ memoryEvents = 0
    /\ restored = 0

MemoryFault(kind) ==
    /\ kind \in MemoryFaults
    /\ memoryFaults < MaxMemoryFaults
    /\ memoryFaults' = memoryFaults + 1

MemoryEvent ==
    /\ memoryEvents < MaxMemoryEvents
    /\ memoryEvents' = memoryEvents + 1

-----------------------------------------------------------------------------
Held == {m \in Memories : points[m].held}

\* build_memory_filter: what a read sees, unless it asks for expired memories too.
Readable == {m \in Held : ~points[m].expired}

\* dense_search and the salience floor.
Recallable == {m \in Readable : points[m].salience > 0}

\* Row locks: a flush waits for the transaction that flushed the same row.
Free(others, set) == \A f \in others : \A m \in set : f[m] = "same"

\* upsert_memory and delete_memory, flushed.
FlushLive(flush, set) == [m \in Memories |-> IF m \in set THEN "live" ELSE flush[m]]
FlushDeleted(flush, set) ==
    [m \in Memories |->
       IF m \in set /\ (memoryRows[m] # "none" \/ flush[m] = "live") THEN "deleted" ELSE flush[m]]

Committed(flush) == [m \in Memories |-> IF flush[m] = "same" THEN memoryRows[m] ELSE flush[m]]

\* _delete_points: look the points up, then delete those that are there.
Without(set) == [m \in Memories |-> IF m \in set THEN [points[m] EXCEPT !.held = FALSE]
                                                 ELSE points[m]]

\* When the look-up fails nothing is deleted and nothing is reported.
DeletePoints(set) ==
    \/ points' = Without(set) /\ UNCHANGED memoryFaults
    \/ set # {} /\ MemoryFault("resolve") /\ UNCHANGED points

\* Mutant: the boost is not clamped.
BoostedPastOne(set) ==
    [m \in Memories |-> IF m \in set THEN [points[m] EXCEPT !.salience = @ + 1] ELSE points[m]]

\* Mutant: a touch writes the whole point again.
BoostedByUpsert(set) ==
    [m \in Memories |-> IF m \in set THEN [points[m] EXCEPT !.held = TRUE] ELSE points[m]]

\* LongTermMemory.touch: the boost is clamped, and a point that has gone is not written.
Boosted(set) ==
    [m \in Memories |->
       IF m \in set /\ points[m].held /\ points[m].salience < MaxSalience
       THEN [points[m] EXCEPT !.salience = @ + 1] ELSE points[m]]

\* Mutant: prune scans no further than the cap, so it never sees that it is passed.
PrunableShort(readable) == {{}}

\* Mutant: prune compares with >=.
PrunableAtCap(readable) ==
    IF Cardinality(readable) < MemoryCap THEN {{}} ELSE {{v} : v \in readable}

\* prune: a page of at most MemoryCap + 1 memories, the weakest of which are dropped
\* until MemoryCap are left; that is at most one.
Prunable(readable) ==
    LET pages == {p \in SUBSET readable : Cardinality(p) = MemoryCap + 1}
        Weakest(p) == {v \in p : \A m \in p : points[v].salience <= points[m].salience}
    IN  IF Cardinality(readable) <= MemoryCap THEN {{}}
        ELSE UNION {{{v} : v \in Weakest(p)} : p \in pages}

-----------------------------------------------------------------------------
(* A chat turn. *)

\* recall: the profile is read once; without consent nothing is searched.
Recall ==
    /\ turn.phase = "idle"
    /\ \E set \in SUBSET Recallable :
         /\ Cardinality(set) <= TopK
         /\ \/ UNCHANGED memoryFaults
            \/ set = {} /\ Recallable # {} /\ MemoryFault("search")
         /\ ~consent => set = {}
         /\ turn' = [NoTurn EXCEPT !.phase = "recalled", !.consented = consent, !.recalled = set]
    /\ UNCHANGED <<points, memoryRows, consent, sweep, forgetting, forgotten, born,
                   memoryEvents, restored>>

\* touch: boost the points, flush the rows; a point that has gone is not an error.
Touch ==
    /\ turn.phase = "recalled"
    /\ Free({sweep.flush}, turn.recalled)
    /\ points' = Boosted(turn.recalled)
    /\ turn' = [turn EXCEPT !.phase = "answering", !.flush = FlushLive(@, turn.recalled)]
    /\ UNCHANGED <<memoryRows, consent, sweep, forgetting, forgotten, born, memoryFaults,
                   memoryEvents, restored>>

\* The answer's commit takes the flushed rows with it.
CommitAnswer ==
    /\ turn.phase = "answering"
    /\ \/ memoryRows' = Committed(turn.flush) /\ UNCHANGED memoryFaults
       \/ MemoryFault("commit") /\ UNCHANGED memoryRows
    /\ turn' = [turn EXCEPT !.phase = "answered", !.flush = Clean]
    /\ UNCHANGED <<points, consent, sweep, forgetting, forgotten, born,
                   memoryEvents, restored>>

\* write_back: the consent of the profile read at the start still counts.
Extract ==
    /\ turn.phase = "answered"
    /\ turn' \in IF turn.consented
                 THEN {[turn EXCEPT !.phase = "writing", !.seen = Readable, !.left = n] :
                         n \in 1..MaxCandidates} \cup {NoTurn}
                 ELSE {NoTurn}
    /\ UNCHANGED <<points, memoryRows, consent, sweep, forgetting, forgotten, born,
                   memoryFaults, memoryEvents, restored>>

\* _build_memory and the upsert of remember: a near-duplicate is superseded, an exact
\* duplicate is skipped.
Remember ==
    /\ turn.phase = "writing"
    /\ turn.left > 0
    /\ \/ /\ born < MaxMemories
          /\ \E old \in turn.seen \cup {0}, s \in 1..MaxSalience :
               points' = [points EXCEPT ![born + 1] =
                 [held |-> TRUE, salience |-> s, expired |-> FALSE, supersedes |-> old]]
          /\ born' = born + 1
          /\ turn' = [turn EXCEPT !.phase = "replacing", !.new = born + 1, !.left = @ - 1]
       \/ /\ turn.seen # {}
          /\ turn' = [turn EXCEPT !.left = @ - 1]
          /\ UNCHANGED <<points, born>>
    /\ UNCHANGED <<memoryRows, consent, sweep, forgetting, forgotten, memoryFaults,
                   memoryEvents, restored>>

\* The rest of remember: delete what was superseded, flush both rows.
Replace ==
    /\ turn.phase = "replacing"
    /\ LET old == {points[turn.new].supersedes} \ {0}
       IN  /\ DeletePoints(old)
           /\ Free({sweep.flush}, old)
           /\ turn' = [turn EXCEPT !.phase = "writing", !.new = 0,
                         !.flush = FlushDeleted(FlushLive(@, {turn.new}), old)]
    /\ UNCHANGED <<memoryRows, consent, sweep, forgetting, forgotten, born,
                   memoryEvents, restored>>

PruneScan ==
    /\ turn.phase = "writing"
    /\ turn.left = 0
    /\ \E victims \in Prunable(Readable) :
         turn' = [turn EXCEPT !.phase = "pruning", !.victims = victims]
    /\ UNCHANGED <<points, memoryRows, consent, sweep, forgetting, forgotten, born,
                   memoryFaults, memoryEvents, restored>>

\* The end of the turn: session_scope closes the session, and what write_back flushed
\* was never committed.
PruneDelete ==
    /\ turn.phase = "pruning"
    /\ DeletePoints(turn.victims)
    /\ turn' = NoTurn
    /\ UNCHANGED <<memoryRows, consent, sweep, forgetting, forgotten, born,
                   memoryEvents, restored>>

-----------------------------------------------------------------------------
(* consolidate_user; its caller commits. *)

SweepExpire ==
    /\ MemoryEvent
    /\ sweep.phase = "idle"
    /\ consent
    /\ LET stale == {m \in Held : points[m].expired}
       IN  /\ DeletePoints(stale)
           /\ Free({turn.flush}, stale)
           /\ sweep' = [sweep EXCEPT !.phase = "expired", !.flush = FlushDeleted(@, stale)]
    /\ UNCHANGED <<memoryRows, consent, turn, forgetting, forgotten, born, restored>>

SweepScan ==
    /\ sweep.phase = "expired"
    /\ sweep' = [sweep EXCEPT !.phase = "merging",
                   !.copies = [m \in Memories |-> IF m \in Readable THEN points[m] ELSE NoPoint]]
    /\ UNCHANGED <<points, memoryRows, consent, turn, forgetting, forgotten, born,
                   memoryFaults, memoryEvents, restored>>

\* _merge: the stronger of two near-duplicates is written again, as the scan saw it,
\* and the other one deleted.
SweepMerge ==
    /\ sweep.phase = "merging"
    /\ \E keep, drop \in Memories :
         /\ keep # drop
         /\ sweep.copies[keep].held /\ sweep.copies[drop].held
         /\ sweep.copies[keep].salience >= sweep.copies[drop].salience
         /\ Free({turn.flush}, {keep, drop})
         /\ LET kept == [sweep.copies[keep] EXCEPT !.supersedes = drop]
            IN  /\ points' = [Without({drop}) EXCEPT ![keep] = kept]
                /\ sweep' = [sweep EXCEPT !.copies[keep] = kept, !.copies[drop] = NoPoint,
                               !.flush = FlushDeleted(FlushLive(@, {keep}), {drop})]
                /\ restored' = IF keep \in Readable THEN restored ELSE restored + 1
    /\ UNCHANGED <<memoryRows, consent, turn, forgetting, forgotten, born,
                   memoryFaults, memoryEvents>>

\* _decay: set_salience on the survivors that have aged.
SweepDecay ==
    /\ sweep.phase = "merging"
    /\ \E aged \in SUBSET {m \in Memories : sweep.copies[m].held /\ sweep.copies[m].salience > 0} :
         /\ Free({turn.flush}, aged)
         /\ points' = [m \in Memories |->
                         IF m \in aged /\ points[m].held
                         THEN [points[m] EXCEPT !.salience = sweep.copies[m].salience - 1]
                         ELSE points[m]]
         /\ sweep' = [sweep EXCEPT !.phase = "decayed", !.flush = FlushLive(@, aged)]
    /\ UNCHANGED <<memoryRows, consent, turn, forgetting, forgotten, born,
                   memoryFaults, memoryEvents, restored>>

SweepPrune ==
    /\ sweep.phase = "decayed"
    /\ \E victims \in Prunable(Readable) :
         /\ DeletePoints(victims)
         /\ Free({turn.flush}, victims)
         /\ memoryRows' = Committed(FlushDeleted(sweep.flush, victims))
    /\ sweep' = NoSweep
    /\ UNCHANGED <<consent, turn, forgetting, forgotten, born, memoryEvents, restored>>

-----------------------------------------------------------------------------
(* The memory endpoints and time. *)

\* delete_memory: first the point ...
ForgetPoint ==
    /\ MemoryEvent
    /\ forgetting = 0
    /\ \E m \in 1..born :
         /\ DeletePoints({m})
         /\ forgetting' = m
         /\ forgotten' = IF points[m].held /\ ~points'[m].held
                         THEN forgotten \cup {m} ELSE forgotten
    /\ UNCHANGED <<memoryRows, consent, turn, sweep, born, restored>>

\* ... then the row, which is committed; when neither was there it answers 404.
ForgetRow ==
    /\ forgetting # 0
    /\ Free({turn.flush, sweep.flush}, {forgetting})
    /\ memoryRows' = Committed(FlushDeleted(Clean, {forgetting}))
    /\ forgetting' = 0
    /\ UNCHANGED <<points, consent, turn, sweep, forgotten, born, memoryFaults,
                   memoryEvents, restored>>

\* set_memory_consent: withdrawing it soft-deletes the rows, and only the rows.
SetConsent ==
    /\ MemoryEvent
    /\ consent' = ~consent
    /\ consent => Free({turn.flush, sweep.flush}, Memories)
    /\ memoryRows' = IF consent THEN Committed(FlushDeleted(Clean, Memories)) ELSE memoryRows
    /\ UNCHANGED <<points, turn, sweep, forgetting, forgotten, born, memoryFaults, restored>>

\* expires_at passes.
ExpireMemory ==
    /\ MemoryEvent
    /\ \E m \in Readable : points' = [points EXCEPT ![m].expired = TRUE]
    /\ UNCHANGED <<memoryRows, consent, turn, sweep, forgetting, forgotten, born,
                   memoryFaults, restored>>

MemoryNext ==
    \/ Recall \/ Touch \/ CommitAnswer \/ Extract \/ Remember \/ Replace
    \/ PruneScan \/ PruneDelete
    \/ SweepExpire \/ SweepScan \/ SweepMerge \/ SweepDecay \/ SweepPrune
    \/ ForgetPoint \/ ForgetRow \/ SetConsent \/ ExpireMemory

MemorySpec == MemoryInit /\ [][MemoryNext]_memoryVars
-----------------------------------------------------------------------------
(* Properties. *)

\* A memory leaves the collection only because it expired, the user forgot it, a memory
\* that took its place was written first (remember), or the user has had more than
\* MemoryCap of them.
LostForAReason ==
    [][\A m \in Held \ Held' :
         \/ points[m].expired
         \/ forgetting' = m
         \/ \E k \in Memories : points'[k].supersedes = m
         \/ born > MemoryCap]_memoryVars

\* A memory whose point a DELETE removed comes back only out of the old copies of a
\* consolidation that read it before.
ForgottenStaysForgotten ==
    [][\A m \in forgotten : m \in Held' \ Held => sweep.copies[m].held]_memoryVars

\* The collection holds no more than MemoryCap memories between turns, one extra for each
\* prune whose look-up failed and one for each memory that a consolidation wrote after it
\* was gone, when a turn extracts one memory (prune drops one a turn).
GrowthIsBounded ==
    turn.phase = "idle" => Cardinality(Readable) <= MemoryCap + memoryFaults + restored

\* What is lost is lost for a reason, what is forgotten stays so, and growth has a bound.
MemoriesAreKept == []GrowthIsBounded /\ LostForAReason /\ ForgottenStaysForgotten
=============================================================================
