----------------------------- MODULE SemanticCache -----------------------------
(***************************************************************************)
(* The retrieval plans that chat turns share (semantic_cache.py): one      *)
(* fingerprint partition of the rag_semantic_cache collection, the turns   *)
(* that probe it, resolve a hit under the live access filter and touch it, *)
(* or retrieve, store and evict. The index changes underneath.             *)
(***************************************************************************)
EXTENDS Integers, FiniteSets

CONSTANTS
    Turns,        \* turns in flight at a time
    Queries,      \* normalised queries, all far apart; a cache_id each
    Chunks,       \* chunks of the index
    CacheCap,     \* memory_cache_max_entries
    MaxHits,      \* bound on the hit count that is told apart
    MaxIndexChanges, \* bound on the changes of what the caller may read
    MaxEvictFaults   \* bound on the evictions that fail

ASSUME CacheAssumption ==
    /\ CacheCap \in Nat \ {0} /\ {MaxHits, MaxIndexChanges, MaxEvictFaults} \subseteq Nat
    /\ Queries # {} /\ IsFiniteSet(Turns)

VARIABLES
    entries,      \* the points of the partition
    readable,     \* chunks that are in the index and that the caller may read
    lookup,       \* what each turn is doing
    indexChanges,
    evictFaults   \* evictions that failed so far

cacheVars == <<entries, readable, lookup, indexChanges, evictFaults>>

CachedType  == [held: BOOLEAN, ids: SUBSET Chunks, hits: 0..MaxHits, expired: BOOLEAN]
LookupType == [phase: {"idle", "found", "hit", "missed", "stored", "evicting"},
               query: Queries, entry: CachedType, chunks: SUBSET Chunks, victims: SUBSET Queries]

CacheTypeOK ==
    /\ entries \in [Queries -> CachedType]
    /\ readable \subseteq Chunks
    /\ lookup \in [Turns -> LookupType]
    /\ indexChanges \in 0..MaxIndexChanges /\ evictFaults \in 0..MaxEvictFaults

NoCacheEntry == [held |-> FALSE, ids |-> {}, hits |-> 0, expired |-> FALSE]
NoLookup(q)  == [phase |-> "idle", query |-> q, entry |-> NoCacheEntry, chunks |-> {},
                 victims |-> {}]

CacheInit ==
    /\ entries = [q \in Queries |-> NoCacheEntry]
    /\ readable = Chunks
    /\ lookup = [t \in Turns |-> NoLookup(CHOOSE q \in Queries : TRUE)]
    /\ indexChanges = 0 /\ evictFaults = 0

Hit(entry) == entry.held /\ ~entry.expired

\* probe: the nearest entry over the threshold; an expired one is a miss.
Probe(t) ==
    /\ lookup[t].phase = "idle"
    /\ \E q \in Queries :
         lookup' = [lookup EXCEPT ![t] =
           [NoLookup(q) EXCEPT !.phase = IF Hit(entries[q]) THEN "found" ELSE "missed",
                               !.entry = entries[q]]]
    /\ UNCHANGED <<entries, readable, indexChanges, evictFaults>>

\* Mutant: the stored plan is trusted.
ResolvedAsStored(ids) == ids

\* retrieve_by_ids: what the live filter still shows of the stored plan.
Resolved(ids) == ids \cap readable

\* The cached chunks are resolved again; when none is left the turn retrieves.
Resolve(t) ==
    /\ lookup[t].phase = "found"
    /\ LET chunks == Resolved(lookup[t].entry.ids)
       IN  lookup' = [lookup EXCEPT ![t].phase = IF chunks = {} THEN "missed" ELSE "hit",
                                    ![t].chunks = chunks]
    /\ UNCHANGED <<entries, readable, indexChanges, evictFaults>>

\* Mutant: hits are counted past the bound.
HitsUnbounded(hits) == hits + 1

\* The hit count after a touch, told apart up to MaxHits.
HitsAfter(hits) == IF hits < MaxHits THEN hits + 1 ELSE hits

\* _touch: the count the probe read, plus one; an evicted entry stays evicted.
TouchEntry(t) ==
    /\ lookup[t].phase = "hit"
    /\ LET q == lookup[t].query
       IN  entries' = [entries EXCEPT ![q].hits =
                         IF entries[q].held THEN HitsAfter(lookup[t].entry.hits) ELSE @]
    /\ lookup' = [lookup EXCEPT ![t] = NoLookup(lookup[t].query)]
    /\ UNCHANGED <<readable, indexChanges, evictFaults>>

\* retrieve and store: a plan without chunks is not stored.
Store(t) ==
    /\ lookup[t].phase = "missed"
    /\ \E ids \in SUBSET readable :
         \/ /\ ids # {}
            /\ entries' = [entries EXCEPT ![lookup[t].query] =
                             [held |-> TRUE, ids |-> ids, hits |-> 0, expired |-> FALSE]]
            /\ lookup' = [lookup EXCEPT ![t].phase = "stored"]
         \/ /\ ids = {}
            /\ lookup' = [lookup EXCEPT ![t] = NoLookup(lookup[t].query)]
            /\ UNCHANGED entries
    /\ UNCHANGED <<readable, indexChanges, evictFaults>>

LiveEntry(q) == entries[q].held /\ ~entries[q].expired

\* The coldest entries of a page, as many as it is over the cap.
Coldest(page) ==
    {v \in SUBSET page :
       /\ Cardinality(v) = (IF Cardinality(page) > CacheCap THEN Cardinality(page) - CacheCap ELSE 0)
       /\ \A q \in v, k \in page \ v : entries[q].hits <= entries[k].hits}

\* Mutant: only what is expired goes.
VictimsExpiredOnly(page) == {{q \in page : entries[q].expired}}

\* evict: what is expired on the page, and what is over the cap.
Victims(page) == {{q \in page : entries[q].expired} \cup v : v \in Coldest({q \in page : LiveEntry(q)})}

\* The scan or the delete of an eviction fails: it is logged, the turn goes on, and what is
\* over the cap stays.
EvictFails(t) ==
    /\ evictFaults < MaxEvictFaults /\ evictFaults' = evictFaults + 1
    /\ lookup' = [lookup EXCEPT ![t] = NoLookup(lookup[t].query)]
    /\ UNCHANGED entries

\* evict reads one page of twice the cap ...
EvictScan(t) ==
    LET held  == {q \in Queries : entries[q].held}
        pages == {p \in SUBSET held :
                    Cardinality(p) = 2 * CacheCap \/ (p = held /\ Cardinality(p) < 2 * CacheCap)}
    IN  /\ lookup[t].phase = "stored"
        /\ \/ /\ \E page \in pages : \E victims \in Victims(page) :
                    lookup' = [lookup EXCEPT ![t].phase = "evicting", ![t].victims = victims]
              /\ UNCHANGED <<entries, evictFaults>>
           \/ EvictFails(t)
        /\ UNCHANGED <<readable, indexChanges>>

\* ... and deletes by id what it chose, whatever was stored there since.
EvictDelete(t) ==
    /\ lookup[t].phase = "evicting"
    /\ \/ /\ entries' = [q \in Queries |-> IF q \in lookup[t].victims THEN NoCacheEntry ELSE entries[q]]
          /\ lookup' = [lookup EXCEPT ![t] = NoLookup(lookup[t].query)]
          /\ UNCHANGED evictFaults
       \/ lookup[t].victims # {} /\ EvictFails(t)
    /\ UNCHANGED <<readable, indexChanges>>

\* A time to live runs out.
ExpireEntry ==
    /\ \E q \in Queries : LiveEntry(q) /\ entries' = [entries EXCEPT ![q].expired = TRUE]
    /\ UNCHANGED <<readable, lookup, indexChanges, evictFaults>>

\* Chunks are deleted, or the caller gains or loses access to some.
ChangeIndex ==
    /\ indexChanges < MaxIndexChanges
    /\ indexChanges' = indexChanges + 1
    /\ readable' \in SUBSET Chunks \ {readable}
    /\ UNCHANGED <<entries, lookup, evictFaults>>

CacheNext ==
    \/ \E t \in Turns : \/ Probe(t) \/ Resolve(t) \/ TouchEntry(t) \/ Store(t)
                        \/ EvictScan(t) \/ EvictDelete(t)
    \/ ExpireEntry
    \/ ChangeIndex

CacheSpec == CacheInit /\ [][CacheNext]_cacheVars
-----------------------------------------------------------------------------
(* Properties. *)

\* However stale the plan, a hit hands over only chunks that the caller may read at the
\* moment it is resolved, and something at all.
HitIsReadable ==
    [][\A t \in Turns : (lookup[t].phase = "found" /\ lookup'[t].phase = "hit")
         => lookup'[t].chunks # {} /\ lookup'[t].chunks \subseteq readable]_cacheVars

(* The partition never holds more than the cap, one entry for each turn that has stored a
   plan and not finished evicting, and one for each eviction that failed (store, evict). *)
CacheIsBounded ==
    Cardinality({q \in Queries : entries[q].held})
      <= CacheCap + Cardinality({t \in Turns : lookup[t].phase \in {"stored", "evicting"}}) + evictFaults

\* What the cache hands over is the caller's to read, and what it holds has a bound.
CacheIsSafe == []CacheIsBounded /\ HitIsReadable
=============================================================================
