---------------------------- MODULE Contradictions ----------------------------
(***************************************************************************)
(* Sources that disagree: guardrails/contradiction.py, and what the        *)
(* orchestrator does with its notes once the prompt is packed.             *)
(*                                                                         *)
(* A passage is the document it is of, its score, and what ranks it        *)
(* against another: when it took effect, when it was modified (None when   *)
(* nobody says), when it was indexed, and the authority of its kind of     *)
(* document. How alike two passages are, and what the patterns find        *)
(* between them, is given.                                                 *)
(***************************************************************************)
EXTENDS Integers, Sequences, SequencesExt, FiniteSetsExt, Listing

CONSTANTS
    Pools,        \* the passages retrieval may return, best first
    Likenesses,   \* what may hold between them: [similar, disagree], by their places
    Alike,        \* guardrail_contradiction_min_similarity; half of it is the numeric floor
    MinPassages, MaxClusters, MaxPairs,
    Horizon       \* guardrail_contradiction_recency_days

ASSUME ConflictAssumption ==
    /\ MinPassages \in Nat /\ MaxClusters \in Nat /\ MaxPairs \in Nat
    /\ \A pool \in Pools : /\ Len(pool) \in Nat /\ DOMAIN pool = 1..Len(pool)
                           /\ \A i \in DOMAIN pool : {pool[i].score, pool[i].effective, pool[i].modified,
                                                      pool[i].created, pool[i].authority} \subseteq Int

None == -1

VARIABLES
    evidence,   \* the passages, and what holds between them
    asking,     \* the pairs still to be judged
    conflicts,  \* Contradiction, in the order they were found
    degraded,   \* a verdict of the model was expected and did not come
    sources,    \* the places in the evidence of the sources packed, in the order of their markers
    notes,      \* what the prompt says: [current, superseded] markers
    checking    \* what is done next

conflictVars == <<evidence, asking, conflicts, degraded, sources, notes, checking>>

WholePool == [i \in DOMAIN evidence.passages |-> i]

ConflictInit ==
    /\ \E passages \in Pools, likeness \in Likenesses, model \in BOOLEAN :
         evidence = [passages |-> passages, likeness |-> likeness, model |-> model]
    /\ asking = <<>> /\ conflicts = <<>> /\ degraded = FALSE
    /\ sources = WholePool /\ notes = {} /\ checking = "cluster"

Places == DOMAIN evidence.passages
Of(i) == evidence.passages[i]
\* What is given is given once for a pair.
Between(f, i, j) == IF i < j THEN f[<<i, j>>] ELSE f[<<j, i>>]
Similar(i, j)  == Between(evidence.likeness.similar, i, j)
Disagree(i, j) == Between(evidence.likeness.disagree, i, j)
-----------------------------------------------------------------------------
(* cluster_claims: what is alike, and what is alike to that, and so on. *)
Cluster(i) ==
    LET Grow[n \in 0..Len(evidence.passages)] ==
          IF n = 0 THEN {i}
          ELSE Grow[n - 1] \cup {j \in Places : \E k \in Grow[n - 1] : j # k /\ Similar(j, k) >= Alike}
    IN  Grow[Len(evidence.passages)]

\* The clusters, each by its first member (union keeps the smaller root): the largest first.
Roots == {i \in Places : Cardinality(Cluster(i)) >= 2 /\ \A j \in Cluster(i) : i <= j}
Clusters == LET order == Sorted(Roots, Descending(Roots, [i \in Roots |-> Cardinality(Cluster(i))]))
            IN  [k \in DOMAIN order |-> Cluster(order[k])]

Counted == SubSeq(Clusters, 1, Min({MaxClusters, Len(Clusters)}))

\* Pairs as two nested loops meet them.
Lexical(pairs) == {e \in pairs \X pairs : \/ e[1][1] < e[2][1]
                                          \/ e[1][1] = e[2][1] /\ e[1][2] < e[2][2]}
Ordered(pairs) == Sorted(pairs, Lexical(pairs))
PairsOf(c)     == {p \in c \X c : p[1] < p[2]}

\* Pairs that are only half alike count when the patterns find them at odds.
HalfAlike == {p \in PairsOf(Places) : /\ 2 * Similar(p[1], p[2]) >= Alike
                                      /\ Similar(p[1], p[2]) < Alike
                                      /\ Disagree(p[1], p[2]) # "no"}

\* add: two documents, and each pair where it is met first.
Added(pairs) == {n \in DOMAIN pairs : /\ Of(pairs[n][1]).doc # Of(pairs[n][2]).doc
                                      /\ \A m \in 1..n - 1 : pairs[m] # pairs[n]}

(* _candidate_pairs: best scores first, the order of discovery among equals. *)
Candidates ==
    LET met   == FlattenSeq([c \in DOMAIN Counted |-> Ordered(PairsOf(Counted[c]))]) \o Ordered(HalfAlike)
        found == Picked(met, Added(met))
        worth == [n \in DOMAIN found |-> Of(found[n][1]).score + Of(found[n][2]).score]
        order == Sorted(DOMAIN found, Descending(DOMAIN found, worth))
    IN  [n \in DOMAIN order |-> found[order[n]]]

\* As it would be if every pair were put to the model.
FindEveryPair ==
    /\ checking = "cluster"
    /\ asking' = IF Len(evidence.passages) < Max({2, MinPassages}) THEN <<>> ELSE Candidates
    /\ checking' = "judge"
    /\ UNCHANGED <<evidence, conflicts, degraded, sources, notes>>

FindPairs ==
    /\ checking = "cluster"
    /\ asking' = IF Len(evidence.passages) < Max({2, MinPassages}) THEN <<>>
                 ELSE SubSeq(Candidates, 1, Min({MaxPairs, Len(Candidates)}))
    /\ checking' = "judge"
    /\ UNCHANGED <<evidence, conflicts, degraded, sources, notes>>
-----------------------------------------------------------------------------
\* payload.recency_at.
Recency(p) == IF p.effective # None THEN p.effective
              ELSE IF p.modified # None THEN p.modified ELSE p.created

Won(i, j, basis, gap) ==
    [current |-> i, superseded |-> j, basis |-> basis, stale |-> gap >= Horizon]

\* As it would be if a date were set against no date.
ResolvedAgainstNone(i, j) ==
    LET l == Of(i)  r == Of(j)
        Later(f) == IF l[f] > r[f] THEN Won(i, j, f, l[f] - r[f]) ELSE Won(j, i, f, r[f] - l[f])
    IN  IF l.effective # r.effective THEN Later("effective")
        ELSE IF l.modified # r.modified THEN Later("modified")
        ELSE IF l.authority # r.authority
             THEN IF l.authority > r.authority THEN Won(i, j, "authority", None)
                  ELSE Won(j, i, "authority", None)
        ELSE Won(i, j, "indeterminate", None)

\* As it would be if the same age were enough to be the current one.
ResolvedByAge(i, j) ==
    IF Recency(Of(i)) >= Recency(Of(j))
    THEN Won(i, j, "recency", Recency(Of(i)) - Recency(Of(j)))
    ELSE Won(j, i, "recency", Recency(Of(j)) - Recency(Of(i)))

(* resolve_conflict: a date only counts when both passages have it. *)
Resolved(i, j) ==
    LET l == Of(i)  r == Of(j)
        Tells(f) == l[f] # None /\ r[f] # None /\ l[f] # r[f]
        Later(f) == IF l[f] > r[f] THEN Won(i, j, f, l[f] - r[f]) ELSE Won(j, i, f, r[f] - l[f])
    IN  IF Tells("effective") THEN Later("effective")
        ELSE IF Tells("modified") THEN Later("modified")
        ELSE IF l.authority # r.authority
             THEN IF l.authority > r.authority THEN Won(i, j, "authority", None)
                  ELSE Won(j, i, "authority", None)
        ELSE IF Recency(l) > Recency(r) THEN Won(i, j, "recency", Recency(l) - Recency(r))
        ELSE IF Recency(r) > Recency(l) THEN Won(j, i, "recency", Recency(r) - Recency(l))
        ELSE Won(i, j, "indeterminate", None)

(* _llm_verdict says there is a conflict, or none (none too when it names a scope that tells
   the two apart), or fails; the patterns answer for a model that fails or is not there. *)
JudgePair ==
    /\ checking = "judge" /\ asking # <<>>
    /\ LET p == Head(asking)
           Heuristic == Disagree(p[1], p[2]) # "no"
           Certain == IF Disagree(p[1], p[2]) = "numeric" THEN 75 ELSE 55
           Found(c, how) == Append(conflicts, [won |-> Resolved(p[1], p[2]), confidence |-> c,
                                               by |-> how])
       IN  \/ evidence.model /\ (\E c \in {50, 90} : conflicts' = Found(c, "llm")) /\ UNCHANGED degraded
           \/ evidence.model /\ UNCHANGED <<conflicts, degraded>>
           \/ /\ conflicts' = IF Heuristic THEN Found(Certain, "heuristic") ELSE conflicts
              /\ degraded' = (degraded \/ evidence.model)
    /\ asking' = Tail(asking)
    /\ UNCHANGED <<evidence, sources, notes, checking>>

Notes(cs, at) == {[current |-> at[c.won.current], superseded |-> at[c.won.superseded]] : c \in cs}

(* The end of check_contradictions: the most confident first, and the notes by the markers the
   evidence's order gives. *)
NoteConflicts ==
    /\ checking = "judge" /\ asking = <<>>
    /\ LET order == Sorted(DOMAIN conflicts,
                           Descending(DOMAIN conflicts, [n \in DOMAIN conflicts |-> conflicts[n].confidence]))
       IN  conflicts' = [n \in DOMAIN order |-> conflicts[order[n]]]
    /\ notes' = Notes(ToSet(conflicts), [i \in Places |-> i])
    /\ checking' = "assemble"
    /\ UNCHANGED <<evidence, asking, degraded, sources>>

\* _markers_for: the place of a passage among the sources.
MarkerAmong(packed) == [i \in ToSet(packed) |-> CHOOSE n \in DOMAIN packed : packed[n] = i]

\* As it would be if a conflict were kept as long as its current side is.
RealignedLoosely(packed) ==
    LET at == [i \in Places |-> IF i \in ToSet(packed) THEN MarkerAmong(packed)[i] ELSE i] IN
    Notes({c \in ToSet(conflicts) : c.won.current \in ToSet(packed)}, at)

(* _realign_notes: a conflict both sides of which are not in the prompt is not mentioned. *)
Realigned(packed) ==
    Notes({c \in ToSet(conflicts) : {c.won.current, c.won.superseded} \subseteq ToSet(packed)},
          MarkerAmong(packed))

(* _assemble: the packing keeps some of the passages in their order; when that changes their
   markers the notes are written again and the sources packed again, which fits, for they
   are the same sources and no more notes. *)
AssembleConflicts ==
    /\ checking = "assemble"
    /\ \E kept \in SUBSET Places :
         LET packed == Sorted(kept, Ascending(kept)) IN
         /\ sources' = packed
         /\ notes' = IF notes # {} /\ packed # WholePool THEN Realigned(packed) ELSE notes
    /\ checking' = "done"
    /\ UNCHANGED <<evidence, asking, conflicts, degraded>>

ConflictNext == FindPairs \/ JudgePair \/ NoteConflicts \/ AssembleConflicts

ConflictSpec == ConflictInit /\ [][ConflictNext]_conflictVars
-----------------------------------------------------------------------------
(* Types: a pair to judge is two passages in the order of the evidence, and at most MaxPairs
   cost a call of the model (contradiction.py:999). *)
ConflictTypeOK ==
    /\ checking \in {"cluster", "judge", "assemble", "done"}
    /\ \A n \in DOMAIN asking : asking[n] \in Places \X Places /\ asking[n][1] < asking[n][2]
    /\ Len(asking) + Len(conflicts) <= MaxPairs
    /\ sources \in Seq(Places) /\ degraded \in BOOLEAN

(* A disagreement is between documents, is reported once, and names the later side as the
   current one wherever both say when they took effect: a superseded statement is never
   presented as current (contradiction.py:874-884, 1106-1110). *)
LaterIsCurrent ==
    \A n \in DOMAIN conflicts :
        LET w == Of(conflicts[n].won.current)  l == Of(conflicts[n].won.superseded) IN
        /\ w.doc # l.doc
        /\ w.effective # None /\ l.effective # None => w.effective >= l.effective
        /\ \/ w.effective # None /\ l.effective # None /\ w.effective # l.effective
           \/ w.modified = None \/ l.modified = None \/ w.modified >= l.modified
        /\ \A m \in DOMAIN conflicts : m # n =>
             {conflicts[m].won.current, conflicts[m].won.superseded}
                 # {conflicts[n].won.current, conflicts[n].won.superseded}

(* Which side wins does not depend on the order retrieval returned them in, unless nothing
   tells them apart; and what one basis decides is an order: no three sources each supersede
   the next (contradiction.py:831). *)
BasisIsAnOrder ==
    /\ \A i, j \in Places :
         i # j => \/ Resolved(i, j) = Resolved(j, i)
                  \/ Resolved(i, j).basis = "indeterminate" /\ Resolved(j, i).basis = "indeterminate"
    /\ \A c, d, e \in ToSet(conflicts) :
         /\ c.won.basis = d.won.basis /\ d.won.basis = e.won.basis
         /\ c.won.superseded = d.won.current /\ d.won.superseded = e.won.current
         => e.won.superseded # c.won.current

(* A note in the prompt sends the answer to the sources it is about: the markers in it are
   those of the sources packed, whatever was packed out, and a conflict that lost a side is
   not mentioned with a marker of something else (orchestrator.py:1074-1087, 1555). *)
NotesPointAtTheirSources ==
    checking = "done" =>
        \A note \in notes :
            /\ {note.current, note.superseded} \subseteq DOMAIN sources
            /\ \E n \in DOMAIN conflicts :
                 /\ conflicts[n].won.current = sources[note.current]
                 /\ conflicts[n].won.superseded = sources[note.superseded]

\* A conflict is told once, the right way round, and at the right markers.
ConflictsAreHonest == LaterIsCurrent /\ BasisIsAnOrder /\ NotesPointAtTheirSources
=============================================================================
