----------------------------- MODULE AccessProofs -----------------------------
(***************************************************************************)
(* That the ACL written as a filter is the ACL checked in the process,     *)
(* that a source's defaults grant nothing, and that merging two filters    *)
(* only narrows them, for any users, groups, roles, ranks, dates and       *)
(* facets; that the plan a model makes of a question asks what the         *)
(* user asked, within the dates the caller allowed, whatever it answers;   *)
(* that sources that disagree are told of as they are (Contradictions);    *)
(* and that what retrieval finds is kept or accounted for.                 *)
(***************************************************************************)
EXTENDS AccessFilter, QueryPlan, Contradictions, Retrieval, DataLemmas, SequenceTheorems

(* A bound is a number, or -1. *)
LEMMA Bounds ==
    ASSUME NEW S, S \subseteq Nat, NEW x \in S \cup {NoLimit}
    PROVE  x \in Int /\ x >= -1
<1>1. CASE x \in S
  <2>1. x \in Nat
    BY <1>1
  <2> QED BY <2>1
<1>2. CASE x = -1
  BY <1>2
<1> QED BY <1>1, <1>2 DEF NoLimit

(* The bounds of a filter are numbers, -1 when there is none. *)
LEMMA FilterBounds ==
    ASSUME NEW f \in Filters
    PROVE  /\ f.from \in Int /\ f.to \in Int /\ f.ceiling \in Int
           /\ f.from >= -1 /\ f.to >= -1 /\ f.ceiling >= -1
<1>1. /\ f.from \in Dates \cup {NoLimit} /\ f.to \in Dates \cup {NoLimit}
      /\ f.ceiling \in Ranks \cup {NoLimit}
  BY DEF Filters
<1>2. Dates \subseteq Nat /\ Ranks \subseteq Nat
  BY AccessAssumption DEF AccessAssumption
<1> QED BY <1>1, <1>2, Bounds

(* A merge of two proper filters is a proper filter: nothing the search builds is refused. *)
LEMMA BothIsProper ==
    ASSUME NEW f \in Filters, NEW g \in Filters, Proper(f), Proper(g)
    PROVE  Both(f, g) \in Filters /\ Proper(Both(f, g))
<1>1. /\ Latest(f.from, g.from) \in Dates \cup {NoLimit}
      /\ Earliest(f.to, g.to) \in Dates \cup {NoLimit}
      /\ Earliest(f.ceiling, g.ceiling) \in Ranks \cup {NoLimit}
  BY DEF Latest, Earliest, Filters
<1>2. Both(f, g) \in Filters
  BY <1>1 DEF Both, Filters
<1>3. Proper(Both(f, g))
  <2> DEFINE from    == Latest(f.from, g.from)
             to      == Earliest(f.to, g.to)
             crossed == from # NoLimit /\ to # NoLimit /\ from > to
  <2>1. /\ Both(f, g).from = IF crossed THEN f.from ELSE from
        /\ Both(f, g).to = IF crossed THEN f.to ELSE to
    BY DEF Both
  <2>2. from \in Int /\ to \in Int
    BY FilterBounds DEF Latest, Earliest
  <2> QED BY <2>1, <2>2 DEF Proper
<1> QED BY <1>2, <1>3

(* So is a filter that is filled in. *)
LEMMA FilledIsProper ==
    ASSUME NEW f \in Filters, NEW g \in Filters, Proper(f), Proper(g)
    PROVE  Filled(f, g) \in Filters /\ Proper(Filled(f, g))
<1> DEFINE from    == Latest(f.from, g.from)
           to      == Earliest(f.to, g.to)
           crossed == from # NoLimit /\ to # NoLimit /\ from > to
           all     == [facets |-> IF f.facets # {} THEN f.facets ELSE g.facets,
                       from |-> IF crossed THEN f.from ELSE from,
                       to |-> IF crossed THEN f.to ELSE to,
                       ceiling |-> Earliest(f.ceiling, g.ceiling), impossible |-> FALSE]
<1>1. Filled(f, g) = f \/ Filled(f, g) = g \/ Filled(f, g) = all
  BY DEF Filled
<1>2. /\ Latest(f.from, g.from) \in Dates \cup {NoLimit}
      /\ Earliest(f.to, g.to) \in Dates \cup {NoLimit}
      /\ Earliest(f.ceiling, g.ceiling) \in Ranks \cup {NoLimit}
  BY DEF Latest, Earliest, Filters
<1>3. all \in Filters
  BY <1>2 DEF Filters
<1>4. Proper(all)
  <2>1. from \in Int /\ to \in Int
    BY FilterBounds DEF Latest, Earliest
  <2> QED BY <2>1 DEF Proper
<1> QED BY <1>1, <1>3, <1>4

(* Every variable keeps its type. *)
LEMMA TypeStep == AccessTypeOK /\ [AccessNext]_accessVars => AccessTypeOK'
<1> SUFFICES ASSUME AccessTypeOK, [AccessNext]_accessVars PROVE AccessTypeOK'
  OBVIOUS
<1>1. ASSUME NEW defaults \in Defaults, NEW facets \in SUBSET Facets, NEW date \in Dates,
             NEW deleted \in BOOLEAN, Ingest(defaults, facets, date, deleted)
      PROVE  AccessTypeOK'
  <2>1. defaults \in Acls
    BY AccessAssumption DEF AccessAssumption
  <2>2. Merged(itemAcl, defaults) \in Acls
    BY <2>1 DEF AccessTypeOK, Merged, Acls
  <2> QED BY <1>1, <2>2 DEF AccessTypeOK, Ingest
<1>2. ASSUME NEW own \in Wishes, NEW extracted \in Wishes, NEW tool \in BOOLEAN,
             Search(own, extracted, tool)
      PROVE  AccessTypeOK'
  <2> DEFINE found == IF tool THEN Both(own, extracted) ELSE Filled(own, extracted)
  <2>1. found \in Filters /\ Proper(found)
    BY <1>2, BothIsProper, FilledIsProper, AccessAssumption DEF AccessAssumption, Search
  <2>2. Matches(wish'.merged, point, caller) \in BOOLEAN /\ Permits(point.acl, caller) \in BOOLEAN
    BY DEF Matches, Permits
  <2>3. own \in Filters /\ extracted \in Filters
    BY AccessAssumption DEF AccessAssumption
  <2>4. wish' = [own |-> own, extracted |-> extracted, tool |-> tool, merged |-> found]
    BY <1>2 DEF Search
  <2>5. /\ {wish.own, wish.extracted, wish.merged}' \subseteq Filters /\ Proper(wish.merged)'
        /\ wish'.tool \in BOOLEAN
    BY <2>1, <2>3, <2>4 DEF Proper
  <2>6. verdicts' \in [stage : {"ingest", "ask", "read"}, found : BOOLEAN, read : BOOLEAN]
    BY <1>2, <2>2 DEF Search
  <2> QED BY <1>2, <2>5, <2>6 DEF AccessTypeOK, Search
<1>3. CASE UNCHANGED accessVars
  BY <1>3 DEF AccessTypeOK, accessVars, Proper
<1> QED BY <1>1, <1>2, <1>3 DEF AccessNext

LEMMA TypeInit == AccessInit => AccessTypeOK
<1> SUFFICES ASSUME AccessInit PROVE AccessTypeOK
  OBVIOUS
<1>1. AnyFilter \in Filters /\ Proper(AnyFilter)
  BY DEF AnyFilter, Filters, Proper
<1>2. point.acl \in Acls /\ point.facets = {} /\ point.date = NoLimit /\ point.deleted = FALSE
  BY DEF AccessInit, NoPoint
<1> QED BY <1>1, <1>2 DEF AccessInit, AccessTypeOK, Proper

(* The state of a request has its types in every reachable state: models/acl.py and
   MetadataFilter validate every record that is built. *)
THEOREM AccessTypeCorrect == AccessSpec => []AccessTypeOK
<1> QED BY TypeInit, TypeStep, PTL DEF AccessSpec
-----------------------------------------------------------------------------
(* The ceiling of a filter only lowers a clearance. *)
LEMMA CeilingLowers ==
    ASSUME NEW p \in Principals, NEW f \in Filters
    PROVE  Clearance(p, f) \in Nat /\ Clearance(p, f) <= p.rank
<1>1. p.rank \in Nat
  BY AccessAssumption DEF AccessAssumption, Principals
<1> QED BY <1>1, FilterBounds DEF Clearance, Earliest, NoLimit

(* build_acl_filter lets through what AccessControl.permits permits, within the filter. *)
LEMMA MatchesIsPermits ==
    ASSUME NEW p \in Principals, NEW f \in Filters, NEW pt, pt.acl \in Acls
    PROVE  Matches(f, pt, p) = (/\ Permits(pt.acl, p) /\ ~pt.deleted
                                /\ pt.acl.rank <= Clearance(p, f) /\ MatchesFacets(f, pt))
<1>1. pt.acl.rank \in Nat /\ p.rank \in Nat
  BY AccessAssumption DEF AccessAssumption, Acls, Principals
<1>2. pt.acl.rank <= Clearance(p, f) => pt.acl.rank <= p.rank
  BY <1>1, CeilingLowers
<1>3. MatchesFacets(f, pt) \in BOOLEAN
  BY DEF MatchesFacets
<1> QED BY <1>2, <1>3 DEF Matches, Permits, OpenToAll, Unrestricted

(* A search finds a point exactly when the reader would also be let through: the filter of
   filters.py and the check of acl.py cannot drift apart. *)
THEOREM FilterMatchesCheck == AccessSpec => []FilterIsPermits
<1>1. AccessInit => FilterIsPermits
  BY DEF AccessInit, FilterIsPermits
<1>2. AccessTypeOK /\ AccessTypeOK' /\ FilterIsPermits /\ [AccessNext]_accessVars
        => FilterIsPermits'
  <2> SUFFICES ASSUME AccessTypeOK, AccessTypeOK', FilterIsPermits, [AccessNext]_accessVars
               PROVE  FilterIsPermits'
    OBVIOUS
  <2>1. ASSUME NEW defaults \in Defaults, NEW facets \in SUBSET Facets, NEW date \in Dates,
               NEW deleted \in BOOLEAN, Ingest(defaults, facets, date, deleted)
        PROVE  FilterIsPermits'
    BY <2>1 DEF Ingest, FilterIsPermits, AccessTypeOK
  <2>2. ASSUME NEW own \in Wishes, NEW extracted \in Wishes, NEW tool \in BOOLEAN,
             Search(own, extracted, tool)
        PROVE  FilterIsPermits'
    <3>1. wish.merged' \in Filters /\ point.acl \in Acls /\ caller \in Principals
      BY DEF AccessTypeOK
    <3>2. /\ verdicts'.found = Matches(wish.merged', point, caller)
          /\ verdicts'.read = Permits(point.acl, caller)
          /\ point' = point /\ caller' = caller
      BY <2>2 DEF Search
    <3>3. Matches(wish.merged', point, caller) =
            (/\ Permits(point.acl, caller) /\ ~point.deleted
             /\ point.acl.rank <= Clearance(caller, wish.merged')
             /\ MatchesFacets(wish.merged', point))
      BY <3>1, MatchesIsPermits
    <3> QED BY <3>2, <3>3 DEF FilterIsPermits, Clearance, MatchesFacets
  <2>3. CASE UNCHANGED accessVars
    BY <2>3 DEF FilterIsPermits, accessVars, Clearance, MatchesFacets
  <2> QED BY <2>1, <2>2, <2>3 DEF AccessNext
<1> QED BY <1>1, <1>2, AccessTypeCorrect, PTL DEF AccessSpec
-----------------------------------------------------------------------------
(* Layering another ACL under one takes permissions and gives none. *)
LEMMA MergedGrantsNothing ==
    ASSUME NEW acl \in Acls, NEW other \in Acls, NEW p \in Principals,
           Permits(Merged(acl, other), p)
    PROVE  Permits(acl, p)
<1>1. /\ Merged(acl, other).tenant = acl.tenant
      /\ acl.denied \subseteq Merged(acl, other).denied
      /\ Merged(acl, other).rank = IF other.rank > acl.rank THEN other.rank ELSE acl.rank
  BY DEF Merged, Acls
<1>2. acl.rank \in Nat /\ other.rank \in Nat /\ p.rank \in Nat
  BY AccessAssumption DEF AccessAssumption, Acls, Principals
<1>3. p.tenant = acl.tenant /\ p.user \notin acl.denied /\ acl.rank <= p.rank
  BY <1>1, <1>2 DEF Permits
<1>4. CASE Unrestricted(acl)
  BY <1>3, <1>4 DEF Permits
<1>5. CASE ~Unrestricted(acl)
  <2>1. /\ Merged(acl, other).roles = acl.roles
        /\ Merged(acl, other).groups = acl.groups /\ Merged(acl, other).users = acl.users
    BY <1>5 DEF Merged, Acls
  <2> QED BY <1>3, <2>1 DEF Permits, Unrestricted
<1> QED BY <1>4, <1>5

(* Whoever may read the indexed chunk may read the item its source described, whatever the
   defaults of the source: AccessControl.merged_with. *)
THEOREM DefaultsGrantNothing == AccessSpec => []DefaultsNeverGrant
<1>1. AccessInit => DefaultsNeverGrant
  BY DEF AccessInit, DefaultsNeverGrant
<1>2. AccessTypeOK /\ DefaultsNeverGrant /\ [AccessNext]_accessVars => DefaultsNeverGrant'
  <2> SUFFICES ASSUME AccessTypeOK, DefaultsNeverGrant, [AccessNext]_accessVars
               PROVE  DefaultsNeverGrant'
    OBVIOUS
  <2>1. ASSUME NEW defaults \in Defaults, NEW facets \in SUBSET Facets, NEW date \in Dates,
               NEW deleted \in BOOLEAN, Ingest(defaults, facets, date, deleted)
        PROVE  DefaultsNeverGrant'
    <3>1. itemAcl \in Acls /\ defaults \in Acls /\ itemAcl' = itemAcl
      BY <2>1, AccessAssumption DEF AccessAssumption, AccessTypeOK, Ingest
    <3>2. point'.acl = Merged(itemAcl, defaults)
      BY <2>1 DEF Ingest
    <3>3. ASSUME NEW p \in Principals, Permits(point'.acl, p) PROVE Permits(itemAcl, p)
      BY <3>1, <3>2, <3>3, MergedGrantsNothing
    <3> QED BY <3>1, <3>3 DEF DefaultsNeverGrant, Permits, Unrestricted
  <2>2. ASSUME NEW own \in Wishes, NEW extracted \in Wishes, NEW tool \in BOOLEAN,
             Search(own, extracted, tool)
        PROVE  DefaultsNeverGrant'
    BY <2>2 DEF Search, DefaultsNeverGrant, Permits, Unrestricted
  <2>3. CASE UNCHANGED accessVars
    BY <2>3 DEF DefaultsNeverGrant, accessVars, Permits, Unrestricted
  <2> QED BY <2>1, <2>2, <2>3 DEF AccessNext
<1> QED BY <1>1, <1>2, AccessTypeCorrect, PTL DEF AccessSpec
-----------------------------------------------------------------------------
(* What the merge of two filters lets through, each of them lets through. *)
LEMMA BothNarrows ==
    ASSUME NEW f \in Filters, NEW g \in Filters, NEW p \in Principals, NEW pt,
           pt.date \in Dates \cup {NoLimit}, pt.acl \in Acls, pt.facets \subseteq Facets,
           MatchesFacets(Both(f, g), pt), pt.acl.rank <= Clearance(p, Both(f, g))
    PROVE  /\ MatchesFacets(f, pt) /\ pt.acl.rank <= Clearance(p, f)
           /\ MatchesFacets(g, pt) /\ pt.acl.rank <= Clearance(p, g)
<1> DEFINE facets  == IF f.facets = {} \/ g.facets = {} THEN f.facets \cup g.facets
                      ELSE f.facets \cap g.facets
           from    == Latest(f.from, g.from)
           to      == Earliest(f.to, g.to)
           crossed == from # NoLimit /\ to # NoLimit /\ from > to
           empty   == f.facets # {} /\ g.facets # {} /\ facets = {}
<1>1. /\ Both(f, g).facets = IF empty THEN f.facets ELSE facets
      /\ Both(f, g).from = IF crossed THEN f.from ELSE from
      /\ Both(f, g).to = IF crossed THEN f.to ELSE to
      /\ Both(f, g).ceiling = Earliest(f.ceiling, g.ceiling)
      /\ Both(f, g).impossible = (f.impossible \/ g.impossible \/ empty \/ crossed)
  BY DEF Both
<1>2. ~f.impossible /\ ~g.impossible /\ ~empty /\ ~crossed
  BY <1>1 DEF MatchesFacets
<1>3. /\ Both(f, g).facets = facets /\ Both(f, g).from = from /\ Both(f, g).to = to
  BY <1>1, <1>2
<1>4. /\ f.facets = {} \/ f.facets \cap pt.facets # {}
      /\ g.facets = {} \/ g.facets \cap pt.facets # {}
  <2>1. facets = {} \/ facets \cap pt.facets # {}
    BY <1>3 DEF MatchesFacets
  <2> QED BY <1>2, <2>1
<1>5. /\ f.from \in Int /\ g.from \in Int /\ f.to \in Int /\ g.to \in Int /\ pt.date \in Int
      /\ f.from >= -1 /\ g.from >= -1 /\ f.to >= -1 /\ g.to >= -1
  <2>1. Dates \subseteq Nat
    BY AccessAssumption DEF AccessAssumption
  <2> QED BY <2>1, FilterBounds, Bounds
<1>6. /\ f.from = NoLimit \/ pt.date >= f.from
      /\ g.from = NoLimit \/ pt.date >= g.from
  <2>1. from = NoLimit \/ pt.date >= from
    BY <1>3 DEF MatchesFacets
  <2> QED BY <1>5, <2>1 DEF Latest, NoLimit
<1>7. /\ f.to = NoLimit \/ pt.date <= f.to
      /\ g.to = NoLimit \/ pt.date <= g.to
  <2>1. to = NoLimit \/ pt.date <= to
    BY <1>3 DEF MatchesFacets
  <2> QED BY <1>5, <2>1 DEF Earliest, NoLimit
<1>8. pt.acl.rank <= Clearance(p, f) /\ pt.acl.rank <= Clearance(p, g)
  <2>1. /\ pt.acl.rank \in Nat /\ p.rank \in Nat
        /\ f.ceiling \in Int /\ g.ceiling \in Int /\ f.ceiling >= -1 /\ g.ceiling >= -1
    BY FilterBounds, AccessAssumption DEF AccessAssumption, Acls, Principals
  <2>2. pt.acl.rank <= Earliest(p.rank, Earliest(f.ceiling, g.ceiling))
    BY <1>1 DEF Clearance
  <2> QED BY <2>1, <2>2 DEF Clearance, Earliest, NoLimit
<1> QED BY <1>2, <1>4, <1>6, <1>7, <1>8 DEF MatchesFacets

(* What a filled-in filter lets through, the caller's own lets through. *)
LEMMA FilledNarrows ==
    ASSUME NEW f \in Filters, NEW g \in Filters, NEW p \in Principals, NEW pt,
           pt.date \in Dates \cup {NoLimit}, pt.acl \in Acls, ~f.impossible,
           MatchesFacets(Filled(f, g), pt), pt.acl.rank <= Clearance(p, Filled(f, g))
    PROVE  MatchesFacets(f, pt) /\ pt.acl.rank <= Clearance(p, f)
<1> DEFINE from    == Latest(f.from, g.from)
           to      == Earliest(f.to, g.to)
           crossed == from # NoLimit /\ to # NoLimit /\ from > to
<1>1. CASE g = AnyFilter
  BY <1>1 DEF Filled
<1>2. CASE g # AnyFilter /\ f = AnyFilter
  <2>1. MatchesFacets(f, pt)
    BY <1>2 DEF MatchesFacets, AnyFilter
  <2>2. pt.acl.rank \in Nat /\ p.rank \in Nat
    BY AccessAssumption DEF AccessAssumption, Acls, Principals
  <2>3. pt.acl.rank <= p.rank
    BY <1>2, <2>2, CeilingLowers DEF Filled
  <2>4. Clearance(p, f) = p.rank
    BY <1>2, <2>2 DEF Clearance, Earliest, AnyFilter, NoLimit
  <2> QED BY <2>1, <2>3, <2>4
<1>3. CASE g # AnyFilter /\ f # AnyFilter
  <2>1. /\ Filled(f, g).facets = IF f.facets # {} THEN f.facets ELSE g.facets
        /\ Filled(f, g).from = IF crossed THEN f.from ELSE from
        /\ Filled(f, g).to = IF crossed THEN f.to ELSE to
        /\ Filled(f, g).ceiling = Earliest(f.ceiling, g.ceiling)
    BY <1>3 DEF Filled
  <2>2. pt.date \in Int
    <3>1. Dates \subseteq Nat
      BY AccessAssumption DEF AccessAssumption
    <3> QED BY <3>1, Bounds
  <2>3. f.facets = {} \/ f.facets \cap pt.facets # {}
    BY <2>1 DEF MatchesFacets
  <2>4. f.from = NoLimit \/ pt.date >= f.from
    <3>1. LET x == Filled(f, g).from IN x = NoLimit \/ pt.date >= x
      BY DEF MatchesFacets
    <3> QED BY <2>1, <2>2, <3>1, FilterBounds DEF Latest, NoLimit
  <2>5. f.to = NoLimit \/ pt.date <= f.to
    <3>1. LET x == Filled(f, g).to IN x = NoLimit \/ pt.date <= x
      BY DEF MatchesFacets
    <3> QED BY <2>1, <2>2, <3>1, FilterBounds DEF Earliest, NoLimit
  <2>6. pt.acl.rank <= Clearance(p, f)
    <3>1. /\ pt.acl.rank \in Nat /\ p.rank \in Nat
          /\ f.ceiling \in Int /\ g.ceiling \in Int /\ f.ceiling >= -1 /\ g.ceiling >= -1
      BY FilterBounds, AccessAssumption DEF AccessAssumption, Acls, Principals
    <3>2. pt.acl.rank <= Earliest(p.rank, Earliest(f.ceiling, g.ceiling))
      BY <2>1 DEF Clearance
    <3> QED BY <3>1, <3>2 DEF Clearance, Earliest, NoLimit
  <2> QED BY <2>3, <2>4, <2>5, <2>6 DEF MatchesFacets
<1> QED BY <1>1, <1>2, <1>3

(* What is extracted or asked for by a tool never widens the caller's own filter:
   merge_filters and MetadataFilter.merged_with. *)
THEOREM MergeOnlyNarrows == AccessSpec => []MergeNeverWidens
<1>1. AccessInit => MergeNeverWidens
  BY DEF AccessInit, MergeNeverWidens
<1>2. AccessTypeOK /\ MergeNeverWidens /\ [AccessNext]_accessVars => MergeNeverWidens'
  <2> SUFFICES ASSUME AccessTypeOK, MergeNeverWidens, [AccessNext]_accessVars
               PROVE  MergeNeverWidens'
    OBVIOUS
  <2>1. ASSUME NEW defaults \in Defaults, NEW facets \in SUBSET Facets, NEW date \in Dates,
               NEW deleted \in BOOLEAN, Ingest(defaults, facets, date, deleted)
        PROVE  MergeNeverWidens'
    BY <2>1 DEF Ingest, MergeNeverWidens, AccessTypeOK
  <2>2. ASSUME NEW own \in Wishes, NEW extracted \in Wishes, NEW tool \in BOOLEAN,
               Search(own, extracted, tool)
        PROVE  MergeNeverWidens'
    <3>1. own \in Filters /\ extracted \in Filters
      BY AccessAssumption DEF AccessAssumption
    <3>2. /\ wish'.own = own /\ wish'.extracted = extracted /\ wish'.tool = tool
          /\ wish'.merged = IF tool THEN Both(own, extracted) ELSE Filled(own, extracted)
          /\ point' = point /\ caller' = caller
      BY <2>2 DEF Search
    <3>3. ASSUME MatchesFacets(Both(own, extracted), point),
                 point.acl.rank <= Clearance(caller, Both(own, extracted))
          PROVE  /\ MatchesFacets(own, point) /\ point.acl.rank <= Clearance(caller, own)
                 /\ MatchesFacets(extracted, point)
                 /\ point.acl.rank <= Clearance(caller, extracted)
      BY <3>1, <3>3, BothNarrows DEF AccessTypeOK
    <3>4. ASSUME MatchesFacets(Filled(own, extracted), point), ~own.impossible,
                 point.acl.rank <= Clearance(caller, Filled(own, extracted))
          PROVE  MatchesFacets(own, point) /\ point.acl.rank <= Clearance(caller, own)
      BY <3>1, <3>4, FilledNarrows DEF AccessTypeOK
    <3>5. CASE tool
      BY <3>2, <3>3, <3>5 DEF MergeNeverWidens, Within, MatchesFacets, Clearance
    <3>6. CASE ~tool
      BY <3>2, <3>4, <3>6 DEF MergeNeverWidens, Within, MatchesFacets, Clearance
    <3> QED BY <3>5, <3>6
  <2>3. CASE UNCHANGED accessVars
    BY <2>3 DEF MergeNeverWidens, Within, accessVars, Clearance, MatchesFacets
  <2> QED BY <2>1, <2>2, <2>3 DEF AccessNext
<1> QED BY <1>1, <1>2, AccessTypeCorrect, PTL DEF AccessSpec
-----------------------------------------------------------------------------
(* The plan of a question *)

\* The longest a list of sub-questions gets.
Room == IF MaxSubqueries = 0 THEN 1 ELSE MaxSubqueries

LEMMA RoomIsMax == Max({1, MaxSubqueries}) = Room /\ Room \in Nat \ {0}
<1>1. MaxSubqueries \in Nat
  BY PlanAssumption
<1>2. \E x \in {1, MaxSubqueries} : \A y \in {1, MaxSubqueries} : x >= y
  <2>1. CASE 1 >= MaxSubqueries
    BY <1>1, <2>1
  <2>2. CASE ~(1 >= MaxSubqueries)
    <3>1. MaxSubqueries >= 1 /\ MaxSubqueries >= MaxSubqueries
      BY <1>1, <2>2
    <3> QED BY <3>1
  <2> QED BY <2>1, <2>2
<1> QED BY <1>1, <1>2 DEF Max, Room

\* Sub-questions as the plan wants them: none blank, none like the first text or each other.
Apart(first, kept) ==
    /\ kept \in Seq(Texts) /\ Len(kept) <= Room
    /\ \A i \in 1..Len(kept) : kept[i] # Blank /\ Folded(kept[i]) # Folded(first)
    /\ \A i, j \in 1..Len(kept) : i # j => Folded(kept[i]) # Folded(kept[j])

\* One round keeps them so.
LEMMA ConsideredApart ==
  ASSUME NEW first, NEW kept, Apart(first, kept), NEW text \in Texts \cup {Blank}
  PROVE  Apart(first, Considered(first, kept, text))
<1>1. CASE Considered(first, kept, text) = kept
  BY <1>1
<1>2. CASE /\ Considered(first, kept, text) = Append(kept, text)
           /\ text # Blank /\ ~(kept # <<>> /\ Len(kept) >= MaxSubqueries)
           /\ \A old \in ToSet(kept) \cup {first} : Folded(old) # Folded(text)
  <2> DEFINE n == Len(kept)  new == Append(kept, text)
  <2>1. kept \in Seq(Texts) /\ text \in Texts /\ n \in Nat /\ MaxSubqueries \in Nat
    BY <1>2, PlanAssumption DEF Apart
  <2>2. /\ new \in Seq(Texts) /\ Len(new) = n + 1 /\ new[n + 1] = text
        /\ \A i \in 1..n : new[i] = kept[i]
    BY <2>1
  <2>3. \A i \in 1..n : kept[i] \in ToSet(kept)
    BY <2>1 DEF ToSet
  <2>4. n + 1 <= Room
    <3>1. CASE kept = <<>>
      BY <3>1, RoomIsMax
    <3>2. CASE ~(n >= MaxSubqueries)
      BY <2>1, <3>2 DEF Room
    <3> QED BY <1>2, <3>1, <3>2
  <2>5. \A i \in 1..n : kept[i] # Blank /\ Folded(kept[i]) # Folded(first) /\ Folded(kept[i]) # Folded(text)
    BY <1>2, <2>3 DEF Apart
  <2>6. \A i \in 1..n+1 : i = n + 1 \/ i \in 1..n
    BY <2>1
  <2>7. \A i \in 1..n+1 : new[i] # Blank /\ Folded(new[i]) # Folded(first)
    BY <1>2, <2>2, <2>5, <2>6
  <2>8. \A i, j \in 1..n+1 : i # j => Folded(new[i]) # Folded(new[j])
    <3>1. \A i, j \in 1..n : i # j => Folded(kept[i]) # Folded(kept[j])
      BY DEF Apart
    <3> QED BY <2>2, <2>5, <2>6, <3>1
  <2> HIDE DEF new, n
  <2> QED BY <1>2, <2>2, <2>4, <2>7, <2>8 DEF Apart, new
<1> QED BY <1>1, <1>2 DEF Considered

\* So the loop ends with such sub-questions, whatever the model returned.
LEMMA DistinctApart ==
  ASSUME NEW first \in Texts, NEW texts \in Seq(Texts \cup {Blank})
  PROVE  Apart(first, Distinct(first, texts))
<1> DEFINE n == Len(texts)  V == {kept \in Seq(Texts) : Apart(first, kept)}
           Loop(F) == F = [k \in 0..n |-> IF k = 0 THEN <<>> ELSE Considered(first, F[k - 1], texts[k])]
<1>1. n \in Nat /\ <<>> \in V /\ \A k \in 1..n : texts[k] \in Texts \cup {Blank}
  BY RoomIsMax DEF Apart
<1>2. \A k \in 1..n, v \in V : Considered(first, v, texts[k]) \in V
  <2> SUFFICES ASSUME NEW k \in 1..n, NEW v \in V PROVE Considered(first, v, texts[k]) \in V
    OBVIOUS
  <2>1. Apart(first, Considered(first, v, texts[k]))
    BY <1>1, ConsideredApart
  <2> QED BY <2>1 DEF Apart
<1>3. \A v \in V : Apart(first, v)
  OBVIOUS
<1> HIDE DEF n, V
<1>4. \E F \in [0..n -> V] : Loop(F)
  <2> DEFINE step == [k \in 1..n |-> [v \in V |-> Considered(first, v, texts[k])]]
             none == <<>>
  <2>1. step \in StepsOf(n, V) /\ none \in V
    BY <1>1, <1>2 DEF StepsOf
  <2>2. \A k \in 1..n, v \in V : step[k][v] = Considered(first, v, texts[k])
    OBVIOUS
  <2> HIDE DEF step, none
  <2>3. PICK F \in [0..n -> V] : F[0] = none /\ \A k \in 1..n : F[k] = step[k][F[k - 1]]
    <3>1. n \in Nat
      BY <1>1
    <3> QED BY <2>1, <3>1, Recursion
  <2>4. ASSUME NEW k \in 0..n PROVE F[k] = IF k = 0 THEN <<>> ELSE Considered(first, F[k - 1], texts[k])
    <3>1. CASE k = 0
      BY <2>3, <3>1 DEF none
    <3>2. CASE k \in 1..n
      <4>1. F[k - 1] \in V /\ k # 0
        BY <1>1, <2>3, <3>2
      <4> QED BY <2>2, <2>3, <3>2, <4>1
    <3> QED BY <1>1, <3>1, <3>2
  <2>5. F = [k \in 0..n |-> F[k]]
    BY <2>3
  <2> QED BY <2>4, <2>5
<1>5. PICK F : Loop(F) /\ Distinct(first, texts) = F[n]
  <2>1. Loop(CHOOSE F : Loop(F))
    BY <1>4
  <2> QED BY <2>1 DEF Distinct, n
<1>6. F[0] = <<>> /\ \A k \in 1..n : F[k] = Considered(first, F[k - 1], texts[k])
  BY <1>1, <1>5
<1> DEFINE S == {k \in Nat : k <= n => F[k] \in V}
<1>7. 0 \in S
  BY <1>1, <1>6
<1>8. ASSUME NEW k \in Nat, k \in S PROVE k + 1 \in S
  <2> SUFFICES ASSUME k + 1 <= n PROVE F[k + 1] \in V
    OBVIOUS
  <2>1. F[k] \in V /\ k + 1 \in 1..n /\ (k + 1) - 1 = k
    BY <1>1, <1>8
  <2> QED BY <1>2, <1>6, <2>1
<1> HIDE DEF S
<1>9. S = Nat
  BY <1>7, <1>8, SetInduction DEF S
<1>10. F[n] \in V
  BY <1>1, <1>9 DEF S
<1> QED BY <1>3, <1>5, <1>10

\* A parsed date is a number, or none; one that ends a year or a month covers it.
LEMMA ParsedCovers ==
  ASSUME NEW period \in Periods, NEW end \in BOOLEAN
  PROVE  /\ Parsed(period, end) \in Nat \cup {-1}
         /\ end /\ period.unit = "year" => (period.n + 1) * YearLength - 1 <= Parsed(period, end)
         /\ end /\ period.unit = "month" => (period.n + 1) * MonthLength - 1 <= Parsed(period, end)
<1>1. /\ period.n \in Nat /\ period.unit \in {"none", "day", "slash", "month", "year"}
      /\ DayLength \in Nat \ {0} /\ MonthLength \in Nat \ {0} /\ YearLength \in Nat \ {0}
  BY PlanAssumption DEF Periods
<1>2. /\ period.n * DayLength \in Nat /\ period.n * MonthLength \in Nat /\ period.n * YearLength \in Nat
      /\ (period.n + 1) * YearLength = period.n * YearLength + YearLength
      /\ (period.n + 1) * MonthLength = period.n * MonthLength + MonthLength
  BY <1>1
<1>3. CASE period.unit = "none"
  BY <1>3 DEF Parsed
<1>4. CASE period.unit = "day"
  BY <1>1, <1>2, <1>4 DEF Parsed
<1>5. CASE period.unit = "slash"
  BY <1>1, <1>2, <1>5 DEF Parsed
<1>6. CASE period.unit = "month"
  BY <1>1, <1>2, <1>6 DEF Parsed
<1>7. CASE period.unit = "year"
  BY <1>1, <1>2, <1>7 DEF Parsed
<1> QED BY <1>1, <1>3, <1>4, <1>5, <1>6, <1>7

\* The dates read in an answer are a range that does not cross.
LEMMA ExtractedRange ==
  ASSUME payload \in Answers
  PROVE  /\ Extracted \in Ranges /\ ~Crossed(Extracted)
         /\ Extracted.to # -1 => Extracted.to = Parsed(payload.to, TRUE)
<1> DEFINE f == [from |-> Parsed(payload.from, FALSE), to |-> Parsed(payload.to, TRUE)]
<1>1. payload.from \in Periods /\ payload.to \in Periods
  BY DEF Answers
<1>2. f \in Ranges /\ f.to = Parsed(payload.to, TRUE)
  BY <1>1, ParsedCovers DEF Ranges
<1>3. Extracted = IF Crossed(f) THEN Unbounded ELSE f
  BY DEF Extracted
<1>4. Unbounded \in Ranges /\ ~Crossed(Unbounded) /\ Unbounded.to = -1
  BY DEF Unbounded, Ranges, Crossed
<1> HIDE DEF f
<1> QED BY <1>2, <1>3, <1>4

\* The greater and the lesser of two dates.
LEMMA TwoDates ==
  ASSUME NEW a \in Int, NEW b \in Int
  PROVE  /\ Max({a, b}) = IF a >= b THEN a ELSE b
         /\ Min({a, b}) = IF a <= b THEN a ELSE b
<1>1. CASE a = b
  <2>1. {a, b} = {a} /\ a <= a /\ a >= a
    BY <1>1
  <2>2. /\ (CHOOSE x \in {a} : \A y \in {a} : x >= y) = a
        /\ (CHOOSE x \in {a} : \A y \in {a} : x <= y) = a
    BY <2>1
  <2> QED BY <1>1, <2>1, <2>2 DEF Max, Min
<1>2. CASE a > b
  <2>1. a >= b /\ a >= a /\ b <= a /\ b <= b /\ ~(b >= a) /\ ~(a <= b)
    BY <1>2
  <2>2. /\ \E x \in {a, b} : \A y \in {a, b} : x >= y
        /\ \E x \in {a, b} : \A y \in {a, b} : x <= y
    BY <2>1
  <2> QED BY <2>1, <2>2 DEF Max, Min
<1>3. CASE a < b
  <2>1. b >= a /\ a <= a /\ a <= b /\ b >= b /\ ~(a >= b) /\ ~(b <= a)
    BY <1>3
  <2>2. /\ \E x \in {a, b} : \A y \in {a, b} : x >= y
        /\ \E x \in {a, b} : \A y \in {a, b} : x <= y
    BY <2>1
  <2> QED BY <2>1, <2>2 DEF Max, Min
<1> QED BY <1>1, <1>2, <1>3

\* A merge keeps within the caller's range and does not cross.
LEMMA NarrowedStands ==
  ASSUME NEW own \in Ranges, ~Crossed(own), NEW found \in Ranges, ~Crossed(found)
  PROVE  LET both == Narrowed(own, found) IN
         /\ ~Crossed(both) /\ own.from <= both.from
         /\ own.to # -1 => both.to # -1 /\ both.to <= own.to
<1>1. /\ own.from \in Nat \cup {-1} /\ own.to \in Nat \cup {-1}
      /\ found.from \in Nat \cup {-1} /\ found.to \in Nat \cup {-1}
  BY DEF Ranges
<1>2. /\ own.from \in Int /\ own.to \in Int /\ found.from \in Int /\ found.to \in Int
      /\ -1 <= own.from /\ -1 <= found.from
  BY <1>1
<1> DEFINE from == Max({own.from, found.from})
           to   == IF own.to = -1 THEN found.to ELSE IF found.to = -1 THEN own.to ELSE Min({own.to, found.to})
           both == [from |-> from, to |-> to]
<1>3. own.from <= from
  BY <1>2, TwoDates
<1>4. own.to # -1 => to # -1 /\ to <= own.to
  <2> DEFINE lesser == Min({own.to, found.to})
  <2>1. lesser = IF own.to <= found.to THEN own.to ELSE found.to
    BY <1>2, TwoDates
  <2>2. to = IF own.to = -1 THEN found.to ELSE IF found.to = -1 THEN own.to ELSE lesser
    OBVIOUS
  <2> HIDE DEF lesser, to
  <2> QED BY <1>2, <2>1, <2>2
<1>5. both.from = from /\ both.to = to
  OBVIOUS
<1>6. Narrowed(own, found) = IF found = Unbounded THEN own ELSE IF own = Unbounded THEN found
                             ELSE IF Crossed(both) THEN own ELSE both
  BY DEF Narrowed
<1> HIDE DEF both, from, to
<1>7. CASE Narrowed(own, found) = own
  BY <1>2, <1>7
<1>8. CASE own = Unbounded /\ Narrowed(own, found) = found
  <2>1. own.from = -1 /\ own.to = -1
    BY <1>8 DEF Unbounded
  <2> QED BY <1>2, <1>8, <2>1
<1>9. CASE ~Crossed(both) /\ Narrowed(own, found) = both
  BY <1>3, <1>4, <1>5, <1>9
<1> QED BY <1>6, <1>7, <1>8, <1>9

\* What a plan that was made is: the message as it is, or what the answer says, cleaned.
Made ==
    \/ plan = Fallback
    \/ /\ ~plan.degraded /\ plan.rewritten \in Texts /\ plan.rewritten # Blank
       /\ Apart(plan.rewritten, plan.subs) /\ plan.filter = Extracted

\* The strengthening of PlanIsFaithful.
PlanInv ==
    /\ question.message \in Texts \cup {Blank} /\ question.own \in OwnFilters
    /\ payload \in Answers
    /\ planning \in {"ask", "plan", "merge", "done"}
    /\ planning = "plan" => question.message # Blank
    /\ planning \in {"ask", "plan"} => ~plan.degraded
    /\ planning \in {"merge", "done"} => Made
    /\ planning = "done" => merged = Narrowed(question.own, plan.filter)

LEMMA PlanInitInv == PlanInit => PlanInv
<1> SUFFICES ASSUME PlanInit PROVE PlanInv
  OBVIOUS
<1>1. PICK message \in Texts \cup {Blank}, on \in BOOLEAN, rewrite \in BOOLEAN, hyde \in BOOLEAN, own \in OwnFilters :
        question = [message |-> message, on |-> on, rewrite |-> rewrite, hyde |-> hyde, own |-> own]
  BY DEF PlanInit
<1>2. question.message \in Texts \cup {Blank} /\ question.own \in OwnFilters
  BY <1>1
<1>3. payload \in Answers
  <2>1. [unit |-> "none", n |-> 0] \in Periods
    BY DEF Periods
  <2>2. <<>> \in Seq(Texts \cup {Blank})
    OBVIOUS
  <2> QED BY <2>1, <2>2 DEF PlanInit, NoPayload, Answers
<1>4. planning = "ask" /\ ~plan.degraded
  BY DEF PlanInit
<1> QED BY <1>2, <1>3, <1>4 DEF PlanInv

LEMMA PlanNextInv == PlanInv /\ [PlanNext]_planVars => PlanInv'
<1> SUFFICES ASSUME PlanInv, [PlanNext]_planVars PROVE PlanInv'
  OBVIOUS
<1>1. CASE AskModel
  <2>1. planning = "ask" /\ UNCHANGED <<question, merged>>
    BY <1>1 DEF AskModel
  <2>2. CASE /\ question.message # Blank /\ payload' \in Payloads
             /\ planning' = "plan" /\ UNCHANGED plan
    BY <2>1, <2>2, PlanAssumption DEF PlanInv
  <2>3. CASE plan' = Fallback /\ planning' = "merge" /\ UNCHANGED payload
    BY <2>1, <2>3 DEF PlanInv, Made, Fallback
  <2> QED BY <1>1, <2>2, <2>3 DEF AskModel
<1>2. CASE MakePlan
  <2> DEFINE rewritten == IF question.rewrite /\ payload.rewritten # Blank THEN payload.rewritten
                          ELSE question.message
  <2>1. planning = "plan" /\ planning' = "merge" /\ UNCHANGED <<question, payload, merged>>
    BY <1>2 DEF MakePlan
  <2>2. /\ rewritten \in Texts /\ rewritten # Blank
        /\ payload.subs \in Seq(Texts \cup {Blank})
    BY <2>1 DEF PlanInv, Answers
  <2>3. CASE \E retrieve \in BOOLEAN :
               plan' = [rewritten |-> rewritten, subs |-> Distinct(rewritten, payload.subs),
                        hyde |-> IF question.hyde /\ rewritten \in Abstract THEN payload.hyde ELSE Blank,
                        retrieve |-> retrieve, foreign |-> payload.foreign,
                        filter |-> Extracted, degraded |-> FALSE]
    <3>1. Apart(rewritten, Distinct(rewritten, payload.subs))
      BY <2>2, DistinctApart
    <3> HIDE DEF rewritten
    <3>2. /\ plan'.rewritten = rewritten /\ plan'.subs = Distinct(rewritten, payload.subs)
          /\ plan'.filter = Extracted /\ ~plan'.degraded
      BY <2>3
    <3>3. Extracted' = Extracted
      BY <2>1 DEF Extracted
    <3>4. Made'
      BY <2>2, <3>1, <3>2, <3>3 DEF Made
    <3> QED BY <2>1, <3>4 DEF PlanInv
  <2>4. CASE plan' = Fallback
    BY <2>1, <2>4 DEF PlanInv, Made, Fallback
  <2> QED BY <1>2, <2>3, <2>4 DEF MakePlan
<1>3. CASE MergeFilters
  <2>1. /\ planning = "merge" /\ merged' = Narrowed(question.own, plan.filter) /\ planning' = "done"
        /\ UNCHANGED <<question, payload, plan>>
    BY <1>3 DEF MergeFilters
  <2>2. Made'
    BY <2>1 DEF PlanInv, Made, Fallback, Extracted
  <2>3. merged' = Narrowed(question'.own, plan'.filter)
    BY <2>1
  <2> QED BY <2>1, <2>2, <2>3 DEF PlanInv
<1>4. CASE UNCHANGED planVars
  BY <1>4 DEF planVars, PlanInv, Made, Fallback, Extracted
<1> QED BY <1>1, <1>2, <1>3, <1>4 DEF PlanNext

LEMMA PlanFollows == PlanInv => PlanIsFaithful
<1> SUFFICES ASSUME PlanInv PROVE PlanIsFaithful
  OBVIOUS
<1>1. plan = Fallback => /\ plan.rewritten = question.message /\ plan.subs = <<>> /\ ~plan.foreign
                         /\ plan.retrieve = (question.message # Blank) /\ plan.filter = Unbounded
                         /\ plan.degraded
  BY DEF Fallback
<1>2. plan.degraded => plan = Fallback
  BY DEF PlanInv, Made
<1>3. DegradedPlanIsNeutral
  BY <1>1, <1>2 DEF DegradedPlanIsNeutral
<1>4. QueriesAreDistinct
  <2> SUFFICES ASSUME planning = "done"
               PROVE  /\ question.message # Blank => Queries # <<>>
                      /\ Len(Queries) <= 1 + Room
                      /\ \A i, j \in DOMAIN Queries :
                           Queries[i] # Blank /\ (i # j => Folded(Queries[i]) # Folded(Queries[j]))
    BY RoomIsMax DEF QueriesAreDistinct
  <2>1. CASE plan = Fallback /\ question.message = Blank
    BY <1>1, <2>1, RoomIsMax DEF Queries
  <2>2. CASE plan = Fallback /\ question.message # Blank
    <3>1. Queries = <<question.message>>
      <4>1. \A text : <<text>> \o <<>> = <<text>>
        OBVIOUS
      <4> QED BY <1>1, <2>2, <4>1 DEF Queries
    <3> QED BY <2>2, <3>1, RoomIsMax
  <2>3. CASE plan # Fallback
    <3> DEFINE n == Len(plan.subs)
    <3>1. plan.rewritten \in Texts /\ plan.rewritten # Blank /\ Apart(plan.rewritten, plan.subs)
      BY <2>3 DEF PlanInv, Made
    <3>2. plan.subs \in Seq(Texts) /\ n \in Nat /\ n <= Room /\ Room \in Nat
      BY <3>1, RoomIsMax DEF Apart
    <3>3. Queries = <<plan.rewritten>> \o plan.subs
      BY <3>1 DEF Queries
    <3>4. /\ Len(Queries) = 1 + n /\ DOMAIN Queries = 1..1 + n /\ Queries[1] = plan.rewritten
          /\ \A i \in 1..n : Queries[i + 1] = plan.subs[i]
      BY <3>1, <3>2, <3>3
    <3>5. \A i \in 1..1 + n : i = 1 \/ (i - 1 \in 1..n /\ Queries[i] = plan.subs[i - 1])
      BY <3>2, <3>4
    <3>6. \A i \in 1..n : plan.subs[i] # Blank /\ Folded(plan.subs[i]) # Folded(plan.rewritten)
      BY <3>1 DEF Apart
    <3>7. \A i, j \in 1..n : i # j => Folded(plan.subs[i]) # Folded(plan.subs[j])
      BY <3>1 DEF Apart
    <3> HIDE DEF n
    <3>8. ASSUME NEW i \in 1..1 + n, NEW j \in 1..1 + n, i # j PROVE Folded(Queries[i]) # Folded(Queries[j])
      <4>1. CASE i = 1
        <5>1. j - 1 \in 1..n /\ Queries[j] = plan.subs[j - 1]
          BY <3>5, <3>8, <4>1
        <5>2. Queries[i] = plan.rewritten
          BY <3>4, <4>1
        <5> QED BY <3>6, <5>1, <5>2
      <4>2. CASE j = 1
        <5>1. i - 1 \in 1..n /\ Queries[i] = plan.subs[i - 1]
          BY <3>5, <3>8, <4>2
        <5>2. Queries[j] = plan.rewritten
          BY <3>4, <4>2
        <5> QED BY <3>6, <5>1, <5>2
      <4>3. CASE i # 1 /\ j # 1
        <5>1. i - 1 \in 1..n /\ Queries[i] = plan.subs[i - 1]
          BY <3>5, <4>3
        <5>2. j - 1 \in 1..n /\ Queries[j] = plan.subs[j - 1]
          BY <3>5, <4>3
        <5>3. i - 1 # j - 1
          BY <3>2, <3>8
        <5> QED BY <3>7, <5>1, <5>2, <5>3
      <4> QED BY <4>1, <4>2, <4>3
    <3>9. Queries # <<>> /\ Len(Queries) <= 1 + Room
      BY <3>2, <3>4
    <3> QED BY <3>1, <3>4, <3>5, <3>6, <3>8, <3>9
  <2> QED BY <2>1, <2>2, <2>3
<1>5. CallersRangeStands
  <2> SUFFICES ASSUME planning = "done"
               PROVE  /\ ~Crossed(merged) /\ question.own.from <= merged.from
                      /\ question.own.to # -1 => merged.to # -1 /\ merged.to <= question.own.to
    BY DEF CallersRangeStands
  <2>1. question.own \in Ranges /\ ~Crossed(question.own)
    BY PlanAssumption DEF PlanInv
  <2>2. plan.filter \in Ranges /\ ~Crossed(plan.filter)
    <3>1. Unbounded \in Ranges /\ ~Crossed(Unbounded)
      BY DEF Unbounded, Ranges, Crossed
    <3> QED BY <1>1, <3>1, ExtractedRange DEF PlanInv, Made
  <2>3. merged = Narrowed(question.own, plan.filter)
    BY DEF PlanInv
  <2> QED BY <2>1, <2>2, <2>3, NarrowedStands
<1>6. PeriodIsCovered
  <2> DEFINE last == CASE payload.to.unit = "year"  -> (payload.to.n + 1) * YearLength - 1
                       [] payload.to.unit = "month" -> (payload.to.n + 1) * MonthLength - 1
                       [] OTHER -> -1
  <2> SUFFICES ASSUME planning = "merge", ~plan.degraded, plan.filter.to # -1 PROVE last <= plan.filter.to
    BY DEF PeriodIsCovered
  <2>1. plan.filter = Extracted /\ payload \in Answers /\ payload.to \in Periods
    BY <1>1 DEF PlanInv, Made, Answers
  <2>2. plan.filter.to = Parsed(payload.to, TRUE) /\ Parsed(payload.to, TRUE) \in Nat \cup {-1}
    BY <2>1, ExtractedRange, ParsedCovers
  <2>3. CASE payload.to.unit = "year"
    BY <2>1, <2>2, <2>3, ParsedCovers
  <2>4. CASE payload.to.unit = "month"
    BY <2>1, <2>2, <2>4, ParsedCovers
  <2>5. CASE payload.to.unit # "year" /\ payload.to.unit # "month"
    <3>1. last = -1
      BY <2>5
    <3>2. plan.filter.to \in Nat
      BY <2>2
    <3> HIDE DEF last
    <3> QED BY <3>1, <3>2
  <2> QED BY <2>3, <2>4, <2>5
<1> QED BY <1>3, <1>4, <1>5, <1>6 DEF PlanIsFaithful

(* Whatever the model answers, and whatever the limits, the plan asks what the user asked, no
   question twice, and searches within the dates the caller allowed. *)
THEOREM PlanFaithful == PlanSpec => []PlanIsFaithful
  BY PlanInitInv, PlanNextInv, PlanFollows, PTL DEF PlanSpec
-----------------------------------------------------------------------------
(* Sources that disagree. *)

Bases == {"effective", "modified", "authority", "recency", "indeterminate"}

\* A conflict that was found.
FoundType == [won : [current : Places, superseded : Places, basis : Bases, stale : BOOLEAN],
              confidence : Int, by : {"llm", "heuristic"}]

\* Two passages of different documents, in the order of the evidence.
TwoDocuments(p) == p \in Places \X Places /\ p[1] < p[2] /\ Of(p[1]).doc # Of(p[2]).doc

Sides(c) == {c.won.current, c.won.superseded}

(* What is judged is two passages of different documents, and a conflict is what resolve_conflict
   says of one such pair; no pair is judged twice, because none is asked for twice. *)
PairsJudged ==
    /\ asking \in Seq(Places \X Places) /\ conflicts \in Seq(FoundType)
    /\ \A n \in DOMAIN asking : TwoDocuments(asking[n])
    /\ \A m, n \in DOMAIN asking : asking[m] = asking[n] => m = n
    /\ \A n \in DOMAIN conflicts : \E p \in Places \X Places :
         TwoDocuments(p) /\ conflicts[n].won = Resolved(p[1], p[2])
    /\ \A n \in DOMAIN conflicts : \A m \in DOMAIN asking :
         Sides(conflicts[n]) # {asking[m][1], asking[m][2]}
    /\ \A m, n \in DOMAIN conflicts : Sides(conflicts[m]) = Sides(conflicts[n]) => m = n
    /\ checking = "cluster" => asking = <<>> /\ conflicts = <<>>

(* A note is about a conflict, by the places of its sides among the sources. *)
NotesRight ==
    /\ checking # "done" => sources = WholePool
    /\ checking \in {"cluster", "judge"} => notes = {}
    /\ \A note \in notes :
            /\ {note.current, note.superseded} \subseteq DOMAIN sources
            /\ \E n \in DOMAIN conflicts :
                 /\ conflicts[n].won.current = sources[note.current]
                 /\ conflicts[n].won.superseded = sources[note.superseded]

ConflictInv ==
    /\ ConflictTypeOK /\ evidence.passages \in Pools /\ PairsJudged /\ NotesRight

LEMMA PoolFacts ==
    ASSUME evidence.passages \in Pools
    PROVE  /\ Len(evidence.passages) \in Nat /\ Places = 1..Len(evidence.passages)
           /\ \A i \in Places : /\ Of(i).score \in Int /\ Of(i).effective \in Int /\ Of(i).modified \in Int
                                /\ Of(i).created \in Int /\ Of(i).authority \in Int
BY ConflictAssumption DEF ConflictAssumption, Places, Of

(* Which side wins. *)

\* resolve_conflict names the two sides, and on which basis the one is before the other.
LEMMA ResolvedFacts ==
    ASSUME evidence.passages \in Pools, NEW i \in Places, NEW j \in Places
    PROVE  LET w == Resolved(i, j)
               c == Of(w.current)  s == Of(w.superseded) IN
           /\ w \in [current : Places, superseded : Places, basis : Bases, stale : BOOLEAN]
           /\ {w.current, w.superseded} = {i, j}
           /\ c.effective # None /\ s.effective # None => c.effective >= s.effective
           /\ \/ c.effective # None /\ s.effective # None /\ c.effective # s.effective
              \/ c.modified = None \/ s.modified = None \/ c.modified >= s.modified
           /\ w.basis = "effective" => c.effective > s.effective
           /\ w.basis = "modified"  => c.modified > s.modified
           /\ w.basis = "authority" => c.authority > s.authority
           /\ w.basis = "recency"   => Recency(c) > Recency(s)
           /\ w.basis = "indeterminate" => w.current = i /\ w.superseded = j
<1> DEFINE l == Of(i)
           r == Of(j)
           Tells(f) == l[f] # None /\ r[f] # None /\ l[f] # r[f]
           Later(f) == IF l[f] > r[f] THEN Won(i, j, f, l[f] - r[f]) ELSE Won(j, i, f, r[f] - l[f])
<1>1. /\ l.effective \in Int /\ l.modified \in Int /\ l.created \in Int /\ l.authority \in Int
      /\ r.effective \in Int /\ r.modified \in Int /\ r.created \in Int /\ r.authority \in Int
      /\ None \in Int
  BY PoolFacts DEF None
<1>2. Recency(l) \in Int /\ Recency(r) \in Int
  BY <1>1 DEF Recency
<1>3. Resolved(i, j) = IF Tells("effective") THEN Later("effective")
        ELSE IF Tells("modified") THEN Later("modified")
        ELSE IF l.authority # r.authority
             THEN IF l.authority > r.authority THEN Won(i, j, "authority", None)
                  ELSE Won(j, i, "authority", None)
        ELSE IF Recency(l) > Recency(r) THEN Won(i, j, "recency", Recency(l) - Recency(r))
        ELSE IF Recency(r) > Recency(l) THEN Won(j, i, "recency", Recency(r) - Recency(l))
        ELSE Won(i, j, "indeterminate", None)
  BY DEF Resolved
<1>4. \A b \in Bases : \A gap : \A x, y \in Places :
        /\ Won(x, y, b, gap) \in [current : Places, superseded : Places, basis : Bases, stale : BOOLEAN]
        /\ Won(x, y, b, gap).current = x /\ Won(x, y, b, gap).superseded = y
        /\ Won(x, y, b, gap).basis = b
  BY DEF Won
<1>5. "effective" \in Bases /\ "modified" \in Bases /\ "authority" \in Bases /\ "recency" \in Bases
      /\ "indeterminate" \in Bases
  BY DEF Bases
<1> DEFINE Right(w) ==
           LET c == Of(w.current)  s == Of(w.superseded) IN
           /\ w \in [current : Places, superseded : Places, basis : Bases, stale : BOOLEAN]
           /\ {w.current, w.superseded} = {i, j}
           /\ c.effective # None /\ s.effective # None => c.effective >= s.effective
           /\ \/ c.effective # None /\ s.effective # None /\ c.effective # s.effective
              \/ c.modified = None \/ s.modified = None \/ c.modified >= s.modified
           /\ w.basis = "effective" => c.effective > s.effective
           /\ w.basis = "modified"  => c.modified > s.modified
           /\ w.basis = "authority" => c.authority > s.authority
           /\ w.basis = "recency"   => Recency(c) > Recency(s)
           /\ w.basis = "indeterminate" => w.current = i /\ w.superseded = j
<1> SUFFICES Right(Resolved(i, j))
  OBVIOUS
<1>6. CASE Tells("effective")
  <2>1. CASE l.effective > r.effective
    <3>1. PICK w : w = Won(i, j, "effective", l.effective - r.effective)
      OBVIOUS
    <3>2. Resolved(i, j) = w
      BY <1>3, <1>6, <2>1, <3>1
    <3>3. /\ w \in [current : Places, superseded : Places, basis : Bases, stale : BOOLEAN]
          /\ w.current = i /\ w.superseded = j /\ w.basis = "effective"
      BY <1>4, <1>5, <3>1
    <3>4. {w.current, w.superseded} = {i, j}
      BY <3>3
    <3> QED
      BY <1>1, <1>6, <2>1, <3>2, <3>3, <3>4
  <2>2. CASE ~(l.effective > r.effective)
    <3>1. PICK w : w = Won(j, i, "effective", r.effective - l.effective)
      OBVIOUS
    <3>2. Resolved(i, j) = w
      BY <1>3, <1>6, <2>2, <3>1
    <3>3. /\ w \in [current : Places, superseded : Places, basis : Bases, stale : BOOLEAN]
          /\ w.current = j /\ w.superseded = i /\ w.basis = "effective"
      BY <1>4, <1>5, <3>1
    <3>4. {w.current, w.superseded} = {i, j}
      BY <3>3
    <3> QED
      BY <1>1, <1>6, <2>2, <3>2, <3>3, <3>4
  <2> QED
    BY <2>1, <2>2
<1>7. CASE ~Tells("effective") /\ Tells("modified")
  <2>1. CASE l.modified > r.modified
    <3>1. PICK w : w = Won(i, j, "modified", l.modified - r.modified)
      OBVIOUS
    <3>2. Resolved(i, j) = w
      BY <1>3, <1>7, <2>1, <3>1
    <3>3. /\ w \in [current : Places, superseded : Places, basis : Bases, stale : BOOLEAN]
          /\ w.current = i /\ w.superseded = j /\ w.basis = "modified"
      BY <1>4, <1>5, <3>1
    <3>4. {w.current, w.superseded} = {i, j}
      BY <3>3
    <3> QED
      BY <1>1, <1>7, <2>1, <3>2, <3>3, <3>4
  <2>2. CASE ~(l.modified > r.modified)
    <3>1. PICK w : w = Won(j, i, "modified", r.modified - l.modified)
      OBVIOUS
    <3>2. Resolved(i, j) = w
      BY <1>3, <1>7, <2>2, <3>1
    <3>3. /\ w \in [current : Places, superseded : Places, basis : Bases, stale : BOOLEAN]
          /\ w.current = j /\ w.superseded = i /\ w.basis = "modified"
      BY <1>4, <1>5, <3>1
    <3>4. {w.current, w.superseded} = {i, j}
      BY <3>3
    <3> QED
      BY <1>1, <1>7, <2>2, <3>2, <3>3, <3>4
  <2> QED
    BY <2>1, <2>2
<1>8. CASE ~Tells("effective") /\ ~Tells("modified") /\ l.authority # r.authority
  <2>1. CASE l.authority > r.authority
    <3>1. PICK w : w = Won(i, j, "authority", None)
      OBVIOUS
    <3>2. Resolved(i, j) = w
      BY <1>3, <1>8, <2>1, <3>1
    <3>3. /\ w \in [current : Places, superseded : Places, basis : Bases, stale : BOOLEAN]
          /\ w.current = i /\ w.superseded = j /\ w.basis = "authority"
      BY <1>4, <1>5, <3>1
    <3>4. {w.current, w.superseded} = {i, j}
      BY <3>3
    <3> QED
      BY <1>1, <1>8, <2>1, <3>2, <3>3, <3>4
  <2>2. CASE ~(l.authority > r.authority)
    <3>1. PICK w : w = Won(j, i, "authority", None)
      OBVIOUS
    <3>2. Resolved(i, j) = w
      BY <1>3, <1>8, <2>2, <3>1
    <3>3. /\ w \in [current : Places, superseded : Places, basis : Bases, stale : BOOLEAN]
          /\ w.current = j /\ w.superseded = i /\ w.basis = "authority"
      BY <1>4, <1>5, <3>1
    <3>4. {w.current, w.superseded} = {i, j}
      BY <3>3
    <3> QED
      BY <1>1, <1>8, <2>2, <3>2, <3>3, <3>4
  <2> QED
    BY <2>1, <2>2
<1>9. CASE ~Tells("effective") /\ ~Tells("modified") /\ l.authority = r.authority
  <2>1. CASE Recency(l) > Recency(r)
    <3>1. PICK w : w = Won(i, j, "recency", Recency(l) - Recency(r))
      OBVIOUS
    <3>2. Resolved(i, j) = w
      BY <1>3, <1>9, <2>1, <3>1
    <3>3. /\ w \in [current : Places, superseded : Places, basis : Bases, stale : BOOLEAN]
          /\ w.current = i /\ w.superseded = j /\ w.basis = "recency"
      BY <1>4, <1>5, <3>1
    <3>4. {w.current, w.superseded} = {i, j}
      BY <3>3
    <3>5. Of(w.current) = l /\ Of(w.superseded) = r
      BY <3>3
    <3>6. l.effective # None /\ r.effective # None => l.effective >= r.effective
      BY <1>1, <1>9
    <3>7. \/ l.effective # None /\ r.effective # None /\ l.effective # r.effective
          \/ l.modified = None \/ r.modified = None \/ l.modified >= r.modified
      BY <1>1, <1>9
    <3> QED
      BY <2>1, <3>2, <3>3, <3>4, <3>5, <3>6, <3>7
  <2>2. CASE Recency(r) > Recency(l)
    <3>0. ~(Recency(l) > Recency(r))
      BY <1>2, <2>2
    <3>1. PICK w : w = Won(j, i, "recency", Recency(r) - Recency(l))
      OBVIOUS
    <3>2. Resolved(i, j) = w
      BY <1>3, <1>9, <2>2, <3>0, <3>1
    <3>3. /\ w \in [current : Places, superseded : Places, basis : Bases, stale : BOOLEAN]
          /\ w.current = j /\ w.superseded = i /\ w.basis = "recency"
      BY <1>4, <1>5, <3>1
    <3>4. {w.current, w.superseded} = {i, j}
      BY <3>3
    <3> QED
      BY <1>1, <1>2, <1>9, <2>2, <3>2, <3>3, <3>4
  <2>3. CASE ~(Recency(l) > Recency(r)) /\ ~(Recency(r) > Recency(l))
    <3>1. PICK w : w = Won(i, j, "indeterminate", None)
      OBVIOUS
    <3>2. Resolved(i, j) = w
      BY <1>3, <1>9, <2>3, <3>1
    <3>3. /\ w \in [current : Places, superseded : Places, basis : Bases, stale : BOOLEAN]
          /\ w.current = i /\ w.superseded = j /\ w.basis = "indeterminate"
      BY <1>4, <1>5, <3>1
    <3>4. {w.current, w.superseded} = {i, j}
      BY <3>3
    <3> QED
      BY <1>1, <1>2, <1>9, <2>3, <3>2, <3>3, <3>4
  <2> QED
    BY <2>1, <2>2, <2>3
<1> QED
  BY <1>6, <1>7, <1>8, <1>9

\* The verdict on two passages names both.
LEMMA BothSides ==
    ASSUME evidence.passages \in Pools, NEW i \in Places, NEW j \in Places
    PROVE  {Resolved(i, j).current, Resolved(i, j).superseded} = {i, j}
BY ResolvedFacts

\* The order of the two does not matter, unless nothing tells them apart.
LEMMA ResolvedEitherWay ==
    ASSUME evidence.passages \in Pools, NEW i \in Places, NEW j \in Places
    PROVE  \/ Resolved(i, j) = Resolved(j, i)
           \/ Resolved(i, j).basis = "indeterminate" /\ Resolved(j, i).basis = "indeterminate"
<1> DEFINE l == Of(i)
           r == Of(j)
<1>1. /\ l.effective \in Int /\ l.modified \in Int /\ l.created \in Int /\ l.authority \in Int
      /\ r.effective \in Int /\ r.modified \in Int /\ r.created \in Int /\ r.authority \in Int
  BY PoolFacts
<1>2. Recency(l) \in Int /\ Recency(r) \in Int
  BY <1>1 DEF Recency, None
<1>3. \A x, y, b, gap : Won(x, y, b, gap).basis = b
  BY DEF Won
<1> QED
  BY <1>1, <1>2, <1>3 DEF Resolved

(* The pairs that are judged. *)

\* A cluster is made of passages.
LEMMA ClusterPlaces ==
    ASSUME evidence.passages \in Pools, NEW i \in Places
    PROVE  Cluster(i) \in SUBSET Places
<1> DEFINE n == Len(evidence.passages)
           V == SUBSET Places
           Next1(c) == c \cup {j \in Places : \E k \in c : j # k /\ Similar(j, k) >= Alike}
           step == [m \in 1..n |-> [c \in V |-> Next1(c)]]
           Grow == CHOOSE Grow : Grow = [m \in 0..n |-> IF m = 0 THEN {i} ELSE
                     Grow[m - 1] \cup {j \in Places : \E k \in Grow[m - 1] : j # k /\ Similar(j, k) >= Alike}]
<1>1. n \in Nat
  BY PoolFacts
<1>2. step \in StepsOf(n, V) /\ {i} \in V
  BY DEF StepsOf
<1>3. PICK f \in [0..n -> V] : f[0] = {i} /\ \A m \in 1..n : f[m] = step[m][f[m - 1]]
  <2> HIDE DEF step, V, n
  <2>1. PICK b \in V : b = {i}
    BY <1>2
  <2>2. \E f \in [0..n -> V] : f[0] = b /\ \A m \in 1..n : f[m] = step[m][f[m - 1]]
    BY <1>1, <1>2, <2>1, Recursion, Z3
  <2> QED
    BY <2>1, <2>2
<1>4. ASSUME NEW m \in 1..n PROVE f[m] = Next1(f[m - 1])
  <2>1. m - 1 \in 0..n
    BY <1>1
  <2>2. f[m - 1] \in V
    BY <1>3, <2>1
  <2> HIDE DEF V, Next1
  <2>3. step[m][f[m - 1]] = Next1(f[m - 1])
    BY <2>2
  <2> QED
    BY <1>3, <2>3
<1>5. f = [m \in 0..n |-> IF m = 0 THEN {i} ELSE
             f[m - 1] \cup {j \in Places : \E k \in f[m - 1] : j # k /\ Similar(j, k) >= Alike}]
  <2>1. f = [m \in 0..n |-> f[m]]
    BY <1>3
  <2>2. \A m \in 0..n : f[m] = IF m = 0 THEN {i} ELSE
             f[m - 1] \cup {j \in Places : \E k \in f[m - 1] : j # k /\ Similar(j, k) >= Alike}
    <3>1. \A m \in 0..n : m = 0 \/ m \in 1..n
      BY <1>1
    <3> QED
      BY <1>1, <1>3, <1>4, <3>1
  <2> QED
    BY <2>1, <2>2
<1>6. Grow = [m \in 0..n |-> IF m = 0 THEN {i} ELSE
             Grow[m - 1] \cup {j \in Places : \E k \in Grow[m - 1] : j # k /\ Similar(j, k) >= Alike}]
  BY <1>5
<1>7. Cluster(i) = Grow[n]
  BY DEF Cluster
<1> HIDE DEF Grow
<1> DEFINE S == {m \in Nat : m <= n => Grow[m] \in V}
<1>8. 0 \in S
  BY <1>1, <1>6
<1>9. ASSUME NEW m \in Nat, m \in S PROVE m + 1 \in S
  <2> SUFFICES ASSUME m + 1 <= n PROVE Grow[m + 1] \in V
    OBVIOUS
  <2>1. Grow[m] \in V /\ m + 1 \in 0..n /\ m + 1 # 0 /\ m + 1 - 1 = m
    BY <1>1, <1>9
  <2> DEFINE k == m + 1
  <2>2. k \in 0..n /\ k # 0 /\ k - 1 = m
    BY <2>1
  <2> HIDE DEF k
  <2>3. Grow[k] = Next1(Grow[k - 1])
    BY <1>6, <2>2
  <2>4. Grow[m + 1] = Next1(Grow[m])
    BY <2>2, <2>3 DEF k
  <2> QED
    BY <2>1, <2>4
<1> HIDE DEF S
<1>10. S = Nat
  <2>1. S \in SUBSET Nat
    BY DEF S
  <2> QED
    BY <1>8, <1>9, <2>1, SetInduction
<1>11. n \in S
  BY <1>1, <1>10
<1> QED
  BY <1>1, <1>7, <1>11 DEF S

\* The nested loops meet each pair of a set once.
LEMMA OrderedFacts ==
    ASSUME evidence.passages \in Pools, NEW pairs \in SUBSET (Places \X Places)
    PROVE  /\ IsFiniteSet(pairs) /\ Ordered(pairs) \in Seq(pairs)
           /\ Lists(Ordered(pairs), pairs, Lexical(pairs))
<1>1. IsFiniteSet(Places \X Places)
  <2> DEFINE n == Len(evidence.passages)
  <2>1. Places = 1..n /\ n \in Nat
    BY PoolFacts
  <2>2. IsFiniteSet(Places)
    BY <2>1, FS_Interval
  <2> QED
    BY <2>2, FS_Product
<1>2. IsFiniteSet(pairs)
  BY <1>1, FS_Subset
<1>3. TotalOrder(Lexical(pairs), pairs)
  <2>1. \A p \in pairs : p[1] \in Int /\ p[2] \in Int /\ p = <<p[1], p[2]>>
    BY PoolFacts
  <2> DEFINE Before(p, q) == p[1] < q[1] \/ (p[1] = q[1] /\ p[2] < q[2])
  <2>2. \A p, q \in pairs : <<p, q>> \in Lexical(pairs) <=> Before(p, q)
    BY DEF Lexical
  <2>3. \A p \in pairs : ~Before(p, p)
    BY <2>1
  <2>4. ASSUME NEW p \in pairs, NEW q \in pairs, p # q PROVE Before(p, q) \/ Before(q, p)
    <3>1. p[1] # q[1] \/ p[2] # q[2]
      BY <2>1, <2>4
    <3> QED
      BY <2>1, <3>1
  <2>5. \A p, q, r \in pairs : Before(p, q) /\ Before(q, r) => Before(p, r)
    BY <2>1
  <2> HIDE DEF Before
  <2> QED
    BY <2>2, <2>3, <2>4, <2>5 DEF TotalOrder
<1> QED
  BY <1>2, <1>3, SortedFacts DEF Ordered

\* What is put to the judge: pairs of passages of different documents, each once.
LEMMA CandidatesFacts ==
    ASSUME evidence.passages \in Pools
    PROVE  /\ Candidates \in Seq(Places \X Places)
           /\ \A n \in DOMAIN Candidates : TwoDocuments(Candidates[n])
           /\ \A m, n \in DOMAIN Candidates : Candidates[m] = Candidates[n] => m = n
<1> DEFINE PP == PairsOf(Places)
           lists == [c \in DOMAIN Counted |-> Ordered(PairsOf(Counted[c]))]
           met == FlattenSeq(lists) \o Ordered(HalfAlike)
           found == Picked(met, Added(met))
           worth == [n \in DOMAIN found |-> Of(found[n][1]).score + Of(found[n][2]).score]
           order == Sorted(DOMAIN found, Descending(DOMAIN found, worth))
<1>0. PP \in SUBSET (Places \X Places) /\ \A p \in PP : p[1] < p[2]
  BY DEF PairsOf
<1>1. Counted \in Seq(SUBSET Places)
  <2>1. Roots \in SUBSET Places
    BY DEF Roots
  <2>2. IsFiniteSet(Roots) /\ TotalOrder(Descending(Roots, [i \in Roots |-> Cardinality(Cluster(i))]), Roots)
    <3> DEFINE n == Len(evidence.passages)
    <3>1. n \in Nat /\ Places = 1..n
      BY PoolFacts
    <3>2. \A i \in Roots : Cluster(i) \in SUBSET (1..n)
      BY <2>1, <3>1, ClusterPlaces
    <3>3. Roots \in SUBSET (1..n) /\ Roots \in SUBSET Int
      BY <2>1, <3>1
    <3> HIDE DEF n
    <3>4. \A i \in Roots : Cardinality(Cluster(i)) \in Int
      <4>1. \A i \in Roots : Cardinality(Cluster(i)) \in Nat
        BY <3>1, <3>2, PlacesFinite
      <4> QED
        BY <4>1
    <3>5. \A i \in Roots : [k \in Roots |-> Cardinality(Cluster(k))][i] \in Int
      BY <3>4
    <3>6. TotalOrder(Descending(Roots, [i \in Roots |-> Cardinality(Cluster(i))]), Roots)
      BY <3>3, <3>5, DescendingTotal
    <3>7. IsFiniteSet(Roots)
      BY <3>1, <3>3, PlacesFinite
    <3> QED
      BY <3>6, <3>7
  <2>3. PICK roots \in Seq(Roots) : Clusters = [k \in DOMAIN roots |-> Cluster(roots[k])]
    BY <2>2, SortedFacts DEF Clusters
  <2>4. \A k \in DOMAIN roots : Cluster(roots[k]) \in SUBSET Places
    BY <2>1, <2>3, ClusterPlaces
  <2>5. Clusters \in Seq(SUBSET Places)
    BY <2>3, <2>4
  <2>6. PICK m : m = Min({MaxClusters, Len(Clusters)})
    OBVIOUS
  <2>7. m \in Nat /\ m <= Len(Clusters)
    <3>1. Len(Clusters) \in Nat /\ MaxClusters \in Nat
      BY <2>5, ConflictAssumption DEF ConflictAssumption
    <3>2. \E x \in {MaxClusters, Len(Clusters)} : \A y \in {MaxClusters, Len(Clusters)} : x <= y
      BY <3>1
    <3>3. m \in {MaxClusters, Len(Clusters)} /\ \A y \in {MaxClusters, Len(Clusters)} : m <= y
      BY <2>6, <3>2 DEF Min
    <3> QED
      BY <3>1, <3>3
  <2>8. SubSeq(Clusters, 1, m) \in Seq(SUBSET Places)
    BY <2>5, <2>7
  <2> QED
    BY <2>6, <2>8 DEF Counted
<1>2. FlattenSeq(lists) \in Seq(PP)
  <2>1. ASSUME NEW c \in DOMAIN Counted PROVE Ordered(PairsOf(Counted[c])) \in Seq(PP)
    <3>1. Counted[c] \in SUBSET Places
      BY <1>1
    <3>2. PairsOf(Counted[c]) \in SUBSET PP
      BY <3>1 DEF PairsOf
    <3>3. Ordered(PairsOf(Counted[c])) \in Seq(PairsOf(Counted[c]))
      BY <3>2, <1>0, OrderedFacts
    <3> HIDE DEF PP
    <3> QED
      BY <3>2, <3>3
  <2>2. lists \in Seq(Seq(PP))
    <3> HIDE DEF PP
    <3>1. DOMAIN Counted = 1..Len(Counted) /\ Len(Counted) \in Nat
      BY <1>1
    <3> QED
      BY <2>1, <3>1
  <2> HIDE DEF lists, PP
  <2> QED
    BY <2>2, FlatFacts
<1>3. Ordered(HalfAlike) \in Seq(PP)
  <2>1. HalfAlike \in SUBSET PP
    BY DEF HalfAlike
  <2>2. Ordered(HalfAlike) \in Seq(HalfAlike)
    BY <2>1, <1>0, OrderedFacts
  <2> HIDE DEF PP
  <2> QED
    BY <2>1, <2>2
<1>4. met \in Seq(PP)
  <2> HIDE DEF lists, PP
  <2> QED
    BY <1>2, <1>3
<1>5. Added(met) \in SUBSET DOMAIN met
  BY DEF Added
<1> HIDE DEF met
<1>6. PICK at \in [1..Cardinality(Added(met)) -> Added(met)] :
         /\ Lists(at, Added(met), Ascending(Added(met)))
         /\ found \in Seq(PP) /\ Cardinality(Added(met)) \in Nat /\ Len(found) = Cardinality(Added(met))
         /\ DOMAIN found = 1..Cardinality(Added(met))
         /\ \A k \in 1..Cardinality(Added(met)) : found[k] = met[at[k]]
  <2> HIDE DEF PP
  <2> QED
    BY <1>4, <1>5, PickedFacts
<1>7. \A n \in DOMAIN found : TwoDocuments(found[n])
  <2> SUFFICES ASSUME NEW n \in DOMAIN found PROVE TwoDocuments(found[n])
    OBVIOUS
  <2>1. at[n] \in Added(met) /\ found[n] = met[at[n]]
    BY <1>6
  <2>2. met[at[n]] \in PP
    BY <2>1, <1>4, <1>5
  <2> QED
    BY <2>1, <2>2, <1>0 DEF TwoDocuments, Added
<1>8. \A m, n \in DOMAIN found : found[m] = found[n] => m = n
  <2> SUFFICES ASSUME NEW m \in DOMAIN found, NEW n \in DOMAIN found, found[m] = found[n] PROVE m = n
    OBVIOUS
  <2>1. /\ at[n] \in Added(met) /\ found[n] = met[at[n]]
        /\ at[m] \in Added(met) /\ found[m] = met[at[m]]
    BY <1>6
  <2>2. at[n] \in Nat /\ at[m] \in Nat /\ at[n] >= 1 /\ at[m] >= 1
    BY <2>1, <1>4, <1>5
  <2>3. at[m] = at[n]
    <3>1. CASE at[m] < at[n]
      <4>1. at[m] \in 1..at[n] - 1
        BY <2>2, <3>1
      <4> QED
        BY <2>1, <4>1 DEF Added
    <3>2. CASE at[n] < at[m]
      <4>1. at[n] \in 1..at[m] - 1
        BY <2>2, <3>2
      <4> QED
        BY <2>1, <4>1 DEF Added
    <3> QED
      BY <2>2, <3>1, <3>2
  <2> QED
    BY <1>6, <2>3 DEF Lists
<1> HIDE DEF found
<1>9. /\ order \in Seq(DOMAIN found) /\ Lists(order, DOMAIN found, Descending(DOMAIN found, worth))
  <2> DEFINE n == Len(found)
  <2>1. n \in Nat /\ DOMAIN found = 1..n
    BY <1>6
  <2>2. \A i \in DOMAIN found : worth[i] \in Int
    <3> SUFFICES ASSUME NEW i \in DOMAIN found PROVE Of(found[i][1]).score + Of(found[i][2]).score \in Int
      OBVIOUS
    <3>1. found[i][1] \in Places /\ found[i][2] \in Places
      BY <1>7 DEF TwoDocuments
    <3>2. Of(found[i][1]).score \in Int /\ Of(found[i][2]).score \in Int
      BY <3>1, PoolFacts
    <3> QED
      BY <3>2
  <2> HIDE DEF worth, n
  <2>3. IsFiniteSet(DOMAIN found) /\ DOMAIN found \in SUBSET Int
    BY <2>1, PlacesFinite
  <2>4. TotalOrder(Descending(DOMAIN found, worth), DOMAIN found)
    BY <2>2, <2>3, DescendingTotal
  <2> QED
    BY <2>3, <2>4, SortedFacts
<1>10. Candidates = [n \in DOMAIN order |-> found[order[n]]]
  BY DEF Candidates, found, met
<1> HIDE DEF order
<1>11. /\ order \in [1..Cardinality(DOMAIN found) -> DOMAIN found]
       /\ \A k, l \in DOMAIN order : order[k] = order[l] => k = l
  BY <1>9 DEF Lists
<1>12. \A n \in DOMAIN order : TwoDocuments(found[order[n]])
  BY <1>7, <1>11
<1>13. Candidates \in Seq(Places \X Places)
  <2>1. \A n \in DOMAIN order : found[order[n]] \in Places \X Places
    BY <1>12 DEF TwoDocuments
  <2>2. DOMAIN order = 1..Len(order) /\ Len(order) \in Nat
    BY <1>9
  <2> QED
    BY <1>10, <2>1, <2>2
<1>14. ASSUME NEW m \in DOMAIN Candidates, NEW n \in DOMAIN Candidates, Candidates[m] = Candidates[n] PROVE m = n
  <2>1. m \in DOMAIN order /\ n \in DOMAIN order /\ found[order[m]] = found[order[n]]
    BY <1>10, <1>14
  <2> QED
    BY <2>1, <1>8, <1>11
<1> QED
  BY <1>10, <1>12, <1>13, <1>14

(* What holds of them. *)

LEMMA ConflictInitInv == ConflictInit => ConflictInv
<1> SUFFICES ASSUME ConflictInit PROVE ConflictInv
  OBVIOUS
<1>1. evidence.passages \in Pools /\ asking = <<>> /\ conflicts = <<>> /\ degraded = FALSE
      /\ sources = WholePool /\ notes = {} /\ checking = "cluster"
  BY DEF ConflictInit
<1>2. WholePool \in Seq(Places)
  BY <1>1, PoolFacts DEF WholePool, Places
<1>3. Len(asking) + Len(conflicts) <= MaxPairs
  BY <1>1, ConflictAssumption DEF ConflictAssumption
<1>4. ConflictTypeOK
  <2>1. degraded \in BOOLEAN
    BY <1>1
  <2>2. \A n \in DOMAIN asking : FALSE
    BY <1>1
  <2>3. sources \in Seq(Places)
    BY <1>1, <1>2
  <2> QED
    BY <1>1, <1>3, <2>1, <2>2, <2>3 DEF ConflictTypeOK
<1>5. PairsJudged
  BY <1>1 DEF PairsJudged
<1>6. NotesRight
  BY <1>1 DEF NotesRight
<1> QED
  BY <1>1, <1>4, <1>5, <1>6 DEF ConflictInv

LEMMA FindPairsKeeps == ConflictInv /\ FindPairs => ConflictInv'
<1> SUFFICES ASSUME ConflictInv, FindPairs PROVE ConflictInv'
  OBVIOUS
<1>1. /\ checking = "cluster" /\ checking' = "judge" /\ evidence' = evidence /\ conflicts' = conflicts
      /\ degraded' = degraded /\ sources' = sources /\ notes' = notes /\ Places' = Places
      /\ evidence.passages \in Pools /\ conflicts = <<>> /\ notes = {} /\ sources = WholePool
  BY DEF FindPairs, ConflictInv, PairsJudged, NotesRight, Places
<1>2. PICK found : found = Candidates
  OBVIOUS
<1>3. /\ found \in Seq(Places \X Places)
      /\ \A n \in DOMAIN found : TwoDocuments(found[n])
      /\ \A m, n \in DOMAIN found : found[m] = found[n] => m = n
  BY <1>1, <1>2, CandidatesFacts
<1>4. PICK m : m = Min({MaxPairs, Len(found)})
  OBVIOUS
<1>5. m \in Nat /\ m <= Len(found) /\ m <= MaxPairs
  <2>1. Len(found) \in Nat /\ MaxPairs \in Nat
    BY <1>3, ConflictAssumption DEF ConflictAssumption
  <2>2. \E x \in {MaxPairs, Len(found)} : \A y \in {MaxPairs, Len(found)} : x <= y
    BY <2>1
  <2>3. m \in {MaxPairs, Len(found)} /\ \A y \in {MaxPairs, Len(found)} : m <= y
    BY <1>4, <2>2 DEF Min
  <2> QED
    BY <2>1, <2>3
<1>6. asking' = <<>> \/ asking' = SubSeq(found, 1, m)
  BY <1>2, <1>4 DEF FindPairs
<1>7. /\ asking' \in Seq(Places \X Places) /\ Len(asking') <= MaxPairs
      /\ \A n \in DOMAIN asking' : n \in DOMAIN found /\ asking'[n] = found[n]
  <2>1. CASE asking' = <<>>
    BY <2>1, <1>5, ConflictAssumption DEF ConflictAssumption
  <2>2. CASE asking' = SubSeq(found, 1, m)
    <3>1. /\ SubSeq(found, 1, m) \in Seq(Places \X Places) /\ Len(SubSeq(found, 1, m)) = m
          /\ \A n \in 1..m : n \in DOMAIN found /\ SubSeq(found, 1, m)[n] = found[n]
      BY <1>3, <1>5
    <3> QED
      BY <2>2, <3>1, <1>5
  <2> QED
    BY <1>6, <2>1, <2>2
<1>8. \A n \in DOMAIN asking' : TwoDocuments(asking'[n])
  BY <1>3, <1>7
<1>9. \A k, n \in DOMAIN asking' : asking'[k] = asking'[n] => k = n
  BY <1>3, <1>7
<1>10. \A p : TwoDocuments(p)' <=> TwoDocuments(p)
  BY <1>1 DEF TwoDocuments, Places, Of
<1>11. PairsJudged'
  BY <1>1, <1>7, <1>8, <1>9, <1>10 DEF PairsJudged, FoundType
<1>12. ConflictTypeOK'
  <2>1. Len(asking') + Len(conflicts') <= MaxPairs
    BY <1>1, <1>7, ConflictAssumption DEF ConflictAssumption
  <2>2. \A n \in DOMAIN asking' : asking'[n] \in Places \X Places /\ asking'[n][1] < asking'[n][2]
    BY <1>8 DEF TwoDocuments
  <2> QED
    BY <1>1, <2>1, <2>2 DEF ConflictTypeOK, ConflictInv
<1>13. NotesRight'
  BY <1>1 DEF NotesRight, WholePool
<1> QED
  BY <1>1, <1>11, <1>12, <1>13 DEF ConflictInv

LEMMA JudgePairKeeps == ConflictInv /\ JudgePair => ConflictInv'
<1> SUFFICES ASSUME ConflictInv, JudgePair PROVE ConflictInv'
  OBVIOUS
<1>1. /\ checking = "judge" /\ checking' = "judge" /\ asking # <<>> /\ asking' = Tail(asking)
      /\ evidence' = evidence /\ sources' = sources /\ notes' = notes /\ Places' = Places
      /\ evidence.passages \in Pools /\ notes = {} /\ sources = WholePool
  BY DEF JudgePair, ConflictInv, NotesRight, Places
<1>2. /\ asking \in Seq(Places \X Places) /\ conflicts \in Seq(FoundType)
      /\ \A n \in DOMAIN asking : TwoDocuments(asking[n])
      /\ \A m, n \in DOMAIN asking : asking[m] = asking[n] => m = n
  BY DEF ConflictInv, PairsJudged
<1>3. PICK p : p = asking[1]
  OBVIOUS
<1>4. /\ TwoDocuments(p) /\ p[1] \in Places /\ p[2] \in Places /\ p = <<p[1], p[2]>> /\ Head(asking) = p
  BY <1>1, <1>2, <1>3 DEF TwoDocuments
<1>5. /\ asking' \in Seq(Places \X Places) /\ Len(asking') = Len(asking) - 1 /\ Len(asking) \in Nat
      /\ \A n \in DOMAIN asking' : n + 1 \in DOMAIN asking /\ n + 1 # 1 /\ asking'[n] = asking[n + 1]
  BY <1>1, <1>2
<1>6. \E c : /\ c \in FoundType /\ c.won = Resolved(p[1], p[2])
             /\ conflicts' = conflicts \/ conflicts' = Append(conflicts, c)
  <2>1. \A x \in Int, h \in {"llm", "heuristic"} :
          /\ [won |-> Resolved(p[1], p[2]), confidence |-> x, by |-> h] \in FoundType
          /\ [won |-> Resolved(p[1], p[2]), confidence |-> x, by |-> h].won = Resolved(p[1], p[2])
    <3>1. Resolved(p[1], p[2]) \in [current : Places, superseded : Places, basis : Bases, stale : BOOLEAN]
      BY <1>1, <1>4, ResolvedFacts
    <3> QED
      BY <3>1 DEF FoundType
  <2>2. \/ conflicts' = conflicts
        \/ \E x \in {50, 90, 75, 55}, h \in {"llm", "heuristic"} :
             conflicts' = Append(conflicts, [won |-> Resolved(p[1], p[2]), confidence |-> x, by |-> h])
    BY <1>4 DEF JudgePair
  <2>3. CASE conflicts' = conflicts
    <3>1. PICK c : c = [won |-> Resolved(p[1], p[2]), confidence |-> 50, by |-> "llm"]
      OBVIOUS
    <3>2. 50 \in Int /\ "llm" \in {"llm", "heuristic"}
      OBVIOUS
    <3>3. c \in FoundType /\ c.won = Resolved(p[1], p[2])
      BY <2>1, <3>1, <3>2
    <3> QED
      BY <2>3, <3>3
  <2>4. ASSUME NEW x \in {50, 90, 75, 55}, NEW h \in {"llm", "heuristic"},
               conflicts' = Append(conflicts, [won |-> Resolved(p[1], p[2]), confidence |-> x, by |-> h])
        PROVE  \E c : /\ c \in FoundType /\ c.won = Resolved(p[1], p[2])
                      /\ conflicts' = conflicts \/ conflicts' = Append(conflicts, c)
    <3>1. PICK c : c = [won |-> Resolved(p[1], p[2]), confidence |-> x, by |-> h]
      OBVIOUS
    <3>2. x \in Int
      OBVIOUS
    <3>3. c \in FoundType /\ c.won = Resolved(p[1], p[2])
      BY <2>1, <3>1, <3>2
    <3> QED
      BY <2>4, <3>1, <3>3
  <2> QED
    BY <2>2, <2>3, <2>4
<1>7. PICK c : /\ c \in FoundType /\ c.won = Resolved(p[1], p[2])
               /\ conflicts' = conflicts \/ conflicts' = Append(conflicts, c)
  BY <1>6
<1>8. Sides(c) = {p[1], p[2]}
  <2>1. PICK w : w = Resolved(p[1], p[2])
    OBVIOUS
  <2>2. {w.current, w.superseded} = {p[1], p[2]}
    <3>1. PICK i \in Places, j \in Places : i = p[1] /\ j = p[2]
      BY <1>4
    <3>2. w = Resolved(i, j)
      BY <2>1, <3>1
    <3> QED
      BY <1>1, <3>1, <3>2, BothSides
  <2> QED
    BY <1>7, <2>1, <2>2 DEF Sides
<1>9. \A q : TwoDocuments(q)' <=> TwoDocuments(q)
  BY <1>1 DEF TwoDocuments, Places, Of
<1>10. \A i, j : Resolved(i, j)' = Resolved(i, j)
  BY <1>1 DEF Resolved, Of, Recency, Won
<1>11. \A n \in DOMAIN conflicts' :
          \/ n \in DOMAIN conflicts /\ conflicts'[n] = conflicts[n]
          \/ n = Len(conflicts) + 1 /\ conflicts'[n] = c /\ conflicts' = Append(conflicts, c)
  <2>1. PICK k \in Nat : k = Len(conflicts) /\ DOMAIN conflicts = 1..k
    BY <1>2
  <2>2. CASE conflicts' = conflicts
    BY <2>2
  <2>3. CASE conflicts' = Append(conflicts, c)
    <3>1. /\ DOMAIN conflicts' = 1..k + 1 /\ conflicts'[k + 1] = c
          /\ \A n \in 1..k : conflicts'[n] = conflicts[n]
      BY <1>2, <1>7, <2>1, <2>3
    <3>2. \A n \in 1..k + 1 : n \in 1..k \/ n = k + 1
      BY <2>1
    <3> QED
      BY <2>1, <2>3, <3>1, <3>2
  <2> QED
    BY <1>7, <2>2, <2>3
<1>12. conflicts' \in Seq(FoundType) /\ Len(conflicts') <= Len(conflicts) + 1 /\ Len(conflicts) \in Nat /\ Len(conflicts') \in Nat
  BY <1>2, <1>7
<1>13. \A n \in DOMAIN asking : {asking[n][1], asking[n][2]} = {p[1], p[2]} => n = 1
  <2> SUFFICES ASSUME NEW n \in DOMAIN asking, {asking[n][1], asking[n][2]} = {p[1], p[2]} PROVE n = 1
    OBVIOUS
  <2>1. /\ asking[n] = <<asking[n][1], asking[n][2]>> /\ asking[n][1] < asking[n][2]
        /\ asking[n][1] \in Int /\ asking[n][2] \in Int
    <3>1. \A i \in Places : i \in Int
      BY <1>1, PoolFacts
    <3>2. TwoDocuments(asking[n]) /\ asking[n] \in Places \X Places
      BY <1>2
    <3> QED
      BY <3>1, <3>2 DEF TwoDocuments
  <2>2. p[1] < p[2] /\ p[1] \in Int /\ p[2] \in Int
    <3>1. \A i \in Places : i \in Int
      BY <1>1, PoolFacts
    <3> QED
      BY <1>4, <3>1 DEF TwoDocuments
  <2>3. asking[n][1] = p[1] /\ asking[n][2] = p[2]
    BY <2>1, <2>2
  <2>4. asking[n] = asking[1] /\ 1 \in DOMAIN asking
    BY <2>1, <2>3, <1>1, <1>2, <1>3, <1>4
  <2> QED
    BY <2>4, <1>2
<1>14. /\ \A n \in DOMAIN conflicts : \A m \in DOMAIN asking : Sides(conflicts[n]) # {asking[m][1], asking[m][2]}
       /\ \A m, n \in DOMAIN conflicts : Sides(conflicts[m]) = Sides(conflicts[n]) => m = n
       /\ \A n \in DOMAIN conflicts : \E q \in Places \X Places : TwoDocuments(q) /\ conflicts[n].won = Resolved(q[1], q[2])
  BY DEF ConflictInv, PairsJudged
<1>15. \A d : Sides(d)' = Sides(d)
  BY DEF Sides
<1>16. \A n \in DOMAIN conflicts' : \A m \in DOMAIN asking' : Sides(conflicts'[n]) # {asking'[m][1], asking'[m][2]}
  <2> SUFFICES ASSUME NEW n \in DOMAIN conflicts', NEW m \in DOMAIN asking'
               PROVE  Sides(conflicts'[n]) # {asking'[m][1], asking'[m][2]}
    OBVIOUS
  <2>1. m + 1 \in DOMAIN asking /\ m + 1 # 1 /\ asking'[m] = asking[m + 1]
    BY <1>5
  <2>2. CASE n \in DOMAIN conflicts /\ conflicts'[n] = conflicts[n]
    BY <2>1, <2>2, <1>14
  <2>3. CASE conflicts'[n] = c
    BY <2>1, <2>3, <1>8, <1>13
  <2> QED
    BY <1>11, <2>2, <2>3
<1>17. \A m, n \in DOMAIN conflicts' : Sides(conflicts'[m]) = Sides(conflicts'[n]) => m = n
  <2> SUFFICES ASSUME NEW m \in DOMAIN conflicts', NEW n \in DOMAIN conflicts', Sides(conflicts'[m]) = Sides(conflicts'[n])
               PROVE  m = n
    OBVIOUS
  <2>1. \A k \in DOMAIN conflicts : Sides(conflicts[k]) # Sides(c)
    <3>1. 1 \in DOMAIN asking /\ {asking[1][1], asking[1][2]} = Sides(c)
      BY <1>1, <1>2, <1>3, <1>8
    <3> QED
      BY <3>1, <1>14
  <2> QED
    BY <2>1, <1>11, <1>14
<1>18. \A n \in DOMAIN conflicts' : \E q \in Places \X Places : TwoDocuments(q) /\ conflicts'[n].won = Resolved(q[1], q[2])
  <2> SUFFICES ASSUME NEW n \in DOMAIN conflicts'
               PROVE  \E q \in Places \X Places : TwoDocuments(q) /\ conflicts'[n].won = Resolved(q[1], q[2])
    OBVIOUS
  <2>1. CASE n \in DOMAIN conflicts /\ conflicts'[n] = conflicts[n]
    BY <2>1, <1>14
  <2>2. CASE conflicts'[n] = c
    <3>1. p \in Places \X Places
      BY <1>4 DEF TwoDocuments
    <3> QED
      BY <2>2, <3>1, <1>4, <1>7
  <2> QED
    BY <1>11, <2>1, <2>2
<1>19. PairsJudged'
  <2>1. \A n \in DOMAIN asking' : TwoDocuments(asking[n])'
    <3>1. \A n \in DOMAIN asking' : TwoDocuments(asking'[n])
      BY <1>2, <1>5
    <3> QED
      BY <1>1, <3>1 DEF TwoDocuments, Of
  <2>2. \A m, n \in DOMAIN asking' : asking'[m] = asking'[n] => m = n
    <3> SUFFICES ASSUME NEW m \in DOMAIN asking', NEW n \in DOMAIN asking', asking'[m] = asking'[n] PROVE m = n
      OBVIOUS
    <3>1. m + 1 = n + 1 /\ m \in Int /\ n \in Int
      BY <1>2, <1>5
    <3> QED
      BY <3>1
  <2>3. \A n \in DOMAIN conflicts' : \E q \in Places' \X Places' : TwoDocuments(q)' /\ conflicts'[n].won = Resolved(q[1], q[2])'
    BY <1>1, <1>9, <1>10, <1>18
  <2>4. FoundType' = FoundType
    BY <1>1 DEF FoundType, Bases
  <2>5. checking' # "cluster"
    BY <1>1
  <2> QED
    BY <1>1, <1>5, <1>12, <1>15, <1>16, <1>17, <2>1, <2>2, <2>3, <2>4, <2>5 DEF PairsJudged
<1>20. ConflictTypeOK'
  <2>1. Len(asking') + Len(conflicts') <= MaxPairs
    <3>1. Len(asking) + Len(conflicts) <= MaxPairs
      BY DEF ConflictInv, ConflictTypeOK
    <3> QED
      BY <3>1, <1>5, <1>12, ConflictAssumption DEF ConflictAssumption
  <2>2. \A n \in DOMAIN asking' : asking'[n] \in Places \X Places /\ asking'[n][1] < asking'[n][2]
    BY <1>2, <1>5 DEF TwoDocuments
  <2>3. degraded' \in BOOLEAN
    <3>1. degraded \in BOOLEAN
      BY DEF ConflictInv, ConflictTypeOK
    <3>2. degraded' = degraded \/ degraded' = (degraded \/ evidence.model)
      BY DEF JudgePair
    <3>3. (degraded \/ evidence.model) \in BOOLEAN
      OBVIOUS
    <3> QED
      BY <3>1, <3>2, <3>3
  <2>4. sources' \in Seq(Places)
    BY <1>1 DEF ConflictInv, ConflictTypeOK
  <2> QED
    BY <1>1, <2>1, <2>2, <2>3, <2>4 DEF ConflictTypeOK
<1>21. NotesRight'
  BY <1>1 DEF NotesRight, WholePool
<1> QED
  BY <1>1, <1>19, <1>20, <1>21 DEF ConflictInv

\* The conflicts in another order.
LEMMA NoteConflictsKeeps == ConflictInv /\ NoteConflicts => ConflictInv'
<1> SUFFICES ASSUME ConflictInv, NoteConflicts PROVE ConflictInv'
  OBVIOUS
<1> DEFINE order == Sorted(DOMAIN conflicts,
                           Descending(DOMAIN conflicts, [n \in DOMAIN conflicts |-> conflicts[n].confidence]))
<1>1. /\ checking = "judge" /\ checking' = "assemble" /\ asking = <<>> /\ asking' = asking
      /\ evidence' = evidence /\ sources' = sources /\ degraded' = degraded /\ Places' = Places
      /\ conflicts' = [n \in DOMAIN order |-> conflicts[order[n]]]
      /\ notes' = Notes(ToSet(conflicts), [i \in Places |-> i])
      /\ evidence.passages \in Pools /\ sources = WholePool /\ conflicts \in Seq(FoundType)
  BY DEF NoteConflicts, ConflictInv, PairsJudged, NotesRight, Places
<1>2. /\ order \in Seq(DOMAIN conflicts) /\ Lists(order, DOMAIN conflicts, Descending(DOMAIN conflicts,
                                                     [n \in DOMAIN conflicts |-> conflicts[n].confidence]))
      /\ Cardinality(DOMAIN conflicts) = Len(conflicts)
  <2> DEFINE k == Len(conflicts)
  <2>1. k \in Nat /\ DOMAIN conflicts = 1..k
    BY <1>1
  <2>2. \A n \in DOMAIN conflicts : conflicts[n].confidence \in Int
    <3> SUFFICES ASSUME NEW n \in DOMAIN conflicts PROVE conflicts[n].confidence \in Int
      OBVIOUS
    <3>1. conflicts[n] \in FoundType
      BY <1>1
    <3> QED
      BY <3>1 DEF FoundType
  <2>3. \A n \in DOMAIN conflicts : [m \in DOMAIN conflicts |-> conflicts[m].confidence][n] \in Int
    BY <2>2
  <2> HIDE DEF k
  <2>4. IsFiniteSet(DOMAIN conflicts) /\ DOMAIN conflicts \in SUBSET Int
    BY <2>1, PlacesFinite
  <2>5. TotalOrder(Descending(DOMAIN conflicts, [n \in DOMAIN conflicts |-> conflicts[n].confidence]), DOMAIN conflicts)
    BY <2>3, <2>4, DescendingTotal
  <2>6. Cardinality(DOMAIN conflicts) = k
    <3>1. Cardinality(1..k) = IF 1 > k THEN 0 ELSE k - 1 + 1
      BY <2>1, FS_Interval
    <3> QED
      BY <2>1, <3>1
  <2> QED
    BY <2>4, <2>5, <2>6, SortedFacts DEF k
<1>3. /\ DOMAIN order = 1..Len(conflicts) /\ Len(conflicts) \in Nat
      /\ \A n \in DOMAIN order : order[n] \in DOMAIN conflicts
      /\ \A k \in DOMAIN conflicts : \E n \in DOMAIN order : order[n] = k
      /\ \A k, n \in DOMAIN order : order[k] = order[n] => k = n
  <2> DEFINE R == Descending(DOMAIN conflicts, [n \in DOMAIN conflicts |-> conflicts[n].confidence])
             k == Cardinality(DOMAIN conflicts)
  <2>1. /\ order \in [1..k -> DOMAIN conflicts] /\ DOMAIN order = 1..k
        /\ \A x \in DOMAIN conflicts : \E n \in DOMAIN order : order[n] = x
        /\ \A m, n \in DOMAIN order : order[m] = order[n] => m = n
    <3> HIDE DEF order, R
    <3> QED
      BY <1>2 DEF Lists, R
  <2>2. k = Len(conflicts) /\ Len(conflicts) \in Nat
    BY <1>1, <1>2
  <2> HIDE DEF order, k
  <2> QED
    BY <2>1, <2>2
<1> HIDE DEF order
<1>4. /\ conflicts' \in Seq(FoundType) /\ Len(conflicts') = Len(conflicts) /\ DOMAIN conflicts' = DOMAIN order
      /\ \A n \in DOMAIN conflicts' : conflicts'[n] = conflicts[order[n]]
  <2>1. \A n \in DOMAIN order : conflicts[order[n]] \in FoundType
    BY <1>1, <1>3
  <2> QED
    BY <1>1, <1>3, <2>1
<1>5. \A q : TwoDocuments(q)' <=> TwoDocuments(q)
  BY <1>1 DEF TwoDocuments, Places, Of
<1>6. \A i, j : Resolved(i, j)' = Resolved(i, j)
  BY <1>1 DEF Resolved, Of, Recency, Won
<1>7. /\ \A m, n \in DOMAIN conflicts : Sides(conflicts[m]) = Sides(conflicts[n]) => m = n
      /\ \A n \in DOMAIN conflicts : \E q \in Places \X Places : TwoDocuments(q) /\ conflicts[n].won = Resolved(q[1], q[2])
  <2>1. PairsJudged
    BY DEF ConflictInv
  <2> QED
    BY <2>1, Zenon DEF PairsJudged
<1>8. \A d : Sides(d)' = Sides(d)
  BY DEF Sides
<1>9. PairsJudged'
  <2>1. \A m, n \in DOMAIN conflicts' : Sides(conflicts'[m]) = Sides(conflicts'[n]) => m = n
    BY <1>3, <1>4, <1>7
  <2>2. \A n \in DOMAIN conflicts' : \E q \in Places \X Places : TwoDocuments(q) /\ conflicts'[n].won = Resolved(q[1], q[2])
    <3> SUFFICES ASSUME NEW n \in DOMAIN conflicts'
                 PROVE  \E q \in Places \X Places : TwoDocuments(q) /\ conflicts'[n].won = Resolved(q[1], q[2])
      OBVIOUS
    <3>1. n \in DOMAIN order /\ conflicts'[n] = conflicts[order[n]]
      BY <1>4
    <3>2. order[n] \in DOMAIN conflicts
      BY <1>3, <3>1
    <3> QED
      BY <1>7, <3>1, <3>2
  <2>3. \A n \in DOMAIN conflicts' : \E q \in Places' \X Places' : TwoDocuments(q)' /\ conflicts'[n].won = Resolved(q[1], q[2])'
    BY <1>1, <1>5, <1>6, <2>2
  <2>4. FoundType' = FoundType
    BY <1>1 DEF FoundType, Bases
  <2>5. \A n \in DOMAIN asking' : FALSE
    BY <1>1
  <2>6. asking' \in Seq(Places \X Places) /\ checking' # "cluster"
    BY <1>1
  <2> QED
    BY <1>1, <1>4, <1>8, <2>1, <2>3, <2>4, <2>5, <2>6 DEF PairsJudged
<1>10. ConflictTypeOK'
  <2>1. \A n \in DOMAIN asking' : FALSE
    BY <1>1
  <2>2. Len(asking') + Len(conflicts') <= MaxPairs /\ degraded' \in BOOLEAN /\ sources' \in Seq(Places)
    BY <1>1, <1>4 DEF ConflictInv, ConflictTypeOK
  <2> QED
    BY <1>1, <2>1, <2>2 DEF ConflictTypeOK
<1>11. NotesRight'
  <2>1. \A i \in Places : i \in DOMAIN sources /\ sources[i] = i
    BY <1>1 DEF WholePool, Places
  <2>2. ASSUME NEW note \in notes'
        PROVE  /\ {note.current, note.superseded} \subseteq DOMAIN sources'
               /\ \E n \in DOMAIN conflicts' : /\ conflicts'[n].won.current = sources'[note.current]
                                               /\ conflicts'[n].won.superseded = sources'[note.superseded]
    <3>1. PICK c \in ToSet(conflicts) :
             note = [current |-> [i \in Places |-> i][c.won.current], superseded |-> [i \in Places |-> i][c.won.superseded]]
      BY <1>1, <2>2 DEF Notes
    <3>2. PICK k \in DOMAIN conflicts : c = conflicts[k]
      BY <3>1 DEF ToSet
    <3>3. c \in FoundType
      BY <1>1, <3>2
    <3>4. c.won.current \in Places /\ c.won.superseded \in Places
      BY <3>3 DEF FoundType
    <3>5. note.current = c.won.current /\ note.superseded = c.won.superseded
      BY <3>1, <3>4
    <3>6. PICK n \in DOMAIN order : order[n] = k
      BY <1>3
    <3>7. n \in DOMAIN conflicts' /\ conflicts'[n] = c
      BY <1>4, <3>2, <3>6
    <3>8. /\ note.current \in DOMAIN sources' /\ note.superseded \in DOMAIN sources'
          /\ sources'[note.current] = c.won.current /\ sources'[note.superseded] = c.won.superseded
      BY <1>1, <2>1, <3>4, <3>5
    <3> QED
      BY <3>7, <3>8
  <2>3. WholePool' = WholePool
    BY <1>1 DEF WholePool
  <2> QED
    BY <1>1, <2>2, <2>3 DEF NotesRight
<1> QED
  BY <1>1, <1>9, <1>10, <1>11 DEF ConflictInv

\* What is packed are some of the sources, each once.
LEMMA PackedPlaces ==
    ASSUME evidence.passages \in Pools, NEW kept \in SUBSET Places
    PROVE  /\ Sorted(kept, Ascending(kept)) \in Seq(Places)
           /\ ToSet(Sorted(kept, Ascending(kept))) = kept
<1> DEFINE n == Len(evidence.passages)
<1>1. n \in Nat /\ Places = 1..n
  BY PoolFacts
<1>2. IsFiniteSet(kept)
  <2> HIDE DEF n
  <2> QED
    BY <1>1, PlacesFinite
<1>3. TotalOrder(Ascending(kept), kept)
  BY <1>1, AscendingTotal
<1>4. PICK q : q = Sorted(kept, Ascending(kept))
  OBVIOUS
<1>5. q \in Seq(kept) /\ Lists(q, kept, Ascending(kept))
  BY <1>2, <1>3, <1>4, SortedFacts
<1>6. ToSet(q) = kept
  BY <1>5 DEF Lists, ToSet
<1>7. q \in Seq(Places)
  BY <1>5
<1> QED
  BY <1>4, <1>6, <1>7

LEMMA AssembleKeeps == ConflictInv /\ AssembleConflicts => ConflictInv'
<1> SUFFICES ASSUME ConflictInv, AssembleConflicts PROVE ConflictInv'
  OBVIOUS
<1>1. /\ checking = "assemble" /\ checking' = "done" /\ asking' = asking /\ conflicts' = conflicts
      /\ evidence' = evidence /\ degraded' = degraded /\ Places' = Places
      /\ evidence.passages \in Pools /\ sources = WholePool /\ conflicts \in Seq(FoundType)
  BY DEF AssembleConflicts, ConflictInv, PairsJudged, NotesRight, Places
<1>2. PICK kept \in SUBSET Places :
         /\ sources' = Sorted(kept, Ascending(kept))
         /\ notes' = IF notes # {} /\ sources' # WholePool THEN Realigned(sources') ELSE notes
  BY DEF AssembleConflicts
<1>3. sources' \in Seq(Places) /\ ToSet(sources') = kept
  BY <1>1, <1>2, PackedPlaces
<1>4. PairsJudged'
  <2>1. \A q : TwoDocuments(q)' <=> TwoDocuments(q)
    BY <1>1 DEF TwoDocuments, Places, Of
  <2>2. \A i, j : Resolved(i, j)' = Resolved(i, j)
    BY <1>1 DEF Resolved, Of, Recency, Won
  <2>3. \A d : Sides(d)' = Sides(d)
    BY DEF Sides
  <2>4. FoundType' = FoundType
    BY <1>1 DEF FoundType, Bases
  <2>5. PairsJudged
    BY DEF ConflictInv
  <2>6. /\ \A n \in DOMAIN conflicts' : \E q \in Places' \X Places' : TwoDocuments(q)' /\ conflicts'[n].won = Resolved(q[1], q[2])'
        /\ \A n \in DOMAIN asking' : TwoDocuments(asking[n])'
    BY <1>1, <2>1, <2>2, <2>5 DEF PairsJudged, TwoDocuments, Of
  <2>7. checking' # "cluster"
    BY <1>1
  <2> QED
    BY <1>1, <2>3, <2>4, <2>5, <2>6, <2>7 DEF PairsJudged
<1>5. ConflictTypeOK'
  BY <1>1, <1>3 DEF ConflictInv, ConflictTypeOK
<1>6. ASSUME NEW note \in notes'
      PROVE  /\ {note.current, note.superseded} \subseteq DOMAIN sources'
             /\ \E n \in DOMAIN conflicts' : /\ conflicts'[n].won.current = sources'[note.current]
                                             /\ conflicts'[n].won.superseded = sources'[note.superseded]
  <2>1. CASE notes' = notes /\ sources' = WholePool
    BY <1>1, <1>6, <2>1 DEF ConflictInv, NotesRight
  <2>2. CASE notes = {} /\ notes' = notes
    BY <1>6, <2>2
  <2>3. CASE notes' = Realigned(sources')
    <3>1. PICK c \in ToSet(conflicts) :
             /\ {c.won.current, c.won.superseded} \subseteq ToSet(sources')
             /\ note = [current |-> MarkerAmong(sources')[c.won.current], superseded |-> MarkerAmong(sources')[c.won.superseded]]
      BY <1>6, <2>3 DEF Realigned, Notes
    <3>2. PICK k \in DOMAIN conflicts : c = conflicts[k]
      BY <3>1 DEF ToSet
    <3>3. \A i \in ToSet(sources') : /\ MarkerAmong(sources')[i] \in DOMAIN sources'
                                     /\ sources'[MarkerAmong(sources')[i]] = i
      <4> SUFFICES ASSUME NEW i \in ToSet(sources')
                   PROVE  /\ MarkerAmong(sources')[i] \in DOMAIN sources'
                          /\ sources'[MarkerAmong(sources')[i]] = i
        OBVIOUS
      <4>1. \E n \in DOMAIN sources' : sources'[n] = i
        BY DEF ToSet
      <4>2. MarkerAmong(sources')[i] = CHOOSE n \in DOMAIN sources' : sources'[n] = i
        BY DEF MarkerAmong
      <4> QED
        BY <4>1, <4>2
    <3>4. /\ note.current = MarkerAmong(sources')[c.won.current]
          /\ note.superseded = MarkerAmong(sources')[c.won.superseded]
      BY <3>1
    <3>5. c.won.current \in ToSet(sources') /\ c.won.superseded \in ToSet(sources')
      BY <3>1
    <3>6. /\ note.current \in DOMAIN sources' /\ note.superseded \in DOMAIN sources'
          /\ sources'[note.current] = c.won.current /\ sources'[note.superseded] = c.won.superseded
      BY <3>3, <3>4, <3>5
    <3> QED
      BY <1>1, <3>2, <3>6
  <2> QED
    BY <1>2, <2>1, <2>2, <2>3
<1>7. NotesRight'
  BY <1>1, <1>6 DEF NotesRight
<1> QED
  BY <1>1, <1>4, <1>5, <1>7 DEF ConflictInv

LEMMA ConflictNextInv == ConflictInv /\ [ConflictNext]_conflictVars => ConflictInv'
<1> SUFFICES ASSUME ConflictInv, [ConflictNext]_conflictVars PROVE ConflictInv'
  OBVIOUS
<1>1. CASE UNCHANGED conflictVars
  <2>1. /\ evidence' = evidence /\ asking' = asking /\ conflicts' = conflicts /\ degraded' = degraded
        /\ sources' = sources /\ notes' = notes /\ checking' = checking /\ Places' = Places
    BY <1>1 DEF conflictVars, Places
  <2>2. PairsJudged'
    <3>1. \A q : TwoDocuments(q)' <=> TwoDocuments(q)
      BY <2>1 DEF TwoDocuments, Places, Of
    <3>2. \A i, j : Resolved(i, j)' = Resolved(i, j)
      BY <2>1 DEF Resolved, Of, Recency, Won
    <3>3. \A d : Sides(d)' = Sides(d)
      BY DEF Sides
    <3>4. FoundType' = FoundType
      BY <2>1 DEF FoundType, Bases
    <3>5. PairsJudged
      BY DEF ConflictInv
    <3>6. /\ \A n \in DOMAIN conflicts' : \E q \in Places' \X Places' : TwoDocuments(q)' /\ conflicts'[n].won = Resolved(q[1], q[2])'
          /\ \A n \in DOMAIN asking' : TwoDocuments(asking[n])'
      BY <2>1, <3>1, <3>2, <3>5 DEF PairsJudged, TwoDocuments, Of
    <3> QED
      BY <2>1, <3>3, <3>4, <3>5, <3>6 DEF PairsJudged
  <2> QED
    BY <2>1, <2>2 DEF ConflictInv, ConflictTypeOK, NotesRight, WholePool
<1> QED
  BY <1>1, FindPairsKeeps, JudgePairKeeps, NoteConflictsKeeps, AssembleKeeps DEF ConflictNext

\* No three passages each supersede the next on one basis.
LEMMA BasisOrders ==
    ASSUME ConflictInv, NEW c \in ToSet(conflicts), NEW d \in ToSet(conflicts), NEW e \in ToSet(conflicts),
           c.won.basis = d.won.basis, d.won.basis = e.won.basis,
           c.won.superseded = d.won.current, d.won.superseded = e.won.current
    PROVE  e.won.superseded # c.won.current
<1> DEFINE Higher(b, i, j) ==
           LET l == Of(i)  r == Of(j) IN
           CASE b = "effective" -> l.effective > r.effective
             [] b = "modified"  -> l.modified > r.modified
             [] b = "authority" -> l.authority > r.authority
             [] b = "recency"   -> Recency(l) > Recency(r)
             [] OTHER           -> i < j
<1>1. ASSUME NEW x \in ToSet(conflicts)
      PROVE  /\ x.won.current \in Places /\ x.won.superseded \in Places /\ x.won.basis \in Bases
             /\ Higher(x.won.basis, x.won.current, x.won.superseded)
  <2>1. PICK n \in DOMAIN conflicts : x = conflicts[n]
    BY <1>1 DEF ToSet
  <2>2. PICK p \in Places \X Places : TwoDocuments(p) /\ x.won = Resolved(p[1], p[2])
    BY <2>1 DEF ConflictInv, PairsJudged
  <2>3. PICK w : w = x.won
    OBVIOUS
  <2>4. /\ w \in [current : Places, superseded : Places, basis : Bases, stale : BOOLEAN]
        /\ w.basis = "effective" => Of(w.current).effective > Of(w.superseded).effective
        /\ w.basis = "modified"  => Of(w.current).modified > Of(w.superseded).modified
        /\ w.basis = "authority" => Of(w.current).authority > Of(w.superseded).authority
        /\ w.basis = "recency"   => Recency(Of(w.current)) > Recency(Of(w.superseded))
        /\ w.basis = "indeterminate" => w.current = p[1] /\ w.superseded = p[2]
    BY <2>2, <2>3, ResolvedFacts DEF ConflictInv
  <2>5. w.basis = "indeterminate" => w.current < w.superseded
    BY <2>2, <2>4 DEF TwoDocuments
  <2>6. w.basis \in Bases
    BY <2>4
  <2>7. Higher(w.basis, w.current, w.superseded)
    BY <2>4, <2>5, <2>6 DEF Bases
  <2> QED
    BY <2>3, <2>4, <2>7
<1>2. \A i \in Places : /\ i \in Int /\ Of(i).effective \in Int /\ Of(i).modified \in Int
                        /\ Of(i).authority \in Int /\ Recency(Of(i)) \in Int
  BY PoolFacts DEF ConflictInv, Recency, None
<1>3. \A b \in Bases : \A i, j, k \in Places : Higher(b, i, j) /\ Higher(b, j, k) => Higher(b, i, k)
  BY <1>2 DEF Bases
<1>4. \A b \in Bases : \A i \in Places : ~Higher(b, i, i)
  BY <1>2 DEF Bases
<1> HIDE DEF Higher
<1>5. Higher(c.won.basis, c.won.current, d.won.superseded)
  BY <1>1, <1>3
<1>6. Higher(c.won.basis, c.won.current, e.won.superseded)
  BY <1>1, <1>3, <1>5
<1> QED
  BY <1>1, <1>4, <1>6

LEMMA ConflictFollows == ConflictInv => ConflictsAreHonest
<1> SUFFICES ASSUME ConflictInv PROVE ConflictsAreHonest
  OBVIOUS
<1>1. evidence.passages \in Pools
  BY DEF ConflictInv
<1>2. LaterIsCurrent
  <2> SUFFICES ASSUME NEW n \in DOMAIN conflicts
      PROVE LET w == Of(conflicts[n].won.current)  l == Of(conflicts[n].won.superseded) IN
        /\ w.doc # l.doc
        /\ w.effective # None /\ l.effective # None => w.effective >= l.effective
        /\ \/ w.effective # None /\ l.effective # None /\ w.effective # l.effective
           \/ w.modified = None \/ l.modified = None \/ w.modified >= l.modified
        /\ \A m \in DOMAIN conflicts : m # n =>
             {conflicts[m].won.current, conflicts[m].won.superseded}
                 # {conflicts[n].won.current, conflicts[n].won.superseded}
    BY DEF LaterIsCurrent
  <2>1. PICK p \in Places \X Places : TwoDocuments(p) /\ conflicts[n].won = Resolved(p[1], p[2])
    BY DEF ConflictInv, PairsJudged
  <2>2. PICK r : r = conflicts[n].won
    OBVIOUS
  <2>3. LET w == Of(r.current)  l == Of(r.superseded) IN
        /\ {r.current, r.superseded} = {p[1], p[2]}
        /\ w.effective # None /\ l.effective # None => w.effective >= l.effective
        /\ \/ w.effective # None /\ l.effective # None /\ w.effective # l.effective
           \/ w.modified = None \/ l.modified = None \/ w.modified >= l.modified
    BY <1>1, <2>1, <2>2, ResolvedFacts
  <2>4. Of(r.current).doc # Of(r.superseded).doc
    <3>1. {r.current, r.superseded} = {p[1], p[2]}
      BY <2>3
    <3>2. \A a, b, x, y : {a, b} = {x, y} => (a = x /\ b = y) \/ (a = y /\ b = x)
      OBVIOUS
    <3>3. (r.current = p[1] /\ r.superseded = p[2]) \/ (r.current = p[2] /\ r.superseded = p[1])
      BY <3>1, <3>2
    <3> QED
      BY <2>1, <3>3 DEF TwoDocuments
  <2>5. \A m \in DOMAIN conflicts : m # n => Sides(conflicts[m]) # Sides(conflicts[n])
    BY DEF ConflictInv, PairsJudged
  <2> QED
    BY <2>2, <2>3, <2>4, <2>5 DEF Sides
<1>3. BasisIsAnOrder
  <2>1. \A i, j \in Places :
           \/ Resolved(i, j) = Resolved(j, i)
           \/ Resolved(i, j).basis = "indeterminate" /\ Resolved(j, i).basis = "indeterminate"
    BY <1>1, ResolvedEitherWay
  <2> QED
    BY <2>1, BasisOrders DEF BasisIsAnOrder
<1>4. NotesPointAtTheirSources
  BY DEF ConflictInv, NotesRight, NotesPointAtTheirSources
<1> QED
  BY <1>2, <1>3, <1>4 DEF ConflictsAreHonest

(* Sources that disagree are told of as they are (contradiction.py): each disagreement is between
   two documents and is told once, the later side is the current one wherever both say when they
   took effect, no three sources supersede each other in a round, and the markers in the prompt
   are those of the two sources, whatever the packing left out; for any passages, likenesses,
   verdicts and outages of the model. *)
THEOREM ConflictsHonest == ConflictSpec => []ConflictsAreHonest
<1>1. ConflictSpec => []ConflictInv
  BY ConflictInitInv, ConflictNextInv, PTL DEF ConflictSpec
<1> QED
  BY <1>1, ConflictFollows, PTL

(* A pair to judge is two passages in the order of the evidence, and no more than
   guardrail_contradiction_max_pairs cost a call of the model. *)
THEOREM ConflictTypes == ConflictSpec => []ConflictTypeOK
<1>1. ConflictSpec => []ConflictInv
  BY ConflictInitInv, ConflictNextInv, PTL DEF ConflictSpec
<1> QED
  BY <1>1, PTL DEF ConflictInv
-----------------------------------------------------------------------------
(* Retrieval: what becomes of every chunk that was found. *)

Entries == [chunk : ChunkIds, reason : DropReasons]

\* The chunks of a list, and that none is in it twice.
Names(s) == {s[i].chunk : i \in DOMAIN s}
Unrepeated(s) == \A i, j \in DOMAIN s : s[i].chunk = s[j].chunk => i = j

\* The chunks W are the ones kept and the ones dropped, each once.
Audit(kept, out, W) ==
    /\ Unrepeated(kept) /\ Unrepeated(out)
    /\ Names(kept) \cap Names(out) = {} /\ Names(kept) \cup Names(out) = W

LEMMA PickedNames ==
    ASSUME NEW V, NEW s \in Seq(V), Unrepeated(s), NEW T \in SUBSET DOMAIN s
    PROVE  /\ Picked(s, T) \in Seq(V) /\ Unrepeated(Picked(s, T))
           /\ Names(Picked(s, T)) = {s[i].chunk : i \in T}
<1>1. PICK at \in [1..Cardinality(T) -> T] :
             /\ Cardinality(T) \in Nat
             /\ Lists(at, T, Ascending(T))
             /\ Picked(s, T) \in Seq(V) /\ Len(Picked(s, T)) = Cardinality(T)
             /\ DOMAIN Picked(s, T) = 1..Cardinality(T)
             /\ \A k \in 1..Cardinality(T) : Picked(s, T)[k] = s[at[k]]
  BY PickedFacts, Z3
<1>2. PICK q : q = Picked(s, T)
  OBVIOUS
<1>3. PICK n \in Nat : n = Cardinality(T)
  BY <1>1
<1>4. /\ DOMAIN q = 1..n /\ DOMAIN at = 1..n /\ \A k \in 1..n : at[k] \in T /\ q[k] = s[at[k]]
      /\ \A x \in T : \E k \in 1..n : at[k] = x
      /\ \A k, l \in 1..n : at[k] = at[l] => k = l
  BY <1>1, <1>2, <1>3 DEF Lists
<1>5. Unrepeated(q)
  <2> SUFFICES ASSUME NEW i \in 1..n, NEW j \in 1..n, q[i].chunk = q[j].chunk PROVE i = j
    BY <1>4 DEF Unrepeated
  <2>1. at[i] \in DOMAIN s /\ at[j] \in DOMAIN s /\ s[at[i]].chunk = s[at[j]].chunk
    BY <1>4
  <2>2. at[i] = at[j]
    BY <2>1 DEF Unrepeated
  <2> QED
    BY <1>4, <2>2
<1>6. Names(q) = {s[i].chunk : i \in T}
  <2>1. ASSUME NEW k \in 1..n PROVE q[k].chunk \in {s[i].chunk : i \in T}
    BY <1>4
  <2>2. ASSUME NEW i \in T PROVE s[i].chunk \in Names(q)
    <3>1. PICK k \in 1..n : at[k] = i
      BY <1>4
    <3>2. k \in DOMAIN q /\ q[k].chunk = s[i].chunk
      BY <1>4, <3>1
    <3> QED
      BY <3>2 DEF Names
  <2>3. Names(q) \subseteq {s[i].chunk : i \in T}
    <3>1. Names(q) = {q[k].chunk : k \in 1..n}
      BY <1>4 DEF Names
    <3> QED
      BY <2>1, <3>1
  <2> QED
    BY <2>2, <2>3
<1> QED
  BY <1>1, <1>2, <1>5, <1>6

LEMMA JoinNames ==
    ASSUME NEW V, NEW s \in Seq(V), NEW t \in Seq(V)
    PROVE  /\ s \o t \in Seq(V) /\ Names(s \o t) = Names(s) \cup Names(t)
           /\ Unrepeated(s) /\ Unrepeated(t) /\ Names(s) \cap Names(t) = {} => Unrepeated(s \o t)
<1>1. PICK m \in Nat : m = Len(s) /\ DOMAIN s = 1..m
  OBVIOUS
<1>2. PICK n \in Nat : n = Len(t) /\ DOMAIN t = 1..n
  OBVIOUS
<1>3. PICK q : q = s \o t
  OBVIOUS
<1>4. q \in Seq(V) /\ Len(q) = m + n /\ DOMAIN q = 1..m + n
  BY <1>1, <1>2, <1>3
<1>5. \A i \in 1..m : i \in DOMAIN q /\ q[i] = s[i]
  BY <1>1, <1>2, <1>3, <1>4
<1>6. \A i \in 1..n : m + i \in DOMAIN q /\ q[m + i] = t[i]
  BY <1>1, <1>2, <1>3, <1>4
<1>7. \A i \in DOMAIN q : i \in 1..m \/ (i - m \in 1..n /\ i = m + (i - m))
  BY <1>4
<1>8. \A i \in DOMAIN q : (i \in 1..m /\ q[i] = s[i]) \/ (i - m \in 1..n /\ q[i] = t[i - m])
  BY <1>5, <1>6, <1>7
<1>9. Names(q) = Names(s) \cup Names(t)
  <2>1. \A i \in DOMAIN q : q[i].chunk \in Names(s) \cup Names(t)
    BY <1>1, <1>2, <1>8 DEF Names
  <2>2. \A i \in DOMAIN s : s[i].chunk \in Names(q)
    BY <1>1, <1>5 DEF Names
  <2>3. \A i \in DOMAIN t : t[i].chunk \in Names(q)
    BY <1>2, <1>6 DEF Names
  <2>4. Names(q) \subseteq Names(s) \cup Names(t)
    BY <2>1 DEF Names
  <2>5. Names(s) \subseteq Names(q)
    BY <2>2 DEF Names
  <2>6. Names(t) \subseteq Names(q)
    BY <2>3 DEF Names
  <2> QED
    BY <2>4, <2>5, <2>6
<1>10. ASSUME Unrepeated(s), Unrepeated(t), Names(s) \cap Names(t) = {} PROVE Unrepeated(q)
  <2> SUFFICES ASSUME NEW i \in DOMAIN q, NEW j \in DOMAIN q, q[i].chunk = q[j].chunk PROVE i = j
    BY DEF Unrepeated
  <2>1. CASE i \in 1..m /\ q[i] = s[i]
    <3>1. CASE j \in 1..m /\ q[j] = s[j]
      BY <1>1, <1>10, <2>1, <3>1 DEF Unrepeated
    <3>2. CASE j - m \in 1..n /\ q[j] = t[j - m]
      <4>1. q[i].chunk \in Names(s) /\ q[j].chunk \in Names(t)
        BY <1>1, <1>2, <2>1, <3>2 DEF Names
      <4> QED
        BY <1>10, <4>1
    <3> QED
      BY <1>8, <3>1, <3>2
  <2>2. CASE i - m \in 1..n /\ q[i] = t[i - m]
    <3>1. CASE j \in 1..m /\ q[j] = s[j]
      <4>1. q[j].chunk \in Names(s) /\ q[i].chunk \in Names(t)
        BY <1>1, <1>2, <2>2, <3>1 DEF Names
      <4> QED
        BY <1>10, <4>1
    <3>2. CASE j - m \in 1..n /\ q[j] = t[j - m]
      <4>1. i - m = j - m
        BY <1>2, <1>10, <2>2, <3>2 DEF Unrepeated
      <4>2. i \in Int /\ j \in Int
        BY <1>4
      <4> QED
        BY <4>1, <4>2
    <3> QED
      BY <1>8, <3>1, <3>2
  <2> QED
    BY <1>8, <2>1, <2>2
<1> QED
  BY <1>3, <1>4, <1>9, <1>10

LEMMA DroppedNames ==
    ASSUME NEW s \in Seq(Scored), NEW reason \in DropReasons
    PROVE  /\ Dropped(s, reason) \in Seq(Entries) /\ Names(Dropped(s, reason)) = Names(s)
           /\ Unrepeated(s) => Unrepeated(Dropped(s, reason))
<1>1. PICK n \in Nat : n = Len(s) /\ DOMAIN s = 1..n
  OBVIOUS
<1>2. PICK q : q = Dropped(s, reason)
  OBVIOUS
<1>3. /\ q = [i \in 1..n |-> [chunk |-> s[i].chunk, reason |-> reason]] /\ DOMAIN q = 1..n
      /\ \A i \in 1..n : q[i].chunk = s[i].chunk
  BY <1>1, <1>2 DEF Dropped
<1>4. \A i \in 1..n : s[i].chunk \in ChunkIds
  <2>1. \A i \in 1..n : s[i] \in Scored
    BY <1>1
  <2> QED
    BY <2>1 DEF Scored
<1>5. \A i \in 1..n : [chunk |-> s[i].chunk, reason |-> reason] \in Entries
  BY <1>4 DEF Entries
<1>6. q \in Seq(Entries)
  <2> HIDE DEF Entries
  <2> QED
    BY <1>3, <1>5
<1> QED
  BY <1>1, <1>2, <1>3, <1>6 DEF Names, Unrepeated

\* A list in two parts: what stays and what goes.
LEMMA Parted ==
    ASSUME NEW s \in Seq(Scored), Unrepeated(s), NEW T \in SUBSET DOMAIN s, NEW U \in SUBSET DOMAIN s,
           T \cap U = {}
    PROVE  /\ Picked(s, T) \in Seq(Scored) /\ Picked(s, U) \in Seq(Scored)
           /\ Unrepeated(Picked(s, T)) /\ Unrepeated(Picked(s, U))
           /\ Names(Picked(s, T)) \cap Names(Picked(s, U)) = {}
           /\ Names(Picked(s, T)) \cup Names(Picked(s, U)) = {s[i].chunk : i \in T \cup U}
<1>1. /\ Picked(s, T) \in Seq(Scored) /\ Unrepeated(Picked(s, T)) /\ Names(Picked(s, T)) = {s[i].chunk : i \in T}
      /\ Picked(s, U) \in Seq(Scored) /\ Unrepeated(Picked(s, U)) /\ Names(Picked(s, U)) = {s[i].chunk : i \in U}
  BY PickedNames
<1>2. \A i \in T, j \in U : s[i].chunk # s[j].chunk
  BY DEF Unrepeated
<1>3. {s[i].chunk : i \in T} \cap {s[i].chunk : i \in U} = {}
  BY <1>2
<1>4. {s[i].chunk : i \in T} \cup {s[i].chunk : i \in U} = {s[i].chunk : i \in T \cup U}
  OBVIOUS
<1> QED
  BY <1>1, <1>3, <1>4

LEMMA AuditStep ==
    ASSUME NEW p \in Seq(Scored), NEW l \in Seq(Entries), NEW W, Audit(p, l, W),
           NEW q \in Seq(Scored), NEW m \in Seq(Entries), Audit(q, m, Names(p))
    PROVE  l \o m \in Seq(Entries) /\ Audit(q, l \o m, W)
<1>1. /\ l \o m \in Seq(Entries) /\ Names(l \o m) = Names(l) \cup Names(m)
      /\ Unrepeated(l) /\ Unrepeated(m) /\ Names(l) \cap Names(m) = {} => Unrepeated(l \o m)
  BY JoinNames
<1>2. Names(l) \cap Names(m) = {}
  BY DEF Audit
<1> QED
  BY <1>1, <1>2 DEF Audit

\* What is listed again in another order.
LEMMA Reordered ==
    ASSUME NEW V, NEW s \in Seq(V), Unrepeated(s), NEW q \in Seq(DOMAIN s), Once(q), ToSet(q) = DOMAIN s,
           NEW W, NEW t \in Seq(W), DOMAIN t = DOMAIN q, \A k \in DOMAIN q : t[k].chunk = s[q[k]].chunk
    PROVE  Unrepeated(t) /\ Names(t) = Names(s)
<1>1. \A k \in DOMAIN q : q[k] \in DOMAIN s
  BY DEF ToSet
<1>2. \A i \in DOMAIN s : \E k \in DOMAIN q : q[k] = i
  BY DEF ToSet
<1>3. Unrepeated(t)
  BY <1>1 DEF Unrepeated, Once
<1>4. Names(t) \subseteq Names(s)
  <2>1. ASSUME NEW k \in DOMAIN q PROVE t[k].chunk \in Names(s)
    <3>1. q[k] \in DOMAIN s /\ t[k].chunk = s[q[k]].chunk
      BY <1>1
    <3> QED
      BY <3>1 DEF Names
  <2> QED
    BY <2>1 DEF Names
<1>5. Names(s) \subseteq Names(t)
  <2>1. ASSUME NEW i \in DOMAIN s PROVE s[i].chunk \in Names(t)
    <3>1. PICK k \in DOMAIN q : q[k] = i
      BY <1>2
    <3>2. k \in DOMAIN t /\ t[k].chunk = s[i].chunk
      BY <3>1
    <3> QED
      BY <3>2 DEF Names
  <2> QED
    BY <2>1 DEF Names
<1> QED
  BY <1>3, <1>4, <1>5

LEMMA Limits ==
    /\ RerankTop \in Nat /\ RerankLimit \in Nat /\ SearchLimit \in Nat
    /\ TopN \in Nat /\ TopN > 0 /\ PerDocument \in Nat /\ PerDocument > 0
BY RetrievalAssumption DEF RetrievalAssumption

\* A list cut in two.
LEMMA CutFacts ==
    ASSUME NEW s \in Seq(Scored), Unrepeated(s), NEW n \in Nat
    PROVE  /\ First(s, n) \in Seq(Scored) /\ After(s, n) \in Seq(Scored)
           /\ Unrepeated(First(s, n)) /\ Unrepeated(After(s, n))
           /\ Names(First(s, n)) \cap Names(After(s, n)) = {}
           /\ Names(First(s, n)) \cup Names(After(s, n)) = Names(s)
<1>1. PICK m \in Nat : m = Len(s) /\ DOMAIN s = 1..m
  OBVIOUS
<1>2. PICK k \in Nat : k = (IF n < m THEN n ELSE m) /\ k <= m /\ k <= n
  OBVIOUS
<1>3. PICK a, b : a = First(s, n) /\ b = After(s, n)
  OBVIOUS
<1>4. a = SubSeq(s, 1, k) /\ b = SubSeq(s, n + 1, m)
  BY <1>1, <1>2, <1>3 DEF First, After
<1>5. a \in Seq(Scored) /\ DOMAIN a = 1..k /\ \A i \in 1..k : a[i] = s[i]
  <2>1. \A i \in 1..k : s[i] \in Scored
    BY <1>1, <1>2
  <2>2. a \in Seq(Scored) /\ Len(a) = k /\ \A i \in 1..k : a[i] = s[i]
    BY <1>2, <1>4, <2>1, SubSeqProperties, Z3
  <2> QED
    BY <1>2, <2>2
<1>6. PICK l \in Nat : l = (IF n < m THEN m - n ELSE 0)
  <2>1. m - n \in Int /\ (n < m => m - n \in Nat)
    OBVIOUS
  <2> QED
    BY <2>1
<1>7. b \in Seq(Scored) /\ DOMAIN b = 1..l /\ \A i \in 1..l : b[i] = s[n + i] /\ n + i \in 1..m
  <2>1. \A i \in n + 1..m : s[i] \in Scored
    BY <1>1
  <2>2. /\ b \in Seq(Scored) /\ Len(b) = (IF n + 1 <= m THEN m - (n + 1) + 1 ELSE 0)
        /\ \A i \in 1..m - (n + 1) + 1 : b[i] = s[n + 1 + i - 1]
    BY <1>4, <2>1, SubSeqProperties, Z3
  <2>3. Len(b) = l
    BY <1>6, <2>2
  <2>4. \A i \in 1..l : i \in 1..m - (n + 1) + 1 /\ n + 1 + i - 1 = n + i /\ n + i \in 1..m
    BY <1>6
  <2> QED
    BY <2>2, <2>3, <2>4
<1>8. \A j \in 1..m : j \in 1..k \/ (j - n \in 1..l /\ n + (j - n) = j)
  BY <1>2, <1>6
<1>9. \A i \in 1..k, j \in 1..l : s[i].chunk # s[n + j].chunk
  <2>1. \A i \in 1..k, j \in 1..l : i \in 1..m /\ n + j \in 1..m /\ i # n + j
    BY <1>2, <1>7
  <2> QED
    BY <1>1, <2>1 DEF Unrepeated
<1>10. Unrepeated(a)
  <2>1. \A i \in 1..k : i \in 1..m
    BY <1>2
  <2> QED
    BY <1>1, <1>5, <2>1 DEF Unrepeated
<1>11. Unrepeated(b)
  <2> SUFFICES ASSUME NEW i \in 1..l, NEW j \in 1..l, b[i].chunk = b[j].chunk PROVE i = j
    BY <1>7 DEF Unrepeated
  <2>0. n + i \in DOMAIN s /\ n + j \in DOMAIN s /\ s[n + i].chunk = s[n + j].chunk
    BY <1>1, <1>7
  <2>1. n + i = n + j
    BY <2>0 DEF Unrepeated
  <2> QED
    BY <2>1
<1>12. Names(a) = {s[i].chunk : i \in 1..k} /\ Names(b) = {s[n + i].chunk : i \in 1..l} /\ Names(s) = {s[i].chunk : i \in 1..m}
  BY <1>1, <1>5, <1>7 DEF Names
<1>13. \A j \in 1..m : s[j].chunk \in Names(a) \cup Names(b)
  <2> SUFFICES ASSUME NEW j \in 1..m PROVE s[j].chunk \in Names(a) \cup Names(b)
    OBVIOUS
  <2>1. CASE j \in 1..k
    BY <1>12, <2>1
  <2>2. CASE j - n \in 1..l /\ n + (j - n) = j
    <3>1. s[n + (j - n)].chunk \in Names(b)
      BY <1>12, <2>2
    <3> QED
      BY <2>2, <3>1
  <2> QED
    BY <1>8, <2>1, <2>2
<1>14. Names(s) \subseteq Names(a) \cup Names(b)
  BY <1>12, <1>13
<1>15. Names(a) \cup Names(b) \subseteq Names(s)
  <2>1. \A i \in 1..k : i \in 1..m
    BY <1>2
  <2>2. Names(a) \subseteq Names(s)
    BY <1>12, <2>1
  <2>3. Names(b) \subseteq Names(s)
    BY <1>12, <1>7
  <2> QED
    BY <2>2, <2>3
<1>16. Names(a) \cap Names(b) = {}
  BY <1>9, <1>12
<1> QED
  BY <1>3, <1>5, <1>7, <1>10, <1>11, <1>14, <1>15, <1>16

\* _rerank: what is below the floor, and what is cut off, is in the ledger.
LEMMA RerankCutFacts ==
    ASSUME NEW scored \in Seq(Scored), Unrepeated(scored)
    PROVE  /\ RerankCut(scored).kept \in Seq(Scored) /\ RerankCut(scored).out \in Seq(Entries)
           /\ Audit(RerankCut(scored).kept, RerankCut(scored).out, Names(scored))
<1>1. PICK value : value = [i \in DOMAIN scored |-> scored[i].rerank]
  OBVIOUS
<1>2. PICK n \in Nat : n = Len(scored) /\ DOMAIN scored = 1..n
  OBVIOUS
<1>3. PICK order : order = Sorted(DOMAIN scored, Descending(DOMAIN scored, value))
  OBVIOUS
<1>4. \A i \in DOMAIN scored : scored[i] \in Scored
  BY <1>2
<1>5. \A i \in DOMAIN scored : value[i] \in Int
  <2>1. -1..ScoreTop \subseteq Int
    BY RetrievalAssumption DEF RetrievalAssumption
  <2> QED
    BY <1>1, <1>4, <2>1 DEF Scored
<1>6. order \in Seq(DOMAIN scored) /\ Once(order) /\ ToSet(order) = DOMAIN scored
  <2>1. PICK D : D = DOMAIN scored
    OBVIOUS
  <2>2. D \in SUBSET Int /\ D \in SUBSET (1..n) /\ D \in SUBSET D
    BY <1>2, <2>1
  <2>3. IsFiniteSet(D)
    BY <2>2, PlacesFinite
  <2>4. TotalOrder(Descending(D, value), D)
    BY <1>5, <2>1, <2>2, DescendingTotal
  <2>5. order = Sorted(D, Descending(D, value))
    BY <1>3, <2>1
  <2> QED
    BY <2>1, <2>2, <2>3, <2>4, <2>5, InSequence
<1>7. PICK ranked : ranked = [k \in DOMAIN order |-> scored[order[k]]]
  OBVIOUS
<1>8. ranked \in Seq(Scored) /\ DOMAIN ranked = DOMAIN order /\ \A k \in DOMAIN order : ranked[k] = scored[order[k]]
  <2>1. PICK l \in Nat : DOMAIN order = 1..l
    BY <1>6
  <2>2. \A k \in 1..l : scored[order[k]] \in Scored
    BY <1>4, <1>6, <2>1
  <2> HIDE DEF Scored
  <2> QED
    BY <1>7, <2>1, <2>2
<1>9. Unrepeated(ranked) /\ Names(ranked) = Names(scored)
  <2>1. order \in Seq(DOMAIN scored) /\ Once(order) /\ ToSet(order) = DOMAIN scored
    BY <1>6
  <2>2. \A k \in DOMAIN order : ranked[k].chunk = scored[order[k]].chunk
    BY <1>8
  <2> HIDE DEF Scored
  <2> QED
    BY <1>8, <2>1, <2>2, Reordered
<1>10. PICK high : high = {k \in DOMAIN ranked : ranked[k].rerank >= RerankFloor}
  OBVIOUS
<1>11. PICK above, below : above = Picked(ranked, high) /\ below = Picked(ranked, DOMAIN ranked \ high)
  OBVIOUS
<1>12. /\ above \in Seq(Scored) /\ below \in Seq(Scored) /\ Unrepeated(above) /\ Unrepeated(below)
       /\ Names(above) \cap Names(below) = {} /\ Names(above) \cup Names(below) = Names(ranked)
  <2>1. PICK low : low = DOMAIN ranked \ high
    OBVIOUS
  <2>2. high \in SUBSET DOMAIN ranked /\ low \in SUBSET DOMAIN ranked /\ high \cap low = {}
    BY <1>10, <2>1
  <2>3. high \cup low = DOMAIN ranked
    BY <1>10, <2>1
  <2>4. {ranked[i].chunk : i \in high \cup low} = Names(ranked)
    BY <2>3 DEF Names
  <2>5. below = Picked(ranked, low)
    BY <1>11, <2>1
  <2>6. /\ Picked(ranked, high) \in Seq(Scored) /\ Picked(ranked, low) \in Seq(Scored)
        /\ Unrepeated(Picked(ranked, high)) /\ Unrepeated(Picked(ranked, low))
        /\ Names(Picked(ranked, high)) \cap Names(Picked(ranked, low)) = {}
        /\ Names(Picked(ranked, high)) \cup Names(Picked(ranked, low)) = {ranked[i].chunk : i \in high \cup low}
    BY <1>8, <1>9, <2>2, Parted
  <2> QED
    BY <1>11, <2>4, <2>5, <2>6
<1>13. PICK kept, late : kept = First(above, RerankTop) /\ late = After(above, RerankTop)
  OBVIOUS
<1>14. /\ kept \in Seq(Scored) /\ late \in Seq(Scored) /\ Unrepeated(kept) /\ Unrepeated(late)
       /\ Names(kept) \cap Names(late) = {} /\ Names(kept) \cup Names(late) = Names(above)
  BY <1>12, <1>13, CutFacts, Limits
<1>15. PICK d, e : d = Dropped(below, "min_score") /\ e = Dropped(late, "rerank_top_n")
  OBVIOUS
<1>16. d \in Seq(Entries) /\ Names(d) = Names(below) /\ Unrepeated(d)
  <2>1. "min_score" \in DropReasons
    BY DEF DropReasons
  <2> QED
    BY <1>12, <1>15, <2>1, DroppedNames
<1>17. e \in Seq(Entries) /\ Names(e) = Names(late) /\ Unrepeated(e)
  <2>1. "rerank_top_n" \in DropReasons
    BY DEF DropReasons
  <2> QED
    BY <1>14, <1>15, <2>1, DroppedNames
<1>18. Audit(above, d, Names(scored)) /\ Audit(kept, e, Names(above))
  BY <1>9, <1>12, <1>14, <1>16, <1>17 DEF Audit
<1>19. d \o e \in Seq(Entries) /\ Audit(kept, d \o e, Names(scored))
  BY <1>12, <1>14, <1>16, <1>17, <1>18, AuditStep
<1>20. RerankCut(scored).kept = kept /\ RerankCut(scored).out = d \o e
  BY <1>1, <1>3, <1>7, <1>10, <1>11, <1>13, <1>15 DEF RerankCut
<1> QED
  BY <1>14, <1>19, <1>20

\* dedupe_chunks: the places that stay are places of the pool.
LEMMA DeduplicatedPlaces ==
    ASSUME pool \in Seq(Scored)
    PROVE  Deduplicated \in SUBSET DOMAIN pool
<1> DEFINE n == Len(pool)
           V == SUBSET (1..n)
           Next1(i, K) == K \cup IF Copies(i, K) THEN {} ELSE {i}
           step == [i \in 1..n |-> [K \in V |-> Next1(i, K)]]
           Level(f) == f = [i \in 0..n |-> IF i = 0 THEN {} ELSE f[i - 1] \cup IF Copies(i, f[i - 1]) THEN {} ELSE {i}]
           r == CHOOSE f : Level(f)
<1>1. n \in Nat /\ DOMAIN pool = 1..n
  OBVIOUS
<1>2. \A i \in 1..n, K \in V : Next1(i, K) \in V
  OBVIOUS
<1>3. step \in StepsOf(n, V) /\ {} \in V /\ \A i \in 1..n, K \in V : step[i][K] = Next1(i, K)
  BY <1>2 DEF StepsOf
<1>4. Deduplicated = r[n]
  BY Zenon DEF Deduplicated
<1> HIDE DEF n, V, step
<1>5. PICK f \in [0..n -> V] : f[0] = {} /\ \A i \in 1..n : f[i] = step[i][f[i - 1]]
  <2>1. PICK b \in V : b = {}
    BY <1>3
  <2>2. \E f \in [0..n -> V] : f[0] = b /\ \A i \in 1..n : f[i] = step[i][f[i - 1]]
    BY <1>1, <1>3, <2>1, Recursion, Z3
  <2> QED
    BY <2>1, <2>2
<1>6. Level(f)
  <2>1. ASSUME NEW i \in 0..n PROVE f[i] = IF i = 0 THEN {} ELSE f[i - 1] \cup IF Copies(i, f[i - 1]) THEN {} ELSE {i}
    <3>1. CASE i = 0
      BY <1>5, <3>1
    <3>2. CASE i \in 1..n
      <4>1. i - 1 \in 0..n /\ i # 0
        BY <1>1, <3>2
      <4>2. f[i - 1] \in V
        BY <1>5, <4>1
      <4>3. f[i] = Next1(i, f[i - 1])
        BY <1>3, <1>5, <3>2, <4>2
      <4> QED
        BY <4>1, <4>3
    <3> QED
      BY <1>1, <3>1, <3>2
  <2>2. f = [i \in 0..n |-> f[i]]
    BY <1>5
  <2> QED
    BY <2>1, <2>2
<1> HIDE DEF Level
<1>7. Level(r)
  BY <1>6
<1> HIDE DEF r
<1>a. \A i \in 0..n : r[i] = IF i = 0 THEN {} ELSE Next1(i, r[i - 1])
  BY <1>7 DEF Level
<1> DEFINE S == {k \in Nat : k <= n => r[k] \in V}
<1> HIDE DEF Next1
<1>8. 0 \in S
  <2>1. 0 \in 0..n
    BY <1>1
  <2>2. r[0] = {}
    BY <1>a, <2>1
  <2> QED
    BY <1>3, <2>2
<1>9. ASSUME NEW k \in S PROVE k + 1 \in S
  <2> SUFFICES ASSUME k + 1 <= n PROVE r[k + 1] \in V
    BY <1>9
  <2>1. k \in Nat /\ k <= n /\ k + 1 \in 0..n /\ k + 1 \in 1..n /\ k + 1 # 0 /\ k + 1 - 1 = k
    BY <1>1
  <2>2. r[k] \in V
    BY <2>1
  <2>3. r[k + 1] = Next1(k + 1, r[k])
    BY <1>a, <2>1
  <2> QED
    BY <1>2, <2>1, <2>2, <2>3
<1> HIDE DEF S
<1>10. S = Nat
  <2>1. S \in SUBSET Nat
    BY DEF S
  <2> QED
    BY <1>8, <1>9, <2>1, SetInduction
<1>11. n \in S
  BY <1>1, <1>10
<1>12. r[n] \in V
  BY <1>1, <1>11 DEF S
<1> QED
  BY <1>1, <1>4, <1>12 DEF V

LEMMA DedupeFacts ==
    ASSUME pool \in Seq(Scored), Unrepeated(pool)
    PROVE  /\ Picked(pool, Deduplicated) \in Seq(Scored)
           /\ Dropped(Picked(pool, DOMAIN pool \ Deduplicated), "duplicate") \in Seq(Entries)
           /\ Audit(Picked(pool, Deduplicated), Dropped(Picked(pool, DOMAIN pool \ Deduplicated), "duplicate"), Names(pool))
<1>1. PICK T, U : T = Deduplicated /\ U = DOMAIN pool \ Deduplicated
  OBVIOUS
<1>2. T \in SUBSET DOMAIN pool /\ U \in SUBSET DOMAIN pool /\ T \cap U = {} /\ T \cup U = DOMAIN pool
  BY <1>1, DeduplicatedPlaces
<1>3. /\ Picked(pool, T) \in Seq(Scored) /\ Picked(pool, U) \in Seq(Scored)
      /\ Unrepeated(Picked(pool, T)) /\ Unrepeated(Picked(pool, U))
      /\ Names(Picked(pool, T)) \cap Names(Picked(pool, U)) = {}
      /\ Names(Picked(pool, T)) \cup Names(Picked(pool, U)) = {pool[i].chunk : i \in T \cup U}
  BY <1>2, Parted
<1>4. {pool[i].chunk : i \in T \cup U} = Names(pool)
  BY <1>2 DEF Names
<1>5. "duplicate" \in DropReasons
  BY DEF DropReasons
<1>6. PICK d : d = Dropped(Picked(pool, U), "duplicate")
  OBVIOUS
<1>7. d \in Seq(Entries) /\ Names(d) = Names(Picked(pool, U)) /\ Unrepeated(d)
  BY <1>3, <1>5, <1>6, DroppedNames
<1> QED
  BY <1>1, <1>3, <1>4, <1>6, <1>7 DEF Audit

\* _relevance is a score.
LEMMA FinalType == ASSUME NEW c \in Scored PROVE Final(c) \in 0..ScoreTop /\ Signal(c) \in 0..ScoreTop
<1>1. c.fusion \in 0..ScoreTop /\ c.rerank \in -1..ScoreTop /\ ScoreTop \in Nat
  BY RetrievalAssumption DEF Scored, RetrievalAssumption
<1>2. ASSUME c.rerank >= 0 PROVE Logistic[c.rerank] \in 0..ScoreTop
  <2>1. c.rerank \in 0..ScoreTop
    BY <1>1, <1>2
  <2>2. Logistic \in [0..ScoreTop -> 0..ScoreTop]
    BY RetrievalAssumption DEF RetrievalAssumption
  <2> QED
    BY <2>1, <2>2
<1> QED
  BY <1>1, <1>2 DEF Final, Signal

\* The best one of a set of numbers is one of them, and it has the largest value.
LEMMA ForemostFacts ==
    ASSUME NEW n \in Nat, NEW T \in SUBSET (1..n), T # {}, NEW value, \A i \in T : value[i] \in Int
    PROVE  Foremost(T, value) \in T /\ \A j \in T : value[Foremost(T, value)] >= value[j]
<1>1. PICK R : R = Descending(T, value)
  OBVIOUS
<1>2. T \in SUBSET Int /\ IsFiniteSet(T) /\ Cardinality(T) \in Nat
  <2>1. 1..n \subseteq Int
    OBVIOUS
  <2> QED
    BY <2>1, PlacesFinite
<1>3. TotalOrder(R, T)
  BY <1>1, <1>2, DescendingTotal
<1>4. PICK q : q = Sorted(T, R)
  OBVIOUS
<1>5. q \in Seq(T) /\ ToSet(q) = T /\ Once(q) /\ \A i, j \in DOMAIN q : i < j => <<q[i], q[j]>> \in R
  <2>1. T \in SUBSET T
    OBVIOUS
  <2> QED
    BY <1>2, <1>3, <1>4, <2>1, InSequence
<1>6. PICK m \in Nat : DOMAIN q = 1..m
  BY <1>5
<1>7. 1 \in DOMAIN q
  BY <1>5, <1>6 DEF ToSet
<1>8. q[1] \in T /\ \A j \in T \ {q[1]} : <<q[1], j>> \in R
  <2>1. q[1] \in T
    BY <1>5, <1>7
  <2>2. ASSUME NEW j \in T, j # q[1] PROVE <<q[1], j>> \in R
    <3>1. PICK k \in DOMAIN q : q[k] = j
      BY <1>5 DEF ToSet
    <3>2. 1 < k
      BY <1>6, <2>2, <3>1
    <3> QED
      BY <1>5, <1>7, <3>1, <3>2
  <2> QED
    BY <2>1, <2>2
<1>9. PICK x : x = Foremost(T, value)
  OBVIOUS
<1>10. x \in T /\ \A j \in T \ {x} : <<x, j>> \in R
  BY <1>1, <1>8, <1>9 DEF Foremost
<1>11. ASSUME NEW j \in T PROVE value[x] >= value[j]
  <2>1. CASE j = x
    BY <1>10, <2>1
  <2>2. CASE j # x
    <3>1. <<x, j>> \in R
      BY <1>10, <2>2
    <3>2. value[x] > value[j] \/ value[x] = value[j]
      BY <1>1, <3>1 DEF Descending
    <3> QED
      BY <1>10, <3>2
  <2> QED
    BY <2>1, <2>2
<1> QED
  BY <1>9, <1>10, <1>11

\* What is on the way to the final cut: every chunk with its score.
Listed(order) == [k \in DOMAIN order |-> [pool[order[k]] EXCEPT !.final = Final(pool[order[k]])]]

\* _finalise takes some of the places, the first one always; of the others some are cut off.
LEMMA CutPlaces ==
    ASSUME NEW order, NEW n \in Nat, n = Len(order)
    PROVE  \E kept \in SUBSET (1..n) : \E tail \in SUBSET (DOMAIN order \ kept) :
             /\ n > 0 => 1 \in kept
             /\ CutInOrder(order).kept = Picked(Listed(order), kept)
             /\ CutInOrder(order).out =
                    Dropped(Picked(Listed(order), (DOMAIN order \ kept) \ tail), "max_per_document")
                    \o Dropped(Picked(Listed(order), tail), "top_n")
<1> DEFINE listed == [k \in DOMAIN order |-> [pool[order[k]] EXCEPT !.final = Final(pool[order[k]])]]
           siblings(k, some) == {j \in some : corpus[listed[j].chunk].doc = corpus[listed[k].chunk].doc}
           room(k, some) == Cardinality(some) < TopN /\ Cardinality(siblings(k, some)) < PerDocument
           V == SUBSET (1..n)
           Next1(k, K) == K \cup IF room(k, K) THEN {k} ELSE {}
           step == [k \in 1..n |-> [K \in V |-> Next1(k, K)]]
           Level(f) == f = [k \in 0..Len(order) |->
                              IF k = 0 THEN {} ELSE f[k - 1] \cup IF room(k, f[k - 1]) THEN {k} ELSE {}]
           after == CHOOSE f : Level(f)
           kept == after[Len(order)]
           tail == {k \in DOMAIN order \ kept : Cardinality(after[k - 1]) >= TopN}
<1>1. /\ CutInOrder(order).kept = Picked(listed, kept)
      /\ CutInOrder(order).out = Dropped(Picked(listed, (DOMAIN order \ kept) \ tail), "max_per_document")
                                 \o Dropped(Picked(listed, tail), "top_n")
  BY Zenon DEF CutInOrder
<1>2. listed = Listed(order)
  BY DEF Listed
<1> HIDE DEF listed
<1>3. \A f : Level(f) <=> f = [k \in 0..n |->
                              IF k = 0 THEN {} ELSE f[k - 1] \cup IF room(k, f[k - 1]) THEN {k} ELSE {}]
  OBVIOUS
<1>5. \A k \in 1..n, K \in V : Next1(k, K) \in V
  OBVIOUS
<1>6. step \in StepsOf(n, V) /\ {} \in V /\ \A k \in 1..n, K \in V : step[k][K] = Next1(k, K)
  BY <1>5 DEF StepsOf
<1> HIDE DEF V, step, room, tail
<1>b. PICK b : b = {}
  OBVIOUS
<1>7. PICK f \in [0..n -> V] : f[0] = {} /\ \A k \in 1..n : f[k] = step[k][f[k - 1]]
  <2>1. n \in Nat /\ step \in StepsOf(n, V) /\ b \in V
    BY <1>6, <1>b
  <2>2. \E f \in [0..n -> V] : f[0] = b /\ \A k \in 1..n : f[k] = step[k][f[k - 1]]
    BY <2>1, Recursion, Z3
  <2> QED
    BY <2>2, <1>b
<1>8. Level(f)
  <2>1. ASSUME NEW i \in 0..n PROVE f[i] = IF i = 0 THEN {} ELSE Next1(i, f[i - 1])
    <3>1. CASE i = 0
      BY <1>7, <3>1
    <3>2. CASE i \in 1..n
      <4>1. i - 1 \in 0..n /\ i # 0
        BY <3>2
      <4>2. f[i - 1] \in V
        BY <1>7, <4>1
      <4>3. f[i] = Next1(i, f[i - 1])
        BY <1>6, <1>7, <3>2, <4>2
      <4> QED
        BY <4>1, <4>3
    <3> QED
      BY <3>1, <3>2
  <2>2. f = [i \in 0..n |-> f[i]]
    BY <1>7
  <2> QED
    BY <1>3, <2>1, <2>2
<1> HIDE DEF Level
<1>9. Level(after)
  BY <1>8
<1> HIDE DEF after
<1>10. \A k \in 0..n : after[k] = IF k = 0 THEN {} ELSE Next1(k, after[k - 1])
  BY <1>3, <1>9
<1> DEFINE Has(k) == k > 0 => 1 \in after[k]
           S == {k \in Nat : k <= n => after[k] \in V /\ Has(k)}
<1> HIDE DEF Next1
<1>11. 0 \in S
  <2>1. 0 \in 0..n
    OBVIOUS
  <2>2. after[0] = {}
    BY <1>10, <2>1
  <2>3. after[0] \in V
    BY <1>6, <2>2
  <2>4. Has(0)
    OBVIOUS
  <2> HIDE DEF Has
  <2> QED
    BY <2>3, <2>4
<1>12. ASSUME NEW k \in S PROVE k + 1 \in S
  <2> SUFFICES ASSUME k + 1 <= n PROVE after[k + 1] \in V /\ 1 \in after[k + 1]
    BY <1>12
  <2>1. k \in Nat /\ k <= n /\ k + 1 \in 0..n /\ k + 1 \in 1..n /\ k + 1 # 0 /\ k + 1 - 1 = k
    OBVIOUS
  <2>2. after[k] \in V /\ (k > 0 => 1 \in after[k])
    BY <2>1
  <2>3. after[k + 1] = Next1(k + 1, after[k])
    BY <1>10, <2>1
  <2>4. after[k + 1] \in V
    BY <1>5, <2>1, <2>2, <2>3
  <2>5. CASE k > 0
    BY <2>2, <2>3, <2>4, <2>5 DEF Next1
  <2>6. CASE k = 0
    <3>1. after[k] = {}
      BY <1>10, <2>1, <2>6
    <3>2. Cardinality({}) = 0
      BY FS_EmptySet
    <3>3. siblings(1, {}) = {}
      OBVIOUS
    <3>4. room(1, {})
      BY <3>2, <3>3, Limits DEF room
    <3> QED
      BY <2>3, <2>4, <2>6, <3>1, <3>4 DEF Next1
  <2> QED
    BY <2>1, <2>4, <2>5, <2>6
<1> HIDE DEF S
<1>13. S = Nat
  <2>1. S \in SUBSET Nat
    BY DEF S
  <2> QED
    BY <1>11, <1>12, <2>1, SetInduction
<1>14. kept \in SUBSET (1..n) /\ (n > 0 => 1 \in kept)
  <2>1. n \in S /\ Len(order) = n
    BY <1>13
  <2> QED
    BY <2>1 DEF S, V
<1> HIDE DEF kept
<1>15. tail \in SUBSET (DOMAIN order \ kept)
  BY DEF tail
<1> QED
  BY <1>1, <1>2, <1>14, <1>15

\* _finalise: the chunk that comes first is kept, and every other one is, or is in the ledger.
LEMMA CutInOrderFacts ==
    ASSUME pool \in Seq(Scored), Unrepeated(pool), NEW order \in Seq(DOMAIN pool), Once(order), ToSet(order) = DOMAIN pool
    PROVE  /\ CutInOrder(order).kept \in Seq(Scored) /\ CutInOrder(order).out \in Seq(Entries)
           /\ Audit(CutInOrder(order).kept, CutInOrder(order).out, Names(pool))
           /\ order # <<>> => \E i \in DOMAIN CutInOrder(order).kept :
                                Signal(CutInOrder(order).kept[i]) = Signal(pool[order[1]])
<1> DEFINE listed == Listed(order)
<1>1. PICK n \in Nat : n = Len(order) /\ DOMAIN order = 1..n /\ \A k \in 1..n : order[k] \in DOMAIN pool
  OBVIOUS
<1>2. \A i \in DOMAIN pool : pool[i] \in Scored
  OBVIOUS
<1>3. /\ listed \in Seq(Scored) /\ DOMAIN listed = 1..n
      /\ \A k \in 1..n : listed[k].chunk = pool[order[k]].chunk /\ Signal(listed[k]) = Signal(pool[order[k]])
  <2>1. ASSUME NEW k \in 1..n
        PROVE /\ listed[k] \in Scored
              /\ listed[k].chunk = pool[order[k]].chunk /\ Signal(listed[k]) = Signal(pool[order[k]])
    <3>1. PICK c \in Scored : c = pool[order[k]]
      BY <1>1, <1>2
    <3>2. listed[k] = [c EXCEPT !.final = Final(c)]
      BY <1>1, <3>1 DEF Listed
    <3>3. Final(c) \in 0..ScoreTop
      BY FinalType
    <3>4. /\ [c EXCEPT !.final = Final(c)] \in Scored
          /\ [c EXCEPT !.final = Final(c)].chunk = c.chunk
          /\ [c EXCEPT !.final = Final(c)].rerank = c.rerank
          /\ [c EXCEPT !.final = Final(c)].fusion = c.fusion
      BY <3>3 DEF Scored
    <3> QED
      BY <3>1, <3>2, <3>4 DEF Signal
  <2> HIDE DEF Scored
  <2>2. DOMAIN listed = 1..n
    BY <1>1 DEF Listed
  <2>3. listed = [k \in 1..n |-> listed[k]]
    BY <1>1 DEF Listed
  <2> HIDE DEF listed
  <2>4. listed \in Seq(Scored)
    BY <1>1, <2>1, <2>3
  <2> QED
    BY <2>1, <2>2, <2>4
<1> HIDE DEF listed
<1>a. PICK kept \in SUBSET (1..n) : \E tail \in SUBSET (DOMAIN order \ kept) :
             /\ n > 0 => 1 \in kept
             /\ CutInOrder(order).kept = Picked(Listed(order), kept)
             /\ CutInOrder(order).out =
                    Dropped(Picked(Listed(order), (DOMAIN order \ kept) \ tail), "max_per_document")
                    \o Dropped(Picked(Listed(order), tail), "top_n")
  BY <1>1, CutPlaces, Zenon
<1>4. PICK tail \in SUBSET (DOMAIN order \ kept) :
             /\ n > 0 => 1 \in kept
             /\ CutInOrder(order).kept = Picked(Listed(order), kept)
             /\ CutInOrder(order).out =
                    Dropped(Picked(Listed(order), (DOMAIN order \ kept) \ tail), "max_per_document")
                    \o Dropped(Picked(Listed(order), tail), "top_n")
  BY <1>a
<1>14. PICK over : over = (DOMAIN order \ kept) \ tail
  OBVIOUS
<1>15. Unrepeated(listed) /\ Names(listed) = Names(pool)
  <2>1. DOMAIN listed = DOMAIN order
    BY <1>1, <1>3
  <2>2. \A k \in DOMAIN order : listed[k].chunk = pool[order[k]].chunk
    BY <1>1, <1>3
  <2> QED
    BY <1>3, <2>1, <2>2, Reordered, SMTT(25)
<1>16. PICK rest : rest = DOMAIN order \ kept
  OBVIOUS
<1>17. /\ kept \in SUBSET DOMAIN listed /\ rest \in SUBSET DOMAIN listed /\ kept \cap rest = {} /\ kept \cup rest = DOMAIN listed
       /\ tail \in SUBSET rest /\ over = rest \ tail
  BY <1>1, <1>3, <1>4, <1>14, <1>16
<1>18. /\ tail \in SUBSET DOMAIN listed /\ over \in SUBSET DOMAIN listed /\ tail \cap over = {} /\ tail \cup over = rest
  BY <1>17
<1>19. /\ Picked(listed, kept) \in Seq(Scored) /\ Unrepeated(Picked(listed, kept))
       /\ Names(Picked(listed, kept)) = {listed[i].chunk : i \in kept}
  BY <1>3, <1>15, <1>17, PickedNames
<1>20. {listed[i].chunk : i \in kept} \cap {listed[i].chunk : i \in rest} = {}
       /\ {listed[i].chunk : i \in kept} \cup {listed[i].chunk : i \in rest} = Names(listed)
  <2>1. \A i \in kept, j \in rest : listed[i].chunk # listed[j].chunk
    BY <1>15, <1>17 DEF Unrepeated
  <2>2. \A i \in DOMAIN listed : i \in kept \/ i \in rest
    BY <1>17
  <2> QED
    BY <1>17, <2>1, <2>2 DEF Names
<1>21. /\ Picked(listed, over) \in Seq(Scored) /\ Picked(listed, tail) \in Seq(Scored)
       /\ Unrepeated(Picked(listed, over)) /\ Unrepeated(Picked(listed, tail))
       /\ Names(Picked(listed, over)) \cap Names(Picked(listed, tail)) = {}
       /\ Names(Picked(listed, over)) \cup Names(Picked(listed, tail)) = {listed[i].chunk : i \in over \cup tail}
  <2>1. over \cap tail = {}
    BY <1>18
  <2> QED
    BY <1>3, <1>15, <1>18, <2>1, Parted
<1>22. PICK d, e : d = Dropped(Picked(listed, over), "max_per_document") /\ e = Dropped(Picked(listed, tail), "top_n")
  OBVIOUS
<1>23. d \in Seq(Entries) /\ Names(d) = Names(Picked(listed, over)) /\ Unrepeated(d)
  <2>1. "max_per_document" \in DropReasons
    BY DEF DropReasons
  <2> QED
    BY <1>21, <1>22, <2>1, DroppedNames
<1>24. e \in Seq(Entries) /\ Names(e) = Names(Picked(listed, tail)) /\ Unrepeated(e)
  <2>1. "top_n" \in DropReasons
    BY DEF DropReasons
  <2> QED
    BY <1>21, <1>22, <2>1, DroppedNames
<1>25. d \o e \in Seq(Entries) /\ Unrepeated(d \o e) /\ Names(d \o e) = {listed[i].chunk : i \in rest}
  <2>1. /\ d \o e \in Seq(Entries) /\ Names(d \o e) = Names(d) \cup Names(e)
        /\ Unrepeated(d) /\ Unrepeated(e) /\ Names(d) \cap Names(e) = {} => Unrepeated(d \o e)
    BY <1>23, <1>24, JoinNames
  <2>2. over \cup tail = rest
    BY <1>18
  <2> QED
    BY <1>21, <1>23, <1>24, <2>1, <2>2
<1>26. Audit(Picked(listed, kept), d \o e, Names(pool))
  BY <1>15, <1>19, <1>20, <1>25 DEF Audit
<1>27. ASSUME order # <<>>
       PROVE \E i \in DOMAIN Picked(listed, kept) : Signal(Picked(listed, kept)[i]) = Signal(pool[order[1]])
  <2>1. 1 \in kept /\ 1 \in 1..n
    BY <1>1, <1>4, <1>27
  <2>2. ToSet(Picked(listed, kept)) = {listed[i] : i \in kept}
    BY <1>3, <1>17, PickedSet
  <2>3. listed[1] \in ToSet(Picked(listed, kept))
    BY <2>1, <2>2
  <2>4. PICK i \in DOMAIN Picked(listed, kept) : Picked(listed, kept)[i] = listed[1]
    BY <2>3 DEF ToSet
  <2> QED
    BY <1>3, <2>1, <2>4
<1>28. CutInOrder(order).kept = Picked(listed, kept) /\ CutInOrder(order).out = d \o e
  BY <1>4, <1>14, <1>22 DEF listed
<1> QED
  BY <1>19, <1>25, <1>26, <1>27, <1>28

\* What the chunks of a pool are worth by themselves lies between two numbers.
LEMMA SignalRange ==
    ASSUME pool \in Seq(Scored), NEW n \in Nat, n = Len(pool), n > 0,
           NEW S, S = {Signal(pool[i]) : i \in DOMAIN pool}
    PROVE  /\ Min(S) \in Int /\ Max(S) \in Int /\ Max(S) \in S
           /\ \A i \in 1..n : Signal(pool[i]) \in Int /\ Min(S) <= Signal(pool[i]) /\ Signal(pool[i]) <= Max(S)
<1>1. DOMAIN pool = 1..n /\ \A i \in 1..n : pool[i] \in Scored
  OBVIOUS
<1>2. \A i \in 1..n : Signal(pool[i]) \in Int
  <2>1. 0..ScoreTop \subseteq Int
    BY RetrievalAssumption DEF RetrievalAssumption
  <2> QED
    BY <1>1, <2>1, FinalType
<1>3. S \in SUBSET Int /\ Signal(pool[1]) \in S /\ \A i \in 1..n : Signal(pool[i]) \in S
  BY <1>1, <1>2
<1>4. IsFiniteSet(S)
  <2>1. PICK q : q = [i \in 1..n |-> Signal(pool[i])]
    OBVIOUS
  <2>2. q \in Seq(Int)
    BY <1>2, <2>1
  <2>3. ToSet(q) = S
    BY <1>1, <2>1 DEF ToSet
  <2> QED
    BY <2>2, <2>3, ToSetFinite
<1>5. Max(S) \in S /\ \A y \in S : Max(S) >= y
  BY <1>3, <1>4, MaxFacts
<1>6. Min(S) \in S /\ \A y \in S : Min(S) <= y
  BY <1>3, <1>4, MinFacts
<1> QED
  BY <1>2, <1>3, <1>5, <1>6

\* maximal_marginal_relevance lists every place once, the most relevant first.
LEMMA DiversifiedFacts ==
    ASSUME pool \in Seq(Scored), NEW n \in Nat, n = Len(pool), NEW known
    PROVE  /\ Diversified(known) \in Seq(DOMAIN pool) /\ Once(Diversified(known))
           /\ ToSet(Diversified(known)) = DOMAIN pool
           /\ n > 0 => \A j \in 1..n : Signal(pool[Diversified(known)[1]]) >= Signal(pool[j])
<1>a. IsFiniteSet(1..n) /\ Cardinality(1..n) = n
  BY CountTo
<1> DEFINE S == {Signal(pool[i]) : i \in DOMAIN pool}
           low == Min(S)
           spread == Max(S) - low
           alike(i, j) == /\ {pool[i].chunk, pool[j].chunk} \subseteq known
                          /\ corpus[pool[i].chunk].topic = corpus[pool[j].chunk].topic
           worth(i, chosen) ==
               LET repeats == \E j \in chosen : alike(i, j) IN
               IF spread = 0 THEN IF repeats THEN 0 ELSE 1
               ELSE Signal(pool[i]) - low - IF repeats THEN spread ELSE 0
           Next1(v) == LET chosen == ToSet(v)
                           left == DOMAIN pool \ chosen IN
                       Append(v, Foremost(left, [i \in left |-> worth(i, chosen)]))
           Level(f) == f = [k \in 0..Len(pool) |->
                              IF k = 0 THEN <<>>
                              ELSE LET chosen == ToSet(f[k - 1])
                                       left == DOMAIN pool \ chosen IN
                                   Append(f[k - 1], Foremost(left, [i \in left |-> worth(i, chosen)]))]
           after == CHOOSE f : Level(f)
           best(v, i) == Foremost((1..n) \ ToSet(v), [j \in (1..n) \ ToSet(v) |-> worth(j, ToSet(v))])
           nothing == Foremost({}, [i \in {} |-> 0])
           U == (1..n) \cup {nothing}
           V == Seq(U)
           step == [k \in 1..n |-> [v \in V |-> Next1(v)]]
<1>1. DOMAIN pool = 1..n
  OBVIOUS
<1>2. Diversified(known) = after[Len(pool)]
  BY Zenon DEF Diversified
<1>3. \A f : Level(f) <=> f = [k \in 0..n |-> IF k = 0 THEN <<>> ELSE Next1(f[k - 1])]
  OBVIOUS
<1>4. ASSUME NEW i \in 1..n, NEW chosen
      PROVE  worth(i, chosen) \in Int
  <2>1. n > 0
    BY <1>4
  <2>2. low \in Int /\ spread \in Int /\ Signal(pool[i]) \in Int
    <3>1. /\ Min(S) \in Int /\ Max(S) \in Int
          /\ \A k \in 1..n : Signal(pool[k]) \in Int /\ Min(S) <= Signal(pool[k]) /\ Signal(pool[k]) <= Max(S)
      BY <2>1, SignalRange
    <3> HIDE DEF S
    <3> QED
      BY <1>4, <3>1
  <2> HIDE DEF low, spread, alike
  <2>3. PICK repeats : repeats = \E j \in chosen : alike(i, j)
    OBVIOUS
  <2> QED
    BY <2>2
<1>5. ASSUME NEW i \in 1..n, NEW j \in 1..n, worth(i, {}) >= worth(j, {})
      PROVE  Signal(pool[i]) >= Signal(pool[j])
  <2>1. /\ low \in Int /\ spread \in Int /\ Signal(pool[i]) \in Int /\ Signal(pool[j]) \in Int
        /\ low <= Signal(pool[i]) /\ Signal(pool[i]) <= low + spread
        /\ low <= Signal(pool[j]) /\ Signal(pool[j]) <= low + spread
    <3>1. n > 0
      BY <1>5
    <3>2. /\ Min(S) \in Int /\ Max(S) \in Int
          /\ \A k \in 1..n : Signal(pool[k]) \in Int /\ Min(S) <= Signal(pool[k]) /\ Signal(pool[k]) <= Max(S)
      BY <3>1, SignalRange
    <3> HIDE DEF S
    <3>3. Min(S) + (Max(S) - Min(S)) = Max(S)
      BY <3>2
    <3> QED
      BY <3>2, <3>3
  <2>a. \A x \in 1..n : Signal(pool[x]) \in Int
    <3>1. n > 0
      BY <1>5
    <3> QED
      BY <3>1, SignalRange
  <2>2. /\ worth(i, {}) = IF spread = 0 THEN 1 ELSE Signal(pool[i]) - low
        /\ worth(j, {}) = IF spread = 0 THEN 1 ELSE Signal(pool[j]) - low
    <3> HIDE DEF low, spread, alike
    <3>1. ASSUME NEW x \in 1..n PROVE worth(x, {}) = IF spread = 0 THEN 1 ELSE Signal(pool[x]) - low
      <4>1. ~\E y \in {} : alike(x, y)
        OBVIOUS
      <4>2. Signal(pool[x]) \in Int /\ low \in Int
        BY <2>1, <2>a
      <4> QED
        BY <4>1, <4>2
    <3> QED
      BY <3>1
  <2> HIDE DEF low, spread, worth
  <2>3. CASE spread = 0
    BY <2>1, <2>3
  <2>4. CASE spread # 0
    BY <1>5, <2>1, <2>2, <2>4
  <2> QED
    BY <2>3, <2>4
<1> HIDE DEF worth
<1>6. ASSUME NEW v \in V
      PROVE  /\ Next1(v) \in V
             /\ (1..n) \ ToSet(v) # {} =>
                  \E x \in (1..n) \ ToSet(v) :
                     /\ Next1(v) = Append(v, x)
                     /\ \A j \in (1..n) \ ToSet(v) : worth(x, ToSet(v)) >= worth(j, ToSet(v))
  <2>1. PICK left : left = (1..n) \ ToSet(v)
    OBVIOUS
  <2>2. PICK value : value = [i \in left |-> worth(i, ToSet(v))]
    OBVIOUS
  <2>3. Next1(v) = Append(v, Foremost(left, value))
    BY <1>1, <2>1, <2>2
  <2>4. CASE left = {}
    <3>1. value = [i \in {} |-> 0]
      BY <2>2, <2>4
    <3>2. Foremost(left, value) = nothing
      BY <2>4, <3>1
    <3> QED
      BY <2>1, <2>3, <2>4, <3>2
  <2>5. CASE left # {}
    <3>1. left \in SUBSET (1..n) /\ \A i \in left : value[i] \in Int /\ value[i] = worth(i, ToSet(v))
      BY <1>4, <2>1, <2>2
    <3>2. PICK x : x = Foremost(left, value)
      OBVIOUS
    <3>3. x \in left /\ \A j \in left : value[x] >= value[j]
      BY <2>5, <3>1, <3>2, ForemostFacts
    <3>4. x \in U
      BY <3>1, <3>3
    <3> HIDE DEF U, Next1
    <3>5. Append(v, x) \in V
      BY <3>4
    <3> QED
      BY <2>1, <2>3, <3>1, <3>2, <3>3, <3>5
  <2> QED
    BY <2>4, <2>5
<1>7. <<>> \in V
  OBVIOUS
<1>8. step \in StepsOf(n, V) /\ \A k \in 1..n, v \in V : step[k][v] = Next1(v)
  BY <1>6 DEF StepsOf
<1> HIDE DEF Next1, V, step
<1>9. PICK f \in [0..n -> V] : f[0] = <<>> /\ \A k \in 1..n : f[k] = step[k][f[k - 1]]
  <2>1. PICK b \in V : b = <<>>
    BY <1>7
  <2>2. \E f \in [0..n -> V] : f[0] = b /\ \A k \in 1..n : f[k] = step[k][f[k - 1]]
    BY <1>8, Recursion, Z3
  <2> QED
    BY <2>1, <2>2
<1>10. Level(f)
  <2>1. ASSUME NEW i \in 0..n PROVE f[i] = IF i = 0 THEN <<>> ELSE Next1(f[i - 1])
    <3>1. CASE i = 0
      BY <1>9, <3>1
    <3>2. CASE i \in 1..n
      <4>1. i - 1 \in 0..n /\ i # 0
        BY <3>2
      <4>2. f[i - 1] \in V
        BY <1>9, <4>1
      <4>3. f[i] = Next1(f[i - 1])
        BY <1>8, <1>9, <3>2, <4>2
      <4> QED
        BY <4>1, <4>3
    <3> QED
      BY <3>1, <3>2
  <2>2. f = [i \in 0..n |-> f[i]]
    BY <1>9
  <2>3. f = [i \in 0..n |-> IF i = 0 THEN <<>> ELSE Next1(f[i - 1])]
    BY <2>1, <2>2
  <2> QED
    BY <1>3, <2>3
<1> HIDE DEF Level
<1>11. Level(after)
  BY <1>10
<1> HIDE DEF after
<1>12. \A k \in 0..n : after[k] = IF k = 0 THEN <<>> ELSE Next1(after[k - 1])
  BY <1>3, <1>11
<1> DEFINE Fine(v, k) == /\ v \in Seq(1..n) /\ Len(v) = k /\ Once(v)
                         /\ k > 0 => v[1] \in 1..n /\ \A j \in 1..n : Signal(pool[v[1]]) >= Signal(pool[j])
           G == {k \in Nat : k <= n => Fine(after[k], k)}
<1>13. 0 \in G
  <2>1. after[0] = <<>>
    <3>1. 0 \in 0..n
      OBVIOUS
    <3> QED
      BY <1>12, <3>1
  <2>2. Fine(<<>>, 0)
    BY DEF Once
  <2> HIDE DEF Fine
  <2> QED
    BY <2>1, <2>2
<1>14. ASSUME NEW k \in G PROVE k + 1 \in G
  <2> SUFFICES ASSUME k + 1 <= n PROVE Fine(after[k + 1], k + 1)
    BY <1>14
  <2>1. k \in Nat /\ k <= n /\ k + 1 \in 0..n /\ k + 1 # 0 /\ k + 1 - 1 = k
    OBVIOUS
  <2>2. PICK v : v = after[k]
    OBVIOUS
  <2>3. Fine(v, k)
    BY <2>1, <2>2
  <2>4. v \in Seq(1..n) /\ Len(v) = k /\ Once(v)
        /\ (k > 0 => v[1] \in 1..n /\ \A j \in 1..n : Signal(pool[v[1]]) >= Signal(pool[j]))
    BY <2>3
  <2>5. v \in V
    BY <2>4 DEF V
  <2>6. after[k + 1] = Next1(v)
    BY <1>12, <2>1, <2>2
  <2>7. (1..n) \ ToSet(v) # {}
    <3>1. IsFiniteSet(ToSet(v)) /\ Cardinality(ToSet(v)) = k
      BY <2>4, OnceCounts
    <3>3. ASSUME 1..n \subseteq ToSet(v) PROVE FALSE
      <4>1. Cardinality(1..n) <= Cardinality(ToSet(v))
        BY <3>1, <3>3, FS_Subset
      <4> QED
        BY <1>a, <2>1, <3>1, <4>1
    <3> QED
      BY <3>3
  <2>8. PICK x \in (1..n) \ ToSet(v) :
          /\ Next1(v) = Append(v, x)
          /\ \A j \in (1..n) \ ToSet(v) : worth(x, ToSet(v)) >= worth(j, ToSet(v))
    BY <1>6, <2>5, <2>7
  <2>9. /\ Append(v, x) \in Seq(1..n) /\ Len(Append(v, x)) = k + 1 /\ Once(Append(v, x))
        /\ Append(v, x)[1] = IF k = 0 THEN x ELSE v[1]
    BY <2>4, <2>8, OneMore
  <2>10. CASE k = 0
    <3>1. ToSet(v) = {}
      BY <2>4, <2>10 DEF ToSet
    <3>2. \A j \in 1..n : worth(x, {}) >= worth(j, {})
      BY <2>8, <3>1
    <3>3. \A j \in 1..n : Signal(pool[x]) >= Signal(pool[j])
      BY <1>5, <3>2
    <3> QED
      BY <2>6, <2>8, <2>9, <2>10, <3>3
  <2>11. CASE k > 0
    BY <2>4, <2>6, <2>8, <2>9, <2>11
  <2> QED
    BY <2>1, <2>10, <2>11
<1> HIDE DEF G
<1>15. G = Nat
  <2>1. G \in SUBSET Nat
    BY DEF G
  <2> QED
    BY <1>13, <1>14, <2>1, SetInduction
<1>16. Fine(after[n], n)
  BY <1>15 DEF G
<1>17. ToSet(after[n]) = 1..n
  <2>1. ToSet(after[n]) \subseteq 1..n
    BY <1>16 DEF ToSet
  <2>2. IsFiniteSet(ToSet(after[n])) /\ Cardinality(ToSet(after[n])) = n
    BY <1>16, OnceCounts
  <2> QED
    BY <1>a, <2>1, <2>2, FS_Subset
<1> QED
  BY <1>1, <1>2, <1>16, <1>17

Hits == [chunk : DOMAIN corpus, fusion : FusionScores]
ProbeStates == {"new", "embedded", "failed", "found", "broken"}
Probed == probes \in [1..ProbeCount -> [state : ProbeStates, points : Seq(Hits)]]

\* The chunks of the caller that any probe brought.
Wanted == {c \in FoundChunks : corpus[c].mine}

LEMMA FoundFacts ==
    ASSUME Probed, NEW q, q = [p \in 1..ProbeCount |-> probes[p].points]
    PROVE  FlattenSeq(q) \in Seq(Hits) /\ FoundChunks = {h.chunk : h \in ToSet(FlattenSeq(q))}
<1>1. ProbeCount \in Nat
  BY RetrievalAssumption DEF RetrievalAssumption
<1>2. \A p \in 1..ProbeCount : probes[p].points \in Seq(Hits)
  BY DEF Probed
<1> HIDE DEF Hits
<1>3. q \in Seq(Seq(Hits)) /\ DOMAIN q = 1..ProbeCount /\ \A p \in 1..ProbeCount : q[p] = probes[p].points
  BY <1>1, <1>2
<1>4. FlattenSeq(q) \in Seq(Hits) /\ ToSet(FlattenSeq(q)) = UNION {ToSet(q[i]) : i \in DOMAIN q}
  <2>1. PICK V : V = Hits
    OBVIOUS
  <2>2. q \in Seq(Seq(V))
    BY <1>3, <2>1
  <2>3. FlattenSeq(q) \in Seq(V) /\ ToSet(FlattenSeq(q)) = UNION {ToSet(q[i]) : i \in DOMAIN q}
    BY <2>2, FlatFacts, ZenonT(40)
  <2> QED
    BY <2>1, <2>3
<1>5. FoundChunks = UNION {{q[p][i].chunk : i \in DOMAIN q[p]} : p \in 1..ProbeCount}
  BY <1>3 DEF FoundChunks
<1>6. ASSUME NEW p \in 1..ProbeCount, NEW i \in DOMAIN q[p]
      PROVE  q[p][i].chunk \in {h.chunk : h \in ToSet(FlattenSeq(q))}
  <2>1. q[p][i] \in ToSet(q[p])
    BY DEF ToSet
  <2>2. q[p][i] \in ToSet(FlattenSeq(q))
    BY <1>3, <1>4, <2>1
  <2> QED
    BY <2>2
<1>7. ASSUME NEW h \in ToSet(FlattenSeq(q)) PROVE h.chunk \in FoundChunks
  <2>1. PICK p \in 1..ProbeCount : h \in ToSet(q[p])
    BY <1>3, <1>4
  <2>2. PICK i \in DOMAIN q[p] : q[p][i] = h
    BY <2>1 DEF ToSet
  <2> QED
    BY <1>5, <2>2
<1>8. FoundChunks \subseteq {h.chunk : h \in ToSet(FlattenSeq(q))}
  <2> SUFFICES ASSUME NEW c \in FoundChunks PROVE c \in {h.chunk : h \in ToSet(FlattenSeq(q))}
    OBVIOUS
  <2>1. PICK p \in 1..ProbeCount : c \in {q[p][i].chunk : i \in DOMAIN q[p]}
    BY <1>5
  <2>2. PICK i \in DOMAIN q[p] : c = q[p][i].chunk
    BY <2>1
  <2> QED
    BY <1>6, <2>2
<1>9. {h.chunk : h \in ToSet(FlattenSeq(q))} \subseteq FoundChunks
  BY <1>7
<1> QED
  BY <1>4, <1>8, <1>9

\* _union: the caller's chunks, each once and with a score it was found with.
LEMMA UnionFacts ==
    ASSUME Probed, corpus \in Corpora
    PROVE  Union \in Seq(Scored) /\ Unrepeated(Union) /\ Names(Union) = Wanted
<1> DEFINE found  == FlattenSeq([p \in 1..ProbeCount |-> probes[p].points])
           places == {i \in DOMAIN found : Candidate(found[i])}
           same(i) == {j \in places : found[j].chunk = found[i].chunk}
           firsts == {i \in places : \A j \in same(i) : i <= j}
           best   == [i \in firsts |-> Max({found[j].fusion : j \in same(i)})]
           order  == Sorted(firsts, Descending(firsts, best))
<1>1. Union = [k \in DOMAIN order |-> [chunk |-> found[order[k]].chunk, fusion |-> best[order[k]],
                                       rerank |-> -1, final |-> 0]]
  BY Zenon DEF Union
<1>2. found \in Seq(Hits) /\ FoundChunks = {h.chunk : h \in ToSet(found)}
  BY FoundFacts
<1> HIDE DEF found
<1>3. PICK m \in Nat : m = Len(found) /\ DOMAIN found = 1..m
  BY <1>2
<1>4. \A i \in 1..m : found[i].chunk \in DOMAIN corpus /\ found[i].fusion \in FusionScores
  <2>1. \A i \in 1..m : found[i] \in Hits
    BY <1>2, <1>3
  <2> QED
    BY <2>1 DEF Hits
<1>5. FusionScores \subseteq 0..ScoreTop /\ ScoreTop \in Nat /\ DOMAIN corpus \subseteq ChunkIds
  BY RetrievalAssumption DEF RetrievalAssumption, ChunkIds
<1>6. places \in SUBSET (1..m)
  BY <1>3
<1>7. Wanted = {found[i].chunk : i \in places}
  <2>1. Wanted \subseteq {found[i].chunk : i \in places}
    <3> SUFFICES ASSUME NEW c \in Wanted PROVE c \in {found[i].chunk : i \in places}
      OBVIOUS
    <3>1. c \in FoundChunks /\ corpus[c].mine
      BY DEF Wanted
    <3>2. PICK i \in DOMAIN found : found[i].chunk = c
      BY <1>2, <3>1 DEF ToSet
    <3>3. i \in places
      BY <3>1, <3>2 DEF Candidate
    <3> QED
      BY <3>2, <3>3
  <2>2. {found[i].chunk : i \in places} \subseteq Wanted
    <3> SUFFICES ASSUME NEW i \in places PROVE found[i].chunk \in Wanted
      OBVIOUS
    <3>1. found[i] \in ToSet(found) /\ corpus[found[i].chunk].mine
      BY DEF Candidate, ToSet
    <3> QED
      BY <1>2, <3>1 DEF Wanted
  <2> QED
    BY <2>1, <2>2
<1> HIDE DEF places
<1>8. ASSUME NEW i \in places
      PROVE  same(i) \in SUBSET (1..m) /\ i \in same(i) /\ IsFiniteSet(same(i))
  <2>1. same(i) \in SUBSET (1..m) /\ i \in same(i)
    BY <1>6
  <2> QED
    BY <2>1, PlacesFinite
<1>9. ASSUME NEW i \in places PROVE \E j \in firsts : found[j].chunk = found[i].chunk
  <2>1. PICK j : j = Min(same(i))
    OBVIOUS
  <2>2. same(i) \in SUBSET Int /\ same(i) # {}
    <3>1. 1..m \subseteq Int
      OBVIOUS
    <3> QED
      BY <1>8, <3>1
  <2>3. j \in same(i) /\ \A k \in same(i) : j <= k
    BY <1>8, <2>1, <2>2, MinFacts
  <2>4. j \in places /\ found[j].chunk = found[i].chunk
    BY <2>3
  <2>5. same(j) = same(i)
    BY <2>4
  <2> QED
    BY <2>3, <2>4, <2>5
<1>10. \A i, j \in firsts : found[i].chunk = found[j].chunk => i = j
  <2> SUFFICES ASSUME NEW i \in firsts, NEW j \in firsts, found[i].chunk = found[j].chunk PROVE i = j
    OBVIOUS
  <2>1. j \in same(i) /\ i \in same(j) /\ i \in 1..m /\ j \in 1..m
    BY <1>6
  <2>2. i <= j /\ j <= i
    BY <2>1
  <2> QED
    BY <2>1, <2>2
<1>11. firsts \in SUBSET places /\ firsts \in SUBSET (1..m) /\ firsts \in SUBSET Int /\ IsFiniteSet(firsts)
  <2>1. firsts \in SUBSET places /\ firsts \in SUBSET (1..m)
    BY <1>6
  <2>2. 1..m \subseteq Int
    OBVIOUS
  <2> QED
    BY <2>1, <2>2, PlacesFinite
<1>12. ASSUME NEW i \in firsts PROVE best[i] \in 0..ScoreTop
  <2>1. PICK T : T = {found[j].fusion : j \in same(i)}
    OBVIOUS
  <2>2. i \in places
    BY <1>11
  <2>3. T \subseteq FusionScores /\ T # {} /\ T \in SUBSET Int
    <3>1. 0..ScoreTop \subseteq Int
      BY <1>5
    <3>2. same(i) \in SUBSET (1..m) /\ i \in same(i)
      BY <1>8, <2>2
    <3> HIDE DEF same
    <3>3. \A j \in same(i) : found[j].fusion \in FusionScores
      BY <1>4, <3>2
    <3>4. T \subseteq FusionScores /\ T # {}
      BY <2>1, <3>2, <3>3
    <3> QED
      BY <1>5, <3>1, <3>4
  <2>4. IsFiniteSet(T)
    <3>1. IsFiniteSet(0..ScoreTop)
      BY <1>5, FS_Interval
    <3>2. T \subseteq 0..ScoreTop
      BY <1>5, <2>3
    <3> QED
      BY <3>1, <3>2, FS_Subset
  <2>5. Max(T) \in T
    BY <2>3, <2>4, MaxFacts
  <2>6. best[i] = Max(T)
    BY <2>1
  <2> QED
    BY <1>5, <2>3, <2>5, <2>6
<1> HIDE DEF firsts, best
<1>13. order \in Seq(firsts) /\ ToSet(order) = firsts /\ Once(order)
  <2>1. \A i \in firsts : best[i] \in Int
    <3>1. 0..ScoreTop \subseteq Int
      BY <1>5
    <3> QED
      BY <1>12, <3>1
  <2>2. TotalOrder(Descending(firsts, best), firsts)
    BY <1>11, <2>1, DescendingTotal
  <2>3. firsts \in SUBSET firsts
    OBVIOUS
  <2> QED
    BY <1>11, <2>2, <2>3, InSequence
<1> HIDE DEF order
<1>14. PICK l \in Nat : DOMAIN order = 1..l /\ \A k \in 1..l : order[k] \in firsts /\ order[k] \in 1..m
  <2>1. Len(order) \in Nat /\ DOMAIN order = 1..Len(order) /\ \A k \in 1..Len(order) : order[k] \in firsts
    BY <1>13
  <2> QED
    BY <1>11, <2>1
<1>15. PICK u : u = [k \in 1..l |-> [chunk |-> found[order[k]].chunk, fusion |-> best[order[k]],
                                     rerank |-> -1, final |-> 0]]
  OBVIOUS
<1>16. Union = u /\ DOMAIN u = 1..l /\ \A k \in 1..l : u[k].chunk = found[order[k]].chunk
  BY <1>1, <1>14, <1>15
<1>17. u \in Seq(Scored)
  <2>1. ASSUME NEW k \in 1..l PROVE u[k] \in Scored
    <3>1. found[order[k]].chunk \in ChunkIds /\ best[order[k]] \in 0..ScoreTop
      BY <1>4, <1>5, <1>12, <1>14
    <3>2. -1 \in -1..ScoreTop /\ 0 \in 0..ScoreTop
      BY <1>5
    <3> QED
      BY <1>15, <3>1, <3>2 DEF Scored
  <2>2. u = [k \in 1..l |-> u[k]]
    BY <1>15
  <2> HIDE DEF Scored
  <2> QED
    BY <2>1, <2>2
<1>18. Unrepeated(u)
  <2> SUFFICES ASSUME NEW i \in 1..l, NEW j \in 1..l, u[i].chunk = u[j].chunk PROVE i = j
    BY <1>16 DEF Unrepeated
  <2>1. order[i] = order[j]
    BY <1>10, <1>14, <1>16
  <2> QED
    BY <1>13, <1>14, <2>1 DEF Once
<1>19. Names(u) = {found[i].chunk : i \in firsts}
  <2>1. Names(u) \subseteq {found[i].chunk : i \in firsts}
    BY <1>14, <1>16 DEF Names
  <2>2. ASSUME NEW i \in firsts PROVE found[i].chunk \in Names(u)
    <3>1. PICK k \in 1..l : order[k] = i
      BY <1>13, <1>14 DEF ToSet
    <3>2. k \in DOMAIN u /\ u[k].chunk = found[i].chunk
      BY <1>16, <3>1
    <3> QED
      BY <3>2 DEF Names
  <2> QED
    BY <2>1, <2>2
<1>20. {found[i].chunk : i \in firsts} = {found[i].chunk : i \in places}
  <2>1. \A i \in places : found[i].chunk \in {found[j].chunk : j \in firsts}
    BY <1>9 DEF firsts
  <2> QED
    BY <1>11, <2>1
<1> QED
  BY <1>7, <1>16, <1>17, <1>18, <1>19, <1>20

\* The positions the no-op gives, as scores.
LEMMA PositionFacts ==
    ASSUME NEW n \in Nat, NEW i \in 1..n
    PROVE  Position(n)[i] \in 0..ScoreTop
<1>1. ScoreTop \in Nat
  BY RetrievalAssumption DEF RetrievalAssumption
<1>2. PICK x \in 1..n : x = n - i + 1
  OBVIOUS
<1>3. ScoreTop * x <= ScoreTop * n /\ ScoreTop * x \in Nat /\ ScoreTop * n \in Nat
  BY <1>1
<1>4. PICK a \in Nat : a = ScoreTop * x
  BY <1>3
<1>5. n \in Nat /\ n > 0
  OBVIOUS
<1>6. PICK d \in Int : d = a \div n
  BY <1>5
<1>7. n * d <= a /\ a < n * d + n
  BY <1>5, <1>6, Z3
<1>8. d >= 0
  BY <1>5, <1>7, Z3
<1>9. d <= ScoreTop
  <2>1. n * d <= n * ScoreTop
    BY <1>3, <1>4, <1>7, <1>1, Z3
  <2> QED
    BY <1>1, <1>5, <2>1, Z3
<1> QED
  BY <1>1, <1>2, <1>4, <1>6, <1>8, <1>9 DEF Position

\* The length of a list that has no chunk twice.
LEMMA UnrepeatedCounts ==
    ASSUME NEW V, NEW s \in Seq(V), Unrepeated(s)
    PROVE  IsFiniteSet(Names(s)) /\ Cardinality(Names(s)) = Len(s) /\ Len(s) \in Nat
<1>1. PICK n \in Nat : n = Len(s) /\ DOMAIN s = 1..n
  OBVIOUS
<1>2. PICK q : q = [i \in 1..n |-> s[i].chunk]
  OBVIOUS
<1>3. q \in Seq(Names(s)) /\ Len(q) = n /\ DOMAIN q = 1..n
  <2>1. \A i \in 1..n : s[i].chunk \in Names(s)
    BY <1>1 DEF Names
  <2> HIDE DEF Names
  <2> QED
    BY <1>2, <2>1
<1>4. Once(q)
  BY <1>1, <1>2 DEF Once, Unrepeated
<1>5. ToSet(q) = Names(s)
  BY <1>1, <1>2 DEF ToSet, Names
<1> QED
  BY <1>1, <1>3, <1>4, <1>5, OnceCounts

Searched == \E p \in 1..ProbeCount : probes[p].state = "found"
Sorting  == retrieving \in {"dedupe", "rerank", "diversify", "gate"}

(* The inductive invariant: while the chunks are sorted out, the pool and the ledger have
   what the search found; a cached plan is told by its scores; and the stages after the
   search are reached only when a probe was answered. *)
RetrievalInv ==
    /\ RetrievalTypeOK /\ Probed
    /\ retrieving \in {"embed", "search"} => pool = <<>> /\ ledger = <<>>
    /\ retrieving = "search" => /\ \E p \in 1..ProbeCount : probes[p].state # "failed"
                                /\ \A p \in 1..ProbeCount : probes[p].state # "new"
    /\ Sorting \/ retrieving \in {"done", "again"} \/ gate.verdict # "none" => Searched
    /\ \A c \in Names(pool) \cup Names(ledger) : corpus[c].mine
    /\ Sorting \/ Fresh => Audit(pool, ledger, Wanted)
    /\ retrieving = "again" => \E i \in DOMAIN pool : pool[i].fusion = 0

LEMMA EmptyNames == Names(<<>>) = {} /\ Unrepeated(<<>>)
BY DEF Names, Unrepeated

LEMMA RetrievalInitInv == RetrievalInit => RetrievalInv
<1> SUFFICES ASSUME RetrievalInit PROVE RetrievalInv
  OBVIOUS
<1>1. Probed
  <2>1. ProbeCount \in Nat
    BY RetrievalAssumption DEF RetrievalAssumption
  <2>2. "new" \in ProbeStates
    BY DEF ProbeStates
  <2>3. <<>> \in Seq(Hits)
    OBVIOUS
  <2> HIDE DEF Hits
  <2> QED
    BY <2>1, <2>2, <2>3 DEF Probed, RetrievalInit
<1>2. RetrievalTypeOK
  <2>1. \A p \in 1..ProbeCount : probes[p].state = "new"
    BY DEF RetrievalInit
  <2> QED
    BY <2>1 DEF RetrievalTypeOK, RetrievalInit, NoGate
<1> QED
  BY <1>1, <1>2, EmptyNames DEF RetrievalInv, RetrievalInit, Sorting, Fresh, NoGate

LEMMA EmbedProbeStep == ASSUME RetrievalInv, NEW p \in 1..ProbeCount, EmbedProbe(p) PROVE RetrievalInv'
<1>1. PICK outcome \in {"embedded", "failed"} : probes' = [probes EXCEPT ![p].state = outcome]
  BY DEF EmbedProbe
<1>2. /\ retrieving = "embed" /\ UNCHANGED <<corpus, ranker, retrieving, pool, ledger, gate>>
  BY DEF EmbedProbe
<1>3. Probed'
  <2>1. outcome \in ProbeStates
    BY DEF ProbeStates
  <2>2. Probed /\ Hits' = Hits
    BY <1>2 DEF RetrievalInv, Hits
  <2> HIDE DEF Hits, ProbeStates
  <2> QED
    BY <1>1, <2>1, <2>2 DEF Probed
<1>4. RetrievalTypeOK'
  BY <1>2, <1>3 DEF RetrievalInv, RetrievalTypeOK, Probed, ProbeStates
<1>5. gate.verdict = "none" \/ Searched
  BY DEF RetrievalInv
<1>6. Searched => Searched'
  <2> SUFFICES ASSUME NEW q \in 1..ProbeCount, probes[q].state = "found" PROVE Searched'
    BY DEF Searched
  <2>1. probes[p].state = "new"
    BY DEF EmbedProbe
  <2>2. probes'[q] = probes[q]
    BY <1>1, <2>1 DEF RetrievalInv, Probed
  <2> QED
    BY <2>2 DEF Searched
<1>7. pool = <<>> /\ ledger = <<>>
  BY <1>2 DEF RetrievalInv
<1>8. Names(pool') = {} /\ Names(ledger') = {}
  BY <1>2, <1>7, EmptyNames
<1> QED
  BY <1>2, <1>3, <1>4, <1>5, <1>6, <1>7, <1>8 DEF RetrievalInv, Sorting, Fresh

LEMMA EmbedDoneStep == ASSUME RetrievalInv, EmbedDone PROVE RetrievalInv'
<1>1. /\ retrieving = "embed" /\ UNCHANGED <<corpus, ranker, probes, pool, ledger, gate>>
      /\ retrieving' = IF Embedded = {} THEN "error" ELSE "search"
      /\ \A p \in 1..ProbeCount : probes[p].state # "new"
  BY DEF EmbedDone
<1>2. Probed' /\ RetrievalTypeOK'
  BY <1>1 DEF RetrievalInv, Probed, RetrievalTypeOK, Hits
<1>3. pool = <<>> /\ ledger = <<>> /\ (gate.verdict = "none" \/ Searched)
  BY <1>1 DEF RetrievalInv
<1>4. Names(pool') = {} /\ Names(ledger') = {}
  BY <1>1, <1>3, EmptyNames
<1>5. Searched => Searched'
  BY <1>1 DEF Searched
<1>6. retrieving' = "search" => \E p \in 1..ProbeCount : probes'[p].state # "failed"
  BY <1>1 DEF Embedded
<1> QED
  BY <1>1, <1>2, <1>3, <1>4, <1>5, <1>6 DEF RetrievalInv, Sorting, Fresh

LEMMA SearchProbeStep == ASSUME RetrievalInv, NEW p \in 1..ProbeCount, SearchProbe(p) PROVE RetrievalInv'
<1>1. /\ retrieving = "search" /\ probes[p].state = "embedded"
      /\ UNCHANGED <<corpus, ranker, retrieving, pool, ledger, gate>>
  BY DEF SearchProbe
<1>2. Probed /\ Hits' = Hits
  BY <1>1 DEF RetrievalInv, Hits
<1>3. Probed' /\ probes'[p].state \in {"found", "broken"} /\ \A q \in 1..ProbeCount : q # p => probes'[q] = probes[q]
  <2>1. ASSUME NEW points \in Results, probes' = [probes EXCEPT ![p] = [state |-> "found", points |-> points]]
        PROVE  Probed' /\ probes'[p].state \in {"found", "broken"} /\ \A q \in 1..ProbeCount : q # p => probes'[q] = probes[q]
    <3>1. points \in SeqOf(Hits, SearchLimit)
      <4>1. points \in SeqOf([chunk : DOMAIN corpus, fusion : FusionScores], SearchLimit)
        BY DEF Results
      <4> QED
        BY <4>1 DEF Hits
    <3>2. points \in Seq(Hits)
      <4> HIDE DEF Hits
      <4>1. PICK m \in 0..SearchLimit : points \in [1..m -> Hits]
        BY <3>1 DEF SeqOf
      <4>2. m \in Nat
        BY <4>1, Limits
      <4> QED
        BY <4>1, <4>2
    <3>3. "found" \in ProbeStates
      BY DEF ProbeStates
    <3>4. [state |-> "found", points |-> points] \in [state : ProbeStates, points : Seq(Hits)]
      BY <3>2, <3>3
    <3> HIDE DEF Hits, ProbeStates
    <3> QED
      BY <1>2, <2>1, <3>4 DEF Probed
  <2>2. ASSUME probes' = [probes EXCEPT ![p].state = "broken"]
        PROVE  Probed' /\ probes'[p].state \in {"found", "broken"} /\ \A q \in 1..ProbeCount : q # p => probes'[q] = probes[q]
    <3>1. "broken" \in ProbeStates
      BY DEF ProbeStates
    <3> HIDE DEF Hits, ProbeStates
    <3> QED
      BY <1>2, <2>2, <3>1 DEF Probed
  <2> QED
    BY <2>1, <2>2 DEF SearchProbe
<1>4. RetrievalTypeOK'
  BY <1>1, <1>3 DEF RetrievalInv, RetrievalTypeOK, Probed, ProbeStates
<1>5. pool = <<>> /\ ledger = <<>> /\ (gate.verdict = "none" \/ Searched)
      /\ \A q \in 1..ProbeCount : probes[q].state # "new"
  BY <1>1 DEF RetrievalInv
<1>6. Names(pool') = {} /\ Names(ledger') = {}
  BY <1>1, <1>5, EmptyNames
<1>7. Searched => Searched'
  <2> SUFFICES ASSUME NEW q \in 1..ProbeCount, probes[q].state = "found" PROVE Searched'
    BY DEF Searched
  <2>1. probes'[q] = probes[q]
    BY <1>1, <1>3
  <2> QED
    BY <2>1 DEF Searched
<1>8. /\ \E q \in 1..ProbeCount : probes'[q].state # "failed"
      /\ \A q \in 1..ProbeCount : probes'[q].state # "new"
  BY <1>3, <1>5
<1> QED
  BY <1>1, <1>3, <1>4, <1>5, <1>6, <1>7, <1>8 DEF RetrievalInv, Sorting, Fresh

\* A step of the sorting that accounts for every chunk.
LEMMA SortingStep ==
    ASSUME RetrievalInv, UNCHANGED <<corpus, ranker, probes, gate>>, Searched,
           pool' \in Seq(Scored), ledger' \in Seq(Entries), Audit(pool', ledger', Wanted),
           retrieving' \in {"dedupe", "rerank", "diversify", "gate"}
    PROVE  RetrievalInv'
<1>1. Probed' /\ Wanted' = Wanted /\ Searched'
  <2>1. Probed'
    BY DEF RetrievalInv, Probed, Hits
  <2>2. FoundChunks' = FoundChunks
    BY DEF FoundChunks
  <2>3. Wanted' = Wanted
    BY <2>2 DEF Wanted
  <2>4. Searched'
    BY DEF Searched
  <2> QED
    BY <2>1, <2>3, <2>4
<1>2. Scored' = Scored /\ Entries' = Entries
  BY DEF Scored, Entries
<1>3. RetrievalTypeOK'
  <2> HIDE DEF Scored
  <2> QED
    BY <1>1, <1>2 DEF RetrievalInv, RetrievalTypeOK, Probed, ProbeStates, Entries
<1>4. \A c \in Names(pool') \cup Names(ledger') : corpus'[c].mine
  <2>1. \A c \in Wanted : corpus[c].mine
    BY DEF Wanted
  <2> QED
    BY <2>1 DEF Audit
<1> QED
  BY <1>1, <1>3, <1>4 DEF RetrievalInv

LEMMA SearchDoneStep == ASSUME RetrievalInv, SearchDone PROVE RetrievalInv'
<1>1. /\ retrieving = "search" /\ UNCHANGED <<corpus, ranker, probes, ledger, gate>>
      /\ \A p \in Embedded : probes[p].state # "embedded"
  BY DEF SearchDone
<1>2. /\ pool = <<>> /\ ledger = <<>> /\ Probed /\ corpus \in Corpora
      /\ \E p \in 1..ProbeCount : probes[p].state # "failed"
      /\ \A p \in 1..ProbeCount : probes[p].state # "new"
  BY <1>1 DEF RetrievalInv, RetrievalTypeOK
<1>3. CASE retrieving' = "error" /\ UNCHANGED pool
  <2>1. Probed' /\ RetrievalTypeOK' /\ Searched' = Searched
    BY <1>1, <1>3 DEF RetrievalInv, RetrievalTypeOK, Probed, Hits, Searched
  <2>2. Names(pool') = {} /\ Names(ledger') = {}
    BY <1>1, <1>2, <1>3, EmptyNames
  <2> QED
    BY <1>1, <1>2, <1>3, <2>1, <2>2 DEF RetrievalInv, Sorting, Fresh
<1>4. CASE /\ ~(Embedded # {} /\ \A p \in Embedded : probes[p].state = "broken")
           /\ retrieving' = "dedupe" /\ pool' = Union
  <2>1. PICK p \in Embedded : probes[p].state # "broken"
    BY <1>2, <1>4 DEF Embedded
  <2>2. probes[p].state \in ProbeStates
    <3>1. p \in 1..ProbeCount
      BY DEF Embedded
    <3> HIDE DEF Hits, ProbeStates
    <3> QED
      BY <1>2, <3>1 DEF Probed
  <2>3. Searched
    BY <1>1, <1>2, <2>1, <2>2 DEF Searched, Embedded, ProbeStates
  <2>4. pool' \in Seq(Scored) /\ Unrepeated(pool') /\ Names(pool') = Wanted
    BY <1>2, <1>4, UnionFacts
  <2>5. ledger' = <<>> /\ ledger' \in Seq(Entries) /\ Audit(pool', ledger', Wanted)
    BY <1>1, <1>2, <2>4, EmptyNames DEF Audit
  <2> QED
    BY <1>1, <1>4, <2>3, <2>4, <2>5, SortingStep
<1> QED
  BY <1>3, <1>4 DEF SearchDone

LEMMA DedupeStep == ASSUME RetrievalInv, Dedupe PROVE RetrievalInv'
<1>1. PICK q, m : q = Picked(pool, Deduplicated) /\ m = Dropped(Picked(pool, DOMAIN pool \ Deduplicated), "duplicate")
  OBVIOUS
<1>2. /\ retrieving = "dedupe" /\ pool' = q /\ ledger' = ledger \o m /\ retrieving' = "rerank"
      /\ UNCHANGED <<corpus, ranker, probes, gate>>
  BY <1>1 DEF Dedupe
<1>3. pool \in Seq(Scored) /\ ledger \in Seq(Entries) /\ Audit(pool, ledger, Wanted) /\ Searched
  BY <1>2 DEF RetrievalInv, RetrievalTypeOK, Sorting, Entries
<1>4. q \in Seq(Scored) /\ m \in Seq(Entries) /\ Audit(q, m, Names(pool))
  BY <1>1, <1>3, DedupeFacts DEF Audit
<1>5. ledger \o m \in Seq(Entries) /\ Audit(q, ledger \o m, Wanted)
  BY <1>3, <1>4, AuditStep
<1> QED
  BY <1>2, <1>3, <1>4, <1>5, SortingStep

LEMMA RerankStep == ASSUME RetrievalInv, Rerank PROVE RetrievalInv'
<1>1. PICK head, late : head = First(pool, RerankLimit) /\ late = Dropped(After(pool, RerankLimit), "candidate_limit")
  OBVIOUS
<1>2. retrieving = "rerank" /\ retrieving' = "diversify" /\ UNCHANGED <<corpus, ranker, probes, gate>>
  BY DEF Rerank
<1>3. pool \in Seq(Scored) /\ ledger \in Seq(Entries) /\ Audit(pool, ledger, Wanted) /\ Searched
  BY <1>2 DEF RetrievalInv, RetrievalTypeOK, Sorting, Entries
<1>4. Unrepeated(pool)
  BY <1>3 DEF Audit
<1>5. PICK rest : rest = After(pool, RerankLimit)
  OBVIOUS
<1>6. /\ head \in Seq(Scored) /\ rest \in Seq(Scored) /\ Unrepeated(head) /\ Unrepeated(rest)
      /\ Names(head) \cap Names(rest) = {} /\ Names(head) \cup Names(rest) = Names(pool)
  BY <1>1, <1>3, <1>4, <1>5, CutFacts, Limits
<1>7. late \in Seq(Entries) /\ Names(late) = Names(rest) /\ Unrepeated(late)
  <2>1. "candidate_limit" \in DropReasons
    BY DEF DropReasons
  <2> QED
    BY <1>1, <1>5, <1>6, <2>1, DroppedNames
<1>8. Audit(head, late, Names(pool))
  BY <1>6, <1>7 DEF Audit
<1>9. PICK l : l = ledger \o late
  OBVIOUS
<1>10. l \in Seq(Entries) /\ Audit(head, l, Wanted)
  BY <1>3, <1>6, <1>7, <1>8, <1>9, AuditStep
<1>11. CASE pool' = head /\ ledger' = ledger \o late
  BY <1>2, <1>3, <1>6, <1>9, <1>10, <1>11, SortingStep
<1>12. ASSUME NEW scores \in IF ranker = "noop" THEN {Position(Len(head))} ELSE [DOMAIN head -> RerankScores],
              NEW scored, scored = [i \in DOMAIN head |-> [head[i] EXCEPT !.rerank = scores[i]]],
              pool' = RerankCut(scored).kept, ledger' = ledger \o late \o RerankCut(scored).out
       PROVE  RetrievalInv'
  <2>1. PICK n \in Nat : n = Len(head) /\ DOMAIN head = 1..n /\ \A i \in 1..n : head[i] \in Scored
    BY <1>6
  <2>2. \A i \in 1..n : scores[i] \in -1..ScoreTop
    <3>1. RerankScores \subseteq 0..ScoreTop /\ 0..ScoreTop \subseteq -1..ScoreTop
      BY RetrievalAssumption DEF RetrievalAssumption
    <3>2. CASE ranker = "noop"
      <4>1. scores = Position(n)
        BY <1>12, <2>1, <3>2
      <4>2. \A i \in 1..n : Position(n)[i] \in 0..ScoreTop
        BY PositionFacts
      <4> QED
        BY <3>1, <4>1, <4>2
    <3>3. CASE ranker # "noop"
      <4>1. scores \in [1..n -> RerankScores]
        BY <1>12, <2>1, <3>3
      <4> QED
        BY <3>1, <4>1
    <3> QED
      BY <3>2, <3>3
  <2>3. /\ DOMAIN scored = 1..n
        /\ \A i \in 1..n : scored[i] \in Scored /\ scored[i].chunk = head[i].chunk
    <3>1. ASSUME NEW c \in Scored, NEW x \in -1..ScoreTop
          PROVE [c EXCEPT !.rerank = x] \in Scored /\ [c EXCEPT !.rerank = x].chunk = c.chunk
      BY DEF Scored
    <3> QED
      BY <1>12, <2>1, <2>2, <3>1
  <2>4. scored \in Seq(Scored)
    <3>1. scored = [i \in 1..n |-> scored[i]]
      BY <1>12, <2>1
    <3> HIDE DEF Scored
    <3> QED
      BY <2>3, <3>1
  <2>5. Unrepeated(scored) /\ Names(scored) = Names(head)
    BY <1>6, <2>1, <2>3 DEF Unrepeated, Names
  <2>6. PICK q, m : q = RerankCut(scored).kept /\ m = RerankCut(scored).out
    OBVIOUS
  <2>7. q \in Seq(Scored) /\ m \in Seq(Entries) /\ Audit(q, m, Names(head))
    BY <2>4, <2>5, <2>6, RerankCutFacts
  <2>8. l \o m \in Seq(Entries) /\ Audit(q, l \o m, Wanted)
    BY <1>6, <1>10, <2>7, AuditStep
  <2>9. pool' = q /\ ledger' = l \o m
    BY <1>9, <1>12, <2>6
  <2> QED
    BY <1>2, <1>3, <2>7, <2>8, <2>9, SortingStep
<1> QED
  BY <1>1, <1>11, <1>12 DEF Rerank

\* The order the final cut goes by: every place once, the most relevant first.
LEMMA OrderFacts ==
    ASSUME pool \in Seq(Scored), NEW known,
           NEW order, order = IF Len(pool) > 1 THEN Diversified(known) ELSE [i \in DOMAIN pool |-> i]
    PROVE  /\ order \in Seq(DOMAIN pool) /\ Once(order) /\ ToSet(order) = DOMAIN pool
           /\ pool # <<>> => order # <<>> /\ \A j \in DOMAIN pool : Signal(pool[order[1]]) >= Signal(pool[j])
<1>1. PICK n \in Nat : n = Len(pool) /\ DOMAIN pool = 1..n /\ (pool # <<>> <=> n > 0)
  OBVIOUS
<1>2. CASE n > 1
  <2>1. order = Diversified(known)
    BY <1>1, <1>2
  <2>2. /\ order \in Seq(DOMAIN pool) /\ Once(order) /\ ToSet(order) = DOMAIN pool
        /\ n > 0 => \A j \in 1..n : Signal(pool[order[1]]) >= Signal(pool[j])
    BY <1>1, <2>1, DiversifiedFacts
  <2>3. order # <<>>
    <3>1. 1 \in ToSet(order)
      BY <1>1, <1>2, <2>2
    <3> QED
      <4>1. ToSet(<<>>) = {}
        BY DEF ToSet
      <4> QED
        BY <3>1, <4>1
  <2> QED
    BY <1>1, <2>2, <2>3
<1>3. CASE ~(n > 1)
  <2>1. order = [i \in 1..n |-> i]
    BY <1>1, <1>3
  <2>2. order \in Seq(DOMAIN pool) /\ Once(order) /\ ToSet(order) = DOMAIN pool
    BY <1>1, <2>1 DEF Once, ToSet
  <2>3. ASSUME n > 0 PROVE order # <<>> /\ \A j \in DOMAIN pool : Signal(pool[order[1]]) >= Signal(pool[j])
    <3>1. n = 1 /\ order[1] = 1 /\ DOMAIN order = 1..1 /\ DOMAIN pool = {1}
      BY <1>1, <1>3, <2>1, <2>3
    <3>2. order # <<>>
      BY <3>1
    <3>3. Signal(pool[1]) \in 0..ScoreTop /\ ScoreTop \in Nat
      <4>1. pool[1] \in Scored
        BY <3>1
      <4> QED
        BY <4>1, FinalType, RetrievalAssumption DEF RetrievalAssumption
    <3> QED
      BY <3>1, <3>2, <3>3
  <2> QED
    BY <1>1, <2>2, <2>3
<1> QED
  BY <1>2, <1>3

LEMMA DiversifyFacts ==
    ASSUME RetrievalInv, Diversify
    PROVE  /\ RetrievalInv'
           /\ pool # <<>> =>
                \E i \in DOMAIN pool', j \in DOMAIN pool :
                   /\ Signal(pool'[i]) = Signal(pool[j])
                   /\ \A k \in DOMAIN pool : Signal(pool[j]) >= Signal(pool[k])
<1>1. retrieving = "diversify" /\ retrieving' = "gate" /\ UNCHANGED <<corpus, ranker, probes, gate>>
  BY DEF Diversify
<1>2. pool \in Seq(Scored) /\ ledger \in Seq(Entries) /\ Audit(pool, ledger, Wanted) /\ Searched
  BY <1>1 DEF RetrievalInv, RetrievalTypeOK, Sorting, Entries
<1>3. Unrepeated(pool)
  BY <1>2 DEF Audit
<1>4. PICK known, order :
        /\ order = IF Len(pool) > 1 THEN Diversified(known) ELSE [i \in DOMAIN pool |-> i]
        /\ pool' = CutInOrder(order).kept /\ ledger' = ledger \o CutInOrder(order).out
  BY DEF Diversify, Cut
<1>5. /\ order \in Seq(DOMAIN pool) /\ Once(order) /\ ToSet(order) = DOMAIN pool
      /\ pool # <<>> => order # <<>> /\ \A j \in DOMAIN pool : Signal(pool[order[1]]) >= Signal(pool[j])
  BY <1>2, <1>4, OrderFacts
<1>6. PICK q, m : q = CutInOrder(order).kept /\ m = CutInOrder(order).out
  OBVIOUS
<1>7. /\ q \in Seq(Scored) /\ m \in Seq(Entries) /\ Audit(q, m, Names(pool))
      /\ order # <<>> => \E i \in DOMAIN q : Signal(q[i]) = Signal(pool[order[1]])
  BY <1>2, <1>3, <1>5, <1>6, CutInOrderFacts
<1>8. ledger \o m \in Seq(Entries) /\ Audit(q, ledger \o m, Wanted)
  BY <1>2, <1>7, AuditStep
<1>9. pool' = q /\ ledger' = ledger \o m
  BY <1>4, <1>6
<1>10. RetrievalInv'
  BY <1>1, <1>2, <1>7, <1>8, <1>9, SortingStep
<1>11. ASSUME pool # <<>>
       PROVE \E i \in DOMAIN q, j \in DOMAIN pool :
                   /\ Signal(q[i]) = Signal(pool[j])
                   /\ \A k \in DOMAIN pool : Signal(pool[j]) >= Signal(pool[k])
  <2>1. PICK i \in DOMAIN q : Signal(q[i]) = Signal(pool[order[1]])
    BY <1>5, <1>7, <1>11
  <2>2. order[1] \in DOMAIN pool
    BY <1>5, <1>11
  <2> QED
    BY <1>5, <1>11, <2>1, <2>2
<1> QED
  BY <1>9, <1>10, <1>11

LEMMA AskAgainStep == ASSUME RetrievalInv, AskAgain PROVE RetrievalInv'
<1>1. /\ Fresh /\ retrieving = "done" /\ retrieving' = "again" /\ gate' = NoGate
      /\ UNCHANGED <<corpus, ranker, probes, ledger>>
  BY DEF AskAgain
<1>2. pool \in Seq(Scored) /\ Searched /\ \A c \in Names(pool) \cup Names(ledger) : corpus[c].mine
  BY <1>1 DEF RetrievalInv, RetrievalTypeOK
<1>3. PICK visible \in SUBSET DOMAIN pool :
        /\ visible # {}
        /\ pool' = LET order == Sorted(visible, Ascending(visible)) IN
                    [k \in DOMAIN order |->
                        [chunk |-> pool[order[k]].chunk, fusion |-> 0, rerank |-> -1,
                         final |-> Position(Len(pool))[order[k]]]]
  BY DEF AskAgain
<1>4. PICK n \in Nat : n = Len(pool) /\ DOMAIN pool = 1..n /\ \A i \in 1..n : pool[i] \in Scored
  BY <1>2
<1>5. PICK order : order = Sorted(visible, Ascending(visible))
  OBVIOUS
<1>6. order \in Seq(visible) /\ ToSet(order) = visible
  <2>1. visible \in SUBSET (1..n) /\ visible \in SUBSET visible
    BY <1>4
  <2>2. visible \in SUBSET Int
    <3>1. 1..n \subseteq Int
      OBVIOUS
    <3> QED
      BY <2>1, <3>1
  <2>3. IsFiniteSet(visible)
    BY <2>1, PlacesFinite
  <2> QED
    BY <1>5, <2>1, <2>2, <2>3, AscendingTotal, InSequence
<1>7. PICK l \in Nat : DOMAIN order = 1..l /\ \A k \in 1..l : order[k] \in 1..n
  <2>1. Len(order) \in Nat /\ DOMAIN order = 1..Len(order) /\ \A k \in 1..Len(order) : order[k] \in visible
    BY <1>6
  <2> QED
    BY <1>4, <2>1
<1>8. pool' = [k \in 1..l |-> [chunk |-> pool[order[k]].chunk, fusion |-> 0, rerank |-> -1,
                               final |-> Position(n)[order[k]]]]
  BY <1>3, <1>4, <1>5, <1>7
<1>9. pool' \in Seq(Scored)
  <2>1. ASSUME NEW k \in 1..l PROVE pool'[k] \in Scored
    <3>1. pool[order[k]].chunk \in ChunkIds
      BY <1>4, <1>7 DEF Scored
    <3>2. Position(n)[order[k]] \in 0..ScoreTop
      BY <1>7, PositionFacts
    <3>3. 0 \in 0..ScoreTop /\ -1 \in -1..ScoreTop
      BY RetrievalAssumption DEF RetrievalAssumption
    <3> QED
      BY <1>8, <3>1, <3>2, <3>3 DEF Scored
  <2>2. pool' = [k \in 1..l |-> pool'[k]]
    BY <1>8
  <2> HIDE DEF Scored
  <2> QED
    BY <2>1, <2>2
<1>10. \A k \in 1..l : pool'[k].chunk \in Names(pool)
  BY <1>4, <1>7, <1>8 DEF Names
<1>11. Names(pool') \subseteq Names(pool)
  <2>1. DOMAIN pool' = 1..l
    BY <1>8
  <2>2. Names(pool') = {pool'[k].chunk : k \in 1..l}
    BY <2>1 DEF Names
  <2> QED
    BY <1>10, <2>2
<1>12. 1 \in DOMAIN pool' /\ pool'[1].fusion = 0
  <2>1. l > 0
    BY <1>3, <1>6, <1>7 DEF ToSet
  <2> QED
    BY <1>8, <2>1
<1>13. Probed' /\ Searched'
  BY <1>1, <1>2 DEF RetrievalInv, Probed, Hits, Searched
<1>14. RetrievalTypeOK'
  <2>1. Scored' = Scored /\ gate' \in [verdict : {"none", "answer", "tool", "refuse"}, classified : BOOLEAN]
    BY <1>1 DEF Scored, NoGate
  <2>2. corpus \in Corpora /\ ranker \in {"encoder", "noop"} /\ ledger \in Seq([chunk : ChunkIds, reason : DropReasons])
    BY DEF RetrievalInv, RetrievalTypeOK
  <2> HIDE DEF Scored
  <2> QED
    BY <1>1, <1>9, <1>13, <2>1, <2>2 DEF RetrievalTypeOK, Probed, ProbeStates
<1>15. \A c \in Names(pool') \cup Names(ledger') : corpus'[c].mine
  BY <1>1, <1>2, <1>11
<1> QED
  BY <1>1, <1>12, <1>13, <1>14, <1>15 DEF RetrievalInv, Sorting, Fresh

LEMMA OodGateStep ==
    ASSUME RetrievalInv, NEW flagged \in BOOLEAN, NEW tools \in BOOLEAN, NEW wanted \in BOOLEAN,
           NEW label \in {"off", "in_domain", "needs_tool", "out_of_domain"},
           OodGateRuns(flagged, label, tools, wanted)
    PROVE  RetrievalInv'
<1>1. /\ retrieving \in {"gate", "again"} /\ retrieving' = "done"
      /\ UNCHANGED <<corpus, ranker, probes, pool, ledger>>
  BY DEF OodGateRuns
<1>2. gate' \in [verdict : {"none", "answer", "tool", "refuse"}, classified : BOOLEAN]
  BY DEF OodGateRuns
<1>3. Searched' /\ Probed' /\ Wanted' = Wanted
  <2>1. Probed' /\ Searched
    BY <1>1 DEF RetrievalInv, Probed, Hits, Sorting
  <2>2. FoundChunks' = FoundChunks
    BY <1>1 DEF FoundChunks
  <2>3. Wanted' = Wanted
    BY <1>1, <2>2 DEF Wanted
  <2>4. Searched'
    BY <1>1, <2>1 DEF Searched
  <2> QED
    BY <2>1, <2>3, <2>4
<1>4. RetrievalTypeOK'
  BY <1>1, <1>2 DEF RetrievalInv, RetrievalTypeOK, Scored
<1>5. Fresh' => Audit(pool', ledger', Wanted')
  <2>1. CASE retrieving = "gate"
    BY <1>1, <1>3, <2>1 DEF RetrievalInv, Sorting
  <2>2. CASE retrieving = "again"
    <3>1. PICK i \in DOMAIN pool : pool[i].fusion = 0
      BY <2>2 DEF RetrievalInv
    <3>2. pool'[i].fusion = 0 /\ i \in DOMAIN pool' /\ ~(0 > 0)
      BY <1>1, <3>1
    <3>3. ~Fresh'
      BY <3>2 DEF Fresh
    <3> QED
      BY <3>3
  <2> QED
    BY <1>1, <2>1, <2>2
<1>6. \A c \in Names(pool') \cup Names(ledger') : corpus'[c].mine
  BY <1>1 DEF RetrievalInv
<1> QED
  BY <1>1, <1>3, <1>4, <1>5, <1>6 DEF RetrievalInv, Sorting

LEMMA RetrievalNextInv == RetrievalInv /\ [RetrievalNext]_retrievalVars => RetrievalInv'
<1> SUFFICES ASSUME RetrievalInv, [RetrievalNext]_retrievalVars PROVE RetrievalInv'
  OBVIOUS
<1>1. CASE UNCHANGED retrievalVars
  <2>1. UNCHANGED <<corpus, ranker, probes, retrieving, pool, ledger, gate>>
    BY <1>1 DEF retrievalVars
  <2>2. Wanted' = Wanted /\ Fresh' = Fresh /\ Sorting' = Sorting /\ Searched' = Searched
    BY <2>1 DEF Wanted, FoundChunks, Fresh, Sorting, Searched
  <2>3. Probed' /\ RetrievalTypeOK'
    BY <2>1 DEF RetrievalInv, RetrievalTypeOK, Probed, Hits, Scored
  <2> QED
    BY <2>1, <2>2, <2>3 DEF RetrievalInv
<1>2. CASE \E p \in 1..ProbeCount : EmbedProbe(p) \/ SearchProbe(p)
  BY <1>2, EmbedProbeStep, SearchProbeStep
<1>3. CASE EmbedDone
  BY <1>3, EmbedDoneStep
<1>4. CASE SearchDone
  BY <1>4, SearchDoneStep
<1>5. CASE Dedupe
  BY <1>5, DedupeStep
<1>6. CASE Rerank
  BY <1>6, RerankStep
<1>7. CASE Diversify
  BY <1>7, DiversifyFacts
<1>8. CASE AskAgain
  BY <1>8, AskAgainStep
<1>9. CASE \E flagged, tools, wanted \in BOOLEAN, label \in {"off", "in_domain", "needs_tool", "out_of_domain"} :
             OodGateRuns(flagged, label, tools, wanted)
  BY <1>9, OodGateStep
<1> QED
  BY <1>1, <1>2, <1>3, <1>4, <1>5, <1>6, <1>7, <1>8, <1>9 DEF RetrievalNext

\* The invariant says that the search is told of as it was.
LEMMA RetrievalInvHonest == RetrievalInv => RetrievalIsHonest
<1> SUFFICES ASSUME RetrievalInv PROVE RetrievalIsHonest
  OBVIOUS
<1>1. Kept = Names(pool) /\ {ledger[i].chunk : i \in DOMAIN ledger} = Names(ledger)
  BY DEF Kept, Names
<1>2. OnlyMineIsKept
  BY <1>1 DEF RetrievalInv, OnlyMineIsKept
<1>3. OutageIsNoRefusal
  <2> SUFFICES ASSUME gate.verdict = "refuse" PROVE Searched
    BY DEF OutageIsNoRefusal, Searched
  <2> QED
    BY DEF RetrievalInv
<1>4. DropsAreAudited
  <2> SUFFICES ASSUME Fresh PROVE /\ Wanted = Names(pool) \cup Names(ledger)
                                  /\ Len(pool) + Len(ledger) = Cardinality(Wanted)
    BY <1>1 DEF DropsAreAudited, Wanted
  <2>1. Audit(pool, ledger, Wanted) /\ pool \in Seq(Scored) /\ ledger \in Seq(Entries)
    BY DEF RetrievalInv, RetrievalTypeOK, Entries
  <2>2. /\ Unrepeated(pool) /\ Unrepeated(ledger) /\ Names(pool) \cap Names(ledger) = {}
        /\ Names(pool) \cup Names(ledger) = Wanted
    BY <2>1 DEF Audit
  <2>3. /\ IsFiniteSet(Names(pool)) /\ Cardinality(Names(pool)) = Len(pool) /\ Len(pool) \in Nat
        /\ IsFiniteSet(Names(ledger)) /\ Cardinality(Names(ledger)) = Len(ledger) /\ Len(ledger) \in Nat
    BY <2>1, <2>2, UnrepeatedCounts
  <2>4. Cardinality(Names(pool) \cup Names(ledger)) =
          Cardinality(Names(pool)) + Cardinality(Names(ledger)) - Cardinality(Names(pool) \cap Names(ledger))
    BY <2>3, FS_Union
  <2>5. Cardinality(Names(pool) \cap Names(ledger)) = 0
    BY <2>2, FS_EmptySet
  <2>6. Cardinality(Names(pool) \cup Names(ledger)) = Len(pool) + Len(ledger)
    BY <2>3, <2>4, <2>5
  <2> QED
    BY <2>2, <2>6
<1> QED
  BY <1>2, <1>3, <1>4 DEF RetrievalIsHonest

(* What retrieval finds is in the context or in the ledger, once and with a reason, and it is
   the caller's; a refusal means that something was searched: for any collection, scores,
   limits and answers of the engine and the reranker (retriever.py, guardrails/ood.py). *)
THEOREM RetrievalHonest == RetrievalSpec => []RetrievalIsHonest
<1>1. RetrievalSpec => []RetrievalInv
  BY RetrievalInitInv, RetrievalNextInv, PTL DEF RetrievalSpec
<1> QED
  BY <1>1, RetrievalInvHonest, PTL

(* What the stages of retrieval hold is what they say: every score within its range, every
   dropped chunk with one of the reasons (retriever.py). *)
THEOREM RetrievalTypes == RetrievalSpec => []RetrievalTypeOK
<1>1. RetrievalSpec => []RetrievalInv
  BY RetrievalInitInv, RetrievalNextInv, PTL DEF RetrievalSpec
<1> QED
  BY <1>1, PTL DEF RetrievalInv

(* The chunk that ranked first is never lost to diversity or to a cap (mmr.py, _finalise). *)
THEOREM BestKept == RetrievalSpec => BestIsKept
<1>1. ASSUME RetrievalInv, [RetrievalNext]_retrievalVars, ~UNCHANGED retrievalVars,
             retrieving = "diversify", pool # <<>>
      PROVE  \E i \in DOMAIN pool' : Signal(pool'[i]) = Max({Signal(pool[j]) : j \in DOMAIN pool})
  <2>1. Diversify
    BY <1>1 DEF RetrievalNext, EmbedProbe, SearchProbe, EmbedDone, SearchDone, Dedupe, Rerank, AskAgain, OodGateRuns
  <2>2. PICK i \in DOMAIN pool', j \in DOMAIN pool :
          /\ Signal(pool'[i]) = Signal(pool[j])
          /\ \A k \in DOMAIN pool : Signal(pool[j]) >= Signal(pool[k])
    BY <1>1, <2>1, DiversifyFacts
  <2>3. PICK S : S = {Signal(pool[k]) : k \in DOMAIN pool}
    OBVIOUS
  <2>4. pool \in Seq(Scored)
    BY <1>1 DEF RetrievalInv, RetrievalTypeOK
  <2>5. PICK n \in Nat : n = Len(pool) /\ n > 0 /\ DOMAIN pool = 1..n
    BY <1>1, <2>4
  <2>6. /\ Max(S) \in Int /\ Max(S) \in S
        /\ \A k \in 1..n : Signal(pool[k]) \in Int /\ Signal(pool[k]) <= Max(S)
    BY <2>3, <2>4, <2>5, SignalRange
  <2>7. PICK k \in DOMAIN pool : Max(S) = Signal(pool[k])
    BY <2>3, <2>6
  <2>8. Signal(pool[j]) = Max(S)
    BY <2>2, <2>5, <2>6, <2>7
  <2> QED
    BY <2>2, <2>3, <2>8
<1>2. RetrievalInv /\ [RetrievalNext]_retrievalVars
      => [retrieving = "diversify" /\ pool # <<>> =>
            \E i \in DOMAIN pool' : Signal(pool'[i]) = Max({Signal(pool[j]) : j \in DOMAIN pool})]_retrievalVars
  BY <1>1
<1>3. RetrievalSpec => []RetrievalInv
  BY RetrievalInitInv, RetrievalNextInv, PTL DEF RetrievalSpec
<1> QED
  BY <1>2, <1>3, PTL DEF RetrievalSpec, BestIsKept
=============================================================================
