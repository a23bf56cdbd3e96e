----------------------------- MODULE AccessFilter -----------------------------
(***************************************************************************)
(* Who may read what, decided three times: ingestion layers a source's ACL *)
(* defaults onto a document's own (models/acl.py), a search turns the      *)
(* caller and the request's facets into a Qdrant filter                    *)
(* (vectorstore/filters.py), and the reader asks AccessControl.permits     *)
(* again of every point. A cached plan is found by a fingerprint of the    *)
(* filter and read by the same filter.                                     *)
(*                                                                         *)
(* A facet stands for each of the multi-valued ones, and a filter's bounds *)
(* for its dates.                                                          *)
(***************************************************************************)
EXTENDS Integers, FiniteSets

CONSTANTS
    Users, Groups, Roles, Tenants, Ranks,
    Facets,     \* values of a facet
    Dates,
    Defaults,   \* the ACLs a source may have as its default
    Wishes      \* the filters a caller sends, and those read from a question

VARIABLES
    itemAcl,    \* the ACL the source reports of the document
    point,      \* the document's chunk as it is indexed
    caller,     \* the principal of the request
    wish,       \* the caller's filter, the extracted one, whether a tool asks, their merge
    verdicts    \* what the filter and the in-process check said

accessVars == <<itemAcl, point, caller, wish, verdicts>>

Acls       == [tenant : Tenants, roles : SUBSET Roles, groups : SUBSET Groups,
               users : SUBSET Users, denied : SUBSET Users, rank : Ranks]
Principals == [user : Users, tenant : Tenants, groups : SUBSET Groups, roles : SUBSET Roles,
               rank : Ranks]
NoLimit    == -1
\* A MetadataFilter: an empty set of facets is no constraint.
Filters    == [facets : SUBSET Facets, from : Dates \cup {NoLimit}, to : Dates \cup {NoLimit},
               ceiling : Ranks \cup {NoLimit}, impossible : BOOLEAN]
AnyFilter  == [facets |-> {}, from |-> NoLimit, to |-> NoLimit, ceiling |-> NoLimit,
               impossible |-> FALSE]
\* _normalise refuses a filter whose dates cross.
Proper(f)  == f.from = NoLimit \/ f.to = NoLimit \/ f.from <= f.to

ASSUME AccessAssumption ==
    /\ Ranks \subseteq Nat /\ Dates \subseteq Nat
    /\ Defaults \subseteq Acls /\ Wishes \subseteq Filters

NoPoint    == [acl |-> CHOOSE a \in Acls : TRUE, facets |-> {}, date |-> NoLimit, deleted |-> FALSE]

AccessTypeOK ==
    /\ itemAcl \in Acls
    /\ point.acl \in Acls /\ point.facets \subseteq Facets
    /\ point.date \in Dates \cup {NoLimit} /\ point.deleted \in BOOLEAN
    /\ caller \in Principals
    /\ {wish.own, wish.extracted, wish.merged} \subseteq Filters /\ Proper(wish.merged)
    /\ wish.tool \in BOOLEAN
    /\ verdicts \in [stage : {"ingest", "ask", "read"},
                     found : BOOLEAN, read : BOOLEAN]

AccessInit ==
    /\ itemAcl \in Acls
    /\ caller \in Principals
    /\ wish = [own |-> AnyFilter, extracted |-> AnyFilter, tool |-> FALSE, merged |-> AnyFilter]
    /\ point = [NoPoint EXCEPT !.acl = itemAcl]
    /\ verdicts = [stage |-> "ingest", found |-> FALSE, read |-> FALSE]
-----------------------------------------------------------------------------
Unrestricted(acl) == acl.roles = {} /\ acl.groups = {} /\ acl.users = {}

\* AccessControl.permits
Permits(acl, p) ==
    /\ p.tenant = acl.tenant /\ p.user \notin acl.denied /\ acl.rank <= p.rank
    /\ \/ Unrestricted(acl) \/ p.user \in acl.users
       \/ acl.groups \cap p.groups # {} \/ acl.roles \cap p.roles # {}

\* As it would be if the source's classification replaced the item's.
MergedAtTheDefaultRank(acl, other) ==
    LET grants == IF Unrestricted(acl) THEN other ELSE acl IN
    [acl EXCEPT !.roles = grants.roles, !.groups = grants.groups, !.users = grants.users,
                !.denied = @ \cup other.denied, !.rank = other.rank]

\* AccessControl.merged_with: the defaults' lists only where the item restricts nothing.
Merged(acl, other) ==
    LET grants == IF Unrestricted(acl) THEN other ELSE acl IN
    [acl EXCEPT !.roles = grants.roles, !.groups = grants.groups, !.users = grants.users,
                !.denied = @ \cup other.denied,
                !.rank = IF other.rank > @ THEN other.rank ELSE @]

\* The document is indexed; a source of another tenant's defaults is refused.
Ingest(defaults, facets, date, deleted) ==
    /\ verdicts.stage = "ingest" /\ defaults.tenant = itemAcl.tenant
    /\ point' = [acl |-> Merged(itemAcl, defaults), facets |-> facets, date |-> date, deleted |-> deleted]
    /\ verdicts' = [verdicts EXCEPT !.stage = "ask"]
    /\ UNCHANGED <<itemAcl, caller, wish>>

Latest(a, b)   == IF a > b THEN a ELSE b
Earliest(a, b) == IF a = NoLimit THEN b ELSE IF b = NoLimit \/ a < b THEN a ELSE b

\* As it would be if facets without a common value left no constraint.
BothSpilled(f, g) ==
    [facets |-> IF f.facets = {} \/ g.facets = {} THEN f.facets \cup g.facets ELSE f.facets \cap g.facets,
     from |-> f.from, to |-> f.to, ceiling |-> Earliest(f.ceiling, g.ceiling), impossible |-> FALSE]

\* As it would be if dates that cross were merged like the others.
BothCrossed(f, g) ==
    [facets |-> IF f.facets = {} \/ g.facets = {} THEN f.facets \cup g.facets ELSE f.facets,
     from |-> Latest(f.from, g.from), to |-> Earliest(f.to, g.to),
     ceiling |-> Earliest(f.ceiling, g.ceiling), impossible |-> f.impossible \/ g.impossible]

(* MetadataFilter.merged_with: the narrower of the two, facet by facet; what nothing can
   satisfy is flagged, for an empty list would mean no constraint. *)
Both(f, g) ==
    LET facets  == IF f.facets = {} \/ g.facets = {} THEN f.facets \cup g.facets
                   ELSE f.facets \cap g.facets
        from    == Latest(f.from, g.from)
        to      == Earliest(f.to, g.to)
        crossed == from # NoLimit /\ to # NoLimit /\ from > to
        empty   == f.facets # {} /\ g.facets # {} /\ facets = {}
    IN [facets |-> IF empty THEN f.facets ELSE facets,
        from |-> IF crossed THEN f.from ELSE from, to |-> IF crossed THEN f.to ELSE to,
        ceiling |-> Earliest(f.ceiling, g.ceiling),
        impossible |-> f.impossible \/ g.impossible \/ empty \/ crossed]

\* As it would be if the extracted facet won.
FilledFromTheQuestion(f, g) ==
    IF g = AnyFilter THEN f ELSE [f EXCEPT !.facets = IF g.facets # {} THEN g.facets ELSE @]

(* merge_filters: the extracted filter fills in what the caller's leaves open, the ceilings
   and the dates are narrowed, and dates that cross are the caller's.  The flag is lost. *)
Filled(f, g) ==
    LET from    == Latest(f.from, g.from)
        to      == Earliest(f.to, g.to)
        crossed == from # NoLimit /\ to # NoLimit /\ from > to
    IN IF g = AnyFilter THEN f ELSE IF f = AnyFilter THEN g
       ELSE [facets |-> IF f.facets # {} THEN f.facets ELSE g.facets,
             from |-> IF crossed THEN f.from ELSE from, to |-> IF crossed THEN f.to ELSE to,
             ceiling |-> Earliest(f.ceiling, g.ceiling), impossible |-> FALSE]

\* _effective_clearance: the filter's ceiling may lower the caller's clearance.
Clearance(p, f) == Earliest(p.rank, f.ceiling)

\* _metadata_conditions, as Qdrant evaluates them on a point.
MatchesFacets(f, pt) ==
    /\ ~f.impossible
    /\ f.facets = {} \/ f.facets \cap pt.facets # {}
    /\ f.from = NoLimit \/ pt.date >= f.from
    /\ f.to = NoLimit \/ pt.date <= f.to

\* _unrestricted_branch: three lists that must all be empty.
OpenToAll(acl) == acl.roles = {} /\ acl.groups = {} /\ acl.users = {}

\* As it would be if only the empty list of users made a chunk unrestricted.
MatchesLoosely(q, pt, p) ==
    /\ pt.acl.tenant = p.tenant /\ ~pt.deleted /\ pt.acl.rank <= Clearance(p, q)
    /\ MatchesFacets(q, pt) /\ p.user \notin pt.acl.denied
    /\ p.user \in pt.acl.users \/ pt.acl.users = {}

(* build_acl_filter as Qdrant evaluates it: must, must_not, and at least one of should.
   A caller without groups or roles has no clause for them. *)
Matches(q, pt, p) ==
    /\ pt.acl.tenant = p.tenant /\ ~pt.deleted /\ pt.acl.rank <= Clearance(p, q)
    /\ MatchesFacets(q, pt)
    /\ p.user \notin pt.acl.denied
    /\ \/ p.user \in pt.acl.users \/ OpenToAll(pt.acl)
       \/ p.groups # {} /\ p.groups \cap pt.acl.groups # {}
       \/ p.roles # {} /\ p.roles \cap pt.acl.roles # {}

(* A search: the caller's own filter, and what the question mentions fills it in; a search
   the model asks for narrows it instead (filter_from_arguments). *)
Search(own, extracted, tool) ==
    /\ verdicts.stage = "ask" /\ Proper(own) /\ Proper(extracted)
    /\ wish' = [own |-> own, extracted |-> extracted, tool |-> tool,
                merged |-> IF tool THEN Both(own, extracted) ELSE Filled(own, extracted)]
    /\ verdicts' = [stage |-> "read", found |-> Matches(wish'.merged, point, caller),
                    read |-> Permits(point.acl, caller)]
    /\ UNCHANGED <<itemAcl, point, caller>>

AccessNext ==
    \/ \E defaults \in Defaults, facets \in SUBSET Facets, date \in Dates, deleted \in BOOLEAN :
         Ingest(defaults, facets, date, deleted)
    \/ \E own, extracted \in Wishes, tool \in BOOLEAN : Search(own, extracted, tool)

AccessSpec == AccessInit /\ [][AccessNext]_accessVars
-----------------------------------------------------------------------------
(* The filter and the in-process check are the same relation written twice: a point the
   filter lets through is one permits agrees with, and one that both refuse is refused
   for a reason the request gave: deleted, above its ceiling, or outside its facets. *)
FilterIsPermits ==
    verdicts.stage = "read" =>
      verdicts.found = (/\ verdicts.read /\ ~point.deleted
                        /\ point.acl.rank <= Clearance(caller, wish.merged)
                        /\ MatchesFacets(wish.merged, point))

(* The layering of ACLs may hide a document from someone, never show it: whoever may read
   the indexed chunk may read the item the source described. *)
DefaultsNeverGrant ==
    verdicts.stage # "ingest" => \A p \in Principals : Permits(point.acl, p) => Permits(itemAcl, p)

Within(f) == MatchesFacets(f, point) /\ point.acl.rank <= Clearance(caller, f)

(* What is read out of the question, or asked for by the model, never widens what the caller
   asked for, whatever the two have in common; a tool's search stays within both.  A caller
   that sends the flag `unsatisfiable' itself is the exception: merge_filters drops it. *)
MergeNeverWidens ==
    verdicts.stage = "read" /\ Within(wish.merged) =>
      /\ Within(wish.own) \/ (wish.own.impossible /\ ~wish.tool)
      /\ wish.tool => Within(wish.extracted)
=============================================================================
