------------------------------ MODULE MCServices ------------------------------
(***************************************************************************)
(* The services around a chat turn: who may read a document, retrieval,    *)
(* the planning of its queries, the screening of what comes in, the        *)
(* resolution of contradictions and the calls of REST tools. They share no *)
(* state, so one of them is checked at a time: `part' says which, and the  *)
(* others keep one of their initial states.                                *)
(***************************************************************************)
EXTENDS AccessFilter, MCRetrieval, InputGuard, Contradictions, QueryPlan, ToolCalls

VARIABLE part

servicesVars == <<part, accessVars, retrievalVars, screenVars, conflictVars, planVars, toolCallVars>>

\* Access: a source whose documents everybody may read by default, and one with lists.
AclDefaults == {[tenant |-> 1, roles |-> {}, groups |-> {}, users |-> {}, denied |-> {}, rank |-> 0],
                [tenant |-> 1, roles |-> {}, groups |-> {"g"}, users |-> {}, denied |-> {"u"}, rank |-> 1]}
SomeWishes  == {AnyFilter, [AnyFilter EXCEPT !.facets = {"x"}],
                [AnyFilter EXCEPT !.facets = {"y"}, !.ceiling = 0],
                [AnyFilter EXCEPT !.from = 1, !.facets = {"x", "y"}], [AnyFilter EXCEPT !.to = 0]}

\* Screening: two kinds of number, a credential with and one without its keyword.
Recognizer(pattern, score, keyword) == [pattern |-> pattern, score |-> score, keyword |-> keyword]
SomeRecognizers == <<Recognizer(<<"digit", "digit">>, 45, "boost"), Recognizer(<<"digit", "key">>, 70, "no"),
                     Recognizer(<<"key", "key">>, 60, "no"), Recognizer(<<"key">>, 90, "required")>>

SomeTurns == SeqOf(CellKinds, 3)
             \cup {<<"key", "invisible", "key", c, d>> : c \in {"key", "digit", "keyword"}, d \in {"key", "hook"}}
             \cup {<<a, b, c, d>> : a \in {"key", "digit"}, b \in {"invisible", "key", "hook"},
                       c \in {"key", "digit"}, d \in {"key", "digit", "hook", "keyword"}}
SomePassages == {<<"word">>, <<"hook">>, <<"hook", "hook">>, <<"hook", "delimiter">>,
                 <<"word", "word", "word", "hook">>}
RulesOf(n, t, p, v, mode, c, q) ==
    [normalise |-> n, truncate |-> t, pii |-> p, verify |-> v, mode |-> mode, classifier |-> c, quarantine |-> q]
SomeRules == {RulesOf(TRUE, TRUE, TRUE, TRUE, "mask", TRUE, TRUE),
              RulesOf(TRUE, FALSE, TRUE, FALSE, "partial", FALSE, TRUE),
              RulesOf(FALSE, TRUE, FALSE, FALSE, "mask", TRUE, FALSE)}

\* Contradictions: documents with and without dates, of two authorities.
Passage(d, s, e, m, a) == [doc |-> d, score |-> s, effective |-> e, modified |-> m, created |-> 3, authority |-> a]
FewPassages == {Passage("d1", 3, 5, 4, 0), Passage("d2", 2, 9, 4, 0), Passage("d2", 1, -1, 9, 0),
                Passage("d3", 2, -1, 4, 1)}
MorePassages == FewPassages \cup {Passage("d3", 1, -1, -1, 0), Passage("d4", 2, 9, 7, 0)}
SomePools == {<<a>> : a \in FewPassages} \cup {<<a, b, c>> : a, b, c \in FewPassages}
             \cup {<<Passage("d1", 3, 5, 4, 0), a, Passage("d3", 1, -1, -1, 0), Passage("d4", 2, 9, 7, 0)>> :
                       a \in MorePassages}
PassagePairs == {<<i, j>> \in (1..4) \X (1..4) : i < j}
Likeness(near(_, _), apart(_, _)) == [similar |-> [p \in PassagePairs |-> near(p[1], p[2])],
                                      disagree |-> [p \in PassagePairs |-> apart(p[1], p[2])]]
InNumbers(i, j) == "numeric"
InPart(i, j) == IF i = 1 THEN "numeric" ELSE IF j = 3 THEN "polarity" ELSE "no"
SomeLikenesses == {Likeness(LAMBDA i, j : 4, InPart), Likeness(LAMBDA i, j : 2, InNumbers),
                   Likeness(LAMBDA i, j : IF j = i + 1 THEN 4 ELSE 0, InNumbers),
                   Likeness(LAMBDA i, j : IF <<i, j>> \in {<<1, 4>>, <<2, 3>>} THEN 4 ELSE 1, InNumbers)}

\* Query plans: words as the model returns them, and its dates.
DateOf(unit, n) == [unit |-> unit, n |-> n]
NoDate      == DateOf("none", 0)
SomePeriods == {NoDate, DateOf("day", 1), DateOf("slash", 3), DateOf("month", 1), DateOf("year", 0)}
PlanTexts   == Texts \cup {Blank}
SomePayloads ==
    [rewritten : PlanTexts, subs : SeqOf(PlanTexts, 2), hyde : {Blank, [word |-> "b", capital |-> TRUE]},
     foreign : BOOLEAN, from : {NoDate}, to : {NoDate}]
    \cup [rewritten : {Blank}, subs : {<<>>}, hyde : {Blank}, foreign : {FALSE},
          from : SomePeriods, to : SomePeriods]
SomeOwn      == {[from |-> -1, to |-> -1], [from |-> 3, to |-> 5], [from |-> 5, to |-> -1]}
SomeAbstract == {[word |-> "a", capital |-> FALSE]}
-----------------------------------------------------------------------------
\* A part that does not run has one initial state.
Starts(p, Initial, resting) == ((part = p) \/ (part # p /\ resting)) /\ Initial

ServicesInit ==
    /\ part \in {"access", "retrieval", "screen", "conflict", "plan", "tool"}
    /\ Starts("access", AccessInit,
              /\ itemAcl = CHOOSE a \in Acls : TRUE
              /\ caller = CHOOSE p \in Principals : TRUE)
    /\ Starts("retrieval", RetrievalInit,
              ranker = "noop" /\ corpus = CHOOSE c \in Corpora : TRUE)
    /\ Starts("screen", ScreenInit,
              /\ turn = [raw |-> <<>>, rules |-> CHOOSE r \in Rules : TRUE, cells |-> <<>>]
              /\ passages = <<>>)
    /\ Starts("conflict", ConflictInit,
              evidence = [passages |-> CHOOSE p \in Pools : TRUE, model |-> FALSE,
                          likeness |-> CHOOSE l \in Likenesses : TRUE])
    /\ Starts("plan", PlanInit,
              question = [message |-> Blank, on |-> FALSE, rewrite |-> FALSE, hyde |-> FALSE,
                          own |-> CHOOSE f \in OwnFilters : TRUE])
    /\ ToolCallInit

ServicesNext ==
    /\ UNCHANGED part
    /\ \/ /\ part = "access" /\ AccessNext
          /\ UNCHANGED <<retrievalVars, screenVars, conflictVars, planVars, toolCallVars>>
       \/ /\ part = "retrieval" /\ RetrievalNext
          /\ UNCHANGED <<accessVars, screenVars, conflictVars, planVars, toolCallVars>>
       \/ /\ part = "screen" /\ ScreenNext
          /\ UNCHANGED <<accessVars, retrievalVars, conflictVars, planVars, toolCallVars>>
       \/ /\ part = "conflict" /\ ConflictNext
          /\ UNCHANGED <<accessVars, retrievalVars, screenVars, planVars, toolCallVars>>
       \/ /\ part = "plan" /\ PlanNext
          /\ UNCHANGED <<accessVars, retrievalVars, screenVars, conflictVars, toolCallVars>>
       \/ /\ part = "tool" /\ ToolCallNext
          /\ UNCHANGED <<accessVars, retrievalVars, screenVars, conflictVars, planVars>>

ServicesSpec == ServicesInit /\ [][ServicesNext]_servicesVars

-----------------------------------------------------------------------------
\* The types of the part that runs; a query plan has what its operators build.
ServicesTypeOK ==
    CASE part = "access"    -> AccessTypeOK
      [] part = "retrieval" -> RetrievalTypeOK
      [] part = "screen"    -> ScreenTypeOK
      [] part = "conflict"  -> ConflictTypeOK
      [] part = "plan"      -> TRUE
      [] part = "tool"      -> ToolCallTypeOK
=============================================================================
