------------------------------ MODULE ToolLoop ------------------------------
(***************************************************************************)
(* The tools of one turn: which of the registry the model is offered       *)
(* (tools/registry.py), whether the router lets it call any, and the loop  *)
(* that answers its calls (tools/router.py) until it stops asking.         *)
(*                                                                         *)
(* Classifications are numbers, 3 being RESTRICTED. Arguments are values   *)
(* that either contain personal data or do not.                            *)
(***************************************************************************)
EXTENDS Integers, Sequences, SequencesExt, FiniteSets

CONSTANTS
    Tools,          \* names in the registry
    LocalTools,     \* names a local MCP server offers
    Arguments,
    Personal,       \* arguments with personal data in them
    Ceilings,       \* max_classification a policy may set
    MaxIterations,  \* tool_max_iterations
    RepeatLimit,    \* tool_loop_repeat_limit
    MaxCalls        \* bound on the calls of one round

ASSUME LoopAssumption ==
    /\ Personal \subseteq Arguments /\ Ceilings \subseteq 0..3
    /\ MaxIterations \in Nat /\ RepeatLimit \in Nat /\ MaxCalls \in Nat

VARIABLES
    registry,  \* what the configuration says of each tool
    offer,     \* what the turn asks of the router and what it answers
    loop,      \* where the loop is, with LoopGuard's counters
    asked,     \* the tool_use blocks of the round, in order
    answers,   \* the tool_result blocks of the round, in order
    ran        \* how often each call reached its tool

loopVars == <<registry, offer, loop, asked, answers, ran>>

Restricted == 3
Calls      == (Tools \cup LocalTools) \X Arguments
Kinds      == {"retrieval", "rest", "mcp"}
ToolType   == [kind : Kinds, ceiling : Ceilings, allowed : BOOLEAN, admin : BOOLEAN,
               personal : BOOLEAN]
Outcomes   == {"ran", "unavailable", "repeat", "blocked", "exhausted", "limited", "refused"}
OfferType  == [context : 0..3, admin : BOOLEAN, wanted : BOOLEAN, exposed : SUBSET (Tools \cup LocalTools),
               rounds : 0..MaxIterations]
LoopType   == [at : {"plan", "generate", "dispatch", "done"}, iterations : 0..MaxIterations,
               count : [Calls -> 0..MaxIterations * MaxCalls]]

LoopTypeOK ==
    /\ registry \in [Tools -> ToolType]
    /\ offer \in OfferType
    /\ loop \in LoopType
    /\ asked \in SeqOf(Calls, MaxCalls)
    /\ answers \in SeqOf(Outcomes, MaxCalls)
    /\ ran \in [Calls -> 0..MaxIterations * MaxCalls]

\* A local MCP server's tool carries its server's policy and is never clamped higher.
LocalPolicy == [kind |-> "rest", ceiling |-> 1, allowed |-> TRUE, admin |-> FALSE, personal |-> FALSE]

\* As it would be if a policy were taken at its word.
CeilingAsConfigured(policy) == policy.ceiling

\* ToolPolicy.resolved_max_classification: only retrieval may be given RESTRICTED content.
Ceiling(policy) == IF policy.kind # "retrieval" /\ policy.ceiling = Restricted
                   THEN Restricted - 1 ELSE policy.ceiling

LoopInit ==
    /\ registry \in [Tools -> ToolType]
    /\ \E context \in {0, Restricted}, admin, wanted \in BOOLEAN :
         offer = [context |-> context, admin |-> admin, wanted |-> wanted,
                  exposed |-> {}, rounds |-> 0]
    /\ loop = [at |-> "plan", iterations |-> 0, count |-> [c \in Calls |-> 0]]
    /\ asked = <<>> /\ answers = <<>> /\ ran = [c \in Calls |-> 0]
-----------------------------------------------------------------------------
\* RegisteredTool.is_allowed_for
Allowed(policy) == policy.allowed /\ (policy.admin => offer.admin)

\* tools_for, without the tools that reach the model through the connector.
Offered == {t \in Tools : Allowed(registry[t]) /\ registry[t].kind # "mcp"}

\* The registry's tool wins over a local server's of the same name.
Policy(t) == IF t \in Offered THEN registry[t] ELSE LocalPolicy

(* ToolDispatcher.plan and decide_route: how many rounds the loop may have.  A local
   server that cannot be reached offers nothing. *)
PlanTools ==
    /\ loop.at = "plan"
    /\ \E reachable \in SUBSET LocalTools :
         LET exposed == Offered \cup reachable IN
         offer' = [offer EXCEPT !.exposed = exposed,
                                !.rounds = IF offer.wanted /\ exposed # {} THEN MaxIterations ELSE 0]
    /\ loop' = [loop EXCEPT !.at = "generate"]
    /\ UNCHANGED <<registry, asked, answers, ran>>

\* The model answers, or asks for tools and the round begins.
Stops ==
    /\ loop.at = "generate"
    /\ loop' = [loop EXCEPT !.at = "done"]
    /\ UNCHANGED <<registry, offer, asked, answers, ran>>

\* As it would be if the rounds granted were not counted.
AsksForever(batch) ==
    /\ loop.at = "generate" /\ offer.rounds > 0
    /\ loop' = [loop EXCEPT !.at = "dispatch", !.iterations = @ + 1]
    /\ asked' = batch /\ answers' = <<>>
    /\ UNCHANGED <<registry, offer, ran>>

\* As it would be if the model were asked again instead of the loop ending.
AsksAgain(batch) ==
    /\ loop.at = "generate" /\ offer.rounds > 0
    /\ loop' = IF loop.iterations < offer.rounds
               THEN [loop EXCEPT !.at = "dispatch", !.iterations = @ + 1] ELSE loop
    /\ asked' = batch /\ answers' = <<>>
    /\ UNCHANGED <<registry, offer, ran>>

\* A call asked for in the round after the last is dropped: the turn ends without it.
Asks(batch) ==
    /\ loop.at = "generate" /\ offer.rounds > 0
    /\ IF loop.iterations < offer.rounds
       THEN loop' = [loop EXCEPT !.at = "dispatch", !.iterations = @ + 1]
       ELSE loop' = [loop EXCEPT !.at = "done"]
    /\ asked' = batch /\ answers' = <<>>
    /\ UNCHANGED <<registry, offer, ran>>

\* As it would be if the last round were one of the others.
VerdictPast(call) ==
    IF loop.iterations > MaxIterations THEN "exhausted"
    ELSE IF loop.count[call] + 1 < RepeatLimit THEN "allow" ELSE "blocked"

\* LoopGuard.check: the verdict, and whether the call is counted.
Verdict(call) ==
    IF loop.iterations >= MaxIterations THEN "exhausted"
    ELSE IF loop.count[call] + 1 < RepeatLimit THEN "allow"
    ELSE IF loop.count[call] + 1 = RepeatLimit THEN "repeat" ELSE "blocked"

\* ToolDispatcher.screen
Screened(call) ==
    LET policy == Policy(call[1]) IN
    \/ offer.context > Ceiling(policy)
    \/ call[2] \in Personal /\ ~policy.personal /\ policy.kind # "retrieval"

\* What dispatch answers, in the order it asks; the rate limiter says what it likes.
Answer(call, limited) ==
    IF call[1] \notin offer.exposed THEN "unavailable"
    ELSE IF Verdict(call) # "allow" THEN Verdict(call)
    ELSE IF limited THEN "limited"
    ELSE IF Screened(call) THEN "refused" ELSE "ran"

\* As it would be if only a call that is refused were counted.
CountedIfRefused(call) == Verdict(call) = "blocked"

Counted(call) == call[1] \in offer.exposed /\ Verdict(call) # "exhausted"

Dispatches(limited) ==
    LET call == asked[Len(answers) + 1] IN
    /\ loop.at = "dispatch" /\ Len(answers) < Len(asked)
    /\ answers' = Append(answers, Answer(call, limited))
    /\ ran' = IF Answer(call, limited) = "ran" THEN [ran EXCEPT ![call] = @ + 1] ELSE ran
    /\ loop' = IF Counted(call) THEN [loop EXCEPT !.count[call] = @ + 1] ELSE loop
    /\ UNCHANGED <<registry, offer, asked>>

\* The results go back to the model.
SendResults ==
    /\ loop.at = "dispatch" /\ Len(answers) = Len(asked)
    /\ loop' = [loop EXCEPT !.at = "generate"]
    /\ UNCHANGED <<registry, offer, asked, answers, ran>>

LoopNext ==
    \/ PlanTools \/ Stops \/ SendResults
    \/ \E batch \in SeqOf(Calls, MaxCalls) \ {<<>>} : Asks(batch)
    \/ \E limited \in BOOLEAN : Dispatches(limited)

LoopSpec == LoopInit /\ [][LoopNext]_loopVars /\ WF_loopVars(LoopNext)
-----------------------------------------------------------------------------
(* The same call reaches its tool fewer times than the repeat limit in one turn,
   however the model spreads it over rounds and whatever else refuses it. *)
RepeatsAreBroken == \A c \in Calls : ran[c] > 0 => ran[c] < RepeatLimit

(* A conversation whose sources are RESTRICTED never reaches a tool that leaves the
   platform, whatever ceiling its policy asks for and whoever offers it. *)
RestrictedStaysInside ==
    offer.context = Restricted => \A c \in Calls : ran[c] > 0 => Policy(c[1]).kind = "retrieval"

(* The last round that is granted is spent on refusals: begin_iteration has already
   counted it when check asks whether the guard is exhausted. *)
ToolsRunBeforeTheLastRound ==
    [][ran' # ran => loop.iterations < MaxIterations]_loopVars

(* The loop ends whatever the model asks for: each round that begins is counted, and
   the round after the last is not answered. *)
LoopEnds == loop.at = "generate" ~> loop.at = "done"

\* What the guard of the loop promises of the tools that run (LoopGuard, filter_for_policy).
LoopIsSafe == []RepeatsAreBroken /\ []RestrictedStaysInside /\ ToolsRunBeforeTheLastRound
=============================================================================
