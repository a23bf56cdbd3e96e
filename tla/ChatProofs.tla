------------------------------ MODULE ChatProofs ------------------------------
(***************************************************************************)
(* Proofs about one chat turn: the loop of its tool calls, the guards of   *)
(* its answer, its stages and stream, the calls of the model it makes, and *)
(* the packing of its prompt.                                              *)
(***************************************************************************)
EXTENDS ChatTurn, ToolLoop, AnswerGuard, LlmCall, ContextPacking, DataLemmas, SequenceTheorems

-----------------------------------------------------------------------------
(* The loop of tool calls *)

\* What the proof needs of the types: the calls of a round are calls, and the counters numbers.
LoopTypes == [at : {"plan", "generate", "dispatch", "done"}, iterations : Int, count : [Calls -> Nat]]
LoopTyped ==
    /\ registry \in [Tools -> ToolType]
    /\ offer \in OfferType
    /\ loop \in LoopTypes
    /\ asked \in Seq(Calls) /\ answers \in Seq(Outcomes)
    /\ ran \in [Calls -> Nat]

\* A call that ran was counted, as the one that reached its tool.
RanIsCounted == \A c \in Calls : ran[c] <= loop.count[c]

\* The strengthening of the two invariants of LoopIsSafe.
LoopInv == LoopTyped /\ RanIsCounted /\ RepeatsAreBroken /\ RestrictedStaysInside

LEMMA BatchTyped == ASSUME NEW batch \in SeqOf(Calls, MaxCalls) PROVE batch \in Seq(Calls)
  BY LoopAssumption DEF SeqOf

LEMMA LoopInitInv == LoopInit => LoopInv
<1> SUFFICES ASSUME LoopInit PROVE LoopInv
  OBVIOUS
<1>1. LoopTyped
  <2>1. PICK context \in {0, Restricted}, admin \in BOOLEAN, wanted \in BOOLEAN :
          offer = [context |-> context, admin |-> admin, wanted |-> wanted, exposed |-> {}, rounds |-> 0]
    BY DEF LoopInit
  <2>2. offer \in OfferType
    BY <2>1, LoopAssumption DEF OfferType, Restricted
  <2> QED
    BY <2>2 DEF LoopInit, LoopTyped, LoopTypes
<1>2. \A c \in Calls : ran[c] = 0 /\ loop.count[c] = 0
  BY DEF LoopInit
<1> QED
  BY <1>1, <1>2 DEF LoopInv, RanIsCounted, RepeatsAreBroken, RestrictedStaysInside

\* Outside a dispatch nothing runs and nothing is counted.
LEMMA LoopRests ==
  ASSUME LoopInv, LoopTyped', ran' = ran, loop'.count = loop.count, registry' = registry,
         offer'.context = offer.context, offer'.admin = offer.admin
  PROVE  LoopInv'
<1>1. \A t : Policy(t)' = Policy(t)
  BY DEF Policy, Offered, Allowed
<1> QED
  BY <1>1 DEF LoopInv, RanIsCounted, RepeatsAreBroken, RestrictedStaysInside

\* What Answer lets run is not over its limit, and may have what the conversation holds.
LEMMA RunsWithin ==
  ASSUME LoopInv, NEW call \in Calls, NEW limited \in BOOLEAN, Answer(call, limited) = "ran"
  PROVE  /\ Counted(call) /\ loop.iterations < MaxIterations
         /\ loop.count[call] + 1 < RepeatLimit
         /\ offer.context = Restricted => Policy(call[1]).kind = "retrieval"
<1>1. call[1] \in offer.exposed /\ Verdict(call) = "allow" /\ ~Screened(call)
  <2>1. Verdict(call) # "ran"
    BY DEF Verdict
  <2> QED
    BY <2>1 DEF Answer
<1>2. /\ loop.iterations \in Int /\ loop.count[call] \in Nat /\ MaxIterations \in Nat /\ RepeatLimit \in Nat
  BY LoopAssumption DEF LoopInv, LoopTyped, LoopTypes
<1>3. loop.iterations < MaxIterations /\ loop.count[call] + 1 < RepeatLimit /\ Counted(call)
  BY <1>1, <1>2 DEF Verdict, Counted
<1>4. ASSUME offer.context = Restricted PROVE Policy(call[1]).kind = "retrieval"
  <2>1. Policy(call[1]) = LocalPolicy \/ Policy(call[1]) \in ToolType
    BY DEF Policy, Offered, LoopInv, LoopTyped
  <2>2. Policy(call[1]).ceiling \in 0..3
    <3>1. LocalPolicy.ceiling \in 0..3
      BY DEF LocalPolicy
    <3>2. Ceilings \subseteq 0..3
      BY LoopAssumption
    <3>3. \A policy \in ToolType : policy.ceiling \in 0..3
      BY <3>2 DEF ToolType
    <3> QED
      BY <2>1, <3>1, <3>3
  <2>3. ~(Restricted > Ceiling(Policy(call[1])))
    BY <1>1, <1>4 DEF Screened
  <2> QED
    BY <2>2, <2>3 DEF Ceiling, Restricted
<1> QED
  BY <1>3, <1>4

LEMMA LoopNextInv == LoopInv /\ [LoopNext]_loopVars => LoopInv'
<1> SUFFICES ASSUME LoopInv, [LoopNext]_loopVars PROVE LoopInv'
  OBVIOUS
<1>1. CASE PlanTools
  <2>1. PICK reachable \in SUBSET LocalTools :
          offer' = [offer EXCEPT !.exposed = Offered \cup reachable,
                                 !.rounds = IF offer.wanted /\ Offered \cup reachable # {} THEN MaxIterations ELSE 0]
    BY <1>1 DEF PlanTools
  <2> DEFINE exposed == Offered \cup reachable
  <2> DEFINE allowed == IF offer.wanted /\ exposed # {} THEN MaxIterations ELSE 0
  <2>2. exposed \in SUBSET (Tools \cup LocalTools) /\ allowed \in 0..MaxIterations
    BY LoopAssumption DEF Offered
  <2>3. offer' = [offer EXCEPT !.exposed = exposed, !.rounds = allowed]
    BY <2>1
  <2> HIDE DEF exposed, allowed
  <2>4. offer' \in OfferType /\ offer'.context = offer.context /\ offer'.admin = offer.admin
    BY <2>2, <2>3 DEF LoopInv, LoopTyped, OfferType
  <2>5. loop' = [loop EXCEPT !.at = "generate"] /\ UNCHANGED <<registry, asked, answers, ran>>
    BY <1>1 DEF PlanTools
  <2>6. LoopTyped' /\ loop'.count = loop.count
    BY <2>4, <2>5 DEF LoopInv, LoopTyped, LoopTypes
  <2> QED
    BY <2>4, <2>5, <2>6, LoopRests
<1>2. CASE Stops \/ SendResults
  <2>1. LoopTyped' /\ loop'.count = loop.count
    BY <1>2 DEF Stops, SendResults, LoopInv, LoopTyped, LoopTypes
  <2> QED
    BY <1>2, <2>1, LoopRests DEF Stops, SendResults
<1>3. ASSUME NEW batch \in SeqOf(Calls, MaxCalls) \ {<<>>}, Asks(batch) PROVE LoopInv'
  <2>1. batch \in Seq(Calls)
    BY BatchTyped
  <2>2. /\ asked' = batch /\ answers' = <<>> /\ UNCHANGED <<registry, offer, ran>>
        /\ \/ loop' = [loop EXCEPT !.at = "dispatch", !.iterations = loop.iterations + 1]
           \/ loop' = [loop EXCEPT !.at = "done"]
    BY <1>3 DEF Asks
  <2>3. loop' \in LoopTypes /\ loop'.count = loop.count
    <3>1. loop \in LoopTypes /\ loop.iterations + 1 \in Int
      BY DEF LoopInv, LoopTyped, LoopTypes
    <3> DEFINE next == loop.iterations + 1
    <3>2. \A new : \/ new = [loop EXCEPT !.at = "dispatch", !.iterations = next]
                   \/ new = [loop EXCEPT !.at = "done"]
                   => new \in LoopTypes /\ new.count = loop.count
      BY <3>1 DEF LoopTypes
    <3> QED
      BY <2>2, <3>2
  <2>4. LoopTyped'
    BY <2>1, <2>2, <2>3 DEF LoopInv, LoopTyped
  <2> QED
    BY <2>2, <2>3, <2>4, LoopRests
<1>4. ASSUME NEW limited \in BOOLEAN, Dispatches(limited) PROVE LoopInv'
  <2> DEFINE call == asked[Len(answers) + 1]
  <2>1. call \in Calls
    BY <1>4 DEF Dispatches, LoopInv, LoopTyped, LoopTypes
  <2>2. Answer(call, limited) \in Outcomes
    BY DEF Answer, Verdict, Outcomes
  <2>3. /\ answers' = Append(answers, Answer(call, limited))
        /\ ran' = IF Answer(call, limited) = "ran" THEN [ran EXCEPT ![call] = ran[call] + 1] ELSE ran
        /\ loop' = IF Counted(call) THEN [loop EXCEPT !.count = [loop.count EXCEPT ![call] = loop.count[call] + 1]] ELSE loop
        /\ UNCHANGED <<registry, offer, asked>>
    BY <1>4, <2>1 DEF Dispatches, LoopInv, LoopTyped, LoopTypes
  <2> HIDE DEF call
  <2>4. loop.count[call] \in Nat /\ ran[call] \in Nat /\ ran[call] <= loop.count[call]
    BY <2>1 DEF LoopInv, LoopTyped, LoopTypes, RanIsCounted
  <2> DEFINE count == IF Counted(call) THEN [loop.count EXCEPT ![call] = loop.count[call] + 1] ELSE loop.count
  <2>5. /\ count \in [Calls -> Nat]
        /\ \A c \in Calls : c # call => count[c] = loop.count[c]
        /\ count[call] = IF Counted(call) THEN loop.count[call] + 1 ELSE loop.count[call]
    BY <2>1, <2>4 DEF LoopInv, LoopTyped, LoopTypes
  <2>6. loop'.count = count /\ loop' \in LoopTypes
    <3>1. CASE Counted(call)
      <4>1. loop' = [loop EXCEPT !.count = count]
        BY <2>3, <3>1
      <4> HIDE DEF count
      <4> QED
        BY <2>5, <4>1 DEF LoopInv, LoopTyped, LoopTypes
    <3>2. CASE ~Counted(call)
      BY <2>3, <3>2 DEF LoopInv, LoopTyped, LoopTypes
    <3> QED
      BY <3>1, <3>2
  <2> HIDE DEF count
  <2>7. /\ ran' \in [Calls -> Nat]
        /\ \A c \in Calls : c # call => ran'[c] = ran[c]
        /\ ran'[call] = IF Answer(call, limited) = "ran" THEN ran[call] + 1 ELSE ran[call]
    BY <2>1, <2>3, <2>4 DEF LoopInv, LoopTyped, LoopTypes
  <2>8. LoopTyped'
    BY <2>2, <2>3, <2>6, <2>7 DEF LoopInv, LoopTyped
  <2>9. \A t : Policy(t)' = Policy(t)
    BY <2>3 DEF Policy, Offered, Allowed
  <2>10. CASE Answer(call, limited) = "ran"
    <3>1. /\ Counted(call) /\ loop.count[call] + 1 < RepeatLimit
          /\ offer.context = Restricted => Policy(call[1]).kind = "retrieval"
      BY <2>1, <2>10, RunsWithin
    <3>2. RanIsCounted'
      BY <2>4, <2>5, <2>6, <2>7, <2>10, <3>1 DEF LoopInv, RanIsCounted
    <3>3. RepeatsAreBroken'
      <4>1. ran[call] + 1 < RepeatLimit
        BY <2>4, <3>1, LoopAssumption
      <4> QED
        BY <2>7, <2>10, <4>1 DEF LoopInv, RepeatsAreBroken
    <3>4. RestrictedStaysInside'
      BY <2>3, <2>7, <2>9, <2>10, <3>1 DEF LoopInv, RestrictedStaysInside
    <3> QED
      BY <2>8, <3>2, <3>3, <3>4 DEF LoopInv
  <2>11. CASE Answer(call, limited) # "ran"
    <3>1. \A c \in Calls : ran'[c] = ran[c] /\ ran[c] \in Nat /\ loop.count[c] \in Nat
      BY <2>7, <2>11 DEF LoopInv, LoopTyped, LoopTypes
    <3>2. RanIsCounted'
      BY <2>4, <2>5, <2>6, <3>1 DEF LoopInv, RanIsCounted
    <3> QED
      BY <2>3, <2>8, <2>9, <3>1, <3>2 DEF LoopInv, RepeatsAreBroken, RestrictedStaysInside
  <2> QED
    BY <2>10, <2>11
<1>5. CASE UNCHANGED loopVars
  <2>1. LoopTyped'
    BY <1>5 DEF loopVars, LoopInv, LoopTyped
  <2> QED
    BY <1>5, <2>1, LoopRests DEF loopVars
<1> QED
  BY <1>1, <1>2, <1>3, <1>4, <1>5 DEF LoopNext

\* Only a dispatch that is answered "ran" reaches a tool.
LEMMA LoopRuns == LoopInv /\ [LoopNext]_loopVars => [ran' # ran => loop.iterations < MaxIterations]_loopVars
<1> SUFFICES ASSUME LoopInv, LoopNext, ran' # ran PROVE loop.iterations < MaxIterations
  BY DEF loopVars
<1>1. PICK limited \in BOOLEAN : Dispatches(limited)
  BY DEF LoopNext, PlanTools, Stops, SendResults, Asks
<1> DEFINE call == asked[Len(answers) + 1]
<1>2. call \in Calls /\ Answer(call, limited) = "ran"
  BY <1>1 DEF Dispatches, LoopInv, LoopTyped, LoopTypes
<1> QED
  BY <1>2, RunsWithin

\* The inductive invariant of the loop.
THEOREM LoopInductive == LoopSpec => []LoopInv
<1>1. LoopInit => LoopInv
  BY LoopInitInv
<1>2. LoopInv /\ [LoopNext]_loopVars => LoopInv'
  BY LoopNextInv
<1> QED
  BY <1>1, <1>2, PTL DEF LoopSpec

(* For any registry, model and limits: a call runs less often than the repeat limit, a
   RESTRICTED conversation reaches only retrieval, and nothing runs in the last round that
   is granted (LoopGuard, ToolDispatcher.dispatch). *)
THEOREM LoopSafety == LoopSpec => LoopIsSafe
<1>1. LoopInv => RepeatsAreBroken /\ RestrictedStaysInside
  BY DEF LoopInv
<1>2. LoopInv /\ [LoopNext]_loopVars => [ran' # ran => loop.iterations < MaxIterations]_loopVars
  BY LoopRuns
<1> QED
  BY <1>1, <1>2, LoopInductive, PTL DEF LoopSpec, LoopIsSafe, ToolsRunBeforeTheLastRound

-----------------------------------------------------------------------------
(* The guards of the answer *)

DraftType == [sentences : Seq(Sentences), refusal : BOOLEAN, personal : {"none", "confirmed", "dismissed"},
              sources : Nat, above : SUBSET Nat, pii : BOOLEAN]
ReplyType == [text : {"answer", "no_clearance", "personal", "ungrounded"}, markers : SUBSET Nat,
              citations : SUBSET Nat, notice : BOOLEAN, redacted : BOOLEAN, action : Actions,
              stored : {"nothing", "clean", "personal"}]

Verified0 == {o \in Occurrences : Supported(o)}

GuardTyped == draft \in DraftType /\ reply \in ReplyType /\ report.citations \subseteq Nat /\ report.valid \in BOOLEAN

\* The report is of the occurrences there are, or of a stage that failed.
ReportIsTrue == guarding # "citations" /\ report.valid =>
    /\ report.attempted = Cardinality(Occurrences) /\ report.verified = Cardinality(Verified0)
    /\ report.citations = {Number(o) : o \in Verified0}

\* What is left of an answer that goes out is what its report kept.
ReplyIsReported == guarding # "citations" /\ ~Canned(reply) =>
    /\ reply.citations = report.citations
    /\ report.valid => reply.markers \subseteq report.citations

\* An answer past the gate that scored too little says so.
LowScoreIsTold ==
    /\ guarding \in {"store", "done"} /\ ~Canned(reply) /\ ~draft.refusal /\ draft.sources # 0 /\ Scores(Enough)
    => reply.notice

\* The strengthening of AnswerIsHonest.
AnswerInv ==
    /\ GuardTyped /\ ReportIsTrue /\ ReplyIsReported /\ LowScoreIsTold
    /\ guarding = "done" /\ draft.pii => reply.stored = "clean"

LEMMA SentencesFacts ==
  ASSUME GuardTyped
  PROVE  /\ draft.sentences \in Seq(Sentences)
         /\ \A s \in DOMAIN draft.sentences : draft.sentences[s].refs \in Seq(Nat)
<1>1. draft.sentences \in Seq(Sentences)
  BY DEF GuardTyped, DraftType
<1>2. \A s \in DOMAIN draft.sentences : draft.sentences[s] \in Sentences
  BY <1>1
<1>3. \A sentence \in Sentences : sentence.refs \in Seq(Nat)
  <2>1. Sentences \subseteq [claim : BOOLEAN, refs : Seq(Nat)]
    BY GuardAssumption
  <2> QED
    BY <2>1
<1> QED
  BY <1>1, <1>2, <1>3

LEMMA NumbersTyped == ASSUME GuardTyped PROVE \A o \in Occurrences : Number(o) \in Nat
<1> SUFFICES ASSUME NEW o \in Occurrences PROVE Number(o) \in Nat
  OBVIOUS
<1>1. PICK s \in DOMAIN draft.sentences : o \in {s} \X (DOMAIN draft.sentences[s].refs)
  BY DEF Occurrences
<1>2. o[1] = s /\ o[2] \in DOMAIN draft.sentences[s].refs
  BY <1>1
<1>3. draft.sentences[s].refs \in Seq(Nat)
  BY SentencesFacts
<1> QED
  BY <1>2, <1>3 DEF Number

\* An answer has finitely many markers.
LEMMA OccurrencesFinite == ASSUME GuardTyped PROVE IsFiniteSet(Occurrences)
<1> DEFINE D == DOMAIN draft.sentences
           Of(s) == {s} \X (DOMAIN draft.sentences[s].refs)
           all == {Of(s) : s \in D}
           of == [s \in D |-> Of(s)]
<1>1. IsFiniteSet(D)
  <2>1. D = 1..Len(draft.sentences) /\ Len(draft.sentences) \in Nat
    BY SentencesFacts
  <2> QED
    BY <2>1, FS_Interval
<1>2. \A s \in D : IsFiniteSet(Of(s))
  <2> SUFFICES ASSUME NEW s \in D PROVE IsFiniteSet(Of(s))
    OBVIOUS
  <2>1. draft.sentences[s].refs \in Seq(Nat)
    BY SentencesFacts
  <2>2. DOMAIN draft.sentences[s].refs = 1..Len(draft.sentences[s].refs) /\ Len(draft.sentences[s].refs) \in Nat
    BY <2>1
  <2>3. IsFiniteSet(DOMAIN draft.sentences[s].refs) /\ IsFiniteSet({s})
    <3>1. IsFiniteSet(1..Len(draft.sentences[s].refs))
      BY <2>2, FS_Interval
    <3>2. IsFiniteSet({s})
      BY FS_Singleton
    <3> QED
      BY <2>2, <3>1, <3>2
  <2> QED
    BY <2>3, FS_Product
<1>3. of \in Surjection(D, all)
  BY DEF Surjection
<1>4. IsFiniteSet(all)
  BY <1>1, <1>3, FS_Surjection
<1>5. \A T \in all : IsFiniteSet(T)
  BY <1>2
<1>6. IsFiniteSet(UNION all)
  BY <1>4, <1>5, FS_UNION
<1> QED
  BY <1>6 DEF Occurrences

\* The numbers of the markers change with the answer only.
LEMMA SameAnswer ==
  ASSUME UNCHANGED <<draft, support>>
  PROVE  /\ Occurrences' = Occurrences /\ Verified0' = Verified0
         /\ \A o : Number(o)' = Number(o)
  BY DEF Occurrences, Verified0, Supported, Number

LEMMA AnswerInitInv == GuardInit => AnswerInv
<1> SUFFICES ASSUME GuardInit PROVE AnswerInv
  OBVIOUS
<1>1. draft \in DraftType
  <2>1. PICK sentences \in SeqOf(Sentences, MaxSentences), refusal \in BOOLEAN, pii \in BOOLEAN,
             personal \in {"none", "confirmed", "dismissed"}, sources \in 0..Sources :
             \E above \in SUBSET (1..sources) :
               draft = [sentences |-> sentences, refusal |-> refusal, personal |-> personal,
                        sources |-> sources, above |-> above, pii |-> pii]
    BY ZenonT(45) DEF GuardInit
  <2>2. PICK above \in SUBSET (1..sources) :
               draft = [sentences |-> sentences, refusal |-> refusal, personal |-> personal,
                        sources |-> sources, above |-> above, pii |-> pii]
    BY <2>1
  <2>3. sentences \in Seq(Sentences) /\ sources \in Nat /\ above \in SUBSET Nat
    BY GuardAssumption DEF SeqOf
  <2> QED
    BY <2>2, <2>3 DEF DraftType
<1>2. reply \in ReplyType
  BY DEF GuardInit, ReplyType, Actions
<1> QED
  BY <1>1, <1>2 DEF GuardInit, AnswerInv, GuardTyped, ReportIsTrue, ReplyIsReported, LowScoreIsTold, Failed

\* A withheld answer is the guard's own, whatever it had been.
LEMMA WithheldFacts ==
  ASSUME NEW why \in {"no_clearance", "personal", "ungrounded"}, reply \in ReplyType
  PROVE  /\ Withheld(reply, why) \in ReplyType /\ Canned(Withheld(reply, why))
         /\ Withheld(reply, why).stored = reply.stored
  BY DEF Withheld, ReplyType, Actions, Canned

\* A check that leaves the report alone leaves the answer as reported, or withholds it.
LEMMA CheckKeeps ==
  ASSUME AnswerInv, UNCHANGED <<draft, support, report>>, reply' \in ReplyType,
         guarding # "citations", guarding' # "citations",
         Canned(reply') \/ (~Canned(reply) /\ reply'.citations = reply.citations /\ reply'.markers = reply.markers)
  PROVE  GuardTyped' /\ ReportIsTrue' /\ ReplyIsReported'
<1>1. ReportIsTrue'
  BY SameAnswer DEF AnswerInv, ReportIsTrue
<1> QED
  BY <1>1 DEF AnswerInv, GuardTyped, ReplyIsReported, Canned

LEMMA AnswerNextInv == AnswerInv /\ [GuardNext]_guardVars => AnswerInv'
<1> SUFFICES ASSUME AnswerInv, [GuardNext]_guardVars PROVE AnswerInv'
  OBVIOUS
<1>1. CASE Cite
  <2>1. UNCHANGED <<draft, support>> /\ guarding' = "clearance" /\ guarding = "citations"
    BY <1>1 DEF Cite
  <2> DEFINE markers == IF report'.valid THEN Kept(report'.citations) ELSE {Number(o) : o \in Occurrences}
  <2>2. /\ report'.citations \subseteq Nat /\ report'.valid \in BOOLEAN /\ report'.notice \in BOOLEAN
        /\ report'.valid => /\ report'.attempted = Cardinality(Occurrences) /\ report'.verified = Cardinality(Verified0)
                            /\ report'.citations = {Number(o) : o \in Verified0}
    <3>1. report' = Extracted \/ report' = Failed
      BY <1>1 DEF Cite
    <3>2. Extracted.citations \subseteq Nat
      BY NumbersTyped DEF Extracted, AnswerInv
    <3>3. Below(Cardinality(Occurrences), Cardinality(Verified0), Enough) \in BOOLEAN
      <4> DEFINE none == Claims # {} /\ 0 < Enough
                 few == Cardinality(Verified0) * Whole < Enough * Cardinality(Occurrences)
      <4>1. none \in BOOLEAN
        OBVIOUS
      <4>3. few \in BOOLEAN
        <5> DEFINE a == Cardinality(Verified0) * Whole
                   b == Enough * Cardinality(Occurrences)
        <5>1. (a < b) = TRUE \/ (a < b) = FALSE
          OBVIOUS
        <5> QED
          BY <5>1
      <4>2. Below(Cardinality(Occurrences), Cardinality(Verified0), Enough) = IF Cardinality(Occurrences) = 0 THEN none ELSE few
        BY Zenon DEF Below
      <4> HIDE DEF none, few
      <4> QED
        BY <4>1, <4>2, <4>3
    <3>4. CASE report' = Failed
      BY <3>4 DEF Failed
    <3>5. CASE report' = Extracted
      <4> DEFINE told == Below(Cardinality(Occurrences), Cardinality(Verified0), Enough)
      <4>1. Extracted = [citations |-> {Number(o) : o \in Verified0}, attempted |-> Cardinality(Occurrences),
                         verified |-> Cardinality(Verified0), valid |-> TRUE, notice |-> told]
        BY DEF Extracted, Verified0
      <4>2. told \in BOOLEAN
        BY <3>3
      <4> HIDE DEF told
      <4> QED
        BY <3>2, <3>5, <4>1, <4>2
    <3> QED
      BY <3>1, <3>4, <3>5
  <2>3. markers \subseteq Nat /\ (report'.valid => markers \subseteq report'.citations)
    BY <2>2, NumbersTyped DEF Kept, AnswerInv
  <2>4. reply' = [reply EXCEPT !.notice = report'.notice, !.citations = report'.citations, !.markers = markers]
    BY <1>1 DEF Cite
  <2> HIDE DEF markers
  <2>5. reply' \in ReplyType /\ reply'.citations = report'.citations /\ reply'.markers = markers
    <3>1. reply \in ReplyType
      BY DEF AnswerInv, GuardTyped
    <3> QED
      BY <2>2, <2>3, <2>4, <3>1 DEF ReplyType
  <2>6. GuardTyped'
    BY <2>1, <2>2, <2>5 DEF AnswerInv, GuardTyped
  <2>7. ReportIsTrue' /\ ReplyIsReported' /\ LowScoreIsTold'
    BY <2>1, <2>2, <2>3, <2>5, SameAnswer DEF ReportIsTrue, ReplyIsReported, LowScoreIsTold
  <2> QED
    BY <2>1, <2>6, <2>7 DEF AnswerInv
<1>2. CASE Clearance
  <2>1. /\ UNCHANGED <<draft, support, report>> /\ guarding = "clearance" /\ guarding' = "egress"
        /\ reply \in ReplyType
    BY <1>2 DEF Clearance, AnswerInv, GuardTyped
  <2>2. CASE reply' = reply
    BY <2>1, <2>2, CheckKeeps DEF AnswerInv, LowScoreIsTold, Canned, ReplyIsReported
  <2>3. CASE reply' = [Withheld(reply, "no_clearance") EXCEPT !.citations = reply.citations \ draft.above]
    <3> DEFINE left == reply.citations \ draft.above
    <3>1. left \in SUBSET Nat
      BY <2>1 DEF ReplyType
    <3>2. reply' = [Withheld(reply, "no_clearance") EXCEPT !.citations = left]
      BY <2>3
    <3> HIDE DEF left
    <3>3. reply' \in ReplyType /\ reply'.text = Withheld(reply, "no_clearance").text
      BY <2>1, <3>1, <3>2, WithheldFacts DEF ReplyType
    <3>4. Canned(reply')
      BY <2>1, <3>3, WithheldFacts DEF Canned
    <3> QED
      BY <2>1, <3>3, <3>4, CheckKeeps DEF AnswerInv, LowScoreIsTold
  <2>4. Withheld(reply, "no_clearance").citations = reply.citations
    BY <2>1 DEF Withheld, ReplyType
  <2> QED
    BY <1>2, <2>2, <2>3, <2>4 DEF Clearance
<1>3. ASSUME NEW blocks \in BOOLEAN, ScanEgress(blocks) PROVE AnswerInv'
  <2>1. /\ UNCHANGED <<draft, support, report>> /\ guarding = "egress" /\ guarding' = "groundedness"
        /\ reply \in ReplyType
    BY <1>3 DEF ScanEgress, AnswerInv, GuardTyped
  <2>2. CASE reply' = reply
    BY <2>1, <2>2, CheckKeeps DEF AnswerInv, LowScoreIsTold, Canned
  <2>3. CASE reply' = Withheld(reply, "personal")
    BY <2>1, <2>3, WithheldFacts, CheckKeeps DEF AnswerInv, LowScoreIsTold
  <2>4. CASE reply' = [reply EXCEPT !.redacted = TRUE, !.action = "redact"] /\ ~Canned(reply)
    <3>1. reply' \in ReplyType /\ reply'.citations = reply.citations /\ reply'.markers = reply.markers
      BY <2>1, <2>4 DEF ReplyType, Actions
    <3> QED
      BY <2>1, <2>4, <3>1, CheckKeeps DEF AnswerInv, LowScoreIsTold
  <2> QED
    BY <1>3, <2>2, <2>3, <2>4 DEF ScanEgress
<1>4. CASE CheckGroundedness
  <2>1. /\ UNCHANGED <<draft, support, report>> /\ guarding = "groundedness" /\ guarding' = "store"
        /\ reply \in ReplyType
    BY <1>4 DEF CheckGroundedness, AnswerInv, GuardTyped
  <2>2. \A least : Scores(least)' = Scores(least)
    BY <2>1 DEF Scores, Below, Claims
  <2>3. CASE reply' = reply /\ (Canned(reply) \/ draft.refusal \/ draft.sources = 0 \/ ~Scores(Enough))
    BY <2>1, <2>2, <2>3, CheckKeeps DEF AnswerInv, LowScoreIsTold, Canned
  <2>4. CASE reply' = Withheld(reply, "ungrounded")
    BY <2>1, <2>4, WithheldFacts, CheckKeeps DEF AnswerInv, LowScoreIsTold
  <2>5. CASE reply' = WithNotice(reply) /\ ~Canned(reply)
    <3>1. Annotated(reply) \in ReplyType /\ Annotated(reply).citations = reply.citations /\ Annotated(reply).markers = reply.markers
      BY <2>1 DEF Annotated, ReplyType, Actions
    <3>2. reply' \in ReplyType /\ reply'.citations = reply.citations /\ reply'.markers = reply.markers /\ reply'.notice
      BY <2>5, <3>1 DEF WithNotice, ReplyType
    <3> QED
      BY <2>1, <2>5, <3>2, CheckKeeps DEF AnswerInv, LowScoreIsTold
  <2> QED
    BY <1>4, <2>3, <2>4, <2>5 DEF CheckGroundedness
<1>5. CASE StoreAnswer
  <2>1. /\ UNCHANGED <<draft, support, report>> /\ guarding = "store" /\ guarding' = "done"
        /\ reply' = [reply EXCEPT !.stored = ToStore] /\ reply \in ReplyType
    BY <1>5 DEF StoreAnswer, AnswerInv, GuardTyped
  <2>2. ToStore \in {"clean", "personal"} /\ (draft.pii => ToStore = "clean")
    BY DEF ToStore
  <2>3. /\ reply' \in ReplyType /\ reply'.citations = reply.citations /\ reply'.markers = reply.markers
        /\ reply'.text = reply.text /\ reply'.notice = reply.notice /\ reply'.stored = ToStore
    BY <2>1, <2>2 DEF ReplyType
  <2>4. \A least : Scores(least)' = Scores(least)
    BY <2>1 DEF Scores, Below, Claims
  <2>5. GuardTyped' /\ ReportIsTrue' /\ ReplyIsReported'
    BY <2>1, <2>3, CheckKeeps DEF Canned
  <2>6. LowScoreIsTold'
    BY <2>1, <2>3, <2>4 DEF AnswerInv, LowScoreIsTold, Canned
  <2> QED
    BY <2>1, <2>2, <2>3, <2>5, <2>6 DEF AnswerInv
<1>6. CASE UNCHANGED guardVars
  <2>1. \A least : Scores(least)' = Scores(least)
    BY <1>6 DEF guardVars, Scores, Below, Claims
  <2> QED
    BY <1>6, <2>1, SameAnswer DEF guardVars, AnswerInv, GuardTyped, ReportIsTrue, ReplyIsReported, LowScoreIsTold
<1> QED
  BY <1>1, <1>2, <1>3, <1>4, <1>5, <1>6 DEF GuardNext

\* The invariant is about scores; what they say of the answer follows where the gate is on.
LEMMA AnswerFollows == ASSUME 0 < Enough PROVE AnswerInv => AnswerIsHonest
<1> SUFFICES ASSUME AnswerInv PROVE AnswerIsHonest
  OBVIOUS
<1>1. MarkersAreBacked
  <2> SUFFICES ASSUME Sent, NEW n \in reply.markers, ~reply.notice, ~draft.refusal, draft.sources # 0
               PROVE  n \in reply.citations /\ \E s \in DOMAIN draft.sentences : <<s, n>> \in support
    BY DEF MarkersAreBacked
  <2>1. guarding = "done" /\ ~Canned(reply) /\ ~Scores(Enough)
    BY DEF Sent, AnswerInv, LowScoreIsTold
  <2>2. report.valid
    BY <2>1 DEF Scores, AnswerInv, GuardTyped
  <2>3. n \in reply.citations /\ n \in {Number(o) : o \in Verified0}
    BY <2>1, <2>2 DEF AnswerInv, ReplyIsReported, ReportIsTrue
  <2>4. PICK o \in Occurrences : Supported(o) /\ Number(o) = n
    BY <2>3 DEF Verified0
  <2>5. o[1] \in DOMAIN draft.sentences /\ <<o[1], n>> \in support
    BY <2>4 DEF Supported, Occurrences
  <2> QED
    BY <2>3, <2>5
<1>2. UngroundedIsTold
  <2> SUFFICES ASSUME Sent, draft.sources > 0, ~draft.refusal, ~reply.notice,
                      IF Occurrences = {} THEN Claims # {}
                      ELSE Cardinality(Verified0) * Whole < Enough * Cardinality(Occurrences)
               PROVE  FALSE
    BY DEF UngroundedIsTold, Verified0, Supported
  <2>1. guarding = "done" /\ ~Canned(reply) /\ ~Scores(Enough)
    <3>1. draft.sources # 0
      BY DEF AnswerInv, GuardTyped, DraftType
    <3> QED
      BY <3>1 DEF Sent, AnswerInv, LowScoreIsTold
  <2>2. report.valid
    BY <2>1 DEF Scores, AnswerInv, GuardTyped
  <2>3. ~Below(Cardinality(Occurrences), Cardinality(Verified0), Enough)
    BY <2>1, <2>2 DEF Scores, AnswerInv, ReportIsTrue
  <2>4. Cardinality(Occurrences) = 0 <=> Occurrences = {}
    BY OccurrencesFinite, FS_EmptySet DEF AnswerInv
  <2> QED
    BY <2>3, <2>4 DEF Below
<1>3. StoredIsClean
  BY DEF StoredIsClean, AnswerInv
<1> QED
  BY <1>1, <1>2, <1>3 DEF AnswerIsHonest

\* The inductive invariant of the guards.
THEOREM AnswerInductive == GuardSpec => []AnswerInv
<1>1. GuardInit => AnswerInv
  BY AnswerInitInv
<1>2. AnswerInv /\ [GuardNext]_guardVars => AnswerInv'
  BY AnswerNextInv
<1> QED
  BY <1>1, <1>2, PTL DEF GuardSpec

(* For any answer, sources and thresholds, whichever stage fails: what is sent is backed by
   its sources or says that it may not be, and what is stored was scanned (extract_citations,
   OutputGuard.check). A gate at 0 is switched off, and then a failed citation stage is not told. *)
THEOREM AnswerHonest == ASSUME 0 < Enough PROVE GuardSpec => []AnswerIsHonest
<1>1. AnswerInv => AnswerIsHonest
  BY AnswerFollows
<1> QED
  BY <1>1, AnswerInductive, PTL

-----------------------------------------------------------------------------
(* The stages and the stream of a turn *)

OnWire == Events \cup {"beat", "end"}

\* Events that neither end a turn nor generate or close an answer.
Quiet == Events \ {"done", "error", "citations", "tool_call", "token"}

\* The stages after which the citations are out, or nobody knows.
Closing == {"answer", "record_turn", "write_back", "finish", "failed", "end"}
Before  == Stages \ Closing

\* A tool call is the last event so far.
Calling(told) == \E i \in DOMAIN told : told[i] = "tool_call" /\ \A k \in i + 1..Len(told) : told[k] \notin Events

StreamTyped ==
    /\ stage \in Stages /\ owed \in Seq({"unsaved", "degraded"})
    /\ outbox \in Seq(Events) /\ buffer \in Seq(OnWire) /\ seen \in Seq(Events)
    /\ pump \in {"sending", "closing", "closed"}

\* The strengthening of StreamIsWellFormed: what the stage says of the events so far.
StreamInv ==
    /\ StreamTyped
    /\ Orderly(Told)
    /\ stage # "end" => ~Heard("done") /\ ~Heard("error")
    /\ stage \in Before => ~Heard("citations")
    /\ Calling(Told) => stage \in {"dispatch", "failed"}
    /\ pump # "sending" => outbox = <<>>

LEMMA Apart == Events \cap {"beat", "end"} = {} /\ Quiet \subseteq Events
  BY DEF Events, Quiet

LEMMA ToldTyped == ASSUME StreamTyped PROVE Told \in Seq(OnWire)
  BY DEF StreamTyped, Told, OnWire

\* A place between two places behind the first m.
LEMMA Shifted ==
  ASSUME NEW m \in Nat, NEW n \in Nat, NEW i \in Int, NEW j \in Int, NEW k \in Int,
         i > m, j <= m + n, i - m + 1 <= k, k <= j - m - 1
  PROVE  k \in 1..n /\ m + k \in i + 1..j - 1
  OBVIOUS

\* More events after those so far.
LEMMA Extend ==
  ASSUME NEW s \in Seq(OnWire), NEW t \in Seq(Events), Orderly(s), Orderly(t),
         "done" \notin ToSet(s), "error" \notin ToSet(s),
         "citations" \in ToSet(s) => "token" \notin ToSet(t) /\ "tool_call" \notin ToSet(t),
         Calling(s) /\ t # <<>> => t[1] \in {"tool_result", "error"}
  PROVE  /\ Orderly(s \o t)
         /\ ToSet(s \o t) = ToSet(s) \cup ToSet(t)
         /\ t # <<>> /\ Calling(s \o t) => t[Len(t)] = "tool_call"
         /\ t = <<>> => s \o t = s
<1> DEFINE u == s \o t
<1>0. PICK m \in Nat, n \in Nat : m = Len(s) /\ n = Len(t)
  OBVIOUS
<1>1. /\ u \in Seq(OnWire) /\ Len(u) = Len(s) + Len(t) /\ Len(s) \in Nat /\ Len(t) \in Nat
      /\ \A i \in 1..Len(s) : u[i] = s[i] /\ s[i] \in ToSet(s)
      /\ \A i \in 1..Len(t) : u[Len(s) + i] = t[i] /\ t[i] \in Events /\ t[i] \in ToSet(t)
      /\ DOMAIN u = 1..Len(u) /\ DOMAIN s = 1..Len(s) /\ DOMAIN t = 1..Len(t)
  BY Apart DEF OnWire, ToSet
<1>2. \A j \in DOMAIN u : j > Len(s) => j - Len(s) \in 1..Len(t) /\ u[j] = t[j - Len(s)]
  BY <1>1
<1> HIDE DEF u
<1>3. Orderly(u)
  <2> SUFFICES ASSUME NEW i \in DOMAIN u, NEW j \in DOMAIN u, i < j, u[j] \in Events
               PROVE  /\ u[i] # "done"
                      /\ u[i] = "error" => u[j] = "done"
                      /\ u[i] = "citations" => u[j] \notin {"token", "tool_call"}
                      /\ u[i] = "tool_call" /\ (\A k \in i + 1..j - 1 : u[k] \notin Events)
                         => u[j] \in {"tool_result", "error"}
    BY DEF Orderly
  <2>1. CASE j <= Len(s)
    <3>1. /\ i \in DOMAIN s /\ j \in DOMAIN s /\ u[i] = s[i] /\ u[j] = s[j]
          /\ \A k \in i + 1..j - 1 : u[k] = s[k]
      BY <1>1, <2>1
    <3> QED
      BY <3>1 DEF Orderly
  <2>2. CASE i > Len(s)
    <3> DEFINE a == i - Len(s)
               b == j - Len(s)
    <3>1. a \in DOMAIN t /\ b \in DOMAIN t /\ a < b /\ u[i] = t[a] /\ u[j] = t[b]
      BY <1>1, <1>2, <2>2
    <3>2. (\A k \in i + 1..j - 1 : u[k] \notin Events) => \A k \in a + 1..b - 1 : t[k] \notin Events
      <4> SUFFICES ASSUME \A k \in i + 1..j - 1 : u[k] \notin Events, NEW k \in a + 1..b - 1 PROVE t[k] \notin Events
        OBVIOUS
      <4>1. k \in 1..Len(t) /\ Len(s) + k \in i + 1..j - 1
        <5>1. i \in Int /\ j \in Int /\ j <= m + n /\ i > m
          BY <1>0, <1>1, <2>2
        <5>2. k \in Int /\ i - m + 1 <= k /\ k <= j - m - 1
          BY <1>0, <5>1
        <5>3. k \in 1..n /\ m + k \in i + 1..j - 1
          BY <5>1, <5>2, Shifted
        <5> QED
          BY <1>0, <5>3
      <4>2. u[Len(s) + k] = t[k]
        BY <1>1, <4>1
      <4>3. u[Len(s) + k] \notin Events
        BY <4>1
      <4> QED
        BY <4>2, <4>3
    <3> HIDE DEF a, b
    <3> QED
      BY <3>1, <3>2 DEF Orderly
  <2>3. CASE i <= Len(s) /\ j > Len(s)
    <3>1. /\ i \in DOMAIN s /\ u[i] = s[i] /\ s[i] \in ToSet(s)
          /\ j - Len(s) \in 1..Len(t) /\ u[j] \in ToSet(t)
      BY <1>1, <1>2, <2>3
    <3>2. ASSUME u[i] = "tool_call", \A k \in i + 1..j - 1 : u[k] \notin Events
          PROVE  u[j] \in {"tool_result", "error"}
      <4>1. u[Len(s) + 1] = t[1] /\ t[1] \in Events
        BY <1>1, <3>1
      <4>2. j = Len(s) + 1
        BY <1>1, <2>3, <3>1, <3>2, <4>1
      <4>3. \A k \in i + 1..Len(s) : s[k] \notin Events
        BY <1>1, <3>1, <3>2, <4>2
      <4>4. Calling(s) /\ t # <<>>
        BY <1>1, <3>1, <3>2, <4>3 DEF Calling
      <4> QED
        BY <4>1, <4>2, <4>4
    <3> QED
      BY <3>1, <3>2
  <2> QED
    BY <1>1, <2>1, <2>2, <2>3
<1>4. ToSet(u) = ToSet(s) \cup ToSet(t)
  <2>1. \A i \in 1..Len(s) : i \in DOMAIN u
    BY <1>1
  <2>2. \A i \in 1..Len(t) : Len(s) + i \in DOMAIN u
    BY <1>1
  <2>3. \A i \in DOMAIN u : i \in 1..Len(s) \/ i > Len(s)
    BY <1>1
  <2>4. \A e : e \in ToSet(u) => e \in ToSet(s) \/ e \in ToSet(t)
    BY <1>1, <1>2, <2>3 DEF ToSet
  <2>5. \A e : e \in ToSet(s) => e \in ToSet(u)
    BY <1>1, <2>1 DEF ToSet
  <2>6. ASSUME NEW e \in ToSet(t) PROVE e \in ToSet(u)
    <3>1. PICK i \in 1..Len(t) : t[i] = e
      BY <1>1 DEF ToSet
    <3>2. Len(s) + i \in DOMAIN u /\ u[Len(s) + i] = e
      BY <1>1, <2>2, <3>1
    <3> QED
      BY <3>2 DEF ToSet
  <2> QED
    BY <2>4, <2>5, <2>6
<1>5. ASSUME t # <<>>, Calling(u) PROVE t[Len(t)] = "tool_call"
  <2>1. PICK i \in DOMAIN u : u[i] = "tool_call" /\ \A k \in i + 1..Len(u) : u[k] \notin Events
    BY <1>5 DEF Calling
  <2>2. Len(t) \in 1..Len(t) /\ u[Len(u)] = t[Len(t)] /\ t[Len(t)] \in Events
    BY <1>1, <1>5
  <2>3. ASSUME i < Len(u) PROVE FALSE
    <3>1. Len(u) \in i + 1..Len(u)
      BY <1>1, <2>3
    <3> QED
      BY <2>1, <2>2, <3>1
  <2>4. i = Len(u)
    BY <1>1, <2>3
  <2> QED
    BY <2>1, <2>2, <2>4
<1>6. t = <<>> => u = s
  BY DEF u
<1> QED
  BY <1>3, <1>4, <1>5, <1>6 DEF u

\* A heartbeat or the sentinel at the end is none of the events.
LEMMA Beats ==
  ASSUME NEW s \in Seq(OnWire), NEW x \in {"beat", "end"}
  PROVE  /\ Orderly(s) => Orderly(Append(s, x))
         /\ Calling(Append(s, x)) => Calling(s)
         /\ \A e \in Events : e \in ToSet(Append(s, x)) <=> e \in ToSet(s)
<1> DEFINE u == Append(s, x)
<1>1. /\ Len(u) = Len(s) + 1 /\ Len(s) \in Nat /\ u[Len(u)] = x /\ x \notin Events
      /\ \A i \in 1..Len(s) : u[i] = s[i]
      /\ DOMAIN u = 1..Len(u) /\ DOMAIN s = 1..Len(s)
  BY Apart
<1> HIDE DEF u
<1>2. Orderly(s) => Orderly(u)
  <2> SUFFICES ASSUME Orderly(s), NEW i \in DOMAIN u, NEW j \in DOMAIN u, i < j, u[j] \in Events
               PROVE  /\ u[i] # "done"
                      /\ u[i] = "error" => u[j] = "done"
                      /\ u[i] = "citations" => u[j] \notin {"token", "tool_call"}
                      /\ u[i] = "tool_call" /\ (\A k \in i + 1..j - 1 : u[k] \notin Events)
                         => u[j] \in {"tool_result", "error"}
    BY DEF Orderly
  <2>1. j <= Len(s)
    BY <1>1
  <2>2. i \in DOMAIN s /\ j \in DOMAIN s /\ \A k \in i + 1..j - 1 : u[k] = s[k]
    BY <1>1, <2>1
  <2> QED
    BY <1>1, <2>2 DEF Orderly
<1>3. ASSUME Calling(u) PROVE Calling(s)
  <2>1. PICK i \in DOMAIN u : u[i] = "tool_call" /\ \A k \in i + 1..Len(u) : u[k] \notin Events
    BY <1>3 DEF Calling
  <2>2. "tool_call" \in Events
    BY DEF Events
  <2>4. i \in 1..Len(s)
    <3>1. i # Len(u)
      BY <1>1, <2>1, <2>2
    <3>2. i \in 1..Len(u)
      BY <1>1
    <3> QED
      BY <1>1, <3>1, <3>2
  <2>5. \A k \in i + 1..Len(s) : k \in 1..Len(s) /\ k \in i + 1..Len(u)
    BY <1>1, <2>4
  <2>3. i \in DOMAIN s /\ \A k \in i + 1..Len(s) : s[k] \notin Events
    BY <1>1, <2>1, <2>4, <2>5
  <2> QED
    BY <1>1, <2>1, <2>3 DEF Calling
<1>4. \A e \in Events : e \in ToSet(u) <=> e \in ToSet(s)
  BY <1>1 DEF ToSet
<1> QED
  BY <1>2, <1>3, <1>4 DEF u

\* What the reader drops is none of the events.
LEMMA Dropped ==
  ASSUME NEW s \in Seq(OnWire), NEW k \in 1..Len(s), s[k] \notin Events,
         NEW t \in Seq(OnWire), Len(t) = Len(s) - 1,
         \A i \in 1..Len(t) : t[i] = IF i < k THEN s[i] ELSE s[i + 1]
  PROVE  /\ Orderly(s) => Orderly(t)
         /\ Calling(t) => Calling(s)
         /\ \A e \in Events : e \in ToSet(t) <=> e \in ToSet(s)
<1> DEFINE At(i) == IF i < k THEN i ELSE i + 1
<1>1. /\ DOMAIN s = 1..Len(s) /\ DOMAIN t = 1..Len(t) /\ Len(s) \in Nat /\ Len(t) \in Nat
      /\ \A i \in 1..Len(t) : At(i) \in 1..Len(s) /\ t[i] = s[At(i)]
      /\ \A i, j \in 1..Len(t) : i < j => At(i) < At(j)
  OBVIOUS
<1>2. \A i \in 1..Len(s) : i # k => \E j \in 1..Len(t) : At(j) = i
  <2> SUFFICES ASSUME NEW i \in 1..Len(s), i # k PROVE \E j \in 1..Len(t) : At(j) = i
    OBVIOUS
  <2>1. CASE i < k
    BY <2>1
  <2>2. CASE i > k
    <3>1. i - 1 \in 1..Len(t) /\ At(i - 1) = i
      BY <1>1, <2>2
    <3> QED
      BY <3>1
  <2> QED
    BY <2>1, <2>2
<1>3. \A i, j \in 1..Len(t) : At(i) < At(j) => i < j
  OBVIOUS
<1> HIDE DEF At
<1>4. ASSUME Orderly(s) PROVE Orderly(t)
  <2> SUFFICES ASSUME NEW i \in DOMAIN t, NEW j \in DOMAIN t, i < j, t[j] \in Events
               PROVE  /\ t[i] # "done"
                      /\ t[i] = "error" => t[j] = "done"
                      /\ t[i] = "citations" => t[j] \notin {"token", "tool_call"}
                      /\ t[i] = "tool_call" /\ (\A m \in i + 1..j - 1 : t[m] \notin Events)
                         => t[j] \in {"tool_result", "error"}
    BY DEF Orderly
  <2>1. /\ At(i) \in DOMAIN s /\ At(j) \in DOMAIN s /\ At(i) < At(j)
        /\ t[i] = s[At(i)] /\ t[j] = s[At(j)]
    BY <1>1
  <2>2. ASSUME \A m \in i + 1..j - 1 : t[m] \notin Events PROVE \A n \in At(i) + 1..At(j) - 1 : s[n] \notin Events
    <3> SUFFICES ASSUME NEW n \in At(i) + 1..At(j) - 1 PROVE s[n] \notin Events
      OBVIOUS
    <3>1. CASE n = k
      BY <3>1
    <3>2. CASE n # k
      <4>1. n \in 1..Len(s)
        BY <1>1, <2>1
      <4>2. PICK m \in 1..Len(t) : At(m) = n
        BY <1>2, <3>2, <4>1
      <4>3. At(i) < At(m) /\ At(m) < At(j)
        BY <1>1, <2>1, <4>2, SMTT(25)
      <4>4. i < m /\ m < j
        BY <1>1, <1>3, <4>3
      <4>5. m \in i + 1..j - 1
        BY <1>1, <4>4
      <4> QED
        BY <1>1, <2>2, <4>2, <4>5
    <3> QED
      BY <3>1, <3>2
  <2> QED
    BY <1>4, <2>1, <2>2 DEF Orderly
<1>5. ASSUME Calling(t) PROVE Calling(s)
  <2>1. PICK i \in DOMAIN t : t[i] = "tool_call" /\ \A m \in i + 1..Len(t) : t[m] \notin Events
    BY <1>5 DEF Calling
  <2>2. \A n \in At(i) + 1..Len(s) : s[n] \notin Events
    <3> SUFFICES ASSUME NEW n \in At(i) + 1..Len(s), n # k PROVE s[n] \notin Events
      OBVIOUS
    <3>1. n \in 1..Len(s)
      BY <1>1
    <3>2. PICK m \in 1..Len(t) : At(m) = n
      BY <1>2, <3>1
    <3>3. At(i) < At(m)
      <4>1. i \in 1..Len(t) /\ At(i) \in 1..Len(s)
        BY <1>1
      <4> QED
        BY <3>2, <4>1
    <3>4. m \in i + 1..Len(t)
      BY <1>1, <1>3, <3>3, SMTT(25)
    <3> QED
      BY <1>1, <2>1, <3>2, <3>4
  <2> QED
    BY <1>1, <2>1, <2>2 DEF Calling
<1>6. \A e \in Events : e \in ToSet(t) <=> e \in ToSet(s)
  <2>1. \A e : e \in ToSet(t) => e \in ToSet(s)
    BY <1>1 DEF ToSet
  <2>2. ASSUME NEW e \in Events, e \in ToSet(s) PROVE e \in ToSet(t)
    <3>1. PICK i \in 1..Len(s) : s[i] = e
      BY <1>1, <2>2 DEF ToSet
    <3>2. PICK j \in 1..Len(t) : At(j) = i
      BY <1>2, <2>2, <3>1
    <3> QED
      BY <1>1, <3>1, <3>2 DEF ToSet
  <2> QED
    BY <2>1, <2>2
<1> QED
  BY <1>4, <1>5, <1>6

LEMMA StreamInitInv == TurnInit => StreamInv
<1> SUFFICES ASSUME TurnInit PROVE StreamInv
  OBVIOUS
<1>4. seen = <<>> /\ buffer = <<>> /\ outbox = <<>> /\ owed = <<>> /\ stage = "open" /\ pump = "sending"
  BY DEF TurnInit
<1>1. Told = <<>>
  BY <1>4 DEF Told
<1>5. \A S : <<>> \in Seq(S)
  OBVIOUS
<1>2. StreamTyped
  BY <1>4, <1>5 DEF StreamTyped, Stages
<1>3. DOMAIN Told = {} /\ ToSet(Told) = {}
  BY <1>1 DEF ToSet
<1> QED
  BY <1>2, <1>3 DEF StreamInv, TurnInit, Orderly, Calling, Heard

\* A stage runs when what it yielded before is on its way, and leaves its own events.
LEMMA StageStep ==
  ASSUME StreamInv, outbox = <<>>, UNCHANGED Wire, stage # "end", StreamTyped',
         Orderly(outbox'),
         stage' # "end" => "done" \notin ToSet(outbox') /\ "error" \notin ToSet(outbox'),
         stage' \in Before => stage \in Before /\ "citations" \notin ToSet(outbox'),
         stage \notin Before => "token" \notin ToSet(outbox') /\ "tool_call" \notin ToSet(outbox'),
         stage \in {"dispatch", "failed"} =>
            (outbox' = <<>> /\ stage' = "failed") \/ (outbox' # <<>> /\ outbox'[1] \in {"tool_result", "error"}),
         outbox' # <<>> /\ outbox'[Len(outbox')] = "tool_call" => stage' \in {"dispatch", "failed"},
         pump = "sending"
  PROVE  StreamInv' /\ \A e : Heard(e)' <=> Heard(e) \/ e \in ToSet(outbox')
<1>1. /\ Told \in Seq(OnWire) /\ outbox' \in Seq(Events) /\ Orderly(Told)
      /\ ~Heard("done") /\ ~Heard("error") /\ Told' = Told \o outbox'
  <2>1. Told \in Seq(OnWire) /\ outbox' \in Seq(Events)
    BY ToldTyped DEF StreamInv, StreamTyped
  <2>2. seen' = seen /\ buffer' = buffer
    BY DEF Wire
  <2>3. Told = seen \o buffer
    BY DEF Told, StreamInv, StreamTyped
  <2> QED
    BY <2>1, <2>2, <2>3 DEF StreamInv, Told
<1>2. /\ Orderly(Told \o outbox')
      /\ ToSet(Told \o outbox') = ToSet(Told) \cup ToSet(outbox')
      /\ outbox' # <<>> /\ Calling(Told \o outbox') => outbox'[Len(outbox')] = "tool_call"
      /\ outbox' = <<>> => Told \o outbox' = Told
  <2>1. "citations" \in ToSet(Told) => "token" \notin ToSet(outbox') /\ "tool_call" \notin ToSet(outbox')
    BY DEF StreamInv, Heard
  <2>2. Calling(Told) /\ outbox' # <<>> => outbox'[1] \in {"tool_result", "error"}
    BY DEF StreamInv
  <2> QED
    BY <1>1, <2>1, <2>2, Extend DEF Heard
<1>3. \A e : Heard(e)' <=> Heard(e) \/ e \in ToSet(outbox')
  BY <1>1, <1>2 DEF Heard
<1>4. Calling(Told') => stage' \in {"dispatch", "failed"}
  BY <1>1, <1>2 DEF StreamInv
<1>5. pump' = pump
  BY DEF Wire
<1>6. StreamInv'
  BY <1>1, <1>2, <1>3, <1>4, <1>5 DEF StreamInv
<1> QED
  BY <1>3, <1>6

\* Events that only inform are in order, and close nothing.
LEMMA QuietEvents ==
  ASSUME NEW t \in Seq(Quiet)
  PROVE  /\ t \in Seq(Events) /\ Orderly(t)
         /\ ToSet(t) \cap {"done", "error", "citations", "tool_call", "token"} = {}
         /\ t # <<>> => t[Len(t)] # "tool_call"
<1>1. \A i \in DOMAIN t : t[i] \in Quiet /\ t[i] \notin {"done", "error", "citations", "tool_call", "token"}
  BY DEF Quiet
<1>2. t \in Seq(Events)
  BY Apart
<1>3. Orderly(t)
  BY <1>1 DEF Orderly
<1>4. t # <<>> => Len(t) \in DOMAIN t
  OBVIOUS
<1> QED
  BY <1>1, <1>2, <1>3, <1>4 DEF ToSet

\* So a stage that only informs goes on to the next one.
LEMMA QuietStep ==
  ASSUME StreamInv, outbox = <<>>, UNCHANGED Wire, pump = "sending",
         outbox' \in Seq(Quiet), owed' \in Seq({"unsaved", "degraded"}),
         stage \notin {"dispatch", "failed", "end"}, stage' \in Stages \ {"end"},
         stage' \in Before => stage \in Before
  PROVE  StreamInv' /\ \A e : Heard(e)' <=> Heard(e) \/ e \in ToSet(outbox')
<1>1. StreamTyped'
  BY QuietEvents DEF StreamInv, StreamTyped, Wire
<1> QED
  BY <1>1, QuietEvents, StageStep

LEMMA DrainedQuiet ==
  ASSUME StreamInv, NEW events \in Seq(Quiet)
  PROVE  /\ Drained(owed, events) \in Seq(Quiet)
         /\ ToSet(Drained(owed, events)) = ToSet(owed) \cup ToSet(events)
<1>1. {"unsaved", "degraded"} \subseteq Quiet
  BY DEF Quiet, Events
<1>2. owed \in Seq(Quiet)
  BY <1>1 DEF StreamInv, StreamTyped
<1> DEFINE both == owed \o events
<1>3. /\ both \in Seq(Quiet) /\ DOMAIN both = 1..Len(owed) + Len(events)
      /\ DOMAIN owed = 1..Len(owed) /\ DOMAIN events = 1..Len(events) /\ Len(owed) \in Nat /\ Len(events) \in Nat
      /\ \A i \in 1..Len(owed) : both[i] = owed[i] /\ i \in DOMAIN both
      /\ \A i \in 1..Len(events) : both[Len(owed) + i] = events[i] /\ Len(owed) + i \in DOMAIN both
  BY <1>2
<1> HIDE DEF both
<1>4. \A i \in DOMAIN both : i \in 1..Len(owed) \/ (i - Len(owed) \in 1..Len(events) /\ both[i] = events[i - Len(owed)])
  BY <1>3
<1>5. \A e : e \in ToSet(both) => e \in ToSet(owed) \/ e \in ToSet(events)
  BY <1>3, <1>4 DEF ToSet
<1>6. \A e : e \in ToSet(owed) => e \in ToSet(both)
  BY <1>3 DEF ToSet
<1>7. ASSUME NEW e \in ToSet(events) PROVE e \in ToSet(both)
  <2>1. PICK i \in 1..Len(events) : events[i] = e
    BY <1>3 DEF ToSet
  <2>2. both[Len(owed) + i] = e /\ Len(owed) + i \in DOMAIN both
    BY <1>3, <2>1
  <2> QED
    BY <2>2 DEF ToSet
<1> QED
  BY <1>3, <1>5, <1>6, <1>7 DEF Drained, both

\* Where a turn is: no tool has run, one may have, or the answer's row was written.
Early == {"open", "input_guard", "user_turn", "refuse", "memory_load", "query_transform", "cache_probe", "retrieve",
          "cache_store", "scan", "ood_gate", "contradiction", "tool_plan", "context_assembly"}
Mid   == {"generate", "dispatch", "citations", "output_guard", "answer"}
Late  == {"record_turn", "write_back", "finish"}

Refusals == {"guardrail", "out_of_domain"}

\* The client has been told that something was not saved, or is owed the warning.
Warned == Heard("unsaved") \/ Heard("error") \/ "unsaved" \in ToSet(owed)

Unaudited == calls.audited < calls.answered

\* The strengthening of TurnIsAccounted: what is missing so far and who knows of it.
AccountInv ==
    /\ calls \in [answered : Nat, flushed : Nat, audited : Nat]
    /\ poisoned \in BOOLEAN /\ storage \in {"own", "none"}
    /\ storage = "none" /\ stage # "open" => Heard("unsaved")
    /\ stage \notin {"open", "input_guard", "user_turn", "failed", "end"} /\ "question" \notin stored => Warned
    /\ stage \in Early => calls.answered = 0
    /\ stage \in Mid /\ calls.audited + calls.flushed < calls.answered => poisoned \/ storage = "none"
    /\ stage \in Late /\ ("answer" \notin stored \/ Unaudited) => Warned
    /\ stage = "finish" => owed = <<>>
    /\ stage = "refuse" => answer \in Refusals
    /\ stage = "end" /\ ~{"question", "answer"} \subseteq stored =>
         Heard("unsaved") \/ Heard("error") \/ answer \in Refusals
    /\ stage = "end" /\ Unaudited => Heard("unsaved") \/ Heard("error")

\* The strengthening of both invariants of a turn.
TurnInv == StreamInv /\ AccountInv

\* The pipeline may run a stage.
Running == TurnInv /\ outbox = <<>> /\ pump = "sending" /\ UNCHANGED Wire

LEMMA Places ==
  /\ Stages = Early \cup Mid \cup Late \cup {"failed", "end"}
  /\ Early \cup Mid \cup Late \subseteq Stages
  /\ Early \cap (Mid \cup Late \cup {"failed", "end"}) = {} /\ Mid \cap (Late \cup {"failed", "end"}) = {}
  /\ Late \cap {"failed", "end"} = {}
  /\ Before = Early \cup (Mid \ {"answer"})
  BY DEF Stages, Early, Mid, Late, Before, Closing

\* A stage that may only inform, and write nothing, goes on.
LEMMA Advance ==
  ASSUME Running, outbox' \in Seq(Quiet), owed' \in Seq({"unsaved", "degraded"}),
         "unsaved" \in ToSet(owed) => "unsaved" \in ToSet(owed') \cup ToSet(outbox'),
         UNCHANGED <<storage, stored, calls>>, poisoned' \in BOOLEAN, poisoned => poisoned',
         stage \notin {"open", "input_guard", "user_turn", "dispatch", "failed", "end"},
         stage' \in Stages \ {"end"}, stage' \in Before => stage \in Before,
         stage' \in Early => stage \in Early, stage' \in Mid => stage \in Early \cup Mid,
         stage' \in Late => stage \in Late,
         stage' = "refuse" => answer' \in Refusals, stage' = "finish" => owed' = <<>>
  PROVE  TurnInv'
<1>1. StreamInv' /\ \A e : Heard(e)' <=> Heard(e) \/ e \in ToSet(outbox')
  BY QuietStep DEF Running, TurnInv
<1>2. Warned => Warned'
  BY <1>1 DEF Warned
<1>3. calls.answered \in Nat /\ calls.audited \in Nat /\ calls.flushed \in Nat
  BY DEF Running, TurnInv, AccountInv
<1>4. stage \in Early => ~(calls.audited + calls.flushed < calls.answered)
  BY <1>3 DEF Running, TurnInv, AccountInv
<1>5. AccountInv'
  BY <1>1, <1>2, <1>3, <1>4 DEF Running, TurnInv, AccountInv, Unaudited
<1> QED
  BY <1>1, <1>5 DEF TurnInv

\* What one of the writes leaves: it is stored, or the warning is owed.
LEMMA Persisted ==
  ASSUME TurnInv, NEW what, NEW next, Persist(what, next)
  PROVE  /\ stage' = next /\ poisoned' \in BOOLEAN
         /\ owed' \in Seq({"unsaved", "degraded"}) /\ ToSet(owed) \subseteq ToSet(owed')
         /\ stored \subseteq stored'
         /\ what \in stored' \/ storage = "none" \/ "unsaved" \in ToSet(owed')
         /\ calls' \in [answered : Nat, flushed : Nat, audited : Nat] /\ calls'.answered = calls.answered
         /\ Unaudited' => \/ storage = "none" \/ "unsaved" \in ToSet(owed')
                          \/ calls.audited + calls.flushed < calls.answered /\ ~poisoned
<1>1. /\ owed \in Seq({"unsaved", "degraded"}) /\ calls \in [answered : Nat, flushed : Nat, audited : Nat]
      /\ poisoned \in BOOLEAN
  BY DEF TurnInv, StreamInv, StreamTyped, AccountInv
<1> DEFINE more == Append(owed, "unsaved")
<1>2. /\ more \in Seq({"unsaved", "degraded"}) /\ more[Len(owed) + 1] = "unsaved" /\ Len(owed) + 1 \in DOMAIN more
      /\ \A i \in DOMAIN owed : more[i] = owed[i] /\ i \in DOMAIN more
  BY <1>1
<1>3. ToSet(owed) \subseteq ToSet(more) /\ "unsaved" \in ToSet(more)
  BY <1>2 DEF ToSet
<1> HIDE DEF more
<1>4. CASE storage = "none" /\ stage' = next /\ UNCHANGED <<poisoned, owed, stored, calls, turnFaults>>
  BY <1>1, <1>4
<1>5. CASE /\ storage # "none" /\ ~poisoned /\ stage' = next /\ stored' = stored \cup {what}
           /\ calls' = [calls EXCEPT !.audited = @ + calls.flushed, !.flushed = 0]
           /\ UNCHANGED <<poisoned, owed, turnFaults>>
  <2> DEFINE audited == calls.audited + calls.flushed
  <2>1. audited \in Nat /\ calls' = [calls EXCEPT !.audited = audited, !.flushed = 0]
    BY <1>1, <1>5
  <2> HIDE DEF audited
  <2>2. /\ calls' \in [answered : Nat, flushed : Nat, audited : Nat] /\ calls'.answered = calls.answered
        /\ calls'.audited = audited
    BY <1>1, <2>1
  <2> QED
    BY <1>1, <1>5, <2>2 DEF Unaudited, audited
<1>6. CASE /\ storage # "none" /\ stage' = next /\ poisoned' = FALSE /\ owed' = more
           /\ calls' = [calls EXCEPT !.flushed = 0] /\ UNCHANGED stored
  BY <1>1, <1>2, <1>3, <1>6
<1> QED
  BY <1>4, <1>5, <1>6 DEF Persist, more

LEMMA Tuples ==
  /\ <<>> \in Seq(Quiet) /\ \A e \in Quiet : <<e>> \in Seq(Quiet)
  /\ \A e \in Quiet, f \in Quiet : <<e, f>> \in Seq(Quiet)
  /\ {"session", "unsaved", "degraded", "guardrail", "retrieval", "tool_result", "context_stats", "usage"} \subseteq Quiet
<1>1. {"session", "unsaved", "degraded", "guardrail", "retrieval", "tool_result", "context_stats", "usage"} \subseteq Quiet
  BY DEF Quiet, Events
<1> QED
  BY <1>1

\* A stage that works, or fails and is passed over, sends the warnings that wait.
LEMMA GoesOn ==
  ASSUME TurnInv, outbox = <<>>, pump = "sending", NEW next \in Stages \ {"end", "refuse"}, NEW events \in Seq(Quiet),
         Works(next, events) \/ Degrades(next, TRUE) \/ Degrades(next, FALSE),
         stage \notin {"open", "input_guard", "user_turn", "dispatch", "failed", "end"},
         next \in Before => stage \in Before, next \in Early => stage \in Early,
         next \in Mid => stage \in Early \cup Mid, next \in Late => stage \in Late
  PROVE  TurnInv'
<1>1. Drained(owed, events) \in Seq(Quiet) /\ Drained(owed, <<"degraded">>) \in Seq(Quiet)
  BY DrainedQuiet, Tuples DEF TurnInv
<1>2. "unsaved" \in ToSet(owed) => "unsaved" \in ToSet(Drained(owed, events)) /\ "unsaved" \in ToSet(Drained(owed, <<"degraded">>))
  BY DrainedQuiet, Tuples DEF TurnInv
<1>3. /\ stage' = next /\ owed' = <<>> /\ UNCHANGED Wire /\ UNCHANGED <<storage, stored, calls>>
      /\ outbox' \in {Drained(owed, events), Drained(owed, <<"degraded">>)}
      /\ poisoned' \in BOOLEAN /\ (poisoned => poisoned')
  BY DEF Works, Degrades, Database, TurnInv, AccountInv
<1>4. outbox' \in Seq(Quiet) /\ ("unsaved" \in ToSet(owed) => "unsaved" \in ToSet(outbox'))
  BY <1>1, <1>2, <1>3
<1>5. <<>> \in Seq({"unsaved", "degraded"})
  OBVIOUS
<1> QED
  BY <1>3, <1>4, <1>5, Advance DEF Running

LEMMA MemoryLoadStep == TurnInv /\ MemoryLoad => TurnInv'
  BY GoesOn, Places, Tuples DEF MemoryLoad, Reached, Early, Mid, Late

LEMMA CacheProbeStep == TurnInv /\ CacheProbe => TurnInv'
  BY GoesOn, Places, Tuples, ZenonT(45) DEF CacheProbe, Reached, Early, Mid, Late

LEMMA CacheStoreStep == TurnInv /\ CacheStore => TurnInv'
  BY GoesOn, Places, Tuples DEF CacheStore, Reached, Early, Mid, Late

LEMMA ContradictionStep == TurnInv /\ Contradiction => TurnInv'
  BY GoesOn, Places, Tuples DEF Contradiction, Reached, Early, Mid, Late

LEMMA ToolPlanStep == TurnInv /\ ToolPlan => TurnInv'
  BY GoesOn, Places, Tuples DEF ToolPlan, Reached, Early, Mid, Late

LEMMA CitationsStep == TurnInv /\ Citations => TurnInv'
  BY GoesOn, Places, Tuples DEF Citations, Reached, Early, Mid, Late

LEMMA WriteBackStep == TurnInv /\ WriteBack => TurnInv'
<1> SUFFICES ASSUME TurnInv, WriteBack PROVE TurnInv'
  OBVIOUS
<1>1. "finish" \in Stages \ {"end", "refuse"} /\ {"finish", "write_back"} \subseteq Late /\ "finish" \notin Before
      /\ "finish" \notin Early /\ "finish" \notin Mid
  BY DEF Early, Mid, Late, Stages, Before, Closing
<1> QED
  BY <1>1, GoesOn, Tuples DEF WriteBack, Reached

LEMMA QueryTransformStep == TurnInv /\ QueryTransform => TurnInv'
<1> SUFFICES ASSUME TurnInv, QueryTransform PROVE TurnInv'
  OBVIOUS
<1>1. PICK next \in {"cache_probe", "ood_gate"}, events \in {<<>>, <<"retrieval">>} :
        Works(next, events) \/ Degrades("cache_probe", FALSE)
  BY DEF QueryTransform
<1>2. events \in Seq(Quiet)
  BY Tuples
<1> QED
  BY <1>1, <1>2, GoesOn, Places DEF QueryTransform, Reached, Early, Mid, Late

\* An essential stage that fails ends the turn with an error.
LEMMA AbortStep ==
  ASSUME TurnInv, outbox = <<>>, pump = "sending", Abort, stage \notin {"open", "end"}
  PROVE  TurnInv'
<1>1. /\ stage' = "failed" /\ outbox' = <<>> /\ UNCHANGED Wire
      /\ UNCHANGED <<storage, poisoned, owed, stored, answer, calls>>
  BY DEF Abort
<1>2. /\ StreamTyped' /\ Orderly(outbox') /\ ToSet(outbox') = {}
  <2>1. Orderly(<<>>) /\ ToSet(<<>>) = {} /\ <<>> \in Seq(Events)
    BY DEF Orderly, ToSet
  <2> QED
    BY <1>1, <2>1 DEF StreamTyped, TurnInv, StreamInv, Wire, Stages
<1>3. StreamInv' /\ \A e : Heard(e)' <=> Heard(e) \/ e \in ToSet(outbox')
  BY <1>1, <1>2, StageStep DEF TurnInv, Before, Closing
<1>4. AccountInv'
  BY <1>1, <1>2, <1>3, Places DEF TurnInv, AccountInv, Warned, Unaudited
<1> QED
  BY <1>3, <1>4 DEF TurnInv

LEMMA RetrieveStep == TurnInv /\ Retrieve => TurnInv'
  BY GoesOn, AbortStep, Places, Tuples DEF Retrieve, Reached, Early, Mid, Late

LEMMA ContextAssemblyStep == TurnInv /\ ContextAssembly => TurnInv'
  BY GoesOn, AbortStep, Places, Tuples DEF ContextAssembly, Reached, Early, Mid, Late

LEMMA DispatchRaisesStep == TurnInv /\ DispatchRaises => TurnInv'
  BY AbortStep DEF DispatchRaises, Reached

LEMMA ScanRetrievedStep == TurnInv /\ ScanRetrieved => TurnInv'
<1> SUFFICES ASSUME TurnInv, ScanRetrieved PROVE TurnInv'
  OBVIOUS
<1>1. /\ stage = "scan" /\ outbox = <<>> /\ pump = "sending" /\ {"scan", "ood_gate"} \subseteq Early \cap Stages
      /\ "ood_gate" \notin {"end", "refuse", "finish"} /\ "scan" \in Before /\ "ood_gate" \notin Mid \cup Late
  BY Places DEF ScanRetrieved, Reached, Early, Mid, Late
<1>2. CASE \E quarantined \in {<<>>, <<"guardrail">>} : Works("ood_gate", quarantined \o <<"retrieval">>)
  <2>1. PICK quarantined \in {<<>>, <<"guardrail">>} : Works("ood_gate", quarantined \o <<"retrieval">>)
    BY <1>2
  <2>2. quarantined \o <<"retrieval">> \in Seq(Quiet)
    <3>1. quarantined \in Seq(Quiet) /\ <<"retrieval">> \in Seq(Quiet)
      BY Tuples
    <3> QED
      BY <3>1
  <2> QED
    BY <1>1, <2>1, <2>2, GoesOn
<1>3. CASE /\ stage' = "ood_gate" /\ outbox' = <<"degraded", "retrieval">>
           /\ UNCHANGED <<Database, owed, answer, rounds, Wire>>
  <2>1. <<"degraded", "retrieval">> \in Seq(Quiet) /\ owed \in Seq({"unsaved", "degraded"}) /\ poisoned \in BOOLEAN
    BY Tuples DEF TurnInv, StreamInv, StreamTyped, AccountInv
  <2>2. Running /\ UNCHANGED <<storage, stored, calls, poisoned>>
    BY <1>1, <1>3 DEF Running, Database
  <2> QED
    BY <1>1, <1>3, <2>1, <2>2, Advance
<1> QED
  BY <1>2, <1>3 DEF ScanRetrieved

LEMMA OodGateStep == TurnInv /\ OodGate => TurnInv'
<1> SUFFICES ASSUME TurnInv, OodGate PROVE TurnInv'
  OBVIOUS
<1>1. /\ stage = "ood_gate" /\ outbox = <<>> /\ pump = "sending"
      /\ {"ood_gate", "contradiction", "refuse"} \subseteq Early \cap Stages /\ "ood_gate" \in Before
      /\ {"contradiction", "refuse"} \cap (Mid \cup Late) = {}
  BY Places DEF OodGate, Reached, Early, Mid, Late
<1>2. CASE Works("contradiction", <<>>) \/ Degrades("contradiction", FALSE)
  BY <1>1, <1>2, GoesOn, Tuples
<1>3. CASE /\ stage' = "refuse" /\ answer' = "out_of_domain"
           /\ outbox' = Drained(owed, <<"guardrail">>) /\ owed' = <<>>
           /\ UNCHANGED <<Database, rounds, turnFaults, Wire>>
  <2>1. /\ Drained(owed, <<"guardrail">>) \in Seq(Quiet) /\ poisoned \in BOOLEAN /\ <<>> \in Seq({"unsaved", "degraded"})
        /\ ToSet(owed) \subseteq ToSet(Drained(owed, <<"guardrail">>))
    <3>1. <<"guardrail">> \in Seq(Quiet) /\ <<>> \in Seq({"unsaved", "degraded"})
      BY Tuples
    <3> QED
      BY <3>1, DrainedQuiet DEF TurnInv, AccountInv
  <2>2. Running /\ UNCHANGED <<storage, stored, calls, poisoned>> /\ answer' \in Refusals
    BY <1>1, <1>3 DEF Running, Database, Refusals
  <2> QED
    BY <1>1, <1>3, <2>1, <2>2, Advance
<1> QED
  BY <1>2, <1>3 DEF OodGate

LEMMA RecordTurnStep == TurnInv /\ RecordTurn => TurnInv'
<1> SUFFICES ASSUME TurnInv, RecordTurn PROVE TurnInv'
  OBVIOUS
<1>1. /\ stage = "record_turn" /\ outbox = <<>> /\ pump = "sending" /\ stage' = "write_back" /\ outbox' = <<>>
      /\ UNCHANGED Wire /\ UNCHANGED <<storage, stored, calls, poisoned>>
      /\ owed' \in {owed, Append(owed, "degraded")}
  BY DEF RecordTurn, Reached, Database
<1>2. /\ {"record_turn", "write_back"} \subseteq Late \cap Stages /\ "write_back" \notin Before
      /\ "write_back" \notin Early \cup Mid
  BY Places DEF Early, Mid, Late, Before, Closing
<1>3. owed \in Seq({"unsaved", "degraded"}) /\ poisoned \in BOOLEAN /\ outbox' \in Seq(Quiet)
  BY <1>1, Tuples DEF TurnInv, StreamInv, StreamTyped, AccountInv
<1>4. owed' \in Seq({"unsaved", "degraded"}) /\ ToSet(owed) \subseteq ToSet(owed')
  BY <1>1, <1>3 DEF ToSet
<1>5. Running
  BY <1>1 DEF Running
<1> QED
  BY <1>1, <1>2, <1>3, <1>4, <1>5, Advance

LEMMA OpenStep == TurnInv /\ Open => TurnInv'
<1> SUFFICES ASSUME TurnInv, Open PROVE TurnInv'
  OBVIOUS
<1>1. /\ stage = "open" /\ outbox = <<>> /\ pump = "sending" /\ stage' = "input_guard" /\ UNCHANGED Wire
      /\ UNCHANGED <<storage, poisoned, stored, calls, owed, answer>>
  BY DEF Open, Reached, Database
<1>2. outbox' = IF storage = "none" THEN <<"unsaved", "session">> ELSE <<"session">>
  BY DEF Open, Drained
<1>3. /\ {"open", "input_guard"} \subseteq Early \cap Stages /\ "open" \in Before /\ "input_guard" \notin Mid \cup Late
  BY Places DEF Early, Mid, Late
<1>4. outbox' \in Seq(Quiet) /\ owed' \in Seq({"unsaved", "degraded"})
  BY <1>1, <1>2, Tuples DEF TurnInv, StreamInv, StreamTyped
<1>5. storage = "none" => "unsaved" \in ToSet(outbox')
  <2>1. "unsaved" \in ToSet(<<"unsaved", "session">>)
    BY DEF ToSet
  <2> QED
    BY <1>2, <2>1
<1>6. StreamInv' /\ \A e : Heard(e)' <=> Heard(e) \/ e \in ToSet(outbox')
  BY <1>1, <1>3, <1>4, QuietStep DEF TurnInv
<1>7. AccountInv'
  BY <1>1, <1>3, <1>5, <1>6 DEF TurnInv, AccountInv
<1> QED
  BY <1>6, <1>7 DEF TurnInv

LEMMA InputGuardStep == TurnInv /\ InputGuard => TurnInv'
<1> SUFFICES ASSUME TurnInv, InputGuard PROVE TurnInv'
  OBVIOUS
<1>1. /\ stage = "input_guard" /\ outbox = <<>> /\ pump = "sending"
      /\ {"input_guard", "user_turn"} \subseteq Early \cap Stages /\ "input_guard" \in Before
      /\ "user_turn" \notin Mid \cup Late
  BY Places DEF InputGuard, Reached, Early, Mid, Late
<1>2. CASE Abort
  BY <1>1, <1>2, AbortStep
<1>3. CASE /\ outbox' \in {<<>>, <<"guardrail">>} /\ Persist("session", "user_turn") /\ UNCHANGED <<storage, rounds, Wire>>
  <2>1. outbox' \in Seq(Quiet)
    BY <1>3, Tuples
  <2>2. /\ stage' = "user_turn" /\ poisoned' \in BOOLEAN /\ owed' \in Seq({"unsaved", "degraded"})
        /\ calls' \in [answered : Nat, flushed : Nat, audited : Nat] /\ calls'.answered = calls.answered
    BY <1>3, Persisted
  <2>3. StreamInv' /\ \A e : Heard(e)' <=> Heard(e) \/ e \in ToSet(outbox')
    BY <1>1, <1>3, <2>1, <2>2, QuietStep DEF TurnInv
  <2>4. AccountInv'
    BY <1>1, <1>3, <2>2, <2>3 DEF TurnInv, AccountInv
  <2> QED
    BY <2>3, <2>4 DEF TurnInv
<1> QED
  BY <1>2, <1>3 DEF InputGuard

LEMMA UserTurnStep == TurnInv /\ UserTurn => TurnInv'
<1> SUFFICES ASSUME TurnInv, UserTurn PROVE TurnInv'
  OBVIOUS
<1> DEFINE next == IF answer = "guardrail" THEN "refuse" ELSE "memory_load"
<1>1. /\ stage = "user_turn" /\ outbox = <<>> /\ pump = "sending" /\ outbox' = <<>>
      /\ Persist("question", next) /\ UNCHANGED <<storage, answer, Wire>>
  BY DEF UserTurn, Reached
<1>2. /\ {"user_turn", "refuse", "memory_load"} \subseteq Early \cap Stages /\ "user_turn" \in Before
      /\ {"refuse", "memory_load"} \cap (Mid \cup Late) = {}
  BY Places DEF Early, Mid, Late
<1>3. /\ stage' = next /\ poisoned' \in BOOLEAN /\ owed' \in Seq({"unsaved", "degraded"})
      /\ calls' \in [answered : Nat, flushed : Nat, audited : Nat] /\ calls'.answered = calls.answered
      /\ "question" \in stored' \/ storage = "none" \/ "unsaved" \in ToSet(owed')
  BY <1>1, Persisted
<1>4. StreamInv' /\ \A e : Heard(e)' <=> Heard(e) \/ e \in ToSet(outbox')
  BY <1>1, <1>2, <1>3, QuietStep, Tuples DEF TurnInv
<1>5. AccountInv'
  BY <1>1, <1>2, <1>3, <1>4 DEF TurnInv, AccountInv, Warned, Refusals
<1> QED
  BY <1>4, <1>5 DEF TurnInv

LEMMA PersistAnswerStep == TurnInv /\ PersistAnswer => TurnInv'
<1> SUFFICES ASSUME TurnInv, PersistAnswer PROVE TurnInv'
  OBVIOUS
<1>1. /\ stage = "answer" /\ outbox = <<>> /\ pump = "sending" /\ outbox' = <<>>
      /\ Persist("answer", "record_turn") /\ UNCHANGED <<storage, answer, Wire>>
  BY DEF PersistAnswer, Reached
<1>2. /\ "answer" \in Mid /\ "record_turn" \in Late /\ {"answer", "record_turn"} \subseteq Stages
      /\ "record_turn" \notin Before /\ "record_turn" \notin Early \cup Mid
  BY Places DEF Early, Mid, Late, Before, Closing
<1>3. /\ stage' = "record_turn" /\ poisoned' \in BOOLEAN /\ owed' \in Seq({"unsaved", "degraded"})
      /\ ToSet(owed) \subseteq ToSet(owed') /\ stored \subseteq stored'
      /\ calls' \in [answered : Nat, flushed : Nat, audited : Nat] /\ calls'.answered = calls.answered
      /\ "answer" \in stored' \/ storage = "none" \/ "unsaved" \in ToSet(owed')
      /\ Unaudited' => \/ storage = "none" \/ "unsaved" \in ToSet(owed')
                       \/ calls.audited + calls.flushed < calls.answered /\ ~poisoned
  BY <1>1, Persisted
<1>4. StreamInv' /\ \A e : Heard(e)' <=> Heard(e) \/ e \in ToSet(outbox')
  BY <1>1, <1>2, <1>3, QuietStep, Tuples DEF TurnInv
<1>5. /\ Warned => Warned'
      /\ storage = "none" => Warned'
      /\ Unaudited' \/ "answer" \notin stored' => Warned'
  BY <1>1, <1>2, <1>3, <1>4 DEF TurnInv, AccountInv, Warned
<1>6. AccountInv'
  BY <1>1, <1>2, <1>3, <1>4, <1>5 DEF TurnInv, AccountInv
<1> QED
  BY <1>4, <1>6 DEF TurnInv

LEMMA Joined ==
  /\ <<"token">> \o <<"citations", "context_stats", "usage", "done">>
       = <<"token", "citations", "context_stats", "usage", "done">>
  /\ <<>> \o <<"tool_call">> = <<"tool_call">> /\ <<"token">> \o <<"tool_call">> = <<"token", "tool_call">>
  /\ <<>> \o <<"citations">> = <<"citations">> /\ <<"guardrail">> \o <<"citations">> = <<"guardrail", "citations">>
<1> DEFINE closing == <<"citations", "context_stats", "usage", "done">>
           all == <<"token", "citations", "context_stats", "usage", "done">>
           u == <<"token">> \o closing
<1>1. closing \in Seq(Events) /\ all \in Seq(Events) /\ <<"token">> \in Seq(Events) /\ Len(closing) = 4 /\ Len(all) = 5
  BY DEF Events
<1>2. u \in Seq(Events) /\ Len(u) = 5
  BY <1>1
<1>3. \A i \in 1..5 : u[i] = all[i]
  BY <1>1
<1>4. u = all
  <2> HIDE DEF u, all
  <2> QED
    BY <1>1, <1>2, <1>3
<1>5. <<>> \o <<"tool_call">> = <<"tool_call">> /\ <<>> \o <<"citations">> = <<"citations">>
  OBVIOUS
<1> DEFINE pair == <<"token", "tool_call">>
           v == <<"token">> \o <<"tool_call">>
<1>6. v \in Seq(Events) /\ pair \in Seq(Events) /\ Len(v) = 2 /\ Len(pair) = 2 /\ \A i \in 1..2 : v[i] = pair[i]
  BY DEF Events
<1>7. v = pair
  <2> HIDE DEF v, pair
  <2> QED
    BY <1>6
<1> DEFINE last == <<"guardrail", "citations">>
           w == <<"guardrail">> \o <<"citations">>
<1>8. w \in Seq(Events) /\ last \in Seq(Events) /\ Len(w) = 2 /\ Len(last) = 2 /\ \A i \in 1..2 : w[i] = last[i]
  BY DEF Events
<1>9. w = last
  <2> HIDE DEF w, last
  <2> QED
    BY <1>8
<1> QED
  BY <1>4, <1>5, <1>7, <1>9

\* What the closing stages and the rounds of generation may leave, in order.
LEMMA Closings ==
  /\ \A t \in {<<"citations", "context_stats", "usage", "done">>, <<"token", "citations", "context_stats", "usage", "done">>,
               <<"context_stats", "usage", "done">>, <<"error", "done">>} : t \in Seq(Events) /\ Orderly(t)
  /\ ToSet(<<"context_stats", "usage", "done">>) = {"context_stats", "usage", "done"}
  /\ ToSet(<<"error", "done">>) = {"error", "done"}
  /\ \A t \in {<<>>, <<"token">>, <<"tool_call">>, <<"token", "tool_call">>} :
       t \in Seq(Events) /\ Orderly(t) /\ ToSet(t) \subseteq {"token", "tool_call"}
  /\ \A t \in {<<"citations">>, <<"guardrail", "citations">>} :
       t \in Seq(Events) /\ Orderly(t) /\ ToSet(t) \subseteq {"citations", "guardrail"}
<1>1. /\ <<"citations", "context_stats", "usage", "done">> \in Seq(Events)
      /\ <<"token", "citations", "context_stats", "usage", "done">> \in Seq(Events)
      /\ <<"context_stats", "usage", "done">> \in Seq(Events) /\ <<"error", "done">> \in Seq(Events)
  BY DEF Events
<1>2. Orderly(<<"citations", "context_stats", "usage", "done">>)
  BY DEF Orderly
<1>3. Orderly(<<"token", "citations", "context_stats", "usage", "done">>)
  BY DEF Orderly
<1>4. Orderly(<<"context_stats", "usage", "done">>)
  BY DEF Orderly
<1>5. Orderly(<<"error", "done">>)
  BY DEF Orderly
<1>6. ToSet(<<"context_stats", "usage", "done">>) = {"context_stats", "usage", "done"}
  BY DEF ToSet
<1>7. ToSet(<<"error", "done">>) = {"error", "done"}
  BY DEF ToSet
<1>8. /\ <<>> \in Seq(Events) /\ <<"token">> \in Seq(Events) /\ <<"tool_call">> \in Seq(Events)
      /\ <<"citations">> \in Seq(Events)
      /\ <<"token", "tool_call">> \in Seq(Events) /\ <<"guardrail", "citations">> \in Seq(Events)
  BY DEF Events
<1>9. \A t \in {<<>>, <<"token">>, <<"tool_call">>, <<"citations">>} : Orderly(t)
  BY DEF Orderly
<1>10. Orderly(<<"token", "tool_call">>) /\ Orderly(<<"guardrail", "citations">>)
  BY DEF Orderly
<1>11. \A t \in {<<>>, <<"token">>, <<"tool_call">>, <<"token", "tool_call">>} : ToSet(t) \subseteq {"token", "tool_call"}
  BY DEF ToSet
<1>12. \A t \in {<<"citations">>, <<"guardrail", "citations">>} : ToSet(t) \subseteq {"citations", "guardrail"}
  BY DEF ToSet
<1> QED
  BY <1>1, <1>2, <1>3, <1>4, <1>5, <1>6, <1>7, <1>8, <1>9, <1>10, <1>11, <1>12

LEMMA RefuseStep == TurnInv /\ Refuse => TurnInv'
<1> SUFFICES ASSUME TurnInv, Refuse PROVE TurnInv'
  OBVIOUS
<1>1. /\ stage = "refuse" /\ outbox = <<>> /\ pump = "sending"
      /\ Persist("answer", "end") /\ UNCHANGED <<storage, answer, Wire>>
  BY DEF Refuse, Reached
<1>2. outbox' \in {<<"citations", "context_stats", "usage", "done">>, <<"token", "citations", "context_stats", "usage", "done">>}
  <2>1. PICK text \in {<<>>, <<"token">>} : outbox' = text \o <<"citations", "context_stats", "usage", "done">>
    BY DEF Refuse
  <2>2. CASE text = <<>>
    BY <2>1, <2>2
  <2>3. CASE text = <<"token">>
    <3>1. <<"token">> \o <<"citations", "context_stats", "usage", "done">>
            = <<"token", "citations", "context_stats", "usage", "done">>
      BY Joined
    <3> QED
      BY <2>1, <2>3, <3>1
  <2> QED
    BY <2>2, <2>3
<1>3. {"refuse", "end"} \subseteq Stages /\ {"refuse"} \subseteq Before \cap Early /\ "end" \notin Before \cup Early \cup Mid \cup Late
  BY Places DEF Early, Mid, Late, Before, Closing
<1>4. /\ stage' = "end" /\ poisoned' \in BOOLEAN /\ owed' \in Seq({"unsaved", "degraded"})
      /\ calls' \in [answered : Nat, flushed : Nat, audited : Nat] /\ calls'.answered = calls.answered
  BY <1>1, Persisted
<1>5. outbox' \in Seq(Events) /\ Orderly(outbox') /\ outbox' # <<>> /\ outbox'[Len(outbox')] = "done"
  <2>1. outbox' \in Seq(Events) /\ Orderly(outbox')
    BY <1>2, Closings
  <2>2. CASE outbox' = <<"citations", "context_stats", "usage", "done">>
    BY <2>1, <2>2
  <2>3. CASE outbox' = <<"token", "citations", "context_stats", "usage", "done">>
    BY <2>1, <2>3
  <2> QED
    BY <1>2, <2>1, <2>2, <2>3
<1>6. StreamTyped'
  BY <1>1, <1>3, <1>4, <1>5 DEF TurnInv, StreamInv, StreamTyped, Wire
<1>7. StreamInv' /\ \A e : Heard(e)' <=> Heard(e) \/ e \in ToSet(outbox')
  BY <1>1, <1>3, <1>4, <1>5, <1>6, StageStep DEF TurnInv
<1>8. calls.answered = 0 /\ ~Unaudited' /\ answer' \in Refusals
  BY <1>1, <1>3, <1>4 DEF TurnInv, AccountInv, Unaudited
<1>9. AccountInv'
  BY <1>1, <1>3, <1>4, <1>7, <1>8 DEF TurnInv, AccountInv
<1> QED
  BY <1>7, <1>9 DEF TurnInv

LEMMA GenerateStep == TurnInv /\ Generate => TurnInv'
<1> SUFFICES ASSUME TurnInv, Generate PROVE TurnInv'
  OBVIOUS
<1>1. /\ stage = "generate" /\ outbox = <<>> /\ pump = "sending"
      /\ UNCHANGED Wire /\ UNCHANGED <<storage, poisoned, stored, calls, owed>>
  BY DEF Generate, Reached, Database
<1>2. PICK text \in {<<>>, <<"token">>} :
        \/ outbox' = text /\ stage' \in {"citations", "failed"}
        \/ outbox' = text \o <<"tool_call">> /\ stage' = "dispatch"
  BY DEF Generate
<1>3. \/ outbox' \in {<<>>, <<"token">>} /\ stage' \in {"citations", "failed"}
      \/ outbox' \in {<<"tool_call">>, <<"token", "tool_call">>} /\ stage' = "dispatch"
  <2>1. <<>> \o <<"tool_call">> = <<"tool_call">> /\ <<"token">> \o <<"tool_call">> = <<"token", "tool_call">>
    BY Joined
  <2> QED
    BY <1>2, <2>1
<1>4. /\ {"generate", "citations", "dispatch"} \subseteq Mid \cap Before \cap Stages
      /\ {"citations", "dispatch"} \cap (Early \cup Late) = {} /\ "failed" \in Stages
      /\ "failed" \notin Early \cup Mid \cup Late \cup Before
  BY Places DEF Early, Mid, Late, Before, Closing
<1>5. outbox' \in Seq(Events) /\ Orderly(outbox') /\ ToSet(outbox') \subseteq {"token", "tool_call"}
  BY <1>3, Closings
<1>6. outbox' # <<>> /\ outbox'[Len(outbox')] = "tool_call" => stage' = "dispatch"
  BY <1>3
<1>7. StreamTyped'
  BY <1>1, <1>3, <1>4, <1>5 DEF TurnInv, StreamInv, StreamTyped, Wire
<1>8. StreamInv' /\ \A e : Heard(e)' <=> Heard(e) \/ e \in ToSet(outbox')
  BY <1>1, <1>3, <1>4, <1>5, <1>6, <1>7, StageStep DEF TurnInv
<1>9. AccountInv'
  BY <1>1, <1>3, <1>4, <1>8 DEF TurnInv, AccountInv, Warned
<1> QED
  BY <1>8, <1>9 DEF TurnInv

LEMMA DispatchStep == TurnInv /\ Dispatch => TurnInv'
<1> SUFFICES ASSUME TurnInv, Dispatch PROVE TurnInv'
  OBVIOUS
<1>1. /\ stage = "dispatch" /\ outbox = <<>> /\ pump = "sending" /\ stage' = "generate" /\ outbox' = <<"tool_result">>
      /\ UNCHANGED Wire /\ UNCHANGED <<storage, stored, owed>>
  BY DEF Dispatch, Reached
<1>2. /\ {"generate", "dispatch"} \subseteq Mid \cap Before \cap Stages /\ "generate" \notin Early \cup Late
  BY Places DEF Early, Mid, Late, Before, Closing
<1>3. outbox' \in Seq(Quiet) /\ outbox' # <<>> /\ outbox'[1] = "tool_result" /\ Len(outbox') = 1
  BY <1>1, Tuples
<1>4. StreamTyped'
  BY <1>1, <1>2, <1>3, QuietEvents DEF TurnInv, StreamInv, StreamTyped, Wire
<1>5. StreamInv' /\ \A e : Heard(e)' <=> Heard(e) \/ e \in ToSet(outbox')
  BY <1>1, <1>2, <1>3, <1>4, StageStep, QuietEvents DEF TurnInv
<1>6. /\ calls \in [answered : Nat, flushed : Nat, audited : Nat] /\ poisoned \in BOOLEAN
      /\ calls.audited + calls.flushed < calls.answered => poisoned \/ storage = "none"
  BY <1>1, <1>2 DEF TurnInv, AccountInv
<1> DEFINE next == calls.answered + 1
           more == calls.flushed + 1
           same == calls.flushed + 0
<1>7. /\ next \in Nat /\ more \in Nat /\ same \in Nat
      /\ next = calls.answered + 1 /\ more = calls.flushed + 1 /\ same = calls.flushed
  BY <1>6
<1>8. \/ calls' = [calls EXCEPT !.answered = next, !.flushed = same] /\ poisoned' = poisoned /\ (poisoned \/ storage = "none")
      \/ calls' = [calls EXCEPT !.answered = next, !.flushed = more] /\ poisoned' = poisoned
      \/ calls' = [calls EXCEPT !.answered = next, !.flushed = 0] /\ poisoned' = TRUE
  BY DEF Dispatch
<1> HIDE DEF next, more, same
<1>9. /\ calls' \in [answered : Nat, flushed : Nat, audited : Nat] /\ poisoned' \in BOOLEAN
      /\ calls'.audited + calls'.flushed < calls'.answered => poisoned' \/ storage = "none"
  <2>1. CASE calls' = [calls EXCEPT !.answered = next, !.flushed = same] /\ poisoned' = poisoned /\ (poisoned \/ storage = "none")
    <3>1. /\ calls'.audited = calls.audited /\ calls'.flushed = same /\ calls'.answered = next
          /\ calls' \in [answered : Nat, flushed : Nat, audited : Nat]
      BY <1>6, <1>7, <2>1
    <3> QED
      BY <1>6, <1>7, <2>1, <3>1
  <2>2. CASE calls' = [calls EXCEPT !.answered = next, !.flushed = more] /\ poisoned' = poisoned
    <3>1. /\ calls'.audited = calls.audited /\ calls'.flushed = more /\ calls'.answered = next
          /\ calls' \in [answered : Nat, flushed : Nat, audited : Nat]
      BY <1>6, <1>7, <2>2
    <3> QED
      BY <1>6, <1>7, <2>2, <3>1
  <2>3. CASE calls' = [calls EXCEPT !.answered = next, !.flushed = 0] /\ poisoned' = TRUE
    BY <1>6, <1>7, <2>3
  <2> QED
    BY <1>8, <2>1, <2>2, <2>3
<1>10. AccountInv'
  BY <1>1, <1>2, <1>5, <1>9 DEF TurnInv, AccountInv, Warned
<1> QED
  BY <1>5, <1>10 DEF TurnInv

LEMMA OutputGuardStep == TurnInv /\ OutputGuard => TurnInv'
<1> SUFFICES ASSUME TurnInv, OutputGuard PROVE TurnInv'
  OBVIOUS
<1>1. /\ stage = "output_guard" /\ outbox = <<>> /\ pump = "sending"
      /\ {"output_guard", "answer"} \subseteq Mid \cap Stages /\ "output_guard" \in Before /\ "answer" \notin Before
      /\ {"output_guard", "answer"} \cap (Early \cup Late) = {}
  BY Places DEF OutputGuard, Reached, Early, Mid, Late, Before, Closing
<1>2. CASE Abort
  BY <1>1, <1>2, AbortStep
<1>3. CASE \E findings \in {<<>>, <<"guardrail">>} : Works("answer", findings \o <<"citations">>)
  <2>1. PICK findings \in {<<>>, <<"guardrail">>} : Works("answer", findings \o <<"citations">>)
    BY <1>3
  <2> DEFINE own == findings \o <<"citations">>
  <2>2. /\ stage' = "answer" /\ outbox' = owed \o own /\ owed' = <<>> /\ UNCHANGED Wire
        /\ UNCHANGED <<storage, poisoned, stored, calls, answer>>
    BY <2>1 DEF Works, Drained, Database
  <2>3. own \in {<<"citations">>, <<"guardrail", "citations">>}
    BY Joined
  <2>4. /\ own \in Seq(Events) /\ Orderly(own) /\ own # <<>> /\ ToSet(own) \subseteq {"citations", "guardrail"}
        /\ own[Len(own)] = "citations"
    <3>1. own \in Seq(Events) /\ Orderly(own) /\ ToSet(own) \subseteq {"citations", "guardrail"}
      <4> HIDE DEF own
      <4>1. CASE own = <<"citations">>
        BY <4>1, Closings
      <4>2. CASE own = <<"guardrail", "citations">>
        BY <4>2, Closings
      <4> QED
        BY <2>3, <4>1, <4>2
    <3>2. CASE own = <<"citations">>
      <4> HIDE DEF own
      <4> QED
        BY <3>1, <3>2
    <3>3. CASE own = <<"guardrail", "citations">>
      <4> HIDE DEF own
      <4> QED
        BY <3>1, <3>3
    <3> QED
      BY <2>3, <3>1, <3>2, <3>3
  <2> HIDE DEF own
  <2>5. owed \in Seq(Quiet) /\ owed \in Seq(OnWire)
    <3>1. {"unsaved", "degraded"} \subseteq Quiet /\ Quiet \subseteq OnWire
      BY DEF Quiet, Events, OnWire
    <3> QED
      BY <3>1, SMTT(25) DEF TurnInv, StreamInv, StreamTyped
  <2>6. Orderly(owed) /\ ToSet(owed) \cap {"done", "error", "citations", "tool_call", "token"} = {} /\ ~Calling(owed)
    <3>1. Orderly(owed) /\ ToSet(owed) \cap {"done", "error", "citations", "tool_call", "token"} = {}
      BY <2>5, QuietEvents
    <3> QED
      BY <3>1 DEF Calling, ToSet
  <2>7. /\ Orderly(owed \o own) /\ ToSet(owed \o own) = ToSet(owed) \cup ToSet(own)
        /\ owed \o own \in Seq(Events)
    <3>1. /\ "done" \notin ToSet(owed) /\ "error" \notin ToSet(owed) /\ "citations" \notin ToSet(owed)
      BY <2>6
    <3>2. Orderly(owed \o own) /\ ToSet(owed \o own) = ToSet(owed) \cup ToSet(own)
      BY <2>4, <2>5, <2>6, <3>1, Extend
    <3>3. owed \in Seq(Events)
      BY <2>5, QuietEvents
    <3> QED
      BY <2>4, <3>2, <3>3
  <2>8. owed \o own # <<>> /\ (owed \o own)[Len(owed \o own)] = "citations"
    BY <2>4, <2>5
  <2>9. <<>> \in Seq({"unsaved", "degraded"})
    OBVIOUS
  <2>10. StreamTyped'
    BY <1>1, <2>2, <2>7, <2>9 DEF TurnInv, StreamInv, StreamTyped, Wire
  <2>11. "done" \notin ToSet(outbox') /\ "error" \notin ToSet(outbox')
    BY <2>2, <2>4, <2>6, <2>7
  <2>12. StreamInv' /\ \A e : Heard(e)' <=> Heard(e) \/ e \in ToSet(outbox')
    BY <1>1, <2>2, <2>7, <2>8, <2>10, <2>11, StageStep DEF TurnInv
  <2>13. Warned => Warned'
    BY <2>2, <2>7, <2>12 DEF Warned
  <2>14. AccountInv'
    BY <1>1, <2>2, <2>12, <2>13 DEF TurnInv, AccountInv
  <2> QED
    BY <2>12, <2>14 DEF TurnInv
<1> QED
  BY <1>2, <1>3 DEF OutputGuard

LEMMA FinishStep == TurnInv /\ Finish => TurnInv'
<1> SUFFICES ASSUME TurnInv, Finish PROVE TurnInv'
  OBVIOUS
<1>1. /\ stage = "finish" /\ outbox = <<>> /\ pump = "sending" /\ stage' = "end"
      /\ outbox' = <<"context_stats", "usage", "done">> /\ UNCHANGED Wire
      /\ UNCHANGED <<storage, poisoned, stored, calls, owed, answer>>
  BY DEF Finish, Reached, Database
<1>2. {"finish", "end"} \subseteq Stages /\ "finish" \in Late /\ "end" \notin Before \cup Early \cup Mid \cup Late
  BY Places DEF Early, Mid, Late, Before, Closing
<1>3. /\ outbox' \in Seq(Events) /\ Orderly(outbox') /\ ToSet(outbox') = {"context_stats", "usage", "done"}
      /\ outbox'[Len(outbox')] = "done"
  BY <1>1, Closings
<1>4. StreamTyped'
  BY <1>1, <1>2, <1>3 DEF TurnInv, StreamInv, StreamTyped, Wire
<1>5. StreamInv' /\ \A e : Heard(e)' <=> Heard(e) \/ e \in ToSet(outbox')
  BY <1>1, <1>2, <1>3, <1>4, StageStep DEF TurnInv
<1>6. Warned => Heard("unsaved") \/ Heard("error")
  <2>1. owed = <<>> /\ ToSet(<<>>) = {}
    BY <1>1 DEF TurnInv, AccountInv, ToSet
  <2> QED
    BY <2>1 DEF Warned
<1>7. AccountInv'
  BY <1>1, <1>2, <1>5, <1>6 DEF TurnInv, AccountInv, Unaudited
<1> QED
  BY <1>5, <1>7 DEF TurnInv

LEMMA ReportFailureStep == TurnInv /\ ReportFailure => TurnInv'
<1> SUFFICES ASSUME TurnInv, ReportFailure PROVE TurnInv'
  OBVIOUS
<1>1. /\ stage = "failed" /\ outbox = <<>> /\ pump = "sending" /\ stage' = "end"
      /\ outbox' = <<"error", "done">> /\ UNCHANGED Wire
      /\ UNCHANGED <<storage, stored, owed, answer>> /\ poisoned' = FALSE
      /\ calls' = [calls EXCEPT !.flushed = 0]
  BY DEF ReportFailure, Reached
<1>2. {"failed", "end"} \subseteq Stages /\ {"failed", "end"} \cap (Before \cup Early \cup Mid \cup Late) = {}
  BY Places DEF Early, Mid, Late, Before, Closing
<1>3. /\ outbox' \in Seq(Events) /\ Orderly(outbox') /\ ToSet(outbox') = {"error", "done"}
      /\ outbox'[1] = "error" /\ outbox'[Len(outbox')] = "done" /\ outbox' # <<>>
  BY <1>1, Closings
<1>4. StreamTyped'
  BY <1>1, <1>2, <1>3 DEF TurnInv, StreamInv, StreamTyped, Wire
<1>5. StreamInv' /\ \A e : Heard(e)' <=> Heard(e) \/ e \in ToSet(outbox')
  BY <1>1, <1>2, <1>3, <1>4, StageStep DEF TurnInv
<1>6. calls' \in [answered : Nat, flushed : Nat, audited : Nat]
  BY <1>1 DEF TurnInv, AccountInv
<1>7. AccountInv'
  BY <1>1, <1>2, <1>3, <1>5, <1>6 DEF TurnInv, AccountInv
<1> QED
  BY <1>5, <1>7 DEF TurnInv

LEMMA PipelineStep == TurnInv /\ Pipeline => TurnInv'
  BY OpenStep, InputGuardStep, UserTurnStep, RefuseStep, MemoryLoadStep, QueryTransformStep, CacheProbeStep,
     RetrieveStep, CacheStoreStep, ScanRetrievedStep, OodGateStep, ContradictionStep, ToolPlanStep,
     ContextAssemblyStep, GenerateStep, DispatchStep, DispatchRaisesStep, CitationsStep, OutputGuardStep,
     PersistAnswerStep, RecordTurnStep, WriteBackStep, FinishStep, ReportFailureStep
     DEF Pipeline

\* The stream carries the events on, and only the heartbeat and the sentinel come and go.
LEMMA SameTurn ==
  ASSUME TurnInv, StreamInv', UNCHANGED Turn, \A e \in Events : Heard(e)' <=> Heard(e)
  PROVE  TurnInv'
<1>1. UNCHANGED <<stage, storage, poisoned, owed, stored, answer, calls>>
  BY DEF Turn
<1>2. {"unsaved", "error"} \subseteq Events
  BY DEF Events
<1>3. AccountInv'
  BY <1>1, <1>2 DEF TurnInv, AccountInv, Warned, Unaudited
<1> QED
  BY <1>3 DEF TurnInv

LEMMA SendStep == TurnInv /\ Send => TurnInv'
<1> SUFFICES ASSUME TurnInv, Send PROVE TurnInv'
  OBVIOUS
<1>1. /\ outbox # <<>> /\ buffer' = Append(buffer, Head(outbox)) /\ outbox' = Tail(outbox)
      /\ pump' = IF Head(outbox) = "done" THEN "closing" ELSE "sending"
      /\ UNCHANGED Turn /\ seen' = seen /\ stage' = stage /\ owed' = owed
  BY DEF Send, Turn
<1>2. /\ StreamTyped /\ outbox \in Seq(Events) /\ buffer \in Seq(OnWire) /\ seen \in Seq(Events) /\ seen \in Seq(OnWire)
      /\ outbox \in Seq(OnWire)
  BY DEF TurnInv, StreamInv, StreamTyped, OnWire
<1>3. Head(outbox) \in Events /\ Head(outbox) \in OnWire /\ Tail(outbox) \in Seq(Events) /\ Tail(outbox) \in Seq(OnWire)
  BY <1>1, <1>2
<1>4. Told' = Told
  <2> DEFINE x == Head(outbox)
             rest == Tail(outbox)
  <2>1. /\ Len(outbox) = Len(rest) + 1 /\ Len(rest) \in Nat /\ outbox[1] = x
        /\ \A i \in 1..Len(rest) : outbox[i + 1] = rest[i]
    BY <1>1, <1>2
  <2>2. Append(buffer, x) \o rest = buffer \o outbox
    <3> DEFINE left  == Append(buffer, x) \o rest
               right == buffer \o outbox
    <3> HIDE DEF x, rest
    <3>1. left \in Seq(OnWire) /\ right \in Seq(OnWire)
      BY <1>2, <1>3 DEF x, rest
    <3>2. Len(left) = Len(right)
      BY <1>2, <1>3, <2>1 DEF x, rest
    <3>3. \A i \in 1..Len(left) : left[i] = right[i]
      <4> SUFFICES ASSUME NEW i \in 1..Len(left) PROVE left[i] = right[i]
        OBVIOUS
      <4>0. rest \in Seq(OnWire) /\ x \in OnWire /\ Len(buffer) \in Nat /\ i \in Int
        BY <1>2, <1>3, <3>1 DEF x, rest
      <4>1. CASE i <= Len(buffer)
        BY <1>2, <4>0, <4>1, <2>1
      <4>2. CASE i = Len(buffer) + 1
        BY <1>2, <4>0, <4>2, <2>1
      <4>3. CASE i > Len(buffer) + 1
        <5>1. left[i] = rest[i - Len(buffer) - 1] /\ right[i] = outbox[i - Len(buffer)]
          BY <1>2, <4>0, <4>3, <2>1
        <5>2. i - Len(buffer) - 1 \in 1..Len(rest)
          BY <1>2, <4>0, <4>3, <2>1
        <5> QED
          BY <5>1, <5>2, <2>1
      <4>4. i <= Len(buffer) \/ i = Len(buffer) + 1 \/ i > Len(buffer) + 1
        BY <4>0
      <4> HIDE DEF left, right
      <4> QED
        BY <4>1, <4>2, <4>3, <4>4
    <3> HIDE DEF left, right
    <3>4. left = right
      BY <3>1, <3>2, <3>3
    <3> QED
      BY <3>4 DEF left, right
  <2>3. seen \o (Append(buffer, x) \o rest) = seen \o (buffer \o outbox)
    BY <2>2
  <2>4. /\ seen \o (Append(buffer, x) \o rest) = seen \o Append(buffer, x) \o rest
        /\ seen \o (buffer \o outbox) = seen \o buffer \o outbox
    <3> HIDE DEF x, rest
    <3>1. x \in OnWire /\ rest \in Seq(OnWire) /\ Append(buffer, x) \in Seq(OnWire)
      BY <1>2, <1>3 DEF x, rest
    <3>2. seen \in Seq(OnWire) /\ buffer \in Seq(OnWire) /\ outbox \in Seq(OnWire)
      BY <1>2
    <3> DEFINE more == Append(buffer, x)
    <3>3. more \in Seq(OnWire)
      BY <3>1
    <3> HIDE DEF more
    <3>a. PICK V, p, q, r, b, o : V = OnWire /\ p = seen /\ q = more /\ r = rest /\ b = buffer /\ o = outbox
      OBVIOUS
    <3>b. p \in Seq(V) /\ q \in Seq(V) /\ r \in Seq(V) /\ b \in Seq(V) /\ o \in Seq(V)
      BY <3>1, <3>2, <3>3, <3>a
    <3>c. (p \o q) \o r = p \o (q \o r)
      BY <3>b, ConcatAssociative, SMTT(25)
    <3>d. (p \o b) \o o = p \o (b \o o)
      BY <3>b, ConcatAssociative, SMTT(25)
    <3>4. (seen \o more) \o rest = seen \o (more \o rest)
      BY <3>a, <3>c
    <3>5. (seen \o buffer) \o outbox = seen \o (buffer \o outbox)
      BY <3>a, <3>d
    <3> QED
      BY <3>4, <3>5 DEF more
  <2> QED
    BY <1>1, <2>3, <2>4 DEF Told
<1>5. pump' # "sending" => outbox' = <<>>
  <2> SUFFICES ASSUME Head(outbox) = "done", Tail(outbox) # <<>> PROVE FALSE
    BY <1>1
  <2>1. outbox[1] = "done" /\ Len(outbox) > 1 /\ Len(outbox) \in Nat /\ outbox[2] \in Events
    BY <1>1, <1>2
  <2> DEFINE before == seen \o buffer
             p == Len(before)
  <2>2. before \in Seq(OnWire) /\ p \in Nat /\ Told = before \o outbox
    BY <1>2 DEF Told
  <2> HIDE DEF before
  <2>3. /\ p + 1 \in DOMAIN Told /\ p + 2 \in DOMAIN Told /\ p + 1 < p + 2
        /\ Told[p + 1] = "done" /\ Told[p + 2] \in Events
    BY <1>2, <2>1, <2>2
  <2> QED
    BY <2>3 DEF TurnInv, StreamInv, Orderly
<1>6. StreamTyped'
  BY <1>1, <1>2, <1>3 DEF StreamTyped
<1>7. StreamInv' /\ \A e \in Events : Heard(e)' <=> Heard(e)
  BY <1>1, <1>4, <1>5, <1>6 DEF TurnInv, StreamInv, Heard
<1> QED
  BY <1>1, <1>7, SameTurn

\* A heartbeat, or the sentinel, goes in only when nothing is waiting to be sent.
LEMMA Pushed ==
  ASSUME TurnInv, outbox = <<>>, NEW x \in {"beat", "end"}, buffer' = Append(buffer, x),
         UNCHANGED <<Turn, outbox, seen>>, pump' \in {"sending", "closing", "closed"}
  PROVE  TurnInv'
<1>1. /\ StreamTyped /\ buffer \in Seq(OnWire) /\ seen \in Seq(Events) /\ seen \in Seq(OnWire) /\ x \in OnWire
      /\ stage' = stage /\ owed' = owed /\ outbox' = <<>> /\ seen' = seen
  BY DEF TurnInv, StreamInv, StreamTyped, OnWire, Turn
<1>2. Told' = Append(Told, x)
  <2> DEFINE pushed == Append(buffer, x)
  <2>1. pushed \in Seq(OnWire) /\ pushed = buffer \o <<x>> /\ <<x>> \in Seq(OnWire)
    BY <1>1
  <2>2. Told = seen \o buffer /\ Told' = seen \o pushed
    BY <1>1, <2>1 DEF Told
  <2>3. seen \o (buffer \o <<x>>) = (seen \o buffer) \o <<x>>
    BY <1>1, <2>1, ConcatAssociative
  <2>4. (seen \o buffer) \o <<x>> = Append(seen \o buffer, x)
    BY <1>1
  <2> HIDE DEF pushed
  <2> QED
    BY <2>1, <2>2, <2>3, <2>4
<1>3. Told \in Seq(OnWire) /\ Orderly(Told)
  BY <1>1, ToldTyped DEF TurnInv, StreamInv
<1>4. /\ Orderly(Told') /\ (Calling(Told') => Calling(Told))
      /\ \A e \in Events : e \in ToSet(Told') <=> e \in ToSet(Told)
  BY <1>2, <1>3, Beats
<1>5. StreamTyped'
  BY <1>1 DEF StreamTyped
<1>6. {"done", "error", "citations"} \subseteq Events
  BY DEF Events
<1>7. StreamInv' /\ \A e \in Events : Heard(e)' <=> Heard(e)
  BY <1>1, <1>4, <1>5, <1>6 DEF TurnInv, StreamInv, Heard
<1> QED
  BY <1>7, SameTurn

LEMMA ReadStep == TurnInv /\ Read => TurnInv'
<1> SUFFICES ASSUME TurnInv, Read PROVE TurnInv'
  OBVIOUS
<1> DEFINE x == Head(buffer)
           rest == Tail(buffer)
<1>1. /\ buffer # <<>> /\ buffer' = rest /\ UNCHANGED Turn /\ outbox' = outbox /\ pump' = pump
      /\ seen' = IF x \in Events THEN Append(seen, x) ELSE seen
      /\ stage' = stage /\ owed' = owed
  BY DEF Read, Turn
<1>2. /\ StreamTyped /\ outbox \in Seq(OnWire) /\ buffer \in Seq(OnWire) /\ seen \in Seq(Events) /\ seen \in Seq(OnWire)
  BY DEF TurnInv, StreamInv, StreamTyped, OnWire
<1>3. /\ x \in OnWire /\ rest \in Seq(OnWire) /\ Len(buffer) = Len(rest) + 1 /\ buffer[1] = x
      /\ Len(rest) \in Nat /\ \A i \in 1..Len(rest) : buffer[i + 1] = rest[i]
  BY <1>1, <1>2
<1> HIDE DEF x, rest
<1>4. StreamTyped'
  BY <1>1, <1>2, <1>3 DEF StreamTyped
<1>5. {"done", "error", "citations"} \subseteq Events /\ Told \in Seq(OnWire)
  BY <1>2, ToldTyped DEF Events
<1>6. CASE x \in Events
  <2>1. Append(seen, x) \in Seq(OnWire) /\ Append(seen, x) = seen \o <<x>> /\ <<x>> \in Seq(OnWire)
    BY <1>2, <1>3
  <2>2. buffer = <<x>> \o rest
    <3> DEFINE joined == <<x>> \o rest
    <3>1. joined \in Seq(OnWire) /\ Len(joined) = Len(buffer) /\ joined[1] = x
          /\ \A i \in 2..Len(buffer) : joined[i] = rest[i - 1]
      BY <1>3, <2>1
    <3> HIDE DEF joined
    <3>2. \A i \in 1..Len(buffer) : joined[i] = buffer[i]
      <4> SUFFICES ASSUME NEW i \in 1..Len(buffer) PROVE joined[i] = buffer[i]
        OBVIOUS
      <4>1. CASE i = 1
        BY <1>3, <3>1, <4>1
      <4>2. CASE i # 1
        <5>1. i - 1 \in 1..Len(rest) /\ i \in 2..Len(buffer) /\ i = (i - 1) + 1
          BY <1>3, <4>2
        <5> QED
          BY <1>3, <3>1, <5>1
      <4> QED
        BY <4>1, <4>2
    <3>3. joined = buffer
      <4>1. joined \in Seq(OnWire) /\ buffer \in Seq(OnWire) /\ Len(joined) = Len(buffer) /\ Len(buffer) \in Nat
        BY <1>2, <3>1
      <4>2. \A i \in 1..Len(joined) : joined[i] = buffer[i]
        BY <3>1, <3>2
      <4> QED
        BY <4>1, <4>2
    <3> QED
      BY <3>3 DEF joined
  <2>3. (seen \o <<x>>) \o rest = seen \o (<<x>> \o rest)
    BY <1>2, <1>3, <2>1, ConcatAssociative
  <2>4. Told' = Told
    BY <1>1, <1>6, <2>1, <2>2, <2>3 DEF Told
  <2>5. StreamInv' /\ \A e \in Events : Heard(e)' <=> Heard(e)
    BY <1>1, <1>4, <2>4 DEF TurnInv, StreamInv, Heard
  <2> QED
    BY <1>1, <2>5, SameTurn
<1>7. CASE x \notin Events
  <2> DEFINE k == Len(seen) + 1
             t == seen \o rest \o outbox
  <2>1. Told' = t /\ t \in Seq(OnWire)
    BY <1>1, <1>2, <1>3, <1>7 DEF Told
  <2>2. /\ Len(seen) \in Nat /\ Len(outbox) \in Nat /\ Len(t) = Len(seen) + Len(rest) + Len(outbox)
        /\ Len(Told) = Len(t) + 1 /\ k \in 1..Len(Told) /\ Told[k] = x
    <3>1. Len(seen) \in Nat /\ Len(outbox) \in Nat /\ Len(t) = Len(seen) + Len(rest) + Len(outbox)
      BY <1>2, <1>3
    <3>2. Len(Told) = Len(seen) + Len(buffer) + Len(outbox)
      BY <1>2 DEF Told
    <3>3. k \in 1..Len(Told) /\ Len(Told) = Len(t) + 1
      BY <1>3, <3>1, <3>2
    <3>4. Told[Len(seen) + 1] = buffer[1]
      BY <1>2, <1>3, <3>1 DEF Told
    <3> QED
      BY <1>3, <3>1, <3>3, <3>4
  <2>3. \A i \in 1..Len(t) : t[i] = IF i < k THEN Told[i] ELSE Told[i + 1]
    <3> SUFFICES ASSUME NEW i \in 1..Len(t) PROVE t[i] = IF i < k THEN Told[i] ELSE Told[i + 1]
      OBVIOUS
    <3>1. i \in Int /\ i >= 1 /\ i <= Len(seen) + Len(rest) + Len(outbox)
      BY <1>3, <2>2
    <3>2. CASE i <= Len(seen)
      <4>1. t[i] = seen[i] /\ Told[i] = seen[i]
        BY <1>2, <1>3, <2>2, <3>1, <3>2 DEF Told
      <4> QED
        BY <2>2, <3>1, <3>2, <4>1
    <3>3. CASE i > Len(seen) /\ i <= Len(seen) + Len(rest)
      <4>1. t[i] = rest[i - Len(seen)]
        BY <1>2, <1>3, <2>2, <3>1, <3>3
      <4>2. Told[i + 1] = buffer[i + 1 - Len(seen)]
        BY <1>2, <1>3, <2>2, <3>1, <3>3 DEF Told
      <4>3. i - Len(seen) \in 1..Len(rest) /\ i + 1 - Len(seen) = (i - Len(seen)) + 1
        BY <1>3, <2>2, <3>1, <3>3
      <4>4. Told[i + 1] = t[i] /\ ~(i < k)
        BY <1>3, <2>2, <3>1, <3>3, <4>1, <4>2, <4>3
      <4> HIDE DEF t, k
      <4> QED
        BY <4>4
    <3>4. CASE i > Len(seen) + Len(rest)
      <4>1. t[i] = outbox[i - Len(seen) - Len(rest)]
        BY <1>2, <1>3, <2>2, <3>1, <3>4
      <4>2. Told[i + 1] = outbox[i + 1 - Len(seen) - Len(buffer)]
        BY <1>2, <1>3, <2>2, <3>1, <3>4, SMTT(25) DEF Told
      <4>3. i + 1 - Len(seen) - Len(buffer) = i - Len(seen) - Len(rest) /\ ~(i < k)
        BY <1>3, <2>2, <3>1, <3>4
      <4>4. Told[i + 1] = t[i]
        BY <4>1, <4>2, <4>3
      <4> HIDE DEF t, k
      <4> QED
        BY <4>3, <4>4
    <3>5. i <= Len(seen) \/ (i > Len(seen) /\ i <= Len(seen) + Len(rest)) \/ i > Len(seen) + Len(rest)
      BY <1>3, <2>2, <3>1
    <3> HIDE DEF t, k
    <3> QED
      BY <3>2, <3>3, <3>4, <3>5
  <2>4. Len(t) = Len(Told) - 1
    BY <1>3, <2>2
  <2> HIDE DEF t, k
  <2>5. /\ (Orderly(Told) => Orderly(t)) /\ (Calling(t) => Calling(Told))
        /\ \A e \in Events : e \in ToSet(t) <=> e \in ToSet(Told)
    BY <1>5, <1>7, <2>1, <2>2, <2>3, <2>4, Dropped
  <2>6. StreamInv' /\ \A e \in Events : Heard(e)' <=> Heard(e)
    BY <1>1, <1>4, <1>5, <2>1, <2>5 DEF TurnInv, StreamInv, Heard
  <2> QED
    BY <1>1, <2>6, SameTurn
<1> QED
  BY <1>6, <1>7

LEMMA TurnNextInv == TurnInv /\ [TurnNext]_turnVars => TurnInv'
<1> SUFFICES ASSUME TurnInv, [TurnNext]_turnVars PROVE TurnInv'
  OBVIOUS
<1>1. CASE Pipeline
  BY <1>1, PipelineStep
<1>2. CASE Send
  BY <1>2, SendStep
<1>3. CASE SendSentinel
  <2>1. outbox = <<>>
    BY <1>3 DEF SendSentinel, TurnInv, StreamInv
  <2>2. buffer' = Append(buffer, "end") /\ pump' = "closed" /\ UNCHANGED <<Turn, outbox, seen>>
    BY <1>3 DEF SendSentinel
  <2> QED
    BY <2>1, <2>2, Pushed
<1>4. CASE Heartbeat
  <2>1. outbox = <<>>
    BY <1>4 DEF Heartbeat, TurnInv, StreamInv
  <2>2. buffer' = Append(buffer, "beat") /\ pump' = pump /\ UNCHANGED <<Turn, outbox, seen>>
    BY <1>4 DEF Heartbeat
  <2>3. pump \in {"sending", "closing", "closed"}
    BY DEF TurnInv, StreamInv, StreamTyped
  <2> QED
    BY <2>1, <2>2, <2>3, Pushed
<1>5. CASE Read
  BY <1>5, ReadStep
<1>6. CASE SentinelTimesOut \/ Leave \/ UNCHANGED turnVars
  <2>1. /\ UNCHANGED <<Turn, outbox, buffer, seen>> /\ stage' = stage /\ owed' = owed /\ outbox' = outbox
        /\ (pump' = pump \/ (pump = "closing" /\ pump' = "closed"))
    <3>1. CASE SentinelTimesOut
      BY <3>1 DEF SentinelTimesOut, Turn
    <3>2. CASE Leave
      <4>1. UNCHANGED Turn /\ UNCHANGED <<outbox, buffer, seen, pump>>
        BY <3>2 DEF Leave
      <4> QED
        BY <4>1 DEF Turn
    <3>3. CASE UNCHANGED turnVars
      <4>1. UNCHANGED Turn /\ UNCHANGED <<outbox, buffer, seen, pump>>
        BY <3>3 DEF turnVars, Turn
      <4> QED
        BY <4>1 DEF Turn
    <3> QED
      BY <1>6, <3>1, <3>2, <3>3
  <2>2. StreamTyped' /\ Told' = Told
    BY <2>1 DEF TurnInv, StreamInv, StreamTyped, Told
  <2>3. StreamInv' /\ \A e \in Events : Heard(e)' <=> Heard(e)
    BY <2>1, <2>2 DEF TurnInv, StreamInv, Heard
  <2> QED
    BY <2>1, <2>3, SameTurn
<1> QED
  BY <1>1, <1>2, <1>3, <1>4, <1>5, <1>6 DEF TurnNext, Stream

LEMMA TurnInitInv == TurnInit => TurnInv
<1> SUFFICES ASSUME TurnInit PROVE TurnInv
  OBVIOUS
<1>1. StreamInv
  BY StreamInitInv
<1>2. AccountInv
  BY Places DEF TurnInit, AccountInv, Early, Mid, Late, Unaudited
<1> QED
  BY <1>1, <1>2 DEF TurnInv

\* The stages, the writes and the stream keep the strengthened invariant, whatever fails,
\* whenever the client leaves and however small the buffer is.
THEOREM TurnInductive == TurnSpec => []TurnInv
<1>1. TurnInit => TurnInv
  BY TurnInitInv
<1>2. TurnInv /\ [TurnNext]_turnVars => TurnInv'
  BY TurnNextInv
<1> QED
  BY <1>1, <1>2, PTL DEF TurnSpec

\* The events of a turn come in an order a client can follow.
THEOREM StreamWellFormed == TurnSpec => []StreamIsWellFormed
<1>1. TurnInv => StreamIsWellFormed
  BY DEF TurnInv, StreamInv, StreamIsWellFormed
<1> QED
  BY <1>1, TurnInductive, PTL

\* What a turn could not store, and the calls it could not audit, the client was told of.
THEOREM TurnAccounted == TurnSpec => []TurnIsAccounted
<1>1. TurnInv => TurnIsAccounted
  <2> SUFFICES ASSUME TurnInv PROVE TurnIsAccounted
    OBVIOUS
  <2>1. LossIsTold
    BY DEF TurnInv, AccountInv, LossIsTold, Refusals
  <2>2. CallsAreAudited
    BY DEF TurnInv, AccountInv, CallsAreAudited, Unaudited
  <2> QED
    BY <2>1, <2>2 DEF TurnIsAccounted
<1> QED
  BY <1>1, TurnInductive, PTL
-----------------------------------------------------------------------------
(* One call of the model *)

EventKinds == BlockKinds \cup {"error", "refusal", "usage", "done"}
EventType  == [type : EventKinds, attempt : Nat, block : Nat, part : Nat]

LlmTyped ==
    /\ DOMAIN request = {"kind", "sent", "attempt", "at", "message", "place", "open", "result", "reply"}
    /\ request.kind \in {"complete", "stream", "structured", "classify"}
    /\ request.at \in {"ready", "open", "over", "invalid", "closed"}
    /\ request.attempt \in 0..MaxRetries
    /\ request.message \in Seq(BlockType)
    /\ request.place \in (Nat \X Nat) /\ request.open \in BOOLEAN
    /\ request.result \in {"none", "answer", "refusal", "error", "garbled", "first", "label"}
    /\ heard \in Seq(EventType) /\ meter \in Seq({"error", "refused", "ok"})

\* What of the message is behind the place a stream has come to.
Behind == {part \in PartsOf(request.message) :
              \/ part.block < request.place[1]
              \/ part.block = request.place[1] /\ part.type # "tool" /\ part.part <= request.place[2]}

PlaceInside ==
    /\ request.place[1] \in 1..(Len(request.message) + 1)
    /\ ~request.open => request.place[2] = 0
    /\ request.open => /\ request.place[1] <= Len(request.message)
                       /\ request.place[2] <= request.message[request.place[1]].parts

\* An open stream has handed out what is behind its place, in order, and nothing else.
HandedOut ==
    /\ \A i \in DOMAIN heard : heard[i].attempt = request.attempt /\ PartHeard(i) \in Behind
    /\ \A i, j \in DOMAIN heard : j < i => Precedes(heard[j], heard[i])
    /\ \A part \in Behind : \E i \in DOMAIN heard : PartHeard(i) = part

\* A call that is not over has no result, and has heard nothing but from the attempt under way.
Unfinished ==
    /\ request.at \in {"ready", "open", "invalid"} => request.result = "none" /\ meter = <<>>
    /\ request.at = "ready" \/ request.kind # "stream" => heard = <<>>
    /\ request.kind = "stream" /\ request.at = "open" => PlaceInside /\ HandedOut

\* The strengthening of CallIsOneAnswer.
LlmInv == LlmTyped /\ Unfinished /\ HeardIsOneMessage /\ EndsOnce /\ FeaturesAreDeclared

LEMMA PartsTyped ==
  ASSUME NEW message \in Seq(BlockType), NEW part \in PartsOf(message)
  PROVE  /\ part.block \in DOMAIN message /\ part.type = message[part.block].kind
         /\ part.part \in PartsIn(message[part.block]) /\ part.part \in Nat
         /\ part = [type |-> part.type, block |-> part.block, part |-> part.part]
<1>0. PICK b \in DOMAIN message :
         part \in {[type |-> message[b].kind, block |-> b, part |-> p] : p \in PartsIn(message[b])}
  BY DEF PartsOf
<1>1. PICK p \in PartsIn(message[b]) : part = [type |-> message[b].kind, block |-> b, part |-> p]
  BY <1>0
<1>2. message[b] \in BlockType
  OBVIOUS
<1>3. p \in Nat
  BY <1>2 DEF PartsIn, BlockType
<1> QED BY <1>1, <1>3

LEMMA BlockPart ==
  ASSUME NEW message \in Seq(BlockType), NEW b \in DOMAIN message, NEW p \in PartsIn(message[b])
  PROVE  [type |-> message[b].kind, block |-> b, part |-> p] \in PartsOf(message)
BY DEF PartsOf

\* An open stream that has handed out what is behind it has handed out a beginning.
LEMMA Beginning ==
  ASSUME LlmTyped', HandedOut', request'.result = "none"
  PROVE  HeardIsOneMessage'
<1>1. ASSUME NEW i \in DOMAIN heard' PROVE i \in Said'
  <2>1. PartHeard(i)' \in Behind'
    BY <1>1 DEF HandedOut
  <2>2. PartHeard(i)' \in PartsOf(request'.message)
    BY <2>1 DEF Behind
  <2>3. heard'[i].block \in DOMAIN request'.message /\ heard'[i].type = request'.message[heard'[i].block].kind
    <3>1. request'.message \in Seq(BlockType)
      BY DEF LlmTyped
    <3> QED BY <2>2, <3>1, PartsTyped DEF PartHeard
  <2>4. request'.message[heard'[i].block] \in BlockType
    BY <2>3 DEF LlmTyped
  <2> QED BY <1>1, <2>3, <2>4 DEF Said, BlockType
<1>2. Said' = DOMAIN heard'
  BY <1>1 DEF Said
<1>3. ASSUME NEW i \in DOMAIN heard' PROVE \A j \in 1..(i - 1) : j \in DOMAIN heard' /\ j < i
  BY <1>3 DEF LlmTyped
<1>4. ASSUME NEW i \in DOMAIN heard', NEW part \in PartsOf(request'.message), Precedes(part, heard'[i])
      PROVE  part \in Behind'
  <2>1. PartHeard(i)' \in Behind'
    BY DEF HandedOut
  <2>0. request'.message \in Seq(BlockType) /\ request'.place[1] \in Nat /\ request'.place[2] \in Nat
    BY DEF LlmTyped
  <2>2. PartHeard(i)' \in PartsOf(request'.message)
    BY <2>1 DEF Behind
  <2>3. /\ heard'[i].type = request'.message[heard'[i].block].kind
        /\ heard'[i].block \in Nat /\ heard'[i].part \in Nat
    BY <2>2, <2>0, PartsTyped DEF PartHeard
  <2>4. part.type = request'.message[part.block].kind /\ part.block \in Nat /\ part.part \in Nat
    BY <2>0, PartsTyped
  <2>5. CASE heard'[i].block < request'.place[1]
    BY <1>4, <2>0, <2>3, <2>4, <2>5 DEF Precedes, Behind
  <2>6. CASE heard'[i].block = request'.place[1] /\ heard'[i].type # "tool" /\ heard'[i].part <= request'.place[2]
    BY <1>4, <2>0, <2>3, <2>4, <2>6 DEF Precedes, Behind
  <2> QED BY <2>1, <2>5, <2>6 DEF Behind, PartHeard
<1>5. \A i \in DOMAIN heard' : PartHeard(i)' \in PartsOf(request'.message)
  BY DEF HandedOut, Behind
<1> QED
  BY <1>2, <1>3, <1>4, <1>5 DEF HeardIsOneMessage, HandedOut

\* What a stream says at its end carries no part of the message.
LEMMA Ending ==
  ASSUME LlmTyped, HeardIsOneMessage, DOMAIN heard = Said,
         NEW tail \in Seq(EventType), heard' = heard \o tail,
         \A i \in DOMAIN tail : tail[i].type \notin BlockKinds,
         request'.message = request.message, request'.kind = request.kind,
         request'.result \in {"answer", "refusal"} /\ request.kind = "stream" =>
            \A part \in PartsOf(request.message) : \E i \in Said : PartHeard(i) = part
  PROVE  HeardIsOneMessage'
<1>1. /\ Len(heard') = Len(heard) + Len(tail)
      /\ \A i \in DOMAIN heard' : heard'[i] = IF i <= Len(heard) THEN heard[i] ELSE tail[i - Len(heard)]
      /\ DOMAIN heard' = 1..Len(heard') /\ DOMAIN heard = 1..Len(heard) /\ DOMAIN tail = 1..Len(tail)
  BY DEF LlmTyped
<1>2. \A i \in Said : i \in DOMAIN heard' /\ heard'[i] = heard[i]
  BY <1>1 DEF LlmTyped
<1>3. Said' = Said
  <2>1. ASSUME NEW i \in DOMAIN heard', i \notin DOMAIN heard PROVE heard'[i].type \notin BlockKinds
    <3>1. i - Len(heard) \in DOMAIN tail /\ heard'[i] = tail[i - Len(heard)]
      BY <1>1, <2>1 DEF LlmTyped
    <3> QED BY <3>1
  <2>2. Said' \subseteq Said
    BY <1>2, <2>1 DEF Said
  <2>3. Said \subseteq Said'
    BY <1>2 DEF Said
  <2> QED BY <2>2, <2>3
<1>4. \A i \in Said : PartHeard(i)' = PartHeard(i)
  BY <1>2 DEF PartHeard
<1>5. \A i \in Said : heard'[i] = heard[i]
  BY <1>2
<1>6. ASSUME request.kind = "stream", NEW i \in Said
      PROVE  /\ PartHeard(i)' \in PartsOf(request.message)
             /\ \A j \in 1..(i - 1) : j \in Said /\ Precedes(heard'[j], heard'[i])
             /\ \A part \in PartsOf(request.message) :
                   Precedes(part, heard'[i]) => \E j \in Said : PartHeard(j)' = part
  BY <1>4, <1>5, <1>6 DEF HeardIsOneMessage
<1> QED BY <1>3, <1>4, <1>5, <1>6 DEF HeardIsOneMessage

\* Silence is the beginning of every message.
LEMMA Silence ==
  ASSUME heard' = <<>>, request'.result \notin {"answer", "refusal"}
  PROVE  HeardIsOneMessage'
BY DEF HeardIsOneMessage, Said

LEMMA LlmInitInv == LlmInit => LlmInv
<1> SUFFICES ASSUME LlmInit PROVE LlmInv
  OBVIOUS
<1>1. PICK kind \in CallKinds, want \in Wants : request = NewCall(kind, want)
  BY DEF LlmInit
<1>2. PICK told \in WantType :
        request = [kind |-> kind, sent |-> Built(told), attempt |-> 0,
                   at |-> IF want.turns = "user" THEN "ready" ELSE "invalid",
                   message |-> <<>>, place |-> <<1, 0>>, open |-> FALSE, result |-> "none", reply |-> NoReply]
  <2>1. want \in WantType
    BY LlmAssumption
  <2>2. [want EXCEPT !.servers = {}, !.toolsets = {}, !.edits = {},
                     !.thinks = (kind = "structured") /\ @] \in WantType
    BY <2>1 DEF WantType
  <2> QED BY <1>1, <2>1, <2>2 DEF NewCall
<1>3. LlmTyped
  BY <1>2, LlmAssumption DEF LlmInit, LlmTyped, EventType
<1>4. heard = <<>> /\ meter = <<>>
  BY DEF LlmInit
<1>5. FeaturesAreDeclared
  <2>1. request.sent = Built(told)
    BY <1>2
  <2>2. /\ told.edits # {} => BetasOf(told) # {}
        /\ told.fallbacks => BetasOf(told) # {}
        /\ told.servers # {} => "mcp" \in BetasOf(told)
    BY DEF BetasOf
  <2>3. /\ request.sent.servers = told.servers /\ request.sent.edits = told.edits
        /\ request.sent.toolsets = told.toolsets \cup told.servers
        /\ request.sent.betas = BetasOf(told)
    BY <2>1 DEF Built
  <2>4. ASSUME BetasOf(told) # {} PROVE request.sent.beta
    <3>1. (BetasOf(told) # {}) = TRUE
      BY <2>4
    <3>2. request.sent.beta = (BetasOf(told) # {})
      BY <2>1 DEF Built
    <3> QED BY <3>1, <3>2
  <2>5. request.sent.fallbacks => told.fallbacks
    BY <2>1 DEF Built
  <2> QED BY <2>2, <2>3, <2>4, <2>5 DEF FeaturesAreDeclared
<1>6. Unfinished /\ HeardIsOneMessage /\ EndsOnce
  BY <1>2, <1>4 DEF Unfinished, HeardIsOneMessage, Said, EndsOnce
<1> QED BY <1>3, <1>5, <1>6 DEF LlmInv

LEMMA BeginStep == LlmInv /\ Begin => LlmInv'
<1> SUFFICES ASSUME LlmInv, Begin PROVE LlmInv'
  OBVIOUS
<1>1. PICK message \in ModelMessages :
        request' = [request EXCEPT !.at = "open", !.message = message, !.place = <<1, 0>>, !.open = FALSE]
  BY DEF Begin
<1>2. heard = <<>> /\ meter = <<>> /\ request.result = "none" /\ heard' = heard /\ meter' = meter
  BY DEF Begin, LlmInv, Unfinished
<1>3. LlmTyped'
  BY <1>1, <1>2, LlmAssumption DEF LlmInv, LlmTyped
<1>4. Behind' = {}
  <2>1. ASSUME NEW part \in PartsOf(request'.message) PROVE part \notin Behind'
    <3>1. /\ part.block \in DOMAIN request'.message /\ part.type = request'.message[part.block].kind
          /\ part.part \in PartsIn(request'.message[part.block])
      BY <1>3, PartsTyped DEF LlmTyped
    <3>2. request'.message[part.block] \in BlockType /\ part.block \in Nat \ {0}
      BY <1>3, <3>1 DEF LlmTyped
    <3>3. request'.place = <<1, 0>>
      BY <1>1 DEF LlmInv, LlmTyped
    <3> QED BY <3>1, <3>2, <3>3 DEF Behind, PartsIn, BlockType
  <2> QED BY <2>1 DEF Behind
<1>5. PlaceInside' /\ HandedOut'
  <2>1. request'.place = <<1, 0>> /\ ~request'.open /\ Len(request'.message) \in Nat
    BY <1>1, <1>3 DEF LlmInv, LlmTyped
  <2> QED BY <1>2, <1>4, <2>1 DEF PlaceInside, HandedOut
<1>6. request'.result = "none" /\ request'.at = "open" /\ request'.sent = request.sent /\ request'.kind = request.kind
  BY <1>1, <1>2 DEF LlmInv, LlmTyped
<1>7. Unfinished' /\ EndsOnce'
  BY <1>2, <1>5, <1>6 DEF Unfinished, EndsOnce
<1>8. HeardIsOneMessage'
  BY <1>2, <1>6, Silence
<1>9. FeaturesAreDeclared'
  BY <1>6 DEF LlmInv, FeaturesAreDeclared
<1> QED BY <1>3, <1>7, <1>8, <1>9 DEF LlmInv

\* What the handlers of an open stream share: the call stays as it was but for its place.
LEMMA StreamRuns ==
  ASSUME LlmInv, LlmTyped', Streaming, meter' = meter,
         request'.kind = request.kind, request'.at = request.at, request'.result = request.result,
         request'.sent = request.sent, PlaceInside', HandedOut'
  PROVE  LlmInv'
<1>1. request.result = "none" /\ meter = <<>> /\ request.at = "open" /\ request.kind = "stream"
  BY DEF LlmInv, Unfinished, Streaming
<1>2. Unfinished'
  BY <1>1 DEF Unfinished
<1>3. HeardIsOneMessage'
  BY <1>1, Beginning
<1>4. \A i \in DOMAIN heard' : heard'[i].type \in BlockKinds
  <2> SUFFICES ASSUME NEW i \in DOMAIN heard' PROVE heard'[i].type \in BlockKinds
    OBVIOUS
  <2>1. PartHeard(i)' \in PartsOf(request'.message)
    BY DEF HandedOut, Behind
  <2>2. request'.message \in Seq(BlockType)
    BY DEF LlmTyped
  <2>3. /\ heard'[i].block \in DOMAIN request'.message
        /\ heard'[i].type = request'.message[heard'[i].block].kind
    BY <2>1, <2>2, PartsTyped DEF PartHeard
  <2>4. request'.message[heard'[i].block] \in BlockType
    BY <2>2, <2>3
  <2> QED BY <2>3, <2>4 DEF BlockType
<1>5. EndsOnce' /\ FeaturesAreDeclared'
  BY <1>1, <1>4 DEF EndsOnce, FeaturesAreDeclared, BlockKinds, LlmInv
<1> QED BY <1>2, <1>3, <1>5 DEF LlmInv

\* The next part, if nothing but what is behind the place precedes it, may be handed out.
LEMMA HandsOut ==
  ASSUME LlmTyped, LlmTyped', HandedOut, NEW kind, NEW block, NEW p,
         [type |-> kind, block |-> block, part |-> p] \in PartsOf(request.message),
         request'.message = request.message, request'.attempt = request.attempt,
         Behind' = Behind \cup {[type |-> kind, block |-> block, part |-> p]},
         \A other \in Behind : Precedes(other, [type |-> kind, block |-> block, part |-> p]),
         heard' = Append(heard, Event(kind, block, p))
  PROVE  HandedOut'
<1> DEFINE part == [type |-> kind, block |-> block, part |-> p]
<1>1. /\ Len(heard) \in Nat /\ DOMAIN heard = 1..Len(heard) /\ DOMAIN heard' = 1..(Len(heard) + 1)
      /\ \A i \in DOMAIN heard : heard'[i] = heard[i]
      /\ heard'[Len(heard) + 1] = Event(kind, block, p)
  BY DEF LlmTyped
<1>2. /\ heard'[Len(heard) + 1].type = kind /\ heard'[Len(heard) + 1].block = block
      /\ heard'[Len(heard) + 1].part = p
  BY <1>1 DEF Event
<1>3. /\ [type |-> heard'[Len(heard) + 1].type, block |-> heard'[Len(heard) + 1].block,
          part |-> heard'[Len(heard) + 1].part] = part
      /\ Len(heard) + 1 \in DOMAIN heard'
  BY <1>1, <1>2
<1>4. \A i \in DOMAIN heard : PartHeard(i)' = PartHeard(i)
  BY <1>1 DEF PartHeard
<1>5. \A i \in DOMAIN heard' : heard'[i].attempt = request'.attempt /\ PartHeard(i)' \in Behind'
  <2> SUFFICES ASSUME NEW i \in DOMAIN heard'
               PROVE  heard'[i].attempt = request'.attempt /\ PartHeard(i)' \in Behind'
    OBVIOUS
  <2>1. CASE i \in DOMAIN heard
    BY <1>1, <1>4, <2>1 DEF HandedOut
  <2>2. CASE i = Len(heard) + 1
    BY <1>1, <1>3, <2>2 DEF Event, PartHeard
  <2> QED BY <1>1, <2>1, <2>2
<1>6. ASSUME NEW i \in DOMAIN heard', NEW j \in DOMAIN heard', j < i
      PROVE  Precedes(heard'[j], heard'[i])
  <2>1. CASE i \in DOMAIN heard
    BY <1>1, <1>6, <2>1 DEF HandedOut
  <2>2. CASE i = Len(heard) + 1
    <3>1. j \in DOMAIN heard
      BY <1>1, <1>6, <2>2
    <3>2. Precedes(PartHeard(j), part)
      BY <3>1 DEF HandedOut
    <3> QED BY <1>1, <2>2, <3>1, <3>2 DEF Precedes, PartHeard, Event
  <2> QED BY <1>1, <2>1, <2>2
<1>7. \A behind \in Behind' : \E i \in DOMAIN heard' : PartHeard(i)' = behind
  <2> SUFFICES ASSUME NEW behind \in Behind' PROVE \E i \in DOMAIN heard' : PartHeard(i)' = behind
    OBVIOUS
  <2>1. CASE behind \in Behind
    <3>1. PICK i \in DOMAIN heard : PartHeard(i) = behind
      BY <2>1 DEF HandedOut
    <3> QED BY <1>1, <1>4, <3>1
  <2>2. CASE behind = part
    BY <1>1, <1>3, <2>2 DEF PartHeard
  <2> QED BY <2>1, <2>2
<1> QED BY <1>5, <1>6, <1>7 DEF HandedOut

LEMMA StartBlockStep == LlmInv /\ StartBlock => LlmInv'
<1> SUFFICES ASSUME LlmInv, StartBlock PROVE LlmInv'
  OBVIOUS
<1>1. request' = [request EXCEPT !.open = TRUE] /\ heard' = heard /\ meter' = meter /\ Streaming /\ ~request.open
  BY DEF StartBlock
<1>2. /\ LlmTyped' /\ request'.message = request.message /\ request'.place = request.place /\ request'.open
      /\ request'.attempt = request.attempt /\ request'.kind = request.kind /\ request'.at = request.at
      /\ request'.result = request.result /\ request'.sent = request.sent
  BY <1>1 DEF LlmInv, LlmTyped
<1>3. PlaceInside /\ HandedOut
  BY <1>1 DEF LlmInv, Unfinished, Streaming
<1>4. PlaceInside'
  <2>1. request.place[2] = 0 /\ request.place[1] \in DOMAIN request.message
    BY <1>1, <1>3 DEF PlaceInside, Streaming, LlmInv, LlmTyped
  <2>2. request.message[request.place[1]].parts \in Nat
    <3>1. request.message[request.place[1]] \in BlockType
      BY <2>1 DEF LlmInv, LlmTyped
    <3> QED BY <3>1 DEF BlockType
  <2> QED BY <1>2, <1>3, <2>1, <2>2 DEF PlaceInside
<1>5. HandedOut'
  BY <1>1, <1>2, <1>3 DEF HandedOut, Behind, PartHeard
<1> QED BY <1>1, <1>2, <1>4, <1>5, StreamRuns

\* Where an open stream stands in its message.
LEMMA OpenBlock ==
  ASSUME LlmInv, Streaming, request.open
  PROVE  /\ PlaceInside /\ HandedOut
         /\ request.place[1] \in DOMAIN request.message /\ request.place[2] \in Nat
         /\ request.place = <<request.place[1], request.place[2]>>
         /\ BlockNow = request.message[request.place[1]] /\ BlockNow \in BlockType
         /\ request.place[2] <= BlockNow.parts
<1>1. PlaceInside /\ HandedOut /\ request.message \in Seq(BlockType) /\ request.place \in Nat \X Nat
  BY DEF LlmInv, LlmTyped, Unfinished, Streaming
<1>2. request.place[1] \in DOMAIN request.message
  BY <1>1 DEF PlaceInside
<1> QED BY <1>1, <1>2 DEF PlaceInside, BlockNow

\* The place moves on within a block, or past its end.
LEMMA BehindMoves ==
  ASSUME NEW message \in Seq(BlockType), NEW part \in PartsOf(message),
         NEW b \in DOMAIN message, NEW n \in Nat, n <= message[b].parts
  PROVE  /\ message[b].kind # "tool" /\ n < message[b].parts =>
               (part.block = b /\ part.type # "tool" /\ part.part <= n + 1
                  <=> \/ part.block = b /\ part.type # "tool" /\ part.part <= n
                      \/ part = [type |-> message[b].kind, block |-> b, part |-> n + 1])
         /\ n = message[b].parts =>
               ((\/ part.block < b + 1
                 \/ part.block = b + 1 /\ part.type # "tool" /\ part.part <= 0)
                  <=> \/ part.block < b
                      \/ part.block = b /\ part.type # "tool" /\ part.part <= n
                      \/ message[b].kind = "tool"
                          /\ part = [type |-> "tool", block |-> b,
                                     part |-> IF message[b].whole THEN n ELSE 0])
<1>1. PICK c \in DOMAIN message :
         part \in {[type |-> message[c].kind, block |-> c, part |-> p] : p \in PartsIn(message[c])}
  BY DEF PartsOf
<1>2. PICK p \in PartsIn(message[c]) : part = [type |-> message[c].kind, block |-> c, part |-> p]
  BY <1>1
<1>3. message[c] \in BlockType /\ message[b] \in BlockType /\ c \in Nat /\ b \in Nat /\ p \in Nat
  <2>1. message[c] \in BlockType /\ message[b] \in BlockType
    OBVIOUS
  <2> QED BY <2>1, <1>2 DEF PartsIn, BlockType
<1>4. part.type = message[c].kind /\ part.block = c /\ part.part = p
  BY <1>2
<1>5. message[c].kind # "tool" => p \in 1..message[c].parts
  BY DEF PartsIn
<1>6. message[c].kind = "tool" => p = IF message[c].whole THEN message[c].parts ELSE 0
  BY DEF PartsIn
<1>7. part = [type |-> message[b].kind, block |-> b, part |-> n + 1]
        <=> message[c].kind = message[b].kind /\ c = b /\ p = n + 1
  BY <1>2
<1>8. message[c].parts \in Nat /\ message[b].parts \in Nat
  BY <1>3 DEF BlockType
<1>9. message[b].kind # "tool" /\ n < message[b].parts =>
         (c = b /\ message[c].kind # "tool" /\ p <= n + 1
            <=> \/ c = b /\ message[c].kind # "tool" /\ p <= n
                \/ message[c].kind = message[b].kind /\ c = b /\ p = n + 1)
  BY <1>3
<1>10. ASSUME n = message[b].parts
       PROVE  (\/ c < b + 1
               \/ c = b + 1 /\ message[c].kind # "tool" /\ p <= 0)
              <=> \/ c < b
                  \/ c = b /\ message[c].kind # "tool" /\ p <= n
                  \/ /\ message[b].kind = "tool" /\ message[c].kind = "tool" /\ c = b
                     /\ p = IF message[b].whole THEN n ELSE 0
  <2>1. CASE c < b
    BY <2>1, <1>3
  <2>2. CASE c = b
    BY <2>2, <1>3, <1>5, <1>6, <1>8, <1>10
  <2>3. CASE c > b
    BY <2>3, <1>3, <1>5, <1>8, <1>10
  <2> QED BY <2>1, <2>2, <2>3, <1>3
<1>11. ASSUME message[b].kind # "tool", n < message[b].parts
       PROVE  part.block = b /\ part.type # "tool" /\ part.part <= n + 1
                <=> \/ part.block = b /\ part.type # "tool" /\ part.part <= n
                    \/ part = [type |-> message[b].kind, block |-> b, part |-> n + 1]
  BY <1>4, <1>7, <1>9, <1>11
<1>12. ASSUME n = message[b].parts
       PROVE  (\/ part.block < b + 1
               \/ part.block = b + 1 /\ part.type # "tool" /\ part.part <= 0)
              <=> \/ part.block < b
                  \/ part.block = b /\ part.type # "tool" /\ part.part <= n
                  \/ message[b].kind = "tool"
                      /\ part = [type |-> "tool", block |-> b,
                                 part |-> IF message[b].whole THEN n ELSE 0]
  <2> DEFINE q == IF message[b].whole THEN n ELSE 0
  <2> HIDE DEF q
  <2>1. part = [type |-> "tool", block |-> b, part |-> q]
          <=> message[c].kind = "tool" /\ c = b /\ p = q
    BY <1>2
  <2>2. (\/ c < b + 1
         \/ c = b + 1 /\ message[c].kind # "tool" /\ p <= 0)
        <=> \/ c < b
            \/ c = b /\ message[c].kind # "tool" /\ p <= n
            \/ message[b].kind = "tool" /\ message[c].kind = "tool" /\ c = b /\ p = q
    BY <1>10, <1>12 DEF q
  <2>3. (\/ part.block < b + 1
         \/ part.block = b + 1 /\ part.type # "tool" /\ part.part <= 0)
        <=> \/ part.block < b
            \/ part.block = b /\ part.type # "tool" /\ part.part <= n
            \/ message[b].kind = "tool" /\ part = [type |-> "tool", block |-> b, part |-> q]
    BY <1>4, <2>1, <2>2
  <2> QED BY <2>3 DEF q
<1> QED BY <1>11, <1>12

\* The parts behind a place, as a condition on one part.
LEMMA BehindOf ==
  /\ Behind \subseteq PartsOf(request.message)
  /\ \A part \in PartsOf(request.message) :
        part \in Behind <=> \/ part.block < request.place[1]
                            \/ part.block = request.place[1] /\ part.type # "tool" /\ part.part <= request.place[2]
BY DEF Behind

LEMMA BehindNext ==
  /\ Behind' \subseteq PartsOf(request'.message)
  /\ \A part \in PartsOf(request'.message) :
        part \in Behind' <=> \/ part.block < request'.place[1]
                             \/ part.block = request'.place[1] /\ part.type # "tool" /\ part.part <= request'.place[2]
BY DEF Behind

\* What is behind the place of an open block precedes what comes next of it.
LEMMA NextPrecedes ==
  ASSUME LlmInv, Streaming, request.open, NEW other \in Behind, NEW part \in PartsOf(request.message),
         part.block = request.place[1],
         BlockNow.kind # "tool" => part.part > request.place[2]
  PROVE  Precedes(other, part)
<1>1. /\ other.block \in Nat /\ other.part \in Nat /\ other.type = request.message[other.block].kind
      /\ part.block \in Nat /\ part.part \in Nat
  BY BehindOf, PartsTyped DEF LlmInv, LlmTyped
<1>2. BlockNow = request.message[request.place[1]] /\ request.place[2] \in Nat
  BY OpenBlock
<1>3. \/ other.block < request.place[1]
      \/ other.block = request.place[1] /\ other.type # "tool" /\ other.part <= request.place[2]
  BY BehindOf
<1> QED BY <1>1, <1>2, <1>3 DEF Precedes

\* If nothing new is behind the place and nothing new is heard, what was handed out still is.
LEMMA NothingNew ==
  ASSUME HandedOut, Behind' = Behind, heard' = heard, request'.attempt = request.attempt
  PROVE  HandedOut'
BY DEF HandedOut, PartHeard

LEMMA DeltaStep == LlmInv /\ Delta => LlmInv'
<1> SUFFICES ASSUME LlmInv, Delta PROVE LlmInv'
  OBVIOUS
<1> DEFINE b == request.place[1]
           n == request.place[2]
<1>1. /\ Streaming /\ request.open /\ n < BlockNow.parts /\ meter' = meter
      /\ request' = [request EXCEPT !.place[2] = @ + 1]
      /\ heard' = IF BlockNow.kind = "tool" THEN heard ELSE Append(heard, Event(BlockNow.kind, b, n + 1))
  BY DEF Delta
<1>2. /\ PlaceInside /\ HandedOut /\ b \in DOMAIN request.message /\ n \in Nat
      /\ request.place = <<b, n>> /\ BlockNow = request.message[b] /\ BlockNow \in BlockType
  BY <1>1, OpenBlock
<1>3. /\ request'.message = request.message /\ request'.place = <<b, n + 1>> /\ request'.open = request.open
      /\ request'.attempt = request.attempt /\ request'.kind = request.kind /\ request'.at = request.at
      /\ request'.result = request.result /\ request'.sent = request.sent
      /\ DOMAIN request' = DOMAIN request
  <2>1. DOMAIN request = {"kind", "sent", "attempt", "at", "message", "place", "open", "result", "reply"}
    BY DEF LlmInv, LlmTyped
  <2>2. [request.place EXCEPT ![2] = @ + 1] = <<b, n + 1>>
    BY <1>2
  <2>3. request'.place = [request.place EXCEPT ![2] = @ + 1]
    BY <1>1, <2>1
  <2> QED BY <1>1, <2>1, <2>2, <2>3
<1>4. request.message \in Seq(BlockType) /\ Event(BlockNow.kind, b, n + 1) \in EventType
  BY <1>2 DEF LlmInv, LlmTyped, Event, EventType, EventKinds, BlockType
<1>5. LlmTyped'
  <2>1. heard' \in Seq(EventType)
    BY <1>1, <1>4 DEF LlmInv, LlmTyped
  <2>2. request'.place \in Nat \X Nat
    BY <1>2, <1>3 DEF LlmInv, LlmTyped
  <2> QED BY <1>1, <1>3, <2>1, <2>2 DEF LlmInv, LlmTyped
<1>6. PlaceInside'
  <2>1. BlockNow.parts \in Nat
    BY <1>2 DEF BlockType
  <2> QED BY <1>1, <1>2, <1>3, <2>1 DEF PlaceInside
<1>7. \A part \in PartsOf(request.message) :
        part \in Behind' <=> \/ part.block < b
                             \/ part.block = b /\ part.type # "tool" /\ part.part <= n + 1
  BY <1>3, BehindNext
<1>8. CASE BlockNow.kind = "tool"
  <2>1. \A part \in PartsOf(request.message) : part.block = b => part.type = "tool"
    BY <1>2, <1>4, <1>8, PartsTyped
  <2>2. Behind' = Behind
    BY <1>3, <1>7, <2>1, BehindOf, BehindNext
  <2>3. HandedOut'
    BY <1>1, <1>2, <1>3, <1>8, <2>2, NothingNew
  <2> QED BY <1>1, <1>3, <1>5, <1>6, <2>3, StreamRuns
<1>9. CASE BlockNow.kind # "tool"
  <2> DEFINE new == [type |-> BlockNow.kind, block |-> b, part |-> n + 1]
  <2>1. new \in PartsOf(request.message) /\ new.block = b /\ new.part = n + 1
    <3>1. n + 1 \in PartsIn(request.message[b])
      BY <1>1, <1>2, <1>9 DEF PartsIn, BlockType
    <3> QED BY <1>2, <1>4, <3>1, BlockPart
  <2>2. Behind' = Behind \cup {new}
    <3>1. \A part \in PartsOf(request.message) : part \in Behind' <=> part \in Behind \/ part = new
      <4> SUFFICES ASSUME NEW part \in PartsOf(request.message)
                   PROVE  part \in Behind' <=> part \in Behind \/ part = new
        OBVIOUS
      <4>1. part.block = b /\ part.type # "tool" /\ part.part <= n + 1
              <=> \/ part.block = b /\ part.type # "tool" /\ part.part <= n
                  \/ part = new
        <5>1. n <= request.message[b].parts /\ n < request.message[b].parts
          BY <1>1, <1>2 DEF BlockType
        <5>2. request.message[b].kind # "tool"
          BY <1>2, <1>9
        <5> QED BY <1>2, <1>4, <5>1, <5>2, BehindMoves
      <4> QED BY <1>7, <4>1, BehindOf
    <3> QED BY <1>3, <2>1, <3>1, BehindOf, BehindNext
  <2>3. \A other \in Behind : Precedes(other, new)
    BY <1>1, <1>2, <1>9, <2>1, NextPrecedes
  <2>4. HandedOut'
    BY <1>1, <1>2, <1>3, <1>5, <1>9, <2>1, <2>2, <2>3, HandsOut DEF LlmInv
  <2> QED BY <1>1, <1>3, <1>5, <1>6, <2>4, StreamRuns
<1> QED BY <1>8, <1>9

LEMMA StopBlockStep == LlmInv /\ StopBlock => LlmInv'
<1> SUFFICES ASSUME LlmInv, StopBlock PROVE LlmInv'
  OBVIOUS
<1> DEFINE b == request.place[1]
           n == request.place[2]
           p == IF BlockNow.whole THEN BlockNow.parts ELSE 0
<1>1. /\ Streaming /\ request.open /\ n = BlockNow.parts /\ meter' = meter
      /\ request' = [request EXCEPT !.place = <<b + 1, 0>>, !.open = FALSE]
      /\ heard' = IF BlockNow.kind # "tool" THEN heard ELSE Append(heard, Event("tool", b, p))
  BY DEF StopBlock
<1>2. /\ PlaceInside /\ HandedOut /\ b \in DOMAIN request.message /\ n \in Nat
      /\ BlockNow = request.message[b] /\ BlockNow \in BlockType
  BY <1>1, OpenBlock
<1>3. /\ request'.message = request.message /\ request'.place = <<b + 1, 0>> /\ ~request'.open
      /\ request'.attempt = request.attempt /\ request'.kind = request.kind /\ request'.at = request.at
      /\ request'.result = request.result /\ request'.sent = request.sent
      /\ DOMAIN request' = DOMAIN request /\ request'.open \in BOOLEAN
  BY <1>1 DEF LlmInv, LlmTyped
<1>4. request.message \in Seq(BlockType) /\ p \in Nat /\ b \in Nat /\ Len(request.message) \in Nat
  BY <1>2 DEF LlmInv, LlmTyped, BlockType
<1>5. LlmTyped'
  <2>1. heard' \in Seq(EventType)
    <3>1. Event("tool", b, p) \in EventType
      BY <1>4 DEF LlmInv, LlmTyped, Event, EventType, EventKinds, BlockKinds
    <3> QED BY <1>1, <3>1 DEF LlmInv, LlmTyped
  <2> QED BY <1>1, <1>3, <1>4, <2>1 DEF LlmInv, LlmTyped
<1>6. PlaceInside'
  BY <1>2, <1>3, <1>4 DEF PlaceInside
<1>7. \A part \in PartsOf(request.message) :
         part \in Behind' <=> part \in Behind \/ (BlockNow.kind = "tool"
                                                /\ part = [type |-> "tool", block |-> b, part |-> p])
  <2> SUFFICES ASSUME NEW part \in PartsOf(request.message)
               PROVE  part \in Behind' <=> part \in Behind \/ (BlockNow.kind = "tool"
                                                /\ part = [type |-> "tool", block |-> b, part |-> p])
    OBVIOUS
  <2>1. n <= request.message[b].parts /\ n = request.message[b].parts
    BY <1>1, <1>2 DEF BlockType
  <2>2. (\/ part.block < b + 1
         \/ part.block = b + 1 /\ part.type # "tool" /\ part.part <= 0)
           <=> \/ part.block < b
               \/ part.block = b /\ part.type # "tool" /\ part.part <= n
               \/ request.message[b].kind = "tool"
                     /\ part = [type |-> "tool", block |-> b,
                                part |-> IF request.message[b].whole THEN n ELSE 0]
    BY <1>2, <1>4, <2>1, BehindMoves, SMTT(25)
  <2>3. part \in Behind' <=> (\/ part.block < b + 1
                              \/ part.block = b + 1 /\ part.type # "tool" /\ part.part <= 0)
    BY <1>3, BehindNext
  <2>4. p = IF request.message[b].whole THEN n ELSE 0
    BY <1>1, <1>2
  <2> QED BY <1>2, <2>2, <2>3, <2>4, BehindOf
<1>8. CASE BlockNow.kind # "tool"
  <2>1. Behind' = Behind
    BY <1>3, <1>7, <1>8, BehindOf, BehindNext
  <2>2. HandedOut'
    BY <1>1, <1>2, <1>3, <1>8, <2>1, NothingNew
  <2> QED BY <1>1, <1>3, <1>5, <1>6, <2>2, StreamRuns
<1>9. CASE BlockNow.kind = "tool"
  <2> DEFINE new == [type |-> "tool", block |-> b, part |-> p]
  <2>1. new \in PartsOf(request.message) /\ new.block = b
    <3>1. p \in PartsIn(request.message[b])
      BY <1>2, <1>9 DEF PartsIn
    <3> QED BY <1>2, <1>4, <1>9, <3>1, BlockPart
  <2>2. Behind' = Behind \cup {new}
    BY <1>3, <1>7, <1>9, <2>1, BehindOf, BehindNext
  <2>3. \A other \in Behind : Precedes(other, new)
    BY <1>1, <1>9, <2>1, NextPrecedes
  <2>4. HandedOut'
    BY <1>1, <1>2, <1>3, <1>5, <1>9, <2>1, <2>2, <2>3, HandsOut DEF LlmInv
  <2> QED BY <1>1, <1>3, <1>5, <1>6, <2>4, StreamRuns
<1> QED BY <1>8, <1>9

LEMMA RetryStep == LlmInv /\ Retry => LlmInv'
<1> SUFFICES ASSUME LlmInv, Retry PROVE LlmInv'
  OBVIOUS
<1>1. PICK error \in Errors : MayRetry(error)
  BY DEF Retry
<1>2. /\ request.at = "open" /\ request' = [request EXCEPT !.at = "ready", !.attempt = @ + 1]
      /\ heard' = heard /\ meter' = meter
  BY DEF Retry
<1>3. heard = <<>> /\ meter = <<>> /\ request.result = "none" /\ request.attempt < MaxRetries
  BY <1>1, <1>2 DEF MayRetry, LlmInv, Unfinished
<1>4. /\ request'.result = "none" /\ request'.at = "ready" /\ request'.sent = request.sent
      /\ request'.attempt = request.attempt + 1
  BY <1>2, <1>3 DEF LlmInv, LlmTyped
<1>5. LlmTyped'
  BY <1>2, <1>3, LlmAssumption DEF LlmInv, LlmTyped
<1>6. Unfinished' /\ EndsOnce'
  BY <1>2, <1>3, <1>4 DEF Unfinished, EndsOnce
<1>7. HeardIsOneMessage'
  BY <1>2, <1>3, <1>4, Silence
<1>8. FeaturesAreDeclared'
  BY <1>4 DEF LlmInv, FeaturesAreDeclared
<1> QED BY <1>5, <1>6, <1>7, <1>8 DEF LlmInv

\* What an open stream has handed out is of the message, and nothing else.
LEMMA AllSaid ==
  ASSUME LlmInv, request.at = "open"
  PROVE  DOMAIN heard = Said /\ \A i \in DOMAIN heard : heard[i].type \in BlockKinds
<1>1. ASSUME request.kind = "stream", NEW i \in DOMAIN heard PROVE heard[i].type \in BlockKinds
  <2>1. PartHeard(i) \in PartsOf(request.message)
    BY <1>1 DEF LlmInv, Unfinished, HandedOut, Behind
  <2>2. request.message \in Seq(BlockType)
    BY DEF LlmInv, LlmTyped
  <2>3. heard[i].block \in DOMAIN request.message /\ heard[i].type = request.message[heard[i].block].kind
    BY <2>1, <2>2, PartsTyped DEF PartHeard
  <2>4. request.message[heard[i].block] \in BlockType
    BY <2>2, <2>3
  <2> QED BY <2>3, <2>4 DEF BlockType
<1>2. request.kind # "stream" => heard = <<>>
  BY DEF LlmInv, Unfinished
<1>3. \A i \in DOMAIN heard : heard[i].type \in BlockKinds
  BY <1>1, <1>2
<1> QED BY <1>3 DEF Said

LEMMA FailStep == LlmInv /\ Fail => LlmInv'
<1> SUFFICES ASSUME LlmInv, Fail PROVE LlmInv'
  OBVIOUS
<1>1. PICK error \in Errors :
        /\ request' = [request EXCEPT !.at = "over", !.result = "error"]
        /\ heard' = IF request.kind = "stream" THEN Append(heard, Event("error", 0, 0)) ELSE heard
        /\ meter' = IF request.kind = "stream" \/ (request.kind = "complete" /\ error # "other")
                    THEN Append(meter, "error") ELSE meter
  BY DEF Fail
<1>2. request.at = "open" /\ meter = <<>> /\ request.result = "none"
  BY DEF Fail, LlmInv, Unfinished
<1>3. /\ request'.at = "over" /\ request'.result = "error" /\ request'.sent = request.sent
      /\ request'.message = request.message /\ request'.kind = request.kind
      /\ request'.attempt = request.attempt /\ request'.place = request.place
      /\ request'.open = request.open /\ DOMAIN request' = DOMAIN request
  BY <1>1 DEF LlmInv, LlmTyped
<1>4. Event("error", 0, 0) \in EventType /\ Event("error", 0, 0).type = "error"
  BY LlmAssumption DEF LlmInv, LlmTyped, Event, EventType, EventKinds
<1>5. LlmTyped'
  <2>1. heard' \in Seq(EventType)
    BY <1>1, <1>4 DEF LlmInv, LlmTyped
  <2>2. meter' \in Seq({"error", "refused", "ok"})
    BY <1>1 DEF LlmInv, LlmTyped
  <2> QED BY <1>3, <2>1, <2>2 DEF LlmInv, LlmTyped
<1>6. DEFINE tail == IF request.kind = "stream" THEN <<Event("error", 0, 0)>> ELSE <<>>
<1>7. tail \in Seq(EventType) /\ heard' = heard \o tail /\ \A i \in DOMAIN tail : tail[i].type \notin BlockKinds
  BY <1>1, <1>4 DEF LlmInv, LlmTyped, BlockKinds
<1>8. HeardIsOneMessage'
  BY <1>2, <1>3, <1>7, AllSaid, Ending DEF LlmInv
<1>9. Unfinished'
  BY <1>1, <1>2, <1>3 DEF LlmInv, Unfinished
<1>10. EndsOnce'
  <2>1. CASE request.kind = "stream"
    <3>1. /\ Len(heard') = Len(heard) + 1 /\ heard'[Len(heard')] = Event("error", 0, 0)
          /\ \A i \in DOMAIN heard' : i # Len(heard') => i \in DOMAIN heard /\ heard'[i] = heard[i]
          /\ heard' # <<>> /\ Last(heard') = Event("error", 0, 0)
      <4>1. heard' = Append(heard, Event("error", 0, 0)) /\ heard \in Seq(EventType)
        BY <1>1, <2>1 DEF LlmInv, LlmTyped
      <4>2. /\ Len(heard') = Len(heard) + 1 /\ heard'[Len(heard) + 1] = Event("error", 0, 0)
            /\ \A i \in 1..Len(heard) : heard'[i] = heard[i]
            /\ DOMAIN heard' = 1..(Len(heard) + 1) /\ DOMAIN heard = 1..Len(heard) /\ Len(heard) \in Nat
        BY <1>4, <4>1
      <4> QED BY <4>2 DEF Last
    <3>2. \A i \in DOMAIN heard : heard[i].type \in BlockKinds
      BY <1>2, AllSaid
    <3> QED BY <1>3, <1>4, <3>1, <3>2 DEF EndsOnce, BlockKinds
  <2>2. CASE request.kind # "stream"
    BY <1>1, <1>2, <1>3, <2>2, AllSaid DEF EndsOnce, BlockKinds
  <2> QED BY <2>1, <2>2
<1>11. FeaturesAreDeclared'
  BY <1>3 DEF LlmInv, FeaturesAreDeclared
<1> QED BY <1>5, <1>8, <1>9, <1>10, <1>11 DEF LlmInv

LEMMA AbandonStep == LlmInv /\ Abandon => LlmInv'
<1> SUFFICES ASSUME LlmInv, Abandon PROVE LlmInv'
  OBVIOUS
<1>1. /\ request.at = "open" /\ request.kind = "stream" /\ heard' = heard /\ meter' = meter
      /\ request' = [request EXCEPT !.at = "closed"]
  BY DEF Abandon
<1>2. LlmTyped' /\ request'.at = "closed"
  BY <1>1 DEF LlmInv, LlmTyped
<1>3. /\ request'.result = request.result /\ request'.sent = request.sent /\ request'.reply = request.reply
      /\ request'.message = request.message /\ request'.kind = request.kind
  BY <1>1 DEF LlmInv, LlmTyped
<1>4. Unfinished' /\ EndsOnce' /\ FeaturesAreDeclared'
  BY <1>1, <1>2, <1>3 DEF LlmInv, Unfinished, EndsOnce, FeaturesAreDeclared
<1>5. HeardIsOneMessage'
  BY <1>1, <1>3 DEF LlmInv, HeardIsOneMessage, Said, PartHeard
<1> QED BY <1>2, <1>4, <1>5 DEF LlmInv

LEMMA OneThenTwo ==
  ASSUME NEW S, NEW x \in S, NEW y \in S, NEW z \in S
  PROVE  <<x>> \o <<y, z>> = <<x, y, z>>
<1> DEFINE joined == <<x>> \o <<y, z>>
           listed == <<x, y, z>>
<1>1. joined \in Seq(S) /\ Len(joined) = 3 /\ listed \in Seq(S) /\ Len(listed) = 3
  OBVIOUS
<1>2. joined[1] = x /\ joined[2] = y /\ joined[3] = z
  OBVIOUS
<1>3. \A i \in 1..3 : joined[i] = listed[i]
  <2>1. \A i \in 1..3 : i = 1 \/ i = 2 \/ i = 3
    OBVIOUS
  <2> QED BY <1>2, <2>1
<1> HIDE DEF joined, listed
<1>4. joined = listed
  BY <1>1, <1>3, SeqEqual
<1> QED BY <1>4 DEF joined, listed

LEMMA CompleteStep == LlmInv /\ Complete => LlmInv'
<1> SUFFICES ASSUME LlmInv, Complete PROVE LlmInv'
  OBVIOUS
<1>1. PICK refused \in BOOLEAN : \E result \in ResultsOf(request.kind, refused) :
          /\ request' = [request EXCEPT !.at = "over", !.result = result, !.reply = Reply(refused)]
          /\ heard' = IF request.kind # "stream" THEN heard
                      ELSE heard \o (IF refused THEN <<Event("refusal", 0, 0)>> ELSE <<>>)
                                 \o <<Event("usage", 0, 0), Event("done", 0, 0)>>
          /\ meter' = Append(meter, IF refused THEN "refused" ELSE "ok")
  BY DEF Complete
<1>2. PICK result \in ResultsOf(request.kind, refused) :
        request' = [request EXCEPT !.at = "over", !.result = result, !.reply = Reply(refused)]
  BY <1>1
<1>3. request.at = "open" /\ meter = <<>> /\ heard \in Seq(EventType)
  BY DEF Complete, LlmInv, LlmTyped, Unfinished
<1>4. /\ request'.at = "over" /\ request'.result = result /\ request'.sent = request.sent
      /\ request'.message = request.message /\ request'.kind = request.kind
      /\ request'.attempt = request.attempt /\ request'.place = request.place
      /\ request'.open = request.open /\ DOMAIN request' = DOMAIN request
      /\ request'.reply = Reply(refused)
  BY <1>2 DEF LlmInv, LlmTyped
<1>5. result \in {"answer", "refusal", "garbled", "first", "label"}
  BY DEF ResultsOf
<1>6. meter' = <<IF refused THEN "refused" ELSE "ok">> /\ meter' \in Seq({"error", "refused", "ok"})
  BY <1>1, <1>3
<1>7. \A type \in EventKinds : Event(type, 0, 0) \in EventType /\ Event(type, 0, 0).type = type
  BY LlmAssumption DEF LlmInv, LlmTyped, Event, EventType
<1>8. request'.reply.refused = refused
  BY <1>4 DEF Reply
<1>9. FeaturesAreDeclared' /\ Unfinished'
  BY <1>1, <1>4 DEF LlmInv, FeaturesAreDeclared, Unfinished
<1>10. CASE request.kind # "stream"
  <2>1. heard' = heard /\ heard = <<>>
    BY <1>1, <1>10 DEF LlmInv, Unfinished
  <2>2. LlmTyped'
    BY <1>4, <1>5, <1>6, <2>1 DEF LlmInv, LlmTyped
  <2>3. HeardIsOneMessage'
    BY <1>4, <1>10, <2>1 DEF HeardIsOneMessage, Said
  <2>4. EndsOnce'
    BY <1>4, <1>6, <1>8, <1>10, <2>1 DEF EndsOnce
  <2> QED BY <1>9, <2>2, <2>3, <2>4 DEF LlmInv
<1>11. CASE request.kind = "stream"
  <2> DEFINE tail == IF refused
                     THEN <<Event("refusal", 0, 0), Event("usage", 0, 0), Event("done", 0, 0)>>
                     ELSE <<Event("usage", 0, 0), Event("done", 0, 0)>>
  <2>1. /\ Event("refusal", 0, 0) \in EventType /\ Event("usage", 0, 0) \in EventType
        /\ Event("done", 0, 0) \in EventType /\ Event("refusal", 0, 0).type = "refusal"
        /\ Event("usage", 0, 0).type = "usage" /\ Event("done", 0, 0).type = "done"
    BY <1>7 DEF EventKinds
  <2>2. tail \in Seq(EventType) /\ Len(tail) \in {2, 3}
    BY <2>1
  <2>3. heard' = heard \o tail
    <3>1. heard \o (IF refused THEN <<Event("refusal", 0, 0)>> ELSE <<>>)
                \o <<Event("usage", 0, 0), Event("done", 0, 0)>> = heard \o tail
      <4> DEFINE first == IF refused THEN <<Event("refusal", 0, 0)>> ELSE <<>>
                 last  == <<Event("usage", 0, 0), Event("done", 0, 0)>>
      <4>1. first \in Seq(EventType) /\ last \in Seq(EventType)
        BY <2>1
      <4>2. first \o last = tail
        <5>1. CASE refused
          BY <2>1, <5>1, OneThenTwo
        <5>2. CASE ~refused
          <6>1. \A y, z : <<>> \o <<y, z>> = <<y, z>>
            OBVIOUS
          <6> QED BY <5>2, <6>1
        <5> QED BY <5>1, <5>2
      <4> HIDE DEF first, last, tail
      <4>3. heard \o first \o last = heard \o (first \o last)
        BY <1>3, <4>1, ConcatAssociative
      <4>4. heard \o first \o last = heard \o tail
        BY <4>2, <4>3
      <4> QED BY <4>4 DEF first, last
    <3> QED BY <1>1, <1>11, <3>1
  <2>4. \A i \in DOMAIN tail : tail[i].type \in {"refusal", "usage", "done"} /\ (tail[i].type = "done" <=> i = Len(tail))
    BY <2>1
  <2> HIDE DEF tail
  <2>5. LlmTyped'
    <3>1. heard' \in Seq(EventType)
      BY <1>3, <2>2, <2>3
    <3> QED BY <1>4, <1>5, <1>6, <3>1 DEF LlmInv, LlmTyped
  <2>6. \A part \in PartsOf(request.message) : \E i \in Said : PartHeard(i) = part
    <3>1. PlaceInside /\ HandedOut /\ request.place[1] > Len(request.message)
      BY <1>3, <1>11 DEF Complete, LlmInv, Unfinished
    <3>2. \A part \in PartsOf(request.message) : part \in Behind
      <4> SUFFICES ASSUME NEW part \in PartsOf(request.message) PROVE part \in Behind
        OBVIOUS
      <4>1. part.block \in DOMAIN request.message /\ request.message \in Seq(BlockType)
            /\ request.place[1] \in Nat
        BY PartsTyped DEF LlmInv, LlmTyped
      <4>2. part.block < request.place[1]
        BY <3>1, <4>1
      <4> QED BY <4>2, BehindOf
    <3> QED BY <1>3, <3>1, <3>2, AllSaid DEF HandedOut
  <2>7. HeardIsOneMessage'
    <3>1. \A i \in DOMAIN tail : tail[i].type \notin BlockKinds
      BY <2>4 DEF BlockKinds
    <3> QED BY <1>3, <1>4, <2>2, <2>3, <2>6, <3>1, AllSaid, Ending DEF LlmInv
  <2>8. EndsOnce'
    <3>1. /\ Len(heard') = Len(heard) + Len(tail) /\ Len(tail) \in Nat /\ Len(heard) \in Nat
          /\ \A i \in DOMAIN heard' : heard'[i] = IF i <= Len(heard) THEN heard[i] ELSE tail[i - Len(heard)]
          /\ DOMAIN heard' = 1..Len(heard') /\ DOMAIN tail = 1..Len(tail) /\ DOMAIN heard = 1..Len(heard)
      BY <1>3, <2>2, <2>3
    <3>2. \A i \in DOMAIN heard : heard[i].type \in BlockKinds
      BY <1>3, AllSaid
    <3>3. ASSUME NEW i \in DOMAIN heard', heard'[i].type \in {"done", "error"} PROVE i = Len(heard')
      <4>1. i > Len(heard)
        BY <3>1, <3>2, <3>3 DEF BlockKinds
      <4>2. heard'[i] = tail[i - Len(heard)] /\ i - Len(heard) \in DOMAIN tail
        BY <3>1, <4>1
      <4>3. i - Len(heard) = Len(tail)
        BY <2>4, <3>3, <4>2
      <4> QED BY <3>1, <4>3
    <3>4. heard' # <<>> /\ Last(heard').type = "done"
      <4>1. Len(heard') \in DOMAIN heard' /\ heard'[Len(heard')] = tail[Len(tail)] /\ Len(tail) \in DOMAIN tail
        BY <2>2, <3>1
      <4>2. tail[Len(tail)].type = "done"
        BY <2>4, <4>1
      <4> QED BY <4>1, <4>2 DEF Last
    <3> QED BY <1>6, <1>8, <3>3, <3>4 DEF EndsOnce
  <2> QED BY <1>9, <2>5, <2>7, <2>8 DEF LlmInv
<1> QED BY <1>10, <1>11

\* What a reader hears of the model is one message, a call ends once and is metered for what it
\* was, and what it uses is declared (CallIsOneAnswer; LLMClient.stream, complete, structured,
\* classify), for any messages and any number of attempts.
THEOREM OneCallOneAnswer == LlmSpec => []CallIsOneAnswer
<1>1. LlmInit => LlmInv
  BY LlmInitInv
<1>2. LlmInv /\ [LlmNext]_llmVars => LlmInv'
  <2>1. LlmInv /\ UNCHANGED llmVars => LlmInv'
    BY DEF llmVars, LlmInv, LlmTyped, Unfinished, PlaceInside, HandedOut, Behind, HeardIsOneMessage, Said,
           PartHeard, EndsOnce, FeaturesAreDeclared
  <2> QED BY <2>1, BeginStep, StartBlockStep, DeltaStep, StopBlockStep, RetryStep, FailStep, AbandonStep,
             CompleteStep DEF LlmNext
<1>3. LlmInv => CallIsOneAnswer
  BY DEF LlmInv, CallIsOneAnswer
<1> QED BY <1>1, <1>2, <1>3, PTL DEF LlmSpec

-----------------------------------------------------------------------------
(* The packing of the prompt: sums of tokens. *)

\* The sums of the first tokens, one by one.
Sums(u, tokens) ==
    /\ u \in [0..Len(tokens) -> Int] /\ u[0] = 0 /\ u[Len(tokens)] = Total(tokens)
    /\ \A i \in 1..Len(tokens) : u[i] = u[i - 1] + tokens[i]

LEMMA TotalFacts ==
    ASSUME NEW tokens \in Seq(Int)
    PROVE  Total(tokens) \in Int /\ \E u : Sums(u, tokens)
<1> DEFINE n == Len(tokens)
           Level(f) == f = [i \in 0..n |-> IF i = 0 THEN 0 ELSE f[i - 1] + tokens[i]]
           step == [i \in 1..n |-> [v \in Int |-> v + tokens[i]]]
<1>1. n \in Nat /\ \A i \in 1..n : tokens[i] \in Int
  OBVIOUS
<1> HIDE DEF n
<1>2. PICK f \in [0..n -> Int] : f[0] = 0 /\ \A i \in 1..n : f[i] = f[i - 1] + tokens[i]
  <2>1. step \in StepsOf(n, Int)
    BY <1>1 DEF StepsOf
  <2>2. \A i \in 1..n, v \in Int : step[i][v] = v + tokens[i]
    OBVIOUS
  <2> HIDE DEF step
  <2>3. PICK f \in [0..n -> Int] : f[0] = 0 /\ \A i \in 1..n : f[i] = step[i][f[i - 1]]
    <3>1. n \in Nat /\ 0 \in Int
      BY <1>1
    <3>2. PICK V : V = Int
      OBVIOUS
    <3>3. n \in Nat /\ 0 \in V /\ step \in StepsOf(n, V)
      BY <2>1, <3>1, <3>2
    <3>4. \E f \in [0..n -> V] : f[0] = 0 /\ \A i \in 1..n : f[i] = step[i][f[i - 1]]
      BY <3>3, Recursion, Z3
    <3> QED
      BY <3>2, <3>4
  <2>4. ASSUME NEW i \in 1..n PROVE f[i] = f[i - 1] + tokens[i]
    <3>1. i - 1 \in 0..n
      BY <1>1
    <3>2. f[i - 1] \in Int
      BY <3>1
    <3> QED
      BY <2>2, <2>3, <3>2
  <2> QED
    BY <2>3, <2>4
<1>3. Level(f)
  <2>1. f = [i \in 0..n |-> f[i]]
    OBVIOUS
  <2>2. \A i \in 0..n : f[i] = IF i = 0 THEN 0 ELSE f[i - 1] + tokens[i]
    BY <1>1, <1>2
  <2> QED
    BY <2>1, <2>2
<1> DEFINE r == CHOOSE g : Level(g)
<1>4. Level(r)
  BY <1>3
<1>5. Total(tokens) = r[n]
  BY Zenon DEF Total, n
<1> HIDE DEF r
<1>6. r[0] = 0 /\ \A i \in 1..n : r[i] = r[i - 1] + tokens[i]
  BY <1>1, <1>4
<1> DEFINE Good == {k \in Nat : k <= n => r[k] = f[k]}
<1>7. Good = Nat
  <2>1. 0 \in Good
    BY <1>2, <1>6
  <2>2. ASSUME NEW k \in Good PROVE k + 1 \in Good
    <3> SUFFICES ASSUME k + 1 <= n PROVE r[k + 1] = f[k + 1]
      OBVIOUS
    <3>1. k + 1 \in 1..n /\ (k + 1) - 1 = k /\ r[k] = f[k]
      BY <1>1
    <3> QED
      BY <1>2, <1>6, <3>1
  <2> QED
    BY <2>1, <2>2, SetInduction
<1>8. \A k \in 0..n : k \in Nat /\ k <= n
  BY <1>1
<1>9. \A k \in 0..n : r[k] = f[k]
  BY <1>7, <1>8
<1>10. n \in 0..n
  BY <1>1
<1>11. Sums(f, tokens)
  <2>1. f[n] = Total(tokens)
    BY <1>5, <1>9, <1>10
  <2> QED
    BY <1>2, <2>1 DEF Sums, n
<1> QED
  BY <1>5, <1>9, <1>10, <1>11

\* Two lists that differ in one place differ by that much.
LEMMA TotalLess ==
    ASSUME NEW s \in Seq(Int), NEW t \in Seq(Int), Len(s) = Len(t), NEW k \in DOMAIN s,
           \A j \in DOMAIN s : j # k => t[j] = s[j]
    PROVE  Total(t) = Total(s) - s[k] + t[k]
<1>1. PICK u, v : Sums(u, s) /\ Sums(v, t)
  BY TotalFacts
<1>2. PICK n \in Nat : n = Len(s)
  OBVIOUS
<1>3. /\ u \in [0..n -> Int] /\ u[0] = 0 /\ u[n] = Total(s) /\ \A i \in 1..n : u[i] = u[i - 1] + s[i]
      /\ v \in [0..n -> Int] /\ v[0] = 0 /\ v[n] = Total(t) /\ \A i \in 1..n : v[i] = v[i - 1] + t[i]
      /\ k \in 1..n /\ \A i \in 1..n : s[i] \in Int /\ t[i] \in Int /\ (i # k => t[i] = s[i])
  <2>1. Len(s) = n /\ Len(t) = n /\ DOMAIN s = 1..n /\ DOMAIN t = 1..n
    BY <1>2
  <2>2. \A i \in 1..n : s[i] \in Int /\ t[i] \in Int
    BY <2>1
  <2> QED
    BY <1>1, <2>1, <2>2 DEF Sums
<1> DEFINE Good == {m \in Nat : m <= n => v[m] = IF m < k THEN u[m] ELSE u[m] - s[k] + t[k]}
<1>4. Good = Nat
  <2>1. 0 \in Good
    BY <1>2, <1>3
  <2>2. ASSUME NEW m \in Good PROVE m + 1 \in Good
    <3> SUFFICES ASSUME m + 1 <= n PROVE v[m + 1] = IF m + 1 < k THEN u[m + 1] ELSE u[m + 1] - s[k] + t[k]
      OBVIOUS
    <3>1. PICK a \in Int, b \in Int, c \in Int, d \in Int, x \in Int, y \in Int :
            /\ a = u[m] /\ b = v[m] /\ c = s[m + 1] /\ d = t[m + 1] /\ x = s[k] /\ y = t[k]
            /\ u[m + 1] = a + c /\ v[m + 1] = b + d /\ b = IF m < k THEN a ELSE a - x + y
      <4>1. m \in 0..n /\ m + 1 \in 1..n /\ (m + 1) - 1 = m /\ m <= n
        BY <1>2
      <4>2. u[m] \in Int /\ v[m] \in Int /\ s[m + 1] \in Int /\ t[m + 1] \in Int /\ s[k] \in Int /\ t[k] \in Int
        BY <1>3, <4>1
      <4>3. u[m + 1] = u[m] + s[m + 1] /\ v[m + 1] = v[m] + t[m + 1]
        BY <1>3, <4>1
      <4>4. v[m] = IF m < k THEN u[m] ELSE u[m] - s[k] + t[k]
        BY <4>1
      <4> QED
        BY <4>2, <4>3, <4>4
    <3>2. k \in Nat /\ m \in Nat
      BY <1>2, <1>3
    <3>3. CASE m + 1 = k
      <4>1. c = x /\ d = y /\ b = a
        BY <3>1, <3>2, <3>3
      <4> QED
        BY <3>1, <3>2, <3>3, <4>1
    <3>4. CASE m + 1 # k
      <4>1. m + 1 \in 1..n
        BY <1>2
      <4>2. c = d
        BY <1>3, <3>1, <3>4, <4>1
      <4>3. CASE m < k
        <5>1. m + 1 < k /\ b = a
          BY <3>1, <3>2, <3>4, <4>3
        <5>2. v[m + 1] = a + c /\ u[m + 1] = a + c
          BY <3>1, <4>2, <5>1
        <5> QED
          BY <5>1, <5>2
      <4>4. CASE ~(m < k)
        <5>1. ~(m + 1 < k) /\ b = a - x + y
          BY <3>1, <3>2, <4>4
        <5>2. v[m + 1] = (a - x + y) + c
          BY <3>1, <4>2, <5>1, Zenon
        <5>3. (a - x + y) + c = (a + c) - x + y
          OBVIOUS
        <5>4. u[m + 1] - s[k] + t[k] = (a + c) - x + y
          BY <3>1
        <5> QED
          BY <5>1, <5>2, <5>3, <5>4
      <4> QED
        BY <4>3, <4>4
    <3> QED
      BY <3>3, <3>4
  <2> QED
    BY <2>1, <2>2, SetInduction
<1>5. v[n] = u[n] - s[k] + t[k]
  <2>1. n \in Good /\ n <= n /\ ~(n < k)
    BY <1>2, <1>3, <1>4, SMTT(25)
  <2> QED
    BY <2>1
<1> QED
  BY <1>3, <1>5

\* What is left when place k is taken out.
Without(t, s, k) ==
    /\ Len(t) = Len(s) - 1 /\ \A j \in DOMAIN t : t[j] = IF j < k THEN s[j] ELSE s[j + 1]

LEMMA TotalWithout ==
    ASSUME NEW s \in Seq(Int), NEW t \in Seq(Int), NEW k \in DOMAIN s, Without(t, s, k)
    PROVE  Total(t) = Total(s) - s[k]
<1>1. PICK u, v : Sums(u, s) /\ Sums(v, t)
  BY TotalFacts
<1>2. PICK n \in Nat : n = Len(s) /\ n - 1 = Len(t) /\ n - 1 \in Nat /\ k \in 1..n
  BY DEF Without
<1>3. /\ u \in [0..n -> Int] /\ u[0] = 0 /\ u[n] = Total(s) /\ \A i \in 1..n : u[i] = u[i - 1] + s[i]
      /\ v \in [0..n - 1 -> Int] /\ v[0] = 0 /\ v[n - 1] = Total(t) /\ \A i \in 1..n - 1 : v[i] = v[i - 1] + t[i]
      /\ \A i \in 1..n : s[i] \in Int
      /\ \A i \in 1..n - 1 : t[i] = IF i < k THEN s[i] ELSE s[i + 1]
  <2>1. Len(s) = n /\ Len(t) = n - 1 /\ DOMAIN s = 1..n /\ DOMAIN t = 1..n - 1
    BY <1>2
  <2>2. \A i \in 1..n : s[i] \in Int
    BY <2>1
  <2>3. \A i \in 1..n - 1 : t[i] = IF i < k THEN s[i] ELSE s[i + 1]
    BY <2>1 DEF Without
  <2>4. /\ u \in [0..n -> Int] /\ u[0] = 0 /\ u[n] = Total(s) /\ \A i \in 1..n : u[i] = u[i - 1] + s[i]
    BY <1>1, <2>1 DEF Sums
  <2>5. /\ v \in [0..n - 1 -> Int] /\ v[0] = 0 /\ v[n - 1] = Total(t) /\ \A i \in 1..n - 1 : v[i] = v[i - 1] + t[i]
    BY <1>1, <2>1 DEF Sums
  <2> QED
    BY <1>2, <2>2, <2>3, <2>4, <2>5
<1> DEFINE Good == {m \in Nat : m <= n - 1 => v[m] = IF m < k THEN u[m] ELSE u[m + 1] - s[k]}
<1>4. Good = Nat
  <2>1. 0 \in Good
    BY <1>2, <1>3
  <2>2. ASSUME NEW m \in Good PROVE m + 1 \in Good
    <3> SUFFICES ASSUME m + 1 <= n - 1 PROVE v[m + 1] = IF m + 1 < k THEN u[m + 1] ELSE u[(m + 1) + 1] - s[k]
      OBVIOUS
    <3>1. m \in 0..n /\ m + 1 \in 1..n /\ m + 2 \in 1..n /\ m + 1 \in 1..n - 1 /\ (m + 1) - 1 = m /\ (m + 2) - 1 = m + 1
          /\ (m + 1) + 1 = m + 2 /\ m + 1 \in 0..n /\ m + 2 \in 0..n /\ m <= n - 1
      BY <1>2
    <3>2. PICK a \in Int, b \in Int, x \in Int, y \in Int, z \in Int :
            a = u[m] /\ b = u[m + 1] /\ x = s[m + 1] /\ y = s[m + 2] /\ z = s[k]
      BY <1>2, <1>3, <3>1
    <3>3. b = a + x /\ u[m + 2] = b + y
      BY <1>3, <3>1, <3>2
    <3>4. v[m] = IF m < k THEN a ELSE b - z
      BY <3>1, <3>2
    <3>5. v[m + 1] = v[m] + (IF m + 1 < k THEN x ELSE y)
      BY <1>3, <3>1, <3>2
    <3>6. k \in Nat /\ m \in Nat /\ u[(m + 1) + 1] = b + y /\ u[m + 1] = b
      BY <1>2, <3>1, <3>2, <3>3
    <3>7. CASE m + 1 < k
      <4>1. v[m] = a /\ v[m + 1] = a + x
        BY <3>4, <3>5, <3>6, <3>7
      <4> QED
        BY <3>3, <3>6, <3>7, <4>1
    <3>8. CASE m + 1 = k
      <4>1. x = z
        BY <3>2, <3>8
      <4>2. v[m] = a /\ v[m + 1] = a + y
        BY <3>4, <3>5, <3>6, <3>8
      <4>3. ~(m + 1 < k) /\ u[(m + 1) + 1] - s[k] = (b + y) - z
        BY <3>2, <3>6, <3>8
      <4>4. (b + y) - z = a + y
        BY <3>2, <3>3, <4>1, SMTT(25)
      <4> QED
        BY <4>2, <4>3, <4>4
    <3>9. CASE m + 1 > k
      <4>1. v[m] = b - z /\ v[m + 1] = (b - z) + y
        BY <3>4, <3>5, <3>6, <3>9
      <4>2. ~(m + 1 < k) /\ u[(m + 1) + 1] - s[k] = (b + y) - z
        BY <3>2, <3>6, <3>9
      <4> QED
        BY <3>2, <4>1, <4>2
    <3> QED
      BY <3>6, <3>7, <3>8, <3>9
  <2> QED
    BY <2>1, <2>2, SetInduction
<1>5. v[n - 1] = IF n - 1 < k THEN u[n - 1] ELSE u[n] - s[k]
  <2>1. n - 1 \in Good
    BY <1>2, <1>4
  <2>2. (n - 1) + 1 = n /\ n - 1 <= n - 1
    BY <1>2
  <2>3. v[n - 1] = IF n - 1 < k THEN u[n - 1] ELSE u[(n - 1) + 1] - s[k]
    BY <2>1, <2>2
  <2> QED
    BY <2>2, <2>3
<1>6. n - 1 \in 0..n /\ n \in 1..n /\ u[n] = u[n - 1] + s[n] /\ u[n - 1] \in Int /\ s[n] \in Int /\ s[k] \in Int
  <2>1. n - 1 \in 0..n /\ n \in 1..n
    BY <1>2
  <2> QED
    BY <1>2, <1>3, <2>1
<1>7. CASE k = n
  BY <1>2, <1>3, <1>5, <1>6, <1>7
<1>8. CASE k # n
  BY <1>2, <1>3, <1>5, <1>6, <1>8
<1> QED
  BY <1>7, <1>8

\* RemoveAt takes one place out.
LEMMA RemoveFacts ==
    ASSUME NEW V, NEW s \in Seq(V), NEW k \in DOMAIN s
    PROVE  /\ RemoveAt(s, k) \in Seq(V) /\ Without(RemoveAt(s, k), s, k)
           /\ DOMAIN RemoveAt(s, k) = 1..Len(s) - 1
<1>1. PICK n \in Nat : n = Len(s) /\ k \in 1..n /\ n - 1 \in Nat /\ k - 1 \in 0..n /\ n - k \in Nat
  OBVIOUS
<1>2. PICK a, b : a = SubSeq(s, 1, k - 1) /\ b = SubSeq(s, k + 1, n)
  OBVIOUS
<1>3. /\ a \in Seq(V) /\ Len(a) = k - 1 /\ \A j \in 1..k - 1 : a[j] = s[j]
  <2>1. 1 \in Int /\ k - 1 \in Int /\ (k - 1) - 1 + 1 = k - 1 /\ (1 > k - 1 => k - 1 = 0)
        /\ \A i \in 1..k - 1 : s[i] \in V /\ 1 + i - 1 = i
    BY <1>1
  <2>2. /\ a \in Seq(V) /\ Len(a) = (IF 1 <= k - 1 THEN (k - 1) - 1 + 1 ELSE 0)
        /\ \A i \in 1..(k - 1) - 1 + 1 : a[i] = s[1 + i - 1]
    BY <1>2, <2>1, SubSeqProperties
  <2> QED
    BY <1>1, <2>1, <2>2
<1>4. /\ b \in Seq(V) /\ Len(b) = n - k /\ \A i \in 1..n - k : b[i] = s[k + i]
  <2>1. k + 1 \in Int /\ n \in Int /\ n - (k + 1) + 1 = n - k /\ (k + 1 > n => n - k = 0)
        /\ \A i \in k + 1..n : s[i] \in V
    BY <1>1
  <2>2. \A i \in 1..n - k : (k + 1) + i - 1 = k + i
    BY <1>1
  <2>3. /\ b \in Seq(V) /\ Len(b) = (IF k + 1 <= n THEN n - (k + 1) + 1 ELSE 0)
        /\ \A i \in 1..n - (k + 1) + 1 : b[i] = s[(k + 1) + i - 1]
    BY <1>2, <2>1, SubSeqProperties
  <2> QED
    BY <1>1, <2>1, <2>2, <2>3
<1>5. PICK r : r = a \o b
  OBVIOUS
<1>6. /\ r = RemoveAt(s, k) /\ r \in Seq(V) /\ Len(r) = n - 1 /\ DOMAIN r = 1..n - 1
      /\ \A j \in 1..n - 1 : r[j] = IF j < k THEN a[j] ELSE b[j - k + 1]
  <2>1. r = RemoveAt(s, k)
    BY <1>1, <1>2, <1>5 DEF RemoveAt
  <2>2. r \in Seq(V) /\ Len(r) = Len(a) + Len(b)
    BY <1>3, <1>4, <1>5, ConcatProperties
  <2>3. Len(a) + Len(b) = n - 1 /\ Len(a) \in Nat
    BY <1>1, <1>3, <1>4
  <2>4. \A j \in 1..Len(a) + Len(b) : r[j] = IF j <= Len(a) THEN a[j] ELSE b[j - Len(a)]
    BY <1>3, <1>4, <1>5, ConcatProperties
  <2>5. \A j \in 1..n - 1 : (j <= k - 1 <=> j < k) /\ j - (k - 1) = j - k + 1
    BY <1>1
  <2>6. Len(r) = n - 1 /\ DOMAIN r = 1..n - 1
    BY <2>2, <2>3
  <2>7. \A j \in 1..n - 1 : r[j] = IF j <= k - 1 THEN a[j] ELSE b[j - (k - 1)]
    BY <1>3, <2>3, <2>4
  <2> QED
    BY <2>1, <2>2, <2>5, <2>6, <2>7
<1>7. ASSUME NEW j \in 1..n - 1 PROVE r[j] = IF j < k THEN s[j] ELSE s[j + 1]
  <2>1. CASE j < k
    <3>1. j \in 1..k - 1
      BY <1>1, <2>1
    <3> QED
      BY <1>3, <1>6, <2>1, <3>1
  <2>2. CASE ~(j < k)
    <3>1. j - k + 1 \in 1..n - k /\ k + (j - k + 1) = j + 1
      BY <1>1, <2>2
    <3>2. b[j - k + 1] = s[k + (j - k + 1)]
      BY <1>4, <3>1
    <3> QED
      BY <1>6, <2>2, <3>1, <3>2
  <2> QED
    BY <2>1, <2>2
<1> QED
  BY <1>1, <1>6, <1>7 DEF Without

-----------------------------------------------------------------------------
(* The packing of the prompt: the chunks and their order. *)

\* Products keep the order of their factors.
LEMMA Times ==
    ASSUME NEW x \in Int, NEW y \in Int, NEW z \in Nat \ {0}
    PROVE  (x > y => x * z > y * z) /\ (x * z > y * z => x > y) /\ (x * z = y * z => x = y)
<1>1. ASSUME NEW a \in Int, NEW b \in Int, a > b PROVE a * z > b * z
  <2>1. PICK d \in Nat : a = b + d /\ d > 0
    BY <1>1
  <2>2. a * z = b * z + d * z
    BY <2>1, SMT
  <2>3. d * z > 0
    BY <2>1, SMT
  <2>4. a * z \in Int /\ b * z \in Int /\ d * z \in Int
    BY <2>1
  <2> QED
    BY <2>2, <2>3, <2>4
<1>2. x > y \/ y > x \/ x = y
  OBVIOUS
<1>3. x * z \in Int /\ y * z \in Int
  OBVIOUS
<1>4. (x > y => x * z > y * z) /\ (y > x => y * z > x * z)
  BY <1>1
<1> QED
  BY <1>2, <1>3, <1>4

\* Fractions u / a, v / b and w / c, by products.
LEMMA Fractions ==
    ASSUME NEW u \in Nat, NEW v \in Nat, NEW w \in Nat,
           NEW a \in Nat \ {0}, NEW b \in Nat \ {0}, NEW c \in Nat \ {0},
           u * b >= v * a, v * c >= w * b
    PROVE  /\ u * c >= w * a
           /\ u * b > v * a \/ v * c > w * b => u * c > w * a
           /\ u * c = w * a => u * b = v * a /\ v * c = w * b
<1> DEFINE p == u * b
           q == v * a
           r == v * c
           s == w * b
           e == u * c
           f == w * a
<1>1. p \in Int /\ q \in Int /\ r \in Int /\ s \in Int /\ e \in Int /\ f \in Int /\ p >= q /\ r >= s
  OBVIOUS
<1>2. p * c = e * b /\ q * c = r * a /\ s * a = f * b
  BY SMT
<1> HIDE DEF p, q, r, s, e, f
<1>3. p * c \in Int /\ q * c \in Int /\ r * a \in Int /\ s * a \in Int /\ e * b \in Int /\ f * b \in Int
  BY <1>1
<1>4. (p > q => p * c > q * c) /\ (r > s => r * a > s * a)
  BY <1>1, Times
<1>5. (p = q => p * c = q * c) /\ (r = s => r * a = s * a)
  OBVIOUS
<1>6. (e * b > f * b => e > f) /\ (e * b = f * b => e = f)
  BY <1>1, Times
<1>7. e * b >= f * b /\ (p > q \/ r > s => e * b > f * b)
  BY <1>1, <1>2, <1>3, <1>4, <1>5
<1>8. e >= f /\ (p > q \/ r > s => e > f)
  BY <1>1, <1>3, <1>6, <1>7
<1>9. e = f => p = q /\ r = s
  BY <1>1, <1>8
<1> QED
  BY <1>8, <1>9 DEF p, q, r, s, e, f

LEMMA PackNumbers ==
    /\ MaxChunks \in Nat /\ PromptBudget \in Nat /\ RetrievedBudget \in Nat /\ MemoryBudget \in Nat
    /\ SummaryBudget \in Nat /\ FixedTokens \in Nat /\ MinChunks \in Nat /\ MinTurns \in Nat /\ FitPasses \in Nat
    /\ Summaries \subseteq [tokens : Nat, exact : Nat] /\ Overheads \subseteq Int
  BY PackAssumption DEF PackAssumption

LEMMA ChunkFacts ==
    ASSUME NEW c \in Chunk
    PROVE  /\ c.tokens \in Nat \ {0} /\ c.exact \in Nat /\ c.score \in Nat /\ c.rank \in Nat /\ Value(c) \in Nat
<1>1. PICK k \in ChunkKinds, l \in ChunkKinds, m \in ChunkKinds :
        c.tokens = k.tokens /\ c.score = l.score /\ c.exact = m.exact /\ c.rank \in 1..MaxChunks
  BY DEF Chunk
<1>2. k.tokens \in Nat \ {0} /\ l.score \in Nat /\ m.exact \in Nat
  BY PackAssumption DEF PackAssumption
<1> QED
  BY <1>1, <1>2, PackNumbers DEF Value

\* No two chunks have the same rank.
Distinct(S) == \A c, d \in S : c.rank = d.rank => c = d

\* The orders by density, from either end, and by rank.
Density  == {p \in Chunk \X Chunk : Denser(p[1], p[2])}
Weakness == {p \in Chunk \X Chunk : Weaker(p[2], p[1])}
Ranking  == {p \in Chunk \X Chunk : p[1].rank < p[2].rank}

LEMMA RankingTotal == ASSUME NEW S \in SUBSET Chunk, Distinct(S) PROVE TotalOrder(Ranking, S)
<1>1. \A c, d \in S : <<c, d>> \in Ranking <=> c.rank < d.rank
  BY DEF Ranking
<1>2. \A c \in S : c.rank \in Nat
  BY ChunkFacts
<1>3. \A c, d \in S : c # d => c.rank # d.rank
  BY DEF Distinct
<1> QED
  BY <1>1, <1>2, <1>3 DEF TotalOrder

LEMMA DensityTotal == ASSUME NEW S \in SUBSET Chunk, Distinct(S) PROVE TotalOrder(Density, S) /\ TotalOrder(Weakness, S)
<1>1. /\ \A c, d \in S : <<c, d>> \in Density <=> Denser(c, d)
      /\ \A c, d \in S : <<c, d>> \in Weakness <=> Weaker(d, c)
  BY DEF Density, Weakness
<1>2. \A c \in S : c.tokens \in Nat \ {0} /\ c.rank \in Nat /\ Value(c) \in Nat
  BY ChunkFacts
<1>3. \A c, d \in S : c # d => c.rank # d.rank
  BY DEF Distinct
<1>4. \A c, d \in S : Value(c) * d.tokens \in Nat
  BY <1>2
<1>5. \A c \in S : ~Denser(c, c) /\ ~Weaker(c, c)
  BY <1>2, <1>4 DEF Denser, Weaker
<1>6. \A c, d \in S : c # d => (Denser(c, d) \/ Denser(d, c)) /\ (Weaker(c, d) \/ Weaker(d, c))
  BY <1>2, <1>3, <1>4 DEF Denser, Weaker
<1>7. ASSUME NEW c \in S, NEW d \in S, NEW e \in S PROVE Denser(c, d) /\ Denser(d, e) => Denser(c, e)
  <2> SUFFICES ASSUME Denser(c, d), Denser(d, e) PROVE Denser(c, e)
    OBVIOUS
  <2>1. PICK u, v, w, a, b, f : u = Value(c) /\ v = Value(d) /\ w = Value(e) /\ a = c.tokens /\ b = d.tokens /\ f = e.tokens
    OBVIOUS
  <2>2. u \in Nat /\ v \in Nat /\ w \in Nat /\ a \in Nat \ {0} /\ b \in Nat \ {0} /\ f \in Nat \ {0}
    BY <1>2, <2>1
  <2>3. u * b \in Int /\ v * a \in Int /\ v * f \in Int /\ w * b \in Int /\ u * f \in Int /\ w * a \in Int
    BY <2>2
  <2>4. /\ u * b > v * a \/ (u * b = v * a /\ (u > v \/ (u = v /\ c.rank < d.rank)))
        /\ v * f > w * b \/ (v * f = w * b /\ (v > w \/ (v = w /\ d.rank < e.rank)))
    BY <2>1 DEF Denser
  <2>5. u * b >= v * a /\ v * f >= w * b
    BY <2>3, <2>4
  <2>6. /\ u * f >= w * a
        /\ u * b > v * a \/ v * f > w * b => u * f > w * a
        /\ u * f = w * a => u * b = v * a /\ v * f = w * b
    BY <2>2, <2>5, Fractions
  <2>7. u * f > w * a \/ (u * f = w * a /\ (u > w \/ (u = w /\ c.rank < e.rank)))
    <3>1. CASE u * f > w * a
      BY <3>1
    <3>2. CASE u * f = w * a
      <4>1. u * b = v * a /\ v * f = w * b
        BY <2>6, <3>2
      <4>2. (u > v \/ (u = v /\ c.rank < d.rank)) /\ (v > w \/ (v = w /\ d.rank < e.rank))
        BY <2>3, <2>4, <4>1
      <4>3. u > w \/ (u = w /\ c.rank < e.rank)
        BY <1>2, <2>2, <4>2
      <4> QED
        BY <3>2, <4>3
    <3> QED
      BY <2>3, <2>6, <3>1, <3>2
  <2> QED
    BY <2>1, <2>7 DEF Denser
<1>8. ASSUME NEW c \in S, NEW d \in S, NEW e \in S PROVE Weaker(d, c) /\ Weaker(e, d) => Weaker(e, c)
  <2> SUFFICES ASSUME Weaker(d, c), Weaker(e, d) PROVE Weaker(e, c)
    OBVIOUS
  <2>1. PICK u, v, w, a, b, f : u = Value(c) /\ v = Value(d) /\ w = Value(e) /\ a = c.tokens /\ b = d.tokens /\ f = e.tokens
    OBVIOUS
  <2>2. u \in Nat /\ v \in Nat /\ w \in Nat /\ a \in Nat \ {0} /\ b \in Nat \ {0} /\ f \in Nat \ {0}
    BY <1>2, <2>1
  <2>3. u * b \in Int /\ v * a \in Int /\ v * f \in Int /\ w * b \in Int /\ u * f \in Int /\ w * a \in Int
    BY <2>2
  <2>4. /\ v * a < u * b \/ (v * a = u * b /\ (v < u \/ (v = u /\ d.rank < c.rank)))
        /\ w * b < v * f \/ (w * b = v * f /\ (w < v \/ (w = v /\ e.rank < d.rank)))
    BY <2>1 DEF Weaker
  <2>5. u * b >= v * a /\ v * f >= w * b
    BY <2>3, <2>4
  <2>6. /\ u * f >= w * a
        /\ u * b > v * a \/ v * f > w * b => u * f > w * a
        /\ u * f = w * a => u * b = v * a /\ v * f = w * b
    BY <2>2, <2>5, Fractions
  <2>7. w * a < u * f \/ (w * a = u * f /\ (w < u \/ (w = u /\ e.rank < c.rank)))
    <3>1. CASE u * f > w * a
      BY <2>3, <3>1
    <3>2. CASE u * f = w * a
      <4>1. u * b = v * a /\ v * f = w * b
        BY <2>6, <3>2
      <4>2. (v < u \/ (v = u /\ d.rank < c.rank)) /\ (w < v \/ (w = v /\ e.rank < d.rank))
        BY <2>3, <2>4, <4>1
      <4>3. w < u \/ (w = u /\ e.rank < c.rank)
        BY <1>2, <2>2, <4>2
      <4> QED
        BY <3>2, <4>3
    <3> QED
      BY <2>3, <2>6, <3>1, <3>2
  <2> QED
    BY <2>1, <2>7 DEF Weaker
<1> HIDE DEF Denser, Weaker
<1>9. TotalOrder(Density, S)
  BY <1>1, <1>5, <1>6, <1>7 DEF TotalOrder
<1>10. TotalOrder(Weakness, S)
  BY <1>1, <1>5, <1>6, <1>8 DEF TotalOrder
<1> QED
  BY <1>9, <1>10

-----------------------------------------------------------------------------
(* The packing of the prompt: what becomes of every chunk. *)

Drops == [chunk : Chunk, reason : Reasons]
Gone(dropped) == {d.chunk : d \in ToSet(dropped)}

\* The chunks that were found, by rank.
Found == packInput.chunks \in Seq(Chunk) /\ \A i \in DOMAIN packInput.chunks : packInput.chunks[i].rank = i

LEMMA RankedFacts ==
    ASSUME Found
    PROVE  /\ Ranked \in Seq(Chunk) /\ Copies \in Seq(Chunk) /\ Len(Ranked) + Len(Copies) = Len(packInput.chunks)
           /\ ToSet(Ranked) \cup ToSet(Copies) = ToSet(packInput.chunks)
           /\ IsFiniteSet(ToSet(Ranked)) /\ Cardinality(ToSet(Ranked)) = Len(Ranked) /\ Distinct(ToSet(packInput.chunks))
<1>1. PICK s : s = packInput.chunks
  OBVIOUS
<1>2. s \in Seq(Chunk) /\ \A i \in DOMAIN s : s[i].rank = i
  BY <1>1 DEF Found
<1>3. PICK E : E = Exact
  OBVIOUS
<1>4. E \in SUBSET DOMAIN s /\ DOMAIN s \ E \in SUBSET DOMAIN s /\ Ranked = Picked(s, DOMAIN s \ E) /\ Copies = Picked(s, E)
  BY <1>1, <1>3 DEF Exact, Ranked, Copies
<1>5. PICK T : T = DOMAIN s \ E
  OBVIOUS
<1>6. PICK at \in [1..Cardinality(T) -> T] :
             /\ Cardinality(T) \in Nat /\ Lists(at, T, Ascending(T))
             /\ Picked(s, T) \in Seq(Chunk) /\ Len(Picked(s, T)) = Cardinality(T)
             /\ DOMAIN Picked(s, T) = 1..Cardinality(T)
             /\ \A k \in 1..Cardinality(T) : Picked(s, T)[k] = s[at[k]]
  <2>1. PICK V : V = Chunk
    OBVIOUS
  <2>2. s \in Seq(V) /\ T \in SUBSET DOMAIN s
    BY <1>2, <1>5, <2>1
  <2>3. \E f \in [1..Cardinality(T) -> T] :
             /\ Cardinality(T) \in Nat /\ Cardinality(T) <= Len(s)
             /\ Lists(f, T, Ascending(T))
             /\ Picked(s, T) \in Seq(V) /\ Len(Picked(s, T)) = Cardinality(T)
             /\ DOMAIN Picked(s, T) = 1..Cardinality(T)
             /\ \A k \in 1..Cardinality(T) : Picked(s, T)[k] = s[f[k]]
    BY <2>2, PickedFacts, Z3
  <2> QED
    BY <2>1, <2>3, Zenon
<1>7. Picked(s, E) \in Seq(Chunk) /\ Len(Picked(s, E)) = Cardinality(E)
  BY <1>2, <1>4, PickedFacts
<1>8. ToSet(Picked(s, T)) = {s[i] : i \in T} /\ ToSet(Picked(s, E)) = {s[i] : i \in E}
  BY <1>2, <1>4, <1>5, PickedSet
<1>9. Cardinality(T) + Cardinality(E) = Len(s)
  <2>1. PICK n \in Nat : n = Len(s) /\ DOMAIN s = 1..n
    BY <1>2
  <2>2. IsFiniteSet(1..n) /\ Cardinality(1..n) = n
    <3>1. IsFiniteSet(1..n) /\ Cardinality(1..n) = IF 1 > n THEN 0 ELSE n - 1 + 1
      BY FS_Interval
    <3> QED
      BY <3>1
  <2>3. IsFiniteSet(T) /\ IsFiniteSet(E)
    BY <1>4, <1>5, <2>1, <2>2, FS_Subset
  <2>4. T \cup E = 1..n /\ T \cap E = {}
    BY <1>4, <1>5, <2>1
  <2>5. Cardinality(1..n) = Cardinality(T) + Cardinality(E) - Cardinality({})
    BY <2>3, <2>4, FS_Union
  <2>6. Cardinality({}) = 0 /\ Cardinality(T) \in Nat /\ Cardinality(E) \in Nat
    BY <2>3, FS_EmptySet, FS_CardinalityType
  <2> QED
    BY <2>1, <2>2, <2>5, <2>6
<1>10. PICK q : q = Picked(s, T)
  OBVIOUS
<1>11. Once(q)
  <2> SUFFICES ASSUME NEW i \in DOMAIN q, NEW j \in DOMAIN q, q[i] = q[j] PROVE i = j
    BY DEF Once
  <2>1. i \in 1..Cardinality(T) /\ j \in 1..Cardinality(T) /\ q[i] = s[at[i]] /\ q[j] = s[at[j]]
    BY <1>6, <1>10
  <2>2. at[i] \in DOMAIN s /\ at[j] \in DOMAIN s
    BY <1>5, <1>6, <2>1
  <2>3. at[i] = at[j]
    BY <1>2, <2>1, <2>2
  <2>4. DOMAIN at = 1..Cardinality(T) /\ \A k, l \in DOMAIN at : at[k] = at[l] => k = l
    BY <1>6 DEF Lists
  <2> QED
    BY <2>1, <2>3, <2>4
<1>12. IsFiniteSet(ToSet(q)) /\ Cardinality(ToSet(q)) = Len(q)
  BY <1>6, <1>10, <1>11, OnceCounts
<1>13. Distinct(ToSet(s))
  BY <1>2 DEF Distinct, ToSet
<1>14. ToSet(q) \cup ToSet(Picked(s, E)) = ToSet(s)
  <2>1. ToSet(s) = {s[i] : i \in DOMAIN s} /\ T \cup E = DOMAIN s
    BY <1>4, <1>5 DEF ToSet
  <2> QED
    BY <1>8, <1>10, <2>1
<1> QED
  BY <1>1, <1>4, <1>5, <1>6, <1>7, <1>9, <1>10, <1>12, <1>13, <1>14

\* One source more is kept or dropped.
Taken == [kept : Seq(Chunk), dropped : Seq(Drops), spent : Nat]

LEMMA TakeSourceFacts ==
    ASSUME NEW acc \in Taken, NEW c \in Chunk, NEW used
    PROVE  /\ TakeSource(acc, c, used) \in Taken
           /\ \/ /\ TakeSource(acc, c, used).kept = acc.kept
                 /\ \E d \in Drops : d.chunk = c /\ TakeSource(acc, c, used).dropped = Append(acc.dropped, d)
              \/ TakeSource(acc, c, used).kept = Append(acc.kept, c) /\ TakeSource(acc, c, used).dropped = acc.dropped
<1>1. c.tokens \in Nat /\ acc.kept \in Seq(Chunk) /\ acc.dropped \in Seq(Drops) /\ acc.spent \in Nat
  BY ChunkFacts DEF Taken
<1>2. PICK d, e : d = Drop(c, "retrieved_cap") /\ e = Drop(c, "budget")
  OBVIOUS
<1>3. d \in Drops /\ e \in Drops /\ d.chunk = c /\ e.chunk = c
  BY <1>2 DEF Drop, Drops, Reasons
<1>4. PICK r : r = TakeSource(acc, c, used)
  OBVIOUS
<1>5. \/ r = [acc EXCEPT !.dropped = Append(@, d)]
      \/ r = [acc EXCEPT !.dropped = Append(@, e)]
      \/ r = [acc EXCEPT !.kept = Append(@, c), !.spent = @ + c.tokens]
  BY <1>2, <1>4 DEF TakeSource
<1> HIDE DEF Drops
<1>6. Append(acc.dropped, d) \in Seq(Drops) /\ Append(acc.dropped, e) \in Seq(Drops) /\ Append(acc.kept, c) \in Seq(Chunk)
      /\ acc.spent + c.tokens \in Nat
  BY <1>1, <1>3
<1>7. CASE r = [acc EXCEPT !.dropped = Append(@, d)]
  BY <1>1, <1>3, <1>4, <1>6, <1>7 DEF Taken
<1>8. CASE r = [acc EXCEPT !.dropped = Append(@, e)]
  BY <1>1, <1>3, <1>4, <1>6, <1>8 DEF Taken
<1>9. CASE r = [acc EXCEPT !.kept = Append(@, c), !.spent = @ + c.tokens]
  BY <1>1, <1>3, <1>4, <1>6, <1>9 DEF Taken
<1> QED
  BY <1>5, <1>7, <1>8, <1>9

\* The first k of the chunks of q are accounted for.
Accounted(acc, q, k) ==
    /\ acc \in Taken /\ Len(acc.kept) + Len(acc.dropped) = k
    /\ ToSet(acc.kept) \cup Gone(acc.dropped) = {q[i] : i \in 1..k}
    /\ Once(acc.kept)

\* One element more.
LEMMA AppendSet ==
    ASSUME NEW V, NEW s \in Seq(V), NEW x \in V
    PROVE  /\ Append(s, x) \in Seq(V) /\ Len(Append(s, x)) = Len(s) + 1
           /\ ToSet(Append(s, x)) = ToSet(s) \cup {x}
           /\ Once(s) /\ x \notin ToSet(s) => Once(Append(s, x))
<1>1. PICK n \in Nat : n = Len(s) /\ DOMAIN s = 1..n
  OBVIOUS
<1>2. PICK t : t = Append(s, x)
  OBVIOUS
<1>3. t \in Seq(V) /\ Len(t) = n + 1 /\ DOMAIN t = 1..n + 1 /\ t[n + 1] = x /\ \A i \in 1..n : t[i] = s[i]
  BY <1>1, <1>2
<1>4. \A i \in 1..n + 1 : i \in 1..n \/ i = n + 1
  BY <1>1
<1>5. 1..n \subseteq 1..n + 1 /\ n + 1 \in 1..n + 1
  BY <1>1
<1>6. ToSet(t) = ToSet(s) \cup {x}
  BY <1>1, <1>3, <1>4, <1>5 DEF ToSet
<1>7. ASSUME Once(s), x \notin ToSet(s), NEW i \in 1..n + 1, NEW j \in 1..n + 1, t[i] = t[j] PROVE i = j
  <2>1. \A k \in 1..n : s[k] # x
    BY <1>1, <1>7 DEF ToSet
  <2> QED
    BY <1>1, <1>3, <1>4, <1>7, <2>1 DEF Once
<1> QED
  BY <1>1, <1>2, <1>3, <1>6, <1>7 DEF Once

LEMMA TakeSourceAccounts ==
    ASSUME NEW q \in Seq(Chunk), Once(q), NEW k \in Nat, k + 1 \in DOMAIN q,
           NEW acc, Accounted(acc, q, k), NEW used
    PROVE  Accounted(TakeSource(acc, q[k + 1], used), q, k + 1)
<1>1. PICK c : c = q[k + 1]
  OBVIOUS
<1>2. PICK r : r = TakeSource(acc, c, used)
  OBVIOUS
<1>3. c \in Chunk /\ acc \in Taken /\ acc.kept \in Seq(Chunk) /\ acc.dropped \in Seq(Drops)
  BY <1>1 DEF Accounted, Taken
<1>4. /\ r \in Taken
      /\ \/ r.kept = acc.kept /\ \E d \in Drops : d.chunk = c /\ r.dropped = Append(acc.dropped, d)
         \/ r.kept = Append(acc.kept, c) /\ r.dropped = acc.dropped
  BY <1>2, <1>3, TakeSourceFacts
<1>5. {q[i] : i \in 1..k + 1} = {q[i] : i \in 1..k} \cup {c}
  BY <1>1
<1>6. c \notin ToSet(acc.kept)
  <2>1. \A i \in 1..k : i \in DOMAIN q /\ i # k + 1
    OBVIOUS
  <2>2. c \notin {q[i] : i \in 1..k}
    BY <1>1, <2>1 DEF Once
  <2> QED
    BY <2>2 DEF Accounted
<1>7. PICK m \in Nat, n \in Nat : m = Len(acc.kept) /\ n = Len(acc.dropped) /\ m + n = k
  <2>1. Len(acc.kept) \in Nat /\ Len(acc.dropped) \in Nat
    BY <1>3
  <2> QED
    BY <2>1 DEF Accounted
<1>a. m \in Nat /\ n \in Nat /\ m + n = k
  BY <1>7
<1>8. CASE r.kept = acc.kept /\ \E d \in Drops : d.chunk = c /\ r.dropped = Append(acc.dropped, d)
  <2>1. PICK d \in Drops : d.chunk = c /\ r.dropped = Append(acc.dropped, d)
    BY <1>8
  <2>2. Len(r.dropped) = Len(acc.dropped) + 1 /\ ToSet(r.dropped) = ToSet(acc.dropped) \cup {d}
    BY <1>3, <2>1, AppendSet
  <2>3. Gone(r.dropped) = Gone(acc.dropped) \cup {c}
    BY <2>1, <2>2 DEF Gone
  <2>4. Len(r.kept) + Len(r.dropped) = k + 1
    <3>1. Len(r.kept) = m /\ Len(r.dropped) = n + 1
      BY <1>7, <1>8, <2>2
    <3>2. m + (n + 1) = k + 1
      BY <1>a
    <3> QED
      BY <3>1, <3>2, Zenon
  <2> QED
    BY <1>1, <1>2, <1>4, <1>5, <1>8, <2>3, <2>4 DEF Accounted
<1>9. CASE r.kept = Append(acc.kept, c) /\ r.dropped = acc.dropped
  <2>1. Len(r.kept) = Len(acc.kept) + 1 /\ ToSet(r.kept) = ToSet(acc.kept) \cup {c} /\ Once(r.kept)
    BY <1>3, <1>6, <1>9, AppendSet DEF Accounted
  <2>2. Len(r.kept) + Len(r.dropped) = k + 1
    <3>1. Len(r.kept) = m + 1 /\ Len(r.dropped) = n
      BY <1>7, <1>9, <2>1
    <3>2. (m + 1) + n = k + 1
      BY <1>a
    <3> QED
      BY <3>1, <3>2, Zenon
  <2> QED
    BY <1>1, <1>2, <1>4, <1>5, <1>9, <2>1, <2>2 DEF Accounted
<1> QED
  BY <1>4, <1>8, <1>9

-----------------------------------------------------------------------------
(* The packing of the prompt: what is taken, one after the other. *)

AllTaken(r) ==
    /\ r \in Taken /\ Len(r.kept) + Len(r.dropped) = Len(Ranked)
    /\ ToSet(r.kept) \cup Gone(r.dropped) = ToSet(Ranked) /\ Once(r.kept)

LEMMA PackSourcesFacts == ASSUME Found, NEW used PROVE AllTaken(PackSources(used))
<1> DEFINE V == Taken
           q == ByDensity
           n == Len(q)
           b == [kept |-> <<>>, dropped |-> <<>>, spent |-> 0]
           Level(f) == f = [i \in 0..n |-> IF i = 0 THEN b ELSE TakeSource(f[i - 1], q[i], used)]
           step == [i \in 1..n |-> [v \in V |-> TakeSource(v, q[i], used)]]
<1>1. q \in Seq(Chunk) /\ n = Len(Ranked) /\ ToSet(q) = ToSet(Ranked) /\ Once(q)
  <2>1. PICK S : S = ToSet(Ranked)
    OBVIOUS
  <2>2. IsFiniteSet(S) /\ Cardinality(S) = Len(Ranked) /\ S \subseteq ToSet(packInput.chunks) /\ Distinct(ToSet(packInput.chunks))
    BY <2>1, RankedFacts
  <2>3. S \in SUBSET Chunk
    BY <2>2 DEF Found, ToSet
  <2>4. TotalOrder(Density, S)
    BY <2>2, <2>3, DensityTotal DEF Distinct
  <2>5. q = Sorted(S, Density)
    BY <2>1 DEF ByDensity, Density
  <2> QED
    BY <2>1, <2>2, <2>3, <2>4, <2>5, InSequence
<1>2. n \in Nat /\ DOMAIN q = 1..n /\ \A i \in 1..n : q[i] \in Chunk
  BY <1>1
<1>3. b \in V
  <2>1. PICK e : e = <<>>
    OBVIOUS
  <2>2. e \in Seq(Chunk) /\ e \in Seq(Drops)
    BY <2>1
  <2> QED
    BY <2>1, <2>2 DEF Taken
<1>4. \A v \in V, i \in 1..n : TakeSource(v, q[i], used) \in V
  BY <1>2, TakeSourceFacts
<1> HIDE DEF V, q, n, b
<1>5. \E f \in [0..n -> V] : Level(f)
  <2>1. step \in StepsOf(n, V)
    BY <1>4 DEF StepsOf
  <2>2. \A i \in 1..n, v \in V : step[i][v] = TakeSource(v, q[i], used)
    OBVIOUS
  <2> HIDE DEF step
  <2>3. PICK f \in [0..n -> V] : f[0] = b /\ \A i \in 1..n : f[i] = step[i][f[i - 1]]
    BY <1>2, <1>3, <2>1, Recursion, Z3
  <2>4. ASSUME NEW i \in 0..n PROVE f[i] = IF i = 0 THEN b ELSE TakeSource(f[i - 1], q[i], used)
    <3>1. CASE i = 0
      BY <2>3, <3>1
    <3>2. CASE i \in 1..n
      <4>1. i - 1 \in 0..n /\ i # 0
        BY <1>2, <3>2
      <4>2. f[i - 1] \in V
        BY <4>1
      <4> QED
        BY <2>2, <2>3, <3>2, <4>1, <4>2
    <3> QED
      BY <1>2, <3>1, <3>2
  <2>5. f = [i \in 0..n |-> f[i]]
    OBVIOUS
  <2> QED
    BY <2>4, <2>5
<1> DEFINE r == CHOOSE f : Level(f)
<1>6. Level(r)
  BY <1>5
<1>7. PackSources(used) = r[n]
  BY Zenon DEF PackSources, n, b, q
<1> HIDE DEF r
<1>8. r[0] = b /\ \A i \in 1..n : r[i] = TakeSource(r[i - 1], q[i], used)
  <2>1. \A i \in 0..n : r[i] = IF i = 0 THEN b ELSE TakeSource(r[i - 1], q[i], used)
    BY <1>6
  <2>2. 0 \in 0..n /\ \A i \in 1..n : i \in 0..n /\ i # 0
    BY <1>2
  <2> QED
    BY <2>1, <2>2
<1> DEFINE Good == {k \in Nat : k <= n => Accounted(r[k], q, k)}
<1>9. Good = Nat
  <2>1. 0 \in Good
    <3>1. b.kept = <<>> /\ b.dropped = <<>> /\ b \in Taken
      BY <1>3 DEF b, V
    <3>2. ToSet(<<>>) = {} /\ Len(<<>>) = 0 /\ Once(<<>>) /\ {q[i] : i \in 1..0} = {}
      BY DEF ToSet, Once
    <3>3. Gone(<<>>) = {}
      BY <3>2 DEF Gone
    <3>4. Len(b.kept) + Len(b.dropped) = 0 /\ ToSet(b.kept) \cup Gone(b.dropped) = {} /\ Once(b.kept)
      BY <3>1, <3>2, <3>3
    <3>5. Accounted(b, q, 0)
      BY <3>1, <3>2, <3>4 DEF Accounted
    <3> QED
      BY <1>8, <3>5
  <2>2. ASSUME NEW k \in Good PROVE k + 1 \in Good
    <3> SUFFICES ASSUME k + 1 <= n PROVE Accounted(r[k + 1], q, k + 1)
      OBVIOUS
    <3>1. k + 1 \in 1..n /\ (k + 1) - 1 = k /\ Accounted(r[k], q, k) /\ k \in Nat
      BY <1>2
    <3>2. r[k + 1] = TakeSource(r[k], q[k + 1], used)
      BY <1>8, <3>1
    <3> QED
      BY <1>1, <1>2, <3>1, <3>2, TakeSourceAccounts
  <2> QED
    BY <2>1, <2>2, SetInduction
<1>10. Accounted(r[n], q, n)
  BY <1>2, <1>9
<1>11. {q[i] : i \in 1..n} = ToSet(Ranked)
  BY <1>1, <1>2 DEF ToSet
<1> QED
  BY <1>1, <1>7, <1>10, <1>11 DEF Accounted, AllTaken, n

MemoryType == Seq([tokens : Nat \ {0}, exact : Nat])

LEMMA MemoryFacts ==
    ASSUME packInput.memories \in MemoryType
    PROVE  /\ Len(packInput.memories) \in Nat /\ DOMAIN packInput.memories = 1..Len(packInput.memories)
           /\ \A i \in DOMAIN packInput.memories :
                /\ packInput.memories[i].tokens \in Nat /\ packInput.memories[i].tokens # 0
                /\ packInput.memories[i].exact \in Nat
<1>1. PICK T, h : T = [tokens : Nat \ {0}, exact : Nat] /\ h = packInput.memories
  OBVIOUS
<1>2. h \in Seq(T)
  BY <1>1 DEF MemoryType
<1>3. \A i \in DOMAIN h : h[i] \in T
  BY <1>2
<1>4. \A x \in T : x.tokens \in Nat \ {0} /\ x.exact \in Nat
  BY <1>1
<1> QED
  BY <1>1, <1>2, <1>3, <1>4

LEMMA PackMemoriesFacts ==
    ASSUME packInput.memories \in MemoryType, NEW used
    PROVE  PackMemories(used).kept \subseteq DOMAIN packInput.memories /\ PackMemories(used).spent \in Nat
<1> DEFINE s == packInput.memories
           n == Len(s)
           V == [kept : SUBSET (1..n), spent : Nat, full : BOOLEAN]
           b == [kept |-> {}, spent |-> 0, full |-> FALSE]
           Level(f) == f = [i \in 0..n |-> IF i = 0 THEN b ELSE TakeMemory(f[i - 1], i, used)]
           step == [i \in 1..n |-> [v \in V |-> TakeMemory(v, i, used)]]
<1>1. n \in Nat /\ DOMAIN s = 1..n /\ \A i \in 1..n : s[i].tokens \in Nat
  BY MemoryFacts
<1>2. b \in V
  OBVIOUS
<1>3. ASSUME NEW v \in V, NEW i \in 1..n PROVE TakeMemory(v, i, used) \in V
  <2>1. v.kept \cup {i} \in SUBSET (1..n) /\ v.spent + s[i].tokens \in Nat
    BY <1>1
  <2> HIDE DEF n
  <2> QED
    BY <2>1 DEF TakeMemory
<1>4. \A v \in V : v.kept \subseteq DOMAIN s /\ v.spent \in Nat
  BY <1>1
<1> HIDE DEF V, n, b
<1>5. \E f \in [0..n -> V] : Level(f)
  <2>1. step \in StepsOf(n, V)
    BY <1>3 DEF StepsOf
  <2>2. \A i \in 1..n, v \in V : step[i][v] = TakeMemory(v, i, used)
    OBVIOUS
  <2> HIDE DEF step
  <2>3. PICK f \in [0..n -> V] : f[0] = b /\ \A i \in 1..n : f[i] = step[i][f[i - 1]]
    BY <1>1, <1>2, <2>1, Recursion, Z3
  <2>4. ASSUME NEW i \in 0..n PROVE f[i] = IF i = 0 THEN b ELSE TakeMemory(f[i - 1], i, used)
    <3>1. CASE i = 0
      BY <2>3, <3>1
    <3>2. CASE i \in 1..n
      <4>1. i - 1 \in 0..n /\ i # 0
        BY <1>1, <3>2
      <4>2. f[i - 1] \in V
        BY <4>1
      <4> QED
        BY <2>2, <2>3, <3>2, <4>1, <4>2
    <3> QED
      BY <1>1, <3>1, <3>2
  <2>5. f = [i \in 0..n |-> f[i]]
    OBVIOUS
  <2> QED
    BY <2>4, <2>5
<1> DEFINE r == CHOOSE f : Level(f)
<1>6. Level(r)
  BY <1>5
<1>7. PackMemories(used) = r[n]
  BY Zenon DEF PackMemories, n, b
<1> HIDE DEF r
<1>8. r[0] = b /\ \A i \in 1..n : r[i] = TakeMemory(r[i - 1], i, used)
  <2>1. \A i \in 0..n : r[i] = IF i = 0 THEN b ELSE TakeMemory(r[i - 1], i, used)
    BY <1>6
  <2>2. 0 \in 0..n /\ \A i \in 1..n : i \in 0..n /\ i # 0
    BY <1>1
  <2> QED
    BY <2>1, <2>2
<1> DEFINE Good == {k \in Nat : k <= n => r[k] \in V}
<1>9. Good = Nat
  <2>1. 0 \in Good
    BY <1>2, <1>8
  <2>2. ASSUME NEW k \in Good PROVE k + 1 \in Good
    <3> SUFFICES ASSUME k + 1 <= n PROVE r[k + 1] \in V
      OBVIOUS
    <3>1. k + 1 \in 1..n /\ (k + 1) - 1 = k /\ r[k] \in V
      BY <1>1
    <3> QED
      BY <1>3, <1>8, <3>1
  <2> QED
    BY <2>1, <2>2, SetInduction
<1>10. r[n] \in V
  BY <1>1, <1>9
<1> QED
  BY <1>4, <1>7, <1>10

HistoryType == Seq([tokens : Nat \ {0}, exact : Nat, pinned : BOOLEAN])

LEMMA HistoryFacts ==
    ASSUME packInput.history \in HistoryType
    PROVE  /\ Len(packInput.history) \in Nat /\ DOMAIN packInput.history = 1..Len(packInput.history)
           /\ \A i \in DOMAIN packInput.history :
                /\ packInput.history[i].tokens \in Nat /\ packInput.history[i].tokens # 0
                /\ packInput.history[i].exact \in Nat
<1>1. PICK T, h : T = [tokens : Nat \ {0}, exact : Nat, pinned : BOOLEAN] /\ h = packInput.history
  OBVIOUS
<1>2. h \in Seq(T)
  BY <1>1 DEF HistoryType
<1>3. \A i \in DOMAIN h : h[i] \in T
  BY <1>2
<1>4. \A x \in T : x.tokens \in Nat \ {0} /\ x.exact \in Nat
  BY <1>1
<1> QED
  BY <1>1, <1>2, <1>3, <1>4

\* The tokens of some turns.
LEMMA TurnsFacts == ASSUME packInput.history \in HistoryType, NEW ids PROVE Turns(ids) \in Int
<1> DEFINE h == packInput.history
<1>1. PICK n \in Nat : n = Len(h) /\ DOMAIN h = 1..n
  BY HistoryFacts
<1>2. \A i \in 1..n : h[i].tokens \in Nat
  BY <1>1, HistoryFacts
<1>3. PICK c : c = [i \in DOMAIN h |-> IF i \in ids THEN h[i].tokens ELSE 0]
  OBVIOUS
<1>4. \A i \in 1..n : (IF i \in ids THEN h[i].tokens ELSE 0) \in Int
  BY <1>2
<1>5. c \in Seq(Int)
  BY <1>1, <1>3, <1>4
<1>6. Turns(ids) = Total(c)
  BY <1>3 DEF Turns
<1> QED
  BY <1>5, <1>6, TotalFacts

LEMMA TurnsFromFacts ==
    ASSUME packInput.history \in HistoryType, NEW always \in SUBSET DOMAIN packInput.history, NEW used
    PROVE  always \subseteq TurnsFrom(always, used) /\ TurnsFrom(always, used) \subseteq DOMAIN packInput.history
<1> DEFINE s == packInput.history
           n == Len(s)
           V == {acc \in [kept : SUBSET (1..n), spent : Int] : always \subseteq acc.kept}
           b == [kept |-> always, spent |-> Turns(always \ PinnedTurns)]
           Level(f) == f = [i \in 0..n |-> IF i = 0 THEN b ELSE TakeTurn(f[i - 1], n + 1 - i, used)]
           step == [i \in 1..n |-> [v \in V |-> TakeTurn(v, n + 1 - i, used)]]
<1>1. n \in Nat /\ DOMAIN s = 1..n /\ \A i \in 1..n : s[i].tokens \in Nat
  BY HistoryFacts
<1>2. b \in V
  <2>1. Turns(always \ PinnedTurns) \in Int
    BY TurnsFacts
  <2> HIDE DEF n
  <2> QED
    BY <1>1, <2>1
<1>3. ASSUME NEW v \in V, NEW i \in 1..n PROVE TakeTurn(v, n + 1 - i, used) \in V
  <2> HIDE DEF n
  <2>1. PICK j \in 1..n : j = n + 1 - i
    <3>1. n + 1 - i \in 1..n
      BY <1>1
    <3> QED
      BY <3>1
  <2>2. v.kept \cup {j} \in SUBSET (1..n) /\ v.spent + s[j].tokens \in Int
    <3>1. s[j].tokens \in Nat
      BY <1>1, Zenon
    <3>2. v.spent \in Int /\ v.kept \in SUBSET (1..n)
      OBVIOUS
    <3> QED
      BY <3>1, <3>2
  <2> QED
    BY <2>1, <2>2 DEF TakeTurn
<1>4. \A v \in V : always \subseteq v.kept /\ v.kept \subseteq DOMAIN s
  BY <1>1
<1> HIDE DEF V, n, b
<1>5. \E f \in [0..n -> V] : Level(f)
  <2>1. step \in StepsOf(n, V)
    BY <1>3 DEF StepsOf
  <2>2. \A i \in 1..n, v \in V : step[i][v] = TakeTurn(v, n + 1 - i, used)
    OBVIOUS
  <2> HIDE DEF step
  <2>3. PICK f \in [0..n -> V] : f[0] = b /\ \A i \in 1..n : f[i] = step[i][f[i - 1]]
    BY <1>1, <1>2, <2>1, Recursion, Z3
  <2>4. ASSUME NEW i \in 0..n PROVE f[i] = IF i = 0 THEN b ELSE TakeTurn(f[i - 1], n + 1 - i, used)
    <3>1. CASE i = 0
      BY <2>3, <3>1
    <3>2. CASE i \in 1..n
      <4>1. i - 1 \in 0..n /\ i # 0
        BY <1>1, <3>2
      <4>2. f[i - 1] \in V
        BY <4>1
      <4> QED
        BY <2>2, <2>3, <3>2, <4>1, <4>2
    <3> QED
      BY <1>1, <3>1, <3>2
  <2>5. f = [i \in 0..n |-> f[i]]
    OBVIOUS
  <2> QED
    BY <2>4, <2>5
<1> DEFINE r == CHOOSE f : Level(f)
<1>6. Level(r)
  BY <1>5
<1>7. TurnsFrom(always, used) = r[n].kept
  BY Zenon DEF TurnsFrom, n, b
<1> HIDE DEF r
<1>8. r[0] = b /\ \A i \in 1..n : r[i] = TakeTurn(r[i - 1], n + 1 - i, used)
  <2>1. \A i \in 0..n : r[i] = IF i = 0 THEN b ELSE TakeTurn(r[i - 1], n + 1 - i, used)
    BY <1>6
  <2>2. 0 \in 0..n /\ \A i \in 1..n : i \in 0..n /\ i # 0
    BY <1>1
  <2> QED
    BY <2>1, <2>2
<1> DEFINE Good == {k \in Nat : k <= n => r[k] \in V}
<1>9. Good = Nat
  <2>1. 0 \in Good
    BY <1>2, <1>8
  <2>2. ASSUME NEW k \in Good PROVE k + 1 \in Good
    <3> SUFFICES ASSUME k + 1 <= n PROVE r[k + 1] \in V
      OBVIOUS
    <3>1. k + 1 \in 1..n /\ (k + 1) - 1 = k /\ r[k] \in V
      BY <1>1
    <3> QED
      BY <1>3, <1>8, <3>1
  <2> QED
    BY <2>1, <2>2, SetInduction
<1>10. r[n] \in V
  BY <1>1, <1>9
<1> QED
  BY <1>4, <1>7, <1>10

-----------------------------------------------------------------------------
(* The packing of the prompt: what one thing shed leaves. *)

\* What an item is counted as, and what it is.
Size == [tokens : Nat, exact : Nat]

\* What the assembler goes on: the chunks by rank, and memories and turns that have tokens.
Given ==
    /\ Found /\ packInput.memories \in MemoryType /\ packInput.history \in HistoryType
    /\ packInput.summary \in Size /\ packInput.extra \in Int

Packings == [sources : Seq(Chunk), dropped : Seq(Drops), memories : SUBSET DOMAIN packInput.memories,
             history : SUBSET DOMAIN packInput.history, summary : Size, excess : Nat]

\* Every chunk is kept or gone, once, and what is pinned is there.
Sound(p) ==
    /\ Len(p.sources) + Len(p.dropped) = Len(packInput.chunks)
    /\ ToSet(p.sources) \cup Gone(p.dropped) = ToSet(packInput.chunks)
    /\ PinnedTurns \subseteq p.history

Numbered(sources) == \A i, j \in DOMAIN sources : i < j => sources[i].rank < sources[j].rank

\* What is measured of a packing, whether something it left out was counted as too much, and
\* what it may still shed.
Prompt(p) == FixedTokens + packInput.extra + p.summary.exact + Exactly(p.sources, DOMAIN p.sources)
             + Exactly(packInput.memories, p.memories) + Exactly(packInput.history, p.history)
Over(p) ==
    \/ \E i \in DOMAIN p.dropped : p.dropped[i].chunk.exact < p.dropped[i].chunk.tokens
    \/ \E i \in DOMAIN packInput.memories \ p.memories : packInput.memories[i].exact < packInput.memories[i].tokens
    \/ \E i \in DOMAIN packInput.history \ p.history : packInput.history[i].exact < packInput.history[i].tokens
Bare(p) == /\ p.sources = <<>> /\ p.memories = {} /\ p.summary.tokens = 0
           /\ {i \in p.history : ~Pinned(i)} = {}

Sized(items) ==
    /\ Len(items) \in Nat /\ DOMAIN items = 1..Len(items)
    /\ \A i \in DOMAIN items : items[i].exact \in Nat

\* The length of some items, and of one less.
LEMMA ExactlyFacts ==
    ASSUME NEW items, Sized(items), NEW ids
    PROVE  /\ Exactly(items, ids) \in Int
           /\ \A i \in ids \cap DOMAIN items : Exactly(items, ids \ {i}) = Exactly(items, ids) - items[i].exact
<1> DEFINE Costs(T) == [i \in DOMAIN items |-> IF i \in T THEN items[i].exact ELSE 0]
<1>1. PICK n \in Nat : n = Len(items) /\ DOMAIN items = 1..n
  BY DEF Sized
<1>2. \A i \in 1..n : items[i].exact \in Nat
  BY <1>1 DEF Sized
<1>3. ASSUME NEW T PROVE Costs(T) \in Seq(Int) /\ Len(Costs(T)) = n /\ DOMAIN Costs(T) = 1..n
  <2>1. PICK c : c = Costs(T)
    OBVIOUS
  <2>2. c = [i \in 1..n |-> IF i \in T THEN items[i].exact ELSE 0]
    BY <1>1, <2>1
  <2>3. \A i \in 1..n : (IF i \in T THEN items[i].exact ELSE 0) \in Int
    BY <1>2
  <2> QED
    BY <2>1, <2>2, <2>3
<1>4. \A T : Exactly(items, T) = Total(Costs(T))
  BY DEF Exactly
<1>5. ASSUME NEW i \in ids \cap DOMAIN items PROVE Exactly(items, ids \ {i}) = Exactly(items, ids) - items[i].exact
  <2>1. PICK s, t : s = Costs(ids) /\ t = Costs(ids \ {i})
    OBVIOUS
  <2>2. s[i] = items[i].exact /\ t[i] = 0 /\ \A j \in 1..n : j # i => t[j] = s[j]
    BY <1>1, <1>5, <2>1
  <2>3. /\ s \in Seq(Int) /\ t \in Seq(Int) /\ Len(s) = Len(t) /\ DOMAIN s = 1..n /\ i \in DOMAIN s
    BY <1>1, <1>3, <1>5, <2>1
  <2>4. Total(t) = Total(s) - s[i] + t[i]
    BY <2>2, <2>3, TotalLess
  <2>5. Total(s) \in Int /\ items[i].exact \in Int
    BY <1>1, <1>2, <1>5, <2>3, TotalFacts
  <2>6. Exactly(items, ids \ {i}) = Total(t) /\ Exactly(items, ids) = Total(s)
    BY <1>4, <2>1
  <2> QED
    BY <2>2, <2>4, <2>5, <2>6
<1>6. Exactly(items, ids) \in Int
  BY <1>3, <1>4, TotalFacts
<1> QED
  BY <1>5, <1>6

\* The memories and the turns have lengths.
LEMMA GivenSized == ASSUME Given PROVE Sized(packInput.memories) /\ Sized(packInput.history)
BY MemoryFacts, HistoryFacts DEF Given, Sized

\* The length of the sources, and of the sources without one of them.
LEMMA SourcesExact ==
    ASSUME NEW s \in Seq(Chunk)
    PROVE  /\ Exactly(s, DOMAIN s) \in Int
           /\ \A t \in Seq(Chunk), k \in DOMAIN s :
                Without(t, s, k) => Exactly(t, DOMAIN t) = Exactly(s, DOMAIN s) - s[k].exact
<1> DEFINE Cost(x) == [i \in DOMAIN x |-> IF i \in DOMAIN x THEN x[i].exact ELSE 0]
<1>1. ASSUME NEW x \in Seq(Chunk)
      PROVE  /\ Cost(x) \in Seq(Int) /\ Len(Cost(x)) = Len(x) /\ DOMAIN Cost(x) = DOMAIN x
             /\ \A i \in DOMAIN x : Cost(x)[i] = x[i].exact
  <2>1. PICK n \in Nat : n = Len(x) /\ DOMAIN x = 1..n
    OBVIOUS
  <2>2. PICK c : c = [i \in 1..n |-> x[i].exact]
    OBVIOUS
  <2>3. \A i \in 1..n : x[i].exact \in Int
    BY <2>1, ChunkFacts
  <2>4. c \in Seq(Int) /\ Len(c) = n /\ DOMAIN c = 1..n
    BY <2>2, <2>3
  <2>5. Cost(x) = c
    BY <2>1, <2>2
  <2> HIDE DEF Cost
  <2> QED
    BY <2>1, <2>2, <2>4, <2>5
<1>2. \A x : Exactly(x, DOMAIN x) = Total(Cost(x))
  BY DEF Exactly
<1> HIDE DEF Cost
<1>3. ASSUME NEW t \in Seq(Chunk), NEW k \in DOMAIN s, Without(t, s, k)
      PROVE  Exactly(t, DOMAIN t) = Exactly(s, DOMAIN s) - s[k].exact
  <2>1. PICK c, d : c = Cost(s) /\ d = Cost(t)
    OBVIOUS
  <2>2. /\ c \in Seq(Int) /\ d \in Seq(Int) /\ Len(c) = Len(s) /\ Len(d) = Len(t)
        /\ DOMAIN c = DOMAIN s /\ DOMAIN d = DOMAIN t /\ c[k] = s[k].exact
        /\ \A j \in DOMAIN t : d[j] = t[j].exact
        /\ \A j \in DOMAIN s : c[j] = s[j].exact
    BY <1>1, <1>3, <2>1
  <2>3. Without(d, c, k)
    <3>1. PICK n \in Nat : n = Len(s) /\ DOMAIN s = 1..n /\ DOMAIN t = 1..n - 1 /\ k \in 1..n
      BY <1>3 DEF Without
    <3>2. \A j \in 1..n - 1 : t[j] = IF j < k THEN s[j] ELSE s[j + 1]
      BY <1>3, <3>1 DEF Without
    <3>3. \A j \in 1..n - 1 : j \in 1..n /\ j + 1 \in 1..n
      BY <3>1
    <3>4. \A j \in 1..n - 1 : d[j] = IF j < k THEN c[j] ELSE c[j + 1]
      BY <2>2, <3>1, <3>2, <3>3
    <3> QED
      BY <1>3, <2>2, <3>1, <3>4 DEF Without
  <2>4. Total(d) = Total(c) - c[k]
    BY <2>2, <2>3, <1>3, TotalWithout
  <2> QED
    BY <1>2, <2>1, <2>2, <2>4
<1>4. Exactly(s, DOMAIN s) \in Int
  BY <1>1, <1>2, TotalFacts
<1> QED
  BY <1>3, <1>4

\* The lengths a prompt is made of are whole numbers.
LEMMA CostsAreInts ==
    ASSUME Given, NEW p \in Packings
    PROVE  /\ FixedTokens \in Int /\ packInput.extra \in Int /\ p.summary.exact \in Nat /\ p.summary.tokens \in Nat
           /\ Exactly(p.sources, DOMAIN p.sources) \in Int /\ Exactly(packInput.memories, p.memories) \in Int
           /\ Exactly(packInput.history, p.history) \in Int /\ p.excess \in Int /\ Prompt(p) \in Int
<1>1. /\ p.sources \in Seq(Chunk) /\ p.summary.exact \in Nat /\ p.summary.tokens \in Nat /\ p.excess \in Int
      /\ packInput.extra \in Int
  BY DEF Packings, Given, Size
<1>2. Exactly(p.sources, DOMAIN p.sources) \in Int
  BY <1>1, SourcesExact
<1>3. Exactly(packInput.memories, p.memories) \in Int /\ Exactly(packInput.history, p.history) \in Int
  BY GivenSized, ExactlyFacts
<1>4. FixedTokens \in Int
  BY PackNumbers
<1>5. Prompt(p) \in Int
  BY <1>1, <1>2, <1>3, <1>4, SMTT(25) DEF Prompt
<1> QED
  BY <1>1, <1>2, <1>3, <1>4, <1>5

\* What is freed counts against the excess, and no more than that.
LEMMA LeftFacts ==
    ASSUME packing.excess \in Nat, NEW t \in Nat, t # 0
    PROVE  LeftAfter(t) \in Nat /\ LeftAfter(t) >= packing.excess - t
BY DEF LeftAfter, Freed

\* In order of rank, no source is there twice and one of them is the weakest.
LEMMA WeakestFacts ==
    ASSUME NEW s \in Seq(Chunk), Numbered(s), s = packing.sources, s # <<>>
    PROVE  Weakest \in DOMAIN s /\ Once(s)
<1>1. \A i \in DOMAIN s : s[i] \in Chunk /\ s[i].rank \in Nat
  BY ChunkFacts
<1>2. \A i, j \in DOMAIN s : s[i].rank = s[j].rank => i = j
  <2> SUFFICES ASSUME NEW i \in DOMAIN s, NEW j \in DOMAIN s, i # j PROVE s[i].rank # s[j].rank
    OBVIOUS
  <2>1. i < j \/ j < i
    OBVIOUS
  <2> QED
    BY <1>1, <2>1 DEF Numbered
<1>3. Once(s) /\ Distinct(ToSet(s))
  BY <1>2 DEF Once, Distinct, ToSet
<1>4. ToSet(s) \in SUBSET Chunk /\ ToSet(s) # {}
  <2>1. 1 \in DOMAIN s
    OBVIOUS
  <2>2. ToSet(s) \in SUBSET Chunk
    BY <1>1 DEF ToSet
  <2>3. s[1] \in ToSet(s)
    BY <2>1 DEF ToSet
  <2> QED
    BY <2>2, <2>3
<1>5. IsFiniteSet(ToSet(s)) /\ TotalOrder(Weakness, ToSet(s))
  BY <1>3, <1>4, OnceCounts, DensityTotal
<1>6. PICK m \in ToSet(s) : \A y \in ToSet(s) \ {m} : <<y, m>> \in Weakness
  BY <1>4, <1>5, LastOfAll
<1>7. PICK i \in DOMAIN s : s[i] = m
  BY <1>6 DEF ToSet
<1>8. ASSUME NEW j \in DOMAIN s \ {i} PROVE Weaker(s[i], s[j])
  <2>1. s[j] \in ToSet(s) \ {m}
    BY <1>3, <1>7 DEF Once, ToSet
  <2>2. <<s[j], m>> \in Weakness
    BY <1>6, <2>1
  <2> QED
    BY <1>7, <2>2 DEF Weakness
<1>9. Weakest \in DOMAIN s
  BY <1>8 DEF Weakest
<1> QED
  BY <1>3, <1>9

\* One place less: what it had, and the order.
LEMMA WithoutFacts ==
    ASSUME NEW s \in Seq(Chunk), NEW t \in Seq(Chunk), NEW k \in DOMAIN s, Without(t, s, k)
    PROVE  ToSet(t) \cup {s[k]} = ToSet(s) /\ (Numbered(s) => Numbered(t))
<1>1. PICK n \in Nat : n = Len(s) /\ DOMAIN s = 1..n /\ DOMAIN t = 1..n - 1 /\ k \in 1..n
  BY DEF Without
<1>2. \A j \in 1..n - 1 : t[j] = IF j < k THEN s[j] ELSE s[j + 1]
  BY <1>1 DEF Without
<1>3. \A j \in 1..n - 1 : j \in 1..n /\ j + 1 \in 1..n
  BY <1>1
<1>4. ToSet(t) \subseteq ToSet(s)
  BY <1>1, <1>2, <1>3 DEF ToSet
<1>5. ASSUME NEW i \in 1..n PROVE s[i] \in ToSet(t) \cup {s[k]}
  <2>1. CASE i < k
    <3>1. i \in 1..n - 1
      BY <1>1, <2>1
    <3> QED
      BY <1>1, <1>2, <2>1, <3>1 DEF ToSet
  <2>2. CASE i > k
    <3>1. i - 1 \in 1..n - 1 /\ ~(i - 1 < k) /\ (i - 1) + 1 = i
      BY <1>1, <2>2
    <3>2. t[i - 1] = s[i]
      BY <1>2, <3>1
    <3> QED
      BY <1>1, <3>1, <3>2 DEF ToSet
  <2> QED
    BY <1>1, <2>1, <2>2
<1>6. ASSUME Numbered(s) PROVE Numbered(t)
  <2> SUFFICES ASSUME NEW i \in 1..n - 1, NEW j \in 1..n - 1, i < j PROVE t[i].rank < t[j].rank
    BY <1>1 DEF Numbered
  <2>1. PICK a \in 1..n, b \in 1..n : t[i] = s[a] /\ t[j] = s[b] /\ a < b
    <3>1. CASE i < k /\ j < k
      BY <1>2, <1>3, <3>1
    <3>2. CASE i < k /\ ~(j < k)
      <4>1. i < j + 1
        OBVIOUS
      <4> QED
        BY <1>2, <1>3, <3>2, <4>1
    <3>3. CASE ~(i < k)
      <4>1. ~(j < k) /\ i + 1 < j + 1
        BY <1>1, <3>3
      <4> QED
        BY <1>2, <1>3, <3>3, <4>1
    <3> QED
      BY <3>1, <3>2, <3>3
  <2> QED
    BY <1>1, <1>6, <2>1 DEF Numbered
<1>7. s[k] \in ToSet(s)
  BY DEF ToSet
<1> QED
  BY <1>1, <1>4, <1>5, <1>6, <1>7 DEF ToSet

\* What one thing shed must leave as it was, and what it must free: what it was counted as,
\* unless something was counted as too much or nothing is left.
Frees(p) ==
    /\ p \in Packings /\ Sound(p) /\ Numbered(p.sources)
    /\ Over(packing) => Over(p)
    /\ Over(p) \/ Bare(p) \/ Prompt(p) - p.excess <= Prompt(packing) - packing.excess

LEMMA ShedSourceFacts ==
    ASSUME Given, packing \in Packings, Sound(packing), Numbered(packing.sources),
           packing.sources # <<>>
    PROVE  Frees(ShedSource)
<1>1. PICK s, dropped : s = packing.sources /\ dropped = packing.dropped
  OBVIOUS
<1>2. s \in Seq(Chunk) /\ dropped \in Seq(Drops) /\ packing.excess \in Nat
  BY <1>1 DEF Packings
<1>3. PICK k \in DOMAIN s : k = Weakest
  BY <1>1, <1>2, WeakestFacts
<1>4. PICK t : t = RemoveAt(s, k)
  OBVIOUS
<1>5. t \in Seq(Chunk) /\ Without(t, s, k)
  BY <1>2, <1>4, RemoveFacts
<1>6. /\ ToSet(t) \cup {s[k]} = ToSet(s) /\ Numbered(t) /\ Exactly(s, DOMAIN s) \in Int
      /\ Exactly(t, DOMAIN t) = Exactly(s, DOMAIN s) - s[k].exact
  BY <1>1, <1>2, <1>5, WithoutFacts, SourcesExact
<1>7. PICK c \in Chunk : c = s[k]
  BY <1>2
<1>8. c.tokens \in Nat /\ c.tokens # 0 /\ c.exact \in Nat
  BY ChunkFacts
<1>9. PICK d \in Drops : d.chunk = c /\ d = Drop(c, IF c.copy = "near" THEN "duplicate_near" ELSE "budget")
  <2>1. PICK why \in Reasons : why = IF c.copy = "near" THEN "duplicate_near" ELSE "budget"
    BY DEF Reasons
  <2>2. Drop(c, why) \in Drops /\ Drop(c, why).chunk = c
    BY DEF Drop, Drops
  <2> QED
    BY <2>1, <2>2
<1>10. PICK e : e = LeftAfter(c.tokens)
  OBVIOUS
<1>11. e \in Nat /\ e >= packing.excess - c.tokens
  BY <1>2, <1>8, <1>10, LeftFacts
<1>12. PICK p : p = ShedSource
  OBVIOUS
<1>13. p = [packing EXCEPT !.sources = t, !.excess = e, !.dropped = Append(dropped, d)]
  BY <1>1, <1>3, <1>4, <1>7, <1>9, <1>10, <1>12 DEF ShedSource
<1>14. Append(dropped, d) \in Seq(Drops) /\ Len(Append(dropped, d)) = Len(dropped) + 1
       /\ ToSet(Append(dropped, d)) = ToSet(dropped) \cup {d}
  BY <1>2, AppendSet
<1> HIDE DEF Drops
<1>15. /\ p.sources = t /\ p.excess = e /\ p.dropped = Append(dropped, d) /\ p.memories = packing.memories
       /\ p.history = packing.history /\ p.summary = packing.summary /\ p \in Packings
  BY <1>5, <1>11, <1>13, <1>14 DEF Packings
<1>16. Sound(p)
  <2>1. Gone(p.dropped) = Gone(dropped) \cup {c}
    BY <1>9, <1>14, <1>15 DEF Gone
  <2>2. Len(p.sources) + Len(p.dropped) = Len(packInput.chunks)
    <3>1. PICK m \in Nat, n \in Nat : m = Len(s) /\ n = Len(dropped)
      BY <1>2
    <3>2. Len(t) = m - 1 /\ Len(p.dropped) = n + 1 /\ m + n = Len(packInput.chunks)
      BY <1>1, <1>5, <1>14, <1>15, <3>1 DEF Without, Sound
    <3>3. (m - 1) + (n + 1) = m + n
      OBVIOUS
    <3> QED
      BY <1>15, <3>2, <3>3
  <2>3. ToSet(p.sources) \cup Gone(p.dropped) = ToSet(s) \cup Gone(dropped)
    BY <1>6, <1>7, <1>15, <2>1
  <2> QED
    BY <1>1, <1>15, <2>2, <2>3 DEF Sound
<1>17. c.exact >= c.tokens => Prompt(p) - p.excess <= Prompt(packing) - packing.excess
  <2> SUFFICES ASSUME c.exact >= c.tokens PROVE Prompt(p) - p.excess <= Prompt(packing) - packing.excess
    OBVIOUS
  <2>1. PICK a \in Int, b \in Int, x \in Int, y \in Int, z \in Int :
          a = Exactly(s, DOMAIN s) /\ b = packing.excess /\ x = c.tokens /\ y = e /\ z = c.exact
    BY <1>2, <1>6, <1>8, <1>11
  <2>2. PICK f \in Int, o \in Int, g \in Int, h \in Int, i \in Int :
          /\ f = FixedTokens /\ o = packInput.extra /\ g = packing.summary.exact
          /\ h = Exactly(packInput.memories, packing.memories) /\ i = Exactly(packInput.history, packing.history)
    <3>1. /\ FixedTokens \in Int /\ packInput.extra \in Int /\ packing.summary.exact \in Int
          /\ Exactly(packInput.memories, packing.memories) \in Int /\ Exactly(packInput.history, packing.history) \in Int
      BY CostsAreInts
    <3> QED
      BY <3>1, Zenon
  <2>3. Prompt(packing) = f + o + g + a + h + i
    BY <1>1, <2>1, <2>2 DEF Prompt
  <2>4. Prompt(p) = f + o + g + (a - z) + h + i
    BY <1>6, <1>7, <1>15, <2>1, <2>2 DEF Prompt
  <2>5. y >= b - x /\ z >= x
    BY <1>11, <2>1
  <2>6. (f + o + g + (a - z) + h + i) - y <= (f + o + g + a + h + i) - b
    BY <2>5
  <2> QED
    BY <1>15, <2>1, <2>3, <2>4, <2>6
<1>18. PICK n \in Nat : /\ n = Len(dropped) /\ DOMAIN dropped = 1..n /\ DOMAIN p.dropped = 1..n + 1
                       /\ p.dropped[n + 1] = d /\ \A i \in 1..n : p.dropped[i] = dropped[i]
  BY <1>2, <1>15
<1>19. Over(packing) => Over(p)
  <2>1. ASSUME NEW i \in DOMAIN dropped, dropped[i].chunk.exact < dropped[i].chunk.tokens PROVE Over(p)
    <3>1. i \in DOMAIN p.dropped /\ p.dropped[i] = dropped[i]
      BY <1>18
    <3> QED
      BY <2>1, <3>1 DEF Over
  <2> QED
    BY <1>1, <1>15, <2>1 DEF Over
<1>20. c.exact < c.tokens => Over(p)
  <2>1. n + 1 \in DOMAIN p.dropped /\ p.dropped[n + 1].chunk = c
    BY <1>9, <1>18
  <2> QED
    BY <2>1 DEF Over
<1>21. c.exact < c.tokens \/ c.exact >= c.tokens
  BY <1>8
<1> QED
  BY <1>6, <1>12, <1>15, <1>16, <1>17, <1>19, <1>20, <1>21 DEF Frees

LEMMA ShedFacts ==
    ASSUME Given, packing \in Packings, Sound(packing), Numbered(packing.sources),
           packing.excess > 0, Sheddable
    PROVE  Frees(Shedding)
<1>1. /\ packing.excess \in Nat /\ packing.summary \in Size /\ packing.sources \in Seq(Chunk)
      /\ packing.memories \subseteq DOMAIN packInput.memories /\ packing.history \subseteq DOMAIN packInput.history
  BY DEF Packings
<1>2. PICK p : p = Shedding
  OBVIOUS
<1>3. PICK f \in Int, o \in Int, g \in Int, a \in Int, h \in Int, i \in Int, b \in Int :
        /\ f = FixedTokens /\ o = packInput.extra /\ g = packing.summary.exact
        /\ a = Exactly(packing.sources, DOMAIN packing.sources) /\ h = Exactly(packInput.memories, packing.memories)
        /\ i = Exactly(packInput.history, packing.history) /\ b = packing.excess
  <2>1. /\ FixedTokens \in Int /\ packInput.extra \in Int /\ packing.summary.exact \in Int /\ packing.excess \in Int
        /\ Exactly(packing.sources, DOMAIN packing.sources) \in Int
        /\ Exactly(packInput.memories, packing.memories) \in Int /\ Exactly(packInput.history, packing.history) \in Int
    BY CostsAreInts
  <2> QED
    BY <2>1, Zenon
<1>4. Prompt(packing) = f + o + g + a + h + i
  BY <1>3 DEF Prompt
<1>5. CASE p = ShedSource /\ packing.sources # <<>>
  BY <1>2, <1>5, ShedSourceFacts
<1>6. CASE \E k \in packing.memories :
             p = [packing EXCEPT !.memories = @ \ {k}, !.excess = LeftAfter(packInput.memories[k].tokens)]
  <2>1. PICK k \in packing.memories :
             p = [packing EXCEPT !.memories = @ \ {k}, !.excess = LeftAfter(packInput.memories[k].tokens)]
    BY <1>6
  <2>2. PICK x \in Nat, z \in Nat : x = packInput.memories[k].tokens /\ x # 0 /\ z = packInput.memories[k].exact
    BY <1>1, MemoryFacts DEF Given
  <2>3. PICK y \in Nat : y = LeftAfter(x) /\ y >= b - x
    BY <1>1, <1>3, <2>2, LeftFacts
  <2>4. /\ p.sources = packing.sources /\ p.excess = y /\ p.dropped = packing.dropped
        /\ p.memories = packing.memories \ {k} /\ p.history = packing.history
        /\ p.summary = packing.summary /\ p \in Packings
    BY <2>1, <2>2, <2>3 DEF Packings
  <2>5. Prompt(p) = f + o + g + a + (h - z) + i
    <3>1. Exactly(packInput.memories, packing.memories \ {k}) = h - z
      BY <1>1, <1>3, <2>2, GivenSized, ExactlyFacts
    <3> QED
      BY <1>3, <2>4, <3>1 DEF Prompt
  <2>6. z >= x => (f + o + g + a + (h - z) + i) - y <= (f + o + g + a + h + i) - b
    BY <2>3
  <2>7. z >= x => Prompt(p) - p.excess <= Prompt(packing) - packing.excess
    BY <1>3, <1>4, <2>4, <2>5, <2>6
  <2>8. Over(packing) => Over(p)
    BY <2>4 DEF Over
  <2>9. z < x => Over(p)
    <3>1. k \in DOMAIN packInput.memories \ p.memories
      BY <1>1, <2>4
    <3> QED
      BY <2>2, <3>1 DEF Over
  <2>10. z < x \/ z >= x
    OBVIOUS
  <2> QED
    BY <1>2, <2>4, <2>7, <2>8, <2>9, <2>10 DEF Frees, Sound
<1>7. CASE \E k \in Droppable :
             p = [packing EXCEPT !.history = @ \ {k}, !.excess = LeftAfter(packInput.history[k].tokens)]
  <2>1. PICK k \in Droppable :
             p = [packing EXCEPT !.history = @ \ {k}, !.excess = LeftAfter(packInput.history[k].tokens)]
    BY <1>7
  <2>2. k \in packing.history /\ k \in DOMAIN packInput.history /\ k \notin PinnedTurns
    BY <1>1 DEF Droppable, PinnedTurns
  <2>3. PICK x \in Nat, z \in Nat : x = packInput.history[k].tokens /\ x # 0 /\ z = packInput.history[k].exact
    BY <2>2, HistoryFacts DEF Given
  <2>4. PICK y \in Nat : y = LeftAfter(x) /\ y >= b - x
    BY <1>1, <1>3, <2>3, LeftFacts
  <2>5. /\ p.sources = packing.sources /\ p.excess = y /\ p.dropped = packing.dropped
        /\ p.memories = packing.memories /\ p.history = packing.history \ {k}
        /\ p.summary = packing.summary /\ p \in Packings
    BY <2>1, <2>3, <2>4 DEF Packings
  <2>6. Prompt(p) = f + o + g + a + h + (i - z)
    <3>1. Exactly(packInput.history, packing.history \ {k}) = i - z
      BY <1>3, <2>2, <2>3, GivenSized, ExactlyFacts
    <3> QED
      BY <1>3, <2>5, <3>1 DEF Prompt
  <2>7. z >= x => (f + o + g + a + h + (i - z)) - y <= (f + o + g + a + h + i) - b
    BY <2>4
  <2>8. z >= x => Prompt(p) - p.excess <= Prompt(packing) - packing.excess
    BY <1>3, <1>4, <2>5, <2>6, <2>7
  <2>9. PinnedTurns \subseteq p.history
    BY <2>2, <2>5 DEF Sound
  <2>10. Over(packing) => Over(p)
    BY <2>5 DEF Over
  <2>11. z < x => Over(p)
    <3>1. k \in DOMAIN packInput.history \ p.history
      BY <2>2, <2>5
    <3> QED
      BY <2>3, <3>1 DEF Over
  <2>12. z < x \/ z >= x
    OBVIOUS
  <2> QED
    BY <1>2, <2>5, <2>8, <2>9, <2>10, <2>11, <2>12 DEF Frees, Sound
<1>8. CASE /\ p = [packing EXCEPT !.summary = NoSummary, !.excess = LeftAfter(packing.summary.tokens)]
           /\ packing.sources = <<>> /\ packing.memories = {} /\ Droppable = {} /\ packing.summary.tokens > 0
  <2>1. PICK y \in Nat : y = LeftAfter(packing.summary.tokens)
    <3>1. packing.summary.tokens \in Nat /\ packing.summary.tokens # 0
      BY <1>1, <1>8 DEF Size
    <3> QED
      BY <1>1, <3>1, LeftFacts
  <2>2. /\ p.sources = packing.sources /\ p.dropped = packing.dropped
        /\ p.memories = packing.memories /\ p.history = packing.history
        /\ p.summary = NoSummary /\ p \in Packings
    BY <1>8, <2>1 DEF Packings, NoSummary, Size
  <2>3. Bare(p)
    BY <1>8, <2>2 DEF Bare, Droppable, NoSummary
  <2>4. Over(packing) => Over(p)
    BY <2>2 DEF Over
  <2> QED
    BY <1>2, <2>2, <2>3, <2>4 DEF Frees, Sound
<1>9. /\ packing.memories # {} => Max(packing.memories) \in packing.memories
      /\ Droppable # {} => Min(Droppable) \in Droppable
  <2>1. PICK m \in Nat, n \in Nat : m = Len(packInput.memories) /\ DOMAIN packInput.memories = 1..m
                                    /\ n = Len(packInput.history) /\ DOMAIN packInput.history = 1..n
    BY MemoryFacts, HistoryFacts DEF Given
  <2>2. packing.memories \subseteq 1..m /\ Droppable \subseteq 1..n
    BY <1>1, <2>1 DEF Droppable
  <2>3. PICK A, B : A = packing.memories /\ B = Droppable
    OBVIOUS
  <2>4. IsFiniteSet(A) /\ A \subseteq Int
    <3>1. IsFiniteSet(A)
      BY <2>2, <2>3, PlacesFinite
    <3> QED
      BY <2>2, <2>3, <3>1
  <2>5. IsFiniteSet(B) /\ B \subseteq Int
    <3>1. IsFiniteSet(B)
      BY <2>2, <2>3, PlacesFinite
    <3> QED
      BY <2>2, <2>3, <3>1
  <2>6. A # {} => Max(A) \in A
    BY <2>4, MaxFacts
  <2>7. B # {} => Min(B) \in B
    BY <2>5, MinFacts
  <2> QED
    BY <2>3, <2>6, <2>7
<1>10. MinChunks \in Nat /\ (Len(packing.sources) > MinChunks => packing.sources # <<>>)
  <2>1. MinChunks \in Nat /\ Len(packing.sources) \in Nat /\ Len(<<>>) = 0
    BY <1>1, PackNumbers
  <2> QED
    BY <2>1
<1>11. \/ p = ShedSource /\ packing.sources # <<>>
       \/ packing.memories # {}
          /\ p = [packing EXCEPT !.memories = @ \ {Max(packing.memories)},
                                 !.excess = LeftAfter(packInput.memories[Max(packing.memories)].tokens)]
       \/ Droppable # {}
          /\ p = [packing EXCEPT !.history = @ \ {Min(Droppable)},
                                 !.excess = LeftAfter(packInput.history[Min(Droppable)].tokens)]
       \/ /\ p = [packing EXCEPT !.summary = NoSummary, !.excess = LeftAfter(packing.summary.tokens)]
          /\ packing.sources = <<>> /\ packing.memories = {} /\ Droppable = {} /\ packing.summary.tokens > 0
  <2> HIDE DEF ShedSource, LeftAfter, Droppable, NoSummary
  <2> QED
    BY <1>2, <1>10, Zenon DEF Shedding, Sheddable
<1> QED
  BY <1>5, <1>6, <1>7, <1>8, <1>9, <1>11

-----------------------------------------------------------------------------
(* The packing of the prompt: the invariant. *)

\* While it is shed, the prompt is over its budget by no more than the excess that is left;
\* after that it fits.  Else nothing is left to shed, or something was counted as too much.
Fitted(p, passes) == Prompt(p) <= PromptBudget \/ Bare(p) \/ (passes = FitPasses + 1 /\ Over(p))

PackInv ==
    /\ Given /\ packing \in Packings
    /\ packPhase \in {"ranked", "packed", "fitting", "shedding", "done"} /\ packPasses \in 0..FitPasses + 1
    /\ packPhase \in {"ranked", "packed"} => packPasses = 0
    /\ Numbered(packing.sources)
    /\ packPhase # "ranked" => Sound(packing)
    /\ packPhase = "shedding" => Over(packing) \/ Bare(packing) \/ Measured <= PromptBudget + packing.excess
    /\ packPhase = "fitting" /\ packPasses > 0 => Over(packing) \/ Bare(packing) \/ Measured <= PromptBudget
    /\ packPhase = "done" => Fitted(packing, packPasses)

LEMMA PackInvInit == PackInit => PackInv
<1> SUFFICES ASSUME PackInit PROVE PackInv
  OBVIOUS
<1>1. PICK n \in 0..MaxChunks :
        \E kinds \in [1..n -> ChunkKinds], copies \in [1..n -> {"none", "exact", "near"}],
           memories \in Memories, history \in Histories, summary \in Summaries, extra \in Overheads :
          packInput = [chunks |-> [i \in 1..n |-> [tokens |-> kinds[i].tokens, exact |-> kinds[i].exact,
                          score |-> kinds[i].score, copy |-> copies[i], rank |-> i]],
                       memories |-> memories, history |-> history,
                       summary |-> summary, extra |-> extra]
  BY ZenonT(45) DEF PackInit
<1>2. PICK kinds \in [1..n -> ChunkKinds], copies \in [1..n -> {"none", "exact", "near"}],
           memories \in Memories, history \in Histories, summary \in Summaries, extra \in Overheads :
        packInput = [chunks |-> [i \in 1..n |-> [tokens |-> kinds[i].tokens, exact |-> kinds[i].exact,
                        score |-> kinds[i].score, copy |-> copies[i], rank |-> i]],
                     memories |-> memories, history |-> history,
                     summary |-> summary, extra |-> extra]
  BY <1>1
<1>3. PICK chunks : chunks = [i \in 1..n |-> [tokens |-> kinds[i].tokens, exact |-> kinds[i].exact,
                                              score |-> kinds[i].score, copy |-> copies[i], rank |-> i]]
  OBVIOUS
<1>4. n \in Nat /\ \A i \in 1..n : i \in 1..MaxChunks
  BY PackNumbers
<1>5. chunks \in Seq(Chunk)
  <2>1. \A i \in 1..n : [tokens |-> kinds[i].tokens, exact |-> kinds[i].exact, score |-> kinds[i].score,
                          copy |-> copies[i], rank |-> i] \in Chunk
    BY <1>4 DEF Chunk
  <2> QED
    BY <1>3, <1>4, <2>1
<1>6. \A i \in DOMAIN chunks : chunks[i].rank = i
  BY <1>3
<1>7. packInput.chunks = chunks /\ packInput.memories = memories /\ packInput.history = history
      /\ packInput.summary = summary /\ packInput.extra = extra
  BY <1>2, <1>3
<1>8. Found
  BY <1>5, <1>6, <1>7 DEF Found
<1>9. memories \in MemoryType /\ history \in HistoryType
  BY PackAssumption DEF PackAssumption, HistoryType, MemoryType
<1>10. summary \in Size /\ extra \in Int
  BY PackNumbers DEF Size
<1>11. Given
  BY <1>7, <1>8, <1>9, <1>10 DEF Given
<1>12. packing = [sources |-> <<>>, dropped |-> <<>>, memories |-> {}, history |-> {},
                  summary |-> NoSummary, excess |-> 0]
       /\ packPhase = "ranked" /\ packPasses = 0
  BY DEF PackInit
<1>13. packing \in Packings
  <2>1. PICK e : e = <<>>
    OBVIOUS
  <2>2. e \in Seq(Chunk) /\ e \in Seq(Drops)
    BY <2>1
  <2> QED
    BY <1>12, <2>1, <2>2 DEF Packings, NoSummary, Size
<1>14. Numbered(packing.sources)
  BY <1>12 DEF Numbered
<1>15. packPasses \in 0..FitPasses + 1
  BY <1>12, PackNumbers
<1> QED
  BY <1>11, <1>12, <1>13, <1>14, <1>15 DEF PackInv

\* What was packed is kept in order or gone, every chunk once.
LEMMA PackedSources ==
    ASSUME Found, NEW used
    PROVE  LET kept    == InOrder(PackSources(used).kept)
               dropped == [i \in DOMAIN Copies |-> Drop(Copies[i], "duplicate_exact")] \o PackSources(used).dropped
           IN  /\ kept \in Seq(Chunk) /\ dropped \in Seq(Drops) /\ Numbered(kept)
               /\ Len(kept) + Len(dropped) = Len(packInput.chunks)
               /\ ToSet(kept) \cup Gone(dropped) = ToSet(packInput.chunks)
<1>1. PICK r : r = PackSources(used)
  OBVIOUS
<1>2. /\ r.kept \in Seq(Chunk) /\ r.dropped \in Seq(Drops) /\ Len(r.kept) + Len(r.dropped) = Len(Ranked)
      /\ ToSet(r.kept) \cup Gone(r.dropped) = ToSet(Ranked) /\ Once(r.kept)
  BY <1>1, PackSourcesFacts DEF AllTaken, Taken
<1>3. /\ Copies \in Seq(Chunk) /\ Len(Ranked) + Len(Copies) = Len(packInput.chunks)
      /\ ToSet(Ranked) \cup ToSet(Copies) = ToSet(packInput.chunks) /\ Distinct(ToSet(packInput.chunks))
  BY RankedFacts
<1>4. PICK S : S = ToSet(r.kept)
  OBVIOUS
<1>5. S \in SUBSET Chunk /\ IsFiniteSet(S) /\ Cardinality(S) = Len(r.kept) /\ TotalOrder(Ranking, S)
  <2>1. S \in SUBSET Chunk /\ S \subseteq ToSet(packInput.chunks)
    <3>1. S \subseteq ToSet(packInput.chunks)
      BY <1>2, <1>3, <1>4
    <3>2. ToSet(packInput.chunks) \subseteq Chunk
      BY DEF Found, ToSet
    <3> QED
      BY <3>1, <3>2
  <2>2. Distinct(S)
    BY <1>3, <2>1 DEF Distinct
  <2> QED
    BY <1>2, <1>4, <2>1, <2>2, OnceCounts, RankingTotal
<1>6. PICK kept : kept = Sorted(S, Ranking)
  OBVIOUS
<1>7. kept = InOrder(r.kept)
  BY <1>4, <1>6 DEF InOrder, Ranking
<1>8. /\ kept \in Seq(Chunk) /\ Len(kept) = Len(r.kept) /\ ToSet(kept) = ToSet(r.kept)
      /\ \A i, j \in DOMAIN kept : i < j => <<kept[i], kept[j]>> \in Ranking
  BY <1>4, <1>5, <1>6, InSequence
<1>9. Numbered(kept)
  BY <1>8 DEF Numbered, Ranking
<1>10. PICK copies : copies = [i \in DOMAIN Copies |-> Drop(Copies[i], "duplicate_exact")]
  OBVIOUS
<1>11. copies \in Seq(Drops) /\ Len(copies) = Len(Copies) /\ Gone(copies) = ToSet(Copies)
  <2>1. PICK n \in Nat : n = Len(Copies) /\ DOMAIN Copies = 1..n
    BY <1>3
  <2>2. ASSUME NEW i \in 1..n PROVE copies[i] \in Drops /\ copies[i].chunk = Copies[i]
    <3>1. Copies[i] \in Chunk /\ copies[i] = Drop(Copies[i], "duplicate_exact")
      BY <1>3, <1>10, <2>1
    <3> QED
      BY <3>1 DEF Drop, Drops, Reasons
  <2>3. DOMAIN copies = 1..n /\ copies = [i \in 1..n |-> copies[i]]
    BY <1>10, <2>1
  <2> HIDE DEF Drops
  <2>4. copies \in Seq(Drops) /\ Len(copies) = n
    BY <2>2, <2>3
  <2>5. Gone(copies) = ToSet(Copies)
    <3>1. ToSet(copies) = {copies[i] : i \in 1..n} /\ ToSet(Copies) = {Copies[i] : i \in 1..n}
      BY <2>1, <2>3 DEF ToSet
    <3>2. Gone(copies) = {copies[i].chunk : i \in 1..n}
      BY <3>1 DEF Gone
    <3> QED
      BY <2>2, <3>1, <3>2
  <2> QED
    BY <2>1, <2>4, <2>5
<1>12. PICK dropped : dropped = copies \o r.dropped
  OBVIOUS
<1>13. dropped \in Seq(Drops) /\ ToSet(dropped) = ToSet(copies) \cup ToSet(r.dropped)
  BY <1>2, <1>11, <1>12, JoinSet
<1>14. Gone(dropped) = Gone(copies) \cup Gone(r.dropped)
  BY <1>13 DEF Gone
<1>15. Len(kept) + Len(dropped) = Len(packInput.chunks)
  <2>1. PICK a \in Nat, b \in Nat, c \in Nat : a = Len(r.kept) /\ b = Len(r.dropped) /\ c = Len(Copies)
    BY <1>2, <1>3
  <2>2. Len(dropped) = c + b
    <3>1. Len(copies \o r.dropped) = Len(copies) + Len(r.dropped)
      BY <1>2, <1>11, ConcatProperties
    <3> QED
      BY <1>11, <1>12, <2>1, <3>1
  <2>3. Len(packInput.chunks) = (a + b) + c
    BY <1>2, <1>3, <2>1
  <2>4. a + (c + b) = (a + b) + c
    OBVIOUS
  <2> QED
    BY <1>8, <2>1, <2>2, <2>3, <2>4
<1>16. ToSet(kept) \cup Gone(dropped) = ToSet(packInput.chunks)
  BY <1>2, <1>3, <1>8, <1>11, <1>14
<1> QED
  BY <1>1, <1>7, <1>8, <1>9, <1>10, <1>12, <1>13, <1>15, <1>16

LEMMA PackFacts ==
    ASSUME Given, packing \in Packings, Pack
    PROVE  \E p \in Packings : p = packing' /\ Sound(p) /\ Numbered(p.sources)
<1> DEFINE fixed    == FixedTokens + Turns(PinnedTurns)
           summary  == IF packInput.summary.tokens <= Min({SummaryBudget, Room(fixed)})
                       THEN packInput.summary ELSE NoSummary
           memories == PackMemories(fixed + summary.tokens)
           sources  == PackSources(fixed + summary.tokens + memories.spent)
           history  == PackHistory(fixed + summary.tokens + memories.spent + sources.spent)
           kept     == InOrder(sources.kept)
           dropped  == [i \in DOMAIN Copies |-> Drop(Copies[i], "duplicate_exact")] \o sources.dropped
           p == [packing EXCEPT !.sources = kept, !.dropped = dropped,
                    !.memories = memories.kept, !.history = history, !.summary = summary]
<1>1. p = packing'
  BY Zenon DEF Pack
<1>2. Found /\ packInput.memories \in MemoryType /\ packInput.history \in HistoryType /\ packInput.summary \in Size
  BY DEF Given
<1>3. /\ kept \in Seq(Chunk) /\ dropped \in Seq(Drops) /\ Numbered(kept)
      /\ Len(kept) + Len(dropped) = Len(packInput.chunks)
      /\ ToSet(kept) \cup Gone(dropped) = ToSet(packInput.chunks)
  BY <1>2, PackedSources, Zenon
<1>4. memories.kept \in SUBSET DOMAIN packInput.memories
  BY <1>2, PackMemoriesFacts
<1>5. history \in SUBSET DOMAIN packInput.history /\ PinnedTurns \subseteq history
  <2>1. PICK always : always = PinnedTurns \cup {i \in 1..Len(packInput.history) : i > Len(packInput.history) - MinTurns}
    OBVIOUS
  <2>2. always \in SUBSET DOMAIN packInput.history /\ PinnedTurns \subseteq always
    BY <1>2, <2>1, HistoryFacts DEF PinnedTurns
  <2>3. PICK u : u = fixed + summary.tokens + memories.spent + sources.spent
    OBVIOUS
  <2>4. history = TurnsFrom(always, u)
    BY <2>1, <2>3 DEF PackHistory
  <2>5. always \subseteq TurnsFrom(always, u) /\ TurnsFrom(always, u) \subseteq DOMAIN packInput.history
    BY <1>2, <2>2, TurnsFromFacts
  <2> QED
    BY <2>2, <2>4, <2>5
<1>6. summary \in Size
  <2>1. NoSummary \in Size
    BY DEF NoSummary, Size
  <2> QED
    BY <1>2, <2>1, Zenon
<1> HIDE DEF kept, dropped, memories, history, summary
<1>7. /\ p.sources = kept /\ p.dropped = dropped /\ p.memories = memories.kept /\ p.history = history
      /\ p.summary = summary /\ p \in Packings
  BY <1>3, <1>4, <1>5, <1>6 DEF Packings
<1> HIDE DEF p
<1>8. Sound(p) /\ Numbered(p.sources)
  BY <1>3, <1>5, <1>6, <1>7 DEF Sound
<1> QED
  BY <1>1, <1>7, <1>8

\* What is measured and what is left are the packing's, before a step and after it.
LEMMA MeasuredIs == Measured = Prompt(packing) /\ (Overcounted <=> Over(packing))
BY Zenon DEF Measured, Prompt, Overcounted, Over

LEMMA SheddableIs == ASSUME Given, packing \in Packings PROVE Sheddable <=> ~Bare(packing)
<1>1. packing.summary.tokens \in Nat
  BY DEF Packings, Size
<1>2. PICK B : B = Droppable /\ B = {i \in packing.history : ~Pinned(i)}
  BY DEF Droppable
<1>3. packing.summary.tokens > 0 <=> packing.summary.tokens # 0
  BY <1>1
<1> QED
  BY <1>2, <1>3 DEF Sheddable, Bare

LEMMA NextIs ==
    ASSUME UNCHANGED packInput
    PROVE  \A p : p = packing' => /\ Measured' = Prompt(p)
                                  /\ Over(packing)' <=> Over(p)
                                  /\ Bare(packing)' <=> Bare(p)
<1> SUFFICES ASSUME NEW p, p = packing'
             PROVE  /\ Measured' = Prompt(p)
                    /\ Over(packing)' <=> Over(p)
                    /\ Bare(packing)' <=> Bare(p)
  OBVIOUS
<1>1. Measured' = Prompt(p)
  BY DEF Measured, Prompt, Exactly
<1>2. Over(packing)' <=> Over(p)
  BY DEF Over
<1>3. Bare(packing)' <=> Bare(p)
  BY DEF Bare, Pinned
<1> QED
  BY <1>1, <1>2, <1>3

\* Two packings of one prompt: the excess is no part of it.
SamePrompt(p, q) ==
    /\ p.sources = q.sources /\ p.dropped = q.dropped /\ p.memories = q.memories
    /\ p.history = q.history /\ p.summary = q.summary

LEMMA SamePromptFacts ==
    ASSUME NEW p, NEW q, SamePrompt(p, q)
    PROVE  /\ Prompt(p) = Prompt(q) /\ (Over(p) <=> Over(q)) /\ (Bare(p) <=> Bare(q))
           /\ (Sound(q) => Sound(p)) /\ (Numbered(q.sources) => Numbered(p.sources))
<1>1. Prompt(p) = Prompt(q)
  BY DEF Prompt, SamePrompt
<1>2. Over(p) <=> Over(q)
  BY DEF Over, SamePrompt
<1>3. Bare(p) <=> Bare(q)
  BY DEF Bare, SamePrompt
<1>4. (Sound(q) => Sound(p)) /\ (Numbered(q.sources) => Numbered(p.sources))
  BY DEF Sound, SamePrompt
<1> QED
  BY <1>1, <1>2, <1>3, <1>4

\* What is given stays.
LEMMA SameInput ==
    ASSUME Given, UNCHANGED packInput, NEW p \in Packings, p = packing'
    PROVE  Given' /\ (packing \in Packings)' /\ (Sound(p) => Sound(packing)')
<1>1. Given'
  BY DEF Given, Found
<1>2. (packing \in Packings)'
  BY DEF Packings
<1>3. Sound(p) => Sound(packing)'
  BY DEF Sound, PinnedTurns, Pinned
<1> QED
  BY <1>1, <1>2, <1>3

\* What a step does to the prompt is what it does to the packing.
LEMMA PackInvStep == PackInv /\ [PackNext]_packVars => PackInv'
<1> SUFFICES ASSUME PackInv, [PackNext]_packVars PROVE PackInv'
  OBVIOUS
<1> DEFINE Phases == {"ranked", "packed", "fitting", "shedding", "done"}
<1>1. /\ Given /\ packing \in Packings /\ packPhase \in Phases /\ packPasses \in 0..FitPasses + 1
      /\ packPhase \in {"ranked", "packed"} => packPasses = 0
      /\ Numbered(packing.sources)
      /\ packPhase # "ranked" => Sound(packing)
      /\ packPhase = "shedding" => Over(packing) \/ Bare(packing) \/ Measured <= PromptBudget + packing.excess
      /\ packPhase = "fitting" /\ packPasses > 0 => Over(packing) \/ Bare(packing) \/ Measured <= PromptBudget
      /\ packPhase = "done" => Fitted(packing, packPasses)
  BY DEF PackInv
<1>2. PromptBudget \in Nat /\ FitPasses \in Nat /\ packPasses \in Nat /\ 0 \in 0..FitPasses + 1
      /\ packing.excess \in Nat /\ Prompt(packing) \in Int /\ Measured = Prompt(packing)
  <2>1. PromptBudget \in Nat /\ FitPasses \in Nat /\ packPasses \in Nat /\ 0 \in 0..FitPasses + 1
    BY <1>1, PackNumbers
  <2>2. packing.excess \in Nat
    BY <1>1 DEF Packings
  <2>3. Prompt(packing) \in Int
    BY <1>1, CostsAreInts
  <2> QED
    BY <2>1, <2>2, <2>3, MeasuredIs
<1>3. ASSUME UNCHANGED packInput, NEW p \in Packings, p = packing', Numbered(p.sources),
             packPhase' \in Phases, packPasses' \in 0..FitPasses + 1,
             packPhase' \in {"ranked", "packed"} => packPasses' = 0,
             packPhase' # "ranked" => Sound(p),
             packPhase' = "shedding" => Over(p) \/ Bare(p) \/ Prompt(p) <= PromptBudget + p.excess,
             packPhase' = "fitting" /\ packPasses' > 0 => Over(p) \/ Bare(p) \/ Prompt(p) <= PromptBudget,
             packPhase' = "done" => Fitted(p, packPasses')
      PROVE  PackInv'
  <2>1. Given' /\ (packing \in Packings)' /\ (Sound(p) => Sound(packing)')
    BY <1>1, <1>3, SameInput
  <2>2. Numbered(packing.sources)'
    BY <1>3 DEF Numbered
  <2>3. /\ Measured' = Prompt(p) /\ (Over(packing)' <=> Over(p)) /\ (Bare(packing)' <=> Bare(p))
        /\ Fitted(packing, packPasses)' <=> Fitted(p, packPasses')
    <3>1. Measured' = Prompt(p) /\ (Over(packing)' <=> Over(p)) /\ (Bare(packing)' <=> Bare(p))
      BY <1>3, NextIs
    <3>2. Prompt(packing)' = Prompt(p)
      BY <1>3 DEF Prompt, Exactly
    <3> QED
      BY <3>1, <3>2 DEF Fitted
  <2> QED
    BY <1>3, <2>1, <2>2, <2>3 DEF PackInv
<1>4. CASE Pack
  <2>1. PICK p \in Packings : p = packing' /\ Sound(p) /\ Numbered(p.sources)
    BY <1>1, <1>4, PackFacts
  <2>2. packPhase = "ranked" /\ packPhase' = "packed" /\ packInput' = packInput /\ packPasses' = packPasses
    BY <1>4 DEF Pack
  <2>3. packPasses' = 0
    BY <1>1, <2>2
  <2> QED
    BY <1>2, <1>3, <2>1, <2>2, <2>3
<1>5. CASE SuppressOverflow
  <2>1. packPhase = "packed" /\ packPhase' = "fitting" /\ packInput' = packInput /\ packPasses' = packPasses
    BY <1>5 DEF SuppressOverflow
  <2>2. PICK summary \in Size : packing' = packing \/ packing' = [packing EXCEPT !.summary = summary]
    <3>1. \E summary \in {s \in Summaries : s.tokens > 0} :
             packing' = packing \/ packing' = [packing EXCEPT !.summary = summary]
      BY <1>5 DEF SuppressOverflow
    <3>2. Summaries \subseteq Size
      BY PackNumbers DEF Size
    <3> QED
      BY <3>1, <3>2
  <2>3. PICK p : p = packing'
    OBVIOUS
  <2>4. p \in Packings /\ p.sources = packing.sources /\ p.dropped = packing.dropped /\ p.history = packing.history
    BY <1>1, <2>2, <2>3 DEF Packings
  <2>5. Sound(p) /\ Numbered(p.sources)
    BY <1>1, <2>1, <2>4 DEF Sound
  <2>6. packPasses' = 0
    BY <1>1, <2>1
  <2> QED
    BY <1>2, <1>3, <2>1, <2>3, <2>4, <2>5, <2>6
<1>6. CASE Measure
  <2>1. packPhase = "fitting" /\ packInput' = packInput
    BY <1>6 DEF Measure
  <2>2. CASE Measured <= PromptBudget \/ packPasses > FitPasses \/ ~Sheddable
    <3>1. packPhase' = "done" /\ packing' = packing /\ packPasses' = packPasses
      BY <1>6, <2>2 DEF Measure
    <3>2. CASE Measured <= PromptBudget \/ ~Sheddable
      <4>1. Fitted(packing, packPasses)
        BY <1>1, <1>2, <3>2, SheddableIs DEF Fitted
      <4> QED
        BY <1>1, <1>3, <2>1, <3>1, <4>1
    <3>3. CASE packPasses > FitPasses
      <4>1. packPasses = FitPasses + 1 /\ packPasses > 0
        BY <1>1, <1>2, <3>3
      <4>2. Fitted(packing, packPasses)
        BY <1>1, <1>2, <2>1, <4>1 DEF Fitted
      <4> QED
        BY <1>1, <1>3, <2>1, <3>1, <4>2
    <3> QED
      BY <2>2, <3>2, <3>3
  <2>3. CASE ~(Measured <= PromptBudget \/ packPasses > FitPasses \/ ~Sheddable)
    <3>1. packPhase' = "shedding" /\ packPasses' = packPasses + 1
          /\ packing' = [packing EXCEPT !.excess = Measured - PromptBudget]
      BY <1>6, <2>3 DEF Measure
    <3>2. Measured - PromptBudget \in Nat /\ packPasses' \in 0..FitPasses + 1
      BY <1>2, <2>3, <3>1
    <3>3. PICK p : p = packing'
      OBVIOUS
    <3>4. p \in Packings /\ SamePrompt(p, packing) /\ p.excess = Measured - PromptBudget
      BY <1>1, <3>1, <3>2, <3>3 DEF Packings, SamePrompt
    <3>5. Sound(p) /\ Numbered(p.sources) /\ Prompt(p) = Prompt(packing)
      BY <1>1, <2>1, <3>4, SamePromptFacts
    <3>6. Prompt(p) <= PromptBudget + p.excess
      BY <1>2, <3>4, <3>5
    <3> QED
      BY <1>3, <2>1, <3>1, <3>2, <3>3, <3>4, <3>5, <3>6
  <2> QED
    BY <2>2, <2>3
<1>7. CASE Shed
  <2>1. /\ packPhase = "shedding" /\ packing.excess > 0 /\ Sheddable /\ packing' = Shedding
        /\ packInput' = packInput /\ packPhase' = packPhase /\ packPasses' = packPasses
    BY <1>7 DEF Shed
  <2>2. PICK p : p = Shedding
    OBVIOUS
  <2>3. Frees(p)
    BY <1>1, <2>1, <2>2, ShedFacts
  <2>4. /\ p \in Packings /\ Sound(p) /\ Numbered(p.sources) /\ (Over(packing) => Over(p))
        /\ Over(p) \/ Bare(p) \/ Prompt(p) - p.excess <= Prompt(packing) - packing.excess
    BY <2>3 DEF Frees
  <2>5. p.excess \in Int /\ Prompt(p) \in Int
    BY <1>1, <2>4, CostsAreInts
  <2>6. Over(packing) \/ Prompt(packing) <= PromptBudget + packing.excess
    BY <1>1, <1>2, <2>1, SheddableIs
  <2>7. Over(p) \/ Bare(p) \/ Prompt(p) <= PromptBudget + p.excess
    <3>1. PICK a \in Int, b \in Int, x \in Int, y \in Int, m \in Int :
            a = Prompt(p) /\ b = Prompt(packing) /\ x = p.excess /\ y = packing.excess /\ m = PromptBudget
      BY <1>2, <2>5
    <3>2. a - x <= b - y /\ b <= m + y => a <= m + x
      OBVIOUS
    <3> QED
      BY <2>4, <2>6, <3>1, <3>2
  <2> QED
    BY <1>1, <1>3, <2>1, <2>2, <2>4, <2>7
<1>8. CASE Remeasure
  <2>1. /\ packPhase = "shedding" /\ (packing.excess = 0 \/ ~Sheddable) /\ packPhase' = "fitting"
        /\ packing' = [packing EXCEPT !.excess = 0] /\ packInput' = packInput /\ packPasses' = packPasses
    BY <1>8 DEF Remeasure
  <2>2. PICK p : p = packing'
    OBVIOUS
  <2>3. p \in Packings /\ SamePrompt(p, packing)
    BY <1>1, <2>1, <2>2 DEF Packings, SamePrompt
  <2>4. /\ Sound(p) /\ Numbered(p.sources) /\ Prompt(p) = Prompt(packing)
        /\ (Over(p) <=> Over(packing)) /\ (Bare(p) <=> Bare(packing))
    BY <1>1, <2>1, <2>3, SamePromptFacts
  <2>5. Over(p) \/ Bare(p) \/ Prompt(p) <= PromptBudget
    <3>1. CASE ~Sheddable
      BY <1>1, <2>4, <3>1, SheddableIs
    <3>2. CASE packing.excess = 0
      <4>1. Over(packing) \/ Bare(packing) \/ Prompt(packing) <= PromptBudget + 0
        BY <1>1, <1>2, <2>1, <3>2
      <4> QED
        BY <1>2, <2>4, <4>1
    <3> QED
      BY <2>1, <3>1, <3>2
  <2> QED
    BY <1>1, <1>3, <2>1, <2>2, <2>3, <2>4, <2>5
<1>9. CASE UNCHANGED packVars
  <2>1. /\ packInput' = packInput /\ packing' = packing /\ packPhase' = packPhase /\ packPasses' = packPasses
    BY <1>9 DEF packVars
  <2> QED
    BY <1>1, <1>2, <1>3, <2>1
<1> QED
  BY <1>4, <1>5, <1>6, <1>7, <1>8, <1>9 DEF PackNext

LEMMA PackInvHonest == PackInv => PackingIsHonest /\ PackTypeOK
<1> SUFFICES ASSUME PackInv PROVE PackingIsHonest /\ PackTypeOK
  OBVIOUS
<1>1. packing.sources \in Seq(Chunk) /\ packing.dropped \in Seq(Drops) /\ Given
  BY DEF PackInv, Packings
<1>2. NoChunkVanishes
  <2> SUFFICES ASSUME packPhase # "ranked"
               PROVE  /\ Len(packing.sources) + Len(packing.dropped) = Len(packInput.chunks)
                      /\ {packing.sources[i] : i \in DOMAIN packing.sources}
                         \cup {packing.dropped[i].chunk : i \in DOMAIN packing.dropped}
                         = {packInput.chunks[i] : i \in DOMAIN packInput.chunks}
    BY DEF NoChunkVanishes
  <2>1. Sound(packing)
    BY DEF PackInv
  <2>2. /\ {packing.sources[i] : i \in DOMAIN packing.sources} = ToSet(packing.sources)
        /\ {packInput.chunks[i] : i \in DOMAIN packInput.chunks} = ToSet(packInput.chunks)
    BY DEF ToSet
  <2>3. {packing.dropped[i].chunk : i \in DOMAIN packing.dropped} = Gone(packing.dropped)
    BY DEF Gone, ToSet
  <2> QED
    BY <2>1, <2>2, <2>3 DEF Sound
<1>3. MarkersFollowRank
  BY DEF PackInv, Numbered, MarkersFollowRank
<1>4. PinnedStays
  BY DEF PackInv, Sound, PinnedStays
<1>5. FitsUnlessPinned
  <2>1. packing \in Packings
    BY DEF PackInv
  <2>2. Packed => Fitted(packing, packPasses)
    BY DEF PackInv, Packed
  <2> QED
    BY <1>1, <2>1, <2>2, MeasuredIs, SheddableIs DEF FitsUnlessPinned, Fitted
<1>6. PackTypeOK
  BY <1>1 DEF PackInv, Packings, PackTypeOK, Drops, Size
<1> QED
  BY <1>2, <1>3, <1>4, <1>5, <1>6 DEF PackingIsHonest

\* Whatever is retrieved, remembered and said, every chunk is cited or dropped once and the
\* markers follow its rank, what is pinned stays, and the prompt fits its budget when the
\* assembler stops, has nothing left to shed, or used every pass on what was counted as too much.
THEOREM PackingHonest == PackSpec => []PackingIsHonest
<1>1. PackInv /\ [PackNext]_packVars => PackInv'
  BY PackInvStep
<1>2. PackInv => PackingIsHonest
  BY PackInvHonest
<1> QED
  BY <1>1, <1>2, PackInvInit, PTL DEF PackSpec

\* The packing is what PackTypeOK says.
THEOREM PackTypes == PackSpec => []PackTypeOK
<1>1. PackInv /\ [PackNext]_packVars => PackInv'
  BY PackInvStep
<1>2. PackInv => PackTypeOK
  BY PackInvHonest
<1> QED
  BY <1>1, <1>2, PackInvInit, PTL DEF PackSpec
=============================================================================
