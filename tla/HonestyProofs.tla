---------------------------- MODULE HonestyProofs ----------------------------
(***************************************************************************)
(* Proofs about the chunks in the index (ChunkUpsert): NoTextTwice,        *)
(* NothingIsLeftOver and EveryTextHasAHome, for any documents, drafts and  *)
(* near-duplicates, any number of runs and failures, and either kind of    *)
(* upserter; about the verdict of an evaluation (EvalRun): a green gate is *)
(* earned, for any golden set, limits and outcomes; about the transcript   *)
(* the browser shows (WebChat): it is what the API said, for any turns,    *)
(* retries, failures and requests of the sidebar; and about its reader of  *)
(* the event stream (SseFrames): the frames are those of the text read as  *)
(* a whole, for any text and any way to cut it into chunks, unless a chunk *)
(* ended within a pair of carriage return and line feed.                   *)
(***************************************************************************)
EXTENDS ChunkUpsert, EvalRun, WebChat, SseFrames, DataLemmas

-----------------------------------------------------------------------------
(* The verdict of an evaluation. *)

\* What becomes of one item.
WorkType == [at       : {"queued", "running", "scored", "skipped"},
             scores   : [Metrics -> Unmeasured..Full],
             failures : SUBSET (Metrics \cup {"timeout", "error"})]

\* The gate was passed by right.
Earned ==
    evalRun.passed /\ limits.gate =>
      /\ \A i \in Results : work[i].scores["acl_leak"] = Full
      /\ Total("refusal_correct") >= HardRefusal * Cardinality(Results)

FailedFirst ==
    \A k, l \in DOMAIN reports.worst : k < l /\ ~Passed(reports.worst[l]) => ~Passed(reports.worst[k])

EvalInv ==
    /\ limits \in Limits /\ selection \in Seq(ToSet(Golden))
    /\ work \in [DOMAIN selection -> WorkType]
    /\ \A i \in Results : \A m \in {"acl_leak", "refusal_correct"} : work[i].scores[m] \in {0, Full}
    /\ evalRun \in [phase     : {"items", "gather", "gate", "report", "persist", "over", "aborted"},
                    aggregate : [Metrics -> Int], failed : SUBSET Metrics,
                    leaked    : SUBSET DOMAIN selection, passed : BOOLEAN]
    /\ evalRun.phase \notin {"items", "aborted"} => Results \cup Skipped = DOMAIN selection
    /\ evalRun.phase \in {"report", "persist", "over"} => Earned
    /\ evalRun.phase \notin {"persist", "over"} => reports.worst = <<>>
    /\ FailedFirst
    /\ reports \in [worst : Seq(DOMAIN selection), regressed : SUBSET DOMAIN selection,
                    fixed : SUBSET DOMAIN selection, stored : BOOLEAN]
    /\ view \in [status : {"unread", "missing", "shown"}, count : Nat, results : Nat]

\* The items of a run are numbered, and so finitely many.
LEMMA IndexFacts ==
    ASSUME selection \in Seq(ToSet(Golden))
    PROVE  /\ DOMAIN selection = 1..Len(selection) /\ Len(selection) \in Nat
           /\ IsFiniteSet(DOMAIN selection)
           /\ \A S \in SUBSET DOMAIN selection : IsFiniteSet(S) /\ Cardinality(S) \in Nat
                                                 /\ (Cardinality(S) = 0 <=> S = {})
<1>1. DOMAIN selection = 1..Len(selection) /\ Len(selection) \in Nat
  OBVIOUS
<1>2. IsFiniteSet(1..Len(selection))
  BY <1>1, FS_Interval
<1> QED
  BY <1>1, <1>2, FS_Subset, FS_CardinalityType, FS_EmptySet

LEMMA GoldenIsSeq == Golden \in Seq(ToSet(Golden)) /\ DOMAIN Golden = 1..Len(Golden) /\ Len(Golden) \in Nat
                     /\ \A k \in DOMAIN Golden : Golden[k] \in ToSet(Golden)
<1>1. DOMAIN Golden = 1..Len(Golden) /\ Len(Golden) \in Nat
  BY EvalAssumption
<1>2. \A k \in DOMAIN Golden : Golden[k] \in ToSet(Golden)
  BY <1>1 DEF ToSet
<1>3. Golden = [k \in 1..Len(Golden) |-> Golden[k]]
  BY <1>1, EvalAssumption
<1> QED
  BY <1>1, <1>2, <1>3

\* What select_items keeps are items of the golden set.
LEMMA SelectedTyped ==
    ASSUME NEW wanted \in SUBSET DOMAIN Golden
    PROVE  Selected(wanted) \in Seq(ToSet(Golden))
<1> DEFINE R == {e \in wanted \X wanted : e[1] < e[2]}
           order == InOrder(wanted, LAMBDA i, j : i < j)
<1>1. wanted \subseteq Int /\ IsFiniteSet(wanted)
  <2>1. IsFiniteSet(1..Len(Golden)) /\ DOMAIN Golden = 1..Len(Golden)
    BY GoldenIsSeq, FS_Interval
  <2> QED
    BY <2>1, GoldenIsSeq, FS_Subset
<1>2. TotalOrder(R, wanted)
  BY <1>1 DEF TotalOrder
<1>3. PICK q : q \in Orders(wanted, R)
  BY <1>1, <1>2, OrderExists
<1>4. q \in [1..Cardinality(wanted) -> wanted] /\ \A k, l \in DOMAIN q : k < l => q[k] < q[l]
  BY <1>3 DEF Orders
<1>5. order \in [1..Cardinality(wanted) -> wanted]
  BY <1>4, Zenon DEF InOrder
<1>6. Cardinality(wanted) \in Nat
  BY <1>1, FS_CardinalityType
<1>7. Selected(wanted) = [k \in DOMAIN order |-> Golden[order[k]]]
  BY Zenon DEF Selected
<1> HIDE DEF order
<1>8. DOMAIN order = 1..Cardinality(wanted) /\ \A k \in DOMAIN order : Golden[order[k]] \in ToSet(Golden)
  BY <1>5, GoldenIsSeq
<1> QED
  BY <1>6, <1>7, <1>8

\* The state that a step leaves alone says the same.
LEMMA KeptWork ==
    ASSUME UNCHANGED <<limits, selection, work>>
    PROVE  /\ Results' = Results /\ Skipped' = Skipped
           /\ \A m : Total(m)' = Total(m)
           /\ \A i : Passed(i)' = Passed(i)
BY DEF Results, Skipped, Total, Measured, Passed

LEMMA EvalInit0 == EvalInit => EvalInv
<1> SUFFICES ASSUME EvalInit PROVE EvalInv
  OBVIOUS
<1> USE DEF EvalInit
<1>1. selection \in Seq(ToSet(Golden))
  BY SelectedTyped
<1>2. NoScores \in [Metrics -> Unmeasured..Full] /\ NoScores \in [Metrics -> Int]
  BY EvalAssumption DEF NoScores, Unmeasured
<1>3. Queued \in WorkType
  BY <1>2 DEF Queued, WorkType
<1>4. work \in [DOMAIN selection -> WorkType]
  BY <1>3
<1>5. Results = {}
  BY DEF Results, Queued
<1>6. evalRun = NoRun /\ reports = NoReport
  OBVIOUS
<1>7. reports.worst = <<>> /\ evalRun.phase = "items"
  BY <1>6 DEF NoRun, NoReport
<1>8. /\ evalRun \in [phase     : {"items", "gather", "gate", "report", "persist", "over", "aborted"},
                    aggregate : [Metrics -> Int], failed : SUBSET Metrics,
                    leaked    : SUBSET DOMAIN selection, passed : BOOLEAN]
      /\ reports \in [worst : Seq(DOMAIN selection), regressed : SUBSET DOMAIN selection,
                    fixed : SUBSET DOMAIN selection, stored : BOOLEAN]
      /\ view \in [status : {"unread", "missing", "shown"}, count : Nat, results : Nat]
  BY <1>2, <1>6 DEF NoRun, NoReport
<1>9. FailedFirst
  BY <1>7 DEF FailedFirst
<1> QED
  BY <1>1, <1>4, <1>5, <1>7, <1>8, <1>9 DEF EvalInv

\* A metric is never more than Full, and the leak and the refusal are always measured.
LEMMA ScoresTyped ==
    ASSUME NEW item, NEW outcome, NEW quality \in {Unmeasured, 0, Full}
    PROVE  /\ ScoresOf(item, outcome, quality) \in [Metrics -> Unmeasured..Full]
           /\ ScoresOf(item, outcome, quality)["acl_leak"] \in {0, Full}
           /\ ScoresOf(item, outcome, quality)["refusal_correct"] \in {0, Full}
<1>1. Full \in Nat /\ {Unmeasured, 0, Full} \subseteq Unmeasured..Full
  BY EvalAssumption DEF Unmeasured
<1>2. /\ LeakScore(outcome) \in {0, Full} /\ RefusalScore(item, outcome) \in {0, Full}
      /\ Expected(item.tool, outcome.called) \in {Unmeasured, 0, Full}
      /\ Expected(item.documents, outcome.found) \in {Unmeasured, 0, Full}
  BY DEF LeakScore, RefusalScore, Expected
<1> DEFINE score(m) == CASE m = "acl_leak"         -> LeakScore(outcome)
                         [] m = "refusal_correct"  -> RefusalScore(item, outcome)
                         [] m = "tool_correct"     -> Expected(item.tool, outcome.called)
                         [] m = "retrieval_recall" -> Expected(item.documents, outcome.found)
                         [] m = "quality"          -> IF ~item.refusal /\ outcome.answered
                                                      THEN quality ELSE Unmeasured
<1>3. \A m \in Metrics : score(m) \in {Unmeasured, 0, Full}
  BY <1>2 DEF Metrics
<1>4. /\ "acl_leak" \in Metrics /\ "refusal_correct" \in Metrics
      /\ score("acl_leak") = LeakScore(outcome) /\ score("refusal_correct") = RefusalScore(item, outcome)
  BY DEF Metrics
<1>5. ScoresOf(item, outcome, quality) = [m \in Metrics |-> score(m)]
  BY DEF ScoresOf
<1> HIDE DEF score
<1> QED
  BY <1>1, <1>2, <1>3, <1>4, <1>5

\* While items are running nothing is decided yet.
LEMMA ItemKeeps ==
    ASSUME EvalInv, evalRun.phase = "items", UNCHANGED <<limits, selection, evalRun, reports, view>>,
           work' \in [DOMAIN selection -> WorkType],
           \A i \in Results' : \A m \in {"acl_leak", "refusal_correct"} : work'[i].scores[m] \in {0, Full}
    PROVE  EvalInv'
<1>1. reports.worst = <<>>
  BY DEF EvalInv
<1>2. FailedFirst'
  BY <1>1 DEF FailedFirst
<1> QED
  BY <1>2 DEF EvalInv

LEMMA BeginItemStep == ASSUME EvalInv, NEW i \in DOMAIN selection, BeginItem(i) PROVE EvalInv'
<1>1. /\ evalRun.phase = "items" /\ UNCHANGED <<limits, selection, evalRun, reports, view>>
      /\ work' = [work EXCEPT ![i].at = IF selection[i].tool /\ ~limits.live THEN "skipped" ELSE "running"]
  BY DEF BeginItem
<1>2. work \in [DOMAIN selection -> WorkType]
  BY DEF EvalInv
<1>3. \A j \in DOMAIN selection : work'[j].scores = work[j].scores /\ (work'[j].at = "scored" => work[j].at = "scored")
  BY <1>1, <1>2 DEF WorkType
<1>4. work' \in [DOMAIN selection -> WorkType]
  <2>1. PICK w : w = [work[i] EXCEPT !.at = IF selection[i].tool /\ ~limits.live THEN "skipped" ELSE "running"]
    OBVIOUS
  <2>2. w \in WorkType /\ work' = [work EXCEPT ![i] = w]
    BY <1>1, <1>2, <2>1 DEF WorkType
  <2> QED
    BY <1>2, <2>2
<1>5. Results' \subseteq Results
  BY <1>1, <1>3 DEF Results
<1>6. \A j \in Results' : \A m \in {"acl_leak", "refusal_correct"} : work'[j].scores[m] \in {0, Full}
  BY <1>3, <1>5 DEF EvalInv, Results
<1> QED
  BY <1>1, <1>4, <1>6, ItemKeeps

LEMMA ScoreItemStep ==
    ASSUME EvalInv, NEW i \in DOMAIN selection, NEW outcome, NEW extra \in SUBSET {"timeout", "error"},
           NEW quality \in {Unmeasured, 0, Full}, ScoreItem(i, outcome, extra, quality),
           evalRun.phase = "items", UNCHANGED <<limits, selection, evalRun, reports, view>>
    PROVE  EvalInv'
<1> DEFINE scores == ScoresOf(selection[i], outcome, quality)
           missed == {m \in Metrics \ {"quality"} : scores[m] # Unmeasured /\ scores[m] < Full}
           done == [at |-> "scored", scores |-> scores,
                    failures |-> extra \cup missed \cup Below(selection[i], scores)]
<1>1. work' = [work EXCEPT ![i] = done]
  BY DEF ScoreItem
<1>2. Below(selection[i], scores) \subseteq Metrics
  BY DEF Below
<1>3. scores \in [Metrics -> Unmeasured..Full] /\ scores["acl_leak"] \in {0, Full}
      /\ scores["refusal_correct"] \in {0, Full}
  BY ScoresTyped
<1> HIDE DEF scores
<1>4. done \in WorkType
  BY <1>2, <1>3 DEF WorkType
<1> HIDE DEF done
<1>5. work' \in [DOMAIN selection -> WorkType]
  BY <1>1, <1>4 DEF EvalInv
<1>6. done.scores = scores
  BY DEF done
<1>7. ASSUME NEW j \in Results', NEW m \in {"acl_leak", "refusal_correct"}
      PROVE  work'[j].scores[m] \in {0, Full}
  <2>0. j \in DOMAIN selection /\ DOMAIN work = DOMAIN selection /\ work'[j].at = "scored"
    BY DEF Results, EvalInv
  <2>1. CASE j = i
    BY <2>0, <2>1, <1>1, <1>3, <1>6
  <2>2. CASE j # i
    <3>1. work'[j] = work[j] /\ j \in Results
      BY <2>0, <2>2, <1>1 DEF Results
    <3> QED
      BY <3>1 DEF EvalInv
  <2> QED
    BY <2>1, <2>2
<1> QED
  BY <1>5, <1>7, ItemKeeps

LEMMA EndItemStep == ASSUME EvalInv, NEW i \in DOMAIN selection, EndItem(i) PROVE EvalInv'
<1>1. evalRun.phase = "items" /\ UNCHANGED <<limits, selection, evalRun, reports, view>>
  BY DEF EndItem
<1>2. CASE \E outcome \in Outcomes, ragas, native \in {Unmeasured, 0, Full} :
              ScoreItem(i, outcome, {}, Judged(ragas, native))
  <2>1. PICK outcome \in Outcomes, ragas \in {Unmeasured, 0, Full}, native \in {Unmeasured, 0, Full} :
              ScoreItem(i, outcome, {}, Judged(ragas, native))
    BY <1>2
  <2>2. Judged(ragas, native) \in {Unmeasured, 0, Full}
    BY DEF Judged
  <2> QED
    BY <1>1, <2>1, <2>2, ScoreItemStep
<1>3. CASE \E why \in {"timeout", "error"} : ScoreItem(i, EmptyOutcome, {why}, Unmeasured)
  BY <1>1, <1>3, ScoreItemStep
<1> QED
  BY <1>2, <1>3 DEF EndItem

LEMMA AbortStep == ASSUME EvalInv, NEW i \in DOMAIN selection, AbortRun(i) PROVE EvalInv'
<1>1. /\ evalRun' = [evalRun EXCEPT !.phase = "aborted"]
      /\ UNCHANGED <<limits, selection, work, reports, view>> /\ evalRun.phase = "items"
  BY DEF AbortRun
<1>2. evalRun'.phase = "aborted" /\ reports.worst = <<>>
  BY <1>1 DEF EvalInv
<1>3. FailedFirst'
  BY <1>1, <1>2 DEF FailedFirst
<1> QED
  BY <1>1, <1>2, <1>3, KeptWork DEF EvalInv

LEMMA GatheredStep == ASSUME EvalInv, Gathered PROVE EvalInv'
<1>1. /\ evalRun' = [evalRun EXCEPT !.phase = "gather"] /\ Results \cup Skipped = DOMAIN selection
      /\ UNCHANGED <<limits, selection, work, reports, view>> /\ evalRun.phase = "items"
  BY DEF Gathered
<1>2. evalRun'.phase = "gather" /\ reports.worst = <<>>
  BY <1>1 DEF EvalInv
<1>3. FailedFirst'
  BY <1>1, <1>2 DEF FailedFirst
<1> QED
  BY <1>1, <1>2, <1>3, KeptWork DEF EvalInv

\* What is summed is a whole number.
LEMMA TotalTyped ==
    ASSUME EvalInv, NEW m \in Metrics
    PROVE  /\ Total(m) \in Int /\ (Measured(m) = {} => Total(m) = 0)
           /\ Cardinality(Measured(m)) \in Nat /\ (Cardinality(Measured(m)) = 0 <=> Measured(m) = {})
<1>1. Measured(m) \in SUBSET DOMAIN selection /\ Measured(m) \subseteq Results
  BY DEF Measured, Results
<1>2. IsFiniteSet(Measured(m)) /\ Cardinality(Measured(m)) \in Nat
      /\ (Cardinality(Measured(m)) = 0 <=> Measured(m) = {})
  BY <1>1, IndexFacts DEF EvalInv
<1>3. \A i \in Results : work[i].scores[m] \in Int
  BY EvalAssumption DEF EvalInv, WorkType, Results, Unmeasured
<1>4. \A i \in Measured(m) : [j \in Results |-> work[j].scores[m]][i] \in Int
  BY <1>1, <1>3
<1> QED
  BY <1>2, <1>4, SumIsInt DEF Total

LEMMA AggregateStep == ASSUME EvalInv, Aggregate PROVE EvalInv'
<1> DEFINE mean == [m \in Metrics |-> IF Measured(m) = {} THEN Unmeasured
                                      ELSE Total(m) \div Cardinality(Measured(m))]
<1>1. /\ evalRun' = [evalRun EXCEPT !.phase = "gate", !.aggregate = mean]
      /\ UNCHANGED <<limits, selection, work, reports, view>> /\ evalRun.phase = "gather"
  BY DEF Aggregate
<1>2. ASSUME NEW m \in Metrics PROVE mean[m] \in Int
  BY TotalTyped DEF Unmeasured
<1>3. mean \in [Metrics -> Int]
  BY <1>2
<1> HIDE DEF mean
<1>4. evalRun'.phase = "gate" /\ reports.worst = <<>>
  BY <1>1 DEF EvalInv
<1>5. FailedFirst'
  BY <1>1, <1>4 DEF FailedFirst
<1> QED
  BY <1>1, <1>3, <1>4, <1>5, KeptWork DEF EvalInv

\* The limit for refusals is no less than the floor that is built in.
LEMMA FloorHolds ==
    ASSUME limits \in Limits
    PROVE  LimitOf("refusal_correct") \in Nat /\ LimitOf("refusal_correct") >= HardRefusal
<1>1. limits.refusal \in Nat /\ HardRefusal \in Nat
  BY EvalAssumption
<1> DEFINE m == IF limits.refusal >= HardRefusal THEN limits.refusal ELSE HardRefusal
<1>2. m \in {limits.refusal, HardRefusal} /\ \A y \in {limits.refusal, HardRefusal} : m >= y
  BY <1>1
<1> HIDE DEF m
<1>3. LimitOf("refusal_correct") = Max({limits.refusal, HardRefusal})
  BY DEF LimitOf
<1>4. Max({limits.refusal, HardRefusal}) \in {limits.refusal, HardRefusal}
      /\ \A y \in {limits.refusal, HardRefusal} : Max({limits.refusal, HardRefusal}) >= y
  BY <1>2, Zenon DEF Max
<1> QED
  BY <1>1, <1>3, <1>4

LEMMA GateStep == ASSUME EvalInv, Gate PROVE EvalInv'
<1> DEFINE broken == {m \in Metrics : Measured(m) # {} /\ Total(m) < LimitOf(m) * Cardinality(Measured(m))}
           fine == (broken = {} /\ HardItems = {}) \/ ~limits.gate
           r == "refusal_correct"
<1>1. /\ evalRun' = [evalRun EXCEPT !.phase = "report", !.failed = broken, !.leaked = HardItems, !.passed = fine]
      /\ UNCHANGED <<limits, selection, work, reports, view>> /\ evalRun.phase = "gate"
  BY DEF Gate
<1>2. HardItems \subseteq DOMAIN selection /\ broken \subseteq Metrics /\ r \in Metrics
  BY DEF HardItems, Results, Metrics
<1>3. ASSUME broken = {}, HardItems = {}
      PROVE  /\ \A i \in Results : work[i].scores["acl_leak"] = Full
             /\ Total(r) >= HardRefusal * Cardinality(Results)
  <2>1. \A i \in Results : work[i].scores["acl_leak"] \in {0, Full} /\ ~(work[i].scores["acl_leak"] < Full)
    BY <1>3 DEF HardItems, EvalInv
  <2>2. ASSUME NEW i \in Results PROVE work[i].scores["acl_leak"] = Full
    <3>1. \A x \in {0, Full} : ~(x < Full) => x = Full
      BY EvalAssumption
    <3> QED
      BY <2>1, <3>1
  <2>3. Measured(r) = Results
    <3>1. \A x \in {0, Full} : x # Unmeasured
      BY EvalAssumption DEF Unmeasured
    <3>2. \A i \in Results : work[i].scores[r] \in {0, Full}
      BY DEF EvalInv
    <3> HIDE DEF r
    <3> QED
      BY <3>1, <3>2 DEF Measured
  <2>4. /\ Total(r) \in Int /\ Cardinality(Results) \in Nat
        /\ (Results = {} => Total(r) = 0) /\ (Cardinality(Results) = 0 <=> Results = {})
    BY <1>2, <2>3, TotalTyped
  <2>5. LimitOf(r) \in Nat /\ LimitOf(r) >= HardRefusal /\ HardRefusal \in Nat
    BY FloorHolds, EvalAssumption DEF EvalInv
  <2>6. Results # {} => Total(r) >= LimitOf(r) * Cardinality(Results)
    <3>1. Results # {} => ~(Total(r) < LimitOf(r) * Cardinality(Results))
      BY <1>2, <1>3, <2>3
    <3> QED
      BY <3>1, <2>4, <2>5
  <2>7. LimitOf(r) * Cardinality(Results) >= HardRefusal * Cardinality(Results)
    <3> DEFINE a == LimitOf(r)  b == HardRefusal  c == Cardinality(Results)
    <3>1. a - b \in Nat /\ c \in Nat /\ a \in Nat /\ b \in Nat
      BY <2>4, <2>5
    <3> HIDE DEF a, b, c
    <3>2. (a - b) * c \in Nat
      BY <3>1
    <3>3. a * c = b * c + (a - b) * c /\ b * c \in Nat
      BY <3>1
    <3>4. a * c >= b * c
      BY <3>2, <3>3
    <3> QED
      BY <3>4 DEF a, b, c
  <2>8. CASE Results = {}
    BY <2>2, <2>4, <2>5, <2>8
  <2>9. CASE Results # {}
    <3>1. /\ LimitOf(r) * Cardinality(Results) \in Int /\ HardRefusal * Cardinality(Results) \in Int
      BY <2>4, <2>5
    <3> QED
      BY <2>2, <2>4, <2>6, <2>7, <2>9, <3>1
  <2> QED
    BY <2>8, <2>9
<1> HIDE DEF broken
<1>4. evalRun'.phase = "report" /\ evalRun'.passed = fine /\ fine \in BOOLEAN /\ reports.worst = <<>>
  BY <1>1 DEF EvalInv
<1>5. Earned'
  BY <1>1, <1>3, <1>4, KeptWork DEF Earned
<1>6. FailedFirst'
  BY <1>1, <1>4 DEF FailedFirst
<1> HIDE DEF fine
<1>7. evalRun' \in [phase     : {"items", "gather", "gate", "report", "persist", "over", "aborted"},
                    aggregate : [Metrics -> Int], failed : SUBSET Metrics,
                    leaked    : SUBSET DOMAIN selection, passed : BOOLEAN]
  BY <1>1, <1>2, <1>4 DEF EvalInv
<1> QED
  BY <1>1, <1>4, <1>5, <1>6, <1>7, KeptWork DEF EvalInv

LEMMA ThreeAreFinite == ASSUME NEW a, NEW b, NEW c PROVE IsFiniteSet({a, b, c})
<1>1. IsFiniteSet({a})
  BY FS_EmptySet, FS_AddElement, {} \cup {a} = {a}
<1>2. IsFiniteSet({a} \cup {b})
  BY <1>1, FS_AddElement
<1>3. IsFiniteSet(({a} \cup {b}) \cup {c})
  BY <1>2, FS_AddElement
<1>4. ({a} \cup {b}) \cup {c} = {a, b, c}
  OBVIOUS
<1> QED
  BY <1>3, <1>4

\* Of two results one is worse.
LEMMA WorseIsOrder ==
    ASSUME EvalInv
    PROVE  TotalOrder({e \in Results \X Results : Worse(e[1], e[2])}, Results)
<1>1. Results \subseteq Int
  BY IndexFacts DEF Results, EvalInv
<1>2. ASSUME NEW i \in Results PROVE ItemScore(i) \in Int
  <2> DEFINE measured == {m \in {"acl_leak", "refusal_correct", "quality"} : work[i].scores[m] # Unmeasured}
  <2>0. \A x \in {0, Full} : x # Unmeasured
    BY EvalAssumption DEF Unmeasured
  <2>1. measured \subseteq Metrics /\ "acl_leak" \in measured
    BY <2>0 DEF Metrics, EvalInv
  <2>2. IsFiniteSet({"acl_leak", "refusal_correct", "quality"})
    BY ThreeAreFinite
  <2>3. IsFiniteSet(measured) /\ Cardinality(measured) \in Nat /\ Cardinality(measured) # 0
    BY <2>1, <2>2, FS_Subset, FS_CardinalityType, FS_EmptySet
  <2>4. work[i].scores \in [Metrics -> Unmeasured..Full]
    BY DEF EvalInv, WorkType, Results
  <2>5. \A m \in measured : work[i].scores[m] \in Int
    BY <2>1, <2>4, EvalAssumption DEF Unmeasured
  <2> HIDE DEF measured
  <2>6. SumFunctionOnSet(work[i].scores, measured) \in Int
    BY <2>3, <2>5, SumIsInt
  <2>7. 6 \div Cardinality(measured) \in Int
    BY <2>3
  <2> QED
    BY <2>6, <2>7 DEF ItemScore, measured
<1>3. \A i \in Results : Passed(i) \in BOOLEAN
  BY DEF Passed
<1> QED
  BY <1>1, <1>2, <1>3 DEF Worse, TotalOrder

\* The items shown are the first of all that have a result, the worst first.
LEMMA WorstFirstSound ==
    ASSUME EvalInv
    PROVE  /\ WorstFirst \in Seq(DOMAIN selection)
           /\ \A k, l \in DOMAIN WorstFirst : k < l => Worse(WorstFirst[k], WorstFirst[l])
<1> DEFINE R == {e \in Results \X Results : Worse(e[1], e[2])}
           order == InOrder(Results, Worse)
           n == Cardinality(Results)
           shown == Min({WorstShown, Len(order)})
<1>1. Results \subseteq DOMAIN selection /\ IsFiniteSet(Results) /\ n \in Nat
  BY IndexFacts DEF Results, EvalInv
<1>2. PICK q : q \in Orders(Results, R)
  BY <1>1, WorseIsOrder, OrderExists
<1>3. q \in [1..n -> Results] /\ \A k, l \in DOMAIN q : k < l => Worse(q[k], q[l])
  BY <1>2 DEF Orders
<1>4. order \in [1..n -> Results] /\ \A k, l \in DOMAIN order : k < l => Worse(order[k], order[l])
  BY <1>3, Zenon DEF InOrder
<1>5. WorstFirst = SubSeq(order, 1, shown)
  BY Zenon DEF WorstFirst
<1> HIDE DEF order
<1>6. order \in Seq(Results) /\ Len(order) = n
  BY <1>1, <1>4
<1>7. shown \in 0..n
  <2> DEFINE least == IF WorstShown <= n THEN WorstShown ELSE n
  <2>1. least \in {WorstShown, n} /\ \A y \in {WorstShown, n} : least <= y
    BY <1>1, EvalAssumption
  <2> HIDE DEF least
  <2>2. Min({WorstShown, n}) \in {WorstShown, n} /\ \A y \in {WorstShown, n} : Min({WorstShown, n}) <= y
    BY <2>1, Zenon DEF Min
  <2> QED
    BY <1>1, <1>6, <2>2, EvalAssumption
<1> HIDE DEF n, shown
<1>8. /\ DOMAIN WorstFirst = 1..shown /\ WorstFirst \in Seq(Results)
      /\ \A k \in 1..shown : WorstFirst[k] = order[k] /\ k \in DOMAIN order
  BY <1>1, <1>4, <1>5, <1>6, <1>7
<1>9. \A k, l \in DOMAIN WorstFirst : k < l => Worse(WorstFirst[k], WorstFirst[l])
  BY <1>4, <1>8
<1>10. WorstFirst \in Seq(DOMAIN selection)
  BY <1>1, <1>8
<1> QED
  BY <1>9, <1>10

LEMMA ReportStep == ASSUME EvalInv, NEW baseline, Report(baseline) PROVE EvalInv'
<1>1. /\ reports' = [reports EXCEPT !.worst = WorstFirst,
                        !.regressed = {i \in Results : selection[i] \in baseline.passed /\ ~Passed(i)},
                        !.fixed = {i \in Results : selection[i] \in baseline.failed /\ Passed(i)}]
      /\ evalRun' = [evalRun EXCEPT !.phase = "persist"]
      /\ UNCHANGED <<limits, selection, work, view>> /\ evalRun.phase = "report"
  BY DEF Report
<1>2. Results \subseteq DOMAIN selection
  BY DEF Results
<1>3. /\ evalRun'.phase = "persist" /\ evalRun'.passed = evalRun.passed /\ reports'.worst = WorstFirst
  BY <1>1 DEF EvalInv
<1>4. Earned'
  BY <1>1, <1>3, KeptWork DEF EvalInv, Earned
<1>5. FailedFirst'
  <2>1. \A k, l \in DOMAIN WorstFirst : k < l => Worse(WorstFirst[k], WorstFirst[l])
    BY WorstFirstSound
  <2>2. \A k, l \in DOMAIN WorstFirst : k < l /\ ~Passed(WorstFirst[l]) => ~Passed(WorstFirst[k])
    BY <2>1 DEF Worse, Passed
  <2>3. \A i : Passed(i)' = Passed(i)
    BY <1>1 DEF Passed
  <2> QED
    BY <1>3, <2>2, <2>3 DEF FailedFirst
<1>6. reports' \in [worst : Seq(DOMAIN selection), regressed : SUBSET DOMAIN selection,
                    fixed : SUBSET DOMAIN selection, stored : BOOLEAN]
  BY <1>1, <1>2, WorstFirstSound DEF EvalInv
<1> QED
  BY <1>1, <1>3, <1>4, <1>5, <1>6, KeptWork DEF EvalInv

LEMMA PersistStep == ASSUME EvalInv, Persist PROVE EvalInv'
<1>1. PICK committed \in BOOLEAN : reports' = [reports EXCEPT !.stored = committed]
  BY DEF Persist
<1>2. /\ evalRun' = [evalRun EXCEPT !.phase = "over"]
      /\ UNCHANGED <<limits, selection, work, view>> /\ evalRun.phase = "persist"
  BY DEF Persist
<1>3. evalRun'.phase = "over" /\ evalRun'.passed = evalRun.passed /\ reports'.worst = reports.worst
  BY <1>1, <1>2 DEF EvalInv
<1>4. Earned'
  BY <1>2, <1>3, KeptWork DEF EvalInv, Earned
<1>5. FailedFirst'
  <2>1. \A i : Passed(i)' = Passed(i)
    BY <1>2 DEF Passed
  <2> QED
    BY <1>3, <2>1 DEF EvalInv, FailedFirst
<1> QED
  BY <1>1, <1>2, <1>3, <1>4, <1>5, KeptWork DEF EvalInv

LEMMA ReadRunStep == ASSUME EvalInv, NEW tenant, ReadRun(tenant) PROVE EvalInv'
<1>1. UNCHANGED <<limits, selection, work, evalRun, reports>>
  BY DEF ReadRun
<1>2. Earned' = Earned /\ FailedFirst' = FailedFirst
  BY <1>1 DEF Earned, FailedFirst, Results, Total, Measured, Passed
<1>3. /\ Cardinality(Results) \in Nat
      /\ Cardinality({i \in Results : selection[i].tenant = tenant}) \in Nat
  <2>1. Results \subseteq DOMAIN selection /\ {i \in Results : selection[i].tenant = tenant} \subseteq DOMAIN selection
    BY DEF Results
  <2> QED
    BY <2>1, IndexFacts DEF EvalInv
<1>4. view' \in [status : {"unread", "missing", "shown"}, count : Nat, results : Nat]
  BY <1>3 DEF ReadRun, EvalInv
<1> QED
  BY <1>1, <1>2, <1>4, KeptWork DEF EvalInv

LEMMA EvalStutter == ASSUME EvalInv, UNCHANGED evalVars PROVE EvalInv'
<1>1. UNCHANGED <<limits, selection, work, evalRun, reports, view>>
  BY DEF evalVars
<1>2. Earned' = Earned /\ FailedFirst' = FailedFirst
  BY <1>1 DEF Earned, FailedFirst, Results, Total, Measured, Passed
<1> QED
  BY <1>1, <1>2, KeptWork DEF EvalInv

LEMMA EvalStep == EvalInv /\ [EvalNext]_evalVars => EvalInv'
<1> SUFFICES ASSUME EvalInv, [EvalNext]_evalVars PROVE EvalInv'
  OBVIOUS
<1>1. ASSUME NEW i \in DOMAIN selection, BeginItem(i) \/ EndItem(i) \/ AbortRun(i) PROVE EvalInv'
  BY <1>1, BeginItemStep, EndItemStep, AbortStep
<1>2. ASSUME NEW baseline \in Baselines, Report(baseline) PROVE EvalInv'
  BY <1>2, ReportStep
<1>3. ASSUME NEW item \in ToSet(Golden), ReadRun(item.tenant) PROVE EvalInv'
  BY <1>3, ReadRunStep
<1>4. CASE Gathered \/ Aggregate \/ Gate \/ Persist
  BY <1>4, GatheredStep, AggregateStep, GateStep, PersistStep
<1>5. CASE UNCHANGED evalVars
  BY <1>5, EvalStutter
<1> QED
  BY <1>1, <1>2, <1>3, <1>4, <1>5 DEF EvalNext

LEMMA EvalInvariant == EvalSpec => []EvalInv
<1> QED
  BY EvalInit0, EvalStep, PTL DEF EvalSpec

LEMMA EvalImplies == EvalInv => EvalTypeOK /\ GreenIsEarned
<1> SUFFICES ASSUME EvalInv PROVE EvalTypeOK /\ GreenIsEarned
  OBVIOUS
<1>1. EvalTypeOK
  BY DEF EvalInv, EvalTypeOK, WorkType
<1>2. GreenIsEarned
  BY DEF EvalInv, GreenIsEarned, Earned, FailedFirst
<1> QED
  BY <1>1, <1>2

(* An evaluation's state is always well formed: every score between unmeasured and Full, every
   failing metric and leaking item one of the run's (run_eval, EvalRun). *)
THEOREM EvalTypes == EvalSpec => []EvalTypeOK
<1> QED
  BY EvalInvariant, EvalImplies, PTL

(* For any golden set, settings, concurrency and outcomes: with the gate on, a run that passed has
   no leaking item, and its refusals were right at least as often as the built-in floor asks
   (gate_thresholds, evaluate_gate, _item_hard_failures, worst_items). *)
THEOREM GreenEarned == EvalSpec => []GreenIsEarned
<1> QED
  BY EvalInvariant, EvalImplies, PTL
-----------------------------------------------------------------------------
USE ChunkAssumption

(* What upsert_document's loop keeps. *)

\* Text t needs no place of its own beside those that are kept.
Answered(d, kept, t) ==
    \/ t \in upserts[d].owned
    \/ \E u \in registered \cup ToSet(kept) : u = t \/ (DedupeEnabled /\ Near(t, u))

LEMMA ToSetOfAppend ==
    ASSUME NEW V, NEW s \in Seq(V), NEW t \in V
    PROVE  ToSet(Append(s, t)) = ToSet(s) \cup {t}
<1>1. Len(Append(s, t)) = Len(s) + 1 /\ \A i \in 1..Len(s) : Append(s, t)[i] = s[i]
      /\ Append(s, t)[Len(s) + 1] = t
  OBVIOUS
<1>2. ToSet(s) = {s[i] : i \in 1..Len(s)} /\ ToSet(Append(s, t)) = {Append(s, t)[i] : i \in 1..Len(s) + 1}
  BY <1>1 DEF ToSet
<1> QED
  BY <1>1, <1>2

\* The loop keeps texts of the draft that nobody has, and leaves none unanswered.
LEMMA KeptSound ==
    ASSUME NEW d \in Documents, drafts[d] \in Drafts
    PROVE  /\ KeptOf(d) \in Seq(TextsOf(d))
           /\ ToSet(KeptOf(d)) \cap (registered \cup upserts[d].owned) = {}
           /\ \A t \in TextsOf(d) : Answered(d, KeptOf(d), t)
<1> DEFINE draft == drafts[d]  n == Len(draft)  V == Seq(TextsOf(d) \cup {Blank})
           Loop(F) == F = [i \in 0..n |-> IF i = 0 THEN <<>> ELSE Considered(d, F[i - 1], draft[i])]
<1>1. draft \in Seq(ToSet(draft)) /\ n \in Nat /\ <<>> \in V
  OBVIOUS
<1>2. \A i \in 1..n : draft[i] \in TextsOf(d) \cup {Blank}
  BY <1>1 DEF TextsOf, ToSet
<1>3. \A i \in 1..n, v \in V : Considered(d, v, draft[i]) \in V
  BY <1>2 DEF Considered
<1> HIDE DEF draft, n, V
<1>4. \E F \in [0..n -> V] : Loop(F)
  <2> DEFINE step == [i \in 1..n |-> [v \in V |-> Considered(d, v, draft[i])]]
  <2>1. step \in StepsOf(n, V)
    BY <1>3 DEF StepsOf
  <2> HIDE DEF step
  <2>2. PICK F \in [0..n -> V] : F[0] = <<>> /\ \A i \in 1..n : F[i] = step[i][F[i - 1]]
    <3> DEFINE none == <<>>
    <3>1. none \in V /\ n \in Nat
      BY <1>1
    <3> HIDE DEF none
    <3>2. PICK k, W, b, st : k = n /\ W = V /\ b = none /\ st = step
      OBVIOUS
    <3>3. k \in Nat /\ b \in W /\ st \in StepsOf(k, W)
      BY <2>1, <3>1, <3>2
    <3> HIDE ChunkAssumption
    <3>4. \E F \in [0..k -> W] : F[0] = b /\ \A i \in 1..k : F[i] = st[i][F[i - 1]]
      BY <3>3, Recursion
    <3> QED
      BY <3>2, <3>4 DEF none
  <2>3. ASSUME NEW i \in 0..n PROVE F[i] = IF i = 0 THEN <<>> ELSE Considered(d, F[i - 1], draft[i])
    <3>1. CASE i = 0
      BY <2>2, <3>1
    <3>2. CASE i \in 1..n
      <4>1. i - 1 \in 0..n
        BY <1>1, <3>2
      <4>2. F[i - 1] \in V /\ i # 0
        BY <2>2, <3>2, <4>1
      <4>3. step[i][F[i - 1]] = Considered(d, F[i - 1], draft[i])
        BY <3>2, <4>2 DEF step
      <4> QED
        BY <2>2, <3>2, <4>2, <4>3
    <3> QED
      BY <1>1, <3>1, <3>2
  <2>4. F = [i \in 0..n |-> F[i]]
    BY <2>2
  <2> QED
    BY <2>3, <2>4
<1>5. PICK F : Loop(F) /\ KeptOf(d) = F[n]
  <2>1. Loop(CHOOSE F : Loop(F))
    BY <1>4
  <2> QED
    BY <2>1 DEF KeptOf, draft, n
<1>6. F[0] = <<>> /\ \A i \in 1..n : F[i] = Considered(d, F[i - 1], draft[i])
  BY <1>1, <1>5
<1> DEFINE Good(v, i) == /\ v \in Seq(TextsOf(d))
                         /\ ToSet(v) \cap (registered \cup upserts[d].owned) = {}
                         /\ \A j \in 1..i : draft[j] = Blank \/ Answered(d, v, draft[j])
           S == {i \in Nat : i <= n => Good(F[i], i)}
<1>7. 0 \in S
  <2>1. <<>> \in Seq(TextsOf(d)) /\ ToSet(<<>>) = {}
    BY DEF ToSet
  <2>2. Good(F[0], 0)
    BY <1>6, <2>1
  <2> QED
    BY <2>2
<1>8. ASSUME NEW i \in Nat, i \in S PROVE i + 1 \in S
  <2> SUFFICES ASSUME i + 1 <= n PROVE Good(F[i + 1], i + 1)
    OBVIOUS
  <2> DEFINE v == F[i]  t == draft[i + 1]
  <2>1. Good(v, i) /\ i + 1 \in 1..n /\ t \in TextsOf(d) \cup {Blank}
    BY <1>1, <1>2, <1>8
  <2>2. F[i + 1] = Considered(d, v, t)
    BY <1>1, <1>6, <2>1
  <2> HIDE DEF v
  <2>3. CASE F[i + 1] = v /\ (t = Blank \/ Answered(d, v, t))
    BY <2>1, <2>3
  <2>4. CASE /\ F[i + 1] = Append(v, t) /\ t # Blank
             /\ t \notin registered \cup upserts[d].owned
    <3>1. t \in TextsOf(d) /\ ToSet(Append(v, t)) = ToSet(v) \cup {t}
      BY <2>1, <2>4, ToSetOfAppend
    <3>2. Append(v, t) \in Seq(TextsOf(d))
      BY <2>1, <3>1
    <3>3. \A j \in 1..i+1 : draft[j] = Blank \/ Answered(d, Append(v, t), draft[j])
      BY <2>1, <3>1 DEF Answered
    <3> QED
      BY <2>1, <2>4, <3>1, <3>2, <3>3
  <2> QED
    BY <2>2, <2>3, <2>4 DEF Considered, Answered
<1> HIDE DEF S
<1>9. S = Nat
  BY <1>7, <1>8, SetInduction DEF S
<1>10. Good(F[n], n)
  BY <1>1, <1>9 DEF S
<1>11. \A t \in TextsOf(d) : t # Blank /\ \E j \in 1..n : draft[j] = t
  BY <1>1 DEF TextsOf, ToSet, draft, n
<1> QED
  BY <1>5, <1>10, <1>11

-----------------------------------------------------------------------------
(* The invariants. *)

UpsertType == [at : {"idle", "probed", "write", "prune", "ended"}, owned : SUBSET Texts,
               kept : Seq(Texts), written : Nat]

\* The types, what is written of a document so far, and who registers texts.
UpsertSound(d) ==
    /\ upserts[d].written <= Len(upserts[d].kept)
    /\ upserts[d].at \in {"write", "prune"} =>
         /\ ToSet(upserts[d].kept) \subseteq TextsOf(d)
         /\ upserts[d].written <= Len(indexed[d])
         /\ \A i \in 1..upserts[d].written :
              indexed[d][i].live /\ indexed[d][i].text = upserts[d].kept[i]
         /\ upserts[d].at = "prune" => upserts[d].written = Len(upserts[d].kept)
         /\ oneForAll => ToSet(upserts[d].kept) \subseteq registered
    /\ d \in settled => upserts[d].at \in {"idle", "ended"} /\ LiveTexts(d) \subseteq TextsOf(d)

ChunkInv ==
    /\ drafts \in [Documents -> Drafts] /\ settled \subseteq Documents
    /\ indexed \in [Documents -> Seq([text : Texts, live : BOOLEAN])]
    /\ upserts \in [Documents -> UpsertType]
    /\ registered \subseteq Texts /\ happened \subseteq {"twice", "overlap", "probe", "shrunk"}
    /\ oneForAll \in BOOLEAN /\ runCount \in 1..MaxRuns /\ mishaps \in 0..MaxMishaps
    /\ ~oneForAll => registered = {}
    /\ \A d \in Documents : UpsertSound(d)

\* No two documents are in flight with upserters of their own.
Apart == ~oneForAll /\ "overlap" \notin happened => \A d, e \in InFlight : d = e

\* As long as the probe answers and upserters do not overlap: no text is live twice, a
\* probed document knows of every text that is live elsewhere, and what a document is
\* about to write is nobody else's.
Covered == DedupeEnabled /\ happened \cap {"probe", "overlap"} = {}
Disjoint(d, e) ==
    /\ LiveTexts(d) \cap LiveTexts(e) = {}
    /\ upserts[e].at = "probed" => LiveTexts(d) \subseteq upserts[e].owned \cup registered
    /\ upserts[e].at \in {"write", "prune"} =>
         /\ ToSet(upserts[e].kept) \cap LiveTexts(d) = {}
         /\ upserts[d].at \in {"write", "prune"} =>
              ToSet(upserts[e].kept) \cap ToSet(upserts[d].kept) = {}
TwiceInv == Apart /\ (Covered => \A d, e \in Documents : d # e => Disjoint(d, e))

\* Nothing is live that its document does not hold, and no document's own text is
\* said to be another's.
NoLoss == happened \cap {"probe", "overlap", "shrunk"} = {}
HomeSound(d) ==
    /\ LiveTexts(d) \subseteq TextsOf(d)
    /\ upserts[d].at = "probed" => upserts[d].owned \cap LiveTexts(d) = {}
HomeInv == NoLoss => \A d \in Documents : HomeSound(d)

\* With upserters of their own: where a text is, or will be once its document is written.
Holds(e, t)  == t \in TextsOf(e) /\ (e \notin settled \/ t \in LiveTexts(e))
Houses(e, t) == t \in TextsOf(e) /\ (e \notin settled \/ \E u \in LiveTexts(e) : u = t \/ Near(u, t))
OwnSound(d) ==
    /\ \A t \in TextsOf(d) : \E e \in Documents : Houses(e, t)
    /\ upserts[d].at = "probed" =>
         \A t \in upserts[d].owned : \E e \in Documents \ {d} : Holds(e, t)
    /\ upserts[d].at \in {"write", "prune"} => \A t \in TextsOf(d) :
         \/ \E u \in ToSet(upserts[d].kept) : u = t \/ Near(u, t)
         \/ \E e \in Documents \ {d} : Holds(e, t)
OwnInv == ~oneForAll /\ NoLoss => \A d \in Documents : OwnSound(d)

\* With one upserter: what stands for a group of texts in this run.
Stands(e, g) ==
    \/ upserts[e].at \in {"idle", "probed"} /\ LiveTexts(e) \cap g # {}
    \/ upserts[e].at = "ended" /\ e \notin settled /\ TextsOf(e) \cap g # {}
Grounded(d, g) == registered \cap g # {} \/ \E e \in Documents \ {d} : Stands(e, g)
Keeper(e, u) ==
    \/ upserts[e].at \in {"write", "prune"} /\ u \in ToSet(upserts[e].kept)
    \/ upserts[e].at = "ended" /\ u \in TextsOf(e) /\ (e \notin settled \/ u \in LiveTexts(e))
Somewhere(e, g) == LiveTexts(e) \cap g # {} \/ (e \notin settled /\ TextsOf(e) \cap g # {})
GroupSound(d, g) ==
    /\ TextsOf(d) \cap g # {} => \E e \in Documents : Somewhere(e, g)
    /\ upserts[d].at \in {"write", "prune", "ended"} /\ LiveTexts(d) \cap g # {} => registered \cap g # {}
    /\ upserts[d].at = "probed" /\ upserts[d].owned \cap g # {} => Grounded(d, g)
    /\ upserts[d].at \in {"write", "prune"} /\ TextsOf(d) \cap g # {} => Grounded(d, g)
OneOfEach == oneForAll /\ NoLoss /\ "twice" \notin happened
GroupInv ==
    OneOfEach =>
      /\ \A u \in registered : \E e \in Documents : Keeper(e, u)
      /\ \A d \in Documents, g \in Groups : GroupSound(d, g)

-----------------------------------------------------------------------------
(* What each step does to the document it is about, field by field. *)

LEMMA TextsOfAreTexts == ASSUME NEW d \in Documents, drafts[d] \in Drafts PROVE TextsOf(d) \subseteq Texts
<1>1. ASSUME NEW t \in ToSet(drafts[d]) PROVE t \in UNION {ToSet(s) : s \in Drafts}
  BY Zenon
<1> QED
  BY <1>1, Zenon DEF TextsOf, Texts

LEMMA LiveAreTexts ==
    ASSUME NEW d \in Documents, indexed[d] \in Seq([text : Texts, live : BOOLEAN])
    PROVE  LiveTexts(d) \subseteq Texts
<1>1. ASSUME NEW i \in DOMAIN indexed[d] PROVE indexed[d][i].text \in Texts
  <2> DEFINE Point == [text : Texts, live : BOOLEAN]
  <2>1. indexed[d][i] \in Point
    <3>1. indexed[d] \in Seq(Point)
      OBVIOUS
    <3> HIDE DEF Point
    <3> QED
      BY <3>1
  <2> QED
    BY <2>1
<1> QED
  BY <1>1 DEF LiveTexts

\* The documents a step is not about keep all they have.
OthersKept(d) ==
    \A e \in Documents \ {d} :
        /\ upserts'[e] = upserts[e] /\ LiveTexts(e)' = LiveTexts(e) /\ TextsOf(e)' = TextsOf(e)
        /\ e \in settled' <=> e \in settled

LEMMA OthersAreKept ==
    ASSUME NEW d \in Documents,
           \A e \in Documents \ {d} :
               /\ upserts'[e] = upserts[e] /\ indexed'[e] = indexed[e] /\ drafts'[e] = drafts[e]
               /\ e \in settled' <=> e \in settled
    PROVE  OthersKept(d)
  BY DEF OthersKept, LiveTexts, TextsOf

LEMMA OthersSound ==
    ASSUME NEW d \in Documents, NEW e \in Documents \ {d}, OthersKept(d), UpsertSound(e),
           indexed'[e] = indexed[e], oneForAll' = oneForAll,
           oneForAll => registered \subseteq registered'
    PROVE  UpsertSound(e)'
  BY DEF OthersKept, UpsertSound

\* A document is probed again: its upsert begins.
StartedOn(d) ==
    /\ OthersKept(d) /\ d \notin InFlight
    /\ LiveTexts(d)' = LiveTexts(d) /\ TextsOf(d)' = TextsOf(d) /\ d \notin settled'
    /\ upserts'[d].at = "probed"
    /\ upserts'[d].owned \subseteq UNION {LiveTexts(e) : e \in Documents \ {d}}
    /\ ~DedupeEnabled => upserts'[d].owned = {}
    /\ "probe" \notin happened' /\ DedupeEnabled =>
         (UNION {LiveTexts(e) : e \in Documents \ {d}}) \ LiveTexts(d) \subseteq upserts'[d].owned
    /\ upserts[d].at # "idle" => "twice" \in happened'
    /\ ~oneForAll /\ InFlight # {} => "overlap" \in happened'
    /\ UNCHANGED <<registered, oneForAll>> /\ happened \subseteq happened'

LEMMA BeginStep ==
    ASSUME ChunkInv, NEW d \in Documents, ProbeCorpus(d) \/ ProbeFails(d)
    PROVE  StartedOn(d) /\ UpsertSound(d)' /\ ChunkInv'
<1> DEFINE others == UNION {LiveTexts(e) : e \in Documents \ {d}}
<1>1. PICK owned \in SUBSET others :
        /\ Begin(d, owned)
        /\ ~DedupeEnabled => owned = {}
        /\ "probe" \notin happened' /\ DedupeEnabled => others \ LiveTexts(d) \subseteq owned
        /\ Uncovered(d) \subseteq happened' /\ happened \subseteq happened'
        /\ happened' \subseteq happened \cup Uncovered(d) \cup {"probe"}
        /\ mishaps' \in {mishaps, mishaps + 1} /\ mishaps' \in 0..MaxMishaps
  <2>1. CASE ProbeCorpus(d)
    BY <2>1 DEF ProbeCorpus, Owners, ChunkInv
  <2>2. CASE ProbeFails(d)
    BY <2>2 DEF ProbeFails, ChunkInv
  <2> QED
    BY <2>1, <2>2
<1>2. \A e \in Documents : LiveTexts(e) \subseteq Texts
  BY LiveAreTexts DEF ChunkInv
<1> HIDE DEF others
<1>3. /\ upserts' = [upserts EXCEPT ![d] = [at |-> "probed", owned |-> owned, kept |-> <<>>, written |-> 0]]
      /\ settled' = settled \ {d} /\ UNCHANGED <<drafts, indexed, registered, oneForAll, runCount>>
      /\ d \notin InFlight /\ owned \subseteq Texts
  BY <1>1, <1>2 DEF Begin, others
<1>4. upserts'[d] = [at |-> "probed", owned |-> owned, kept |-> <<>>, written |-> 0]
  BY <1>3 DEF ChunkInv
<1>5. upserts'[d] \in UpsertType
  <2>1. <<>> \in Seq(Texts)
    OBVIOUS
  <2>2. owned \in SUBSET Texts
    BY <1>3
  <2> QED
    BY <1>4, <2>1, <2>2 DEF UpsertType
<1>6. upserts' \in [Documents -> UpsertType] /\ \A e \in Documents \ {d} : upserts'[e] = upserts[e]
  BY <1>3, <1>5 DEF ChunkInv
<1>7. OthersKept(d)
  BY <1>3, <1>6, OthersAreKept
<1>8. LiveTexts(d)' = LiveTexts(d) /\ TextsOf(d)' = TextsOf(d)
  BY <1>3 DEF LiveTexts, TextsOf
<1>9. Uncovered(d) \subseteq {"twice", "overlap"}
      /\ (upserts[d].at # "idle" => "twice" \in Uncovered(d))
      /\ (~oneForAll /\ InFlight # {} => "overlap" \in Uncovered(d))
  BY DEF Uncovered
<1>10. StartedOn(d)
  <2>1. upserts'[d].at = "probed" /\ upserts'[d].owned = owned /\ d \notin settled'
    BY <1>3, <1>4
  <2>2. /\ upserts[d].at # "idle" => "twice" \in happened'
        /\ ~oneForAll /\ InFlight # {} => "overlap" \in happened'
    BY <1>1, <1>9
  <2>3. /\ owned \subseteq UNION {LiveTexts(e) : e \in Documents \ {d}}
        /\ "probe" \notin happened' /\ DedupeEnabled =>
             (UNION {LiveTexts(e) : e \in Documents \ {d}}) \ LiveTexts(d) \subseteq owned
    <3>1. owned \subseteq others
      OBVIOUS
    <3>2. "probe" \notin happened' /\ DedupeEnabled => others \ LiveTexts(d) \subseteq owned
      BY <1>1
    <3> QED
      BY <3>1, <3>2 DEF others
  <2> QED
    BY <1>1, <1>3, <1>7, <1>8, <2>1, <2>2, <2>3 DEF StartedOn
<1>11. UpsertSound(d)'
  BY <1>3, <1>4 DEF UpsertSound
<1>12. \A e \in Documents \ {d} : UpsertSound(e)'
  BY <1>3, <1>7, OthersSound DEF ChunkInv
<1> QED
  BY <1>1, <1>3, <1>6, <1>9, <1>10, <1>11, <1>12 DEF ChunkInv

\* The loop over the drafts decides what is kept.
Decided(d) ==
    /\ OthersKept(d) /\ upserts[d].at = "probed" /\ upserts'[d].at \in {"write", "prune"}
    /\ LiveTexts(d)' = LiveTexts(d) /\ TextsOf(d)' = TextsOf(d) /\ d \notin settled'
    /\ ToSet(upserts'[d].kept) \subseteq TextsOf(d)
    /\ ToSet(upserts'[d].kept) \cap (registered \cup upserts[d].owned) = {}
    /\ \A t \in TextsOf(d) : Answered(d, upserts'[d].kept, t)
    /\ registered' = IF oneForAll THEN registered \cup ToSet(upserts'[d].kept) ELSE {}
    /\ UNCHANGED <<oneForAll, happened>>

LEMMA DecideStep ==
    ASSUME ChunkInv, NEW d \in Documents, Decide(d)
    PROVE  Decided(d) /\ UpsertSound(d)' /\ ChunkInv'
<1> DEFINE kept == KeptOf(d)
           at == IF kept = <<>> THEN "prune" ELSE "write"
<1>1. drafts[d] \in Drafts /\ TextsOf(d) \subseteq Texts
  BY TextsOfAreTexts DEF ChunkInv
<1>2. /\ kept \in Seq(TextsOf(d)) /\ ToSet(kept) \subseteq TextsOf(d)
      /\ ToSet(kept) \cap (registered \cup upserts[d].owned) = {}
      /\ \A t \in TextsOf(d) : Answered(d, kept, t)
  BY <1>1, KeptSound DEF ToSet
<1>3. kept = <<>> => Len(kept) = 0
  OBVIOUS
<1>4. /\ upserts' = [upserts EXCEPT ![d] = [at |-> at, owned |-> {}, kept |-> kept, written |-> 0]]
      /\ registered' = (IF oneForAll THEN registered \cup ToSet(kept) ELSE {})
      /\ upserts[d].at = "probed"
      /\ UNCHANGED <<drafts, indexed, settled, oneForAll, runCount, mishaps, happened>>
  BY DEF Decide
<1>5. at \in {"write", "prune"} /\ (at = "prune" => Len(kept) = 0)
  BY <1>3
<1> HIDE DEF kept, at
<1>6. upserts'[d] = [at |-> at, owned |-> {}, kept |-> kept, written |-> 0]
  BY <1>4 DEF ChunkInv
<1>7. kept \in Seq(Texts) /\ Len(kept) \in Nat
  BY <1>1, <1>2
<1>8. upserts'[d] \in UpsertType
  BY <1>5, <1>6, <1>7 DEF UpsertType
<1>9. upserts' \in [Documents -> UpsertType] /\ \A e \in Documents \ {d} : upserts'[e] = upserts[e]
  BY <1>4, <1>8 DEF ChunkInv
<1>10. OthersKept(d)
  BY <1>4, <1>9, OthersAreKept
<1>11. LiveTexts(d)' = LiveTexts(d) /\ TextsOf(d)' = TextsOf(d)
  BY <1>4 DEF LiveTexts, TextsOf
<1>12. d \notin settled
  BY <1>4 DEF ChunkInv, UpsertSound
<1>13. Decided(d)
  <2>1. upserts'[d].kept = kept /\ upserts'[d].at = at
    BY <1>6
  <2> QED
    BY <1>2, <1>4, <1>5, <1>10, <1>11, <1>12, <2>1 DEF Decided
<1>14. UpsertSound(d)'
  <2>1. indexed'[d] = indexed[d] /\ Len(indexed[d]) \in Nat
    BY <1>4 DEF ChunkInv
  <2> QED
    BY <1>2, <1>4, <1>5, <1>6, <1>7, <1>11, <1>12, <2>1 DEF UpsertSound
<1>15. registered \subseteq registered' \/ ~oneForAll
  BY <1>4
<1>16. \A e \in Documents \ {d} : UpsertSound(e)'
  BY <1>4, <1>10, <1>15, OthersSound DEF ChunkInv
<1>17. registered' \subseteq Texts /\ (~oneForAll' => registered' = {})
  BY <1>1, <1>2, <1>4 DEF ChunkInv
<1> QED
  BY <1>4, <1>9, <1>13, <1>14, <1>16, <1>17 DEF ChunkInv

\* A batch is written over what is at its positions.
BatchWritten(d) ==
    /\ OthersKept(d) /\ upserts[d].at = "write" /\ upserts'[d].at \in {"write", "prune"}
    /\ upserts'[d].kept = upserts[d].kept
    /\ LiveTexts(d)' \subseteq LiveTexts(d) \cup ToSet(upserts[d].kept)
    /\ TextsOf(d)' = TextsOf(d) /\ d \notin settled'
    /\ UNCHANGED <<registered, oneForAll, happened>>

LEMMA WriteStep ==
    ASSUME ChunkInv, NEW d \in Documents, WriteBatch(d)
    PROVE  BatchWritten(d) /\ UpsertSound(d)' /\ ChunkInv'
<1> DEFINE Point == [text : Texts, live : BOOLEAN]
           kept == upserts[d].kept  from == upserts[d].written  old == indexed[d]
           upTo == IF from + BatchSize < Len(kept) THEN from + BatchSize ELSE Len(kept)
           size == IF upTo > Len(old) THEN upTo ELSE Len(old)
           at == IF upTo = Len(kept) THEN "prune" ELSE "write"
           new == [i \in 1..size |-> IF i \in (from + 1)..upTo THEN [text |-> kept[i], live |-> TRUE] ELSE old[i]]
<1>1. /\ upserts[d].at = "write" /\ upserts[d] \in UpsertType
      /\ indexed' = [indexed EXCEPT ![d] = new]
      /\ upserts' = [upserts EXCEPT ![d].at = at, ![d].written = upTo]
      /\ UNCHANGED <<drafts, registered, settled, oneForAll, runCount, mishaps, happened>>
  BY DEF WriteBatch, ChunkInv
<1>2. /\ old \in Seq(Point) /\ kept \in Seq(Texts) /\ from \in Nat
      /\ from <= Len(kept) /\ from <= Len(old) /\ ToSet(kept) \subseteq TextsOf(d)
      /\ oneForAll => ToSet(kept) \subseteq registered
      /\ \A i \in 1..from : old[i].live /\ old[i].text = kept[i]
  BY <1>1 DEF ChunkInv, UpsertSound, UpsertType
<1> HIDE DEF Point, kept, from, old
<1>3. /\ Len(kept) \in Nat /\ Len(old) \in Nat /\ upTo \in from..Len(kept) /\ upTo \in Nat
      /\ size \in Nat /\ upTo <= size /\ Len(old) <= size
      /\ size = upTo \/ size = Len(old)
      /\ at = "prune" => upTo = Len(kept)
      /\ at \in {"write", "prune"}
  BY <1>2
<1>4. /\ \A i \in (from + 1)..upTo : new[i].live /\ new[i].text = kept[i] /\ new[i] \in Point /\ i \in DOMAIN kept
      /\ \A i \in (1..size) \ ((from + 1)..upTo) : new[i] = old[i] /\ i \in 1..Len(old) /\ new[i] \in Point
  <2>1. ASSUME NEW i \in (from + 1)..upTo
        PROVE  new[i].live /\ new[i].text = kept[i] /\ new[i] \in Point /\ i \in DOMAIN kept
    <3>1. i \in 1..size /\ i \in 1..Len(kept)
      BY <1>2, <1>3
    <3>2. kept[i] \in Texts /\ new[i] = [text |-> kept[i], live |-> TRUE]
      BY <1>2, <3>1
    <3> QED
      BY <1>2, <3>1, <3>2 DEF Point
  <2>2. ASSUME NEW i \in (1..size) \ ((from + 1)..upTo)
        PROVE  new[i] = old[i] /\ i \in 1..Len(old) /\ new[i] \in Point
    BY <1>2, <1>3
  <2> QED
    BY <2>1, <2>2
<1> HIDE DEF upTo, size, at
<1>5. new \in Seq(Point) /\ Len(new) = size /\ DOMAIN new = 1..size
  <2>1. \A i \in 1..size : new[i] \in Point
    BY <1>4
  <2>2. DOMAIN new = 1..size /\ new = [i \in 1..size |-> new[i]]
    OBVIOUS
  <2> HIDE DEF new
  <2>3. new \in [1..size -> Point]
    BY <2>1, <2>2
  <2> QED
    BY <1>3, <2>2, <2>3
<1> HIDE DEF new
<1>6. indexed'[d] = new /\ indexed' \in [Documents -> Seq(Point)]
      /\ \A e \in Documents \ {d} : indexed'[e] = indexed[e]
  BY <1>1, <1>5 DEF ChunkInv, Point
<1>7. /\ upserts'[d].at = at /\ upserts'[d].written = upTo /\ upserts'[d].kept = kept
      /\ upserts'[d].owned = upserts[d].owned /\ upserts'[d] \in UpsertType
      /\ \A e \in Documents \ {d} : upserts'[e] = upserts[e]
  <2>1. upserts'[d] = [upserts[d] EXCEPT !.at = at, !.written = upTo]
    BY <1>1 DEF ChunkInv
  <2> QED
    BY <1>1, <1>3, <2>1 DEF ChunkInv, UpsertType, kept
<1>8. upserts' \in [Documents -> UpsertType]
  BY <1>1, <1>7 DEF ChunkInv
<1>9. OthersKept(d)
  BY <1>1, <1>6, <1>7, OthersAreKept
<1>10. LiveTexts(d)' \subseteq LiveTexts(d) \cup ToSet(kept)
  <2>1. LiveTexts(d)' = {new[i].text : i \in {j \in 1..size : new[j].live}}
    BY <1>5, <1>6 DEF LiveTexts
  <2>2. LiveTexts(d) = {old[i].text : i \in {j \in 1..Len(old) : old[j].live}}
    BY <1>2 DEF LiveTexts, old
  <2>3. ASSUME NEW i \in 1..size, new[i].live PROVE new[i].text \in LiveTexts(d) \cup ToSet(kept)
    <3>1. CASE i \in (from + 1)..upTo
      BY <1>4, <3>1 DEF ToSet
    <3>2. CASE i \notin (from + 1)..upTo
      BY <1>4, <2>2, <2>3, <3>2
    <3> QED
      BY <3>1, <3>2
  <2> QED
    BY <2>1, <2>3
<1>11. TextsOf(d)' = TextsOf(d) /\ d \notin settled'
  BY <1>1 DEF TextsOf, ChunkInv, UpsertSound
<1>12. BatchWritten(d)
  BY <1>1, <1>3, <1>7, <1>9, <1>10, <1>11 DEF BatchWritten, kept
<1>13. UpsertSound(d)'
  <2>1. ASSUME NEW i \in 1..upTo PROVE new[i].live /\ new[i].text = kept[i]
    <3>1. CASE i \in (from + 1)..upTo
      BY <1>4, <3>1
    <3>2. CASE i \in 1..from
      BY <1>2, <1>3, <1>4, <3>2
    <3> QED
      BY <1>2, <1>3, <3>1, <3>2
  <2>2. ToSet(kept) \subseteq TextsOf(d)' /\ (oneForAll' => ToSet(kept) \subseteq registered')
    BY <1>1, <1>2, <1>11
  <2>3. upTo <= Len(kept) /\ upTo <= Len(indexed'[d])
        /\ \A i \in 1..upTo : indexed'[d][i].live /\ indexed'[d][i].text = kept[i]
    BY <1>3, <1>5, <1>6, <2>1
  <2> HIDE DEF UpsertType
  <2> QED
    BY <1>3, <1>7, <1>11, <2>2, <2>3 DEF UpsertSound
<1>14. \A e \in Documents \ {d} : UpsertSound(e)'
  BY <1>1, <1>6, <1>9, OthersSound DEF ChunkInv
<1> QED
  BY <1>1, <1>6, <1>8, <1>12, <1>13, <1>14 DEF ChunkInv, Point

\* The positions left over are pruned: the upsert is over.
Pruned(d) ==
    /\ OthersKept(d) /\ upserts[d].at = "prune" /\ upserts'[d].at = "ended"
    /\ LiveTexts(d)' = ToSet(upserts[d].kept) /\ ToSet(upserts[d].kept) \subseteq TextsOf(d)
    /\ TextsOf(d)' = TextsOf(d) /\ d \notin settled
    /\ UNCHANGED <<registered, oneForAll, happened>>

LEMMA RestTyped ==
    ASSUME NEW at \in {"idle", "ended"}
    PROVE  Rest(at) \in UpsertType /\ Rest(at).written <= Len(Rest(at).kept)
<1>1. <<>> \in Seq(Texts) /\ 0 <= Len(<<>>)
  OBVIOUS
<1> QED
  BY <1>1 DEF Rest, UpsertType

LEMMA EndedUpsert ==
    ASSUME ChunkInv, NEW d \in Documents, Ends(d)
    PROVE  /\ upserts'[d].at = "ended" /\ upserts' \in [Documents -> UpsertType]
           /\ upserts'[d].written <= Len(upserts'[d].kept)
           /\ \A e \in Documents \ {d} : upserts'[e] = upserts[e]
<1>1. /\ Rest("ended").at = "ended" /\ Rest("ended") \in UpsertType
      /\ Rest("ended").written <= Len(Rest("ended").kept)
  BY RestTyped DEF Rest
<1> QED
  BY <1>1 DEF Ends, ChunkInv

LEMMA PruneStep ==
    ASSUME ChunkInv, NEW d \in Documents, Prune(d)
    PROVE  Pruned(d) /\ UpsertSound(d)' /\ ChunkInv'
<1> DEFINE Point == [text : Texts, live : BOOLEAN]
           kept == upserts[d].kept  old == indexed[d]  new == SubSeq(old, 1, Len(kept))
<1>1. /\ upserts[d].at = "prune" /\ upserts[d] \in UpsertType /\ Ends(d)
      /\ indexed' = [indexed EXCEPT ![d] = new] /\ settled' = settled \cup {d}
      /\ UNCHANGED <<drafts, registered, oneForAll, runCount, mishaps, happened>>
  BY DEF Prune, ChunkInv
<1>2. /\ old \in Seq(Point) /\ kept \in Seq(Texts)
      /\ Len(kept) <= Len(old) /\ ToSet(kept) \subseteq TextsOf(d) /\ d \notin settled
      /\ \A i \in 1..Len(kept) : old[i].live /\ old[i].text = kept[i]
  BY <1>1 DEF ChunkInv, UpsertSound, UpsertType
<1> HIDE DEF Point, kept, old
<1>3. new \in Seq(Point) /\ Len(new) = Len(kept) /\ \A i \in 1..Len(kept) : new[i] = old[i]
  BY <1>2
<1> HIDE DEF new
<1>4. indexed'[d] = new /\ indexed' \in [Documents -> Seq(Point)]
      /\ \A e \in Documents \ {d} : indexed'[e] = indexed[e]
  BY <1>1, <1>3 DEF ChunkInv, Point
<1>5. /\ upserts'[d].at = "ended" /\ upserts' \in [Documents -> UpsertType]
      /\ upserts'[d].written <= Len(upserts'[d].kept)
      /\ \A e \in Documents \ {d} : upserts'[e] = upserts[e]
  BY <1>1, EndedUpsert
<1>6. OthersKept(d)
  BY <1>1, <1>4, <1>5, OthersAreKept
<1>7. LiveTexts(d)' = ToSet(kept)
  <2>1. DOMAIN new = 1..Len(kept) /\ DOMAIN kept = 1..Len(kept)
    BY <1>2, <1>3
  <2>2. LiveTexts(d)' = {new[i].text : i \in {j \in 1..Len(kept) : new[j].live}}
    BY <1>4, <2>1 DEF LiveTexts
  <2>3. \A i \in 1..Len(kept) : new[i].live /\ new[i].text = kept[i]
    BY <1>2, <1>3
  <2>4. ToSet(kept) = {kept[i] : i \in 1..Len(kept)}
    BY <2>1 DEF ToSet
  <2> QED
    BY <2>2, <2>3, <2>4
<1>8. TextsOf(d)' = TextsOf(d)
  BY <1>1 DEF TextsOf
<1>9. Pruned(d)
  BY <1>1, <1>2, <1>5, <1>6, <1>7, <1>8 DEF Pruned, kept
<1>10. UpsertSound(d)'
  BY <1>2, <1>5, <1>7, <1>8 DEF UpsertSound
<1>11. \A e \in Documents \ {d} : UpsertSound(e)'
  BY <1>1, <1>4, <1>6, OthersSound DEF ChunkInv
<1> QED
  BY <1>1, <1>4, <1>5, <1>9, <1>10, <1>11 DEF ChunkInv, Point

\* The upsert fails where it stands.
GivenUp(d) ==
    /\ OthersKept(d) /\ upserts[d].at \in {"write", "prune"} /\ upserts'[d].at = "ended"
    /\ LiveTexts(d)' = LiveTexts(d) /\ TextsOf(d)' = TextsOf(d) /\ d \notin settled /\ d \notin settled'
    /\ ToSet(upserts[d].kept) \subseteq TextsOf(d)
    /\ UNCHANGED <<registered, oneForAll, happened>>

LEMMA FailStep ==
    ASSUME ChunkInv, NEW d \in Documents, Fail(d)
    PROVE  GivenUp(d) /\ UpsertSound(d)' /\ ChunkInv'
<1>1. /\ upserts[d].at \in {"write", "prune"} /\ Ends(d) /\ mishaps' = mishaps + 1 /\ mishaps < MaxMishaps
      /\ UNCHANGED <<drafts, indexed, registered, settled, oneForAll, runCount, happened>>
  BY DEF Fail
<1>2. /\ upserts'[d].at = "ended" /\ upserts' \in [Documents -> UpsertType]
      /\ upserts'[d].written <= Len(upserts'[d].kept)
      /\ \A e \in Documents \ {d} : upserts'[e] = upserts[e]
  BY <1>1, EndedUpsert
<1>3. OthersKept(d)
  BY <1>1, <1>2, OthersAreKept
<1>4. /\ LiveTexts(d)' = LiveTexts(d) /\ TextsOf(d)' = TextsOf(d) /\ d \notin settled
      /\ ToSet(upserts[d].kept) \subseteq TextsOf(d)
  <2>1. LiveTexts(d)' = LiveTexts(d) /\ TextsOf(d)' = TextsOf(d)
    BY <1>1 DEF LiveTexts, TextsOf
  <2>2. UpsertSound(d)
    BY DEF ChunkInv
  <2> QED
    BY <1>1, <2>1, <2>2 DEF UpsertSound
<1>5. GivenUp(d)
  BY <1>1, <1>2, <1>3, <1>4 DEF GivenUp
<1>6. UpsertSound(d)'
  BY <1>1, <1>2, <1>4 DEF UpsertSound
<1>7. \A e \in Documents \ {d} : UpsertSound(e)'
  BY <1>1, <1>3, OthersSound DEF ChunkInv
<1>8. mishaps' \in 0..MaxMishaps
  BY <1>1 DEF ChunkInv
<1> QED
  BY <1>1, <1>2, <1>5, <1>6, <1>7, <1>8 DEF ChunkInv

\* All points of a document are tombstoned.
Buried(d) ==
    /\ OthersKept(d) /\ upserts[d].at = "idle" /\ upserts'[d].at = "ended"
    /\ LiveTexts(d)' = {} /\ TextsOf(d)' = TextsOf(d) /\ d \notin settled'
    /\ UNCHANGED <<registered, oneForAll, happened>>

LEMMA TombstoneStep ==
    ASSUME ChunkInv, NEW d \in Documents, Tombstone(d)
    PROVE  Buried(d) /\ UpsertSound(d)' /\ ChunkInv'
<1> DEFINE Point == [text : Texts, live : BOOLEAN]
           old == indexed[d]  new == [i \in DOMAIN old |-> [old[i] EXCEPT !.live = FALSE]]
<1>1. /\ upserts[d].at = "idle" /\ Ends(d)
      /\ indexed' = [indexed EXCEPT ![d] = new] /\ settled' = settled \ {d}
      /\ UNCHANGED <<drafts, registered, oneForAll, runCount, mishaps, happened>>
  BY DEF Tombstone, ChunkInv
<1>2. old \in Seq(Point)
  BY DEF ChunkInv
<1> HIDE DEF old
<1>3. \A i \in DOMAIN old : new[i] \in Point /\ ~new[i].live
  <2>1. ASSUME NEW i \in DOMAIN old PROVE new[i] \in Point /\ ~new[i].live
    <3>1. old[i] \in Point
      <4> HIDE DEF Point
      <4> QED
        BY <1>2
    <3> QED
      BY <3>1
  <2> QED
    BY <2>1
<1> HIDE DEF Point
<1>4. DOMAIN new = DOMAIN old /\ new \in Seq(Point)
  BY <1>2, <1>3
<1> HIDE DEF new
<1>5. indexed'[d] = new /\ indexed' \in [Documents -> Seq(Point)]
      /\ \A e \in Documents \ {d} : indexed'[e] = indexed[e]
  BY <1>1, <1>4 DEF ChunkInv, Point
<1>6. /\ upserts'[d].at = "ended" /\ upserts' \in [Documents -> UpsertType]
      /\ upserts'[d].written <= Len(upserts'[d].kept)
      /\ \A e \in Documents \ {d} : upserts'[e] = upserts[e]
  BY <1>1, EndedUpsert
<1>7. OthersKept(d)
  BY <1>1, <1>5, <1>6, OthersAreKept
<1>8. LiveTexts(d)' = {} /\ TextsOf(d)' = TextsOf(d)
  BY <1>1, <1>3, <1>4, <1>5 DEF LiveTexts, TextsOf
<1>9. Buried(d)
  BY <1>1, <1>6, <1>7, <1>8 DEF Buried
<1>10. UpsertSound(d)'
  BY <1>1, <1>6 DEF UpsertSound
<1>11. \A e \in Documents \ {d} : UpsertSound(e)'
  BY <1>1, <1>5, <1>7, OthersSound DEF ChunkInv
<1> QED
  BY <1>1, <1>5, <1>6, <1>9, <1>10, <1>11 DEF ChunkInv, Point

\* The source changes a document.
Edited(d) ==
    /\ OthersKept(d) /\ upserts[d].at = "idle" /\ upserts'[d] = upserts[d]
    /\ LiveTexts(d)' = LiveTexts(d) /\ d \notin settled'
    /\ "shrunk" \notin happened' => TextsOf(d) \subseteq TextsOf(d)'
    /\ UNCHANGED <<registered, oneForAll>> /\ happened \subseteq happened'

LEMMA EditStep ==
    ASSUME ChunkInv, NEW d \in Documents, NEW draft \in Drafts, Edit(d, draft)
    PROVE  Edited(d) /\ UpsertSound(d)' /\ ChunkInv'
<1>1. /\ upserts[d].at = "idle" /\ drafts' = [drafts EXCEPT ![d] = draft] /\ settled' = settled \ {d}
      /\ happened' = happened \cup (IF TextsOf(d) \subseteq ToSet(draft) THEN {} ELSE {"shrunk"})
      /\ UNCHANGED <<indexed, upserts, registered, oneForAll, runCount, mishaps>>
  BY DEF Edit
<1>2. drafts' \in [Documents -> Drafts] /\ drafts'[d] = draft
      /\ \A e \in Documents \ {d} : drafts'[e] = drafts[e]
  BY <1>1 DEF ChunkInv
<1>3. OthersKept(d)
  BY <1>1, <1>2, OthersAreKept
<1>4. LiveTexts(d)' = LiveTexts(d) /\ TextsOf(d)' = ToSet(draft) \ {Blank}
  BY <1>1, <1>2 DEF LiveTexts, TextsOf
<1>5. "shrunk" \notin happened' => TextsOf(d) \subseteq TextsOf(d)'
  BY <1>1, <1>4 DEF TextsOf
<1>6. Edited(d)
  BY <1>1, <1>3, <1>4, <1>5 DEF Edited
<1>7. UpsertSound(d)'
  <2>1. upserts[d].written <= Len(upserts[d].kept)
    BY DEF ChunkInv, UpsertSound
  <2> QED
    BY <1>1, <2>1 DEF UpsertSound
<1>8. \A e \in Documents \ {d} : UpsertSound(e)'
  BY <1>1, <1>3, OthersSound DEF ChunkInv
<1> QED
  BY <1>1, <1>2, <1>6, <1>7, <1>8 DEF ChunkInv

\* The next run begins, with new upserters.
RunBegun ==
    /\ InFlight = {} /\ registered' = {} /\ \A d \in Documents : upserts'[d].at = "idle"
    /\ \A d \in Documents : LiveTexts(d)' = LiveTexts(d) /\ TextsOf(d)' = TextsOf(d)
    /\ UNCHANGED <<settled, oneForAll, happened>>

LEMMA NextRunStep == ASSUME ChunkInv, NextRun PROVE RunBegun /\ ChunkInv'
<1>1. /\ InFlight = {} /\ runCount < MaxRuns /\ runCount' = runCount + 1 /\ registered' = {}
      /\ upserts' = [d \in Documents |-> Rest("idle")]
      /\ UNCHANGED <<drafts, indexed, settled, oneForAll, mishaps, happened>>
  BY DEF NextRun
<1>2. Rest("idle") \in UpsertType /\ Rest("idle").written <= Len(Rest("idle").kept)
  BY RestTyped
<1>3. \A d \in Documents : upserts'[d].at = "idle" /\ upserts'[d].written <= Len(upserts'[d].kept)
  BY <1>1, <1>2 DEF Rest
<1>4. \A d \in Documents : LiveTexts(d)' = LiveTexts(d) /\ TextsOf(d)' = TextsOf(d)
  BY <1>1 DEF LiveTexts, TextsOf
<1>5. \A d \in Documents : UpsertSound(d)'
  BY <1>1, <1>3, <1>4 DEF ChunkInv, UpsertSound
<1>6. runCount' \in 1..MaxRuns
  BY <1>1 DEF ChunkInv
<1> QED
  BY <1>1, <1>2, <1>3, <1>4, <1>5, <1>6 DEF ChunkInv, RunBegun

\* Every step of the module is one of these.
Moved(d) == \/ StartedOn(d) \/ Decided(d) \/ BatchWritten(d) \/ Pruned(d)
            \/ GivenUp(d) \/ Buried(d) \/ Edited(d)

LEMMA ChunkStep ==
    ASSUME ChunkInv, ChunkNext
    PROVE  ChunkInv' /\ (RunBegun \/ \E d \in Documents : Moved(d))
<1>1. CASE NextRun
  BY <1>1, NextRunStep
<1>2. CASE \E d \in Documents : \/ ProbeCorpus(d) \/ ProbeFails(d) \/ Decide(d) \/ WriteBatch(d)
                                \/ Prune(d) \/ Fail(d) \/ Tombstone(d)
                                \/ \E draft \in Drafts : Edit(d, draft)
  <2> PICK d \in Documents : \/ ProbeCorpus(d) \/ ProbeFails(d) \/ Decide(d) \/ WriteBatch(d)
                             \/ Prune(d) \/ Fail(d) \/ Tombstone(d)
                             \/ \E draft \in Drafts : Edit(d, draft)
    BY <1>2
  <2> QED
    BY BeginStep, DecideStep, WriteStep, PruneStep, FailStep, TombstoneStep, EditStep DEF Moved
<1> QED
  BY <1>1, <1>2 DEF ChunkNext

-----------------------------------------------------------------------------
(* NothingIsLeftOver holds by ChunkInv; NoTextTwice needs TwiceInv. *)

LEMMA ChunkInit0 == ChunkInit => ChunkInv /\ \A d \in Documents : LiveTexts(d) = {} /\ upserts[d].at = "idle"
<1> SUFFICES ASSUME ChunkInit PROVE ChunkInv /\ \A d \in Documents : LiveTexts(d) = {} /\ upserts[d].at = "idle"
  OBVIOUS
<1>1. <<>> \in Seq([text : Texts, live : BOOLEAN]) /\ DOMAIN <<>> = {} /\ Rest("idle") \in UpsertType
      /\ Rest("idle").written <= Len(Rest("idle").kept)
  BY RestTyped
<1>2. ASSUME NEW d \in Documents
      PROVE  LiveTexts(d) = {} /\ upserts[d].at = "idle" /\ upserts[d].written <= Len(upserts[d].kept)
  BY <1>1 DEF ChunkInit, LiveTexts, Rest
<1>3. \A d \in Documents : UpsertSound(d)
  BY <1>2 DEF ChunkInit, UpsertSound
<1>4. /\ indexed \in [Documents -> Seq([text : Texts, live : BOOLEAN])]
      /\ upserts \in [Documents -> UpsertType]
  BY <1>1 DEF ChunkInit
<1> QED
  BY <1>2, <1>3, <1>4 DEF ChunkInit, ChunkInv

\* The documents in flight after a step.
LEMMA FlightAfter ==
    ASSUME ChunkInv, NEW d \in Documents, Moved(d)
    PROVE  /\ InFlight' \subseteq InFlight \cup {d} /\ oneForAll' = oneForAll
           /\ happened \subseteq happened'
           /\ ~StartedOn(d) => InFlight' \subseteq InFlight
<1>1. \A e \in Documents \ {d} : upserts'[e] = upserts[e]
  BY DEF Moved, StartedOn, Decided, BatchWritten, Pruned, GivenUp, Buried, Edited, OthersKept
<1>2. ~StartedOn(d) => (d \in InFlight' => d \in InFlight)
  BY DEF Moved, Decided, BatchWritten, Pruned, GivenUp, Buried, Edited, InFlight
<1>3. oneForAll' = oneForAll /\ happened \subseteq happened'
  BY DEF Moved, StartedOn, Decided, BatchWritten, Pruned, GivenUp, Buried, Edited
<1> QED
  BY <1>1, <1>2, <1>3 DEF InFlight

LEMMA ApartNext ==
    ASSUME ChunkInv, Apart, RunBegun \/ \E d \in Documents : Moved(d)
    PROVE  Apart'
<1>1. CASE RunBegun
  BY <1>1 DEF RunBegun, Apart, InFlight
<1>2. ASSUME NEW d \in Documents, Moved(d) PROVE Apart'
  <2>1. CASE ~StartedOn(d)
    BY <1>2, <2>1, FlightAfter DEF Apart
  <2>2. CASE StartedOn(d)
    BY <1>2, <2>2, FlightAfter DEF Apart, StartedOn
  <2> QED
    BY <2>1, <2>2
<1> QED
  BY <1>1, <1>2

\* One step keeps every pair of documents disjoint.
LEMMA DisjointNext ==
    ASSUME ChunkInv, ChunkInv', Apart, Covered', NEW d \in Documents, Moved(d),
           \A x, y \in Documents : x # y => Disjoint(x, y),
           NEW a \in Documents, NEW b \in Documents, a # b
    PROVE  Disjoint(a, b)'
<1>1. Disjoint(a, b) /\ Disjoint(b, a) /\ Covered
  BY FlightAfter DEF Covered
<1>2. \A e \in Documents \ {d} :
        upserts'[e] = upserts[e] /\ LiveTexts(e)' = LiveTexts(e) /\ TextsOf(e)' = TextsOf(e)
  BY DEF Moved, StartedOn, Decided, BatchWritten, Pruned, GivenUp, Buried, Edited, OthersKept
<1>3. registered \subseteq registered' /\ (~oneForAll => registered' = {} /\ registered = {})
  BY DEF Moved, StartedOn, Decided, BatchWritten, Pruned, GivenUp, Buried, Edited, ChunkInv
<1>4. oneForAll => \A e \in Documents : upserts[e].at \in {"write", "prune"} =>
                     ToSet(upserts[e].kept) \subseteq registered
  BY DEF ChunkInv, UpsertSound
<1>5. ~oneForAll => \A x, y \in InFlight : x = y
  BY <1>1 DEF Apart, Covered
<1>6. CASE a # d /\ b # d
  BY <1>1, <1>2, <1>3, <1>6 DEF Disjoint
<1>7. CASE a = d
  <2>1. upserts'[b] = upserts[b] /\ LiveTexts(b)' = LiveTexts(b)
    BY <1>2, <1>7
  <2>2. CASE StartedOn(d)
    BY <1>1, <1>3, <1>7, <2>1, <2>2 DEF Disjoint, StartedOn
  <2>3. CASE Decided(d)
    BY <1>1, <1>3, <1>4, <1>5, <1>7, <2>1, <2>3 DEF Disjoint, Decided, InFlight
  <2>4. CASE BatchWritten(d)
    BY <1>1, <1>3, <1>4, <1>5, <1>7, <2>1, <2>4 DEF Disjoint, BatchWritten, InFlight
  <2>5. CASE Pruned(d)
    BY <1>1, <1>3, <1>4, <1>5, <1>7, <2>1, <2>5 DEF Disjoint, Pruned, InFlight
  <2>6. CASE GivenUp(d) \/ Buried(d) \/ Edited(d)
    BY <1>1, <1>3, <1>7, <2>1, <2>6 DEF Disjoint, GivenUp, Buried, Edited
  <2> QED
    BY <2>2, <2>3, <2>4, <2>5, <2>6 DEF Moved
<1>8. CASE b = d
  <2>1. upserts'[a] = upserts[a] /\ LiveTexts(a)' = LiveTexts(a)
    BY <1>2, <1>8
  <2>2. CASE StartedOn(d)
    BY <1>1, <1>3, <1>8, <2>1, <2>2 DEF Disjoint, StartedOn, Covered
  <2>3. CASE Decided(d)
    BY <1>1, <1>3, <1>4, <1>5, <1>8, <2>1, <2>3 DEF Disjoint, Decided, InFlight
  <2>4. CASE BatchWritten(d)
    BY <1>1, <1>3, <1>4, <1>5, <1>8, <2>1, <2>4 DEF Disjoint, BatchWritten, InFlight
  <2>5. CASE Pruned(d)
    BY <1>1, <1>3, <1>8, <2>1, <2>5 DEF Disjoint, Pruned
  <2>6. CASE GivenUp(d) \/ Buried(d) \/ Edited(d)
    BY <1>1, <1>3, <1>8, <2>1, <2>6 DEF Disjoint, GivenUp, Buried, Edited
  <2> QED
    BY <2>2, <2>3, <2>4, <2>5, <2>6 DEF Moved
<1> QED
  BY <1>6, <1>7, <1>8

LEMMA TwiceNext ==
    ASSUME ChunkInv, TwiceInv, [ChunkNext]_chunkVars
    PROVE  ChunkInv' /\ TwiceInv'
<1>1. CASE UNCHANGED chunkVars
  <2>1. \A d \in Documents : LiveTexts(d)' = LiveTexts(d) /\ TextsOf(d)' = TextsOf(d)
    BY <1>1 DEF chunkVars, LiveTexts, TextsOf
  <2>2. ASSUME NEW d \in Documents PROVE UpsertSound(d)'
    <3>1. UpsertSound(d)
      BY DEF ChunkInv
    <3>2. UNCHANGED <<drafts, indexed, upserts, registered, settled, oneForAll, runCount, mishaps, happened>>
          /\ LiveTexts(d)' = LiveTexts(d) /\ TextsOf(d)' = TextsOf(d)
      BY <1>1, <2>1 DEF chunkVars
    <3> QED
      BY <3>1, <3>2 DEF UpsertSound
  <2>3. ChunkInv'
    BY <1>1, <2>2 DEF chunkVars, ChunkInv
  <2>4. Apart'
    BY <1>1 DEF chunkVars, TwiceInv, Apart, InFlight
  <2>5. \A d, e \in Documents : Disjoint(d, e) => Disjoint(d, e)'
    BY <1>1, <2>1 DEF chunkVars, Disjoint
  <2> QED
    BY <1>1, <2>3, <2>4, <2>5 DEF chunkVars, TwiceInv, Covered
<1>2. CASE ChunkNext
  <2>1. ChunkInv' /\ (RunBegun \/ \E d \in Documents : Moved(d))
    BY <1>2, ChunkStep
  <2>2. Apart'
    BY <2>1, ApartNext DEF TwiceInv
  <2>3. ASSUME Covered', NEW a \in Documents, NEW b \in Documents, a # b
        PROVE  Disjoint(a, b)'
    <3>1. CASE RunBegun
      BY <2>3, <3>1 DEF RunBegun, TwiceInv, Covered, Disjoint
    <3>2. ASSUME NEW d \in Documents, Moved(d) PROVE Disjoint(a, b)'
      <4>1. Covered
        BY <2>3, <3>2, FlightAfter DEF Covered
      <4> QED
        BY <2>1, <2>3, <3>2, <4>1, DisjointNext DEF TwiceInv
    <3> QED
      BY <2>1, <3>1, <3>2
  <2> QED
    BY <2>1, <2>2, <2>3 DEF TwiceInv
<1> QED
  BY <1>1, <1>2

-----------------------------------------------------------------------------
(* EveryTextHasAHome. *)

\* What every step leaves as it was, and what it never undoes.
LEMMA StepKeeps ==
    ASSUME ChunkInv, ChunkInv', NEW d \in Documents, Moved(d)
    PROVE  /\ OthersKept(d) /\ oneForAll' = oneForAll /\ happened \subseteq happened'
           /\ oneForAll => registered \subseteq registered'
           /\ ~oneForAll => registered = {} /\ registered' = {}
           /\ "shrunk" \notin happened' => TextsOf(d) \subseteq TextsOf(d)'
           /\ ~Edited(d) => TextsOf(d)' = TextsOf(d)
           /\ d \in settled' => Pruned(d)
  BY DEF Moved, StartedOn, Decided, BatchWritten, Pruned, GivenUp, Buried, Edited, ChunkInv

LEMMA HomeNext ==
    ASSUME ChunkInv, TwiceInv, HomeInv, NoLoss', NEW d \in Documents, Moved(d), ChunkInv',
           NEW e \in Documents
    PROVE  HomeSound(e)'
<1>1. NoLoss /\ HomeSound(e) /\ HomeSound(d) /\ OthersKept(d)
  BY StepKeeps DEF NoLoss, HomeInv
<1>2. CASE e # d
  BY <1>1, <1>2 DEF HomeSound, OthersKept
<1>3. CASE e = d
  <2>1. CASE StartedOn(d)
    <3>1. DedupeEnabled => \A x \in Documents \ {d} : LiveTexts(x) \cap LiveTexts(d) = {}
      BY <1>1 DEF TwiceInv, Covered, NoLoss, Disjoint
    <3>2. upserts'[d].owned \cap LiveTexts(d) = {}
      BY <2>1, <3>1 DEF StartedOn
    <3> QED
      BY <1>1, <1>3, <2>1, <3>2 DEF HomeSound, StartedOn
  <2>2. CASE Decided(d)
    BY <1>1, <1>3, <2>2 DEF HomeSound, Decided
  <2>3. CASE BatchWritten(d)
    <3>1. ToSet(upserts[d].kept) \subseteq TextsOf(d)
      BY <2>3 DEF BatchWritten, ChunkInv, UpsertSound
    <3> QED
      BY <1>1, <1>3, <2>3, <3>1 DEF HomeSound, BatchWritten
  <2>4. CASE Pruned(d)
    BY <1>1, <1>3, <2>4 DEF HomeSound, Pruned
  <2>5. CASE GivenUp(d) \/ Buried(d)
    BY <1>1, <1>3, <2>5 DEF HomeSound, GivenUp, Buried
  <2>6. CASE Edited(d)
    <3>1. TextsOf(d) \subseteq TextsOf(d)'
      BY StepKeeps DEF NoLoss
    <3> QED
      BY <1>1, <1>3, <2>6, <3>1 DEF HomeSound, Edited
  <2> QED
    BY <2>1, <2>2, <2>3, <2>4, <2>5, <2>6 DEF Moved
<1> QED
  BY <1>2, <1>3

\* With upserters of their own.
LEMMA OwnNext ==
    ASSUME ChunkInv, TwiceInv, HomeInv, OwnInv, NoLoss', ~oneForAll,
           NEW d \in Documents, Moved(d), ChunkInv', NEW a \in Documents
    PROVE  OwnSound(a)'
<1>1. /\ NoLoss /\ OthersKept(d) /\ registered = {}
      /\ TextsOf(d) \subseteq TextsOf(d)' /\ (~Edited(d) => TextsOf(d)' = TextsOf(d))
      /\ d \in settled' => Pruned(d)
  BY StepKeeps DEF NoLoss
<1>2. OwnSound(a) /\ OwnSound(d) /\ \A e \in Documents : HomeSound(e)
  BY <1>1 DEF OwnInv, HomeInv
<1>3. \A x, y \in InFlight : x = y
  BY <1>1 DEF TwiceInv, Apart, NoLoss
<1>4. \A e \in Documents \ {d} : \A t : (Holds(e, t)' <=> Holds(e, t)) /\ (Houses(e, t)' <=> Houses(e, t))
  BY <1>1 DEF Holds, Houses, OthersKept
<1>5. \A e \in Documents : \A t : Holds(e, t) => Houses(e, t)
  BY DEF Holds, Houses
<1>6. \A t : d \notin settled' /\ t \in TextsOf(d) => Holds(d, t)' /\ Houses(d, t)'
  BY <1>1 DEF Holds, Houses
<1>7. ASSUME NEW t \in TextsOf(a)' PROVE \E e \in Documents : Houses(e, t)'
  <2>1. CASE Edited(d) /\ a = d
    BY <2>1, <1>7 DEF Edited, Houses
  <2>2. CASE ~(Edited(d) /\ a = d)
    <3>1. t \in TextsOf(a)
      BY <1>1, <1>7, <2>2 DEF OthersKept
    <3>2. PICK e \in Documents : Houses(e, t)
      BY <1>2, <3>1 DEF OwnSound
    <3>3. CASE e # d
      BY <1>4, <3>2, <3>3
    <3>4. CASE e = d /\ d \notin settled'
      BY <1>6, <3>2, <3>4 DEF Houses
    <3>5. CASE e = d /\ Pruned(d)
      <4>1. t \in TextsOf(d) /\ upserts[d].at = "prune"
        BY <3>2, <3>5 DEF Houses, Pruned
      <4>2. CASE \E u \in ToSet(upserts[d].kept) : u = t \/ Near(u, t)
        BY <3>5, <4>1, <4>2 DEF Pruned, Houses, Near
      <4>3. CASE \E x \in Documents \ {d} : Holds(x, t)
        BY <1>4, <1>5, <4>3
      <4> QED
        BY <1>2, <4>1, <4>2, <4>3 DEF OwnSound
    <3> QED
      BY <1>1, <3>3, <3>4, <3>5
  <2> QED
    BY <2>1, <2>2
<1>8. ASSUME upserts'[a].at = "probed", NEW t \in upserts'[a].owned
      PROVE  \E e \in Documents \ {a} : Holds(e, t)'
  <2>1. CASE a # d
    <3>1. a \in InFlight /\ upserts'[a] = upserts[a]
      BY <1>1, <1>8, <2>1 DEF OthersKept, InFlight
    <3>2. PICK e \in Documents \ {a} : Holds(e, t)
      BY <1>2, <1>8, <3>1 DEF OwnSound
    <3>3. d \notin settled'
      BY <1>1, <1>3, <2>1, <3>1 DEF Pruned, InFlight
    <3> QED
      BY <1>4, <1>6, <3>2, <3>3 DEF Holds
  <2>2. CASE a = d
    <3>1. StartedOn(d)
      BY <1>8, <2>2 DEF Moved, Decided, BatchWritten, Pruned, GivenUp, Buried, Edited
    <3>2. PICK e \in Documents \ {d} : t \in LiveTexts(e)
      BY <1>8, <2>2, <3>1 DEF StartedOn
    <3>3. Holds(e, t)
      BY <1>2, <3>2 DEF HomeSound, Holds
    <3> QED
      BY <1>4, <2>2, <3>3
  <2> QED
    BY <2>1, <2>2
<1>9. ASSUME upserts'[a].at \in {"write", "prune"}, NEW t \in TextsOf(a)'
      PROVE  \/ \E u \in ToSet(upserts'[a].kept) : u = t \/ Near(u, t)
             \/ \E e \in Documents \ {a} : Holds(e, t)'
  <2>1. CASE a # d
    <3>1. a \in InFlight /\ upserts'[a] = upserts[a] /\ t \in TextsOf(a)
      BY <1>1, <1>9, <2>1 DEF OthersKept, InFlight
    <3>2. d \notin settled'
      BY <1>1, <1>3, <2>1, <3>1 DEF Pruned, InFlight
    <3>3. CASE \E e \in Documents \ {a} : Holds(e, t)
      BY <1>4, <1>6, <3>2, <3>3 DEF Holds
    <3> QED
      BY <1>2, <1>9, <3>1, <3>3 DEF OwnSound
  <2>2. CASE a = d
    <3>1. CASE Decided(d)
      <4>1. t \in TextsOf(d) /\ Answered(d, upserts'[d].kept, t)
        BY <1>9, <2>2, <3>1 DEF Decided
      <4>2. CASE t \in upserts[d].owned
        BY <1>2, <1>4, <2>2, <3>1, <4>2 DEF OwnSound, Decided
      <4>3. CASE \E u \in ToSet(upserts'[d].kept) : u = t \/ Near(t, u)
        <5>1. \A u : {u, t} = {t, u}
          OBVIOUS
        <5> QED
          BY <2>2, <4>3, <5>1 DEF Near
      <4> QED
        BY <1>1, <4>1, <4>2, <4>3 DEF Answered
    <3>2. CASE BatchWritten(d)
      BY <1>2, <1>4, <1>9, <2>2, <3>2 DEF OwnSound, BatchWritten
    <3>3. Decided(d) \/ BatchWritten(d)
      BY <1>9, <2>2 DEF Moved, StartedOn, Pruned, GivenUp, Buried, Edited
    <3> QED
      BY <3>1, <3>2, <3>3
  <2> QED
    BY <2>1, <2>2
<1> QED
  BY <1>7, <1>8, <1>9 DEF OwnSound


\* With one upserter.
LEMMA NearStaysIn ==
    ASSUME NEW g \in Groups, NEW t \in g, NEW u, Near(t, u)
    PROVE  u \in g
  BY DEF Near, Groups

LEMMA KeeperIsSomewhere ==
    ASSUME ChunkInv, NEW e \in Documents, NEW g, NEW u \in g, Keeper(e, u)
    PROVE  Somewhere(e, g)
  BY DEF ChunkInv, UpsertSound, Keeper, Somewhere

\* A probed document's live texts are registered, in the end, or nearly the same texts are.
LEMMA LiveIsAnswered ==
    ASSUME NEW d \in Documents, HomeSound(d), Decided(d), oneForAll, NEW g \in Groups,
           LiveTexts(d) \cap g # {}
    PROVE  registered' \cap g # {}
<1>1. PICK t \in LiveTexts(d) : t \in g
  OBVIOUS
<1>2. t \in TextsOf(d) /\ t \notin upserts[d].owned
  BY <1>1 DEF HomeSound, Decided
<1>3. PICK u \in registered \cup ToSet(upserts'[d].kept) : u = t \/ Near(t, u)
  BY <1>2 DEF Decided, Answered
<1>4. u \in registered' /\ u \in g
  BY <1>1, <1>3, NearStaysIn DEF Decided
<1> QED
  BY <1>4

LEMMA GroupNext ==
    ASSUME ChunkInv, HomeInv, GroupInv, OneOfEach', NEW d \in Documents, Moved(d), ChunkInv'
    PROVE  /\ \A u \in registered' : \E e \in Documents : Keeper(e, u)'
           /\ \A a \in Documents, g \in Groups : GroupSound(a, g)'
<1>1. /\ OneOfEach /\ oneForAll /\ OthersKept(d) /\ registered \subseteq registered'
      /\ TextsOf(d) \subseteq TextsOf(d)' /\ (~Edited(d) => TextsOf(d)' = TextsOf(d))
      /\ d \in settled' => Pruned(d)
  BY StepKeeps DEF OneOfEach, NoLoss
<1>2. /\ \A e \in Documents : HomeSound(e)
      /\ \A u \in registered : \E e \in Documents : Keeper(e, u)
      /\ \A a \in Documents, g \in Groups : GroupSound(a, g)
  BY <1>1 DEF GroupInv, HomeInv, OneOfEach
<1>3. StartedOn(d) => upserts[d].at = "idle"
  BY DEF OneOfEach, StartedOn
<1>4. \A e \in Documents \ {d} :
        /\ \A u : Keeper(e, u)' <=> Keeper(e, u)
        /\ \A g : (Stands(e, g)' <=> Stands(e, g)) /\ (Somewhere(e, g)' <=> Somewhere(e, g))
  BY <1>1 DEF OthersKept, Keeper, Stands, Somewhere
<1>5. UpsertSound(d)
  BY DEF ChunkInv
<1>6. ASSUME NEW u \in registered' PROVE \E e \in Documents : Keeper(e, u)'
  <2>1. CASE u \in registered
    <3>1. PICK e \in Documents : Keeper(e, u)
      BY <1>2, <2>1
    <3>2. CASE e # d
      BY <1>4, <3>1, <3>2
    <3>3. CASE e = d
      <4>1. BatchWritten(d) \/ Pruned(d) \/ GivenUp(d)
        BY <1>3, <3>1, <3>3 DEF Moved, Keeper, Decided, Buried, Edited
      <4>2. Keeper(d, u)'
        BY <3>1, <3>3, <4>1 DEF Keeper, BatchWritten, Pruned, GivenUp
      <4> QED
        BY <4>2
    <3> QED
      BY <3>2, <3>3
  <2>2. CASE u \notin registered
    <3>1. Decided(d)
      BY <1>6, <2>2 DEF Moved, StartedOn, BatchWritten, Pruned, GivenUp, Buried, Edited
    <3>2. Keeper(d, u)'
      BY <1>1, <1>6, <2>2, <3>1 DEF Decided, Keeper
    <3> QED
      BY <3>2
  <2> QED
    BY <2>1, <2>2
<1>7. ASSUME NEW g \in Groups, Stands(d, g) PROVE Stands(d, g)' \/ registered' \cap g # {}
  <2>1. CASE StartedOn(d)
    BY <1>3, <1>7, <2>1 DEF Stands, StartedOn
  <2>2. CASE Decided(d)
    <3>1. LiveTexts(d) \cap g # {}
      BY <1>7, <2>2 DEF Stands, Decided
    <3> QED
      BY <1>1, <1>2, <2>2, <3>1, LiveIsAnswered
  <2>3. CASE Buried(d)
    BY <1>2, <1>7, <2>3 DEF Stands, Buried, HomeSound
  <2>4. CASE Edited(d)
    BY <1>7, <2>4 DEF Stands, Edited
  <2> QED
    BY <1>7, <2>1, <2>2, <2>3, <2>4 DEF Moved, Stands, BatchWritten, Pruned, GivenUp
<1>8. ASSUME NEW a \in Documents, NEW g \in Groups, Grounded(a, g) PROVE Grounded(a, g)'
  BY <1>1, <1>4, <1>7, <1>8 DEF Grounded
<1>9. ASSUME NEW a \in Documents, NEW g \in Groups PROVE GroupSound(a, g)'
  <2>1. GroupSound(a, g) /\ GroupSound(d, g)
    BY <1>2
  <2>2. ASSUME TextsOf(a)' \cap g # {} PROVE \E e \in Documents : Somewhere(e, g)'
    <3>1. CASE Edited(d) /\ a = d
      <4>1. Somewhere(d, g)'
        BY <2>2, <3>1 DEF Edited, Somewhere
      <4> QED
        BY <4>1
    <3>2. CASE ~(Edited(d) /\ a = d)
      <4>1. TextsOf(a) \cap g # {}
        BY <1>1, <2>2, <3>2 DEF OthersKept
      <4>2. PICK e \in Documents : Somewhere(e, g)
        BY <2>1, <4>1 DEF GroupSound
      <4>3. CASE e # d
        BY <1>4, <4>2, <4>3
      <4>4. CASE e = d
        <5>1. TextsOf(d) \cap g # {}
          BY <1>2, <4>2, <4>4 DEF Somewhere, HomeSound
        <5>2. CASE d \notin settled'
          <6>1. Somewhere(d, g)'
            BY <1>1, <5>1, <5>2 DEF Somewhere
          <6> QED
            BY <6>1
        <5>3. CASE Pruned(d)
          <6>1. Grounded(d, g)
            BY <2>1, <5>1, <5>3 DEF GroupSound, Pruned
          <6>2. CASE \E x \in Documents \ {d} : Stands(x, g)
            BY <1>4, <6>2 DEF Stands, Somewhere
          <6>3. CASE registered \cap g # {}
            <7>1. PICK u \in registered' : u \in g
              BY <1>1, <6>3
            <7>2. PICK x \in Documents : Keeper(x, u)'
              BY <1>6
            <7>3. Somewhere(x, g)'
              BY <7>1, <7>2 DEF ChunkInv, UpsertSound, Keeper, Somewhere
            <7> QED
              BY <7>3
          <6> QED
            BY <6>1, <6>2, <6>3 DEF Grounded
        <5> QED
          BY <1>1, <5>2, <5>3
      <4> QED
        BY <4>3, <4>4
    <3> QED
      BY <3>1, <3>2
  <2>3. ASSUME upserts'[a].at \in {"write", "prune", "ended"}, LiveTexts(a)' \cap g # {}
        PROVE  registered' \cap g # {}
    <3>1. CASE a # d
      <4>1. upserts'[a] = upserts[a] /\ LiveTexts(a)' = LiveTexts(a)
        BY <1>1, <3>1 DEF OthersKept
      <4> QED
        BY <1>1, <2>1, <2>3, <4>1 DEF GroupSound
    <3>2. CASE a = d
      <4>1. CASE Decided(d)
        <5>1. LiveTexts(d) \cap g # {}
          BY <2>3, <3>2, <4>1 DEF Decided
        <5> QED
          BY <1>1, <1>2, <4>1, <5>1, LiveIsAnswered
      <4>2. CASE BatchWritten(d)
        BY <1>1, <1>5, <2>1, <2>3, <3>2, <4>2 DEF BatchWritten, GroupSound, UpsertSound
      <4>3. CASE Pruned(d)
        BY <1>1, <1>5, <2>3, <3>2, <4>3 DEF Pruned, UpsertSound
      <4>4. CASE GivenUp(d)
        BY <1>1, <2>1, <2>3, <3>2, <4>4 DEF GivenUp, GroupSound
      <4> QED
        BY <2>3, <3>2, <4>1, <4>2, <4>3, <4>4 DEF Moved, StartedOn, Buried, Edited
    <3> QED
      BY <3>1, <3>2
  <2>4. ASSUME upserts'[a].at = "probed", upserts'[a].owned \cap g # {} PROVE Grounded(a, g)'
    <3>1. CASE a # d
      <4>1. upserts'[a] = upserts[a]
        BY <1>1, <3>1 DEF OthersKept
      <4>2. Grounded(a, g)
        BY <2>1, <2>4, <4>1 DEF GroupSound
      <4> QED
        BY <1>8, <4>2
    <3>2. CASE a = d
      <4>1. StartedOn(d)
        BY <2>4, <3>2 DEF Moved, Decided, BatchWritten, Pruned, GivenUp, Buried, Edited
      <4>2. PICK e \in Documents \ {d} : LiveTexts(e) \cap g # {}
        BY <2>4, <3>2, <4>1 DEF StartedOn
      <4>3. upserts[e].at \in {"idle", "probed", "write", "prune", "ended"}
        BY DEF ChunkInv, UpsertType
      <4>4. CASE upserts[e].at \in {"idle", "probed"}
        BY <1>4, <3>2, <4>2, <4>4 DEF Stands, Grounded
      <4>5. CASE upserts[e].at \in {"write", "prune", "ended"}
        <5>1. registered \cap g # {}
          BY <1>2, <4>2, <4>5 DEF GroupSound
        <5> QED
          BY <1>1, <5>1 DEF Grounded
      <4> QED
        BY <4>3, <4>4, <4>5
    <3> QED
      BY <3>1, <3>2
  <2>5. ASSUME upserts'[a].at \in {"write", "prune"}, TextsOf(a)' \cap g # {} PROVE Grounded(a, g)'
    <3>1. CASE a # d
      <4>1. upserts'[a] = upserts[a] /\ TextsOf(a)' = TextsOf(a)
        BY <1>1, <3>1 DEF OthersKept
      <4>2. Grounded(a, g)
        BY <2>1, <2>5, <4>1 DEF GroupSound
      <4> QED
        BY <1>8, <4>2
    <3>2. CASE a = d /\ Decided(d)
      <4>1. PICK t \in TextsOf(d) : t \in g
        BY <2>5, <3>2 DEF Decided
      <4>2. Answered(d, upserts'[d].kept, t)
        BY <3>2 DEF Decided
      <4>3. CASE t \in upserts[d].owned
        <5>1. Grounded(d, g)
          BY <2>1, <3>2, <4>1, <4>3 DEF GroupSound, Decided
        <5> QED
          BY <1>8, <3>2, <5>1
      <4>4. CASE \E u \in registered \cup ToSet(upserts'[d].kept) : u = t \/ Near(t, u)
        <5>1. registered' \cap g # {}
          BY <1>1, <3>2, <4>1, <4>4, NearStaysIn DEF Decided
        <5> QED
          BY <5>1 DEF Grounded
      <4> QED
        BY <4>2, <4>3, <4>4 DEF Answered
    <3>3. CASE a = d /\ BatchWritten(d)
      <4>1. Grounded(d, g)
        BY <2>1, <2>5, <3>3 DEF GroupSound, BatchWritten
      <4> QED
        BY <1>8, <3>3, <4>1
    <3>4. a = d => Decided(d) \/ BatchWritten(d)
      BY <2>5 DEF Moved, StartedOn, Pruned, GivenUp, Buried, Edited
    <3> QED
      BY <3>1, <3>2, <3>3, <3>4
  <2> QED
    BY <2>2, <2>3, <2>4, <2>5 DEF GroupSound
<1> QED
  BY <1>6, <1>9

\* The next run finds nothing in flight and nothing registered.
LEMMA HomesNextRun ==
    ASSUME ChunkInv, HomeInv, OwnInv, GroupInv, RunBegun
    PROVE  HomeInv' /\ OwnInv' /\ GroupInv'
<1>1. /\ NoLoss' <=> NoLoss
      /\ OneOfEach' <=> OneOfEach
      /\ \A d \in Documents : HomeSound(d) => HomeSound(d)'
  BY DEF RunBegun, NoLoss, OneOfEach, HomeSound
<1>2. \A e \in Documents : \A t : Houses(e, t)' <=> Houses(e, t)
  BY DEF RunBegun, Houses
<1>3. \A e \in Documents : \A g : Somewhere(e, g)' <=> Somewhere(e, g)
  BY DEF RunBegun, Somewhere
<1>4. \A d \in Documents : OwnSound(d) => OwnSound(d)'
  BY <1>2 DEF RunBegun, OwnSound
<1>5. \A d \in Documents, g \in Groups : GroupSound(d, g) => GroupSound(d, g)'
  BY <1>3 DEF RunBegun, GroupSound
<1>6. registered' = {} /\ oneForAll' = oneForAll
  BY DEF RunBegun
<1> QED
  BY <1>1, <1>4, <1>5, <1>6 DEF HomeInv, OwnInv, GroupInv

LEMMA HomesStutter ==
    ASSUME HomeInv, OwnInv, GroupInv, UNCHANGED chunkVars
    PROVE  HomeInv' /\ OwnInv' /\ GroupInv'
<1>1. \A d \in Documents : LiveTexts(d)' = LiveTexts(d) /\ TextsOf(d)' = TextsOf(d)
  BY DEF chunkVars, LiveTexts, TextsOf
<1>2. UNCHANGED <<upserts, registered, settled, oneForAll, happened>>
  BY DEF chunkVars
<1>3. \A e \in Documents : \A t : (Houses(e, t)' <=> Houses(e, t)) /\ (Holds(e, t)' <=> Holds(e, t))
  BY <1>1, <1>2 DEF Houses, Holds
<1>4. \A e \in Documents : \A g : Stands(e, g)' <=> Stands(e, g)
  BY <1>1, <1>2 DEF Stands
<1>5. /\ \A e \in Documents : \A g : Somewhere(e, g)' <=> Somewhere(e, g)
      /\ \A e \in Documents : \A u : Keeper(e, u)' <=> Keeper(e, u)
  BY <1>1, <1>2 DEF Somewhere, Keeper
<1>6. /\ NoLoss' <=> NoLoss
      /\ OneOfEach' <=> OneOfEach
      /\ \A d \in Documents : HomeSound(d) => HomeSound(d)'
  BY <1>1, <1>2 DEF NoLoss, OneOfEach, HomeSound
<1>7. \A d \in Documents : OwnSound(d) => OwnSound(d)'
  BY <1>1, <1>2, <1>3 DEF OwnSound
<1>8. \A d \in Documents : \A g : Grounded(d, g)' <=> Grounded(d, g)
  BY <1>2, <1>4 DEF Grounded
<1>9. \A d \in Documents, g \in Groups : GroupSound(d, g) => GroupSound(d, g)'
  BY <1>1, <1>2, <1>5, <1>8 DEF GroupSound
<1> QED
  BY <1>2, <1>5, <1>6, <1>7, <1>9 DEF HomeInv, OwnInv, GroupInv

HonestyInv == ChunkInv /\ TwiceInv /\ HomeInv /\ OwnInv /\ GroupInv

LEMMA HonestyInit == ChunkInit => HonestyInv
<1> SUFFICES ASSUME ChunkInit PROVE HonestyInv
  OBVIOUS
<1>1. ChunkInv /\ \A d \in Documents : LiveTexts(d) = {} /\ upserts[d].at = "idle"
  BY ChunkInit0
<1>2. settled = {} /\ registered = {}
  BY DEF ChunkInit
<1>3. TwiceInv
  BY <1>1 DEF TwiceInv, Apart, InFlight, Disjoint
<1>4. HomeInv
  BY <1>1 DEF HomeInv, HomeSound
<1>5. ASSUME NEW d \in Documents PROVE OwnSound(d)
  <2>1. \A t \in TextsOf(d) : Houses(d, t)
    BY <1>2 DEF Houses
  <2> QED
    BY <1>1, <2>1 DEF OwnSound
<1>6. ASSUME NEW d \in Documents, NEW g \in Groups PROVE GroupSound(d, g)
  <2>1. TextsOf(d) \cap g # {} => Somewhere(d, g)
    BY <1>2 DEF Somewhere
  <2> QED
    BY <1>1, <2>1 DEF GroupSound
<1> QED
  BY <1>1, <1>2, <1>3, <1>4, <1>5, <1>6 DEF HonestyInv, OwnInv, GroupInv

LEMMA HonestyNext == HonestyInv /\ [ChunkNext]_chunkVars => HonestyInv'
<1> SUFFICES ASSUME HonestyInv, [ChunkNext]_chunkVars PROVE HonestyInv'
  OBVIOUS
<1>1. ChunkInv /\ TwiceInv /\ HomeInv /\ OwnInv /\ GroupInv
  BY DEF HonestyInv
<1>2. ChunkInv' /\ TwiceInv'
  BY <1>1, TwiceNext
<1>3. CASE UNCHANGED chunkVars
  BY <1>1, <1>2, <1>3, HomesStutter DEF HonestyInv
<1>4. CASE ChunkNext
  <2>1. CASE RunBegun
    BY <1>1, <1>2, <2>1, HomesNextRun DEF HonestyInv
  <2>2. ASSUME NEW d \in Documents, Moved(d) PROVE HonestyInv'
    <3>1. HomeInv'
      BY <1>1, <1>2, <2>2, HomeNext DEF HomeInv
    <3>2. OwnInv'
      <4>1. oneForAll' = oneForAll
        BY <1>1, <1>2, <2>2, StepKeeps
      <4> QED
        BY <1>1, <1>2, <2>2, <4>1, OwnNext DEF OwnInv
    <3>3. GroupInv'
      BY <1>1, <1>2, <2>2, GroupNext DEF GroupInv
    <3> QED
      BY <1>2, <3>1, <3>2, <3>3 DEF HonestyInv
  <2> QED
    BY <1>1, <1>4, <2>1, <2>2, ChunkStep
<1> QED
  BY <1>3, <1>4

LEMMA HonestyImplies == HonestyInv => ChunkTypeOK /\ IndexIsHonest
<1> SUFFICES ASSUME HonestyInv PROVE ChunkTypeOK /\ IndexIsHonest
  OBVIOUS
<1>1. ChunkInv /\ TwiceInv /\ HomeInv /\ OwnInv /\ GroupInv
  BY DEF HonestyInv
<1>2. NoTextTwice
  BY <1>1 DEF NoTextTwice, TwiceInv, Covered, Disjoint
<1>3. NothingIsLeftOver
  BY <1>1 DEF NothingIsLeftOver, ChunkInv, UpsertSound
<1>4. EveryTextHasAHome
  <2> SUFFICES ASSUME settled = Documents, NoLoss, oneForAll => "twice" \notin happened,
                      NEW d \in Documents
               PROVE  IF oneForAll
                      THEN \A g \in Groups : TextsOf(d) \cap g # {} => \E e \in Documents : LiveTexts(e) \cap g # {}
                      ELSE \A t \in TextsOf(d) : \E e \in Documents : \E u \in LiveTexts(e) : u = t \/ Near(u, t)
    BY DEF EveryTextHasAHome, NoLoss
  <2>1. CASE oneForAll
    BY <1>1, <2>1 DEF GroupInv, OneOfEach, GroupSound, Somewhere
  <2>2. CASE ~oneForAll
    BY <1>1, <2>2 DEF OwnInv, OwnSound, Houses
  <2> QED
    BY <2>1, <2>2
<1>5. ChunkTypeOK
  <2>1. ASSUME NEW d \in Documents
        PROVE  /\ upserts[d].at \in {"idle", "probed", "write", "prune", "ended"}
               /\ upserts[d].written \in 0..Len(upserts[d].kept)
    <3>1. upserts[d] \in UpsertType
      BY <1>1 DEF ChunkInv
    <3> QED
      BY <1>1, <3>1 DEF ChunkInv, UpsertSound, UpsertType
  <2>2. ASSUME NEW d \in Documents, NEW i \in DOMAIN indexed[d]
        PROVE  indexed[d][i] \in [text : Texts, live : BOOLEAN]
    <3> DEFINE Point == [text : Texts, live : BOOLEAN]
    <3>1. indexed[d] \in Seq(Point)
      BY <1>1 DEF ChunkInv
    <3> HIDE DEF Point
    <3>2. indexed[d][i] \in Point
      BY <3>1
    <3> QED
      BY <3>2 DEF Point
  <2> QED
    BY <1>1, <2>1, <2>2 DEF ChunkInv, ChunkTypeOK
<1> QED
  BY <1>2, <1>3, <1>4, <1>5 DEF IndexIsHonest

-----------------------------------------------------------------------------
(* The theorems. *)

LEMMA HonestyInvariant == ChunkSpec => []HonestyInv
  BY HonestyInit, HonestyNext, PTL DEF ChunkSpec

\* What upsert.py keeps of every document, of its points and of a run has its type.
THEOREM ChunkTypes == ChunkSpec => []ChunkTypeOK
  BY HonestyInvariant, HonestyImplies, PTL

\* What the index shows of the documents is what they hold, once: no text is live twice,
\* a document that is written shows nothing it no longer holds, and each of its texts has
\* a home (upsert.py 290-334, 734-758).
THEOREM IndexHonest == ChunkSpec => []IndexIsHonest
  BY HonestyInvariant, HonestyImplies, PTL
-----------------------------------------------------------------------------
(* The transcript the browser shows. *)

\* s is what t ends with.
TailOf(s, t) == Len(s) <= Len(t) /\ \A k \in 1..Len(s) : s[k] = t[Len(t) - Len(s) + k]

TokenType   == Nat \X Nat
MessageType == [id : Int, text : Seq(TokenType)]

ChatType == [active : Sessions \cup {NoSession}, messages : Seq(MessageType), streaming : BOOLEAN,
             failed : BOOLEAN, prompted : BOOLEAN, listed : SUBSET Sessions]
RunType  == [session : Sessions \cup {NoSession}, phase : {"sending", "open", "backoff", "over"},
             attempt : 0..StreamRetries, post : Nat, tokens : BOOLEAN, done : BOOLEAN,
             error : BOOLEAN, late : BOOLEAN, silent : BOOLEAN]
PostType == [run : Nat, session : Sessions, sent : Nat]
AskType  == [want : {"open", "compact", "delete", "none"}, session : Sessions]

WebTypes ==
    /\ chat \in ChatType /\ runs \in Seq(RunType) /\ posts \in Seq(PostType)
    /\ recorded \in [Sessions -> Seq(Nat)] /\ asked \in Seq(AskType)
    /\ abortRef \in 0..Len(runs) /\ signedIn \in BOOLEAN

\* Post p is what run t is being told.
Hears(t, p) == runs[t].phase = "open" /\ ~runs[t].done /\ runs[t].post = p

\* What is said of a post, a token or a message is said of one there is.
MessageRight(m) ==
    /\ m.id \in Local..Len(posts)
    /\ m.id > 0 => \A t \in DOMAIN runs : ~Hears(t, m.id)
    /\ \A k \in DOMAIN m.text : m.text[k][1] \in DOMAIN posts /\ posts[m.text[k][1]].sent > 0

MessagesRight == \A i \in DOMAIN chat.messages : MessageRight(chat.messages[i])

RunsRight == \A t \in DOMAIN runs :
    /\ runs[t].post <= Len(posts)
    /\ runs[t].phase = "open" => runs[t].post > 0 /\ posts[runs[t].post].run = t
    /\ ~(runs[t].done /\ runs[t].error)

RecordsRight == \A s \in Sessions : \A k \in DOMAIN recorded[s] :
    recorded[s][k] \in DOMAIN posts /\ \A t \in DOMAIN runs : ~Hears(t, recorded[s][k])

\* A run hears tokens of one post only, and is not resent once it has heard one.
OneSpoke ==
    /\ \A p \in DOMAIN posts : posts[p].run \in DOMAIN runs
    /\ \A p, q \in DOMAIN posts :
         posts[p].run = posts[q].run /\ posts[p].sent > 0 /\ posts[q].sent > 0 => p = q
    /\ \A p \in DOMAIN posts : posts[p].sent > 0 =>
         \/ runs[posts[p].run].phase = "over"
         \/ runs[posts[p].run].phase = "open" /\ runs[posts[p].run].post = p /\ runs[posts[p].run].tokens

NoneLate == \A t \in DOMAIN runs : ~runs[t].late
Live(t)  == runs[t].phase \in {"sending", "backoff"} \/ (runs[t].phase = "open" /\ ~runs[t].done)

\* While no stream broke late, one run streams at most: the last one.
LastIsLive ==
    /\ \A t \in DOMAIN runs : Live(t) => chat.streaming /\ t = Len(runs)
    /\ abortRef \in {0, Len(runs)}

MessageWhole(m) ==
    /\ m.id > 0 => TailOf(Tokens(m.id, posts[m.id].sent), m.text)
    /\ m.id = Pending =>
         \A t \in DOMAIN runs : runs[t].phase = "open" /\ ~runs[t].done =>
             TailOf(Tokens(runs[t].post, posts[runs[t].post].sent), m.text)

MessagesWhole == \A i \in DOMAIN chat.messages : MessageWhole(chat.messages[i])

WebInv ==
    /\ WebTypes /\ MessagesRight /\ RunsRight /\ RecordsRight /\ OneSpoke
    /\ NoneLate => LastIsLive /\ MessagesWhole

LEMMA Element == ASSUME NEW S, NEW s \in Seq(S), NEW i \in DOMAIN s PROVE s[i] \in S
OBVIOUS

\* What a message says, and with nothing more.
LEMMA TextFacts ==
    ASSUME NEW s \in Seq(TokenType), NEW t \in Seq(TokenType)
    PROVE  /\ s \o <<>> = s /\ s \o t \in Seq(TokenType) /\ Len(s \o t) = Len(s) + Len(t)
           /\ Len(s) \in Nat /\ Len(t) \in Nat
           /\ \A k \in 1..Len(s) : (s \o t)[k] = s[k]
           /\ \A k \in 1..Len(t) : (s \o t)[Len(s) + k] = t[k]
<1>1. Len(s \o <<>>) = Len(s) /\ \A k \in 1..Len(s) : (s \o <<>>)[k] = s[k]
  OBVIOUS
<1>2. s \o <<>> \in Seq(TokenType)
  OBVIOUS
<1>3. s \o <<>> = s
  BY <1>1, <1>2
<1> QED
  BY <1>3

LEMMA TokensTyped ==
    ASSUME NEW p \in Nat, NEW n \in Nat
    PROVE  /\ Tokens(p, n) \in Seq(TokenType) /\ Len(Tokens(p, n)) = n
           /\ \A k \in 1..n : Tokens(p, n)[k] = <<p, k>>
BY DEF Tokens, TokenType

\* The next token is added to what ends with those before.
LEMMA EndsAppend ==
    ASSUME NEW p \in Nat, NEW n \in Nat, NEW t \in Seq(TokenType), TailOf(Tokens(p, n), t)
    PROVE  TailOf(Tokens(p, n + 1), t \o <<<<p, n + 1>>>>)
<1> DEFINE more == <<<<p, n + 1>>>>   u == t \o more
<1>1. more \in Seq(TokenType) /\ Len(more) = 1 /\ more[1] = <<p, n + 1>>
  BY DEF TokenType
<1>2. Len(u) = Len(t) + 1 /\ Len(t) \in Nat /\ (\A k \in 1..Len(t) : u[k] = t[k]) /\ u[Len(t) + 1] = <<p, n + 1>>
  BY <1>1, TextFacts
<1>3. n <= Len(t) /\ \A k \in 1..n : Tokens(p, n)[k] = t[Len(t) - n + k]
  BY TokensTyped DEF TailOf
<1>0. n + 1 \in Nat
  OBVIOUS
<1>4. Len(Tokens(p, n + 1)) = n + 1 /\ \A k \in 1..n + 1 : Tokens(p, n + 1)[k] = <<p, k>>
  BY <1>0, TokensTyped
<1> HIDE DEF u
<1>5. ASSUME NEW k \in 1..n + 1 PROVE Tokens(p, n + 1)[k] = u[Len(u) - (n + 1) + k]
  <2>1. CASE k \in 1..n
    <3>0. PICK lu, lt \in Nat : lu = Len(u) /\ lt = Len(t) /\ lu = lt + 1 /\ n <= lt
      BY <1>2, <1>3
    <3>1. Len(u) - (n + 1) + k = Len(t) - n + k /\ Len(t) - n + k \in 1..Len(t)
      BY <2>1, <3>0
    <3>2. t[Len(t) - n + k] = <<p, k>>
      BY <1>3, <2>1, TokensTyped
    <3> QED
      BY <1>2, <1>4, <3>1, <3>2
  <2>2. CASE k = n + 1
    <3>1. Len(u) - (n + 1) + k = Len(t) + 1
      BY <1>2, <2>2
    <3>2. Tokens(p, n + 1)[k] = <<p, n + 1>>
      BY <1>4, <2>2
    <3> QED
      BY <1>2, <3>1, <3>2
  <2> QED
    BY <2>1, <2>2
<1>6. n + 1 <= Len(u)
  BY <1>2, <1>3
<1>7. TailOf(Tokens(p, n + 1), u)
  BY <1>4, <1>5, <1>6 DEF TailOf
<1> QED
  BY <1>7 DEF u

LEMMA EndsIsSuffix ==
    ASSUME NEW s \in Seq(TokenType), NEW t \in Seq(TokenType), TailOf(s, t)
    PROVE  IsSuffix(s, t)
<1> DEFINE a == Reverse(s)  b == Reverse(t)
<1>1. Len(s) \in Nat /\ Len(t) \in Nat /\ Len(s) <= Len(t)
  BY DEF TailOf
<1>2. a \in Seq(TokenType) /\ b \in Seq(TokenType) /\ Len(a) = Len(s) /\ Len(b) = Len(t)
      /\ (\A k \in 1..Len(s) : a[k] = s[Len(s) - k + 1]) /\ (\A k \in 1..Len(t) : b[k] = t[Len(t) - k + 1])
  BY <1>1 DEF Reverse
<1>3. ASSUME NEW k \in 1..Len(s) PROVE a[k] = b[k]
  <2>1. Len(s) - k + 1 \in 1..Len(s) /\ Len(t) - Len(s) + (Len(s) - k + 1) = Len(t) - k + 1 /\ k \in 1..Len(t)
    BY <1>1
  <2> QED
    BY <1>2, <2>1 DEF TailOf
<1> HIDE DEF a, b
<1>4. SubSeq(a, 1, Len(a)) = [k \in 1..Len(s) |-> a[k]] /\ SubSeq(b, 1, Len(a)) = [k \in 1..Len(s) |-> b[k]]
  BY <1>1, <1>2
<1>5. IsPrefix(a, b)
  BY <1>1, <1>2, <1>3, <1>4 DEF IsPrefix
<1> QED
  BY <1>5 DEF IsSuffix, a, b

LEMMA EndsItself == ASSUME NEW s \in Seq(TokenType) PROVE TailOf(s, s)
BY DEF TailOf

\* Messages that were pending take an id and more text; the others stay.
LEMMA BecomeTyped ==
    ASSUME WebTypes, NEW id \in Int, NEW more \in Seq(TokenType)
    PROVE  /\ PendingBecome(id, more) \in Seq(MessageType)
           /\ DOMAIN PendingBecome(id, more) = DOMAIN chat.messages
           /\ \A i \in DOMAIN chat.messages :
                /\ chat.messages[i] \in MessageType
                /\ chat.messages[i].id # Pending => PendingBecome(id, more)[i] = chat.messages[i]
                /\ chat.messages[i].id = Pending =>
                     /\ PendingBecome(id, more)[i].id = id
                     /\ PendingBecome(id, more)[i].text = chat.messages[i].text \o more
<1> DEFINE n == Len(chat.messages)
           f(i) == LET m == chat.messages[i] IN
                   IF m.id = Pending THEN [m EXCEPT !.id = id, !.text = @ \o more] ELSE m
<1>1. chat.messages \in Seq(MessageType)
  BY DEF WebTypes, ChatType
<1>2. DOMAIN chat.messages = 1..n /\ n \in Nat
  BY <1>1
<1>3. PendingBecome(id, more) = [i \in 1..n |-> f(i)]
  BY <1>2 DEF PendingBecome
<1>4. ASSUME NEW i \in 1..n
      PROVE  /\ chat.messages[i] \in MessageType /\ f(i) \in MessageType
             /\ chat.messages[i].id # Pending => f(i) = chat.messages[i]
             /\ chat.messages[i].id = Pending =>
                  f(i).id = id /\ f(i).text = chat.messages[i].text \o more
  <2> DEFINE m == chat.messages[i]
  <2>1. m \in MessageType
    BY <1>1, <1>2
  <2>2. f(i) = IF m.id = Pending THEN [m EXCEPT !.id = id, !.text = @ \o more] ELSE m
    OBVIOUS
  <2> HIDE DEF m, f
  <2>3. m.text \in Seq(TokenType) /\ m.text \o more \in Seq(TokenType)
    BY <2>1, TextFacts DEF MessageType
  <2>4. ASSUME NEW x \in Seq(TokenType)
        PROVE  /\ [m EXCEPT !.id = id, !.text = x] \in MessageType
               /\ [m EXCEPT !.id = id, !.text = x].id = id
               /\ [m EXCEPT !.id = id, !.text = x].text = x
    BY <2>1 DEF MessageType
  <2>5. [m EXCEPT !.id = id, !.text = @ \o more] = [m EXCEPT !.id = id, !.text = m.text \o more]
    BY <2>1 DEF MessageType
  <2>6. /\ m \in MessageType /\ f(i) \in MessageType
        /\ m.id # Pending => f(i) = m
        /\ m.id = Pending => f(i).id = id /\ f(i).text = m.text \o more
    BY <2>1, <2>2, <2>3, <2>4, <2>5
  <2> QED
    BY <2>6 DEF m
<1> HIDE DEF f, n
<1>5. [i \in 1..n |-> f(i)] \in Seq(MessageType)
  BY <1>2, <1>4
<1>6. \A i \in 1..n : PendingBecome(id, more)[i] = f(i)
  BY <1>3
<1> QED
  BY <1>2, <1>3, <1>4, <1>5, <1>6

\* The messages of a session are those of its turns.
LEMMA StoredTyped ==
    ASSUME WebTypes, RecordsRight, NEW s \in Sessions
    PROVE  /\ Stored(s) \in Seq(MessageType)
           /\ \A i \in DOMAIN Stored(s) :
                \/ Stored(s)[i] = UserMessage
                \/ \E k \in DOMAIN recorded[s] :
                     Stored(s)[i] = [id |-> recorded[s][k],
                                     text |-> Tokens(recorded[s][k], posts[recorded[s][k]].sent)]
<1> DEFINE kept == recorded[s]
           answer(n) == [id |-> n, text |-> Tokens(n, posts[n].sent)]
<1>1. kept \in Seq(Nat) /\ DOMAIN kept = 1..Len(kept) /\ Len(kept) \in Nat
  BY DEF WebTypes
<1>2. ASSUME NEW n \in DOMAIN posts PROVE n \in Nat /\ answer(n) \in MessageType
  <2>1. posts \in Seq(PostType)
    BY DEF WebTypes
  <2>2. posts[n] \in PostType /\ n \in Nat
    BY <2>1, Element
  <2> DEFINE sent == posts[n].sent
  <2>3. sent \in Nat
    BY <2>2 DEF PostType
  <2> HIDE DEF sent
  <2>4. Tokens(n, sent) \in Seq(TokenType)
    BY <2>2, <2>3, TokensTyped
  <2> QED
    BY <2>2, <2>4 DEF sent, MessageType
<1>3. ASSUME NEW k \in DOMAIN kept PROVE answer(kept[k]) \in MessageType
  <2>1. kept[k] \in DOMAIN posts
    BY DEF RecordsRight
  <2> QED
    BY <1>2, <2>1
<1>4. UserMessage \in MessageType
  BY DEF UserMessage, MessageType, Local
<1>5. Stored(s) = [i \in 1..2 * Len(kept) |-> IF i % 2 = 1 THEN UserMessage ELSE answer(kept[i \div 2])]
  BY DEF Stored
<1> HIDE DEF kept, answer
<1>6. ASSUME NEW i \in 1..2 * Len(kept), i % 2 # 1 PROVE i \div 2 \in DOMAIN kept
  BY <1>1, <1>6
<1>7. ASSUME NEW i \in 1..2 * Len(kept)
      PROVE  Stored(s)[i] = UserMessage \/ \E k \in DOMAIN kept : Stored(s)[i] = answer(kept[k])
  BY <1>5, <1>6
<1>8. Stored(s) \in Seq(MessageType) /\ DOMAIN Stored(s) = 1..2 * Len(kept)
  <2> DEFINE two == 2 * Len(kept)   f(i) == IF i % 2 = 1 THEN UserMessage ELSE answer(kept[i \div 2])
  <2>1. two \in Nat
    BY <1>1
  <2>2. ASSUME NEW i \in 1..two PROVE f(i) \in MessageType
    BY <1>3, <1>4, <1>6
  <2>3. Stored(s) = [i \in 1..two |-> f(i)]
    BY <1>5
  <2> HIDE DEF two, f
  <2>4. Stored(s) \in Seq(MessageType) /\ DOMAIN Stored(s) = 1..two
    BY <2>1, <2>2, <2>3
  <2> QED
    BY <2>4 DEF two
<1> QED
  BY <1>7, <1>8 DEF kept, answer

\* What a step that sends nothing may do to a run.
Quieter(t) ==
    /\ runs'[t].post \in {0, runs[t].post}
    /\ runs'[t].phase = "open" =>
         /\ runs[t].phase = "open" /\ runs'[t].post = runs[t].post /\ runs'[t].tokens = runs[t].tokens
         /\ runs[t].done => runs'[t].done
    /\ runs[t].phase = "over" => runs'[t].phase = "over"
    /\ runs[t].phase = "open" /\ runs[t].tokens => runs'[t].phase \in {"open", "over"}
    /\ ~(runs'[t].done /\ runs'[t].error)
    /\ runs[t].late => runs'[t].late
    /\ Live(t)' => Live(t) \/ runs'[t].late

\* What such a step leaves true of runs and posts.
LEMMA QuietRuns ==
    ASSUME WebInv, UNCHANGED posts, DOMAIN runs' = DOMAIN runs, \A t \in DOMAIN runs : Quieter(t)
    PROVE  /\ RunsRight' /\ OneSpoke' /\ (NoneLate' => NoneLate)
           /\ \A t \in DOMAIN runs : \A p : Hears(t, p)' => Hears(t, p)
<1>1. RunsRight /\ OneSpoke /\ posts \in Seq(PostType)
  BY DEF WebInv, WebTypes
<1>2. RunsRight'
  <2>1. ASSUME NEW t \in DOMAIN runs
        PROVE  /\ runs'[t].post <= Len(posts)
               /\ runs'[t].phase = "open" => runs'[t].post > 0 /\ posts[runs'[t].post].run = t
               /\ ~(runs'[t].done /\ runs'[t].error)
    <3>1. Quieter(t)
      OBVIOUS
    <3>2. Len(posts) \in Nat /\ runs[t].post <= Len(posts)
          /\ (runs[t].phase = "open" => runs[t].post > 0 /\ posts[runs[t].post].run = t)
      BY <1>1 DEF RunsRight
    <3> QED
      BY <3>1, <3>2 DEF Quieter
  <2> QED
    BY <2>1 DEF RunsRight
<1>3. OneSpoke'
  <2>1. ASSUME NEW p \in DOMAIN posts, posts[p].sent > 0
        PROVE  \/ runs'[posts[p].run].phase = "over"
               \/ /\ runs'[posts[p].run].phase = "open" /\ runs'[posts[p].run].post = p
                  /\ runs'[posts[p].run].tokens
    <3> DEFINE t == posts[p].run
    <3>1. t \in DOMAIN runs
      BY <1>1 DEF OneSpoke
    <3>2. runs[t].phase = "over" \/ (runs[t].phase = "open" /\ runs[t].post = p /\ runs[t].tokens)
      BY <1>1, <2>1 DEF OneSpoke
    <3> HIDE DEF t
    <3>3. Quieter(t)
      BY <3>1
    <3>4. runs'[t].phase = "over" \/ (runs'[t].phase = "open" /\ runs'[t].post = p /\ runs'[t].tokens)
      BY <3>2, <3>3 DEF Quieter
    <3> QED
      BY <3>4 DEF t
  <2> QED
    BY <1>1, <2>1 DEF OneSpoke
<1>4. NoneLate' => NoneLate
  BY DEF NoneLate, Quieter
<1>5. ASSUME NEW t \in DOMAIN runs, NEW p, Hears(t, p)' PROVE Hears(t, p)
  BY <1>5 DEF Hears, Quieter
<1> QED
  BY <1>2, <1>3, <1>4, <1>5

\* What such a step leaves true of a message, and of the runs that stream.
LEMMA QuietMessage ==
    ASSUME WebInv, UNCHANGED posts, DOMAIN runs' = DOMAIN runs, \A t \in DOMAIN runs : Quieter(t), NEW m
    PROVE  /\ MessageRight(m) => MessageRight(m)'
           /\ MessageWhole(m) /\ NoneLate' => MessageWhole(m)'
<1>1. \A t \in DOMAIN runs : \A p : Hears(t, p)' => Hears(t, p)
  BY QuietRuns
<1>2. ASSUME MessageRight(m) PROVE MessageRight(m)'
  BY <1>1, <1>2 DEF MessageRight
<1>3. ASSUME MessageWhole(m), NoneLate' PROVE MessageWhole(m)'
  <2>1. ASSUME NEW t \in DOMAIN runs', runs'[t].phase = "open", ~runs'[t].done
        PROVE  runs[t].phase = "open" /\ ~runs[t].done /\ runs'[t].post = runs[t].post
    BY <2>1 DEF Quieter
  <2> QED
    BY <1>3, <2>1 DEF MessageWhole
<1> QED
  BY <1>2, <1>3

LEMMA QuietRecords ==
    ASSUME WebInv, UNCHANGED <<posts, recorded>>, DOMAIN runs' = DOMAIN runs,
           \A t \in DOMAIN runs : Quieter(t)
    PROVE  RecordsRight'
<1>1. \A t \in DOMAIN runs : \A p : Hears(t, p)' => Hears(t, p)
  BY QuietRuns
<1>2. RecordsRight
  BY DEF WebInv
<1> QED
  BY <1>1, <1>2 DEF RecordsRight

LEMMA QuietLive ==
    ASSUME WebInv, UNCHANGED posts, DOMAIN runs' = DOMAIN runs, \A t \in DOMAIN runs : Quieter(t),
           Len(runs') = Len(runs), NoneLate', abortRef' \in {0, abortRef, Len(runs)},
           chat'.streaming = chat.streaming \/ \E t \in DOMAIN runs : (Live(t) \/ t = Len(runs)) /\ ~Live(t)'
    PROVE  LastIsLive'
<1>1. LastIsLive
  BY QuietRuns DEF WebInv
<1>2. ASSUME NEW t \in DOMAIN runs, Live(t)' PROVE Live(t)
  BY <1>2 DEF Quieter, NoneLate
<1>3. ASSUME NEW t \in DOMAIN runs, Live(t)' PROVE chat'.streaming /\ t = Len(runs)
  <2>1. chat.streaming /\ t = Len(runs)
    BY <1>1, <1>2, <1>3 DEF LastIsLive
  <2>2. ASSUME NEW u \in DOMAIN runs, Live(u) \/ u = Len(runs), ~Live(u)' PROVE FALSE
    <3>1. u = t
      BY <1>1, <2>1, <2>2 DEF LastIsLive
    <3> QED
      BY <1>3, <2>2, <3>1
  <2> QED
    BY <2>1, <2>2
<1>4. abortRef' \in {0, Len(runs')}
  BY <1>1 DEF LastIsLive
<1> QED
  BY <1>3, <1>4 DEF LastIsLive

\* A step that sends nothing and shows only messages that were right before.
LEMMA QuietStep ==
    ASSUME WebInv, WebTypes', UNCHANGED <<posts, recorded>>, DOMAIN runs' = DOMAIN runs,
           \A t \in DOMAIN runs : Quieter(t), Len(runs') = Len(runs),
           abortRef' \in {0, abortRef, Len(runs)} \/ ~NoneLate',
           chat'.streaming = chat.streaming \/ ~NoneLate'
             \/ \E t \in DOMAIN runs : (Live(t) \/ t = Len(runs)) /\ ~Live(t)',
           \A i \in DOMAIN chat'.messages :
              \/ \E k \in DOMAIN chat.messages : chat'.messages[i] = chat.messages[k]
              \/ /\ MessageRight(chat'.messages[i])
                 /\ NoneLate => MessageWhole(chat'.messages[i])
    PROVE  WebInv'
<1>1. RunsRight' /\ OneSpoke' /\ (NoneLate' => NoneLate) /\ RecordsRight'
  BY QuietRuns, QuietRecords
<1>2. ASSUME NEW i \in DOMAIN chat'.messages
      PROVE  MessageRight(chat'.messages[i]) /\ (NoneLate => MessageWhole(chat'.messages[i]))
  BY DEF WebInv, MessagesRight, MessagesWhole
<1>3. ASSUME NEW i \in DOMAIN chat'.messages, NEW m, m = chat'.messages[i]
      PROVE  MessageRight(m)' /\ (NoneLate' => MessageWhole(m)')
  <2>1. MessageRight(m) /\ (NoneLate => MessageWhole(m))
    BY <1>2, <1>3
  <2> QED
    BY <1>1, <2>1, QuietMessage
<1>4. MessagesRight' /\ (NoneLate' => MessagesWhole')
  BY <1>3 DEF MessagesRight, MessagesWhole, MessageRight, MessageWhole
<1>5. NoneLate' => LastIsLive'
  BY QuietLive
<1> QED
  BY <1>1, <1>4, <1>5 DEF WebInv

\* A message whose id is local is right whatever its text says of posts.
LEMMA FinishedLocally ==
    ASSUME WebInv, NEW i \in DOMAIN chat.messages
    PROVE  \/ PendingBecome(Local, <<>>)[i] = chat.messages[i]
           \/ /\ MessageRight(PendingBecome(Local, <<>>)[i])
              /\ MessageWhole(PendingBecome(Local, <<>>)[i])
<1> DEFINE m == chat.messages[i]   n == PendingBecome(Local, <<>>)[i]
<1>1. WebTypes /\ MessageRight(m) /\ Local \in Int /\ <<>> \in Seq(TokenType)
  BY DEF WebInv, MessagesRight, Local
<1>2. m \in MessageType /\ (m.id # Pending => n = m)
      /\ (m.id = Pending => n.id = Local /\ n.text = m.text \o <<>>)
  <2>1. \A k \in DOMAIN chat.messages :
          /\ chat.messages[k] \in MessageType
          /\ chat.messages[k].id # Pending => PendingBecome(Local, <<>>)[k] = chat.messages[k]
          /\ chat.messages[k].id = Pending =>
               /\ PendingBecome(Local, <<>>)[k].id = Local
               /\ PendingBecome(Local, <<>>)[k].text = chat.messages[k].text \o <<>>
    BY <1>1, BecomeTyped
  <2> QED
    BY <2>1
<1>3. m.text \in Seq(TokenType) /\ m.text \o <<>> = m.text
  BY <1>1, <1>2, TextFacts DEF MessageType
<1>4. CASE m.id = Pending
  <2>1. n.id = Local /\ n.text = m.text
    BY <1>2, <1>3, <1>4
  <2>2. ~(n.id > 0) /\ n.id # Pending /\ n.id \in Local..Len(posts)
    BY <1>1, <2>1 DEF Local, Pending, WebTypes
  <2> HIDE DEF n
  <2>3. MessageRight(n)
    BY <1>1, <2>1, <2>2 DEF MessageRight
  <2>4. MessageWhole(n)
    BY <2>2 DEF MessageWhole
  <2> QED
    BY <2>3, <2>4 DEF n
<1> QED
  BY <1>2, <1>4

LEMMA FinishedTyped ==
    ASSUME WebTypes, NEW id \in Int
    PROVE  /\ Finished(id).messages = PendingBecome(id, <<>>) /\ Finished(id).streaming = FALSE
           /\ Finished(id) \in ChatType
<1>1. PendingBecome(id, <<>>) \in Seq(MessageType)
  <2>1. <<>> \in Seq(TokenType)
    OBVIOUS
  <2> QED
    BY <2>1, BecomeTyped
<1> DEFINE b == PendingBecome(id, <<>>)
<1> HIDE DEF b
<1>2. b \in Seq(MessageType) /\ Finished(id) = [chat EXCEPT !.streaming = FALSE, !.messages = b]
  BY <1>1 DEF Finished, b
<1>3. [chat EXCEPT !.streaming = FALSE, !.messages = b].messages = b
  BY DEF WebTypes, ChatType
<1>4. [chat EXCEPT !.streaming = FALSE, !.messages = b].streaming = FALSE
  BY DEF WebTypes, ChatType
<1>5. [chat EXCEPT !.streaming = FALSE, !.messages = b] \in ChatType
  BY <1>2 DEF WebTypes, ChatType
<1> QED
  BY <1>2, <1>3, <1>4, <1>5 DEF b

\* A run that ends says nothing more.
LEMMA RunOver ==
    ASSUME WebInv, NEW t \in DOMAIN runs, NEW late \in BOOLEAN, runs[t].late => late,
           runs' = [runs EXCEPT ![t] = [Run(NoSession) EXCEPT !.phase = "over", !.late = late]],
           abortRef' = IF abortRef = t THEN 0 ELSE abortRef
    PROVE  /\ runs' \in Seq(RunType)
           /\ DOMAIN runs' = DOMAIN runs /\ Len(runs') = Len(runs)
           /\ \A u \in DOMAIN runs : Quieter(u)
           /\ runs'[t].phase = "over" /\ runs'[t].late = late
           /\ abortRef' \in {0, abortRef} /\ abortRef' \in 0..Len(runs')
<1> DEFINE r == [Run(NoSession) EXCEPT !.phase = "over", !.late = late]
<1>1. runs' = [runs EXCEPT ![t] = r]
  OBVIOUS
<1>2. r \in RunType
  <2>1. Run(NoSession) \in RunType
    BY WebAssumption DEF Run, RunType
  <2> QED
    BY <2>1 DEF RunType
<1>3. r.phase = "over" /\ r.post = 0 /\ ~r.done /\ r.late = late
  BY DEF Run
<1> HIDE DEF r
<1>4. DOMAIN runs' = DOMAIN runs /\ Len(runs') = Len(runs) /\ runs'[t] = r
      /\ \A u \in DOMAIN runs : u # t => runs'[u] = runs[u]
  BY <1>1 DEF WebInv, WebTypes
<1>5. ASSUME NEW u \in DOMAIN runs PROVE Quieter(u)
  <2>1. CASE u = t
    BY <1>3, <1>4, <2>1 DEF Quieter, Live
  <2>2. CASE u # t
    <3>1. runs'[u] = runs[u] /\ ~(runs[u].done /\ runs[u].error)
      BY <1>4, <2>2 DEF WebInv, RunsRight
    <3> QED
      BY <3>1 DEF Quieter, Live
  <2> QED
    BY <2>1, <2>2
<1>6. runs' \in Seq(RunType)
  <2>1. runs \in Seq(RunType) /\ r \in RunType
    BY <1>2 DEF WebInv, WebTypes
  <2> QED
    BY <1>1, <2>1
<1>7. runs'[t].phase = "over"
  BY <1>3, <1>4
<1>8. abortRef' \in {0, abortRef} /\ abortRef' \in 0..Len(runs')
  BY <1>4 DEF WebInv, WebTypes
<1> QED
  BY <1>3, <1>4, <1>5, <1>6, <1>7, <1>8

LEMMA RunsStay ==
    ASSUME WebInv, UNCHANGED runs
    PROVE  /\ DOMAIN runs' = DOMAIN runs /\ Len(runs') = Len(runs)
           /\ \A t \in DOMAIN runs : Quieter(t)
<1>1. \A t \in DOMAIN runs : ~(runs[t].done /\ runs[t].error)
  BY DEF WebInv, RunsRight
<1> QED
  BY <1>1 DEF Quieter, Live

LEMMA StopRight == ASSUME WebInv, Stop PROVE WebInv'
<1>0. PICK t : t = abortRef
  OBVIOUS
<1>1. t \in DOMAIN runs /\ runs[t].phase \in {"sending", "open"} /\ runs[t].late \in BOOLEAN
  <2>1. runs \in Seq(RunType) /\ t \in 0..Len(runs) /\ t # 0 /\ runs[t].phase \in {"sending", "open"}
    BY <1>0 DEF WebInv, WebTypes, Stop
  <2>2. t \in DOMAIN runs
    BY <2>1
  <2>3. runs[t] \in RunType
    BY <2>1, <2>2, Element
  <2> QED
    BY <2>1, <2>2, <2>3 DEF RunType
<1>2. chat' = Finished(Local) /\ UNCHANGED <<posts, recorded, asked, signedIn>>
      /\ runs' = [runs EXCEPT ![t] = [Run(NoSession) EXCEPT !.phase = "over", !.late = runs[t].late]]
      /\ abortRef' = IF abortRef = t THEN 0 ELSE abortRef
  BY <1>0 DEF Stop, Over
<1> DEFINE late == runs[t].late
<1>3. late \in BOOLEAN /\ (runs[t].late => late)
      /\ runs' = [runs EXCEPT ![t] = [Run(NoSession) EXCEPT !.phase = "over", !.late = late]]
  BY <1>1, <1>2
<1> HIDE DEF late
<1>4. /\ runs' \in Seq(RunType) /\ abortRef' \in 0..Len(runs')
      /\ DOMAIN runs' = DOMAIN runs /\ Len(runs') = Len(runs) /\ \A u \in DOMAIN runs : Quieter(u)
      /\ runs'[t].phase = "over" /\ abortRef' \in {0, abortRef}
  BY <1>1, <1>2, <1>3, RunOver
<1>5. WebTypes'
  <2>1. WebTypes /\ Local \in Int
    BY DEF WebInv, Local
  <2> QED
    BY <1>2, <1>4, <2>1, FinishedTyped DEF WebTypes
<1>6. chat'.messages = PendingBecome(Local, <<>>) /\ DOMAIN PendingBecome(Local, <<>>) = DOMAIN chat.messages
  <2>1. WebTypes /\ Local \in Int /\ <<>> \in Seq(TokenType)
    BY DEF WebInv, Local
  <2>2. Finished(Local).messages = PendingBecome(Local, <<>>)
    BY <2>1, FinishedTyped
  <2>3. DOMAIN PendingBecome(Local, <<>>) = DOMAIN chat.messages
    BY <2>1, BecomeTyped
  <2> QED
    BY <1>2, <2>2, <2>3
<1>7. ASSUME NoneLate' PROVE t = Len(runs)
  <2>1. LastIsLive
    BY <1>2, <1>4, <1>7, QuietRuns DEF WebInv
  <2> QED
    BY <1>0, <1>1, <2>1 DEF LastIsLive, Stop
<1>8. \A i \in DOMAIN chat'.messages :
         \/ \E k \in DOMAIN chat.messages : chat'.messages[i] = chat.messages[k]
         \/ MessageRight(chat'.messages[i]) /\ MessageWhole(chat'.messages[i])
  BY <1>6, FinishedLocally
<1>9. ~Live(t)'
  BY <1>4 DEF Live
<1> QED
  BY <1>1, <1>2, <1>4, <1>5, <1>7, <1>8, <1>9, QuietStep

LEMMA Joined ==
    ASSUME NEW s \in Seq(MessageType), NEW t \in Seq(MessageType)
    PROVE  /\ s \o t \in Seq(MessageType) /\ Len(s \o t) = Len(s) + Len(t) /\ Len(s) \in Nat /\ Len(t) \in Nat
           /\ \A k \in 1..Len(s) : (s \o t)[k] = s[k]
           /\ \A k \in 1..Len(t) : (s \o t)[Len(s) + k] = t[k]
OBVIOUS

\* A run begins: its two messages are shown after some that were there.
LEMMA BeginRight ==
    ASSUME WebInv, NEW kept \in Seq(MessageType),
           \A i \in DOMAIN kept : \E k \in DOMAIN chat.messages : kept[i] = chat.messages[k],
           ~chat.streaming, chat' = Begun(kept), runs' = Append(runs, Run(chat.active)),
           abortRef' = Len(runs) + 1, UNCHANGED <<posts, recorded, asked, signedIn>>
    PROVE  WebInv'
<1> DEFINE two == <<UserMessage, PendingMessage>>   shown == kept \o two   r == Run(chat.active)
<1>1. WebTypes /\ MessagesRight /\ RunsRight /\ RecordsRight /\ OneSpoke
  BY DEF WebInv
<1>2. shown \in Seq(MessageType)
      /\ \A i \in DOMAIN shown : \/ \E k \in DOMAIN chat.messages : shown[i] = chat.messages[k]
                                 \/ shown[i] = UserMessage \/ shown[i] = PendingMessage
  <2>1. two \in Seq(MessageType) /\ Len(two) = 2 /\ two[1] = UserMessage /\ two[2] = PendingMessage
    BY DEF UserMessage, PendingMessage, MessageType, Local, Pending
  <2> HIDE DEF two
  <2>0. shown \in Seq(MessageType) /\ Len(shown) = Len(kept) + Len(two) /\ Len(kept) \in Nat
        /\ (\A i \in 1..Len(kept) : shown[i] = kept[i]) /\ \A i \in 1..Len(two) : shown[Len(kept) + i] = two[i]
    BY <2>1, Joined
  <2> HIDE DEF shown
  <2>2. shown \in Seq(MessageType) /\ Len(shown) = Len(kept) + 2 /\ Len(kept) \in Nat
        /\ (\A i \in 1..Len(kept) : shown[i] = kept[i]) /\ \A i \in 1..2 : shown[Len(kept) + i] = two[i]
    BY <2>0, <2>1
  <2>3. ASSUME NEW i \in DOMAIN shown
        PROVE  \/ \E k \in DOMAIN chat.messages : shown[i] = chat.messages[k]
               \/ shown[i] = UserMessage \/ shown[i] = PendingMessage
    <3>1. i \in 1..Len(kept) + 2 /\ DOMAIN kept = 1..Len(kept)
      BY <2>2
    <3>2. CASE i \in 1..Len(kept)
      BY <2>2, <3>1, <3>2
    <3>3. CASE i = Len(kept) + 1
      BY <2>1, <2>2, <3>3
    <3>4. CASE i = Len(kept) + 2
      BY <2>1, <2>2, <3>4
    <3> QED
      BY <2>2, <3>1, <3>2, <3>3, <3>4
  <2> QED
    BY <2>2, <2>3
<1>3. chat' = [chat EXCEPT !.messages = shown, !.streaming = TRUE, !.failed = FALSE, !.prompted = TRUE]
  BY DEF Begun
<1>4. r \in RunType /\ r.phase = "sending" /\ r.post = 0 /\ ~r.done /\ ~r.late
  <2>1. chat.active \in Sessions \cup {NoSession}
    BY <1>1 DEF WebTypes, ChatType
  <2> QED
    BY <2>1, WebAssumption DEF Run, RunType
<1> HIDE DEF shown, r
<1>5. chat' \in ChatType /\ chat'.messages = shown /\ chat'.streaming
  BY <1>1, <1>2, <1>3 DEF WebTypes, ChatType
<1>6. /\ runs' \in Seq(RunType) /\ Len(runs') = Len(runs) + 1 /\ Len(runs) \in Nat
      /\ DOMAIN runs' = DOMAIN runs \cup {Len(runs) + 1} /\ Len(runs) + 1 \notin DOMAIN runs
      /\ runs'[Len(runs) + 1] = r /\ \A t \in DOMAIN runs : runs'[t] = runs[t]
  <2>1. runs' = Append(runs, r) /\ runs \in Seq(RunType)
    BY <1>1 DEF WebTypes, r
  <2> QED
    BY <1>4, <2>1
<1>7. WebTypes'
  BY <1>1, <1>5, <1>6 DEF WebTypes
<1>8. ASSUME NEW t \in DOMAIN runs', NEW p
      PROVE  Hears(t, p)' => t \in DOMAIN runs /\ Hears(t, p)
  BY <1>4, <1>6 DEF Hears
<1>9. ASSUME NEW m, MessageRight(m) PROVE MessageRight(m)'
  BY <1>8, <1>9 DEF MessageRight
<1>10. ASSUME NEW m, m = UserMessage \/ m = PendingMessage
       PROVE  m.text = <<>> /\ ~(m.id > 0) /\ MessageRight(m)
  <2>1. m.text = <<>> /\ m.id \in {Local, Pending}
    BY <1>10 DEF UserMessage, PendingMessage
  <2>2. Len(posts) \in Nat
    BY <1>1 DEF WebTypes
  <2>3. ~(m.id > 0) /\ m.id \in Local..Len(posts)
    BY <2>1, <2>2 DEF Local, Pending
  <2> QED
    BY <2>1, <2>3 DEF MessageRight
<1>11. ASSUME NEW i \in DOMAIN shown PROVE MessageRight(shown[i])
  BY <1>1, <1>2, <1>10 DEF MessagesRight
<1>12. MessagesRight'
  <2>1. ASSUME NEW i \in DOMAIN shown, NEW m, m = shown[i] PROVE MessageRight(m)'
    BY <1>9, <1>11, <2>1
  <2> QED
    BY <1>5, <2>1 DEF MessagesRight, MessageRight
<1>13. RunsRight'
  BY <1>1, <1>4, <1>6 DEF RunsRight, WebTypes
<1>14. RecordsRight'
  BY <1>1, <1>8 DEF RecordsRight
<1>15. OneSpoke'
  BY <1>1, <1>6 DEF OneSpoke
<1>16. ASSUME NoneLate' PROVE LastIsLive' /\ MessagesWhole'
  <2>1. NoneLate /\ LastIsLive /\ MessagesWhole
    BY <1>6, <1>16 DEF NoneLate, WebInv
  <2>2. ASSUME NEW t \in DOMAIN runs' PROVE Live(t)' => t = Len(runs')
    BY <1>6, <2>1 DEF LastIsLive, Live
  <2>3. LastIsLive'
    BY <1>5, <1>6, <2>2 DEF LastIsLive
  <2>4. ASSUME NEW t \in DOMAIN runs' PROVE ~(runs'[t].phase = "open" /\ ~runs'[t].done)
    BY <1>4, <1>6, <2>1 DEF LastIsLive, Live
  <2>5. ASSUME NEW i \in DOMAIN shown, NEW m, m = shown[i] PROVE MessageWhole(m)'
    <3>1. CASE m.id > 0
      <4>1. MessageWhole(m)
        BY <1>2, <1>10, <2>1, <2>5, <3>1 DEF MessagesWhole
      <4> QED
        BY <2>4, <4>1 DEF MessageWhole
    <3>2. CASE ~(m.id > 0)
      BY <2>4, <3>2 DEF MessageWhole
    <3> QED
      BY <3>1, <3>2
  <2>6. MessagesWhole'
    BY <1>5, <2>5 DEF MessagesWhole, MessageWhole
  <2> QED
    BY <2>3, <2>6
<1> QED
  BY <1>7, <1>12, <1>13, <1>14, <1>15, <1>16 DEF WebInv

LEMMA SendRight == ASSUME WebInv, Send PROVE WebInv'
<1>1. chat.messages \in Seq(MessageType)
  BY DEF WebInv, WebTypes, ChatType
<1> QED
  BY <1>1, BeginRight DEF Send

LEMMA ResendRight == ASSUME WebInv, Resend PROVE WebInv'
<1> DEFINE all == chat.messages   n == Len(all)   kept == SubSeq(all, 1, n - 2)
<1>1. all \in Seq(MessageType) /\ n \in Nat /\ DOMAIN all = 1..n
  BY DEF WebInv, WebTypes, ChatType
<1>2. kept \in Seq(MessageType) /\ \A i \in DOMAIN kept : i \in DOMAIN all /\ kept[i] = all[i]
  <2> HIDE DEF all
  <2>1. CASE n <= 2
    <3>1. kept = <<>>
      BY <1>1, <2>1
    <3>2. <<>> \in Seq(MessageType) /\ DOMAIN <<>> = {}
      OBVIOUS
    <3> HIDE DEF kept
    <3> QED
      BY <3>1, <3>2
  <2>2. CASE n > 2
    <3>1. n - 2 \in 1..n
      BY <1>1, <2>2
    <3> HIDE DEF n
    <3>2. kept \in Seq(MessageType) /\ Len(kept) = n - 2
          /\ \A i \in 1..n - 2 : i \in DOMAIN all /\ kept[i] = all[i]
      BY <1>1, <2>2, <3>1 DEF n
    <3> QED
      BY <3>2
  <2> QED
    BY <1>1, <2>1, <2>2
<1>3. ~chat.streaming /\ chat' = Begun(kept) /\ runs' = Append(runs, Run(chat.active))
      /\ abortRef' = Len(runs) + 1 /\ UNCHANGED <<posts, recorded, asked, signedIn>>
  BY DEF Resend
<1> HIDE DEF kept
<1> QED
  BY <1>2, <1>3, BeginRight

\* A step that only changes what is shown, and shows what is right.
LEMMA ShowStep ==
    ASSUME WebInv, WebTypes', UNCHANGED <<runs, abortRef, posts, recorded>>,
           chat'.streaming = chat.streaming,
           \A i \in DOMAIN chat'.messages :
              \/ \E k \in DOMAIN chat.messages : chat'.messages[i] = chat.messages[k]
              \/ /\ MessageRight(chat'.messages[i])
                 /\ NoneLate => MessageWhole(chat'.messages[i])
    PROVE  WebInv'
<1>1. DOMAIN runs' = DOMAIN runs /\ Len(runs') = Len(runs) /\ \A t \in DOMAIN runs : Quieter(t)
  BY RunsStay
<1>2. abortRef' \in {0, abortRef, Len(runs)} /\ UNCHANGED <<posts, recorded>>
  OBVIOUS
<1> QED
  BY <1>1, <1>2, QuietStep

LEMMA NewConversationRight == ASSUME WebInv, NewConversation PROVE WebInv'
<1>1. chat' = [chat EXCEPT !.active = NoSession, !.messages = <<>>, !.failed = FALSE]
      /\ UNCHANGED <<runs, abortRef, posts, recorded, asked, signedIn>>
  BY DEF NewConversation, Shown
<1>2. chat' \in ChatType /\ chat'.messages = <<>> /\ chat'.streaming = chat.streaming
  <2>1. <<>> \in Seq(MessageType)
    OBVIOUS
  <2> QED
    BY <1>1, <2>1 DEF WebInv, WebTypes, ChatType
<1>3. WebTypes'
  BY <1>1, <1>2 DEF WebInv, WebTypes
<1>4. \A i \in DOMAIN chat'.messages : FALSE
  BY <1>2
<1> QED
  BY <1>1, <1>2, <1>3, <1>4, ShowStep

LEMMA AskTyped ==
    ASSUME WebTypes, NEW s \in Sessions, NEW want \in {"open", "compact", "delete"}, Ask(s, want)
    PROVE  asked' \in Seq(AskType)
<1> DEFINE a == [want |-> want, session |-> s]
<1>1. a \in AskType /\ asked \in Seq(AskType) /\ asked' = Append(asked, a)
  BY DEF WebTypes, AskType, Ask
<1> HIDE DEF a
<1> QED
  BY <1>1

LEMMA OpenRight == ASSUME WebInv, NEW s \in Sessions, OpenSession(s) PROVE WebInv'
<1>1. chat' = [chat EXCEPT !.active = s, !.messages = <<>>, !.failed = FALSE]
      /\ UNCHANGED <<runs, abortRef, posts, recorded, signedIn>> /\ Ask(s, "open")
  BY DEF OpenSession, Shown
<1>2. chat' \in ChatType /\ chat'.messages = <<>> /\ chat'.streaming = chat.streaming
  <2>1. <<>> \in Seq(MessageType)
    OBVIOUS
  <2> QED
    BY <1>1, <2>1 DEF WebInv, WebTypes, ChatType
<1>3. WebTypes'
  <2>1. asked' \in Seq(AskType)
    BY <1>1, AskTyped DEF WebInv
  <2> QED
    BY <1>1, <1>2, <2>1 DEF WebInv, WebTypes
<1>4. \A i \in DOMAIN chat'.messages : FALSE
  BY <1>2
<1> QED
  BY <1>1, <1>2, <1>3, <1>4, ShowStep

LEMMA ManageRight ==
    ASSUME WebInv, NEW s \in Sessions, NEW want \in {"compact", "delete"}, Manage(s, want)
    PROVE  WebInv'
<1>1. UNCHANGED <<chat, runs, abortRef, posts, recorded, signedIn>> /\ Ask(s, want)
  BY DEF Manage
<1>2. WebTypes'
  <2>1. asked' \in Seq(AskType)
    BY <1>1, AskTyped DEF WebInv
  <2> QED
    BY <1>1, <2>1 DEF WebInv, WebTypes
<1> QED
  BY <1>1, <1>2, ShowStep

\* What is read back from the API says of a post what was sent.
LEMMA StoredRight ==
    ASSUME WebInv, NEW s \in Sessions, NEW i \in DOMAIN Stored(s)
    PROVE  MessageRight(Stored(s)[i]) /\ MessageWhole(Stored(s)[i])
<1> DEFINE m == Stored(s)[i]
<1>1. WebTypes /\ RecordsRight
  BY DEF WebInv
<1>2. m = UserMessage \/ \E k \in DOMAIN recorded[s] :
          m = [id |-> recorded[s][k], text |-> Tokens(recorded[s][k], posts[recorded[s][k]].sent)]
  BY <1>1, StoredTyped
<1>3. posts \in Seq(PostType) /\ Len(posts) \in Nat /\ DOMAIN posts = 1..Len(posts)
  BY <1>1 DEF WebTypes
<1> HIDE DEF m
<1>4. CASE m = UserMessage
  <2>1. m.id = Local /\ m.text = <<>>
    BY <1>4 DEF UserMessage
  <2>2. m.id \in Local..Len(posts) /\ ~(m.id > 0) /\ m.id # Pending
    BY <1>3, <2>1 DEF Local, Pending
  <2> QED
    BY <2>1, <2>2 DEF MessageRight, MessageWhole, m
<1>5. CASE m # UserMessage
  <2>1. PICK k \in DOMAIN recorded[s] :
          m = [id |-> recorded[s][k], text |-> Tokens(recorded[s][k], posts[recorded[s][k]].sent)]
    BY <1>2, <1>5
  <2> DEFINE p == recorded[s][k]   sent == posts[p].sent
  <2>2. p \in DOMAIN posts /\ \A t \in DOMAIN runs : ~Hears(t, p)
    BY <1>1 DEF RecordsRight
  <2>3. m.id = p /\ m.text = Tokens(p, sent)
    BY <2>1
  <2> HIDE DEF p
  <2>4. posts[p] \in PostType
    BY <1>3, <2>2, Element
  <2>5. sent \in Nat /\ p \in Nat /\ p > 0 /\ p \in Local..Len(posts) /\ p # Pending
    BY <1>3, <2>2, <2>4 DEF PostType, Local, Pending
  <2> DEFINE text == Tokens(p, sent)
  <2> HIDE DEF sent
  <2>6. text \in Seq(TokenType) /\ DOMAIN text = 1..sent /\ \A j \in 1..sent : text[j] = <<p, j>>
    <3>1. text \in Seq(TokenType) /\ Len(text) = sent /\ \A j \in 1..sent : text[j] = <<p, j>>
      BY <2>5, TokensTyped
    <3> HIDE DEF text
    <3> QED
      BY <3>1
  <2>7. TailOf(text, text)
    BY <2>6, EndsItself
  <2> HIDE DEF text
  <2>8. ASSUME NEW j \in DOMAIN text PROVE text[j][1] \in DOMAIN posts /\ posts[text[j][1]].sent > 0
    <3>1. text[j][1] = p /\ sent > 0
      BY <2>5, <2>6
    <3> QED
      BY <2>2, <3>1 DEF sent
  <2>9. m.id = p /\ m.text = text
    BY <2>3 DEF text
  <2>10. MessageRight(m)
    BY <2>2, <2>5, <2>8, <2>9 DEF MessageRight
  <2>11. MessageWhole(m)
    BY <2>5, <2>7, <2>9 DEF MessageWhole, text, sent
  <2> QED
    BY <2>10, <2>11 DEF m
<1> QED
  BY <1>4, <1>5

LEMMA AnswerRight == ASSUME WebInv, NEW i \in DOMAIN asked, AnswerSidebar(i) PROVE WebInv'
<1> DEFINE s == asked[i].session
<1>1. WebTypes /\ MessagesRight /\ RunsRight /\ RecordsRight /\ OneSpoke
  BY DEF WebInv
<1>2. s \in Sessions /\ asked' \in Seq(AskType) /\ UNCHANGED <<runs, abortRef, posts, signedIn>>
  <2>1. asked \in Seq(AskType) /\ asked[i] \in AskType
    BY <1>1, Element DEF WebTypes
  <2>2. [asked[i] EXCEPT !.want = "none"] \in AskType
    BY <2>1 DEF AskType
  <2>3. asked' = [asked EXCEPT ![i] = [asked[i] EXCEPT !.want = "none"]] /\ UNCHANGED <<runs, abortRef, posts, signedIn>>
    BY DEF AnswerSidebar
  <2>4. s \in Sessions
    BY <2>1 DEF AskType
  <2> QED
    BY <2>1, <2>2, <2>3, <2>4
<1>3. \/ chat' = Removed(s) /\ recorded' = [recorded EXCEPT ![s] = <<>>]
      \/ chat' = [chat EXCEPT !.messages = Stored(s)] /\ UNCHANGED recorded
      \/ UNCHANGED <<chat, recorded>>
  BY DEF AnswerSidebar
<1> HIDE DEF s
<1>4. CASE chat' = Removed(s) /\ recorded' = [recorded EXCEPT ![s] = <<>>]
  <2>0. <<>> \in Seq(MessageType)
    OBVIOUS
  <2>1. chat' \in ChatType /\ chat'.streaming = chat.streaming
        /\ (chat'.messages = chat.messages \/ chat'.messages = <<>>)
    BY <1>1, <1>4, <2>0 DEF WebTypes, ChatType, Removed
  <2>2. recorded' \in [Sessions -> Seq(Nat)] /\ recorded'[s] = <<>>
        /\ \A u \in Sessions : u # s => recorded'[u] = recorded[u]
    BY <1>1, <1>2, <1>4 DEF WebTypes
  <2>3. WebTypes'
    BY <1>1, <1>2, <2>1, <2>2 DEF WebTypes
  <2>4. RecordsRight'
    <3>1. \A t \in DOMAIN runs' : \A p : Hears(t, p)' <=> Hears(t, p)
      BY <1>2 DEF Hears
    <3>2. ASSUME NEW u \in Sessions, NEW k \in DOMAIN recorded'[u]
          PROVE  recorded'[u][k] \in DOMAIN posts /\ \A t \in DOMAIN runs : ~Hears(t, recorded'[u][k])
      <4>1. u # s
        BY <2>2
      <4>2. recorded'[u] = recorded[u]
        BY <2>2, <4>1
      <4> QED
        BY <1>1, <4>2 DEF RecordsRight
    <3> QED
      BY <1>2, <3>1, <3>2 DEF RecordsRight
  <2>5. MessagesRight'
    BY <1>1, <1>2, <2>1 DEF MessagesRight, MessageRight, Hears
  <2>6. RunsRight' /\ OneSpoke'
    BY <1>1, <1>2 DEF RunsRight, OneSpoke
  <2>7. ASSUME NoneLate' PROVE LastIsLive' /\ MessagesWhole'
    <3>1. NoneLate /\ LastIsLive /\ MessagesWhole
      BY <1>2, <2>7 DEF NoneLate, WebInv
    <3> QED
      BY <1>2, <2>1, <3>1 DEF LastIsLive, Live, MessagesWhole, MessageWhole
  <2> QED
    BY <2>3, <2>4, <2>5, <2>6, <2>7 DEF WebInv
<1>5. CASE chat' = [chat EXCEPT !.messages = Stored(s)] /\ UNCHANGED recorded
  <2>1. Stored(s) \in Seq(MessageType)
    BY <1>1, <1>2, StoredTyped
  <2>2. chat' \in ChatType /\ chat'.streaming = chat.streaming /\ chat'.messages = Stored(s)
    BY <1>1, <1>5, <2>1 DEF WebTypes, ChatType
  <2>3. WebTypes'
    BY <1>1, <1>2, <1>5, <2>2 DEF WebTypes
  <2>4. \A k \in DOMAIN chat'.messages : MessageRight(chat'.messages[k]) /\ MessageWhole(chat'.messages[k])
    BY <1>2, <2>2, StoredRight
  <2> QED
    BY <1>2, <1>5, <2>2, <2>3, <2>4, ShowStep
<1>6. CASE UNCHANGED <<chat, recorded>>
  <2>1. WebTypes'
    BY <1>1, <1>2, <1>6 DEF WebTypes
  <2> QED
    BY <1>2, <1>6, <2>1, ShowStep
<1> QED
  BY <1>3, <1>4, <1>5, <1>6

\* One run changes.
LEMMA OneRun ==
    ASSUME WebInv, NEW t \in DOMAIN runs, NEW r \in RunType, runs' = [runs EXCEPT ![t] = r]
    PROVE  /\ runs' \in Seq(RunType) /\ DOMAIN runs' = DOMAIN runs /\ Len(runs') = Len(runs)
           /\ runs'[t] = r /\ (\A u \in DOMAIN runs : u # t => runs'[u] = runs[u])
           /\ \A u \in DOMAIN runs : u # t => Quieter(u)
<1>1. runs \in Seq(RunType)
  BY DEF WebInv, WebTypes
<1>2. /\ runs' \in Seq(RunType) /\ DOMAIN runs' = DOMAIN runs /\ Len(runs') = Len(runs)
      /\ runs'[t] = r /\ \A u \in DOMAIN runs : u # t => runs'[u] = runs[u]
  BY <1>1
<1>3. ASSUME NEW u \in DOMAIN runs, u # t PROVE Quieter(u)
  <2>1. runs'[u] = runs[u] /\ ~(runs[u].done /\ runs[u].error)
    BY <1>2, <1>3 DEF WebInv, RunsRight
  <2> QED
    BY <2>1 DEF Quieter, Live
<1> QED
  BY <1>2, <1>3

\* Of a run, and of the one the stop button would abort.
LEMMA RunFacts ==
    ASSUME WebInv, NEW t \in DOMAIN runs
    PROVE  /\ runs[t] \in RunType /\ ~(runs[t].done /\ runs[t].error)
           /\ t \in Nat /\ Len(runs) \in Nat /\ abortRef \in 0..Len(runs)
           /\ abortRef' = (IF abortRef = t THEN 0 ELSE abortRef) =>
                abortRef' \in {0, abortRef} /\ abortRef' \in 0..Len(runs)
<1>1. runs \in Seq(RunType) /\ abortRef \in 0..Len(runs)
  BY DEF WebInv, WebTypes
<1>2. runs[t] \in RunType
  BY <1>1, Element
<1> QED
  BY <1>1, <1>2 DEF WebInv, RunsRight

\* A request or a stream that fails: the run waits to be sent again, or the turn has failed.
LEMMA FailsRight ==
    ASSUME WebInv, NEW t \in DOMAIN runs, runs[t].phase \in {"sending", "open"}, NEW status,
           Fails(t, status), UNCHANGED <<posts, recorded, asked>>, signedIn' \in BOOLEAN
    PROVE  WebInv'
<1>1. runs[t] \in RunType /\ ~(runs[t].done /\ runs[t].error) /\ t \in Nat /\ Len(runs) \in Nat
      /\ chat \in ChatType
  BY RunFacts DEF WebInv, WebTypes
<1>2. abortRef' = IF abortRef = t THEN 0 ELSE abortRef
  BY DEF Fails
<1>3. abortRef' \in {0, abortRef} /\ abortRef' \in 0..Len(runs)
  BY <1>2, RunFacts
<1>4. CASE MayResend(t, status) /\ runs[t].attempt < StreamRetries
  <2> DEFINE r == [runs[t] EXCEPT !.phase = "backoff", !.attempt = @ + 1, !.silent = FALSE, !.late = @ \/ runs[t].done]
  <2>1. /\ runs' = [runs EXCEPT ![t].phase = "backoff", ![t].attempt = @ + 1, ![t].silent = FALSE,
                                ![t].late = @ \/ runs[t].done]
        /\ chat' = [chat EXCEPT !.failed = FALSE] /\ ~runs[t].tokens
    BY <1>4 DEF Fails, MayResend
  <2>2. runs' = [runs EXCEPT ![t] = r]
    BY <1>1, <2>1 DEF RunType
  <2>3. /\ r \in RunType /\ r.phase = "backoff" /\ r.post = runs[t].post /\ r.done = runs[t].done
        /\ r.error = runs[t].error /\ r.late = (runs[t].late \/ runs[t].done)
    <3> DEFINE late == runs[t].late \/ runs[t].done   next == runs[t].attempt + 1
    <3>1. late \in BOOLEAN
      OBVIOUS
    <3>2. next \in 0..StreamRetries
      BY <1>1, <1>4, WebAssumption DEF RunType
    <3>3. r = [runs[t] EXCEPT !.phase = "backoff", !.attempt = next, !.silent = FALSE, !.late = late]
      BY <1>1 DEF RunType
    <3> HIDE DEF late, next, r
    <3>4. /\ r \in RunType /\ r.phase = "backoff" /\ r.post = runs[t].post /\ r.done = runs[t].done
          /\ r.error = runs[t].error /\ r.late = late
      BY <1>1, <3>1, <3>2, <3>3 DEF RunType
    <3> QED
      BY <3>4 DEF late
  <2> HIDE DEF r
  <2>4. /\ runs' \in Seq(RunType) /\ DOMAIN runs' = DOMAIN runs /\ Len(runs') = Len(runs)
        /\ runs'[t] = r /\ \A u \in DOMAIN runs : u # t => Quieter(u)
    BY <2>2, <2>3, OneRun
  <2>5. Live(t) \/ r.late
    BY <2>3 DEF Live
  <2>6. Quieter(t)
    BY <1>1, <2>1, <2>3, <2>4, <2>5 DEF Quieter
  <2>7. chat' \in ChatType /\ chat'.messages = chat.messages /\ chat'.streaming = chat.streaming
    BY <1>1, <2>1 DEF ChatType
  <2>8. WebTypes'
    BY <1>3, <2>4, <2>7 DEF WebInv, WebTypes
  <2>9. \A u \in DOMAIN runs : Quieter(u)
    BY <2>4, <2>6
  <2> QED
    BY <1>3, <2>4, <2>7, <2>8, <2>9, QuietStep
<1>5. CASE ~(MayResend(t, status) /\ runs[t].attempt < StreamRetries)
  <2> DEFINE late == runs[t].late \/ runs[t].done
  <2>1. late \in BOOLEAN /\ (runs[t].late => late)
        /\ runs' = [runs EXCEPT ![t] = [Run(NoSession) EXCEPT !.phase = "over", !.late = late]]
        /\ chat' = [chat EXCEPT !.streaming = FALSE, !.failed = TRUE]
    BY <1>1, <1>5 DEF Fails, Failed
  <2>2. late = (runs[t].done \/ runs[t].late)
    OBVIOUS
  <2> HIDE DEF late
  <2>3. /\ runs' \in Seq(RunType) /\ DOMAIN runs' = DOMAIN runs /\ Len(runs') = Len(runs)
        /\ \A u \in DOMAIN runs : Quieter(u)
        /\ runs'[t].phase = "over" /\ runs'[t].late = late
    BY <1>2, <2>1, RunOver
  <2>4. chat' \in ChatType /\ chat'.messages = chat.messages
    BY <1>1, <2>1 DEF ChatType
  <2>5. WebTypes'
    BY <1>3, <2>3, <2>4 DEF WebInv, WebTypes
  <2>6. NoneLate' => Live(t)
    BY <2>2, <2>3 DEF NoneLate, Live
  <2>7. ~Live(t)'
    BY <2>3 DEF Live
  <2> QED
    BY <1>3, <2>3, <2>4, <2>5, <2>6, <2>7, QuietStep
<1> QED
  BY <1>4, <1>5

LEMMA WakeRight == ASSUME WebInv, NEW t \in DOMAIN runs, Wake(t) PROVE WebInv'
<1> DEFINE r == [runs[t] EXCEPT !.phase = "sending", !.tokens = FALSE, !.done = FALSE, !.error = FALSE]
<1>1. runs[t] \in RunType /\ t \in Nat /\ Len(runs) \in Nat /\ runs[t].phase = "backoff"
  BY RunFacts DEF Wake
<1>2. /\ runs' = [runs EXCEPT ![t].phase = "sending", ![t].tokens = FALSE, ![t].done = FALSE,
                              ![t].error = FALSE]
      /\ abortRef' = t /\ UNCHANGED <<chat, posts, recorded, asked, signedIn>>
  BY DEF Wake
<1>3. runs' = [runs EXCEPT ![t] = r]
  BY <1>1, <1>2 DEF RunType
<1>4. r \in RunType /\ r.phase = "sending" /\ r.post = runs[t].post /\ ~r.done /\ r.late = runs[t].late
  BY <1>1 DEF RunType
<1> HIDE DEF r
<1>5. /\ runs' \in Seq(RunType) /\ DOMAIN runs' = DOMAIN runs /\ Len(runs') = Len(runs)
      /\ runs'[t] = r /\ \A u \in DOMAIN runs : u # t => Quieter(u)
  BY <1>3, <1>4, OneRun
<1>6. Live(t)
  BY <1>1 DEF Live
<1>7. Quieter(t)
  BY <1>1, <1>4, <1>5, <1>6 DEF Quieter
<1>8. \A u \in DOMAIN runs : Quieter(u)
  BY <1>5, <1>7
<1>9. t \in 0..Len(runs) /\ t \in 1..Len(runs)
  BY <1>1 DEF WebInv, WebTypes
<1>10. WebTypes'
  BY <1>2, <1>5, <1>9 DEF WebInv, WebTypes
<1>11. NoneLate' => t = Len(runs)
  BY <1>2, <1>5, <1>6, <1>8, QuietRuns DEF WebInv, LastIsLive
<1> QED
  BY <1>2, <1>5, <1>8, <1>10, <1>11, QuietStep

LEMMA OnErrorRight == ASSUME WebInv, NEW t \in DOMAIN runs, OnError(t) PROVE WebInv'
<1> DEFINE r == [runs[t] EXCEPT !.error = TRUE]
<1>1. /\ runs[t] \in RunType /\ runs[t].phase = "open" /\ ~runs[t].done
      /\ runs' = [runs EXCEPT ![t] = r] /\ UNCHANGED <<chat, abortRef, posts, recorded, asked, signedIn>>
  BY RunFacts DEF OnError, Speaking, Alive
<1>2. /\ r \in RunType /\ r.phase = "open" /\ r.post = runs[t].post /\ ~r.done /\ r.late = runs[t].late
      /\ r.tokens = runs[t].tokens
  BY <1>1 DEF RunType
<1> HIDE DEF r
<1>3. /\ runs' \in Seq(RunType) /\ DOMAIN runs' = DOMAIN runs /\ Len(runs') = Len(runs)
      /\ runs'[t] = r /\ \A u \in DOMAIN runs : u # t => Quieter(u)
  BY <1>1, <1>2, OneRun
<1>4. Live(t)
  BY <1>1 DEF Live
<1>5. Quieter(t)
  BY <1>1, <1>2, <1>3, <1>4 DEF Quieter
<1>6. \A u \in DOMAIN runs : Quieter(u)
  BY <1>3, <1>5
<1>7. WebTypes'
  BY <1>1, <1>3 DEF WebInv, WebTypes
<1> QED
  BY <1>1, <1>3, <1>6, <1>7, QuietStep

LEMMA FallSilentRight == ASSUME WebInv, NEW t \in DOMAIN runs, FallSilent(t) PROVE WebInv'
<1> DEFINE r == [runs[t] EXCEPT !.silent = TRUE]
<1>1. /\ runs[t] \in RunType /\ ~(runs[t].done /\ runs[t].error)
      /\ runs' = [runs EXCEPT ![t] = r] /\ UNCHANGED <<chat, abortRef, posts, recorded, asked, signedIn>>
  BY RunFacts DEF FallSilent
<1>2. /\ r \in RunType /\ r.phase = runs[t].phase /\ r.post = runs[t].post /\ r.done = runs[t].done
      /\ r.late = runs[t].late /\ r.tokens = runs[t].tokens /\ r.error = runs[t].error
  BY <1>1 DEF RunType
<1> HIDE DEF r
<1>3. /\ runs' \in Seq(RunType) /\ DOMAIN runs' = DOMAIN runs /\ Len(runs') = Len(runs)
      /\ runs'[t] = r /\ \A u \in DOMAIN runs : u # t => Quieter(u)
  BY <1>1, <1>2, OneRun
<1>4. Live(t)' <=> Live(t)
  BY <1>2, <1>3 DEF Live
<1>5. Quieter(t)
  BY <1>1, <1>2, <1>3, <1>4 DEF Quieter
<1>6. \A u \in DOMAIN runs : Quieter(u)
  BY <1>3, <1>5
<1>7. WebTypes'
  BY <1>1, <1>3 DEF WebInv, WebTypes
<1> QED
  BY <1>1, <1>3, <1>6, <1>7, QuietStep

LEMMA CloseRight == ASSUME WebInv, NEW t \in DOMAIN runs, Close(t) PROVE WebInv'
<1>1. runs[t] \in RunType /\ ~(runs[t].done /\ runs[t].error) /\ chat \in ChatType /\ runs[t].phase = "open"
  BY RunFacts DEF WebInv, WebTypes, Close, Alive
<1> DEFINE late == runs[t].late
<1>2. late \in BOOLEAN /\ (runs[t].late => late)
      /\ runs' = [runs EXCEPT ![t] = [Run(NoSession) EXCEPT !.phase = "over", !.late = late]]
      /\ abortRef' = (IF abortRef = t THEN 0 ELSE abortRef) /\ UNCHANGED <<posts, recorded, asked, signedIn>>
  BY <1>1 DEF Close, Over, RunType
<1> HIDE DEF late
<1>3. /\ runs' \in Seq(RunType) /\ DOMAIN runs' = DOMAIN runs /\ Len(runs') = Len(runs)
      /\ \A u \in DOMAIN runs : Quieter(u)
      /\ runs'[t].phase = "over" /\ abortRef' \in {0, abortRef} /\ abortRef' \in 0..Len(runs')
  BY <1>2, RunOver
<1>4. ~Live(t)'
  BY <1>3 DEF Live
<1>5. CASE runs[t].error
  <2>1. chat' = [chat EXCEPT !.streaming = FALSE, !.failed = TRUE] /\ Live(t)
    BY <1>1, <1>5 DEF Close, Failed, Live
  <2>2. chat' \in ChatType /\ chat'.messages = chat.messages
    BY <1>1, <2>1 DEF ChatType
  <2>3. WebTypes'
    BY <1>2, <1>3, <2>2 DEF WebInv, WebTypes
  <2> QED
    BY <1>2, <1>3, <1>4, <2>1, <2>2, <2>3, QuietStep
<1>6. CASE ~runs[t].error /\ runs[t].done
  <2>1. chat' = chat
    BY <1>6 DEF Close
  <2>2. WebTypes'
    BY <1>2, <1>3, <2>1 DEF WebInv, WebTypes
  <2> QED
    BY <1>2, <1>3, <1>4, <2>1, <2>2, QuietStep
<1>7. CASE ~runs[t].error /\ ~runs[t].done
  <2>1. chat' = Finished(Local) /\ Live(t)
    BY <1>1, <1>7 DEF Close, Live
  <2>2. chat' \in ChatType /\ chat'.messages = PendingBecome(Local, <<>>)
        /\ DOMAIN PendingBecome(Local, <<>>) = DOMAIN chat.messages
    <3>1. WebTypes /\ Local \in Int /\ <<>> \in Seq(TokenType)
      BY DEF WebInv, Local
    <3>2. Finished(Local).messages = PendingBecome(Local, <<>>) /\ Finished(Local) \in ChatType
      BY <3>1, FinishedTyped
    <3>3. DOMAIN PendingBecome(Local, <<>>) = DOMAIN chat.messages
      BY <3>1, BecomeTyped
    <3> QED
      BY <2>1, <3>2, <3>3
  <2>3. WebTypes'
    BY <1>2, <1>3, <2>2 DEF WebInv, WebTypes
  <2>4. \A i \in DOMAIN chat'.messages :
           \/ \E k \in DOMAIN chat.messages : chat'.messages[i] = chat.messages[k]
           \/ MessageRight(chat'.messages[i]) /\ MessageWhole(chat'.messages[i])
    BY <2>2, FinishedLocally
  <2> QED
    BY <1>2, <1>3, <1>4, <2>1, <2>3, <2>4, QuietStep
<1> QED
  BY <1>5, <1>6, <1>7

\* The API says a run is done: what was pending is its answer, and whole.
LEMMA OnDoneRight == ASSUME WebInv, NEW t \in DOMAIN runs, OnDone(t) PROVE WebInv'
<1> DEFINE r == [runs[t] EXCEPT !.done = TRUE]
<1>0. PICK p : p = runs[t].post
  OBVIOUS
<1>1. /\ runs[t] \in RunType /\ runs[t].phase = "open" /\ ~runs[t].done /\ ~runs[t].error
      /\ runs' = [runs EXCEPT ![t] = r] /\ chat' = Finished(p)
      /\ recorded' = [recorded EXCEPT ![posts[p].session] = Append(@, p)]
      /\ UNCHANGED <<abortRef, posts, asked, signedIn>>
  BY <1>0, RunFacts DEF OnDone, Speaking, PostOf, Alive
<1>2. /\ r \in RunType /\ r.phase = "open" /\ r.post = p /\ r.done /\ ~r.error /\ r.late = runs[t].late
      /\ r.tokens = runs[t].tokens
  BY <1>0, <1>1 DEF RunType
<1> HIDE DEF r
<1>3. /\ runs' \in Seq(RunType) /\ DOMAIN runs' = DOMAIN runs /\ Len(runs') = Len(runs)
      /\ runs'[t] = r /\ (\A u \in DOMAIN runs : u # t => runs'[u] = runs[u])
      /\ \A u \in DOMAIN runs : u # t => Quieter(u)
  BY <1>1, <1>2, OneRun
<1>4. Live(t) /\ ~Live(t)'
  BY <1>1, <1>2, <1>3 DEF Live
<1>5. Quieter(t)
  BY <1>0, <1>1, <1>2, <1>3, <1>4 DEF Quieter
<1>6. \A u \in DOMAIN runs : Quieter(u)
  BY <1>3, <1>5
<1>7. WebTypes /\ posts \in Seq(PostType) /\ Len(posts) \in Nat /\ DOMAIN posts = 1..Len(posts)
      /\ MessagesRight /\ RecordsRight
  BY DEF WebInv, WebTypes
<1>8. p \in 1..Len(posts) /\ p \in Nat /\ p > 0 /\ p # Pending /\ posts[p].run = t
  BY <1>0, <1>1, <1>2, <1>7 DEF WebInv, RunsRight, RunType, Pending
<1>9. posts[p].session \in Sessions
  <2>1. posts[p] \in PostType
    BY <1>7, <1>8, Element
  <2> QED
    BY <2>1 DEF PostType
<1>10. RunsRight' /\ OneSpoke' /\ (NoneLate' => NoneLate)
       /\ \A u \in DOMAIN runs : \A q : Hears(u, q)' => Hears(u, q)
  BY <1>1, <1>3, <1>6, QuietRuns
<1>11. \A u \in DOMAIN runs' : ~Hears(u, p)'
  <2>1. ASSUME NEW u \in DOMAIN runs, Hears(u, p)' PROVE FALSE
    <3>1. Hears(u, p)
      BY <1>10, <2>1
    <3>2. u = t
      BY <1>8, <3>1 DEF Hears, WebInv, RunsRight
    <3> QED
      BY <1>2, <1>3, <2>1, <3>2 DEF Hears
  <2> QED
    BY <1>3, <2>1
<1>12. recorded' \in [Sessions -> Seq(Nat)]
       /\ \A s \in Sessions : recorded'[s] = recorded[s] \/ recorded'[s] = Append(recorded[s], p)
  <2>1. PICK s \in Sessions : s = posts[p].session
    BY <1>9
  <2>2. PICK longer : longer = Append(recorded[s], p)
    OBVIOUS
  <2>3. recorded \in [Sessions -> Seq(Nat)] /\ recorded' = [recorded EXCEPT ![s] = longer]
    BY <1>1, <1>7, <2>1, <2>2 DEF WebTypes
  <2>4. longer \in Seq(Nat)
    BY <1>8, <2>2, <2>3
  <2> QED
    BY <2>2, <2>3, <2>4
<1>13. RecordsRight'
  <2>1. ASSUME NEW s \in Sessions, NEW k \in DOMAIN recorded'[s]
        PROVE  recorded'[s][k] = p \/ \E j \in DOMAIN recorded[s] : recorded'[s][k] = recorded[s][j]
    <3>1. recorded[s] \in Seq(Nat)
      BY <1>7 DEF WebTypes
    <3>2. CASE recorded'[s] = Append(recorded[s], p)
      BY <1>8, <3>1, <3>2
    <3>3. CASE recorded'[s] = recorded[s]
      BY <3>3
    <3> QED
      BY <1>12, <3>2, <3>3
  <2>2. ASSUME NEW n, n = p \/ \E s \in Sessions : \E j \in DOMAIN recorded[s] : n = recorded[s][j]
        PROVE  n \in DOMAIN posts' /\ \A u \in DOMAIN runs' : ~Hears(u, n)'
    BY <1>1, <1>3, <1>7, <1>8, <1>10, <1>11, <2>2 DEF RecordsRight
  <2>3. ASSUME NEW s \in Sessions, NEW k \in DOMAIN recorded'[s], NEW n, n = recorded'[s][k]
        PROVE  n \in DOMAIN posts' /\ \A u \in DOMAIN runs' : ~Hears(u, n)'
    BY <2>1, <2>2, <2>3
  <2> QED
    BY <2>3 DEF RecordsRight, Hears
<1>14. /\ chat' \in ChatType /\ chat'.messages = PendingBecome(p, <<>>) /\ chat'.streaming = FALSE
       /\ DOMAIN PendingBecome(p, <<>>) = DOMAIN chat.messages
       /\ \A i \in DOMAIN chat.messages :
            /\ chat.messages[i] \in MessageType
            /\ chat.messages[i].id # Pending => PendingBecome(p, <<>>)[i] = chat.messages[i]
            /\ chat.messages[i].id = Pending =>
                 /\ PendingBecome(p, <<>>)[i].id = p
                 /\ PendingBecome(p, <<>>)[i].text = chat.messages[i].text \o <<>>
  <2>1. WebTypes /\ p \in Int /\ <<>> \in Seq(TokenType) /\ chat' = Finished(p)
    BY <1>1, <1>7, <1>8
  <2>2. chat' \in ChatType /\ chat'.messages = PendingBecome(p, <<>>) /\ chat'.streaming = FALSE
    BY <2>1, FinishedTyped
  <2>3. DOMAIN PendingBecome(p, <<>>) = DOMAIN chat.messages
    BY <2>1, BecomeTyped
  <2>4. \A i \in DOMAIN chat.messages :
          /\ chat.messages[i] \in MessageType
          /\ chat.messages[i].id # Pending => PendingBecome(p, <<>>)[i] = chat.messages[i]
          /\ chat.messages[i].id = Pending =>
               /\ PendingBecome(p, <<>>)[i].id = p
               /\ PendingBecome(p, <<>>)[i].text = chat.messages[i].text \o <<>>
    BY <2>1, BecomeTyped
  <2> QED
    BY <2>2, <2>3, <2>4
<1>15. WebTypes'
  BY <1>1, <1>3, <1>7, <1>12, <1>14 DEF WebTypes
<1>16. ASSUME NEW i \in DOMAIN chat.messages, NEW m, m = chat.messages[i],
              NEW n, n = PendingBecome(p, <<>>)[i]
       PROVE  MessageRight(n)' /\ (NoneLate' => MessageWhole(n)')
  <2>1. MessageRight(m) /\ (NoneLate => MessageWhole(m)) /\ m.text \in Seq(TokenType)
    BY <1>7, <1>14, <1>16 DEF WebInv, MessagesRight, MessagesWhole, MessageType
  <2>2. MessageRight(m)' /\ (NoneLate' => MessageWhole(m)')
    BY <1>1, <1>3, <1>6, <1>10, <2>1, QuietMessage
  <2>3. CASE m.id # Pending
    BY <1>14, <1>16, <2>2, <2>3
  <2>4. CASE m.id = Pending
    <3>1. n.id = p /\ n.text = m.text
      <4>1. n.id = p /\ n.text = m.text \o <<>>
        BY <1>14, <1>16, <2>4
      <4>2. m.text \o <<>> = m.text
        BY <2>1, TextFacts
      <4> QED
        BY <4>1, <4>2
    <3>2. n.id \in Local..Len(posts')
      BY <1>1, <1>7, <1>8, <3>1 DEF Local
    <3>3. MessageRight(n)'
      BY <1>11, <2>2, <3>1, <3>2 DEF MessageRight
    <3>4. NoneLate' => TailOf(Tokens(p, posts[p].sent), m.text)
      BY <1>0, <1>1, <1>10, <2>1, <2>4 DEF MessageWhole
    <3>5. NoneLate' => MessageWhole(n)'
      BY <1>1, <1>8, <3>1, <3>4 DEF MessageWhole
    <3> QED
      BY <3>3, <3>5
  <2> QED
    BY <2>3, <2>4
<1>17. ASSUME NEW i \in DOMAIN chat'.messages, NEW n, n = chat'.messages[i]
       PROVE  MessageRight(n)' /\ (NoneLate' => MessageWhole(n)')
  BY <1>14, <1>16, <1>17
<1>18. MessagesRight' /\ (NoneLate' => MessagesWhole')
  BY <1>17 DEF MessagesRight, MessagesWhole, MessageRight, MessageWhole
<1>19. NoneLate' => LastIsLive'
  <2>1. abortRef' \in {0, abortRef, Len(runs)} /\ UNCHANGED posts
    BY <1>1
  <2> QED
    BY <1>3, <1>4, <1>6, <2>1, QuietLive
<1> QED
  BY <1>10, <1>13, <1>15, <1>18, <1>19 DEF WebInv

\* The API accepts a question: a post that has said nothing yet.
LEMMA AcceptRight == ASSUME WebInv, NEW t \in DOMAIN runs, Accept(t) PROVE WebInv'
<1>1. WebTypes /\ MessagesRight /\ RunsRight /\ RecordsRight /\ OneSpoke
      /\ posts \in Seq(PostType) /\ Len(posts) \in Nat /\ DOMAIN posts = 1..Len(posts)
      /\ runs[t] \in RunType /\ t \in Nat /\ chat \in ChatType
  BY RunFacts DEF WebInv, WebTypes
<1>2. PICK s \in (IF runs[t].session = NoSession THEN Sessions \ chat.listed ELSE {runs[t].session}) :
        /\ posts' = Append(posts, [run |-> t, session |-> s, sent |-> 0])
        /\ runs' = [runs EXCEPT ![t].phase = "open", ![t].post = Len(posts) + 1, ![t].session = s]
        /\ chat' = Adopted(s)
  BY DEF Accept
<1>3. s \in Sessions /\ runs[t].phase = "sending" /\ UNCHANGED <<abortRef, recorded, asked, signedIn>>
  BY <1>1, <1>2 DEF Accept, RunType
<1>4. PICK new : new = Len(posts) + 1
  OBVIOUS
<1> DEFINE r == [runs[t] EXCEPT !.phase = "open", !.post = new, !.session = s]
           q == [run |-> t, session |-> s, sent |-> 0]
<1>5. runs' = [runs EXCEPT ![t] = r]
  BY <1>1, <1>2, <1>4 DEF RunType
<1>6. /\ r \in RunType /\ r.phase = "open" /\ r.post = new /\ r.done = runs[t].done
      /\ r.error = runs[t].error /\ r.late = runs[t].late
  <2>1. new \in Nat
    BY <1>1, <1>4
  <2>2. r \in RunType
    BY <1>1, <1>3, <2>1 DEF RunType
  <2>3. /\ r.phase = "open" /\ r.post = new /\ r.done = runs[t].done
        /\ r.error = runs[t].error /\ r.late = runs[t].late
    BY <1>1 DEF RunType
  <2> QED
    BY <2>2, <2>3
<1>7. q \in PostType /\ q.run = t /\ q.sent = 0
  BY <1>1, <1>3 DEF PostType
<1> HIDE DEF r, q
<1>8. /\ posts' \in Seq(PostType) /\ Len(posts') = new /\ DOMAIN posts' = DOMAIN posts \cup {new}
      /\ posts'[new] = q /\ (\A p \in DOMAIN posts : posts'[p] = posts[p])
      /\ new \in Nat /\ new > 0 /\ new \notin DOMAIN posts
  <2>1. posts' = Append(posts, q)
    BY <1>2 DEF q
  <2> QED
    BY <1>1, <1>4, <1>7, <2>1
<1>9. /\ runs' \in Seq(RunType) /\ DOMAIN runs' = DOMAIN runs /\ Len(runs') = Len(runs)
      /\ runs'[t] = r /\ \A u \in DOMAIN runs : u # t => runs'[u] = runs[u]
  BY <1>5, <1>6, OneRun
<1>10. chat' \in ChatType /\ chat'.messages = chat.messages /\ chat'.streaming = chat.streaming
  BY <1>1, <1>2, <1>3 DEF ChatType, Adopted
<1>11. WebTypes'
  BY <1>1, <1>3, <1>8, <1>9, <1>10 DEF WebTypes
<1>12. ASSUME NEW u \in DOMAIN runs, NEW p \in DOMAIN posts PROVE Hears(u, p)' => Hears(u, p)
  BY <1>6, <1>8, <1>9 DEF Hears
<1>13. ASSUME NEW m, MessageRight(m) PROVE MessageRight(m)'
  <2>1. m.id \in Local..Len(posts') /\ (m.id > 0 => m.id \in DOMAIN posts)
    BY <1>1, <1>4, <1>8, <1>13 DEF MessageRight, Local
  <2>2. m.id > 0 => \A u \in DOMAIN runs' : ~Hears(u, m.id)'
    BY <1>9, <1>12, <1>13, <2>1 DEF MessageRight
  <2>3. \A k \in DOMAIN m.text : m.text[k][1] \in DOMAIN posts' /\ posts'[m.text[k][1]].sent > 0
    BY <1>8, <1>13 DEF MessageRight
  <2> QED
    BY <2>1, <2>2, <2>3 DEF MessageRight
<1>14. MessagesRight'
  <2>1. ASSUME NEW i \in DOMAIN chat.messages, NEW m, m = chat.messages[i] PROVE MessageRight(m)'
    BY <1>1, <1>13, <2>1 DEF MessagesRight
  <2> QED
    BY <1>10, <2>1 DEF MessagesRight, MessageRight
<1>15. RunsRight'
  <2>1. ASSUME NEW u \in DOMAIN runs
        PROVE  /\ runs'[u].post <= Len(posts')
               /\ runs'[u].phase = "open" => runs'[u].post > 0 /\ posts'[runs'[u].post].run = u
               /\ ~(runs'[u].done /\ runs'[u].error)
    <3>1. CASE u = t
      BY <1>1, <1>6, <1>7, <1>8, <1>9, <3>1 DEF RunsRight
    <3>2. CASE u # t
      <4>1. runs'[u] = runs[u] /\ runs[u] \in RunType
        BY <1>9, <3>2, RunFacts
      <4>2. runs[u].post <= Len(posts) /\ runs[u].post \in Nat /\ ~(runs[u].done /\ runs[u].error)
            /\ (runs[u].phase = "open" => runs[u].post > 0 /\ posts[runs[u].post].run = u)
        BY <1>1, <4>1 DEF RunsRight, RunType
      <4> QED
        BY <1>1, <1>4, <1>8, <4>1, <4>2
    <3> QED
      BY <3>1, <3>2
  <2> QED
    BY <1>9, <2>1 DEF RunsRight
<1>16. RecordsRight'
  <2>1. ASSUME NEW u \in Sessions, NEW k \in DOMAIN recorded[u], NEW n, n = recorded[u][k]
        PROVE  n \in DOMAIN posts' /\ \A v \in DOMAIN runs' : ~Hears(v, n)'
    BY <1>1, <1>8, <1>9, <1>12, <2>1 DEF RecordsRight
  <2> QED
    BY <1>3, <2>1 DEF RecordsRight, Hears
<1>17. OneSpoke'
  <2>1. \A p \in DOMAIN posts' : posts'[p].run \in DOMAIN runs'
    BY <1>1, <1>7, <1>8, <1>9 DEF OneSpoke
  <2>2. \A p \in DOMAIN posts' : posts'[p].sent > 0 => p \in DOMAIN posts /\ posts'[p] = posts[p]
    BY <1>7, <1>8
  <2>3. ASSUME NEW p \in DOMAIN posts, posts[p].sent > 0
        PROVE  posts[p].run # t /\ runs'[posts[p].run] = runs[posts[p].run]
    BY <1>1, <1>3, <1>9, <2>3 DEF OneSpoke
  <2> QED
    BY <1>1, <2>1, <2>2, <2>3 DEF OneSpoke
<1>18. ASSUME NoneLate' PROVE LastIsLive' /\ MessagesWhole'
  <2>1. NoneLate /\ LastIsLive /\ MessagesWhole
    BY <1>6, <1>9, <1>18 DEF NoneLate, WebInv
  <2>2. ASSUME NEW u \in DOMAIN runs PROVE Live(u)' => Live(u)
    BY <1>3, <1>6, <1>9 DEF Live
  <2>3. LastIsLive'
    BY <1>3, <1>9, <1>10, <2>1, <2>2 DEF LastIsLive
  <2>4. ASSUME NEW i \in DOMAIN chat.messages, NEW m, m = chat.messages[i] PROVE MessageWhole(m)'
    <3>1. MessageRight(m) /\ MessageWhole(m) /\ m.text \in Seq(TokenType)
      <4>1. chat.messages \in Seq(MessageType)
        BY <1>1 DEF ChatType
      <4>2. m \in MessageType
        BY <2>4, <4>1, Element
      <4> QED
        BY <1>1, <2>1, <2>4, <4>2 DEF MessagesRight, MessagesWhole, MessageType
    <3>2. m.id > 0 => TailOf(Tokens(m.id, posts'[m.id].sent), m.text)
      BY <1>1, <1>8, <3>1 DEF MessageRight, MessageWhole, Local
    <3>3. ASSUME m.id = Pending, NEW u \in DOMAIN runs, runs'[u].phase = "open", ~runs'[u].done
          PROVE  TailOf(Tokens(runs'[u].post, posts'[runs'[u].post].sent), m.text)
      <4>1. u = t
        BY <1>3, <1>9, <2>1, <2>2, <3>3 DEF LastIsLive, Live
      <4>2. runs'[u].post = new /\ posts'[new].sent = 0
        <5>1. runs'[u].post = new
          BY <1>6, <1>9, <4>1
        <5>2. posts'[new].sent = 0
          BY <1>7, <1>8
        <5> QED
          BY <5>1, <5>2
      <4>3. Len(Tokens(new, 0)) = 0 /\ Len(m.text) \in Nat
        BY <1>8, <3>1, TokensTyped
      <4>4. TailOf(Tokens(new, 0), m.text)
        BY <4>3 DEF TailOf
      <4> QED
        BY <4>2, <4>4
    <3> QED
      BY <1>9, <3>2, <3>3 DEF MessageWhole
  <2>5. MessagesWhole'
    BY <1>10, <2>4 DEF MessagesWhole, MessageWhole
  <2> QED
    BY <2>3, <2>5
<1> QED
  BY <1>11, <1>14, <1>15, <1>16, <1>17, <1>18 DEF WebInv

\* A token is told: every pending message takes it.
LEMMA OnTokenRight == ASSUME WebInv, NEW t \in DOMAIN runs, OnToken(t) PROVE WebInv'
<1>1. WebTypes /\ MessagesRight /\ RunsRight /\ RecordsRight /\ OneSpoke
      /\ posts \in Seq(PostType) /\ Len(posts) \in Nat /\ DOMAIN posts = 1..Len(posts)
      /\ runs[t] \in RunType /\ t \in Nat /\ chat \in ChatType /\ ~(runs[t].done /\ runs[t].error)
  BY RunFacts DEF WebInv, WebTypes
<1>2. PICK p, sent : p = runs[t].post /\ sent = posts[p].sent
  OBVIOUS
<1> DEFINE q == [posts[p] EXCEPT !.sent = sent + 1]   r == [runs[t] EXCEPT !.tokens = TRUE]
<1>0. PICK more : more = <<<<p, sent + 1>>>>
  OBVIOUS
<1>3. runs[t].phase = "open" /\ ~runs[t].done /\ runs' = [runs EXCEPT ![t] = r]
      /\ chat' = [chat EXCEPT !.messages = PendingBecome(Pending, more)]
      /\ UNCHANGED <<abortRef, recorded, asked, signedIn>>
  BY <1>0, <1>2 DEF OnToken, Speaking, PostOf, Alive
<1>4. p \in DOMAIN posts /\ p \in Nat /\ p > 0 /\ posts[p].run = t
  BY <1>1, <1>2, <1>3 DEF RunsRight, RunType
<1>5. posts[p] \in PostType /\ sent \in Nat
  <2>1. posts[p] \in PostType
    BY <1>1, <1>4, Element
  <2> QED
    BY <1>2, <2>1 DEF PostType
<1>6. posts' = [posts EXCEPT ![p] = q]
  BY <1>1, <1>2, <1>4, <1>5 DEF OnToken, PostOf, PostType
<1>7. q \in PostType /\ q.run = t /\ q.sent = sent + 1
  BY <1>4, <1>5 DEF PostType
<1>8. /\ r \in RunType /\ r.phase = "open" /\ r.post = p /\ ~r.done /\ r.error = runs[t].error
      /\ r.late = runs[t].late /\ r.tokens
  BY <1>1, <1>2, <1>3 DEF RunType
<1>9. more \in Seq(TokenType) /\ Len(more) = 1 /\ more[1] = <<p, sent + 1>> /\ Pending \in Int
  BY <1>0, <1>4, <1>5 DEF TokenType, Pending
<1>10. /\ PendingBecome(Pending, more) \in Seq(MessageType)
       /\ DOMAIN PendingBecome(Pending, more) = DOMAIN chat.messages
       /\ \A i \in DOMAIN chat.messages :
            /\ chat.messages[i] \in MessageType
            /\ chat.messages[i].id # Pending => PendingBecome(Pending, more)[i] = chat.messages[i]
            /\ chat.messages[i].id = Pending =>
                 /\ PendingBecome(Pending, more)[i].id = Pending
                 /\ PendingBecome(Pending, more)[i].text = chat.messages[i].text \o more
  <2>1. WebTypes /\ more \in Seq(TokenType) /\ Pending \in Int
    BY <1>1, <1>9
  <2> QED
    BY <2>1, BecomeTyped
<1> DEFINE b == PendingBecome(Pending, more)
<1> HIDE DEF q, r, b
<1>11. /\ posts' \in Seq(PostType) /\ Len(posts') = Len(posts) /\ DOMAIN posts' = DOMAIN posts
       /\ posts'[p] = q /\ \A n \in DOMAIN posts : n # p => posts'[n] = posts[n]
  BY <1>1, <1>4, <1>6, <1>7
<1>12. /\ runs' \in Seq(RunType) /\ DOMAIN runs' = DOMAIN runs /\ Len(runs') = Len(runs)
       /\ runs'[t] = r /\ \A u \in DOMAIN runs : u # t => runs'[u] = runs[u]
  BY <1>3, <1>8, OneRun
<1>13. chat' \in ChatType /\ chat'.messages = b /\ chat'.streaming = chat.streaming
  BY <1>1, <1>3, <1>10 DEF ChatType, b
<1>14. WebTypes'
  BY <1>1, <1>3, <1>11, <1>12, <1>13 DEF WebTypes
<1>15. ASSUME NEW n \in DOMAIN posts
       PROVE  /\ posts'[n].run = posts[n].run /\ (posts[n].sent > 0 => posts'[n].sent > 0)
              /\ posts'[n].sent > 0 => posts[n].sent > 0 \/ n = p
  BY <1>4, <1>5, <1>7, <1>11
<1>16. ASSUME NEW u \in DOMAIN runs
       PROVE  /\ runs'[u].phase = runs[u].phase /\ runs'[u].post = runs[u].post
              /\ runs'[u].done = runs[u].done /\ runs'[u].error = runs[u].error
              /\ runs'[u].late = runs[u].late /\ (runs[u].tokens => runs'[u].tokens)
  BY <1>1, <1>2, <1>3, <1>8, <1>12 DEF RunType
<1>17. Hears(t, p) /\ \A u \in DOMAIN runs : \A n : Hears(u, n)' <=> Hears(u, n)
  BY <1>2, <1>3, <1>16 DEF Hears
<1>18. RunsRight'
  <2>1. ASSUME NEW u \in DOMAIN runs
        PROVE  /\ runs'[u].post <= Len(posts')
               /\ runs'[u].phase = "open" => runs'[u].post > 0 /\ posts'[runs'[u].post].run = u
               /\ ~(runs'[u].done /\ runs'[u].error)
    <3>1. runs[u].post <= Len(posts) /\ runs[u].post \in Nat /\ ~(runs[u].done /\ runs[u].error)
          /\ (runs[u].phase = "open" => runs[u].post > 0 /\ posts[runs[u].post].run = u)
      BY <1>1, RunFacts DEF RunsRight, RunType
    <3>2. runs[u].phase = "open" => runs[u].post \in DOMAIN posts
      BY <1>1, <3>1
    <3> QED
      BY <1>11, <1>15, <1>16, <3>1, <3>2
  <2> QED
    BY <1>12, <2>1 DEF RunsRight
<1>19. RecordsRight'
  <2>1. ASSUME NEW u \in Sessions, NEW k \in DOMAIN recorded[u], NEW n, n = recorded[u][k]
        PROVE  n \in DOMAIN posts' /\ \A v \in DOMAIN runs' : ~Hears(v, n)'
    BY <1>1, <1>11, <1>12, <1>17, <2>1 DEF RecordsRight
  <2> QED
    BY <1>3, <2>1 DEF RecordsRight, Hears
<1>20. OneSpoke'
  <2>1. \A n \in DOMAIN posts' : posts'[n].run \in DOMAIN runs'
    BY <1>1, <1>11, <1>12, <1>15 DEF OneSpoke
  <2>2. ASSUME NEW n \in DOMAIN posts, posts[n].sent > 0, posts[n].run = t PROVE n = p
    BY <1>1, <1>2, <1>3, <2>2 DEF OneSpoke
  <2>3. ASSUME NEW n \in DOMAIN posts, NEW k \in DOMAIN posts, posts'[n].run = posts'[k].run,
               posts'[n].sent > 0, posts'[k].sent > 0
        PROVE  n = k
    <3>1. posts[n].run = posts[k].run /\ (posts[n].sent > 0 \/ n = p) /\ (posts[k].sent > 0 \/ k = p)
      BY <1>15, <2>3
    <3> QED
      BY <1>1, <1>4, <2>2, <3>1 DEF OneSpoke
  <2>4. ASSUME NEW n \in DOMAIN posts, posts'[n].sent > 0
        PROVE  \/ runs'[posts'[n].run].phase = "over"
               \/ /\ runs'[posts'[n].run].phase = "open" /\ runs'[posts'[n].run].post = n
                  /\ runs'[posts'[n].run].tokens
    <3>1. CASE n = p
      BY <1>4, <1>8, <1>12, <1>15, <3>1
    <3>2. CASE n # p
      <4>1. posts[n].sent > 0 /\ posts'[n].run = posts[n].run /\ posts[n].run \in DOMAIN runs
        BY <1>1, <1>15, <2>4, <3>2 DEF OneSpoke
      <4>2. posts[n].run # t
        BY <2>2, <3>2, <4>1
      <4> QED
        BY <1>1, <1>12, <4>1, <4>2 DEF OneSpoke
    <3> QED
      BY <3>1, <3>2
  <2> QED
    BY <1>11, <2>1, <2>3, <2>4 DEF OneSpoke
<1>21. ASSUME NEW i \in DOMAIN chat.messages, NEW m, m = chat.messages[i], NEW n, n = b[i]
       PROVE  /\ m \in MessageType /\ (m.id # Pending => n = m)
              /\ m.text \in Seq(TokenType) /\ MessageRight(m)
              /\ NoneLate => MessageWhole(m)
  <2>1. m \in MessageType
    BY <1>10, <1>21
  <2> QED
    BY <1>1, <1>10, <1>21, <2>1 DEF b, MessageType, WebInv, MessagesRight, MessagesWhole
<1>22. ASSUME NEW i \in DOMAIN chat.messages, chat.messages[i].id = Pending
       PROVE  b[i].id = Pending /\ b[i].text = chat.messages[i].text \o more
  BY <1>10, <1>22 DEF b
<1>23. ASSUME NEW i \in DOMAIN chat.messages, NEW m, m = chat.messages[i], NEW n, n = b[i]
       PROVE  MessageRight(n)'
  <2>1. ASSUME NEW k \in DOMAIN m.text
        PROVE  m.text[k][1] \in DOMAIN posts' /\ posts'[m.text[k][1]].sent > 0
    BY <1>11, <1>15, <1>21, <1>23 DEF MessageRight
  <2>2. m.id \in Local..Len(posts') /\ (m.id > 0 => \A u \in DOMAIN runs' : ~Hears(u, m.id)')
    BY <1>11, <1>12, <1>17, <1>21, <1>23 DEF MessageRight
  <2>3. CASE m.id # Pending
    <3>1. n = m
      BY <1>21, <1>23, <2>3
    <3> QED
      BY <2>1, <2>2, <3>1 DEF MessageRight
  <2>4. CASE m.id = Pending
    <3>1. n.id = m.id /\ n.text = m.text \o more /\ m.text \in Seq(TokenType)
      <4>1. m.text \in Seq(TokenType)
        BY <1>21, <1>23
      <4>2. n.id = Pending /\ n.text = m.text \o more
        BY <1>23, <1>22, <2>4
      <4> QED
        BY <2>4, <4>1, <4>2
    <3>2. Len(n.text) = Len(m.text) + 1 /\ Len(m.text) \in Nat /\ DOMAIN n.text = 1..Len(n.text)
          /\ (\A k \in 1..Len(m.text) : n.text[k] = m.text[k]) /\ n.text[Len(m.text) + 1] = <<p, sent + 1>>
      <4>1. PICK text \in Seq(TokenType) : text = m.text /\ n.text = text \o more
        BY <3>1
      <4>2. Len(text \o more) = Len(text) + Len(more) /\ Len(text) \in Nat /\ text \o more \in Seq(TokenType)
            /\ (\A k \in 1..Len(text) : (text \o more)[k] = text[k])
            /\ \A k \in 1..Len(more) : (text \o more)[Len(text) + k] = more[k]
        BY <1>9, TextFacts
      <4>3. (text \o more)[Len(text) + 1] = <<p, sent + 1>>
        BY <1>9, <4>2
      <4> QED
        BY <1>9, <4>1, <4>2, <4>3
    <3>3. p \in DOMAIN posts' /\ posts'[p].sent > 0
      BY <1>4, <1>5, <1>7, <1>11
    <3>4. ASSUME NEW k \in DOMAIN n.text
          PROVE  n.text[k][1] \in DOMAIN posts' /\ posts'[n.text[k][1]].sent > 0
      <4>1. CASE k \in 1..Len(m.text)
        <5>1. k \in DOMAIN m.text /\ n.text[k] = m.text[k]
          BY <3>1, <3>2, <4>1
        <5> QED
          BY <2>1, <5>1
      <4>2. CASE k = Len(m.text) + 1
        <5>1. n.text[k][1] = p
          BY <3>2, <4>2
        <5> QED
          BY <3>3, <5>1
      <4> QED
        BY <3>2, <4>1, <4>2
    <3> QED
      BY <2>2, <3>1, <3>4 DEF MessageRight
  <2> QED
    BY <2>3, <2>4
<1>24. MessagesRight'
  <2>1. ASSUME NEW i \in DOMAIN chat'.messages, NEW n, n = chat'.messages[i] PROVE MessageRight(n)'
    BY <1>10, <1>13, <1>23, <2>1 DEF b
  <2> QED
    BY <2>1 DEF MessagesRight, MessageRight
<1>25. ASSUME NoneLate' PROVE LastIsLive' /\ MessagesWhole'
  <2>1. NoneLate /\ LastIsLive
    BY <1>12, <1>16, <1>25 DEF NoneLate, WebInv
  <2>2. ASSUME NEW u \in DOMAIN runs PROVE Live(u)' <=> Live(u)
    BY <1>16 DEF Live
  <2>3. LastIsLive'
    BY <1>3, <1>12, <1>13, <2>1, <2>2 DEF LastIsLive
  <2>4. ASSUME NEW i \in DOMAIN chat.messages, NEW m, m = chat.messages[i], NEW n, n = b[i]
        PROVE  MessageWhole(n)'
    <3>1. MessageWhole(m) /\ MessageRight(m) /\ m.text \in Seq(TokenType)
      BY <1>21, <2>1, <2>4
    <3>2. CASE m.id # Pending
      <4>1. n = m
        BY <1>21, <2>4, <3>2
      <4>2. m.id > 0 => m.id \in DOMAIN posts /\ m.id # p
        BY <1>1, <1>17, <3>1 DEF MessageRight, Local
      <4> QED
        BY <1>11, <3>1, <3>2, <4>1, <4>2 DEF MessageWhole
    <3>3. CASE m.id = Pending
      <4>1. n.id = Pending /\ n.text = m.text \o more
        BY <1>22, <2>4, <3>3
      <4>2. TailOf(Tokens(p, sent), m.text)
        BY <1>2, <1>3, <3>1, <3>3 DEF MessageWhole
      <4>3. TailOf(Tokens(p, sent + 1), n.text)
        BY <1>4, <1>5, <3>1, <4>1, <4>2, <1>0, EndsAppend
      <4>4. ASSUME NEW u \in DOMAIN runs, runs'[u].phase = "open", ~runs'[u].done
            PROVE  TailOf(Tokens(runs'[u].post, posts'[runs'[u].post].sent), n.text)
        <5>1. u = t
          BY <1>3, <1>16, <2>1, <4>4 DEF LastIsLive, Live
        <5>2. runs'[u].post = p /\ posts'[p].sent = sent + 1
          BY <1>7, <1>8, <1>11, <1>12, <5>1
        <5> QED
          BY <4>3, <5>2
      <4>5. ~(n.id > 0)
        BY <4>1 DEF Pending
      <4> QED
        BY <1>12, <4>1, <4>4, <4>5 DEF MessageWhole
    <3> QED
      BY <3>2, <3>3
  <2>5. ASSUME NEW i \in DOMAIN chat'.messages, NEW n, n = chat'.messages[i] PROVE MessageWhole(n)'
    BY <1>10, <1>13, <2>4, <2>5 DEF b
  <2>6. MessagesWhole'
    BY <2>5 DEF MessagesWhole, MessageWhole
  <2> QED
    BY <2>3, <2>6
<1> QED
  BY <1>14, <1>18, <1>19, <1>20, <1>24, <1>25 DEF WebInv

LEMMA WebStart == ASSUME WebInit PROVE WebInv
<1>1. chat \in ChatType /\ chat.messages = <<>>
  <2>1. <<>> \in Seq(MessageType)
    OBVIOUS
  <2> QED
    BY <2>1, WebAssumption DEF WebInit, EmptyChat, ChatType
<1>2. /\ runs = <<>> /\ posts = <<>> /\ asked = <<>> /\ abortRef = 0 /\ signedIn = TRUE
      /\ recorded = [s \in Sessions |-> <<>>]
  BY DEF WebInit
<1>3. WebTypes
  BY <1>1, <1>2 DEF WebTypes
<1>4. MessagesRight /\ RunsRight /\ RecordsRight /\ OneSpoke
  BY <1>1, <1>2 DEF MessagesRight, RunsRight, RecordsRight, OneSpoke
<1>5. LastIsLive /\ MessagesWhole
  BY <1>1, <1>2 DEF LastIsLive, MessagesWhole
<1> QED
  BY <1>3, <1>4, <1>5 DEF WebInv

LEMMA WebStep == ASSUME WebInv, [WebNext]_webVars PROVE WebInv'
<1>1. CASE Send
  BY <1>1, SendRight
<1>2. CASE Resend
  BY <1>2, ResendRight
<1>3. CASE Stop
  BY <1>3, StopRight
<1>4. CASE NewConversation
  BY <1>4, NewConversationRight
<1>5. ASSUME NEW s \in Sessions, OpenSession(s) PROVE WebInv'
  BY <1>5, OpenRight
<1>6. ASSUME NEW s \in Sessions, NEW want \in {"compact", "delete"}, Manage(s, want) PROVE WebInv'
  BY <1>6, ManageRight
<1>7. ASSUME NEW i \in DOMAIN asked, AnswerSidebar(i) PROVE WebInv'
  BY <1>7, AnswerRight
<1>8. ASSUME NEW t \in DOMAIN runs,
             \/ Accept(t) \/ Unauthorized(t) \/ Settle(t) \/ Wake(t)
             \/ OnToken(t) \/ OnDone(t) \/ OnError(t) \/ Close(t) \/ Break(t)
             \/ FallSilent(t) \/ IdleTimeout(t)
      PROVE  WebInv'
  <2>1. signedIn \in BOOLEAN
    BY DEF WebInv, WebTypes
  <2>2. CASE Accept(t)
    BY <2>2, AcceptRight
  <2>3. CASE Unauthorized(t)
    <3>1. Fails(t, "4xx") /\ runs[t].phase \in {"sending", "open"} /\ UNCHANGED <<posts, recorded, asked>>
          /\ signedIn' \in BOOLEAN
      BY <2>3 DEF Unauthorized
    <3> QED
      BY <3>1, FailsRight
  <2>4. CASE Settle(t)
    <3>1. PICK status \in {"none", "4xx", "5xx"} : Fails(t, status)
      BY <2>4 DEF Settle
    <3>2. runs[t].phase \in {"sending", "open"} /\ UNCHANGED <<posts, recorded, asked>>
          /\ signedIn' \in BOOLEAN
      BY <2>1, <2>4 DEF Settle
    <3> QED
      BY <3>1, <3>2, FailsRight
  <2>5. CASE Wake(t)
    BY <2>5, WakeRight
  <2>6. CASE OnToken(t)
    BY <2>6, OnTokenRight
  <2>7. CASE OnDone(t)
    BY <2>7, OnDoneRight
  <2>8. CASE OnError(t)
    BY <2>8, OnErrorRight
  <2>9. CASE Close(t)
    BY <2>9, CloseRight
  <2>10. CASE Break(t)
    <3>1. Fails(t, "none") /\ runs[t].phase \in {"sending", "open"} /\ UNCHANGED <<posts, recorded, asked>>
          /\ signedIn' \in BOOLEAN
      BY <2>1, <2>10 DEF Break
    <3> QED
      BY <3>1, FailsRight
  <2>11. CASE FallSilent(t)
    BY <2>11, FallSilentRight
  <2>12. CASE IdleTimeout(t)
    <3>1. Fails(t, "none") /\ runs[t].phase \in {"sending", "open"} /\ UNCHANGED <<posts, recorded, asked>>
          /\ signedIn' \in BOOLEAN
      BY <2>1, <2>12 DEF IdleTimeout
    <3> QED
      BY <3>1, FailsRight
  <2> QED
    BY <1>8, <2>2, <2>3, <2>4, <2>5, <2>6, <2>7, <2>8, <2>9, <2>10, <2>11, <2>12
<1>9. CASE UNCHANGED webVars
  <2>1. UNCHANGED <<chat, runs, abortRef, posts, recorded, asked, signedIn>>
    BY <1>9 DEF webVars
  <2>2. WebTypes'
    BY <2>1 DEF WebInv, WebTypes
  <2> QED
    BY <2>1, <2>2, ShowStep
<1> QED
  BY <1>1, <1>2, <1>3, <1>4, <1>5, <1>6, <1>7, <1>8, <1>9 DEF WebNext

LEMMA WebAlways == WebSpec => []WebInv
BY WebStart, WebStep, PTL DEF WebSpec

(* What the browser keeps is well formed: no message, run or record of a session names
   an answer the API did not begin (chatStore.ts, useChatStream.ts). *)
THEOREM WebTyped == WebSpec => []WebTypeOK
<1>1. ASSUME WebInv PROVE WebTypeOK
  <2>1. WebTypes /\ MessagesRight /\ RunsRight /\ RecordsRight
    BY <1>1 DEF WebInv
  <2>2. \A t \in DOMAIN runs : runs[t] \in RunType /\ runs[t].post <= Len(posts)
    BY <1>1, <2>1, RunFacts DEF RunsRight
  <2>3. chat.active \in Sessions \cup {NoSession} /\ chat.listed \subseteq Sessions
    BY <2>1 DEF WebTypes, ChatType
  <2>4. \A i \in DOMAIN chat.messages : chat.messages[i].id \in Local..Len(posts)
    BY <2>1 DEF MessagesRight, MessageRight
  <2>5. \A t \in DOMAIN runs : /\ runs[t].phase \in {"sending", "open", "backoff", "over"}
                               /\ runs[t].attempt \in 0..StreamRetries
                               /\ runs[t].post \in 0..Len(posts)
    <3>1. Len(posts) \in Nat
      BY <2>1 DEF WebTypes
    <3> QED
      BY <2>2, <3>1 DEF RunType
  <2>6. abortRef \in 0..Len(runs)
    BY <2>1 DEF WebTypes
  <2>7. \A s \in Sessions : \A k \in DOMAIN recorded[s] : recorded[s][k] \in DOMAIN posts
    BY <2>1 DEF RecordsRight
  <2> QED
    BY <2>3, <2>4, <2>5, <2>6, <2>7 DEF WebTypeOK
<1> QED
  BY <1>1, WebAlways, PTL

(* What is shown of the answers is what the API said, for every number of turns, retries
   and sidebar requests: the tokens that one turn left in a message are of one post, as a
   turn is sent again only while no token has come; and a message that took an answer's id
   ends with every token of that answer, unless a stream broke after it had said it was
   done (useChatStream.run and its reconnect policy, chatStore.ts). *)
THEOREM TranscriptHonest == WebSpec => []TranscriptIsHonest
<1>1. ASSUME WebInv PROVE TranscriptIsHonest
  <2>1. WebTypes /\ MessagesRight /\ OneSpoke /\ posts \in Seq(PostType) /\ Len(posts) \in Nat
        /\ DOMAIN posts = 1..Len(posts) /\ chat.messages \in Seq(MessageType)
    BY <1>1 DEF WebInv, WebTypes, ChatType
  <2>2. NoAnswerIsDoubled
    <3> SUFFICES ASSUME NEW i \in DOMAIN chat.messages,
                        NEW k \in DOMAIN chat.messages[i].text, NEW l \in DOMAIN chat.messages[i].text,
                        posts[chat.messages[i].text[k][1]].run = posts[chat.messages[i].text[l][1]].run
                 PROVE  chat.messages[i].text[k][1] = chat.messages[i].text[l][1]
      BY DEF NoAnswerIsDoubled
    <3>1. PICK text : text = chat.messages[i].text
      OBVIOUS
    <3>2. text[k][1] = text[l][1]
      <4>1. /\ text[k][1] \in DOMAIN posts /\ posts[text[k][1]].sent > 0
            /\ text[l][1] \in DOMAIN posts /\ posts[text[l][1]].sent > 0
        BY <2>1, <3>1 DEF MessagesRight, MessageRight
      <4> QED
        BY <2>1, <3>1, <4>1 DEF OneSpoke
    <3> QED
      BY <3>1, <3>2
  <2>3. ASSUME NoneLate, NEW i \in DOMAIN chat.messages, NEW m, m = chat.messages[i], m.id > 0
        PROVE  IsSuffix(Tokens(m.id, posts[m.id].sent), m.text)
    <3>1. m \in MessageType /\ MessageRight(m) /\ MessageWhole(m)
      BY <1>1, <2>1, <2>3, Element DEF WebInv, MessagesRight, MessagesWhole
    <3>2. m.id \in DOMAIN posts /\ m.id \in Nat /\ m.text \in Seq(TokenType)
      BY <2>1, <2>3, <3>1 DEF MessageRight, Local, MessageType
    <3>3. posts[m.id] \in PostType
      BY <2>1, <3>2, Element
    <3> DEFINE sent == posts[m.id].sent   said == Tokens(m.id, sent)
    <3>4. sent \in Nat
      BY <3>3 DEF PostType
    <3> HIDE DEF sent
    <3>5. said \in Seq(TokenType)
      BY <3>2, <3>4, TokensTyped
    <3>6. TailOf(said, m.text)
      BY <2>3, <3>1 DEF MessageWhole, sent
    <3> HIDE DEF said
    <3>7. IsSuffix(said, m.text)
      BY <3>2, <3>5, <3>6, EndsIsSuffix
    <3> QED
      BY <3>7 DEF said, sent
  <2>4. FinishedIsWhole
    BY <2>3 DEF FinishedIsWhole, NoneLate
  <2> QED
    BY <2>2, <2>4 DEF TranscriptIsHonest
<1> QED
  BY <1>1, WebAlways, PTL
-----------------------------------------------------------------------------
(* The reader of the event stream. *)

\* The line ends up to e, and those of blank lines.
LEMMA EndsFacts ==
    ASSUME NEW text, text \in Seq(Cells), NEW e \in 0..Len(text)
    PROVE  /\ EndsTo(text, e) \in SUBSET (1..e) /\ EndsTo(text, e) \in SUBSET Int /\ IsFiniteSet(EndsTo(text, e))
           /\ BlankTo(text, e) \in SUBSET EndsTo(text, e)
<1>1. EndsTo(text, e) \in SUBSET (1..e)
  BY DEF EndsTo
<1>2. e \in Nat
  OBVIOUS
<1> QED
  BY <1>1, <1>2, PlacesFinite DEF BlankTo

\* x is the first line end after e, which is one or the beginning of the text.
FollowedBy(text, e, x) ==
    /\ e \in 0..Len(text) /\ x \in 1..Len(text) /\ e < x
    /\ e = 0 \/ text[e] = "lf"
    /\ text[x] = "lf" /\ \A j \in e + 1..x - 1 : text[j] # "lf"

\* Nothing ends between e and y.
LEMMA NoEnds ==
    ASSUME NEW text, NEW e \in 0..Len(text), NEW y \in e..Len(text), \A j \in e + 1..y : text[j] # "lf"
    PROVE  EndsTo(text, y) = EndsTo(text, e) /\ BlankTo(text, y) = BlankTo(text, e) /\ FrameEnds(text, y) = FrameEnds(text, e)
<1>1. EndsTo(text, y) = EndsTo(text, e)
  <2>1. \A i \in 1..y : text[i] = "lf" => i \in 1..e
    OBVIOUS
  <2>2. \A i \in 1..e : i \in 1..y
    OBVIOUS
  <2> QED
    BY <2>1, <2>2 DEF EndsTo
<1> QED
  BY <1>1 DEF BlankTo, FrameEnds

\* What the next line end adds to the text read as a whole.
LEMMA NextLine ==
    ASSUME NEW text, text \in Seq(Cells), NEW e, NEW x, FollowedBy(text, e, x)
    PROVE  /\ EndsTo(text, x - 1) = EndsTo(text, e) /\ BlankTo(text, x - 1) = BlankTo(text, e)
           /\ EndsTo(text, x) = EndsTo(text, e) \cup {x}
           /\ LineBefore(text, x) = SubSeq(text, e + 1, x - 1)
<1> USE DEF FollowedBy
<1>1. EndsTo(text, x - 1) = EndsTo(text, e) /\ BlankTo(text, x - 1) = BlankTo(text, e)
  <2>1. x - 1 \in e..Len(text)
    OBVIOUS
  <2> QED
    BY <2>1, NoEnds
<1>2. EndsTo(text, x) = EndsTo(text, e) \cup {x}
  <2>1. \A i \in 1..x : i = x \/ i \in 1..x - 1
    OBVIOUS
  <2>2. \A i \in 1..x - 1 : i \in 1..x
    OBVIOUS
  <2>3. x \in 1..x
    OBVIOUS
  <2>4. EndsTo(text, x) = EndsTo(text, x - 1) \cup {x}
    BY <2>1, <2>2, <2>3 DEF EndsTo
  <2> QED
    BY <1>1, <2>4
<1>3. Max({0} \cup EndsTo(text, e)) = e
  <2>1. PICK T : T = {0} \cup EndsTo(text, e)
    OBVIOUS
  <2>a. EndsTo(text, e) \in SUBSET (1..e) /\ IsFiniteSet(EndsTo(text, e)) /\ e \in Nat
    BY EndsFacts
  <2>b. IsFiniteSet(T)
    BY <2>1, <2>a, FS_Singleton, FS_Union
  <2>2. T \in SUBSET Int /\ IsFiniteSet(T) /\ T # {} /\ \A i \in T : i <= e
    BY <2>1, <2>a, <2>b
  <2>3. e \in T
    BY <2>1 DEF EndsTo
  <2>4. Max(T) \in T /\ \A y \in T : Max(T) >= y
    BY <2>2, MaxFacts
  <2>5. PICK m : m = Max(T)
    OBVIOUS
  <2>6. m \in Int /\ m <= e /\ m >= e
    BY <2>2, <2>3, <2>4, <2>5
  <2>7. Max(T) = e
    BY <2>a, <2>5, <2>6
  <2> QED
    BY <2>1, <2>7
<1> QED
  BY <1>1, <1>2, <1>3 DEF LineBefore

\* What the next line adds to the blocks.
LEMMA NextBlock ==
    ASSUME NEW text, text \in Seq(Cells), NEW e, NEW x, FollowedBy(text, e, x)
    PROVE  /\ BlockOf(text, x) = BlockOf(text, e + 1)
           /\ LineBefore(text, x) = <<>> => BlankTo(text, x) = BlankTo(text, e) \cup {x} /\ BlockOf(text, x + 1) = {}
           /\ LineBefore(text, x) # <<>> => BlankTo(text, x) = BlankTo(text, e) /\ BlockOf(text, x + 1) = BlockOf(text, e + 1) \cup {x}
<1>0. e \in Nat /\ x \in Nat /\ e < x /\ (e + 1) - 1 = e /\ (x + 1) - 1 = x
  BY DEF FollowedBy
<1>1. BlockOf(text, x) = BlockOf(text, e + 1)
  BY <1>0, NextLine DEF BlockOf
<1>2. EndsTo(text, x) = EndsTo(text, e) \cup {x}
  BY NextLine
<1>3. \A i \in EndsTo(text, e) : i \in Nat /\ i < x
  BY <1>0, EndsFacts DEF FollowedBy
<1>4. BlankTo(text, e) \in SUBSET EndsTo(text, e)
  BY EndsFacts DEF FollowedBy
<1>5. ASSUME LineBefore(text, x) = <<>> PROVE BlankTo(text, x) = BlankTo(text, e) \cup {x} /\ BlockOf(text, x + 1) = {}
  <2>1. BlankTo(text, x) = BlankTo(text, e) \cup {x}
    BY <1>2, <1>5 DEF BlankTo
  <2>2. \A i \in EndsTo(text, x) : ~(x < i)
    BY <1>0, <1>2, <1>3
  <2> QED
    BY <1>0, <2>1, <2>2 DEF BlockOf
<1>6. ASSUME LineBefore(text, x) # <<>> PROVE BlankTo(text, x) = BlankTo(text, e) /\ BlockOf(text, x + 1) = BlockOf(text, e + 1) \cup {x}
  <2>1. BlankTo(text, x) = BlankTo(text, e)
    BY <1>2, <1>6 DEF BlankTo
  <2>2. \A c \in BlankTo(text, e) : c < x
    BY <1>3, <1>4
  <2>3. BlockOf(text, x + 1) = {i \in EndsTo(text, x) : \A c \in BlankTo(text, e) : c < i}
    BY <1>0, <2>1 DEF BlockOf
  <2>4. BlockOf(text, e + 1) = {i \in EndsTo(text, e) : \A c \in BlankTo(text, e) : c < i}
    BY <1>0 DEF BlockOf
  <2> QED
    BY <1>2, <2>1, <2>2, <2>3, <2>4
<1> QED
  BY <1>1, <1>5, <1>6

\* The fields the reader has after the line that ends at e.
FieldsAt(text, e) == [event |-> FrameOf(text, e + 1).event, data |-> FrameOf(text, e + 1).data,
                started |-> FieldsOf(text, e + 1) # {}]
Frames  == [event : Seq(Cells), data : Seq(Seq(Cells))]

\* The line before a line end is a piece of the text.
LEMMA LineTyped ==
    ASSUME NEW text, text \in Seq(Cells), NEW i \in 1..Len(text)
    PROVE  LineBefore(text, i) \in Seq(Cells)
<1>1. PICK T : T = {0} \cup EndsTo(text, i - 1)
  OBVIOUS
<1>2. i - 1 \in 0..Len(text) /\ i - 1 \in Nat
  OBVIOUS
<1>3. EndsTo(text, i - 1) \in SUBSET (1..i - 1) /\ IsFiniteSet(EndsTo(text, i - 1))
  BY <1>2, EndsFacts
<1>4. IsFiniteSet(T)
  BY <1>1, <1>3, FS_Singleton, FS_Union
<1>5. T \in SUBSET Int /\ T # {} /\ T \in SUBSET (0..i - 1)
  BY <1>1, <1>2, <1>3
<1>6. PICK m : m = Max(T)
  OBVIOUS
<1>7. m \in 0..i - 1
  BY <1>4, <1>5, <1>6, MaxFacts
<1>8. SubSeq(text, m + 1, i - 1) \in Seq(Cells)
  BY <1>7
<1> QED
  BY <1>1, <1>6, <1>8 DEF LineBefore

\* The lines of a block are not blank.
LEMMA BlockFacts ==
    ASSUME NEW text, text \in Seq(Cells), NEW e \in 0..Len(text)
    PROVE  /\ BlockOf(text, e + 1) \in SUBSET (1..e) /\ IsFiniteSet(BlockOf(text, e + 1))
           /\ \A i \in BlockOf(text, e + 1) : LineBefore(text, i) \in Seq(Cells) /\ LineBefore(text, i) # <<>>
<1>1. (e + 1) - 1 = e /\ e \in Nat
  OBVIOUS
<1>2. BlockOf(text, e + 1) \in SUBSET EndsTo(text, e)
  BY <1>1 DEF BlockOf
<1>3. BlockOf(text, e + 1) \in SUBSET (1..e) /\ IsFiniteSet(BlockOf(text, e + 1))
  BY <1>1, <1>2, EndsFacts, PlacesFinite
<1>4. ASSUME NEW i \in BlockOf(text, e + 1) PROVE LineBefore(text, i) \in Seq(Cells) /\ LineBefore(text, i) # <<>>
  <2>1. i \in 1..e /\ i \in EndsTo(text, e)
    BY <1>2, <1>3
  <2>2. i \notin BlankTo(text, e)
    BY <1>1, <2>1 DEF BlockOf
  <2>3. LineBefore(text, i) # <<>>
    BY <2>1, <2>2 DEF BlankTo
  <2>4. i \in 1..Len(text)
    BY <2>1
  <2> QED
    BY <2>3, <2>4, LineTyped
<1> QED
  BY <1>3, <1>4

\* What a block of lines makes is a frame.
LEMMA FrameTyped ==
    ASSUME NEW text, text \in Seq(Cells), NEW e \in 0..Len(text)
    PROVE  FrameOf(text, e + 1) \in Frames
<1>1. PICK B : B = BlockOf(text, e + 1)
  OBVIOUS
<1>2. B \in SUBSET (1..e) /\ \A i \in B : Tail(LineBefore(text, i)) \in Seq(Cells)
  <2>1. \A s \in Seq(Cells) : s # <<>> => Tail(s) \in Seq(Cells)
    OBVIOUS
  <2> QED
    BY <1>1, <2>1, BlockFacts
<1>3. ASSUME NEW T \in SUBSET B
      PROVE  /\ T \in SUBSET Int /\ IsFiniteSet(T)
             /\ Sorted(T, Ascending(T)) \in Seq(T)
  <2>1. T \in SUBSET (1..e) /\ e \in Nat /\ T \in SUBSET Int
    BY <1>2
  <2>2. IsFiniteSet(T)
    BY <2>1, PlacesFinite
  <2> QED
    BY <2>1, <2>2, AscendingTotal, SortedFacts
<1>4. FrameOf(text, e + 1).event \in Seq(Cells)
  <2>1. PICK T : T = Naming(text, e + 1)
    OBVIOUS
  <2>2. T \in SUBSET B
    BY <1>1, <2>1 DEF Naming
  <2>3. T # {} => Max(T) \in B
    BY <1>3, <2>2, MaxFacts
  <2>4. FrameOf(text, e + 1).event = IF T = {} THEN <<>> ELSE Tail(LineBefore(text, Max(T)))
    BY <2>1 DEF FrameOf
  <2>5. CASE T = {}
    <3>1. <<>> \in Seq(Cells)
      OBVIOUS
    <3> QED
      BY <2>4, <2>5, <3>1
  <2>6. CASE T # {}
    BY <1>2, <2>3, <2>4, <2>6
  <2> QED
    BY <2>5, <2>6
<1>5. FrameOf(text, e + 1).data \in Seq(Seq(Cells))
  <2>1. PICK T : T = Carrying(text, e + 1)
    OBVIOUS
  <2>2. T \in SUBSET B
    BY <1>1, <2>1 DEF Carrying
  <2>3. PICK s : s = Sorted(T, Ascending(T))
    OBVIOUS
  <2>4. s \in Seq(T)
    BY <1>3, <2>2, <2>3
  <2>5. FrameOf(text, e + 1).data = [k \in DOMAIN s |-> Tail(LineBefore(text, s[k]))]
    BY <2>1, <2>3 DEF FrameOf
  <2>6. \A k \in 1..Len(s) : s[k] \in B
    BY <2>2, <2>4
  <2>7. \A k \in 1..Len(s) : Tail(LineBefore(text, s[k])) \in Seq(Cells)
    BY <1>2, <2>6
  <2>8. PICK n \in Nat : n = Len(s) /\ DOMAIN s = 1..n
    BY <2>4
  <2>9. PICK d : d = FrameOf(text, e + 1).data
    OBVIOUS
  <2>10. d = [k \in 1..n |-> d[k]] /\ \A k \in 1..n : d[k] \in Seq(Cells)
    BY <2>5, <2>7, <2>8, <2>9
  <2> HIDE DEF Cells
  <2>11. d \in Seq(Seq(Cells))
    BY <2>10
  <2> QED
    BY <2>9, <2>11
<1>6. FrameOf(text, e + 1) = [event |-> FrameOf(text, e + 1).event, data |-> FrameOf(text, e + 1).data]
  BY DEF FrameOf
<1> QED
  BY <1>4, <1>5, <1>6 DEF Frames

\* An empty block has no fields.
LEMMA NoFields ==
    ASSUME NEW text, NEW b, BlockOf(text, b) = {}
    PROVE  FieldsOf(text, b) = {} /\ FrameOf(text, b) = [event |-> <<>>, data |-> <<>>]
<1>1. Naming(text, b) = {} /\ Carrying(text, b) = {} /\ FieldsOf(text, b) = {}
  BY DEF Naming, Carrying, FieldsOf
<1>2. PICK s : s = Sorted({}, Ascending({}))
  OBVIOUS
<1>3. DOMAIN s = {}
  <2>1. Cardinality({}) = 0
    BY FS_EmptySet
  <2> QED
    BY <1>2, <2>1 DEF Sorted
<1>4. [k \in DOMAIN s |-> Tail(LineBefore(text, s[k]))] = <<>>
  BY <1>3
<1> QED
  BY <1>1, <1>2, <1>4 DEF FrameOf

\* The same block has the same fields.
LEMMA SameFields ==
    ASSUME NEW text, NEW b, NEW c, BlockOf(text, b) = BlockOf(text, c)
    PROVE  FieldsOf(text, b) = FieldsOf(text, c) /\ FrameOf(text, b) = FrameOf(text, c)
<1>1. Naming(text, b) = Naming(text, c) /\ Carrying(text, b) = Carrying(text, c) /\ FieldsOf(text, b) = FieldsOf(text, c)
  BY DEF Naming, Carrying, FieldsOf
<1> QED
  BY <1>1 DEF FrameOf

\* A line that is not blank adds its field.
LEMMA NextFields ==
    ASSUME NEW text, text \in Seq(Cells), NEW e, NEW x, FollowedBy(text, e, x), LineBefore(text, x) # <<>>
    PROVE  FieldsAt(text, x) =
             [event   |-> IF LineBefore(text, x)[1] = "name" THEN Tail(LineBefore(text, x)) ELSE FieldsAt(text, e).event,
              data    |-> IF LineBefore(text, x)[1] = "value" THEN Append(FieldsAt(text, e).data, Tail(LineBefore(text, x)))
                          ELSE FieldsAt(text, e).data,
              started |-> LineBefore(text, x)[1] # "colon" \/ FieldsAt(text, e).started]
<1>1. PICK B : B = BlockOf(text, e + 1)
  OBVIOUS
<1>2. BlockOf(text, x + 1) = B \cup {x}
  BY <1>1, NextBlock
<1>3. PICK kind : kind = LineBefore(text, x)[1]
  OBVIOUS
<1>4. /\ Naming(text, x + 1) = Naming(text, e + 1) \cup IF kind = "name" THEN {x} ELSE {}
      /\ Carrying(text, x + 1) = Carrying(text, e + 1) \cup IF kind = "value" THEN {x} ELSE {}
      /\ FieldsOf(text, x + 1) = FieldsOf(text, e + 1) \cup IF kind # "colon" THEN {x} ELSE {}
  BY <1>1, <1>2, <1>3 DEF Naming, Carrying, FieldsOf
<1>5. e \in 0..Len(text) /\ e \in Nat /\ x \in 1..Len(text) /\ e < x
  BY DEF FollowedBy
<1>6. B \in SUBSET (1..e) /\ \A i \in B : Tail(LineBefore(text, i)) \in Seq(Cells)
  <2>1. \A s \in Seq(Cells) : s # <<>> => Tail(s) \in Seq(Cells)
    OBVIOUS
  <2> QED
    BY <1>1, <1>5, <2>1, BlockFacts
<1>7. Tail(LineBefore(text, x)) \in Seq(Cells)
  BY <1>5, LineTyped
<1>8. ASSUME NEW T \in SUBSET B
      PROVE  T \in SUBSET Int /\ IsFiniteSet(T) /\ \A i \in T : i < x
  <2>1. T \in SUBSET (1..e)
    BY <1>6
  <2> QED
    BY <1>5, <2>1, PlacesFinite
<1>9. FrameOf(text, x + 1).event = IF kind = "name" THEN Tail(LineBefore(text, x)) ELSE FrameOf(text, e + 1).event
  <2>1. CASE kind = "name"
    <3>1. PICK T : T = Naming(text, x + 1)
      OBVIOUS
    <3>2. Naming(text, e + 1) \in SUBSET B
      BY <1>1 DEF Naming
    <3>3. T \in SUBSET Int /\ IsFiniteSet(T) /\ x \in T /\ \A i \in T : i <= x
      <4>1. IsFiniteSet(Naming(text, e + 1)) /\ Naming(text, e + 1) \in SUBSET Int /\ \A i \in Naming(text, e + 1) : i < x
        BY <1>8, <3>2
      <4>2. T = Naming(text, e + 1) \cup {x}
        BY <1>4, <2>1, <3>1
      <4>3. IsFiniteSet(T)
        BY <4>1, <4>2, FS_AddElement
      <4> QED
        BY <1>5, <4>1, <4>2, <4>3
    <3>4. PICK m : m = Max(T)
      OBVIOUS
    <3>5. m \in T /\ \A y \in T : m >= y
      BY <3>3, <3>4, MaxFacts
    <3>6. m = x
      BY <1>5, <3>3, <3>5
    <3> QED
      BY <2>1, <3>1, <3>3, <3>4, <3>6 DEF FrameOf
  <2>2. CASE kind # "name"
    <3>1. Naming(text, x + 1) = Naming(text, e + 1)
      BY <1>4, <2>2
    <3> QED
      BY <2>2, <3>1 DEF FrameOf
  <2> QED
    BY <2>1, <2>2
<1>10. FrameOf(text, x + 1).data = IF kind = "value" THEN Append(FrameOf(text, e + 1).data, Tail(LineBefore(text, x)))
                             ELSE FrameOf(text, e + 1).data
  <2>1. CASE kind = "value"
    <3>1. PICK T : T = Carrying(text, e + 1)
      OBVIOUS
    <3>2. T \in SUBSET B
      BY <1>1, <3>1 DEF Carrying
    <3>3. PICK V : V = B \cup {x}
      OBVIOUS
    <3>4. PICK s : s = Sorted(T, Ascending(T))
      OBVIOUS
    <3>5. s \in Seq(V)
      <4>1. s \in Seq(T)
        BY <1>8, <3>2, <3>4, AscendingTotal, SortedFacts
      <4>2. \A k \in 1..Len(s) : s[k] \in V
        BY <3>2, <3>3, <4>1
      <4> QED
        BY <4>1, <4>2
    <3>6. Sorted(Carrying(text, x + 1), Ascending(Carrying(text, x + 1))) = Append(s, x)
      <4>1. Carrying(text, x + 1) = T \cup {x}
        BY <1>4, <2>1, <3>1
      <4>2. T \in SUBSET Int /\ IsFiniteSet(T) /\ \A i \in T : i < x
        BY <1>8, <3>2
      <4> QED
        BY <1>5, <3>4, <4>1, <4>2, SortedAppend
    <3>7. PICK g : g = [i \in V |-> Tail(LineBefore(text, i))]
      OBVIOUS
    <3>8. g \in [V -> Seq(Cells)] /\ g[x] = Tail(LineBefore(text, x))
      BY <1>6, <1>7, <3>3, <3>7
    <3>9. [k \in DOMAIN Append(s, x) |-> g[Append(s, x)[k]]] = Append([k \in DOMAIN s |-> g[s[k]]], g[x])
      <4>1. x \in V
        BY <3>3
      <4> QED
        BY <3>5, <3>8, <4>1, MapAppend
    <3>10. FrameOf(text, e + 1).data = [k \in DOMAIN s |-> g[s[k]]]
      <4>1. \A k \in DOMAIN s : g[s[k]] = Tail(LineBefore(text, s[k]))
        BY <3>5, <3>7
      <4>2. FrameOf(text, e + 1).data = [k \in DOMAIN s |-> Tail(LineBefore(text, s[k]))]
        BY <3>1, <3>4 DEF FrameOf
      <4> QED
        BY <4>1, <4>2
    <3>11. FrameOf(text, x + 1).data = [k \in DOMAIN Append(s, x) |-> g[Append(s, x)[k]]]
      <4>1. PICK a : a = Append(s, x)
        OBVIOUS
      <4>2. a \in Seq(V)
        BY <3>3, <3>5, <4>1
      <4>3. \A k \in DOMAIN a : g[a[k]] = Tail(LineBefore(text, a[k]))
        BY <3>7, <4>2
      <4>4. FrameOf(text, x + 1).data = [k \in DOMAIN a |-> Tail(LineBefore(text, a[k]))]
        BY <3>6, <4>1 DEF FrameOf
      <4> QED
        BY <4>1, <4>3, <4>4
    <3> QED
      BY <2>1, <3>8, <3>9, <3>10, <3>11
  <2>2. CASE kind # "value"
    <3>1. Carrying(text, x + 1) = Carrying(text, e + 1)
      BY <1>4, <2>2
    <3> QED
      BY <2>2, <3>1 DEF FrameOf
  <2> QED
    BY <2>1, <2>2
<1>11. (FieldsOf(text, x + 1) # {}) = (kind # "colon" \/ FieldsOf(text, e + 1) # {})
  BY <1>4
<1> QED
  BY <1>3, <1>9, <1>10, <1>11 DEF FieldsAt

\* No more frames end up to e than there are cells.
LEMMA WholeTyped ==
    ASSUME NEW text, text \in Seq(Cells), NEW e \in 0..Len(text)
    PROVE  /\ WholeFrames(text, e) \in Seq(Frames) /\ Len(WholeFrames(text, e)) <= e
           /\ FrameEnds(text, e) \in SUBSET (1..e)
<1>1. PICK T : T = FrameEnds(text, e)
  OBVIOUS
<1>2. T \in SUBSET (1..e) /\ e \in Nat
  BY <1>1, EndsFacts DEF FrameEnds
<1>3. T \in SUBSET Int /\ IsFiniteSet(T) /\ Cardinality(T) \in Nat /\ Cardinality(T) <= e
  BY <1>2, PlacesFinite
<1>4. PICK s : s = Sorted(T, Ascending(T))
  OBVIOUS
<1>5. s \in Seq(T) /\ Lists(s, T, Ascending(T))
  BY <1>3, <1>4, AscendingTotal, SortedFacts
<1>6. Len(s) = Cardinality(T)
  BY <1>3, <1>5 DEF Lists
<1>7. WholeFrames(text, e) = [k \in DOMAIN s |-> FrameOf(text, s[k])]
  BY <1>1, <1>4 DEF WholeFrames
<1>8. ASSUME NEW k \in 1..Len(s) PROVE FrameOf(text, s[k]) \in Frames
  <2>1. PICK d : d = s[k] - 1
    OBVIOUS
  <2>a. s[k] \in T
    BY <1>5
  <2>2. s[k] \in 1..e
    BY <1>2, <2>a
  <2>3. d \in 0..Len(text) /\ d + 1 = s[k]
    BY <2>1, <2>2
  <2> QED
    BY <2>3, FrameTyped
<1>9. PICK n \in Nat : n = Len(s) /\ DOMAIN s = 1..n
  BY <1>5
<1>10. PICK w : w = WholeFrames(text, e)
  OBVIOUS
<1>11. w = [k \in 1..n |-> w[k]] /\ \A k \in 1..n : w[k] \in Frames
  BY <1>7, <1>8, <1>9, <1>10
<1>12. w \in Seq(Frames) /\ Len(w) = n
  BY <1>11
<1> QED
  BY <1>1, <1>2, <1>3, <1>6, <1>9, <1>10, <1>12

\* A blank line makes a frame of the fields before it.
LEMMA NextFrames ==
    ASSUME NEW text, text \in Seq(Cells), NEW e, NEW x, FollowedBy(text, e, x)
    PROVE  WholeFrames(text, x) = IF LineBefore(text, x) = <<>> /\ FieldsAt(text, e).started
                            THEN Append(WholeFrames(text, e), FrameOf(text, e + 1)) ELSE WholeFrames(text, e)
<1>1. BlockOf(text, x) = BlockOf(text, e + 1)
  BY NextBlock
<1>2. FieldsOf(text, x) = FieldsOf(text, e + 1) /\ FrameOf(text, x) = FrameOf(text, e + 1)
  BY <1>1, SameFields
<1>3. BlankTo(text, x) = BlankTo(text, e) \cup IF LineBefore(text, x) = <<>> THEN {x} ELSE {}
  BY NextBlock
<1>4. FrameEnds(text, x) = FrameEnds(text, e) \cup IF LineBefore(text, x) = <<>> /\ FieldsOf(text, e + 1) # {} THEN {x} ELSE {}
  BY <1>2, <1>3 DEF FrameEnds
<1>5. FieldsAt(text, e).started = (FieldsOf(text, e + 1) # {})
  BY DEF FieldsAt
<1>6. CASE LineBefore(text, x) = <<>> /\ FieldsAt(text, e).started
  <2>0. e \in 0..Len(text) /\ e \in Nat /\ x \in 1..Len(text) /\ e < x
    BY DEF FollowedBy
  <2>1. PICK T : T = FrameEnds(text, e)
    OBVIOUS
  <2>2. T \in SUBSET (1..e) /\ FrameEnds(text, x) = T \cup {x}
    BY <1>4, <1>5, <1>6, <2>0, <2>1, WholeTyped
  <2>3. T \in SUBSET Int /\ IsFiniteSet(T) /\ \A i \in T : i < x
    BY <2>0, <2>2, PlacesFinite
  <2>4. PICK s : s = Sorted(T, Ascending(T))
    OBVIOUS
  <2>5. PICK V : V = T \cup {x}
    OBVIOUS
  <2>6. s \in Seq(V)
    <3>1. s \in Seq(T)
      BY <2>3, <2>4, AscendingTotal, SortedFacts
    <3>2. \A k \in 1..Len(s) : s[k] \in V
      BY <2>5, <3>1
    <3> QED
      BY <3>1, <3>2
  <2>7. Sorted(FrameEnds(text, x), Ascending(FrameEnds(text, x))) = Append(s, x)
    BY <2>0, <2>2, <2>3, <2>4, SortedAppend
  <2>8. PICK W : W = {FrameOf(text, i) : i \in V}
    OBVIOUS
  <2>9. PICK g : g = [i \in V |-> FrameOf(text, i)]
    OBVIOUS
  <2>10. g \in [V -> W] /\ x \in V /\ g[x] = FrameOf(text, e + 1)
    BY <1>2, <2>5, <2>8, <2>9
  <2>11. [k \in DOMAIN Append(s, x) |-> g[Append(s, x)[k]]] = Append([k \in DOMAIN s |-> g[s[k]]], g[x])
    BY <2>6, <2>10, MapAppend
  <2>12. WholeFrames(text, e) = [k \in DOMAIN s |-> g[s[k]]]
    <3>1. \A k \in DOMAIN s : g[s[k]] = FrameOf(text, s[k])
      BY <2>6, <2>9
    <3>2. WholeFrames(text, e) = [k \in DOMAIN s |-> FrameOf(text, s[k])]
      BY <2>1, <2>4 DEF WholeFrames
    <3> QED
      BY <3>1, <3>2
  <2>13. WholeFrames(text, x) = [k \in DOMAIN Append(s, x) |-> g[Append(s, x)[k]]]
    <3>1. PICK a : a = Append(s, x)
      OBVIOUS
    <3>2. a \in Seq(V)
      BY <2>5, <2>6, <3>1
    <3>3. \A k \in DOMAIN a : g[a[k]] = FrameOf(text, a[k])
      BY <2>9, <3>2
    <3>4. WholeFrames(text, x) = [k \in DOMAIN a |-> FrameOf(text, a[k])]
      BY <2>7, <3>1 DEF WholeFrames
    <3> QED
      BY <3>1, <3>3, <3>4
  <2> QED
    BY <1>6, <2>10, <2>11, <2>12, <2>13
<1>7. CASE ~(LineBefore(text, x) = <<>> /\ FieldsAt(text, e).started)
  <2>1. FrameEnds(text, x) = FrameEnds(text, e)
    BY <1>4, <1>5, <1>7
  <2> QED
    BY <1>7, <2>1 DEF WholeFrames
<1> QED
  BY <1>6, <1>7

\* What the reader may have collected, and what it may be.
FieldSets == [event : Seq(Cells), data : Seq(Seq(Cells)), started : BOOLEAN]
States    == [buffer : Seq(Cells), fields : FieldSets, frames : Seq(Frames), over : BOOLEAN]

\* A reader that has handled the lines up to e and keeps the text from there to m.
Right(text, state, e, m) ==
    /\ e \in 0..m /\ (e = 0 \/ text[e] = "lf")
    /\ state.buffer = SubSeq(text, e + 1, m)
    /\ state.frames = WholeFrames(text, e) /\ state.fields = FieldsAt(text, e)
    /\ ~state.over

\* The readers that have got as far as the text m allows, or not yet.
Readers(text, m) == {state \in States : \E e \in 0..m : Right(text, state, e, m)}

\* The fields after a line end, which a blank line would make a frame of.
LEMMA FieldsTyped ==
    ASSUME NEW text, text \in Seq(Cells), NEW e \in 0..Len(text)
    PROVE  FieldsAt(text, e) \in FieldSets /\ FrameOf(text, e + 1) = [event |-> FieldsAt(text, e).event, data |-> FieldsAt(text, e).data]
<1>1. FrameOf(text, e + 1) \in Frames
  BY FrameTyped
<1>2. PICK f \in Frames : f = FrameOf(text, e + 1)
  BY <1>1
<1>3. FieldsAt(text, e) = [event |-> f.event, data |-> f.data, started |-> FieldsOf(text, e + 1) # {}]
  BY <1>2 DEF FieldsAt
<1>4. f = [event |-> f.event, data |-> f.data] /\ f.event \in Seq(Cells) /\ f.data \in Seq(Seq(Cells))
  BY DEF Frames
<1> HIDE DEF Cells
<1> QED
  BY <1>2, <1>3, <1>4 DEF FieldSets

\* Fields with one of them set, member by member.
LEMMA EventSet ==
    ASSUME NEW f \in FieldSets, NEW v, NEW w
    PROVE  [f EXCEPT !.event = v, !.started = w] = [event |-> v, data |-> f.data, started |-> w]
<1>0. f \in [event : Seq(Cells), data : Seq(Seq(Cells)), started : BOOLEAN]
  BY DEF FieldSets
<1> HIDE DEF Cells
<1>1. PICK g : g = [f EXCEPT !.event = v]
  OBVIOUS
<1>2. DOMAIN g = {"event", "data", "started"} /\ g = [k \in {"event", "data", "started"} |-> g[k]]
  BY <1>0, <1>1
<1>3. g.event = v /\ g.data = f.data
  BY <1>0, <1>1
<1>4. PICK h : h = [g EXCEPT !.started = w]
  OBVIOUS
<1>5. DOMAIN h = {"event", "data", "started"} /\ h = [k \in {"event", "data", "started"} |-> h[k]]
  BY <1>2, <1>4
<1>6. h.event = v /\ h.data = f.data /\ h.started = w
  BY <1>2, <1>3, <1>4
<1>7. h = [event |-> v, data |-> f.data, started |-> w]
  BY <1>5, <1>6
<1>8. h = [f EXCEPT !.event = v, !.started = w]
  BY <1>1, <1>4
<1> QED
  BY <1>7, <1>8

LEMMA DataSet ==
    ASSUME NEW f \in FieldSets, NEW v, NEW w
    PROVE  [f EXCEPT !.data = v, !.started = w] = [event |-> f.event, data |-> v, started |-> w]
<1>0. f \in [event : Seq(Cells), data : Seq(Seq(Cells)), started : BOOLEAN]
  BY DEF FieldSets
<1> HIDE DEF Cells
<1>1. PICK g : g = [f EXCEPT !.data = v]
  OBVIOUS
<1>2. DOMAIN g = {"event", "data", "started"} /\ g = [k \in {"event", "data", "started"} |-> g[k]]
  BY <1>0, <1>1
<1>3. g.data = v /\ g.event = f.event
  BY <1>0, <1>1
<1>4. PICK h : h = [g EXCEPT !.started = w]
  OBVIOUS
<1>5. DOMAIN h = {"event", "data", "started"} /\ h = [k \in {"event", "data", "started"} |-> h[k]]
  BY <1>2, <1>4
<1>6. h.event = f.event /\ h.data = v /\ h.started = w
  BY <1>2, <1>3, <1>4
<1>7. h = [event |-> f.event, data |-> v, started |-> w]
  BY <1>5, <1>6
<1>8. h = [f EXCEPT !.data = v, !.started = w]
  BY <1>1, <1>4
<1> QED
  BY <1>7, <1>8

LEMMA StartedSet ==
    ASSUME NEW f \in FieldSets, NEW w
    PROVE  [f EXCEPT !.started = w] = [event |-> f.event, data |-> f.data, started |-> w]
<1>0. f \in [event : Seq(Cells), data : Seq(Seq(Cells)), started : BOOLEAN]
  BY DEF FieldSets
<1> HIDE DEF Cells
<1> QED
  BY <1>0

\* A whole line takes the reader from one line end to the next.
LEMMA WithLineFacts ==
    ASSUME NEW text, text \in Seq(Cells), NEW e, NEW x, FollowedBy(text, e, x),
           NEW state \in States, state.frames = WholeFrames(text, e), state.fields = FieldsAt(text, e)
    PROVE  LET after == WithLine(state, LineBefore(text, x)) IN
           /\ after \in States /\ after.frames = WholeFrames(text, x) /\ after.fields = FieldsAt(text, x)
           /\ after.buffer = state.buffer /\ after.over = state.over
<1> DEFINE after == WithLine(state, LineBefore(text, x))
<1>0. e \in 0..Len(text) /\ x \in 0..Len(text) /\ x \in 1..Len(text)
  BY DEF FollowedBy
<1>1. PICK line : line = LineBefore(text, x)
  OBVIOUS
<1>2. line \in Seq(Cells)
  BY <1>0, <1>1, LineTyped
<1>3. FieldsAt(text, e) \in FieldSets /\ FieldsAt(text, x) \in FieldSets
      /\ FrameOf(text, e + 1) = [event |-> FieldsAt(text, e).event, data |-> FieldsAt(text, e).data] /\ FrameOf(text, e + 1) \in Frames
  BY <1>0, FieldsTyped, FrameTyped
<1>4. WholeFrames(text, x) \in Seq(Frames) /\ WholeFrames(text, e) \in Seq(Frames)
  BY <1>0, WholeTyped
<1>5. WholeFrames(text, x) = IF line = <<>> /\ state.fields.started
                       THEN Append(state.frames, [event |-> state.fields.event, data |-> state.fields.data])
                       ELSE state.frames
  BY <1>1, <1>3, NextFrames
<1> SUFFICES after = [state EXCEPT !.frames = WholeFrames(text, x), !.fields = FieldsAt(text, x)]
  BY <1>3, <1>4 DEF States
<1>6. CASE line = <<>>
  <2>1. BlockOf(text, x + 1) = {}
    BY <1>1, <1>6, NextBlock
  <2>2. FieldsAt(text, x) = NoFrame
    <3>1. FieldsOf(text, x + 1) = {} /\ FrameOf(text, x + 1) = [event |-> <<>>, data |-> <<>>]
      BY <2>1, NoFields
    <3>2. (FieldsOf(text, x + 1) # {}) = FALSE
      BY <3>1
    <3>3. FrameOf(text, x + 1).event = <<>> /\ FrameOf(text, x + 1).data = <<>>
      BY <3>1
    <3> QED
      BY <3>2, <3>3, Zenon DEF FieldsAt, NoFrame
  <2>3. after = Dispatched(state)
    BY <1>1, <1>6 DEF WithLine
  <2> HIDE DEF after
  <2>4. CASE state.fields.started
    BY <1>5, <1>6, <2>2, <2>3, <2>4 DEF Dispatched, States
  <2>5. CASE ~state.fields.started
    BY <1>5, <1>6, <2>2, <2>3, <2>5 DEF Dispatched, States
  <2> QED
    BY <2>4, <2>5
<1>7. CASE line # <<>>
  <2>1. FieldsAt(text, x) =
             [event   |-> IF line[1] = "name" THEN Tail(line) ELSE state.fields.event,
              data    |-> IF line[1] = "value" THEN Append(state.fields.data, Tail(line)) ELSE state.fields.data,
              started |-> line[1] # "colon" \/ state.fields.started]
    BY <1>1, <1>7, NextFields
  <2>2. WholeFrames(text, x) = state.frames
    BY <1>5, <1>7
  <2>3. PICK f \in FieldSets : f = state.fields
    BY DEF States
  <2>4. f = [event |-> f.event, data |-> f.data, started |-> f.started] /\ f.started \in BOOLEAN
    BY DEF FieldSets
  <2>5. PICK g : g = FieldsAt(text, x)
    OBVIOUS
  <2>6. [state EXCEPT !.frames = WholeFrames(text, x), !.fields = FieldsAt(text, x)] = [state EXCEPT !.fields = g]
    BY <2>2, <2>5 DEF States
  <2>7. after = CASE line[1] = "colon" -> state
           [] line[1] = "name"  -> [state EXCEPT !.fields.event = Tail(line), !.fields.started = TRUE]
           [] line[1] = "value" -> [state EXCEPT !.fields.data = Append(@, Tail(line)), !.fields.started = TRUE]
           [] OTHER             -> [state EXCEPT !.fields.started = TRUE]
    BY <1>1, <1>7 DEF WithLine
  <2> HIDE DEF after
  <2>8. CASE line[1] = "colon"
    <3>1. g = f
      BY <2>1, <2>3, <2>4, <2>5, <2>8
    <3>2. after = state
      BY <2>7, <2>8
    <3> QED
      BY <2>3, <2>6, <3>1, <3>2 DEF States
  <2>9. CASE line[1] = "name"
    <3>a. (line[1] # "colon" \/ state.fields.started) = TRUE
      BY <2>9
    <3>b. g = [event |-> Tail(line), data |-> f.data, started |-> TRUE]
      BY <2>1, <2>3, <2>5, <2>9, <3>a
    <3>1. g = [f EXCEPT !.event = Tail(line), !.started = TRUE]
      BY <3>b, EventSet
    <3>2. after = [state EXCEPT !.fields.event = Tail(line), !.fields.started = TRUE]
      BY <2>7, <2>9
    <3> QED
      BY <2>3, <2>4, <2>6, <3>1, <3>2 DEF States
  <2>10. CASE line[1] = "value"
    <3>a. (line[1] # "colon" \/ state.fields.started) = TRUE
      BY <2>10
    <3>b. g = [event |-> f.event, data |-> Append(f.data, Tail(line)), started |-> TRUE]
      BY <2>1, <2>3, <2>5, <2>10, <3>a
    <3>1. g = [f EXCEPT !.data = Append(@, Tail(line)), !.started = TRUE]
      BY <3>b, DataSet
    <3>2. after = [state EXCEPT !.fields.data = Append(@, Tail(line)), !.fields.started = TRUE]
      BY <2>7, <2>10
    <3> QED
      BY <2>3, <2>4, <2>6, <3>1, <3>2 DEF States
  <2>11. CASE line[1] \notin {"colon", "name", "value"}
    <3>a. (line[1] # "colon" \/ state.fields.started) = TRUE
      BY <2>11
    <3>b. g = [event |-> f.event, data |-> f.data, started |-> TRUE]
      BY <2>1, <2>3, <2>5, <2>11, <3>a
    <3>1. g = [f EXCEPT !.started = TRUE]
      BY <3>b, StartedSet
    <3>2. after = [state EXCEPT !.fields.started = TRUE]
      BY <2>7, <2>11
    <3> QED
      BY <2>3, <2>4, <2>6, <3>1, <3>2 DEF States
  <2> QED
    BY <2>8, <2>9, <2>10, <2>11
<1> QED
  BY <1>6, <1>7

\* A piece of a sequence, cell by cell.
LEMMA Within ==
    ASSUME NEW V, NEW s \in Seq(V), NEW a \in Nat, NEW b \in Nat, a <= b, b <= Len(s)
    PROVE  /\ SubSeq(s, a + 1, b) \in Seq(V) /\ Len(SubSeq(s, a + 1, b)) = b - a
           /\ DOMAIN SubSeq(s, a + 1, b) = 1..b - a
           /\ \A i \in 1..b - a : SubSeq(s, a + 1, b)[i] = s[a + i]
  OBVIOUS

\* One turn of the loop takes the reader to the next line end, and shortens the buffer.
LEMMA FirstLineFacts ==
    ASSUME NEW text, text \in Seq(Cells), NEW m \in 0..Len(text), NEW state \in Readers(text, m), EndsIn(state.buffer) # {}
    PROVE  /\ FirstLineOff(state) \in Readers(text, m)
           /\ Len(FirstLineOff(state).buffer) < Len(state.buffer)
<1>1. state \in States /\ state.buffer \in Seq(Cells)
  BY DEF Readers, States
<1>2. PICK e \in 0..m : Right(text, state, e, m)
  BY DEF Readers
<1>3. PICK n \in Nat : n = Len(text) /\ m <= n /\ m \in Nat /\ e \in Nat /\ e <= m
  OBVIOUS
<1>4. PICK b : b = state.buffer
  OBVIOUS
<1>5. b \in Seq(Cells) /\ Len(b) = m - e /\ DOMAIN b = 1..m - e /\ \A j \in 1..m - e : b[j] = text[e + j]
  <2>1. b = SubSeq(text, e + 1, m)
    BY <1>2, <1>4 DEF Right
  <2> QED
    BY <1>3, <2>1, Within
<1>6. PICK E : E = EndsIn(b)
  OBVIOUS
<1>7. E = {j \in 1..m - e : b[j] = "lf"} /\ E # {}
  BY <1>4, <1>5, <1>6 DEF EndsIn
<1>8. E \in SUBSET Int /\ IsFiniteSet(E) /\ m - e \in Nat
  <2>1. m - e \in Nat
    BY <1>3
  <2>2. E \in SUBSET (1..m - e) /\ E \in SUBSET Int
    BY <1>7
  <2> QED
    BY <2>1, <2>2, PlacesFinite
<1>9. PICK i : i = Min(E)
  OBVIOUS
<1>10. i \in E /\ \A j \in E : i <= j
  BY <1>7, <1>8, <1>9, MinFacts
<1>11. i \in 1..m - e /\ b[i] = "lf" /\ \A j \in 1..i - 1 : b[j] # "lf"
  BY <1>7, <1>8, <1>10
<1>12. PICK x \in Nat : x = e + i
  BY <1>3, <1>11
<1>13. FollowedBy(text, e, x) /\ x \in 0..m /\ text[x] = "lf"
  <2>1. x \in 0..m /\ x \in 1..n /\ e < x /\ text[x] = "lf"
    BY <1>3, <1>5, <1>11, <1>12
  <2>2. ASSUME NEW j \in e + 1..x - 1 PROVE text[j] # "lf"
    <3>1. j - e \in 1..i - 1 /\ j - e \in 1..m - e /\ e + (j - e) = j
      BY <1>3, <1>11, <1>12
    <3> QED
      BY <1>5, <1>11, <3>1
  <2>3. e \in 0..n /\ (e = 0 \/ text[e] = "lf")
    BY <1>2, <1>3 DEF Right
  <2> QED
    BY <1>3, <2>1, <2>2, <2>3 DEF FollowedBy
<1>14. LineBefore(text, x) = SubSeq(b, 1, i - 1)
  <2>1. LineBefore(text, x) = SubSeq(text, e + 1, x - 1)
    BY <1>13, NextLine
  <2>2. PICK p \in Nat : p = i - 1 /\ p = (x - 1) - e
    BY <1>3, <1>11, <1>12
  <2>3. /\ SubSeq(text, e + 1, x - 1) \in Seq(Cells) /\ DOMAIN SubSeq(text, e + 1, x - 1) = 1..p
        /\ \A j \in 1..p : SubSeq(text, e + 1, x - 1)[j] = text[e + j]
    <3>1. PICK y \in Nat : y = x - 1 /\ e <= y /\ y <= n
      BY <1>3, <1>11, <1>12
    <3> QED
      BY <1>3, <2>2, <3>1, Within
  <2>4. /\ SubSeq(b, 1, i - 1) \in Seq(Cells) /\ DOMAIN SubSeq(b, 1, i - 1) = 1..p
        /\ \A j \in 1..p : SubSeq(b, 1, i - 1)[j] = b[j]
    BY <1>5, <1>11, <2>2
  <2>5. \A j \in 1..p : b[j] = text[e + j]
    BY <1>5, <1>11, <2>2
  <2> QED
    BY <2>1, <2>3, <2>4, <2>5
<1>15. PICK t : t = WithLine(state, LineBefore(text, x))
  OBVIOUS
<1>16. /\ t \in States /\ t.frames = WholeFrames(text, x) /\ t.fields = FieldsAt(text, x)
       /\ t.buffer = b /\ ~t.over
  <2>1. /\ state.frames = WholeFrames(text, e) /\ state.fields = FieldsAt(text, e)
        /\ ~state.over /\ state.buffer = b
    BY <1>2, <1>4 DEF Right
  <2>2. FollowedBy(text, e, x)
    BY <1>13
  <2>3. /\ t \in States /\ t.frames = WholeFrames(text, x) /\ t.fields = FieldsAt(text, x)
        /\ t.buffer = state.buffer /\ t.over = state.over
    BY <1>1, <1>15, <2>1, <2>2, WithLineFacts
  <2> QED
    BY <2>1, <2>3
<1>17. PICK c : c = SubSeq(b, i + 1, Len(b))
  OBVIOUS
<1>18. FirstLineOff(state) = [t EXCEPT !.buffer = c]
  BY <1>4, <1>6, <1>7, <1>9, <1>14, <1>15, <1>16, <1>17 DEF FirstLineOff, States
<1>19. c \in Seq(Cells) /\ Len(c) = m - x /\ c = SubSeq(text, x + 1, m)
  <2>1. PICK p \in Nat : p = m - x /\ p = (m - e) - i
    BY <1>3, <1>11, <1>12
  <2>2. /\ SubSeq(text, x + 1, m) \in Seq(Cells) /\ DOMAIN SubSeq(text, x + 1, m) = 1..p
        /\ \A j \in 1..p : SubSeq(text, x + 1, m)[j] = text[x + j]
    BY <1>3, <1>13, <2>1, Within
  <2>3. c \in Seq(Cells) /\ Len(c) = p /\ DOMAIN c = 1..p /\ \A j \in 1..p : c[j] = b[i + j]
    <3>1. PICK k \in Nat : k = m - e /\ i \in Nat /\ i <= k /\ k = Len(b)
      BY <1>5, <1>8, <1>11
    <3>2. c = SubSeq(b, i + 1, k) /\ p = k - i
      BY <1>17, <2>1, <3>1
    <3> QED
      BY <1>5, <3>1, <3>2, Within
  <2>4. ASSUME NEW j \in 1..p PROVE b[i + j] = text[x + j]
    <3>1. i + j \in 1..m - e /\ e + (i + j) = x + j
      BY <1>3, <1>11, <1>12, <2>1
    <3> QED
      BY <1>5, <3>1
  <2>5. \A j \in 1..p : c[j] = SubSeq(text, x + 1, m)[j]
    BY <2>2, <2>3, <2>4
  <2>6. c = SubSeq(text, x + 1, m)
    <3>1. PICK d : d = SubSeq(text, x + 1, m)
      OBVIOUS
    <3>2. c = [j \in 1..p |-> c[j]]
      BY <2>3
    <3>3. d = [j \in 1..p |-> d[j]]
      <4>1. d \in Seq(Cells) /\ DOMAIN d = 1..p
        BY <2>2, <3>1
      <4> HIDE DEF Cells
      <4> QED
        BY <4>1
    <3>4. \A j \in 1..p : c[j] = d[j]
      BY <2>5, <3>1
    <3> QED
      BY <3>1, <3>2, <3>3, <3>4
  <2> QED
    BY <2>1, <2>3, <2>6
<1>20. PICK u : u = FirstLineOff(state)
  OBVIOUS
<1>21. /\ u \in States /\ u.buffer = c /\ u.frames = WholeFrames(text, x) /\ u.fields = FieldsAt(text, x)
       /\ ~u.over
  BY <1>16, <1>18, <1>19, <1>20 DEF States
<1>22. Right(text, u, x, m)
  BY <1>13, <1>19, <1>21 DEF Right
<1>23. u \in Readers(text, m)
  BY <1>13, <1>21, <1>22 DEF Readers
<1>24. Len(u.buffer) < Len(b)
  BY <1>3, <1>5, <1>11, <1>12, <1>19, <1>21
<1> QED
  BY <1>4, <1>20, <1>23, <1>24

\* The loop ends with no line end left in the buffer.
LEMMA DrainedFacts ==
    ASSUME NEW text, text \in Seq(Cells), NEW m \in 0..Len(text), NEW state \in Readers(text, m)
    PROVE  Drained(state) \in Readers(text, m) /\ EndsIn(Drained(state).buffer) = {}
<1> DEFINE n == Len(state.buffer)
           V == Readers(text, m)
           step == [i \in 1..n |-> [s \in V |-> FirstLineOff(s)]]
           Level(f) == f = [k \in 0..n |-> IF k = 0 THEN state ELSE FirstLineOff(f[k - 1])]
           r == CHOOSE f : Level(f)
<1>1. \A s \in V : s.buffer \in Seq(Cells)
  BY DEF Readers, States
<1>2. n \in Nat
  BY <1>1
<1>3. ASSUME NEW s \in V PROVE FirstLineOff(s) \in V
  <2>1. CASE EndsIn(s.buffer) = {}
    BY <2>1 DEF FirstLineOff
  <2>2. CASE EndsIn(s.buffer) # {}
    BY <2>2, FirstLineFacts
  <2> QED
    BY <2>1, <2>2
<1>4. step \in StepsOf(n, V) /\ \A i \in 1..n, s \in V : step[i][s] = FirstLineOff(s)
  BY <1>3 DEF StepsOf
<1>5. Drained(state) = r[n]
  BY Zenon DEF Drained
<1>6. \A s \in V : EndsIn(s.buffer) = {} => FirstLineOff(s) = s
  BY DEF FirstLineOff
<1>7. \A s \in V : EndsIn(s.buffer) # {} => Len(FirstLineOff(s).buffer) < Len(s.buffer)
  BY FirstLineFacts
<1>8. \A s \in V : Len(s.buffer) = 0 => EndsIn(s.buffer) = {}
  <2> SUFFICES ASSUME NEW s \in V, Len(s.buffer) = 0 PROVE EndsIn(s.buffer) = {}
    OBVIOUS
  <2>1. DOMAIN s.buffer = {}
    BY <1>1
  <2> QED
    BY <2>1 DEF EndsIn
<1>n. n = Len(state.buffer)
  OBVIOUS
<1> HIDE DEF n, V, step
<1>9. PICK f \in [0..n -> V] : f[0] = state /\ \A i \in 1..n : f[i] = step[i][f[i - 1]]
  <2>1. PICK b \in V : b = state
    BY DEF V
  <2>2. \E f \in [0..n -> V] : f[0] = b /\ \A i \in 1..n : f[i] = step[i][f[i - 1]]
    BY <1>2, <1>4, <2>1, Recursion, Z3T(25)
  <2> QED
    BY <2>1, <2>2
<1>10. Level(f)
  <2>1. ASSUME NEW k \in 0..n PROVE f[k] = IF k = 0 THEN state ELSE FirstLineOff(f[k - 1])
    <3>1. CASE k = 0
      BY <1>9, <3>1
    <3>2. CASE k \in 1..n
      <4>1. k - 1 \in 0..n /\ k # 0
        BY <1>2, <3>2
      <4>2. f[k - 1] \in V
        BY <1>9, <4>1
      <4> QED
        BY <1>4, <1>9, <3>2, <4>1, <4>2
    <3> QED
      BY <1>2, <3>1, <3>2
  <2>2. f = [k \in 0..n |-> f[k]]
    BY <1>9
  <2> QED
    BY <2>1, <2>2
<1> HIDE DEF Level
<1>11. Level(r)
  BY <1>10
<1> HIDE DEF r
<1>12. \A k \in 0..n : r[k] = IF k = 0 THEN state ELSE FirstLineOff(r[k - 1])
  BY <1>11 DEF Level
<1> DEFINE Done(k) == r[k] \in V /\ (EndsIn(r[k].buffer) = {} \/ Len(r[k].buffer) + k <= n)
           S == {k \in Nat : k <= n => Done(k)}
<1> HIDE DEF Done
<1>13. 0 \in S
  <2>1. 0 \in 0..n
    BY <1>2
  <2>2. r[0] = state
    BY <1>12, <2>1
  <2>3. state \in V
    BY DEF V
  <2> QED
    BY <1>2, <1>n, <2>2, <2>3 DEF Done
<1>14. ASSUME NEW k \in S PROVE k + 1 \in S
  <2> SUFFICES ASSUME k + 1 <= n PROVE Done(k + 1)
    BY <1>14
  <2>1. k \in Nat /\ k <= n /\ k + 1 \in 0..n /\ k + 1 # 0 /\ k + 1 - 1 = k
    BY <1>2
  <2>2. PICK s : s = r[k]
    OBVIOUS
  <2>3. s \in V /\ (EndsIn(s.buffer) = {} \/ Len(s.buffer) + k <= n)
    BY <1>14, <2>1, <2>2 DEF Done
  <2>4. PICK t : t = FirstLineOff(s)
    OBVIOUS
  <2>5. t = r[k + 1] /\ t \in V
    BY <1>3, <1>12, <2>1, <2>2, <2>3, <2>4 DEF V
  <2>6. EndsIn(t.buffer) = {} \/ Len(t.buffer) + (k + 1) <= n
    <3>1. CASE EndsIn(s.buffer) = {}
      BY <1>6, <2>3, <2>4, <3>1
    <3>2. CASE EndsIn(s.buffer) # {}
      <4>1. Len(t.buffer) < Len(s.buffer)
        BY <1>7, <2>3, <2>4, <3>2
      <4>2. PICK i \in Nat, j \in Nat : i = Len(t.buffer) /\ j = Len(s.buffer)
        BY <1>1, <2>3, <2>5
      <4>3. i < j /\ j + k <= n
        BY <2>3, <3>2, <4>1, <4>2
      <4>4. i + (k + 1) <= n
        BY <1>2, <2>1, <4>3
      <4> QED
        BY <4>2, <4>4
    <3> QED
      BY <3>1, <3>2
  <2> QED
    BY <2>5, <2>6 DEF Done
<1> HIDE DEF S
<1>15. S = Nat
  <2>1. S \in SUBSET Nat
    BY DEF S
  <2> QED
    BY <1>13, <1>14, <2>1, SetInduction
<1>16. Done(n)
  BY <1>2, <1>15 DEF S
<1>17. r[n] \in V /\ EndsIn(r[n].buffer) = {}
  <2>1. PICK s : s = r[n]
    OBVIOUS
  <2>2. s \in V /\ (EndsIn(s.buffer) = {} \/ Len(s.buffer) + n <= n)
    BY <1>16, <2>1 DEF Done
  <2>3. Len(s.buffer) \in Nat
    BY <1>1, <2>2
  <2> QED
    BY <1>2, <1>8, <2>1, <2>2, <2>3
<1> QED
  BY <1>5, <1>17 DEF V

-----------------------------------------------------------------------------
\* Two pieces joined, cell by cell.
LEMMA TextGrows ==
    ASSUME NEW V, NEW c \in Seq(V), NEW d \in Seq(V)
    PROVE  /\ c \o d \in Seq(V) /\ DOMAIN (c \o d) = 1..Len(c) + Len(d)
           /\ \A i \in 1..Len(c) : (c \o d)[i] = c[i]
           /\ \A i \in Len(c) + 1..Len(c) + Len(d) : (c \o d)[i] = d[i - Len(c)]
  OBVIOUS

\* No cell of a text is a carriage return once its line ends are made the same.
Plain == Cells \ {"cr"}

\* What one more cell adds: nothing if it is the second of a pair.
LEMMA NormalAppend ==
    ASSUME NEW t \in Seq(Cells), NEW x \in Cells
    PROVE  Normal(Append(t, x)) = IF Paired(Append(t, x), Len(t) + 1) THEN Normal(t)
                                  ELSE Append(Normal(t), LineFeed(x))
<1>1. PICK n \in Nat : n = Len(t) /\ DOMAIN t = 1..n
  OBVIOUS
<1>2. PICK u : u = Append(t, x)
  OBVIOUS
<1>3. DOMAIN u = 1..n + 1 /\ u[n + 1] = x /\ \A i \in 1..n : u[i] = t[i]
  BY <1>1, <1>2
<1>4. PICK K : K = Kept(t)
  OBVIOUS
<1>5. K \in SUBSET (1..n)
  BY <1>1, <1>4 DEF Kept
<1>6. K \in SUBSET Int /\ IsFiniteSet(K) /\ \A i \in K : i < n + 1
  <2>1. IsFiniteSet(K)
    BY <1>5, PlacesFinite
  <2>2. \A i \in 1..n : i \in Int /\ i < n + 1
    OBVIOUS
  <2> QED
    BY <1>5, <2>1, <2>2
<1>7. Kept(u) = K \cup IF Paired(u, n + 1) THEN {} ELSE {n + 1}
  <2>1. \A i \in 1..n : Paired(u, i) <=> Paired(t, i)
    BY <1>3 DEF Paired
  <2>2. \A i \in 1..n + 1 : i = n + 1 \/ i \in 1..n
    OBVIOUS
  <2>3. n + 1 \in 1..n + 1 /\ 1..n \subseteq 1..n + 1
    OBVIOUS
  <2> QED
    BY <1>1, <1>3, <1>4, <2>1, <2>2, <2>3 DEF Kept
<1>8. PICK V : V = 1..n + 1
  OBVIOUS
<1>a. 1..n \subseteq V /\ K \subseteq V
  <2>1. 1..n \subseteq 1..n + 1
    OBVIOUS
  <2> QED
    BY <1>5, <1>8, <2>1
<1>9. PICK s : s = Sorted(K, Ascending(K))
  OBVIOUS
<1>10. s \in Seq(K) /\ s \in Seq(V)
  <2>1. s \in Seq(K)
    BY <1>6, <1>9, AscendingTotal, SortedFacts
  <2>2. \A k \in 1..Len(s) : s[k] \in V
    BY <1>a, <2>1
  <2> QED
    BY <2>1, <2>2
<1>11. PICK W : W = {LineFeed(u[i]) : i \in V}
  OBVIOUS
<1>12. PICK g : g = [i \in V |-> LineFeed(u[i])]
  OBVIOUS
<1>13. g \in [V -> W] /\ n + 1 \in V /\ g[n + 1] = LineFeed(x)
  BY <1>3, <1>8, <1>11, <1>12
<1>14. Normal(t) = [k \in DOMAIN s |-> g[s[k]]]
  <2>1. Normal(t) = [k \in DOMAIN s |-> LineFeed(t[s[k]])]
    BY <1>4, <1>9 DEF Normal
  <2>2. \A k \in DOMAIN s : g[s[k]] = LineFeed(t[s[k]])
    <3>1. \A k \in DOMAIN s : s[k] \in 1..n /\ s[k] \in V
      <4>1. \A k \in DOMAIN s : s[k] \in K
        BY <1>10
      <4> QED
        BY <1>5, <1>a, <4>1
    <3> QED
      BY <1>3, <1>12, <3>1
  <2> QED
    BY <2>1, <2>2
<1>15. CASE Paired(u, n + 1)
  <2>1. Kept(u) = K
    BY <1>7, <1>15
  <2>2. Normal(u) = [k \in DOMAIN s |-> LineFeed(u[s[k]])]
    BY <1>9, <2>1 DEF Normal
  <2>3. \A k \in DOMAIN s : g[s[k]] = LineFeed(u[s[k]])
    BY <1>10, <1>12
  <2>4. Normal(u) = Normal(t)
    BY <1>14, <2>2, <2>3
  <2> QED
    BY <1>1, <1>2, <1>15, <2>4
<1>16. CASE ~Paired(u, n + 1)
  <2>1. Kept(u) = K \cup {n + 1}
    BY <1>7, <1>16
  <2>2. PICK a : a = Append(s, n + 1)
    OBVIOUS
  <2>3. Sorted(Kept(u), Ascending(Kept(u))) = a
    BY <1>6, <1>9, <2>1, <2>2, SortedAppend
  <2>4. a \in Seq(V)
    BY <1>10, <1>13, <2>2
  <2>5. Normal(u) = [k \in DOMAIN a |-> LineFeed(u[a[k]])]
    BY <2>3 DEF Normal
  <2>6. \A k \in DOMAIN a : g[a[k]] = LineFeed(u[a[k]])
    BY <1>12, <2>4
  <2>7. Normal(u) = [k \in DOMAIN a |-> g[a[k]]]
    BY <2>5, <2>6
  <2>8. [k \in DOMAIN a |-> g[a[k]]] = Append([k \in DOMAIN s |-> g[s[k]]], g[n + 1])
    BY <1>10, <1>13, <2>2, MapAppend
  <2>9. Normal(u) = Append(Normal(t), LineFeed(x))
    BY <1>13, <1>14, <2>7, <2>8
  <2> QED
    BY <1>1, <1>2, <1>16, <2>9
<1> QED
  BY <1>15, <1>16

\* No text has no lines.
LEMMA NormalEmpty == Normal(<<>>) = <<>>
<1>1. Kept(<<>>) = {}
  BY DEF Kept
<1>2. PICK s : s = Sorted({}, Ascending({}))
  OBVIOUS
<1>3. DOMAIN s = {}
  <2>1. Cardinality({}) = 0
    BY FS_EmptySet
  <2> QED
    BY <1>2, <2>1 DEF Sorted
<1>4. [k \in DOMAIN s |-> LineFeed(<<>>[s[k]])] = <<>>
  BY <1>3
<1> QED
  BY <1>1, <1>2, <1>4 DEF Normal

\* A text is made cell by cell of its beginnings.
LEMMA OneMoreCell ==
    ASSUME NEW V, NEW s \in Seq(V), NEW k \in Nat, k + 1 <= Len(s)
    PROVE  /\ SubSeq(s, 1, k) \in Seq(V) /\ Len(SubSeq(s, 1, k)) = k /\ s[k + 1] \in V
           /\ SubSeq(s, 1, k + 1) = Append(SubSeq(s, 1, k), s[k + 1])
<1>1. PICK p : p = SubSeq(s, 1, k)
  OBVIOUS
<1>2. p \in Seq(V) /\ Len(p) = k /\ DOMAIN p = 1..k /\ \A i \in 1..k : p[i] = s[i]
  BY <1>1
<1>3. PICK q : q = SubSeq(s, 1, k + 1)
  OBVIOUS
<1>4. q \in Seq(V) /\ DOMAIN q = 1..k + 1 /\ \A i \in 1..k + 1 : q[i] = s[i]
  BY <1>3
<1>5. PICK a : a = Append(p, s[k + 1])
  OBVIOUS
<1>6. s[k + 1] \in V
  OBVIOUS
<1>7. a \in Seq(V) /\ DOMAIN a = 1..k + 1 /\ a[k + 1] = s[k + 1] /\ \A i \in 1..k : a[i] = p[i]
  BY <1>2, <1>5, <1>6
<1>8. \A i \in 1..k + 1 : q[i] = a[i]
  <2>1. \A i \in 1..k + 1 : i = k + 1 \/ i \in 1..k
    OBVIOUS
  <2> QED
    BY <1>2, <1>4, <1>7, <2>1
<1>9. q = [i \in 1..k + 1 |-> q[i]] /\ a = [i \in 1..k + 1 |-> a[i]]
  BY <1>4, <1>7
<1>10. q = a
  BY <1>8, <1>9
<1> QED
  BY <1>1, <1>2, <1>3, <1>5, <1>6, <1>10

\* One more cell at the end of the second of two pieces.
LEMMA AppendJoins ==
    ASSUME NEW V, NEW c \in Seq(V), NEW p \in Seq(V), NEW x \in V
    PROVE  c \o Append(p, x) = Append(c \o p, x)
<1>1. PICK m \in Nat, k \in Nat : m = Len(c) /\ k = Len(p)
  OBVIOUS
<1>2. PICK u : u = c \o p
  OBVIOUS
<1>3. /\ u \in Seq(V) /\ DOMAIN u = 1..m + k /\ Len(u) = m + k
      /\ \A i \in 1..m : u[i] = c[i]
      /\ \A i \in m + 1..m + k : u[i] = p[i - m]
  BY <1>1, <1>2, TextGrows
<1>4. PICK a : a = Append(p, x)
  OBVIOUS
<1>5. a \in Seq(V) /\ Len(a) = k + 1 /\ a[k + 1] = x /\ \A i \in 1..k : a[i] = p[i]
  BY <1>1, <1>4
<1>6. PICK v : v = c \o a
  OBVIOUS
<1>7. /\ v \in Seq(V) /\ DOMAIN v = 1..m + (k + 1)
      /\ \A i \in 1..m : v[i] = c[i]
      /\ \A i \in m + 1..m + (k + 1) : v[i] = a[i - m]
  <2>1. PICK l \in Nat : l = k + 1
    OBVIOUS
  <2>2. Len(c) = m /\ Len(a) = l /\ a \in Seq(V)
    BY <1>1, <1>5, <2>1
  <2>3. /\ v \in Seq(V) /\ DOMAIN v = 1..m + l
        /\ \A i \in 1..m : v[i] = c[i]
        /\ \A i \in m + 1..m + l : v[i] = a[i - m]
    BY <1>6, <2>2, TextGrows
  <2> QED
    BY <2>1, <2>3
<1>8. PICK w : w = Append(u, x)
  OBVIOUS
<1>9. w \in Seq(V) /\ DOMAIN w = 1..m + (k + 1) /\ w[m + (k + 1)] = x /\ \A i \in 1..m + k : w[i] = u[i]
  BY <1>3, <1>8
<1>10. ASSUME NEW i \in 1..m + (k + 1) PROVE v[i] = w[i]
  <2>1. CASE i \in 1..m
    <3>1. i \in 1..m + k
      BY <2>1
    <3> QED
      BY <1>3, <1>7, <1>9, <2>1, <3>1
  <2>2. CASE i \in m + 1..m + k
    <3>1. i \in 1..m + k /\ i \in m + 1..m + (k + 1) /\ i - m \in 1..k
      BY <2>2
    <3> QED
      BY <1>3, <1>5, <1>7, <1>9, <2>2, <3>1
  <2>3. CASE i = m + (k + 1)
    <3>1. i \in m + 1..m + (k + 1) /\ i - m = k + 1
      BY <2>3
    <3> QED
      BY <1>5, <1>7, <1>9, <2>3, <3>1
  <2> QED
    BY <2>1, <2>2, <2>3, SMTT(25)
<1>11. v = [i \in 1..m + (k + 1) |-> v[i]] /\ w = [i \in 1..m + (k + 1) |-> w[i]]
  BY <1>7, <1>9
<1>12. v = w
  BY <1>10, <1>11
<1> QED
  BY <1>2, <1>4, <1>6, <1>8, <1>12

\* Line ends are made the same in two parts as in one, but for a pair that was cut.
LEMMA NormalJoins ==
    ASSUME NEW c \in Seq(Cells), NEW d \in Seq(Cells), ~Paired(c \o d, Len(c) + 1)
    PROVE  /\ Normal(d) \in Seq(Plain)
           /\ Normal(c) \in Seq(Plain) => Normal(c \o d) = Normal(c) \o Normal(d)
<1>1. PICK m \in Nat, n \in Nat : m = Len(c) /\ n = Len(d)
  OBVIOUS
<1> DEFINE part(k) == SubSeq(d, 1, k)
           Joins(k) == /\ Normal(part(k)) \in Seq(Plain)
                       /\ Normal(c) \in Seq(Plain) => Normal(c \o part(k)) = Normal(c) \o Normal(part(k))
           S == {k \in Nat : k <= n => Joins(k)}
<1>a. \A f \in Seq(Plain), g \in Seq(Plain), y \in Plain : f \o Append(g, y) = Append(f \o g, y)
  BY AppendJoins
<1>2. Joins(0)
  <2>1. part(0) = <<>>
    OBVIOUS
  <2>2. c \o <<>> = c
    OBVIOUS
  <2>3. Normal(c) \in Seq(Plain) => Normal(c) \o <<>> = Normal(c)
    OBVIOUS
  <2>4. <<>> \in Seq(Plain)
    OBVIOUS
  <2> QED
    BY <2>1, <2>2, <2>3, <2>4, NormalEmpty
<1>3. ASSUME NEW k \in Nat, k + 1 <= n, Joins(k) PROVE Joins(k + 1)
  <2>1. PICK p : p = part(k)
    OBVIOUS
  <2>2. PICK x : x = d[k + 1]
    OBVIOUS
  <2>3. p \in Seq(Cells) /\ Len(p) = k /\ x \in Cells /\ part(k + 1) = Append(p, x)
    BY <1>1, <1>3, <2>1, <2>2, OneMoreCell
  <2>4. Normal(p) \in Seq(Plain) /\ (Normal(c) \in Seq(Plain) => Normal(c \o p) = Normal(c) \o Normal(p))
    BY <1>3, <2>1
  <2>5. PICK u : u = c \o p
    OBVIOUS
  <2>6. u \in Seq(Cells) /\ Len(u) = m + k /\ c \o Append(p, x) = Append(u, x)
    <3>1. u \in Seq(Cells) /\ Len(u) = m + k
      <4>1. u \in Seq(Cells) /\ DOMAIN u = 1..Len(c) + Len(p)
        BY <2>3, <2>5, TextGrows
      <4> QED
        BY <1>1, <2>3, <4>1
    <3>2. c \o Append(p, x) = Append(u, x)
      BY <2>3, <2>5, AppendJoins
    <3> QED
      BY <3>1, <3>2
  <2>7. Paired(Append(u, x), (m + k) + 1) <=> Paired(Append(p, x), k + 1)
    <3>1. PICK v : v = Append(u, x)
      OBVIOUS
    <3>2. PICK w : w = Append(p, x)
      OBVIOUS
    <3>3. v[(m + k) + 1] = x /\ w[k + 1] = x
      BY <2>3, <2>6, <3>1, <3>2
    <3>4. CASE k > 0
      <4>1. v[m + k] = p[k]
        <5>1. v[m + k] = u[m + k]
          BY <2>3, <2>6, <3>1, <3>4
        <5>2. u[m + k] = p[k]
          BY <1>1, <2>3, <2>5, <3>4
        <5> QED
          BY <5>1, <5>2
      <4>2. w[k] = p[k]
        BY <2>3, <3>2, <3>4
      <4> QED
        <5>1. (m + k) + 1 > 1 /\ k + 1 > 1 /\ ((m + k) + 1) - 1 = m + k /\ (k + 1) - 1 = k
          BY <3>4
        <5>2. Paired(v, (m + k) + 1) <=> (p[k] = "cr" /\ x = "lf")
          BY <3>3, <4>1, <5>1 DEF Paired
        <5>3. Paired(w, k + 1) <=> (p[k] = "cr" /\ x = "lf")
          BY <3>3, <4>2, <5>1 DEF Paired
        <5> QED
          BY <3>1, <3>2, <5>2, <5>3
    <3>5. CASE k = 0
      <4>1. ~Paired(w, k + 1)
        BY <3>5 DEF Paired
      <4>2. ~Paired(v, m + 1)
        <5>1. v[m + 1] = (c \o d)[m + 1]
          BY <1>1, <1>3, <2>2, <3>3, <3>5
        <5>2. m > 0 => v[m] = c[m] /\ (c \o d)[m] = c[m]
          <6>1. m > 0 => v[m] = u[m]
            BY <2>3, <2>6, <3>1, <3>5
          <6>2. m > 0 => u[m] = c[m] /\ (c \o d)[m] = c[m]
            BY <1>1, <2>3, <2>5
          <6> QED
            BY <6>1, <6>2
        <5>3. m + 1 > 1 <=> m > 0
          OBVIOUS
        <5>4. (m + 1) - 1 = m
          OBVIOUS
        <5>5. ~Paired(c \o d, m + 1)
          BY <1>1
        <5> QED
          BY <5>1, <5>2, <5>3, <5>4, <5>5 DEF Paired
      <4>3. (m + k) + 1 = m + 1
        BY <3>5
      <4> QED
        BY <3>1, <3>2, <4>1, <4>2, <4>3
    <3> QED
      BY <3>4, <3>5
  <2>8. LineFeed(x) \in Plain
    BY <2>3 DEF LineFeed, Plain, Cells
  <2> HIDE DEF part
  <2>9. Normal(part(k + 1)) = IF Paired(Append(p, x), k + 1) THEN Normal(p) ELSE Append(Normal(p), LineFeed(x))
    BY <2>3, NormalAppend
  <2>10. Normal(c \o part(k + 1)) = IF Paired(Append(p, x), k + 1) THEN Normal(u) ELSE Append(Normal(u), LineFeed(x))
    BY <2>3, <2>6, <2>7, NormalAppend
  <2>11. Normal(part(k + 1)) \in Seq(Plain)
    <3>1. PICK g \in Seq(Plain), y \in Plain : g = Normal(p) /\ y = LineFeed(x)
      BY <2>4, <2>8
    <3>2. Append(g, y) \in Seq(Plain)
      OBVIOUS
    <3> QED
      BY <2>9, <3>1, <3>2
  <2>12. ASSUME Normal(c) \in Seq(Plain) PROVE Normal(c \o part(k + 1)) = Normal(c) \o Normal(part(k + 1))
    <3>1. Normal(u) = Normal(c) \o Normal(p)
      BY <2>4, <2>5, <2>12
    <3>2. CASE Paired(Append(p, x), k + 1)
      BY <2>9, <2>10, <3>1, <3>2
    <3>3. CASE ~Paired(Append(p, x), k + 1)
      <4>1. PICK f \in Seq(Plain), g \in Seq(Plain), y \in Plain : f = Normal(c) /\ g = Normal(p) /\ y = LineFeed(x)
        BY <2>4, <2>8, <2>12
      <4>2. f \o Append(g, y) = Append(f \o g, y)
        BY <1>a
      <4> QED
        BY <2>9, <2>10, <3>1, <3>3, <4>1, <4>2
    <3> QED
      BY <3>2, <3>3
  <2> QED
    BY <2>11, <2>12
<1> HIDE DEF Joins
<1>4. 0 \in S /\ S \in SUBSET Nat
  BY <1>2
<1>5. ASSUME NEW k \in S PROVE k + 1 \in S
  <2>1. k + 1 <= n => k <= n
    BY <1>1
  <2> QED
    BY <1>3, <1>5, <2>1
<1> HIDE DEF S
<1>6. S = Nat
  BY <1>4, <1>5, SetInduction
<1>7. Joins(n)
  BY <1>1, <1>6 DEF S
<1>8. part(n) = d
  BY <1>1
<1> HIDE DEF part
<1> QED
  BY <1>7, <1>8 DEF Joins

\* Every text has its line ends made the same.
LEMMA NormalTyped == ASSUME NEW d \in Seq(Cells) PROVE Normal(d) \in Seq(Plain)
<1>1. PICK c : c = <<>>
  OBVIOUS
<1>2. c \in Seq(Cells) /\ Len(c) = 0
  BY <1>1
<1>3. ~Paired(c \o d, Len(c) + 1)
  BY <1>2 DEF Paired
<1> QED
  BY <1>2, <1>3, NormalJoins

\* A text without a carriage return stays as it is.
LEMMA NormalPlain == ASSUME NEW c \in Seq(Plain) PROVE Normal(c) = c
<1>1. PICK n \in Nat : n = Len(c)
  OBVIOUS
<1> DEFINE part(k) == SubSeq(c, 1, k)
           Same(k) == Normal(part(k)) = part(k)
           S == {k \in Nat : k <= n => Same(k)}
<1>2. Same(0)
  <2>1. part(0) = <<>>
    OBVIOUS
  <2> QED
    BY <2>1, NormalEmpty
<1>3. ASSUME NEW k \in Nat, k + 1 <= n, Same(k) PROVE Same(k + 1)
  <2>1. PICK p : p = part(k)
    OBVIOUS
  <2>2. PICK x : x = c[k + 1]
    OBVIOUS
  <2>3. p \in Seq(Plain) /\ Len(p) = k /\ x \in Plain /\ part(k + 1) = Append(p, x)
    BY <1>1, <1>3, <2>1, <2>2, OneMoreCell
  <2>4. Normal(p) = p
    BY <1>3, <2>1
  <2>5. p \in Seq(Cells) /\ x \in Cells /\ LineFeed(x) = x
    <3>1. \A i \in 1..Len(p) : p[i] \in Cells
      BY <2>3 DEF Plain
    <3>2. x \in Cells /\ x # "cr"
      BY <2>3 DEF Plain
    <3> HIDE DEF Cells
    <3> QED
      BY <2>3, <3>1, <3>2 DEF LineFeed
  <2>6. ~Paired(Append(p, x), k + 1)
    <3>1. CASE k > 0
      <4>1. Append(p, x)[(k + 1) - 1] = p[k] /\ p[k] \in Plain
        BY <2>3, <3>1
      <4> QED
        BY <4>1 DEF Paired, Plain
    <3>2. CASE k = 0
      BY <3>2 DEF Paired
    <3> QED
      BY <3>1, <3>2
  <2> HIDE DEF part
  <2> QED
    BY <2>3, <2>4, <2>5, <2>6, NormalAppend
<1> HIDE DEF Same
<1>4. 0 \in S /\ S \in SUBSET Nat
  BY <1>2
<1>5. ASSUME NEW k \in S PROVE k + 1 \in S
  <2>1. k + 1 <= n => k <= n
    BY <1>1
  <2> QED
    BY <1>3, <1>5, <2>1
<1> HIDE DEF S
<1>6. S = Nat
  BY <1>4, <1>5, SetInduction
<1>7. Same(n)
  BY <1>1, <1>6 DEF S
<1>8. part(n) = c
  BY <1>1
<1> HIDE DEF part
<1> QED
  BY <1>7, <1>8 DEF Same

\* A text and a longer one that begins with it.
Begins(text, longer) ==
    /\ text \in Seq(Cells) /\ longer \in Seq(Cells) /\ Len(text) <= Len(longer)
    /\ \A i \in 1..Len(text) : longer[i] = text[i]

\* What the longer one says up to a place in the shorter is what the shorter says there.
LEMMA SameBeginning ==
    ASSUME NEW text, NEW longer, Begins(text, longer), NEW e \in 0..Len(text)
    PROVE  WholeFrames(longer, e) = WholeFrames(text, e) /\ FieldsAt(longer, e) = FieldsAt(text, e)
<1>1. PICK n \in Nat, m \in Nat : n = Len(text) /\ m = Len(longer) /\ n <= m
  BY DEF Begins
<1>2. /\ text \in Seq(Cells) /\ longer \in Seq(Cells) /\ e \in 0..n /\ e \in 0..m
      /\ \A i \in 1..n : longer[i] = text[i]
  BY <1>1 DEF Begins
<1>3. ASSUME NEW y \in 0..n PROVE EndsTo(longer, y) = EndsTo(text, y)
  <2>1. \A i \in 1..y : longer[i] = text[i]
    BY <1>2
  <2> QED
    BY <2>1 DEF EndsTo
<1>4. ASSUME NEW i \in 1..n PROVE LineBefore(longer, i) = LineBefore(text, i)
  <2>1. i - 1 \in 0..n /\ i - 1 \in Nat /\ i - 1 \in 0..Len(text)
    BY <1>1
  <2>2. PICK T : T = {0} \cup EndsTo(text, i - 1)
    OBVIOUS
  <2>3. T = {0} \cup EndsTo(longer, i - 1)
    BY <1>3, <2>1, <2>2
  <2>4. EndsTo(text, i - 1) \in SUBSET (1..i - 1) /\ IsFiniteSet(EndsTo(text, i - 1))
    BY <1>2, <2>1, EndsFacts
  <2>5. IsFiniteSet(T)
    BY <2>2, <2>4, FS_Singleton, FS_Union
  <2>6. T \in SUBSET Int /\ T # {} /\ T \in SUBSET (0..i - 1)
    BY <2>1, <2>2, <2>4
  <2>7. PICK a : a = Max(T)
    OBVIOUS
  <2>8. a \in 0..i - 1 /\ a \in Nat /\ a <= i - 1 /\ i - 1 <= n
    <3>1. a \in T
      BY <2>5, <2>6, <2>7, MaxFacts
    <3>2. a \in 0..i - 1
      BY <2>6, <3>1
    <3>3. i - 1 <= n
      OBVIOUS
    <3> QED
      BY <2>1, <3>2, <3>3
  <2>9. PICK b \in Nat : b = i - 1
    BY <2>1
  <2>10. PICK p : p = SubSeq(text, a + 1, b)
    OBVIOUS
  <2>11. PICK q : q = SubSeq(longer, a + 1, b)
    OBVIOUS
  <2>12. p \in Seq(Cells) /\ DOMAIN p = 1..b - a /\ \A k \in 1..b - a : p[k] = text[a + k]
    BY <1>1, <1>2, <2>8, <2>9, <2>10, Within
  <2>13. q \in Seq(Cells) /\ DOMAIN q = 1..b - a /\ \A k \in 1..b - a : q[k] = longer[a + k]
    <3>1. b <= m /\ a <= b
      BY <1>1, <2>8, <2>9
    <3> QED
      BY <1>1, <1>2, <2>8, <2>9, <2>11, <3>1, Within
  <2>14. \A k \in 1..b - a : a + k \in 1..n
    BY <1>1, <2>8, <2>9
  <2>15. \A k \in 1..b - a : p[k] = q[k]
    BY <1>2, <2>12, <2>13, <2>14
  <2> HIDE DEF Cells
  <2>16. p = [k \in 1..b - a |-> p[k]] /\ q = [k \in 1..b - a |-> q[k]]
    BY <2>12, <2>13
  <2>17. p = q
    BY <2>15, <2>16
  <2> QED
    BY <2>2, <2>3, <2>7, <2>9, <2>10, <2>11, <2>17 DEF LineBefore
<1>5. ASSUME NEW y \in 0..n PROVE BlankTo(longer, y) = BlankTo(text, y)
  <2>1. EndsTo(text, y) \in SUBSET (1..y)
    BY DEF EndsTo
  <2>2. \A i \in EndsTo(text, y) : LineBefore(longer, i) = LineBefore(text, i)
    BY <1>4, <2>1
  <2> QED
    BY <1>3, <2>2 DEF BlankTo
<1>6. ASSUME NEW b \in 1..n + 1
      PROVE  FieldsOf(longer, b) = FieldsOf(text, b) /\ FrameOf(longer, b) = FrameOf(text, b)
  <2>1. b - 1 \in 0..n
    OBVIOUS
  <2>2. PICK B : B = BlockOf(text, b)
    OBVIOUS
  <2>3. B = BlockOf(longer, b)
    BY <1>3, <1>5, <2>1, <2>2 DEF BlockOf
  <2>4. B \in SUBSET (1..b - 1) /\ B \in SUBSET Int /\ IsFiniteSet(B)
    <3>1. B \in SUBSET (1..b - 1)
      BY <2>2 DEF BlockOf, EndsTo
    <3> QED
      BY <2>1, <3>1, PlacesFinite
  <2>5. \A i \in B : LineBefore(longer, i) = LineBefore(text, i)
    BY <1>4, <2>4
  <2>6. PICK N : N = Naming(text, b)
    OBVIOUS
  <2>7. PICK C : C = Carrying(text, b)
    OBVIOUS
  <2>8. N = Naming(longer, b) /\ C = Carrying(longer, b) /\ FieldsOf(longer, b) = FieldsOf(text, b)
    <3>1. N = Naming(longer, b)
      <4>1. N = {i \in B : LineBefore(text, i)[1] = "name"}
        BY <2>2, <2>6 DEF Naming
      <4>2. Naming(longer, b) = {i \in B : LineBefore(longer, i)[1] = "name"}
        BY <2>3 DEF Naming
      <4> QED
        BY <2>5, <4>1, <4>2
    <3>2. C = Carrying(longer, b)
      <4>1. C = {i \in B : LineBefore(text, i)[1] = "value"}
        BY <2>2, <2>7 DEF Carrying
      <4>2. Carrying(longer, b) = {i \in B : LineBefore(longer, i)[1] = "value"}
        BY <2>3 DEF Carrying
      <4> QED
        BY <2>5, <4>1, <4>2
    <3>3. FieldsOf(longer, b) = FieldsOf(text, b)
      BY <2>2, <2>3, <2>5 DEF FieldsOf
    <3> QED
      BY <3>1, <3>2, <3>3
  <2>9. N \in SUBSET B /\ C \in SUBSET B
    BY <2>2, <2>6, <2>7 DEF Naming, Carrying
  <2>10. IsFiniteSet(N) /\ N \in SUBSET Int /\ IsFiniteSet(C) /\ C \in SUBSET Int
    BY <2>4, <2>9, FS_Subset
  <2>11. FrameOf(longer, b).event = FrameOf(text, b).event
    <3>1. PICK a : a = Max(N)
      OBVIOUS
    <3>2. N # {} => a \in B
      BY <2>9, <2>10, <3>1, MaxFacts
    <3>3. FrameOf(text, b).event = IF N = {} THEN <<>> ELSE Tail(LineBefore(text, a))
      BY <2>6, <3>1 DEF FrameOf
    <3>4. FrameOf(longer, b).event = IF N = {} THEN <<>> ELSE Tail(LineBefore(longer, a))
      BY <2>8, <3>1 DEF FrameOf
    <3> QED
      BY <2>5, <3>2, <3>3, <3>4
  <2>12. FrameOf(longer, b).data = FrameOf(text, b).data
    <3>1. PICK s : s = Sorted(C, Ascending(C))
      OBVIOUS
    <3>2. s \in Seq(C)
      BY <2>10, <3>1, AscendingTotal, SortedFacts
    <3>3. \A k \in DOMAIN s : LineBefore(longer, s[k]) = LineBefore(text, s[k])
      BY <2>5, <2>9, <3>2
    <3>4. FrameOf(text, b).data = [k \in DOMAIN s |-> Tail(LineBefore(text, s[k]))]
      BY <2>7, <3>1 DEF FrameOf
    <3>5. FrameOf(longer, b).data = [k \in DOMAIN s |-> Tail(LineBefore(longer, s[k]))]
      BY <2>8, <3>1 DEF FrameOf
    <3> QED
      BY <3>3, <3>4, <3>5
  <2>13. /\ FrameOf(text, b) = [event |-> FrameOf(text, b).event, data |-> FrameOf(text, b).data]
         /\ FrameOf(longer, b) = [event |-> FrameOf(longer, b).event, data |-> FrameOf(longer, b).data]
    BY DEF FrameOf
  <2>14. FrameOf(longer, b) = FrameOf(text, b)
    BY <2>11, <2>12, <2>13, Zenon
  <2> QED
    BY <2>8, <2>14
<1>7. WholeFrames(longer, e) = WholeFrames(text, e)
  <2>1. PICK T : T = FrameEnds(text, e)
    OBVIOUS
  <2>2. T \in SUBSET (1..e)
    BY <2>1 DEF FrameEnds, BlankTo, EndsTo
  <2>3. BlankTo(text, e) \in SUBSET (1..n + 1)
    BY <1>2 DEF BlankTo, EndsTo
  <2>4. T = FrameEnds(longer, e)
    BY <1>2, <1>5, <1>6, <2>1, <2>3 DEF FrameEnds
  <2>5. PICK s : s = Sorted(T, Ascending(T))
    OBVIOUS
  <2>6. s \in Seq(T)
    <3>1. e \in Nat
      BY <1>2
    <3>2. IsFiniteSet(T) /\ T \in SUBSET Int
      BY <2>2, <3>1, PlacesFinite
    <3> QED
      BY <2>5, <3>2, AscendingTotal, SortedFacts
  <2>7. \A k \in DOMAIN s : s[k] \in 1..n + 1
    BY <1>2, <2>2, <2>6
  <2>8. \A k \in DOMAIN s : FrameOf(longer, s[k]) = FrameOf(text, s[k])
    BY <1>6, <2>7
  <2>9. WholeFrames(text, e) = [k \in DOMAIN s |-> FrameOf(text, s[k])]
    BY <2>1, <2>5 DEF WholeFrames
  <2>10. WholeFrames(longer, e) = [k \in DOMAIN s |-> FrameOf(longer, s[k])]
    BY <2>4, <2>5 DEF WholeFrames
  <2> QED
    BY <2>8, <2>9, <2>10
<1>8. FieldsAt(longer, e) = FieldsAt(text, e)
  <2>1. e + 1 \in 1..n + 1
    BY <1>2
  <2>2. FieldsOf(longer, e + 1) = FieldsOf(text, e + 1) /\ FrameOf(longer, e + 1) = FrameOf(text, e + 1)
    BY <1>6, <2>1
  <2> QED
    BY <2>2 DEF FieldsAt
<1> QED
  BY <1>7, <1>8

(* The inductive invariant: the text is what the chunks gave, which is what the wire says if no
   chunk ended within a pair; a reader that is not over has handled every line of the text that
   is whole, and one that is over has made at most one frame more than the text's. *)
SseInv ==
    /\ wire \in Seq(Cells) /\ received.read \in 0..Len(wire) /\ received.cut \in BOOLEAN
    /\ received.text \in Seq(Plain) /\ (~received.cut => received.text = SpecText)
    /\ reader \in States
    /\ ~reader.over => reader \in Readers(received.text, Len(received.text)) /\ EndsIn(reader.buffer) = {}
    /\ reader.over => /\ reader.buffer = <<>>
                      /\ \E last \in Seq(Frames) : reader.frames = WholeFrames(received.text, Len(received.text)) \o last

\* A text whose line ends are the same is a text.
LEMMA PlainText == ASSUME NEW t \in Seq(Plain) PROVE t \in Seq(Cells)
<1>1. \A i \in 1..Len(t) : t[i] \in Cells
  BY DEF Plain
<1> HIDE DEF Cells
<1> QED
  BY <1>1

\* A fresh reader has handled nothing of any text.
LEMMA SseInitInv == SseInit => SseInv
<1> SUFFICES ASSUME SseInit PROVE SseInv
  OBVIOUS
<1>1. /\ wire \in Seq(Cells) /\ reader = Fresh
      /\ received.read = 0 /\ received.text = <<>> /\ received.cut = FALSE
  BY WiresAssumption DEF SseInit, WiresAssumption
<1>2. PICK text : text = <<>>
  OBVIOUS
<1>3. text \in Seq(Cells) /\ text \in Seq(Plain) /\ Len(text) = 0 /\ 0 \in 0..Len(text)
  BY <1>2
<1>4. SpecText = <<>>
  <2>1. SubSeq(wire, 1, 0) = <<>>
    BY <1>1
  <2> QED
    BY <1>1, <2>1, NormalEmpty DEF SpecText
<1>5. EndsTo(text, 0) = {}
  BY DEF EndsTo
<1>6. BlankTo(text, 0) = {} /\ FrameEnds(text, 0) = {} /\ BlockOf(text, 0 + 1) = {}
  BY <1>5 DEF BlankTo, FrameEnds, BlockOf
<1>7. WholeFrames(text, 0) = <<>>
  <2>1. WholeFrames(text, 0) \in Seq(Frames) /\ Len(WholeFrames(text, 0)) <= 0
    BY <1>3, WholeTyped
  <2> QED
    BY <2>1
<1>8. FieldsAt(text, 0) = NoFrame
  <2>1. FieldsOf(text, 0 + 1) = {} /\ FrameOf(text, 0 + 1) = [event |-> <<>>, data |-> <<>>]
    BY <1>6, NoFields
  <2>2. (FieldsOf(text, 0 + 1) # {}) = FALSE
    BY <2>1
  <2>3. FrameOf(text, 0 + 1).event = <<>> /\ FrameOf(text, 0 + 1).data = <<>>
    BY <2>1
  <2> QED
    BY <2>2, <2>3, Zenon DEF FieldsAt, NoFrame
<1>9. <<>> = SubSeq(text, 0 + 1, 0)
  BY <1>3
<1>10. reader.buffer = <<>> /\ reader.fields = NoFrame /\ reader.frames = <<>> /\ ~reader.over
  BY <1>1 DEF Fresh
<1>11. Right(text, reader, 0, 0)
  BY <1>7, <1>8, <1>9, <1>10 DEF Right
<1>12. reader \in States
  <2>1. NoFrame \in FieldSets
    BY <1>3, <1>8, FieldsTyped
  <2>2. Fresh \in States
    BY <2>1 DEF Fresh, States
  <2> QED
    BY <1>1, <2>2
<1>13. reader \in Readers(text, 0)
  BY <1>11, <1>12 DEF Readers
<1>14. EndsIn(<<>>) = {}
  BY DEF EndsIn
<1>15. received.read \in 0..Len(wire) /\ received.cut \in BOOLEAN
  <2>1. PICK k \in Nat : k = Len(wire)
    BY <1>1
  <2>2. 0 \in 0..k /\ FALSE \in BOOLEAN
    OBVIOUS
  <2> QED
    BY <1>1, <2>1, <2>2
<1> QED
  BY <1>1, <1>2, <1>3, <1>4, <1>10, <1>12, <1>13, <1>14, <1>15 DEF SseInv

\* What a chunk adds to the text; and what is left in the buffer comes before it unchanged.
LEMMA HearStep ==
    ASSUME SseInv, NEW n \in 1..Len(wire), Hear(n), wire' = wire
    PROVE  /\ received'.text = received.text \o Normal(Coming(n)) /\ Normal(Coming(n)) \in Seq(Plain)
           /\ received'.read \in 0..Len(wire) /\ received'.cut \in BOOLEAN
           /\ received'.text \in Seq(Plain) /\ (~received'.cut => received'.text = SpecText')
           /\ \A left \in Seq(Plain) : Normal(left \o Coming(n)) = left \o Normal(Coming(n))
<1>1. /\ wire \in Seq(Cells) /\ received.read \in 0..Len(wire) /\ received.cut \in BOOLEAN
      /\ received.text \in Seq(Plain) /\ (~received.cut => received.text = SpecText)
  BY DEF SseInv
<1>2. PICK m \in Nat : m = received.read /\ m <= Len(wire)
  BY <1>1
<1>3. PICK p \in Nat : p = m + n /\ p <= Len(wire) /\ m <= p /\ n \in Nat
  BY <1>1, <1>2 DEF Hear
<1>4. PICK d : d = Coming(n)
  OBVIOUS
<1>5. /\ d = SubSeq(wire, m + 1, p) /\ d \in Seq(Cells) /\ Len(d) = p - m
      /\ \A i \in 1..p - m : d[i] = wire[m + i]
  <2>1. d = SubSeq(wire, m + 1, p)
    BY <1>2, <1>3, <1>4 DEF Coming
  <2>2. wire \in Seq(Cells) /\ m <= p /\ p <= Len(wire)
    BY <1>1, <1>3
  <2>3. PICK w \in Seq(Cells) : w = wire
    BY <2>2
  <2>4. /\ SubSeq(w, m + 1, p) \in Seq(Cells) /\ Len(SubSeq(w, m + 1, p)) = p - m
        /\ \A i \in 1..p - m : SubSeq(w, m + 1, p)[i] = w[m + i]
    BY <2>2, <2>3, Within
  <2> QED
    BY <2>1, <2>3, <2>4
<1>6. received'.read = p /\ received'.text = received.text \o Normal(d) /\ received'.cut = (received.cut \/ Paired(wire, m + 1))
  BY <1>2, <1>3, <1>4 DEF Hear
<1>7. Normal(d) \in Seq(Plain)
  BY <1>5, NormalTyped
<1>8. received'.text \in Seq(Plain)
  BY <1>1, <1>6, <1>7
<1>9. ASSUME ~received'.cut PROVE received'.text = SpecText'
  <2>1. ~received.cut /\ ~Paired(wire, m + 1)
    BY <1>6, <1>9
  <2>2. PICK c : c = SubSeq(wire, 1, m)
    OBVIOUS
  <2>3. c \in Seq(Cells) /\ Len(c) = m /\ DOMAIN c = 1..m /\ \A i \in 1..m : c[i] = wire[i]
    BY <1>1, <1>2, <2>2
  <2>4. PICK w : w = c \o d
    OBVIOUS
  <2>5. w \in Seq(Cells) /\ DOMAIN w = 1..m + (p - m) /\ (\A i \in 1..m : w[i] = c[i])
        /\ \A i \in m + 1..m + (p - m) : w[i] = d[i - m]
    <3>1. PICK k : k = p - m
      OBVIOUS
    <3>2. Len(c) = m /\ Len(d) = k /\ c \in Seq(Cells) /\ d \in Seq(Cells)
      BY <1>5, <2>3, <3>1
    <3>3. w \in Seq(Cells) /\ DOMAIN w = 1..m + k /\ (\A i \in 1..m : w[i] = c[i])
          /\ \A i \in m + 1..m + k : w[i] = d[i - m]
      BY <2>4, <3>2, TextGrows
    <3> QED
      BY <3>1, <3>3
  <2>6. m + (p - m) = p
    BY <1>3
  <2>7. ASSUME NEW i \in 1..p PROVE w[i] = wire[i]
    <3>1. CASE i \in 1..m
      BY <2>3, <2>5, <3>1
    <3>2. CASE i \in m + 1..p
      <4>1. i - m \in 1..p - m /\ m + (i - m) = i
        BY <1>3, <3>2
      <4> QED
        BY <1>5, <2>5, <2>6, <3>2, <4>1
    <3> QED
      BY <1>2, <3>1, <3>2
  <2>8. w = SubSeq(wire, 1, p)
    <3>1. PICK v : v = SubSeq(wire, 1, p)
      OBVIOUS
    <3>2. v \in Seq(Cells) /\ DOMAIN v = 1..p /\ \A i \in 1..p : v[i] = wire[i]
      BY <1>1, <1>3, <3>1
    <3> HIDE DEF Cells
    <3>3. v = [i \in 1..p |-> v[i]] /\ w = [i \in 1..p |-> w[i]]
      BY <2>5, <2>6, <3>2
    <3>4. \A i \in 1..p : v[i] = w[i]
      BY <2>7, <3>2
    <3>5. v = w
      BY <3>3, <3>4
    <3> QED
      BY <3>1, <3>5
  <2>9. ~Paired(w, m + 1)
    <3>1. m + 1 \in 1..p /\ (m > 0 => m \in 1..p) /\ (m + 1) - 1 = m /\ (m + 1 > 1 <=> m > 0)
      BY <1>3
    <3>2. w[m + 1] = wire[m + 1] /\ (m > 0 => w[m] = wire[m])
      BY <2>7, <3>1
    <3> QED
      BY <2>1, <3>1, <3>2 DEF Paired
  <2>10. Normal(c) = received.text
    BY <1>1, <1>2, <2>1, <2>2 DEF SpecText
  <2>11. Normal(w) = Normal(c) \o Normal(d)
    BY <1>1, <1>5, <2>3, <2>4, <2>9, <2>10, NormalJoins
  <2>12. SpecText' = Normal(w)
    BY <1>6, <2>8 DEF SpecText
  <2> QED
    BY <1>6, <2>10, <2>11, <2>12
<1>10. ASSUME NEW left \in Seq(Plain) PROVE Normal(left \o d) = left \o Normal(d)
  <2>1. Normal(left) = left /\ left \in Seq(Cells)
    BY NormalPlain, PlainText
  <2>2. PICK k \in Nat : k = Len(left)
    OBVIOUS
  <2>3. PICK u : u = left \o d
    OBVIOUS
  <2>4. ~Paired(u, k + 1)
    <3>1. CASE k > 0
      <4>1. left[k] \in Plain
        BY <2>2, <3>1
      <4>2. u[k] = left[k]
        BY <1>5, <2>1, <2>2, <2>3, <3>1
      <4>3. (k + 1) - 1 = k /\ left[k] # "cr"
        BY <4>1 DEF Plain
      <4> QED
        BY <4>2, <4>3 DEF Paired
    <3>2. CASE k = 0
      BY <3>2 DEF Paired
    <3> QED
      BY <3>1, <3>2
  <2> QED
    BY <1>5, <2>1, <2>2, <2>3, <2>4, NormalJoins
<1>11. received'.read \in 0..Len(wire) /\ received'.cut \in BOOLEAN
  BY <1>1, <1>3, <1>6
<1> QED
  BY <1>4, <1>6, <1>7, <1>8, <1>9, <1>10, <1>11

\* A chunk, cut anywhere, moves the reader on line by line.
LEMMA PushStep == ASSUME SseInv, NEW n \in 1..Len(wire), Push(n) PROVE SseInv'
<1>1. /\ wire \in Seq(Cells) /\ received.text \in Seq(Plain) /\ reader \in States
      /\ reader \in Readers(received.text, Len(received.text))
  BY DEF SseInv, Push
<1>2. Hear(n) /\ wire' = wire
  BY DEF Push
<1>3. PICK d : d = Normal(Coming(n))
  OBVIOUS
<1>4. /\ received'.text = received.text \o d /\ d \in Seq(Plain)
      /\ received'.read \in 0..Len(wire) /\ received'.cut \in BOOLEAN
      /\ received'.text \in Seq(Plain) /\ (~received'.cut => received'.text = SpecText')
      /\ \A left \in Seq(Plain) : Normal(left \o Coming(n)) = left \o d
  BY <1>2, <1>3, HearStep
<1>5. PICK text \in Seq(Plain) : text = received.text
  BY <1>1
<1>6. PICK longer \in Seq(Plain) : longer = received'.text /\ longer = text \o d
  BY <1>4, <1>5
<1>7. text \in Seq(Cells) /\ longer \in Seq(Cells)
  BY PlainText
<1>8. PICK m \in Nat, p \in Nat : m = Len(text) /\ p = Len(longer) /\ m <= p
  BY <1>4, <1>6
<1>9. Begins(text, longer) /\ \A i \in 1..m : longer[i] = text[i]
  <2>1. \A i \in 1..Len(text) : longer[i] = text[i]
    BY <1>4, <1>6
  <2> QED
    BY <1>7, <1>8, <2>1 DEF Begins
<1>10. PICK e \in 0..m : Right(text, reader, e, m)
  BY <1>1, <1>5, <1>8 DEF Readers
<1>11. e \in Nat /\ e <= m /\ e \in 0..p
  BY <1>8
<1>12. PICK c : c = reader.buffer
  OBVIOUS
<1>13. c = SubSeq(text, e + 1, m) /\ c \in Seq(Plain) /\ DOMAIN c = 1..m - e
       /\ Len(c) = m - e /\ \A i \in 1..m - e : c[i] = text[e + i]
  <2>1. c = SubSeq(text, e + 1, m)
    BY <1>10, <1>12 DEF Right
  <2> QED
    BY <1>8, <1>11, <2>1, Within
<1>14. PICK b : b = Normal(c \o Coming(n))
  OBVIOUS
<1>15. b = c \o d
  BY <1>4, <1>13, <1>14
<1>16. b \in Seq(Cells) /\ b = SubSeq(longer, e + 1, p)
  <2>1. PICK w : w = SubSeq(longer, e + 1, p)
    OBVIOUS
  <2>2. w \in Seq(Plain) /\ DOMAIN w = 1..p - e /\ \A i \in 1..p - e : w[i] = longer[e + i]
    <3>1. e <= p
      BY <1>8, <1>11
    <3> QED
      BY <1>8, <1>11, <2>1, <3>1, Within
  <2>3. PICK j \in Nat, k \in Nat : j = m - e /\ k = Len(d) /\ j + k = p - e /\ m + k = p
    <3>1. PICK k \in Nat : k = Len(d)
      BY <1>4
    <3>2. p = m + k
      BY <1>4, <1>6, <1>8, <3>1
    <3>3. m - e \in Nat /\ (m - e) + k = p - e
      BY <1>8, <1>11, <3>2
    <3> QED
      BY <3>1, <3>2, <3>3
  <2>4. /\ b \in Seq(Plain) /\ DOMAIN b = 1..j + k
        /\ \A i \in 1..j : b[i] = c[i]
        /\ \A i \in j + 1..j + k : b[i] = d[i - j]
    <3>1. Len(c) = j /\ Len(d) = k /\ c \in Seq(Plain) /\ d \in Seq(Plain)
      BY <1>4, <1>13, <2>3
    <3> QED
      <4>1. /\ c \o d \in Seq(Plain) /\ DOMAIN (c \o d) = 1..Len(c) + Len(d)
            /\ \A i \in 1..Len(c) : (c \o d)[i] = c[i]
            /\ \A i \in Len(c) + 1..Len(c) + Len(d) : (c \o d)[i] = d[i - Len(c)]
        BY <3>1, TextGrows, Zenon
      <4> QED
        BY <1>15, <3>1, <4>1
  <2>5. \A i \in m + 1..m + k : longer[i] = d[i - m]
    BY <1>4, <1>6, <1>8, <2>3, TextGrows
  <2>6. ASSUME NEW i \in 1..j + k PROVE b[i] = w[i]
    <3>1. CASE i <= j
      <4>1. i \in 1..j /\ e + i \in 1..m
        BY <1>11, <2>3, <3>1
      <4> QED
        BY <1>9, <1>13, <2>2, <2>3, <2>4, <4>1, SMTT(25)
    <3>2. CASE i > j
      <4>1. i \in j + 1..j + k /\ e + i \in m + 1..m + k /\ (e + i) - m = i - j
        BY <1>11, <2>3, <3>2
      <4> QED
        <5>1. b[i] = d[i - j]
          BY <2>4, <4>1
        <5>2. longer[e + i] = d[(e + i) - m]
          BY <2>5, <4>1
        <5>3. w[i] = longer[e + i]
          BY <2>2, <2>3
        <5> QED
          BY <4>1, <5>1, <5>2, <5>3
    <3> QED
      BY <2>3, <3>1, <3>2
  <2>7. b = w
    <3>1. w = [i \in 1..j + k |-> w[i]] /\ b = [i \in 1..j + k |-> b[i]]
      BY <2>2, <2>3, <2>4
    <3> QED
      BY <2>6, <3>1
  <2> QED
    BY <2>1, <2>4, <2>7, PlainText
<1>17. PICK s : s = [reader EXCEPT !.buffer = b]
  OBVIOUS
<1>18. reader' = Drained(s)
  BY <1>12, <1>14, <1>17 DEF Push, States
<1>19. /\ s \in States /\ s.buffer = b /\ s.over = reader.over
       /\ s.fields = reader.fields /\ s.frames = reader.frames
  BY <1>1, <1>16, <1>17 DEF States
<1>20. s \in Readers(longer, p)
  <2>1. WholeFrames(longer, e) = WholeFrames(text, e) /\ FieldsAt(longer, e) = FieldsAt(text, e)
    BY <1>8, <1>9, SameBeginning
  <2>2. e = 0 \/ longer[e] = "lf"
    <3>1. e = 0 \/ (e \in 1..m /\ text[e] = "lf")
      BY <1>10, <1>11 DEF Right
    <3> QED
      BY <1>9, <3>1
  <2>3. Right(longer, s, e, p)
    BY <1>10, <1>11, <1>16, <1>19, <2>1, <2>2 DEF Right
  <2> QED
    BY <1>11, <1>19, <2>3 DEF Readers
<1>21. PICK t : t = Drained(s)
  OBVIOUS
<1>22. t \in Readers(longer, p) /\ EndsIn(t.buffer) = {}
  <2>1. p \in 0..Len(longer)
    BY <1>8
  <2> QED
    BY <1>7, <1>20, <1>21, <2>1, DrainedFacts
<1>23. t \in States /\ ~t.over
  BY <1>22 DEF Readers, Right
<1> QED
  BY <1>1, <1>2, <1>4, <1>6, <1>8, <1>18, <1>21, <1>22, <1>23 DEF SseInv

\* The last line, which no line end follows, makes no frame.
LEMMA LastLine ==
    ASSUME NEW state \in States, NEW line \in Seq(Cells), line # <<>>
    PROVE  WithLine(state, line) \in States /\ WithLine(state, line).frames = state.frames
           /\ WithLine(state, line).buffer = state.buffer
<1>1. Tail(line) \in Seq(Cells)
  OBVIOUS
<1>2. PICK f \in FieldSets : f = state.fields
  BY DEF States
<1>3. /\ f.event \in Seq(Cells) /\ f.data \in Seq(Seq(Cells)) /\ f.started \in BOOLEAN
  BY DEF FieldSets
<1>4. PICK after : after = WithLine(state, line)
  OBVIOUS
<1>5. after = CASE line[1] = "colon" -> state
         [] line[1] = "name"  -> [state EXCEPT !.fields.event = Tail(line), !.fields.started = TRUE]
         [] line[1] = "value" -> [state EXCEPT !.fields.data = Append(@, Tail(line)), !.fields.started = TRUE]
         [] OTHER             -> [state EXCEPT !.fields.started = TRUE]
  BY <1>4 DEF WithLine
<1>6. \E g \in FieldSets : after = [state EXCEPT !.fields = g]
  <2>1. CASE line[1] = "colon"
    <3>1. after = state
      BY <1>5, <2>1
    <3> QED
      BY <1>2, <3>1 DEF States
  <2>2. CASE line[1] = "name"
    <3>1. PICK g : g = [f EXCEPT !.event = Tail(line), !.started = TRUE]
      OBVIOUS
    <3>2. g = [event |-> Tail(line), data |-> f.data, started |-> TRUE]
      BY <3>1, EventSet
    <3>3. g \in FieldSets
      BY <1>1, <1>3, <3>2 DEF FieldSets
    <3>4. after = [state EXCEPT !.fields.event = Tail(line), !.fields.started = TRUE]
      BY <1>5, <2>2
    <3>5. after = [state EXCEPT !.fields = g]
      BY <1>2, <3>1, <3>4 DEF States
    <3> QED
      BY <3>3, <3>5
  <2>3. CASE line[1] = "value"
    <3>1. PICK g : g = [f EXCEPT !.data = Append(@, Tail(line)), !.started = TRUE]
      OBVIOUS
    <3>a. g = [f EXCEPT !.data = Append(f.data, Tail(line)), !.started = TRUE]
      BY <3>1
    <3>2. g = [event |-> f.event, data |-> Append(f.data, Tail(line)), started |-> TRUE]
      BY <3>a, DataSet
    <3>b. Append(f.data, Tail(line)) \in Seq(Seq(Cells))
      BY <1>1, <1>3
    <3>3. g \in FieldSets
      BY <1>3, <3>2, <3>b DEF FieldSets
    <3>4. after = [state EXCEPT !.fields.data = Append(@, Tail(line)), !.fields.started = TRUE]
      BY <1>5, <2>3
    <3>5. after = [state EXCEPT !.fields = g]
      BY <1>2, <3>1, <3>4 DEF States
    <3> QED
      BY <3>3, <3>5
  <2>4. CASE line[1] \notin {"colon", "name", "value"}
    <3>1. PICK g : g = [f EXCEPT !.started = TRUE]
      OBVIOUS
    <3>2. g = [event |-> f.event, data |-> f.data, started |-> TRUE]
      BY <3>1, StartedSet
    <3>3. g \in FieldSets
      BY <1>3, <3>2 DEF FieldSets
    <3>4. after = [state EXCEPT !.fields.started = TRUE]
      BY <1>5, <2>4
    <3>5. after = [state EXCEPT !.fields = g]
      BY <1>2, <3>1, <3>4 DEF States
    <3> QED
      BY <3>3, <3>5
  <2> QED
    BY <2>1, <2>2, <2>3, <2>4
<1> QED
  BY <1>4, <1>6 DEF States

\* A reader with no line end left has the frames of all it was given.
LEMMA AllHandled ==
    ASSUME NEW text, text \in Seq(Cells), NEW m \in 0..Len(text), NEW state \in Readers(text, m), EndsIn(state.buffer) = {}
    PROVE  state.frames = WholeFrames(text, m)
<1>1. PICK e \in 0..m : Right(text, state, e, m)
  BY DEF Readers
<1>2. e \in Nat /\ m \in Nat /\ e <= m /\ m <= Len(text)
  OBVIOUS
<1>3. PICK b : b = state.buffer
  OBVIOUS
<1>4. DOMAIN b = 1..m - e /\ \A i \in 1..m - e : b[i] = text[e + i]
  <2>1. b = SubSeq(text, e + 1, m)
    BY <1>1, <1>3 DEF Right
  <2> QED
    BY <1>2, <2>1, Within
<1>5. ASSUME NEW j \in e + 1..m PROVE text[j] # "lf"
  <2>1. j - e \in 1..m - e /\ e + (j - e) = j
    BY <1>2
  <2>2. b[j - e] # "lf"
    BY <1>3, <1>4, <2>1 DEF EndsIn
  <2> QED
    BY <1>4, <2>1, <2>2
<1>6. e \in 0..Len(text) /\ m \in e..Len(text)
  BY <1>2
<1>7. FrameEnds(text, m) = FrameEnds(text, e)
  BY <1>5, <1>6, NoEnds
<1>8. WholeFrames(text, m) = WholeFrames(text, e)
  BY <1>7 DEF WholeFrames
<1> QED
  BY <1>1, <1>8 DEF Right

\* The end of the stream adds at most one frame to the whole ones.
LEMMA FlushStep == ASSUME SseInv, Flush PROVE SseInv'
<1>1. /\ wire \in Seq(Cells) /\ received.read \in 0..Len(wire) /\ received.cut \in BOOLEAN
      /\ received.text \in Seq(Plain) /\ (~received.cut => received.text = SpecText)
      /\ reader \in States /\ reader \in Readers(received.text, Len(received.text)) /\ EndsIn(reader.buffer) = {}
  BY DEF SseInv, Flush
<1>2. PICK text \in Seq(Plain) : text = received.text
  BY <1>1
<1>3. PICK whole : whole = WholeFrames(text, Len(text))
  OBVIOUS
<1>4. reader.frames = whole /\ reader.buffer \in Seq(Cells) /\ reader.frames \in Seq(Frames)
  <2>1. text \in Seq(Cells) /\ Len(text) \in 0..Len(text)
    BY PlainText
  <2>2. reader.frames = whole
    BY <1>1, <1>2, <1>3, <2>1, AllHandled
  <2> QED
    BY <1>1, <2>2 DEF States
<1>5. PICK rest : rest = IF reader.buffer = <<>> THEN reader
                         ELSE WithLine([reader EXCEPT !.buffer = <<>>], reader.buffer)
  OBVIOUS
<1>6. reader' = [Dispatched(rest) EXCEPT !.over = TRUE] /\ wire' = wire /\ received' = received
  BY <1>5 DEF Flush
<1>7. rest \in States /\ rest.frames = reader.frames /\ rest.buffer = <<>>
  <2>1. CASE reader.buffer = <<>>
    BY <1>1, <1>5, <2>1
  <2>2. CASE reader.buffer # <<>>
    <3>1. PICK s : s = [reader EXCEPT !.buffer = <<>>]
      OBVIOUS
    <3>2. s \in States /\ s.frames = reader.frames /\ s.buffer = <<>>
      <4>1. <<>> \in Seq(Cells)
        OBVIOUS
      <4> HIDE DEF Cells
      <4> QED
        BY <1>1, <3>1, <4>1 DEF States
    <3> QED
      BY <1>4, <1>5, <2>2, <3>1, <3>2, LastLine
  <2> QED
    BY <2>1, <2>2
<1>8. PICK f \in FieldSets : f = rest.fields
  BY <1>7 DEF States
<1>9. PICK one : one = [event |-> f.event, data |-> f.data]
  OBVIOUS
<1>10. one \in Frames
  BY <1>9 DEF FieldSets, Frames
<1>11. NoFrame \in FieldSets
  <2>1. <<>> \in Seq(Cells) /\ <<>> \in Seq(Seq(Cells)) /\ FALSE \in BOOLEAN
    OBVIOUS
  <2> HIDE DEF Cells
  <2> QED
    BY <2>1 DEF NoFrame, FieldSets
<1>12. PICK t : t = [Dispatched(rest) EXCEPT !.over = TRUE]
  OBVIOUS
<1>13. t \in States /\ t.over /\ t.buffer = <<>> /\ \E last \in Seq(Frames) : t.frames = whole \o last
  <2>1. CASE f.started
    <3>1. Dispatched(rest) = [rest EXCEPT !.frames = Append(@, one), !.fields = NoFrame]
      BY <1>8, <1>9, <2>1 DEF Dispatched
    <3>2. t = [rest EXCEPT !.frames = Append(rest.frames, one), !.fields = NoFrame, !.over = TRUE]
      BY <1>7, <1>12, <3>1 DEF States
    <3>3. Append(rest.frames, one) \in Seq(Frames)
      BY <1>4, <1>7, <1>10
    <3>4. t \in States /\ t.over /\ t.buffer = <<>> /\ t.frames = Append(rest.frames, one)
      BY <1>7, <1>11, <3>2, <3>3 DEF States
    <3>5. t.frames = whole \o <<one>> /\ <<one>> \in Seq(Frames)
      <4>1. PICK fs \in Seq(Frames) : fs = whole /\ fs = rest.frames
        BY <1>4, <1>7
      <4>2. Append(fs, one) = fs \o <<one>> /\ <<one>> \in Seq(Frames)
        BY <1>10
      <4> QED
        BY <3>4, <4>1, <4>2
    <3> QED
      BY <3>4, <3>5
  <2>2. CASE ~f.started
    <3>1. Dispatched(rest) = [rest EXCEPT !.fields = NoFrame]
      BY <1>8, <2>2 DEF Dispatched
    <3>2. t = [rest EXCEPT !.fields = NoFrame, !.over = TRUE]
      BY <1>7, <1>12, <3>1 DEF States
    <3>3. t \in States /\ t.over /\ t.buffer = <<>> /\ t.frames = rest.frames
      BY <1>7, <1>11, <3>2 DEF States
    <3>4. t.frames = whole \o <<>> /\ <<>> \in Seq(Frames)
      BY <1>4, <1>7, <3>3
    <3> QED
      BY <3>3, <3>4
  <2> QED
    BY <1>8, <2>1, <2>2 DEF FieldSets
<1>14. SpecText' = SpecText
  BY <1>6 DEF SpecText
<1> QED
  BY <1>1, <1>2, <1>3, <1>6, <1>12, <1>13, <1>14 DEF SseInv

\* Every step keeps the invariant.
LEMMA SseNextInv == SseInv /\ [SseNext]_sseVars => SseInv'
<1> SUFFICES ASSUME SseInv, [SseNext]_sseVars PROVE SseInv'
  OBVIOUS
<1>1. CASE UNCHANGED sseVars
  <2>1. wire' = wire /\ received' = received /\ reader' = reader
    BY <1>1 DEF sseVars
  <2>2. SpecText' = SpecText
    BY <2>1 DEF SpecText
  <2> QED
    BY <2>1, <2>2 DEF SseInv
<1>2. ASSUME NEW n \in 1..Len(wire), Push(n) PROVE SseInv'
  BY <1>2, PushStep
<1>3. CASE Flush
  BY <1>3, FlushStep
<1> QED
  BY <1>1, <1>2, <1>3 DEF SseNext

\* The invariant gives what the reader promises.
LEMMA SseInvWhole == SseInv => FramesIgnoreChunking /\ SseTypeOK
<1> SUFFICES ASSUME SseInv PROVE FramesIgnoreChunking /\ SseTypeOK
  OBVIOUS
<1>1. /\ received.read \in 0..Len(wire) /\ received.text \in Seq(Plain) /\ received.cut \in BOOLEAN
      /\ reader \in States /\ (~received.cut => received.text = SpecText)
  BY DEF SseInv
<1>2. PICK text \in Seq(Plain) : text = received.text
  BY <1>1
<1>3. text \in Seq(Cells) /\ Len(text) \in Nat /\ Len(text) \in 0..Len(text)
  BY PlainText
<1>4. PICK w : w = WholeFrames(text, Len(text))
  OBVIOUS
<1>5. w \in Seq(Frames)
  BY <1>3, <1>4, WholeTyped
<1>6. text = IF received.cut THEN received.text ELSE SpecText
  BY <1>1, <1>2
<1>7. CASE ~reader.over
  <2>1. reader \in Readers(text, Len(text)) /\ EndsIn(reader.buffer) = {}
    BY <1>2, <1>7 DEF SseInv
  <2>2. reader.frames = w
    BY <1>3, <1>4, <2>1, AllHandled
  <2>3. FramesIgnoreChunking
    BY <1>4, <1>6, <1>7, <2>2 DEF FramesIgnoreChunking, Reads
  <2>4. reader.buffer \in Seq(Cells \ {"lf", "cr"})
    <3>1. PICK m \in Nat : m = Len(text)
      BY <1>3
    <3>2. PICK e \in 0..m : reader.buffer = SubSeq(text, e + 1, m)
      BY <2>1, <3>1 DEF Readers, Right
    <3>3. PICK b : b = reader.buffer
      OBVIOUS
    <3>4. b \in Seq(Plain) /\ DOMAIN b = 1..Len(b)
      <4>1. e \in Nat /\ e <= m
        BY <3>1
      <4>2. b \in Seq(Plain)
        BY <3>1, <3>2, <3>3, <4>1, Within
      <4> QED
        BY <4>2
    <3>5. \A i \in 1..Len(b) : b[i] \in Plain /\ b[i] # "lf"
      BY <2>1, <3>3, <3>4 DEF EndsIn
    <3>6. \A i \in 1..Len(b) : b[i] \in Cells \ {"lf", "cr"}
      BY <3>5 DEF Plain
    <3> HIDE DEF Cells
    <3> QED
      BY <3>3, <3>4, <3>6
  <2> QED
    BY <1>1, <2>3, <2>4 DEF SseTypeOK, Plain
<1>8. CASE reader.over
  <2>1. PICK last \in Seq(Frames) : reader.frames = w \o last
    BY <1>2, <1>4, <1>8 DEF SseInv
  <2>2. PICK j \in Nat, k \in Nat : j = Len(w) /\ k = Len(last)
    BY <1>5, <2>1
  <2>3. PICK t : t = w \o last
    OBVIOUS
  <2>4. t \in Seq(Frames) /\ Len(t) = j + k /\ \A i \in 1..j : t[i] = w[i]
    BY <1>5, <2>1, <2>2, <2>3
  <2>5. SubSeq(w, 1, j) = SubSeq(t, 1, j)
    <3>1. SubSeq(w, 1, j) = [i \in 1..j |-> w[i]]
      BY <1>5, <2>2
    <3>2. SubSeq(t, 1, j) = [i \in 1..j |-> t[i]]
      BY <2>2, <2>4
    <3> QED
      BY <2>4, <3>1, <3>2
  <2>6. IsPrefix(w, t)
    BY <2>2, <2>4, <2>5 DEF IsPrefix
  <2>7. FramesIgnoreChunking
    BY <1>4, <1>6, <1>8, <2>1, <2>3, <2>6 DEF FramesIgnoreChunking, Reads
  <2>8. reader.buffer = <<>> /\ <<>> \in Seq(Cells \ {"lf", "cr"})
    BY <1>8 DEF SseInv
  <2> QED
    BY <1>1, <2>7, <2>8 DEF SseTypeOK, Plain
<1> QED
  BY <1>7, <1>8

(* Unless a chunk ended within a pair, the reader has made the frames of what it read as the
   specification of event streams reads it, wherever the chunks were cut; if one did, those of
   the text with two line ends there; and at the end of the stream perhaps one for a block that
   was cut short (createSSEParser). *)
THEOREM FramesWhole == SseSpec => []FramesIgnoreChunking
<1>1. SseSpec => []SseInv
  BY SseInitInv, SseNextInv, PTL DEF SseSpec
<1> QED
  BY <1>1, SseInvWhole, PTL

(* The reader keeps no line end back, and no carriage return gets past it (createSSEParser). *)
THEOREM SseTypes == SseSpec => []SseTypeOK
<1>1. SseSpec => []SseInv
  BY SseInitInv, SseNextInv, PTL DEF SseSpec
<1> QED
  BY <1>1, SseInvWhole, PTL
=============================================================================
