-------------------------------- MODULE EvalRun --------------------------------
(***************************************************************************)
(* One evaluation of the golden set (services/eval): items are selected,   *)
(* asked of the pipeline at most Concurrency at a time, scored, averaged,  *)
(* held against the gate, compared with a baseline, reported and           *)
(* persisted, and an administrator reads the run by the id that POST       *)
(* /eval/runs gave.                                                        *)
(*                                                                         *)
(* Scores are whole numbers from 0 to Full. `quality' stands for the       *)
(* judged metrics, which only an answered item has.                        *)
(***************************************************************************)
EXTENDS Integers, Sequences, SequencesExt, FiniteSetsExt, Functions

CONSTANTS
    Golden,        \* the golden set, in order: [refusal, tool, documents, tenant]
    Limits,        \* the settings: [gate, aclLeak, refusal, quality, tool, recall, live]
    Concurrency,   \* eval_max_concurrency
    Baselines,     \* earlier runs: which items passed, which failed
    HardRefusal,   \* eval_hard_min_refusal_correct
    Full,
    WorstShown     \* eval_report_worst_items

\* What the settings and the loader of the golden set allow.
ASSUME EvalAssumption ==
    /\ Golden \in Seq([refusal : BOOLEAN, tool : BOOLEAN, documents : BOOLEAN, tenant : Nat])
    /\ Full \in Nat \ {0} /\ HardRefusal \in 0..Full /\ WorstShown \in Nat
    /\ Limits \subseteq [gate : BOOLEAN, live : BOOLEAN, aclLeak : 0..Full, refusal : 0..Full,
                         quality : 0..Full, tool : 0..Full, recall : 0..Full]

VARIABLES
    limits,        \* the settings of the run
    selection,     \* the golden items it runs, in order
    work,          \* what has become of each
    evalRun,       \* the phase, the aggregate and the verdict
    reports,     \* the reports, and whether the rows were committed
    view           \* what GET /eval/runs/{id} shows an administrator

evalVars == <<limits, selection, work, evalRun, reports, view>>

Unmeasured == -1
Metrics == {"acl_leak", "refusal_correct", "quality", "tool_correct", "retrieval_recall"}
NoScores == [m \in Metrics |-> Unmeasured]
Queued == [at |-> "queued", scores |-> NoScores, failures |-> {}]
NoRun == [phase |-> "items", aggregate |-> NoScores, failed |-> {}, leaked |-> {}, passed |-> FALSE]
NoReport == [worst |-> <<>>, regressed |-> {}, fixed |-> {}, stored |-> FALSE]

EvalTypeOK ==
    /\ limits \in Limits /\ selection \in Seq(ToSet(Golden))
    /\ \A i \in DOMAIN selection :
         /\ work[i].at \in {"queued", "running", "scored", "skipped"}
         /\ work[i].scores \in [Metrics -> Unmeasured..Full]
    /\ evalRun.phase \in {"items", "gather", "gate", "report", "persist", "over", "aborted"}
    /\ evalRun.failed \subseteq Metrics /\ evalRun.leaked \subseteq DOMAIN selection
    /\ view \in [status : {"unread", "missing", "shown"}, count : Nat, results : Nat]

\* The members of a finite set, those that are before others first.
InOrder(members, before(_, _)) ==
    CHOOSE order \in [1..Cardinality(members) -> members] :
        \A k, l \in DOMAIN order : k < l => before(order[k], order[l])

\* select_items: those of the wanted categories, in the order of the file.
Selected(wanted) == LET order == InOrder(wanted, <)
                    IN [k \in DOMAIN order |-> Golden[order[k]]]

EvalInit ==
    /\ limits \in Limits
    /\ \E wanted \in (SUBSET DOMAIN Golden) \ {{}} : selection = Selected(wanted)
    /\ work = [i \in DOMAIN selection |-> Queued]
    /\ evalRun = NoRun /\ reports = NoReport
    /\ view = [status |-> "unread", count |-> 0, results |-> 0]
-----------------------------------------------------------------------------
Running == {i \in DOMAIN selection : work[i].at = "running"}
Results == {i \in DOMAIN selection : work[i].at = "scored"}
Skipped == {i \in DOMAIN selection : work[i].at = "skipped"}

(* An item gets a place under the semaphore; one that needs a backend this deployment
   does not have is skipped, with no result at all. *)
BeginItem(i) ==
    /\ evalRun.phase = "items" /\ work[i].at = "queued" /\ Cardinality(Running) < Concurrency
    /\ work' = [work EXCEPT ![i].at = IF selection[i].tool /\ ~limits.live THEN "skipped" ELSE "running"]
    /\ UNCHANGED <<limits, selection, evalRun, reports, view>>

(* What a turn may come to: an exception or a timeout leaves an empty outcome, which has
   no answer, no chunks and no tool call. *)
EmptyOutcome == [answered |-> FALSE, refusing |-> FALSE, foreign |-> FALSE, canary |-> FALSE,
                 found |-> FALSE, called |-> FALSE]
Outcomes == {o \in [answered : {TRUE}, refusing : BOOLEAN, foreign : BOOLEAN, canary : BOOLEAN,
                    found : BOOLEAN, called : BOOLEAN] : o.refusing => ~o.canary /\ ~o.called}

\* acl_leak: a chunk the persona may not read, or a forbidden term in the answer.
LeakScore(outcome) == IF outcome.foreign \/ outcome.canary THEN 0 ELSE Full

\* refusal_correct: an empty answer counts as a refusal.
RefusalScore(item, outcome) ==
    IF (~outcome.answered \/ outcome.refusing) = item.refusal THEN Full ELSE 0

\* tool_correct and retrieval_recall: not measured where the item expects nothing.
Expected(wanted, got) == IF ~wanted THEN Unmeasured ELSE IF got THEN Full ELSE 0

\* A judged metric: RAGAS's value when it has one, else the model's verdict, if any.
Judged(ragas, native) == IF ragas # Unmeasured THEN ragas ELSE native

ScoresOf(item, outcome, quality) ==
    [m \in Metrics |->
        CASE m = "acl_leak"         -> LeakScore(outcome)
          [] m = "refusal_correct"  -> RefusalScore(item, outcome)
          [] m = "tool_correct"     -> Expected(item.tool, outcome.called)
          [] m = "retrieval_recall" -> Expected(item.documents, outcome.found)
          [] m = "quality"          -> IF ~item.refusal /\ outcome.answered THEN quality ELSE Unmeasured]

\* As it would be if the configured tolerance replaced the floor that is built in.
LimitConfigured(m) ==
    CASE m = "acl_leak"         -> Full - limits.aclLeak
      [] m = "refusal_correct"  -> limits.refusal
      [] m = "quality"          -> limits.quality
      [] m = "tool_correct"     -> limits.tool
      [] m = "retrieval_recall" -> limits.recall

\* gate_thresholds: configuration may tighten a hard gate, never loosen it.
LimitOf(m) ==
    CASE m = "acl_leak"         -> Full
      [] m = "refusal_correct"  -> Max({limits.refusal, HardRefusal})
      [] m = "quality"          -> limits.quality
      [] m = "tool_correct"     -> limits.tool
      [] m = "retrieval_recall" -> limits.recall

\* _threshold_failures: the metrics of the item that are below their limits.
Below(item, scores) ==
    {m \in Metrics \ {"tool_correct", "retrieval_recall"} :
        scores[m] # Unmeasured /\ scores[m] < LimitOf(m) /\ (m = "quality" => ~item.refusal)}

ScoreItem(i, outcome, extra, quality) ==
    LET scores == ScoresOf(selection[i], outcome, quality)
        missed == {m \in Metrics \ {"quality"} : scores[m] # Unmeasured /\ scores[m] < Full}
    IN work' = [work EXCEPT ![i] = [at |-> "scored", scores |-> scores,
                                    failures |-> extra \cup missed \cup Below(selection[i], scores)]]

EndItem(i) ==
    /\ evalRun.phase = "items" /\ work[i].at = "running"
    /\ \/ \E outcome \in Outcomes, ragas, native \in {Unmeasured, 0, Full} :
            ScoreItem(i, outcome, {}, Judged(ragas, native))
       \/ \E why \in {"timeout", "error"} : ScoreItem(i, EmptyOutcome, {why}, Unmeasured)
    /\ UNCHANGED <<limits, selection, evalRun, reports, view>>

(* Scoring itself may fail: the embedder of semantic_similarity is down, or a module of the
   API is missing.  That is not the item's failure: the run ends with no report. *)
AbortRun(i) ==
    /\ evalRun.phase = "items" /\ work[i].at = "running"
    /\ evalRun' = [evalRun EXCEPT !.phase = "aborted"]
    /\ UNCHANGED <<limits, selection, work, reports, view>>

Gathered ==
    /\ evalRun.phase = "items" /\ Results \cup Skipped = DOMAIN selection
    /\ evalRun' = [evalRun EXCEPT !.phase = "gather"]
    /\ UNCHANGED <<limits, selection, work, reports, view>>
-----------------------------------------------------------------------------
Measured(m) == {i \in Results : work[i].scores[m] # Unmeasured}
Total(m) == SumFunctionOnSet([i \in Results |-> work[i].scores[m]], Measured(m))

\* compute_aggregate: each metric's mean over the items that have it, rounded down here.
Aggregate ==
    /\ evalRun.phase = "gather"
    /\ evalRun' = [evalRun EXCEPT !.phase = "gate", !.aggregate =
            [m \in Metrics |-> IF Measured(m) = {} THEN Unmeasured
                               ELSE Total(m) \div Cardinality(Measured(m))]]
    /\ UNCHANGED <<limits, selection, work, reports, view>>

\* _item_hard_failures: one leaking item fails the gate, whatever the mean is.
HardItems == {i \in Results : work[i].scores["acl_leak"] < Full}

\* evaluate_gate, apply_gate: a metric nothing measured holds.
Gate ==
    /\ evalRun.phase = "gate"
    /\ LET broken == {m \in Metrics : Measured(m) # {} /\ Total(m) < LimitOf(m) * Cardinality(Measured(m))}
       IN evalRun' = [evalRun EXCEPT !.phase = "report", !.failed = broken, !.leaked = HardItems,
                                     !.passed = (broken = {} /\ HardItems = {}) \/ ~limits.gate]
    /\ UNCHANGED <<limits, selection, work, reports, view>>

Passed(i) == work[i].failures = {}

\* _item_score: the mean of the scores the item's result has, in sixths.
ItemScore(i) ==
    LET measured == {m \in {"acl_leak", "refusal_correct", "quality"} : work[i].scores[m] # Unmeasured}
    IN SumFunctionOnSet(work[i].scores, measured) * (6 \div Cardinality(measured))

\* sorted, which keeps the order of equals.
Worse(i, j) ==
    \/ ~Passed(i) /\ Passed(j)
    \/ Passed(i) = Passed(j) /\ (ItemScore(i) < ItemScore(j) \/ (ItemScore(i) = ItemScore(j) /\ i < j))

\* worst_items: those that failed come first, then those with the lowest scores.
WorstFirst == LET order == InOrder(Results, Worse) IN SubSeq(order, 1, Min({WorstShown, Len(order)}))

\* compare_runs: an item is compared when both runs have a result for it.
Report(baseline) ==
    /\ evalRun.phase = "report"
    /\ reports' = [reports EXCEPT !.worst = WorstFirst,
                        !.regressed = {i \in Results : selection[i] \in baseline.passed /\ ~Passed(i)},
                        !.fixed = {i \in Results : selection[i] \in baseline.failed /\ Passed(i)}]
    /\ evalRun' = [evalRun EXCEPT !.phase = "persist"]
    /\ UNCHANGED <<limits, selection, work, view>>

\* _persist: the run and its results in one transaction; a failure is logged.
Persist ==
    /\ evalRun.phase = "persist"
    /\ \E committed \in BOOLEAN : reports' = [reports EXCEPT !.stored = committed]
    /\ evalRun' = [evalRun EXCEPT !.phase = "over"]
    /\ UNCHANGED <<limits, selection, work, view>>

(* get_run: 404 until the rows are there, and the results of the caller's tenant only, while
   the counts are those of the whole run. *)
ReadRun(tenant) ==
    /\ view.status # "shown"
    /\ view' = IF ~reports.stored THEN [view EXCEPT !.status = "missing"]
               ELSE [status |-> "shown", count |-> Cardinality(Results),
                     results |-> Cardinality({i \in Results : selection[i].tenant = tenant})]
    /\ UNCHANGED <<limits, selection, work, evalRun, reports>>

EvalNext ==
    \/ \E i \in DOMAIN selection : BeginItem(i) \/ EndItem(i) \/ AbortRun(i)
    \/ Gathered \/ Aggregate \/ Gate \/ Persist
    \/ \E baseline \in Baselines : Report(baseline)
    \/ \E item \in ToSet(Golden) : ReadRun(item.tenant)

EvalSpec == EvalInit /\ [][EvalNext]_evalVars
-----------------------------------------------------------------------------
(* A green gate is earned: with the gate on, it never passes a run in which one item leaked or
   in which fewer refusals than the built-in floor were right, however the limits are set and
   however many clean items the leaking one is averaged with; and every item that was selected
   is either a result or told to be skipped, with the failing ones first in the report. *)
GreenIsEarned ==
    evalRun.phase \in {"report", "persist", "over"} =>
      /\ evalRun.passed /\ limits.gate =>
           /\ \A i \in Results : work[i].scores["acl_leak"] = Full
           /\ Total("refusal_correct") >= HardRefusal * Cardinality(Results)
      /\ Results \cup Skipped = DOMAIN selection
      /\ \A k, l \in DOMAIN reports.worst :
           k < l /\ ~Passed(reports.worst[l]) => ~Passed(reports.worst[k])
=============================================================================
