------------------------------ MODULE QueryPlan ------------------------------
(***************************************************************************)
(* The plan a model makes of a question: query_transform.py. A text is a   *)
(* word, alone or in capitals, or blank; a time is a number, DayLength of  *)
(* them to a day, MonthLength to a month, YearLength to a year.            *)
(***************************************************************************)
EXTENDS Integers, Sequences, SequencesExt, FiniteSetsExt

CONSTANTS
    Words,        \* the words a text may be of
    Payloads,     \* what the model may answer: [rewritten, subs, hyde, foreign, from, to],
                  \* the bounds of the dates as [unit, n]
    OwnFilters,   \* the dates a caller may ask for: [from, to]
    DayLength, MonthLength, YearLength,
    MaxSubqueries,
    Abstract      \* the texts without a concrete token, or short ones

VARIABLES
    question,   \* the message, the settings and the caller's filter
    payload,    \* what the model answered
    plan,       \* TransformedQuery
    merged,     \* the filter of the search
    planning    \* what is done next

planVars == <<question, payload, plan, merged, planning>>

Blank == [word |-> "", capital |-> FALSE]
Texts == [word : Words, capital : BOOLEAN]
Folded(text) == text.word
Unbounded == [from |-> -1, to |-> -1]
Crossed(f) == f.from # -1 /\ f.to # -1 /\ f.from > f.to

Periods == [unit : {"none", "day", "slash", "month", "year"}, n : Nat]
Answers == [rewritten : Texts \cup {Blank}, subs : Seq(Texts \cup {Blank}), hyde : Texts \cup {Blank},
            foreign : BOOLEAN, from : Periods, to : Periods]
Ranges  == [from : Nat \cup {-1}, to : Nat \cup {-1}]

\* A caller's filter whose dates cross is refused before it gets here.
ASSUME PlanAssumption ==
    /\ MaxSubqueries \in Nat
    /\ {DayLength, MonthLength, YearLength} \subseteq Nat \ {0}
    /\ Payloads \subseteq Answers
    /\ \A f \in OwnFilters : f \in Ranges /\ ~Crossed(f)

NoPayload == [rewritten |-> Blank, subs |-> <<>>, hyde |-> Blank, foreign |-> FALSE,
              from |-> [unit |-> "none", n |-> 0], to |-> [unit |-> "none", n |-> 0]]

PlanInit ==
    /\ \E message \in Texts \cup {Blank}, on, rewrite, hyde \in BOOLEAN, own \in OwnFilters :
         question = [message |-> message, on |-> on, rewrite |-> rewrite, hyde |-> hyde, own |-> own]
    /\ payload = NoPayload
    /\ plan = [rewritten |-> Blank, subs |-> <<>>, hyde |-> Blank, retrieve |-> FALSE,
               foreign |-> FALSE, filter |-> Unbounded, degraded |-> FALSE]
    /\ merged = Unbounded /\ planning = "ask"
-----------------------------------------------------------------------------
\* As it would be if a plan that cannot be used still said what is out of the domain.
FallbackWithFlags ==
    [rewritten |-> question.message, subs |-> <<>>, hyde |-> Blank,
     retrieve |-> question.message # Blank, foreign |-> payload.foreign, filter |-> Unbounded,
     degraded |-> TRUE]

(* fallback_transform: the message itself, retrieved for, with no facet and no flag. *)
Fallback ==
    [rewritten |-> question.message, subs |-> <<>>, hyde |-> Blank,
     retrieve |-> question.message # Blank, foreign |-> FALSE, filter |-> Unbounded,
     degraded |-> TRUE]

(* The model is not asked about an empty message or when the stage is switched off; it may
   fail, or answer with something of which no plan can be made. *)
AskModel ==
    /\ planning = "ask"
    /\ \/ /\ question.message # Blank /\ question.on
          /\ payload' \in Payloads
          /\ planning' = "plan" /\ UNCHANGED plan
       \/ plan' = Fallback /\ planning' = "merge" /\ UNCHANGED payload
    /\ UNCHANGED <<question, merged>>

(* A sub-question is kept unless it is blank or repeats one that is there, by its case-folded
   form.  The limit is looked at after one was kept: a limit of none lets one through. *)
Considered(first, kept, text) ==
    IF \/ text = Blank
       \/ \E old \in ToSet(kept) \cup {first} : Folded(old) = Folded(text)
       \/ kept # <<>> /\ Len(kept) >= MaxSubqueries
    THEN kept ELSE Append(kept, text)

\* The loop over the sub-questions.
Distinct(first, texts) ==
    LET kept[k \in 0..Len(texts)] == IF k = 0 THEN <<>> ELSE Considered(first, kept[k - 1], texts[k])
    IN  kept[Len(texts)]

\* As it would be if a year ended with its first day.
ParsedAtTheStart(period, end) ==
    CASE period.unit = "none"  -> -1
      [] period.unit = "day"   -> period.n * DayLength
      [] period.unit = "slash" -> period.n * DayLength
      [] period.unit = "month" -> period.n * MonthLength
      [] period.unit = "year"  -> period.n * YearLength

(* _parse_date: an ISO day is its first instant, either way; a day in another form, and a
   year, end with their last; a month ends with the first instant of the next. *)
Parsed(period, end) ==
    CASE period.unit = "none"  -> -1
      [] period.unit = "day"   -> period.n * DayLength
      [] period.unit = "slash" -> period.n * DayLength + (IF end THEN DayLength - 1 ELSE 0)
      [] period.unit = "month" -> period.n * MonthLength + (IF end THEN MonthLength ELSE 0)
      [] period.unit = "year"  -> period.n * YearLength + (IF end THEN YearLength - 1 ELSE 0)

(* _filter_from_payload: dates that cross are no dates. *)
Extracted ==
    LET f == [from |-> Parsed(payload.from, FALSE), to |-> Parsed(payload.to, TRUE)] IN
    IF Crossed(f) THEN Unbounded ELSE f

\* As it would be if the model's rewriting were taken as it is.
MakePlanUnclean ==
    /\ planning = "plan"
    /\ plan' = [rewritten |-> payload.rewritten, subs |-> payload.subs, hyde |-> Blank,
                retrieve |-> TRUE, foreign |-> payload.foreign, filter |-> Extracted,
                degraded |-> FALSE]
    /\ planning' = "merge"
    /\ UNCHANGED <<question, payload, merged>>

(* _plan_from_payload, or the fallback when it raises. *)
MakePlan ==
    /\ planning = "plan"
    /\ LET rewritten == IF question.rewrite /\ payload.rewritten # Blank THEN payload.rewritten
                        ELSE question.message
       IN  \/ \E retrieve \in BOOLEAN :
                plan' = [rewritten |-> rewritten, subs |-> Distinct(rewritten, payload.subs),
                         hyde |-> IF question.hyde /\ rewritten \in Abstract THEN payload.hyde
                                  ELSE Blank,
                         retrieve |-> retrieve, foreign |-> payload.foreign,
                         filter |-> Extracted, degraded |-> FALSE]
           \/ plan' = Fallback
    /\ planning' = "merge"
    /\ UNCHANGED <<question, payload, merged>>

\* As it would be if the question's dates came first.
NarrowedByQuestion(own, found) == IF found = Unbounded THEN own ELSE found

(* merge_filters: the narrower of the two, unless that leaves nothing: then the caller's. *)
Narrowed(own, found) ==
    LET both == [from |-> Max({own.from, found.from}),
                 to   |-> IF own.to = -1 THEN found.to
                          ELSE IF found.to = -1 THEN own.to ELSE Min({own.to, found.to})]
    IN  IF found = Unbounded THEN own ELSE IF own = Unbounded THEN found
        ELSE IF Crossed(both) THEN own ELSE both

MergeFilters ==
    /\ planning = "merge"
    /\ merged' = Narrowed(question.own, plan.filter)
    /\ planning' = "done"
    /\ UNCHANGED <<question, payload, plan>>

\* TransformedQuery.queries
Queries == IF plan.rewritten = Blank THEN <<>> ELSE <<plan.rewritten>> \o plan.subs

PlanNext == AskModel \/ MakePlan \/ MergeFilters

PlanSpec == PlanInit /\ [][PlanNext]_planVars
-----------------------------------------------------------------------------
(* What is searched for is the message or its rewriting and a bounded number of other
   questions, one at least, no two alike, so no query is paid for twice
   (query_transform.py:193, 587). *)
QueriesAreDistinct ==
    planning = "done" =>
        /\ question.message # Blank => Queries # <<>>
        /\ Len(Queries) <= 1 + Max({1, MaxSubqueries})
        /\ \A i, j \in DOMAIN Queries :
             Queries[i] # Blank /\ (i # j => Folded(Queries[i]) # Folded(Queries[j]))

(* When the model fails, or cannot be understood, or is not asked, the turn goes on as if it
   had said nothing: the message is searched for, no facet narrows the search, nothing is
   called out of the domain (query_transform.py:215-256, 678-700). *)
DegradedPlanIsNeutral ==
    plan.degraded => /\ plan.rewritten = question.message /\ plan.subs = <<>>
                     /\ plan.retrieve = (question.message # Blank)
                     /\ ~plan.foreign /\ plan.filter = Unbounded

(* The search never reaches outside the dates the caller asked for, and never gets an
   interval that crosses (query_transform.py:320-331). *)
CallersRangeStands ==
    planning = "done" =>
        /\ ~Crossed(merged)
        /\ question.own.from <= merged.from
        /\ question.own.to # -1 => merged.to # -1 /\ merged.to <= question.own.to

(* A year or a month that ends a range is in it to its last instant: what was modified on its
   last day is found (query_transform.py:483-518). *)
PeriodIsCovered ==
    LET last == CASE payload.to.unit = "year"  -> (payload.to.n + 1) * YearLength - 1
                  [] payload.to.unit = "month" -> (payload.to.n + 1) * MonthLength - 1
                  [] OTHER -> -1
    IN  planning = "merge" /\ ~plan.degraded /\ plan.filter.to # -1 => last <= plan.filter.to

\* The plan asks what the user asked, within what the caller allowed.
PlanIsFaithful == QueriesAreDistinct /\ DegradedPlanIsNeutral /\ CallersRangeStands /\ PeriodIsCovered
=============================================================================
