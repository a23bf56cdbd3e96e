------------------------------ MODULE InputGuard ------------------------------
(***************************************************************************)
(* What happens to a user's turn before anything else sees it, and later   *)
(* to the passages found for it: input_guard.py, injection.py, and the     *)
(* detector of personal data they use (ragcore/pii).                       *)
(*                                                                         *)
(* A text is a sequence of cells: a plain word, a cell of a number or of a *)
(* key, a keyword that makes a number suspicious, an injection phrase (a   *)
(* "hook"), a forged delimiter, an invisible character. A redacted text is *)
(* a sequence of integers: n > 0 is the nth cell of the text, -r what      *)
(* recogniser r put in a span's place, 0 a star.                           *)
(***************************************************************************)
EXTENDS Integers, Sequences, SequencesExt, FiniteSetsExt, Listing

CellKinds == {"word", "digit", "key", "keyword", "hook", "delimiter", "invisible"}

CONSTANTS
    Turns,         \* the texts a user may send
    Passages,      \* the texts a retrieved passage may have
    MaxPassages,
    Recognizers,   \* a sequence of [pattern, score, keyword]: the regular expressions
    ContextWindow, \* CONTEXT_WINDOW: how far from a number a keyword still counts
    Credentials,   \* the recognisers whose entity is a credential
    Rules,         \* the settings a deployment may have
    MinChars, MaxChars, ScanChars,
    Confident,     \* pii_score_threshold
    VerifyFrom,    \* pii_llm_verify_min_score
    KeepChars,     \* pii_partial_keep_chars
    HookWeight, ForgeryWeight, InvisibleWeight, RepeatBonus, RepeatCap,
    WarnAt, BlockAt, PassageBlockAt, BenignFactor    \* in hundredths

RuleTypes == [normalise : BOOLEAN, truncate : BOOLEAN, pii : BOOLEAN, verify : BOOLEAN,
              mode : {"mask", "hash", "partial"}, classifier : BOOLEAN, quarantine : BOOLEAN]

ASSUME ScreenAssumption ==
    /\ Turns \cup Passages \subseteq Seq(CellKinds) /\ Rules \subseteq RuleTypes
    /\ Recognizers \in Seq([pattern : Seq(CellKinds) \ {<<>>}, score : Int,
                            keyword : {"no", "boost", "required"}])
    /\ Credentials \subseteq DOMAIN Recognizers
    /\ {ContextWindow, MaxPassages, MinChars, MaxChars, ScanChars, KeepChars, RepeatBonus, RepeatCap} \subseteq Nat
    /\ {Confident, VerifyFrom} \subseteq Int
    /\ {HookWeight, ForgeryWeight, InvisibleWeight, WarnAt, BlockAt, PassageBlockAt, BenignFactor}
           \subseteq 0..100
    /\ WarnAt <= BlockAt /\ PassageBlockAt <= BlockAt   \* settings.py refuses others

VARIABLES
    turn,       \* the text as it arrived, the settings, and the cells left of it
    decision,   \* InputDecision
    report,     \* the findings of the detector
    verdict,    \* the injection verdict
    passages,   \* the passages found for the turn
    screened,   \* RetrievedScan
    screening   \* what is done next

screenVars == <<turn, decision, report, verdict, passages, screened, screening>>

Clean == [hits |-> 0, score |-> 0, action |-> "allow", label |-> "none"]

ScreenInit ==
    /\ \E raw \in Turns, rules \in Rules : turn = [raw |-> raw, rules |-> rules, cells |-> raw]
    /\ decision = [allowed |-> TRUE, action |-> "allow", text |-> <<>>, stored |-> <<>>,
                   events |-> <<>>, refused |-> FALSE]
    /\ report = {} /\ verdict = Clean
    /\ passages \in SeqOf(Passages, MaxPassages)
    /\ screened = [kept |-> {}, quarantined |-> {}, flagged |-> {}, events |-> {}]
    /\ screening = "normalise"

Rule(r) == turn.rules[r]
-----------------------------------------------------------------------------
(* neutralise_untrusted: delimiters are escaped, so they read as words, and invisible
   characters go. *)
Neutralised(cells) ==
    LET seen == Picked(cells, {i \in DOMAIN cells : cells[i] # "invisible"})
    IN  [i \in DOMAIN seen |-> IF seen[i] = "delimiter" THEN "word" ELSE seen[i]]

Told(d, kind, action) == [d EXCEPT !.events = Append(@, [kind |-> kind, action |-> action])]

Refusal(d, kind, action) ==
    [Told(d, kind, action) EXCEPT !.allowed = FALSE, !.action = action, !.refused = TRUE]

Itself(cells) == [i \in DOMAIN cells |-> i]

(* run_input_guard up to the size cap. *)
NormaliseTurn ==
    /\ screening = "normalise"
    /\ LET cells == IF Rule("normalise") THEN Neutralised(turn.raw) ELSE turn.raw
           whole == [decision EXCEPT !.text = Itself(cells), !.stored = Itself(cells)]
           Cap(n) == turn' = [turn EXCEPT !.cells = SubSeq(cells, 1, n)]
       IN  \/ /\ Len(cells) < MinChars
              /\ decision' = Refusal(whole, "size", "clarify") /\ screening' = "decided"
              /\ Cap(Len(cells))
           \/ /\ MinChars <= Len(cells) /\ Len(cells) <= MaxChars
              /\ decision' = whole /\ screening' = "analyze" /\ Cap(Len(cells))
           \/ /\ MinChars <= Len(cells) /\ Len(cells) > MaxChars /\ Rule("truncate")
              /\ decision' = [Told(whole, "size", "warn") EXCEPT !.action = "warn"]
              /\ screening' = "analyze" /\ Cap(MaxChars)
           \/ /\ MinChars <= Len(cells) /\ Len(cells) > MaxChars /\ ~Rule("truncate")
              /\ decision' = [Refusal(whole, "size", "block") EXCEPT !.text = <<>>,
                                                                     !.stored = <<>>]
              /\ screening' = "decided" /\ Cap(Len(cells))
    /\ UNCHANGED <<report, verdict, passages, screened>>
-----------------------------------------------------------------------------
Cost(m) == m.to - m.from + 1

\* A keyword lies in the cells, or no further than the window from them.
InContext(cells, from, to) ==
    \E k \in DOMAIN cells :
        cells[k] = "keyword" /\ from - ContextWindow <= k /\ k <= to + ContextWindow

(* RegexRecognizer.find: a pattern that wants a keyword is more certain when there is one
   near by, and one that requires it finds nothing when there is none. *)
Found(cells, r) ==
    LET p == Recognizers[r]
        end(i) == i + Len(p.pattern) - 1
    IN  {[by |-> r, from |-> i, to |-> end(i),
          score |-> p.score + (IF p.keyword # "no" /\ InContext(cells, i, end(i)) THEN 15 ELSE 0)] :
             i \in {j \in DOMAIN cells : /\ end(j) <= Len(cells)
                                         /\ SubSeq(cells, j, end(j)) = p.pattern
                                         /\ p.keyword = "required" => InContext(cells, j, end(j))}}

Overlap(m, o) == m.from <= o.to /\ o.from <= m.to

Better(m, o) ==
    \/ m.score > o.score
    \/ m.score = o.score /\ Cost(m) > Cost(o)
    \/ m.score = o.score /\ Cost(m) = Cost(o) /\ m.from < o.from
    \/ m.score = o.score /\ Cost(m) = Cost(o) /\ m.from = o.from /\ m.by < o.by

(* _merge_overlaps: a match is kept if no better one that is kept lies across it. *)
Ranked(matches) == Sorted(matches, {p \in matches \X matches : Better(p[1], p[2])})
Unoverlapped(matches) ==
    LET kept[k \in 0..Cardinality(matches)] ==
            IF k = 0 THEN {}
            ELSE LET m == Ranked(matches)[k]
                     others == kept[k - 1]
                 IN  IF \E o \in others : Overlap(m, o) THEN others ELSE others \cup {m}
    IN  kept[Cardinality(matches)]

\* As it would be if a match had to be more certain than the threshold.
AnalyzedAbove(cells) ==
    Unoverlapped({m \in UNION {Found(cells, r) : r \in DOMAIN Recognizers} : m.score > Confident})

(* PIIDetector.analyze. *)
Analyzed(cells) ==
    Unoverlapped({m \in UNION {Found(cells, r) : r \in DOMAIN Recognizers} : m.score >= Confident})

(* PIIDetector._replacement: what stands for the span. *)
Stands(m, mode) ==
    IF mode # "partial" THEN <<-m.by>>
    ELSE [i \in 1..Cost(m) |->
             IF i > Cost(m) - KeepChars /\ 0 < KeepChars /\ KeepChars < Cost(m)
             THEN m.from + i - 1 ELSE 0]

Replaced(text, m, mode) ==
    SubSeq(text, 1, m.from - 1) \o Stands(m, mode) \o SubSeq(text, m.to + 1, Len(text))

\* The text when the spans have been replaced in some order.
RedactedBy(cells, order, mode) ==
    LET done[k \in 0..Len(order)] ==
            IF k = 0 THEN Itself(cells) ELSE Replaced(done[k - 1], order[k], mode)
    IN  done[Len(order)]

\* As it would be if the spans were replaced from the left.
RedactForwards(cells, findings, mode) ==
    RedactedBy(cells, Sorted(findings, {p \in findings \X findings : p[1].from < p[2].from}), mode)

(* PIIDetector.redact: from the right, so that the spans still to do keep their places. *)
FromRight(findings) == {p \in findings \X findings : p[1].from > p[2].from}
Redact(cells, findings, mode) == RedactedBy(cells, Sorted(findings, FromRight(findings)), mode)

(* A detector that is switched off finds nothing, and says nothing of it. *)
AnalyzeTurn ==
    /\ screening = "analyze"
    /\ report' = IF Rule("pii") THEN Analyzed(turn.cells) ELSE {}
    /\ screening' = IF Rule("pii") THEN "verify" ELSE "language"
    /\ decision' = IF Rule("pii") THEN decision
                   ELSE [decision EXCEPT !.text = Itself(turn.cells),
                                         !.stored = Itself(turn.cells)]
    /\ UNCHANGED <<turn, verdict, passages, screened>>

(* _credential_report. *)
Secrets(findings) == {m \in findings : m.by \in Credentials}

(* PIIDetector.verify: the model may reject findings it is asked about; when it fails, or is
   not asked, every finding stands.  Then the turn is redacted twice. *)
VerifyTurn ==
    /\ screening = "verify"
    /\ \E rejected \in SUBSET {m \in report : Rule("verify") /\ m.score >= VerifyFrom} :
         LET kept == report \ rejected
             done == [decision EXCEPT !.stored = Redact(turn.cells, kept, Rule("mode")),
                                      !.text   = Redact(turn.cells, Secrets(kept), "mask")]
         IN  /\ report' = kept
             /\ decision' = IF kept = {} THEN Told(done, "pii", "allow")
                            ELSE [Told(done, "pii", "redact") EXCEPT !.action = "redact"]
    /\ screening' = "language"
    /\ UNCHANGED <<turn, verdict, passages, screened>>

(* detect_language may be sure of a language that is not configured; it only warns. *)
DetectLanguage ==
    /\ screening = "language"
    /\ \/ UNCHANGED decision
       \/ decision' = [Told(decision, "language", "warn") EXCEPT !.action = "warn"]
    /\ screening' = "scan"
    /\ UNCHANGED <<turn, report, verdict, passages, screened>>
-----------------------------------------------------------------------------
Count(cells, kind) == Cardinality({i \in DOMAIN cells : cells[i] = kind})
Weight(n, weight, bonus) ==
    IF n = 0 THEN 0 ELSE Min({100, weight + Min({bonus * (n - 1), RepeatCap})})

\* As it would be if suspicions were added up.
CombinedSum(a, b) == a + b

\* _combine: 1 - (1 - a)(1 - b), in hundredths.
Combined(a, b) == 100 - ((100 - a) * (100 - b)) \div 100

ActionFor(score, warnAt, blockAt) ==
    IF score >= blockAt THEN "block" ELSE IF score >= warnAt THEN "warn" ELSE "allow"

(* scan_text: only the first ScanChars are looked at. *)
Scanned(cells, warnAt, blockAt) ==
    LET sample == SubSeq(cells, 1, Min({Len(cells), ScanChars}))
        score  == Combined(Combined(Weight(Count(sample, "hook"), HookWeight, RepeatBonus),
                                    Weight(Count(sample, "delimiter"), ForgeryWeight, 0)),
                           Weight(Count(sample, "invisible"), InvisibleWeight, 0))
        hits   == Count(sample, "hook") + Count(sample, "delimiter") + Count(sample, "invisible")
    IN  [hits |-> hits, score |-> score, action |-> ActionFor(score, warnAt, blockAt),
         label |-> "none"]

\* As it would be if a model that fails had cleared the text.
JudgedAnyway(v, label, warnAt, blockAt) ==
    LET score == IF label # "injection" THEN (v.score * BenignFactor) \div 100
                 ELSE Max({v.score, blockAt})
    IN  [v EXCEPT !.label = label, !.score = score,
                  !.action = ActionFor(score, warnAt, blockAt)]

(* _adjudicate, once the model has been asked; a failure leaves the verdict alone. *)
Judged(v, label, warnAt, blockAt) ==
    LET score == IF label = "benign" THEN (v.score * BenignFactor) \div 100
                 ELSE Max({v.score, blockAt})
    IN  IF label = "failed" THEN v
        ELSE [v EXCEPT !.label = label, !.score = score,
                       !.action = ActionFor(score, warnAt, blockAt)]

Labels == {"benign", "injection", "failed"}

(* The classifier is only asked about a score between the thresholds it is given. *)
InDoubt(v, low, high) == v.hits > 0 /\ low <= v.score /\ v.score < high

\* The prompt's cells: what is left of the turn, and a word for each masked span.
PromptCells == [i \in DOMAIN decision.text |->
                   IF decision.text[i] > 0 THEN turn.cells[decision.text[i]] ELSE "word"]

\* As it would be if a verdict that blocks only warned when something was redacted.
ConcludedKindly(v) ==
    IF v.hits = 0 THEN decision
    ELSE IF v.action = "block" /\ decision.action = "allow"
         THEN Refusal(decision, "injection", "block")
         ELSE Told(decision, "injection", v.action)

(* run_input_guard, after the verdict. *)
Concluded(v) ==
    IF v.hits = 0 THEN decision
    ELSE IF v.action = "block" THEN Refusal(decision, "injection", "block")
         ELSE [Told(decision, "injection", v.action) EXCEPT
                  !.action = IF @ = "allow" THEN "warn" ELSE @]

(* scan_user_turn and the end of run_input_guard. *)
ScanTurn ==
    /\ screening = "scan"
    /\ LET v == Scanned(PromptCells, WarnAt, BlockAt) IN
       \E label \in IF Rule("classifier") /\ InDoubt(v, WarnAt, BlockAt) THEN Labels ELSE {"failed"} :
         LET judged == Judged(v, label, WarnAt, BlockAt) IN
           /\ verdict' = judged /\ decision' = Concluded(judged)
           /\ screening' = IF decision'.allowed THEN "passages" ELSE "decided"
    /\ UNCHANGED <<turn, report, passages, screened>>
-----------------------------------------------------------------------------
\* As it would be if a quarantined passage left no event behind.
FiledSilently(s, i, v) ==
    IF v.hits > 0 /\ v.action = "block" /\ Rule("quarantine")
    THEN [s EXCEPT !.quarantined = @ \cup {i}, !.flagged = @ \cup {i}]
    ELSE [s EXCEPT !.kept = @ \cup {i}]

Filed(s, i, v) ==
    IF v.hits = 0 THEN [s EXCEPT !.kept = @ \cup {i}]
    ELSE IF v.action = "block" /\ Rule("quarantine")
         THEN [s EXCEPT !.quarantined = @ \cup {i}, !.flagged = @ \cup {i},
                        !.events = @ \cup {<<i, "block">>}]
         ELSE [s EXCEPT !.kept = @ \cup {i}, !.flagged = @ \cup {i},
                        !.events = @ \cup {<<i, "warn">>}]

Handled(s) == Cardinality(s.kept \cup s.quarantined)
PassageWarnAt == Min({WarnAt, PassageBlockAt})

(* scan_retrieved, one passage: any score above six tenths of the warning threshold may be
   put to the classifier, however high. *)
ScanPassage ==
    /\ screening = "passages" /\ Handled(screened) < Len(passages)
    /\ LET i == Handled(screened) + 1
           v == Scanned(passages[i], PassageWarnAt, PassageBlockAt) IN
       \E label \in IF Rule("classifier") /\ InDoubt(v, (PassageWarnAt * 6) \div 10, 101)
                    THEN Labels ELSE {"failed"} :
         LET judged == Judged(v, label, PassageWarnAt, PassageBlockAt) IN
           verdict' = judged /\ screened' = Filed(screened, i, judged)
    /\ UNCHANGED <<turn, decision, report, passages, screening>>

PassagesDone ==
    /\ screening = "passages" /\ Handled(screened) = Len(passages)
    /\ screening' = "decided"
    /\ UNCHANGED <<turn, decision, report, verdict, passages, screened>>

ScreenNext ==
    NormaliseTurn \/ AnalyzeTurn \/ VerifyTurn \/ DetectLanguage \/ ScanTurn \/ ScanPassage
        \/ PassagesDone

ScreenSpec == ScreenInit /\ [][ScreenNext]_screenVars
-----------------------------------------------------------------------------
(* Types: findings are spans of the text, a text is at most MaxChars cells once it is let
   through, and an action is one of the five (input_guard.py:410). *)
ScreenTypeOK ==
    /\ decision.action \in {"allow", "redact", "warn", "block", "clarify"}
    /\ screening \notin {"normalise", "decided"} =>
         Len(turn.cells) \in Min({MinChars, MaxChars})..MaxChars
    /\ \A m \in report : 1 <= m.from /\ m.from <= m.to /\ m.to <= Len(turn.cells)
    /\ verdict.score \in 0..100
    /\ screened.kept \cup screened.quarantined \subseteq DOMAIN passages

Shown(text, cells) == ToSet(text) \cap DOMAIN cells
Spans(findings) == UNION {m.from..m.to : m \in findings}

(* The form that is stored shows no cell of a finding that stands, beyond the few a partial
   redaction keeps, and every cell of no finding, in its order; the prompt's form hides the
   credentials and nothing else.  No redaction cuts into its neighbour, however the spans
   lie and whatever the tokens' lengths (detector.py:309, input_guard.py:518-567). *)
RedactionIsExact ==
    screening \in {"language", "scan", "passages"} /\ Rule("pii") =>
        /\ \A m \in report : Cardinality(Shown(decision.stored, turn.cells) \cap (m.from..m.to))
                                 <= IF Rule("mode") = "partial" THEN KeepChars ELSE 0
        /\ (DOMAIN turn.cells) \ Spans(report) \subseteq Shown(decision.stored, turn.cells)
        /\ Shown(decision.text, turn.cells) = (DOMAIN turn.cells) \ Spans(Secrets(report))
        /\ \A i, j \in DOMAIN decision.stored :
             i < j /\ decision.stored[i] > 0 /\ decision.stored[j] > 0
                 => decision.stored[i] < decision.stored[j]

(* A credential the reader can see is not sent to the model, though invisible characters
   were strewn into it: with normalisation on, every certain match in the visible text loses
   a cell of the prompt, unless a better match of another kind lies across it, in which
   case the stored form loses one (input_guard.py:423, 437-441, 536-542; detector.py:204). *)
NoSecretIsShown ==
    LET visible == SubSeq(Neutralised(turn.raw), 1, Min({MaxChars, Len(Neutralised(turn.raw))})) IN
    Rule("normalise") /\ Rule("pii") /\ ~Rule("verify")
        /\ screening \in {"language", "scan", "passages"} =>
        \A r \in Credentials : \A m \in Found(visible, r) :
            \/ m.score < Confident
            \/ ~(m.from..m.to \subseteq Shown(decision.text, turn.cells))
            \/ /\ \E o \in report : o.by \notin Credentials /\ Overlap(m, o) /\ o.score >= m.score
               /\ ~(m.from..m.to \subseteq Shown(decision.stored, turn.cells)) \/ Rule("mode") = "partial"

(* A turn that is refused says why: it has a text for the user, an event with the action
   that refused it, and that action is the decision's; one that is let through has no event
   that blocks (input_guard.py:321, 598-611). *)
RefusalIsTold ==
    screening = "decided" =>
        /\ decision.allowed # decision.refused
        /\ ~decision.allowed =>
             /\ decision.action \in {"block", "clarify"}
             /\ Last(decision.events).action = decision.action
        /\ decision.allowed =>
             \A i \in DOMAIN decision.events : decision.events[i].action # "block"

(* A turn the patterns are sure of is refused whatever the classifier would say, and one it
   fails on is judged by the patterns alone: an outage neither lets a turn through nor stops
   one (injection.py:821, 842). *)
OutageKeepsVerdict ==
    LET v == Scanned(PromptCells, WarnAt, BlockAt) IN
    screening \in {"passages", "decided"} /\ (verdict.hits = v.hits /\ screened.kept = {}
                                              /\ screened.quarantined = {}) =>
        /\ v.hits > 0 /\ v.action = "block" => ~decision.allowed
        /\ verdict.label = "none" /\ v.hits > 0 => verdict.action = v.action

(* Every passage is kept or held back and not both; one the patterns flag leaves an event
   that says which, and with the quarantine on nothing that was judged to be an injection
   is kept (injection.py:946-1009). *)
PassagesAreAccounted ==
    /\ screened.kept \cap screened.quarantined = {}
    /\ screening = "decided" /\ decision.allowed =>
         screened.kept \cup screened.quarantined = DOMAIN passages
    /\ \A i \in screened.flagged :
         <<i, IF i \in screened.quarantined THEN "block" ELSE "warn">> \in screened.events
    /\ \A i \in screened.kept \cup screened.quarantined :
         Scanned(passages[i], PassageWarnAt, PassageBlockAt).hits > 0 => i \in screened.flagged
    /\ \A i \in screened.kept : Rule("quarantine") /\ ~Rule("classifier") =>
         LET v == Scanned(passages[i], PassageWarnAt, PassageBlockAt)
         IN  v.hits > 0 => v.action # "block"

\* The screening hides what it must and nothing else, and tells what it did.
ScreeningIsSound == /\ RedactionIsExact /\ NoSecretIsShown
                    /\ RefusalIsTold /\ OutageKeepsVerdict /\ PassagesAreAccounted
=============================================================================
