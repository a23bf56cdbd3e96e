----------------------------- MODULE AnswerGuard -----------------------------
(***************************************************************************)
(* What happens to a generated answer before it is sent and stored: its    *)
(* markers are checked against the sources (citations.py), and the output  *)
(* guard (guardrails/output_guard.py) checks clearance, personal data and  *)
(* groundedness, in that order, and may replace it.                        *)
(*                                                                         *)
(* An answer is its sentences, each a claim or not, with the numbers of    *)
(* the markers in it. Ratios are compared by cross-multiplication: Enough  *)
(* of Whole is the groundedness an answer needs, Floor of Whole the least  *)
(* it may have.                                                            *)
(***************************************************************************)
EXTENDS Integers, Sequences, SequencesExt, FiniteSetsExt

CONSTANTS
    Sources,       \* at most so many sources reached the prompt
    Sentences,     \* what a sentence may be: [claim, refs]
    MaxSentences,
    Whole, Enough, Floor

ASSUME GuardAssumption ==
    /\ Sources \in Nat /\ {Floor, Enough, Whole} \subseteq Nat /\ Floor <= Enough /\ Enough <= Whole
    /\ MaxSentences \in Nat /\ Sentences \subseteq [claim : BOOLEAN, refs : Seq(Nat)]

VARIABLES
    draft,     \* the generated answer, what is true of it, and the settings it meets
    support,   \* which source supports which sentence
    report,    \* the citation report
    reply,     \* the answer on its way out
    guarding   \* the next check

guardVars == <<draft, support, report, reply, guarding>>

Actions == {"allow", "warn", "redact", "block"}

Failed == [citations |-> {}, attempted |-> 0, verified |-> 0, valid |-> FALSE, notice |-> FALSE]

(* An answer may refuse; it may hold personal data that the scan finds and the verifier
   confirms, or dismisses; some of its sources may be above the caller's clearance (none
   when the enforcement is switched off). *)
GuardInit ==
    /\ \E sentences \in SeqOf(Sentences, MaxSentences) \ {<<>>}, refusal, pii \in BOOLEAN,
          personal \in {"none", "confirmed", "dismissed"}, sources \in 0..Sources :
       \E above \in SUBSET (1..sources) :
         /\ draft = [sentences |-> sentences, refusal |-> refusal, personal |-> personal,
                     sources |-> sources, above |-> above, pii |-> pii]
         /\ support \in SUBSET ((DOMAIN sentences) \X (1..sources))
    /\ report = Failed
    /\ reply = [text |-> "answer", markers |-> {}, citations |-> {}, notice |-> FALSE,
                redacted |-> FALSE, action |-> "allow", stored |-> "nothing"]
    /\ guarding = "citations"
-----------------------------------------------------------------------------
\* parse_markers: every occurrence, with the sentence it stands in.
Occurrences == UNION {{s} \X (DOMAIN draft.sentences[s].refs) : s \in DOMAIN draft.sentences}
Number(o)   == draft.sentences[o[1]].refs[o[2]]

\* As it would be if a number without a source had nothing to refute it.
SupportedIfUnknown(o) == Number(o) \in 1..draft.sources => <<o[1], Number(o)>> \in support

\* SourceBlock.chunk_for and verify_span: the number has a source, which has the sentence's words.
Supported(o) == Number(o) \in 1..draft.sources /\ <<o[1], Number(o)>> \in support

Claims == {s \in DOMAIN draft.sentences : draft.sentences[s].claim}

\* As it would be if an answer that cites nothing were always valid.
BelowByMarkersOnly(attempted, verified, least) == verified * Whole < least * attempted

\* citation_validity < least: an answer that claims and cites nothing has none.
Below(attempted, verified, least) ==
    IF attempted = 0 THEN Claims # {} /\ 0 < least ELSE verified * Whole < least * attempted

\* As it would be if the report kept the text as it was.
KeptAll(survivors) == {Number(o) : o \in Occurrences}

\* strip_unresolved_markers: by number, so every occurrence of a survivor stays.
Kept(survivors) == {Number(o) : o \in Occurrences} \cap survivors

Extracted ==
    LET verified == {o \in Occurrences : Supported(o)} IN
    [citations |-> {Number(o) : o \in verified},
     attempted |-> Cardinality(Occurrences), verified |-> Cardinality(verified), valid |-> TRUE,
     notice    |-> Below(Cardinality(Occurrences), Cardinality(verified), Enough)]

\* Stage 11.  It may fail: the answer goes on as it is, with no citations and a validity of 0.
Cite ==
    /\ guarding = "citations"
    /\ report' \in {Extracted, Failed}
    /\ reply' = [reply EXCEPT !.notice = report'.notice, !.citations = report'.citations,
                              !.markers = IF report'.valid THEN Kept(report'.citations)
                                          ELSE {Number(o) : o \in Occurrences}]
    /\ guarding' = "clearance"
    /\ UNCHANGED <<draft, support>>

\* The guard's own message instead of the answer.
Canned(r) == r.text # "answer"
Withheld(r, why) ==
    [r EXCEPT !.text = why, !.markers = {}, !.notice = FALSE, !.redacted = FALSE, !.action = "block"]

\* check_clearance: the answer is withheld, and the citations of the sources that leaked.
Clearance ==
    /\ guarding = "clearance"
    /\ reply' = IF draft.above = {} THEN reply
                ELSE [Withheld(reply, "no_clearance") EXCEPT !.citations = @ \ draft.above]
    /\ guarding' = "egress"
    /\ UNCHANGED <<draft, support, report>>

\* The scan on the way out: what the verifier confirms is redacted, or withholds the answer.
ScanEgress(blocks) ==
    /\ guarding = "egress"
    /\ reply' = IF ~draft.pii \/ Canned(reply) \/ draft.personal # "confirmed" THEN reply
                ELSE IF blocks THEN Withheld(reply, "personal")
                ELSE [reply EXCEPT !.redacted = TRUE, !.action = "redact"]
    /\ guarding' = "groundedness"
    /\ UNCHANGED <<draft, support, report>>

\* The score is stage 11's, and 0 when that stage failed.
Scores(least) == IF report.valid THEN Below(report.attempted, report.verified, least) ELSE 0 < least

\* The action never weakens.
Annotated(r) == [r EXCEPT !.action = IF @ = "allow" THEN "warn" ELSE @]

\* The notice is appended unless it is there.
WithNotice(r) == [Annotated(r) EXCEPT !.notice = TRUE]

\* Below the floor the answer is withheld; below the gate it says that it is uncertain.
CheckGroundedness ==
    /\ guarding = "groundedness"
    /\ reply' = IF Canned(reply) \/ draft.refusal \/ draft.sources = 0 THEN reply
                ELSE IF Scores(Floor) THEN Withheld(reply, "ungrounded")
                ELSE IF Scores(Enough) THEN WithNotice(reply) ELSE reply
    /\ guarding' = "store"
    /\ UNCHANGED <<draft, support, report>>

\* As it would be if the emitted text were stored.
AsSent == IF Canned(reply) \/ reply.redacted \/ draft.personal = "none" THEN "clean" ELSE "personal"

\* What is stored is scanned again, and without the verifier.
ToStore == IF draft.pii \/ Canned(reply) \/ draft.personal = "none" THEN "clean" ELSE "personal"

StoreAnswer ==
    /\ guarding = "store"
    /\ reply' = [reply EXCEPT !.stored = ToStore]
    /\ guarding' = "done"
    /\ UNCHANGED <<draft, support, report>>

GuardNext ==
    Cite \/ Clearance \/ CheckGroundedness \/ StoreAnswer \/ \E blocks \in BOOLEAN : ScanEgress(blocks)

GuardSpec == GuardInit /\ [][GuardNext]_guardVars
-----------------------------------------------------------------------------
\* Every variable has its type, and no more occurrences are verified than there are.
GuardTypeOK ==
    /\ report.citations \subseteq 1..draft.sources /\ report.verified \in 0..report.attempted
    /\ {report.valid, report.notice, reply.notice, reply.redacted} \subseteq BOOLEAN
    /\ reply.citations \subseteq report.citations /\ reply.markers \subseteq Int
    /\ reply.text \in {"answer", "no_clearance", "personal", "ungrounded"}
    /\ reply.action \in Actions /\ reply.stored \in {"nothing", "clean", "personal"}
    /\ guarding \in {"citations", "clearance", "egress", "groundedness", "store", "done"}

Sent == guarding = "done" /\ ~Canned(reply)

(* A marker that is sent has a citation whose source has the words of one of its sentences;
   one that has none, because the citation stage failed, is sent only under the notice
   (an answer that refuses, or that had no source, is not scored).  The stripping, the
   failure of a stage and the guard's own score have to agree. *)
MarkersAreBacked ==
    Sent => \A n \in reply.markers :
        \/ n \in reply.citations /\ \E s \in DOMAIN draft.sentences : <<s, n>> \in support
        \/ reply.notice \/ draft.refusal \/ draft.sources = 0

(* An answer with sources of which too little is verified is never sent as if it were
   grounded, whichever stage failed, and what claims without citing counts as nothing
   verified: groundedness of citations.py against the gate of output_guard.py. *)
UngroundedIsTold ==
    LET verified == {o \in Occurrences :
                        Number(o) \in 1..draft.sources /\ <<o[1], Number(o)>> \in support}
        poor     == IF Occurrences = {} THEN Claims # {}
                    ELSE Cardinality(verified) * Whole < Enough * Cardinality(Occurrences) IN
    Sent /\ draft.sources > 0 /\ ~draft.refusal /\ poor => reply.notice

(* Personal data is never stored while its detection is on, although the verifier may let
   it pass on the way out, or the answer is sent unredacted because the verifier failed it. *)
StoredIsClean == guarding = "done" /\ draft.pii => reply.stored = "clean"

\* What is sent is backed or says that it is not, and what is stored is clean.
AnswerIsHonest == MarkersAreBacked /\ UngroundedIsTold /\ StoredIsClean
=============================================================================
