-------------------------------- MODULE LlmCall --------------------------------
(***************************************************************************)
(* One call of the model (ragcore/llm/client.py, LLMClient): the request   *)
(* that is built, the attempts that are made of it, the events a stream    *)
(* hands out while the model is still writing, the answer that is read     *)
(* from the whole message, and what is metered.                            *)
(*                                                                         *)
(* A message is a sequence of blocks, and a block comes in parts. Every    *)
(* attempt may be answered with another message.                           *)
(***************************************************************************)
EXTENDS Integers, Sequences, SequencesExt, FiniteSets

CONSTANTS
    CallKinds,         \* of {"complete", "stream", "structured", "classify"}
    Wants,         \* what callers ask for: see WantType
    ModelMessages,       \* messages the model may write: sequences of [kind, parts, whole]
    MaxRetries     \* anthropic_max_retries

VARIABLES request, heard, meter

llmVars == <<request, heard, meter>>

\* The turns to send end with the user's or not; servers and toolsets by name; context edits.
WantType == [turns : {"none", "user", "assistant"}, servers : SUBSET {"s", "t"}, toolsets : SUBSET {"s", "t"},
             edits : SUBSET {"clear", "compact"}, fallbacks : BOOLEAN, thinks : BOOLEAN, hard : BOOLEAN]

\* A block of a message: its parts, and whether the input of a tool reads as JSON.
BlockKinds == {"text", "thinking", "tool"}
BlockType  == [kind : BlockKinds, parts : Nat, whole : BOOLEAN]

ASSUME LlmAssumption ==
    /\ CallKinds \subseteq {"complete", "stream", "structured", "classify"}
    /\ Wants \subseteq WantType /\ ModelMessages \subseteq Seq(BlockType) /\ MaxRetries \in Nat

Errors  == {"notFound", "rateLimit", "clientError", "serverError", "connection", "other"}
NoReply == [text |-> <<>>, tools |-> <<>>, refused |-> FALSE]

\* _is_retryable.
Retryable(error) == error \in {"rateLimit", "serverError", "connection"}
-----------------------------------------------------------------------------
(* The request. *)

\* _betas: the features of the beta interface that the request uses.
BetasOf(want) == (IF want.fallbacks THEN {"fallback"} ELSE {})
                 \cup (IF want.servers # {} THEN {"mcp"} ELSE {})
                 \cup (IF want.edits \ {"compact"} # {} THEN {"context"} ELSE {})
                 \cup (want.edits \cap {"compact"})

\* _prepare_mcp: a toolset for every server that has none.  _thinking_param: off is only said
\* to a model at low effort.
Built(want) == [betas |-> BetasOf(want), beta |-> BetasOf(want) # {}, servers |-> want.servers,
                toolsets |-> want.toolsets \cup want.servers, edits |-> want.edits,
                fallbacks |-> want.fallbacks,
                thinking |-> IF want.thinks THEN "adaptive" ELSE IF want.hard THEN "unsaid" ELSE "disabled"]

\* A structured answer and a classification use no server, no context edit and, the latter, no thinking.
NewCall(kind, want) ==
    LET asked == IF kind \in {"complete", "stream"} THEN want
                 ELSE [want EXCEPT !.servers = {}, !.toolsets = {}, !.edits = {},
                                   !.thinks = (kind = "structured") /\ @]
    IN  [kind |-> kind, sent |-> Built(asked), attempt |-> 0,
         at |-> IF want.turns = "user" THEN "ready" ELSE "invalid",
         message |-> <<>>, place |-> <<1, 0>>, open |-> FALSE, result |-> "none", reply |-> NoReply]

LlmInit ==
    /\ \E kind \in CallKinds, want \in Wants : request = NewCall(kind, want)
    /\ heard = <<>> /\ meter = <<>>

LlmTypeOK ==
    /\ request.at \in {"ready", "open", "over", "invalid", "closed"} /\ request.attempt \in 0..MaxRetries
    /\ request.result \in {"none", "answer", "refusal", "error", "garbled", "first", "label"}
    /\ Len(meter) <= 1
-----------------------------------------------------------------------------
(* The attempts. *)

Begin ==
    /\ request.at = "ready"
    /\ \E message \in ModelMessages :
          request' = [request EXCEPT !.at = "open", !.message = message, !.place = <<1, 0>>, !.open = FALSE]
    /\ UNCHANGED <<heard, meter>>

Event(type, block, part) == [type |-> type, attempt |-> request.attempt, block |-> block, part |-> part]

Streaming == request.kind = "stream" /\ request.at = "open" /\ request.place[1] <= Len(request.message)
BlockNow  == request.message[request.place[1]]

\* content_block_start: a tool's input begins to be collected, and nothing is handed out.
StartBlock ==
    /\ Streaming /\ ~request.open /\ request' = [request EXCEPT !.open = TRUE] /\ UNCHANGED <<heard,
                                                                                     meter>>

\* content_block_delta: text and thinking at once, the input of a tool never.
Delta ==
    /\ Streaming /\ request.open /\ request.place[2] < BlockNow.parts
    /\ request' = [request EXCEPT !.place[2] = @ + 1]
    /\ heard' = IF BlockNow.kind = "tool" THEN heard
                ELSE Append(heard, Event(BlockNow.kind, request.place[1], request.place[2] + 1))
    /\ UNCHANGED meter

\* content_block_stop: a tool call, with the input collected, or what the block began with
\* when that is no JSON.
StopBlock ==
    /\ Streaming /\ request.open /\ request.place[2] = BlockNow.parts
    /\ request' = [request EXCEPT !.place = <<@[1] + 1, 0>>, !.open = FALSE]
    /\ heard' = IF BlockNow.kind # "tool" THEN heard
                ELSE Append(heard, Event("tool", request.place[1], IF BlockNow.whole THEN BlockNow.parts ELSE 0))
    /\ UNCHANGED meter

MayRetryForever(error) == Retryable(error) /\ (request.kind = "stream" => heard = <<>>)

MayRetryUnlessText(error) == /\ Retryable(error) /\ request.attempt < MaxRetries
                             /\ \A i \in DOMAIN heard : heard[i].type # "text"

\* Whether an attempt that failed may be made again.
MayRetry(error) == /\ Retryable(error) /\ request.attempt < MaxRetries
                   /\ request.kind = "stream" => heard = <<>>

Retry == /\ request.at = "open" /\ \E error \in Errors : MayRetry(error)
         /\ request' = [request EXCEPT !.at = "ready", !.attempt = @ + 1]
         /\ UNCHANGED <<heard, meter>>

\* A failure that stands: a stream says so before it raises; only complete and stream meter it,
\* and complete only what the API's client raised.
Fail ==
    /\ request.at = "open"
    /\ \E error \in Errors :
          /\ ~MayRetry(error)
          /\ request' = [request EXCEPT !.at = "over", !.result = "error"]
          /\ heard' = IF request.kind = "stream" THEN Append(heard, Event("error", 0, 0)) ELSE heard
          /\ meter' = IF request.kind = "stream" \/ (request.kind = "complete" /\ error # "other")
                      THEN Append(meter, "error") ELSE meter

\* Whoever reads a stream stops reading: it ends where it stands.
Abandon ==
    /\ request.kind = "stream" /\ request.at = "open" /\ heard # <<>>
    /\ request' = [request EXCEPT !.at = "closed"] /\ UNCHANGED <<heard, meter>>

\* _parse_message: a refusal has neither text nor tool calls.
BlocksOf(kind) == SetToSortSeq({b \in DOMAIN request.message : request.message[b].kind = kind}, <)
Reply(refused) == [text |-> IF refused THEN <<>> ELSE BlocksOf("text"),
                   tools |-> IF refused THEN <<>> ELSE BlocksOf("tool"), refused |-> refused]

\* What a whole message comes to for each kind of call.  A label that is none of those asked for
\* becomes the first of them.
ResultsOf(kind, refused) ==
    CASE kind = "classify"   -> IF refused THEN {"first"} ELSE {"first", "label"}
      [] kind = "structured" -> IF refused THEN {"refusal"} ELSE {"answer", "garbled"}
      [] OTHER               -> {IF refused THEN "refusal" ELSE "answer"}

\* A message that is whole is metered once, refused or not; a stream then says how it ended.
Complete ==
    /\ request.at = "open" /\ (request.kind = "stream" => request.place[1] > Len(request.message))
    /\ \E refused \in BOOLEAN : \E result \in ResultsOf(request.kind, refused) :
          /\ request' = [request EXCEPT !.at = "over", !.result = result, !.reply = Reply(refused)]
          /\ heard' = IF request.kind # "stream" THEN heard
                      ELSE heard \o (IF refused THEN <<Event("refusal", 0, 0)>> ELSE <<>>)
                                 \o <<Event("usage", 0, 0), Event("done", 0, 0)>>
          /\ meter' = Append(meter, IF refused THEN "refused" ELSE "ok")

LlmNext == Begin \/ StartBlock \/ Delta \/ StopBlock \/ Retry \/ Fail \/ Abandon \/ Complete
LlmSpec == LlmInit /\ [][LlmNext]_llmVars
-----------------------------------------------------------------------------
\* The events that carry a part of the message, and the part each carries.
Said == {i \in DOMAIN heard : heard[i].type \in BlockKinds}
PartHeard(i) == [type |-> heard[i].type, block |-> heard[i].block, part |-> heard[i].part]

\* What there is to hand out of a message: the input of a tool in one part, or none of it.
PartsIn(block) == IF block.kind = "tool" THEN {IF block.whole THEN block.parts ELSE 0} ELSE 1..block.parts
PartsOf(message) == UNION {{[type |-> message[b].kind, block |-> b, part |-> p] : p \in PartsIn(message[b])} :
                              b \in DOMAIN message}

Precedes(d, e) == d.block < e.block \/ (d.block = e.block /\ d.part < e.part)

(* What a reader hears is one message: a beginning of it, from one attempt, each part once,
   in order and before anything else, and all of it when the stream says it is done
   (LLMClient.stream). *)
HeardIsOneMessage ==
    /\ \A i, j \in Said : heard[i].attempt = heard[j].attempt
    /\ request.kind = "stream" =>
         /\ \A i \in Said :
               /\ PartHeard(i) \in PartsOf(request.message)
               /\ \A j \in 1..(i - 1) : j \in Said /\ Precedes(heard[j], heard[i])
               /\ \A part \in PartsOf(request.message) :
                     Precedes(part, heard[i]) => \E j \in Said : PartHeard(j) = part
         /\ request.result \in {"answer", "refusal"} =>
               \A part \in PartsOf(request.message) : \E i \in Said : PartHeard(i) = part

(* A stream ends once, with the last thing it says, and a call that answers is metered once
   and for what it was (LLMClient._record). *)
EndsOnce ==
    /\ \A i \in DOMAIN heard : heard[i].type \in {"done", "error"} => i = Len(heard)
    /\ request.kind = "stream" /\ request.at = "over" => heard # <<>> /\ Last(heard).type \in {"done", "error"}
    /\ request.result \in {"answer", "refusal", "garbled", "first", "label"} =>
          meter = <<IF request.reply.refused THEN "refused" ELSE "ok">>

(* Every server that is sent has a toolset, and every feature that is used is declared
   (LLMClient._build_request). *)
FeaturesAreDeclared ==
    /\ request.sent.servers \subseteq request.sent.toolsets
    /\ request.sent.servers # {} => "mcp" \in request.sent.betas
    /\ request.sent.edits # {} \/ request.sent.fallbacks => request.sent.beta

(* A call is one request as the API allows it, one answer, and one line of the meter. *)
CallIsOneAnswer == HeardIsOneMessage /\ EndsOnce /\ FeaturesAreDeclared
=============================================================================
