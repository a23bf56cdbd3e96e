------------------------------ MODULE ChatTurn ------------------------------
(***************************************************************************)
(* One chat turn: the stages of orchestrator.py, the events they yield,    *)
(* the rows they commit, and the stream of routers/chat.py that carries    *)
(* the events through a bounded buffer to a client that may be slow or     *)
(* leave.                                                                  *)
(*                                                                         *)
(* An event is its name. A stage does its work in one step and leaves the  *)
(* events it yields in `outbox', from where _pump sends them one by one;   *)
(* the next stage runs when all are sent, as the generator does.           *)
(***************************************************************************)
EXTENDS Integers, Sequences, SequencesExt, FiniteSets

CONSTANTS
    Capacity,      \* _STREAM_BUFFER
    MaxRounds,     \* bound on the rounds of generation (route.max_iterations + 1)
    MaxTurnFaults, \* bound on the failures
    MaxBeats       \* bound on the heartbeats

ASSUME TurnAssumption == Capacity \in Nat \ {0} /\ {MaxRounds, MaxTurnFaults, MaxBeats} \subseteq Nat

VARIABLES
    stage,     \* what the pipeline does next
    storage,   \* the turn's database session
    poisoned,  \* a statement of the session's transaction failed, nobody rolled back
    owed,      \* state.pending: warnings not yet yielded
    stored,    \* what a commit has made durable
    answer,    \* the stop_reason of the answer, "" while there is none
    rounds,    \* rounds of generation so far
    calls,     \* tool calls: answered, and audit rows flushed and committed
    outbox,    \* events yielded and not yet sent
    buffer,    \* the memory stream between _pump and the response
    seen,      \* events the client has received
    pump,      \* _pump: sending, pushing the sentinel, or done
    client,    \* the reader of the response
    beats,
    turnFaults

turnVars == <<stage, storage, poisoned, owed, stored, answer, rounds, calls, outbox,
              buffer, seen, pump, client, beats, turnFaults>>

\* "unsaved" and "degraded" are the guardrail events by which the turn warns of itself.
Events == {"session", "guardrail", "unsaved", "degraded", "retrieval", "token", "tool_call", "tool_result",
           "citations", "context_stats", "usage", "error", "done"}
Stages == {"open", "input_guard", "user_turn", "refuse", "memory_load", "query_transform",
           "cache_probe", "retrieve", "cache_store", "scan", "ood_gate", "contradiction",
           "tool_plan", "context_assembly", "generate", "dispatch", "citations",
           "output_guard", "answer", "record_turn", "write_back", "finish", "failed", "end"}

TurnTypeOK ==
    /\ stage \in Stages
    /\ storage \in {"own", "none"} /\ poisoned \in BOOLEAN
    /\ owed \in Seq({"unsaved", "degraded"}) /\ Len(owed) <= MaxTurnFaults + 1
    /\ stored \subseteq {"session", "question", "answer"}
    /\ answer \in {"", "end_turn", "guardrail", "out_of_domain"}
    /\ rounds \in 0..MaxRounds
    /\ calls \in [answered : 0..MaxRounds, flushed : 0..MaxRounds, audited : 0..MaxRounds]
    /\ outbox \in Seq(Events)
    /\ buffer \in Seq(Events \cup {"beat", "end"}) /\ Len(buffer) <= Capacity
    /\ seen \in Seq(Events)
    /\ pump \in {"sending", "closing", "closed"}
    /\ client \in {"reading", "finished", "gone"}
    /\ beats \in 0..MaxBeats /\ turnFaults \in 0..MaxTurnFaults

\* Everything the client has been or is about to be told, in order, with the heartbeats and
\* the sentinel that are still among it.
Told == seen \o buffer \o outbox

TurnInit ==
    /\ stage = "open" /\ storage \in {"own", "none"}
    /\ poisoned = FALSE /\ owed = <<>> /\ stored = {} /\ answer = "" /\ rounds = 0
    /\ calls = [answered |-> 0, flushed |-> 0, audited |-> 0]
    /\ outbox = <<>> /\ buffer = <<>> /\ seen = <<>>
    /\ pump = "sending" /\ client = "reading" /\ beats = 0 /\ turnFaults = 0
-----------------------------------------------------------------------------
Wire     == <<buffer, seen, pump, client, beats>>
Database == <<storage, poisoned, stored, calls>>

\* As it would be if a stage's own events came instead of the waiting warnings.
DrainedOnlyNew(waiting, events) == events

\* state.drain(): the warnings that are waiting, then the stage's own events.
Drained(waiting, events) == waiting \o events

\* The pipeline runs a stage when everything it yielded before has been taken.
Reached(s) == stage = s /\ outbox = <<>> /\ pump = "sending" /\ client = "reading"

Fault == turnFaults < MaxTurnFaults /\ turnFaults' = turnFaults + 1

\* An essential stage that fails ends the turn.
Abort == Fault /\ stage' = "failed"
         /\ UNCHANGED <<storage, poisoned, owed, stored, answer, rounds, calls, outbox,
                        Wire>>

(* A stage that may fail and the turn go on: _stage(essential=False) turns the
   exception into a warning.  The session of a failed statement stays in a failed
   transaction, for nobody rolls it back here. *)
Degrades(next, database) ==
    /\ Fault
    /\ stage' = next
    /\ outbox' = Drained(owed, <<"degraded">>) /\ owed' = <<>>
    /\ poisoned' \in IF database /\ storage # "none" THEN BOOLEAN ELSE {poisoned}
    /\ poisoned => poisoned'
    /\ UNCHANGED <<storage, stored, answer, rounds, calls, Wire>>

Works(next, events) ==
    /\ stage' = next
    /\ outbox' = Drained(owed, events) /\ owed' = <<>>
    /\ UNCHANGED <<Database, answer, rounds, turnFaults, Wire>>
-----------------------------------------------------------------------------
\* As it would be if a failed write were rolled back and passed over.
PersistQuietly(what, next) ==
    /\ stage' = next
    /\ UNCHANGED <<owed, turnFaults>>
    /\ \/ stored' = stored \cup {what} /\ ~poisoned /\ UNCHANGED poisoned
       \/ poisoned' = FALSE /\ UNCHANGED stored
    /\ calls' = [calls EXCEPT !.flushed = 0]

(* _persist: run the writes and commit, or roll back and owe a warning.  Without a
   session nothing is written and nothing said. *)
Persist(what, next) ==
    \/ /\ storage = "none"
       /\ stage' = next
       /\ UNCHANGED <<poisoned, owed, stored, calls, turnFaults>>
    \/ /\ storage # "none" /\ ~poisoned
       /\ stage' = next
       /\ stored' = stored \cup {what}
       /\ calls' = [calls EXCEPT !.audited = @ + calls.flushed, !.flushed = 0]
       /\ UNCHANGED <<poisoned, owed, turnFaults>>
    \/ /\ storage # "none"
       /\ IF poisoned THEN UNCHANGED turnFaults ELSE Fault
       /\ stage' = next
       /\ poisoned' = FALSE /\ owed' = Append(owed, "unsaved")
       /\ calls' = [calls EXCEPT !.flushed = 0]
       /\ UNCHANGED stored

\* The turn's session; one that cannot be opened is announced at once.
Open ==
    /\ Reached("open")
    /\ stage' = "input_guard"
    /\ outbox' = Drained(IF storage = "none" THEN <<"unsaved">> ELSE <<>>, <<"session">>)
    /\ UNCHANGED <<Database, owed, answer, rounds, turnFaults, Wire>>

\* The input guard, and the session's row.
InputGuard ==
    /\ Reached("input_guard")
    /\ \/ Abort
       \/ \E blocked \in BOOLEAN :
            /\ answer' = IF blocked THEN "guardrail" ELSE ""
            /\ outbox' = IF blocked THEN <<"guardrail">> ELSE <<>>
            /\ Persist("session", "user_turn")
            /\ UNCHANGED <<storage, rounds, Wire>>

\* The question's row.
UserTurn ==
    /\ Reached("user_turn")
    /\ Persist("question", IF answer = "guardrail" THEN "refuse" ELSE "memory_load")
    /\ UNCHANGED <<storage, answer, rounds, outbox, Wire>>

\* _short_circuit: the refusal, its row, and the closing events.  No drain.
Refuse ==
    /\ Reached("refuse")
    /\ \E text \in {<<>>, <<"token">>} :
         outbox' = text \o <<"citations", "context_stats", "usage", "done">>
    /\ Persist("answer", "end")
    /\ UNCHANGED <<storage, answer, rounds, Wire>>

MemoryLoad ==
    /\ Reached("memory_load")
    /\ Works("query_transform", <<>>) \/ Degrades("query_transform", TRUE)

QueryTransform ==
    /\ Reached("query_transform")
    /\ \/ \E next \in {"cache_probe", "ood_gate"} :
            Works(next, IF next = "ood_gate" THEN <<"retrieval">> ELSE <<>>)
       \/ Degrades("cache_probe", FALSE)

\* A usable cached plan stands in for the search.
CacheProbe ==
    /\ Reached("cache_probe")
    /\ \/ \E next \in {"retrieve", "scan"} : Works(next, <<>>)
       \/ Degrades("retrieve", TRUE)

Retrieve ==
    /\ Reached("retrieve")
    /\ Works("cache_store", <<>>) \/ Abort

CacheStore ==
    /\ Reached("cache_store")
    /\ Works("scan", <<>>) \/ Degrades("scan", TRUE)

ScanRetrieved ==
    /\ Reached("scan")
    /\ \/ \E quarantined \in {<<>>, <<"guardrail">>} :
            Works("ood_gate", quarantined \o <<"retrieval">>)
       \/ /\ Fault
          /\ stage' = "ood_gate" /\ outbox' = <<"degraded", "retrieval">>
          /\ UNCHANGED <<Database, owed, answer, rounds, Wire>>

OodGate ==
    /\ Reached("ood_gate")
    /\ \/ Works("contradiction", <<>>)
       \/ /\ stage' = "refuse" /\ answer' = "out_of_domain"
          /\ outbox' = Drained(owed, <<"guardrail">>) /\ owed' = <<>>
          /\ UNCHANGED <<Database, rounds, turnFaults, Wire>>
       \/ Degrades("contradiction", FALSE)

Contradiction ==
    /\ Reached("contradiction")
    /\ Works("tool_plan", <<>>) \/ Degrades("tool_plan", FALSE)

ToolPlan ==
    /\ Reached("tool_plan")
    /\ Works("context_assembly", <<>>) \/ Degrades("context_assembly", FALSE)

ContextAssembly ==
    /\ Reached("context_assembly")
    /\ Works("generate", <<>>) \/ Abort
-----------------------------------------------------------------------------
(* One round of generation: text, and either the end or a tool call.  The model
   may fail after part of the text was sent. *)
Generate ==
    /\ Reached("generate") /\ rounds < MaxRounds
    /\ rounds' = rounds + 1
    /\ UNCHANGED <<Database, owed, Wire>>
    /\ \E text \in {<<>>, <<"token">>} :
         \/ /\ outbox' = text /\ stage' = "citations" /\ answer' = "end_turn"
            /\ UNCHANGED turnFaults
         \/ /\ outbox' = text \o <<"tool_call">> /\ stage' = "dispatch"
            /\ rounds' < MaxRounds /\ UNCHANGED <<answer, turnFaults>>
         \/ Fault /\ outbox' = text /\ stage' = "failed" /\ UNCHANGED answer

(* The tool call is answered, by a result or by the reason there is none, and the
   audit row is flushed for the next commit; a flush that fails is only logged. *)
Dispatch ==
    /\ Reached("dispatch")
    /\ stage' = "generate"
    /\ outbox' = <<"tool_result">>
    /\ \/ /\ calls' = [calls EXCEPT !.answered = @ + 1,
                        !.flushed = @ + IF storage = "none" \/ poisoned THEN 0 ELSE 1]
          /\ UNCHANGED <<poisoned, turnFaults>>
       \/ /\ storage # "none" /\ ~poisoned /\ Fault
          /\ calls' = [calls EXCEPT !.answered = @ + 1, !.flushed = 0]
          /\ poisoned' = TRUE
    /\ UNCHANGED <<storage, owed, stored, answer, rounds, Wire>>

\* Screening or running the tool raises: the whole turn fails with it.
DispatchRaises == Reached("dispatch") /\ Abort

Citations ==
    /\ Reached("citations")
    /\ Works("output_guard", <<>>) \/ Degrades("output_guard", FALSE)

OutputGuard ==
    /\ Reached("output_guard")
    /\ \/ Abort
       \/ \E findings \in {<<>>, <<"guardrail">>} :
            Works("answer", findings \o <<"citations">>)

PersistAnswer ==
    /\ Reached("answer")
    /\ Persist("answer", "record_turn")
    /\ UNCHANGED <<storage, answer, rounds, outbox, Wire>>

\* record_turn writes the cached window; its warning waits for the next drain.
RecordTurn ==
    /\ Reached("record_turn")
    /\ stage' = "write_back"
    /\ \/ UNCHANGED <<owed, turnFaults>>
       \/ owed' = Append(owed, "degraded") /\ Fault
    /\ UNCHANGED <<Database, answer, rounds, outbox, Wire>>

WriteBack ==
    /\ Reached("write_back")
    /\ Works("finish", <<>>) \/ Degrades("finish", TRUE)

\* As it would be if done came before the usage.
FinishDoneFirst ==
    /\ Reached("finish")
    /\ stage' = "end" /\ outbox' = <<"context_stats", "done", "usage">>
    /\ UNCHANGED <<Database, owed, answer, rounds, turnFaults, Wire>>

Finish ==
    /\ Reached("finish")
    /\ stage' = "end" /\ outbox' = <<"context_stats", "usage", "done">>
    /\ UNCHANGED <<Database, owed, answer, rounds, turnFaults, Wire>>

\* As it would be if an error were the last event.
ReportErrorOnly ==
    /\ Reached("failed")
    /\ stage' = "end" /\ outbox' = <<"error">>
    /\ calls' = [calls EXCEPT !.flushed = 0] /\ poisoned' = FALSE
    /\ UNCHANGED <<storage, owed, stored, answer, rounds, turnFaults, Wire>>

\* stream(): an exception becomes an error event and the turn is done.
ReportFailure ==
    /\ Reached("failed")
    /\ stage' = "end" /\ outbox' = <<"error", "done">>
    /\ calls' = [calls EXCEPT !.flushed = 0] /\ poisoned' = FALSE
    /\ UNCHANGED <<storage, owed, stored, answer, rounds, turnFaults, Wire>>

Pipeline ==
    \/ Open \/ InputGuard \/ UserTurn \/ Refuse \/ MemoryLoad \/ QueryTransform
    \/ CacheProbe \/ Retrieve \/ CacheStore \/ ScanRetrieved \/ OodGate
    \/ Contradiction \/ ToolPlan \/ ContextAssembly \/ Generate \/ Dispatch
    \/ DispatchRaises \/ Citations
    \/ OutputGuard \/ PersistAnswer \/ RecordTurn \/ WriteBack \/ Finish \/ ReportFailure
-----------------------------------------------------------------------------
Turn == <<stage, storage, poisoned, owed, stored, answer, rounds, calls, turnFaults>>

\* _pump sends the next event; DONE is the last it takes from the pipeline.
Send ==
    /\ pump = "sending" /\ client = "reading" /\ outbox # <<>> /\ Len(buffer) < Capacity
    /\ buffer' = Append(buffer, Head(outbox)) /\ outbox' = Tail(outbox)
    /\ pump' = IF Head(outbox) = "done" THEN "closing" ELSE "sending"
    /\ UNCHANGED <<Turn, seen, client, beats>>

\* The sentinel that ends the response, if there is room for it within a second.
SendSentinel ==
    /\ pump = "closing" /\ client = "reading" /\ Len(buffer) < Capacity
    /\ buffer' = Append(buffer, "end") /\ pump' = "closed"
    /\ UNCHANGED <<Turn, outbox, seen, client, beats>>

SentinelTimesOut ==
    /\ pump = "closing" /\ client = "reading" /\ Len(buffer) = Capacity
    /\ pump' = "closed"
    /\ UNCHANGED <<Turn, outbox, buffer, seen, client, beats>>

\* As it would be if the heartbeat did not ask for room.
HeartbeatAnyway ==
    /\ client = "reading" /\ beats < MaxBeats
    /\ buffer' = Append(buffer, "beat") /\ beats' = beats + 1
    /\ UNCHANGED <<Turn, outbox, seen, pump, client>>

(* _heartbeat never waits for room, and a sender that waits gets the place a read
   frees: a heartbeat goes in only while nobody has anything to send. *)
Heartbeat ==
    /\ client = "reading" /\ beats < MaxBeats /\ Len(buffer) < Capacity
    /\ pump = "closed" \/ (pump = "sending" /\ outbox = <<>>)
    /\ buffer' = Append(buffer, "beat") /\ beats' = beats + 1
    /\ UNCHANGED <<Turn, outbox, seen, pump, client>>

Read ==
    /\ client = "reading" /\ buffer # <<>>
    /\ buffer' = Tail(buffer)
    /\ seen' = IF Head(buffer) \in Events THEN Append(seen, Head(buffer)) ELSE seen
    /\ client' = IF Head(buffer) = "end" THEN "finished" ELSE client
    /\ UNCHANGED <<Turn, outbox, pump, beats>>

\* The client disconnects: the tasks are cancelled where they are.
Leave ==
    /\ client = "reading"
    /\ client' = "gone"
    /\ UNCHANGED <<Turn, outbox, buffer, seen, pump, beats>>

Stream == Send \/ SendSentinel \/ SentinelTimesOut \/ Heartbeat \/ Read

TurnNext == Pipeline \/ Stream \/ Leave

TurnSpec == TurnInit /\ [][TurnNext]_turnVars

(* The event loop runs what can run, and the client reads; nothing makes it leave
   and nothing makes the heartbeat late. *)
TurnFairness == WF_turnVars(Pipeline) /\ WF_turnVars(Send) /\ WF_turnVars(SendSentinel)
                /\ WF_turnVars(Read)

FairTurnSpec == TurnSpec /\ TurnFairness
-----------------------------------------------------------------------------
(* The client can tell where a turn stands from the events alone: nothing after done, only
   done after an error, a tool's result (or an error) next after its call, and nothing
   generated after the citations. *)
Orderly(told) ==
    \A i, j \in DOMAIN told : i < j /\ told[j] \in Events =>
        /\ told[i] # "done"
        /\ told[i] = "error" => told[j] = "done"
        /\ told[i] = "citations" => told[j] \notin {"token", "tool_call"}
        /\ told[i] = "tool_call" /\ (\A k \in i + 1..j - 1 : told[k] \notin Events)
           => told[j] \in {"tool_result", "error"}

StreamIsWellFormed == Orderly(Told)

Heard(e) == e \in ToSet(Told)

(* A turn that answered and could not be stored says so: whatever of the question and
   the answer is not in the database by the end of the stream, a warning or an error
   told the client.  A refusal is the exception: _short_circuit does not drain. *)
LossIsTold ==
    /\ stage = "end" /\ outbox = <<>> /\ client # "gone" /\ ~{"question", "answer"} \subseteq stored
    => Heard("unsaved") \/ Heard("error") \/ answer \in {"guardrail", "out_of_domain"}

(* Every tool the turn ran has its audit row, or the client was told that the turn's
   record failed. *)
CallsAreAudited ==
    stage = "end" /\ calls.audited < calls.answered
    => Heard("unsaved") \/ Heard("error")

(* With a client that stays, the last event of a turn that began reaches it, whatever fails and however
   slowly it reads. *)
DoneArrives == stage # "open" ~> (client = "gone" \/ (seen # <<>> /\ Last(seen) = "done"))

(* What _pump says of its sentinel: the response ends without waiting for the heartbeat. *)
ResponseEnds == (pump # "sending") ~> (client # "reading")

\* Nothing of a turn is lost in silence: neither its messages nor its audit rows.
TurnIsAccounted == LossIsTold /\ CallsAreAudited
=============================================================================
