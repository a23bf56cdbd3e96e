-------------------------------- MODULE WebChat --------------------------------
(***************************************************************************)
(* The chat of the browser (web/src): the hook that drives POST /chat and  *)
(* folds its events into the store, the sidebar whose requests replace     *)
(* what the store shows, and the token of the requests.                    *)
(*                                                                         *)
(* A `run' is one call of the hook's run: a prompt, sent again while no    *)
(* token has come. A `post' is one request the API accepted; its n-th      *)
(* token is <<post, n>>. Everything awaits, so two runs and several        *)
(* answers to the sidebar may be under way at once.                        *)
(***************************************************************************)
EXTENDS Integers, Sequences, SequencesExt, FiniteSets

CONSTANTS
    Sessions,      \* the sessions the API may know
    Listed,        \* those the sidebar lists at first
    MaxTurns,      \* bound: the turns a user begins
    StreamRetries, \* streamMaxRetries
    AnswerLength,  \* bound: the tokens of an answer
    MaxAsked       \* bound: the requests of the sidebar

ASSUME WebAssumption == Listed \subseteq Sessions /\ StreamRetries \in Nat

VARIABLES
    chat,          \* the store: what is shown, in which session, and whether it streams
    runs,          \* the runs, in the order they began
    abortRef,      \* the run that the stop button aborts, or 0
    posts,         \* the requests the API accepted
    recorded,      \* per session, the posts whose turns the API keeps
    asked,         \* the requests of the sidebar, in the order they were sent
    signedIn

webVars == <<chat, runs, abortRef, posts, recorded, asked, signedIn>>

NoSession == "none"
Pending   == 0     \* PENDING_MESSAGE_ID; the id of post n is n, and a local id is -1
Local     == -1

UserMessage    == [id |-> Local, text |-> <<>>]
PendingMessage == [id |-> Pending, text |-> <<>>]
EmptyChat == [active |-> NoSession, messages |-> <<>>, streaming |-> FALSE, failed |-> FALSE,
              prompted |-> FALSE, listed |-> Listed]
Run(session) == [session |-> session, phase |-> "sending", attempt |-> 0,
                 post |-> 0, tokens |-> FALSE, done |-> FALSE, error |-> FALSE, late |-> FALSE,
                 silent |-> FALSE]

WebInit ==
    /\ chat = EmptyChat /\ runs = <<>> /\ abortRef = 0 /\ posts = <<>> /\ asked = <<>>
    /\ recorded = [s \in Sessions |-> <<>>] /\ signedIn = TRUE

Tokens(post, sent) == [k \in 1..sent |-> <<post, k>>]

WebTypeOK ==
    /\ chat.active \in Sessions \cup {NoSession} /\ chat.listed \subseteq Sessions
    /\ \A i \in DOMAIN chat.messages : chat.messages[i].id \in Local..Len(posts)
    /\ \A t \in DOMAIN runs : /\ runs[t].phase \in {"sending", "open", "backoff", "over"}
                              /\ runs[t].attempt \in 0..StreamRetries /\ runs[t].post \in 0..Len(posts)
    /\ abortRef \in 0..Len(runs)
    /\ \A s \in Sessions : \A k \in DOMAIN recorded[s] : recorded[s][k] \in DOMAIN posts
-----------------------------------------------------------------------------
(* The store. *)

\* Every message that still has the pending id takes this id, and more text.
PendingBecome(id, more) == [i \in DOMAIN chat.messages |->
    LET m == chat.messages[i] IN
    IF m.id = Pending THEN [m EXCEPT !.id = id, !.text = @ \o more] ELSE m]

Begun(kept) == [chat EXCEPT !.messages = kept \o <<UserMessage, PendingMessage>>,
                            !.streaming = TRUE, !.failed = FALSE, !.prompted = TRUE]

Finished(id) == [chat EXCEPT !.streaming = FALSE,
                             !.messages = PendingBecome(id, <<>>)]

\* A failed turn keeps its pending message, and the message its pending id.
Failed == [chat EXCEPT !.streaming = FALSE, !.failed = TRUE]

\* setSessionId: the session is active from now on, and the list learns of it.
Adopted(session) == [chat EXCEPT !.active = session, !.listed = @ \cup {session}]

Shown(session) == [chat EXCEPT !.active = session, !.messages = <<>>, !.failed = FALSE]

Removed(session) == [chat EXCEPT !.listed = @ \ {session},
                                 !.active = IF @ = session THEN NoSession ELSE @,
                                 !.messages = IF chat.active = session THEN <<>> ELSE @]
-----------------------------------------------------------------------------
(* The user. *)

Send ==
    /\ signedIn /\ ~chat.streaming /\ Len(runs) < MaxTurns
    /\ chat' = Begun(chat.messages)
    /\ runs' = Append(runs, Run(chat.active)) /\ abortRef' = Len(runs) + 1
    /\ UNCHANGED <<posts, recorded, asked, signedIn>>

(* Resend, offered while an error is shown: the last two messages go, and the prompt is
   asked again. *)
Resend ==
    /\ signedIn /\ ~chat.streaming /\ chat.prompted /\ chat.failed /\ Len(runs) < MaxTurns
    /\ chat' = Begun(SubSeq(chat.messages, 1, Len(chat.messages) - 2))
    /\ runs' = Append(runs, Run(chat.active)) /\ abortRef' = Len(runs) + 1
    /\ UNCHANGED <<posts, recorded, asked, signedIn>>

\* The run's promise ends; its controller no longer is the one to abort.
Over(t) == /\ runs' = [runs EXCEPT ![t] = [Run(NoSession) EXCEPT !.phase = "over", !.late = runs[t].late]]
           /\ abortRef' = IF abortRef = t THEN 0 ELSE abortRef

(* The stop button, shown while an answer streams, and the hook's clean-up once the
   sign-in screen has replaced the chat: both abort the run that is being read or sent,
   and neither does anything to a run that waits to be sent again. *)
Stop ==
    /\ chat.streaming \/ ~signedIn
    /\ abortRef # 0 /\ runs[abortRef].phase \in {"sending", "open"}
    /\ chat' = Finished(Local) /\ Over(abortRef)
    /\ UNCHANGED <<posts, recorded, asked, signedIn>>

NewConversation ==
    /\ signedIn /\ ~chat.streaming /\ chat.active # NoSession
    /\ chat' = Shown(NoSession)
    /\ UNCHANGED <<runs, abortRef, posts, recorded, asked, signedIn>>

\* A request that was answered wants nothing any more.
Ask(session, want) == asked' = Append(asked, [want |-> want, session |-> session])

OpenSession(session) ==
    /\ signedIn /\ ~chat.streaming /\ session \in chat.listed /\ Len(asked) < MaxAsked
    /\ chat' = Shown(session) /\ Ask(session, "open")
    /\ UNCHANGED <<runs, abortRef, posts, recorded, signedIn>>

\* Compaction and deletion stay enabled while an answer streams.
Manage(session, want) ==
    /\ signedIn /\ session \in chat.listed /\ Len(asked) < MaxAsked /\ want \in {"compact", "delete"}
    /\ \A i \in DOMAIN asked : asked[i].session = session => asked[i].want \in {"open", "none"}
    /\ Ask(session, want)
    /\ UNCHANGED <<chat, runs, abortRef, posts, recorded, signedIn>>
-----------------------------------------------------------------------------
(* The answers to the sidebar, in any order. *)

\* toUiMessage of the two messages of every turn the API kept.
Stored(session) == LET kept == recorded[session] IN
    [i \in 1..2 * Len(kept) |->
        IF i % 2 = 1 THEN UserMessage
        ELSE [id |-> kept[i \div 2], text |-> Tokens(kept[i \div 2], posts[kept[i \div 2]].sent)]]

(* The messages of an opened or compacted session replace the shown ones, whatever is
   active or streaming by then; a failed request changes nothing. *)
AnswerSidebar(i) ==
    LET want == asked[i].want   session == asked[i].session IN
    /\ want # "none" /\ asked' = [asked EXCEPT ![i].want = "none"]
    /\ \/ /\ want = "delete" /\ chat' = Removed(session)
          /\ recorded' = [recorded EXCEPT ![session] = <<>>]
       \/ /\ want # "delete" /\ chat' = [chat EXCEPT !.messages = Stored(session)]
          /\ UNCHANGED recorded
       \/ UNCHANGED <<chat, recorded>>
    /\ UNCHANGED <<runs, abortRef, posts, signedIn>>
-----------------------------------------------------------------------------
(* One attempt of a run. *)

MayResendAnyway(t, status) == status \in {"none", "5xx"}

\* A failure without a status or with a 5xx may be tried again.
MayResend(t, status) == ~runs[t].tokens /\ status \in {"none", "5xx"}

Fails(t, status) ==
    IF MayResend(t, status) /\ runs[t].attempt < StreamRetries
    THEN /\ runs' = [runs EXCEPT ![t].phase = "backoff", ![t].attempt = @ + 1, ![t].silent = FALSE,
                                 ![t].late = @ \/ runs[t].done]
         /\ chat' = [chat EXCEPT !.failed = FALSE]
         /\ abortRef' = IF abortRef = t THEN 0 ELSE abortRef
    ELSE /\ chat' = Failed
         /\ runs' = [runs EXCEPT ![t] = [Run(NoSession) EXCEPT !.phase = "over", !.late = runs[t].late \/ runs[t].done]]
         /\ abortRef' = IF abortRef = t THEN 0 ELSE abortRef

(* The API takes the question, under a session of its own when the request names none,
   and opens the stream with the session's event. *)
Accept(t) ==
    /\ runs[t].phase = "sending"
    /\ \E s \in (IF runs[t].session = NoSession THEN Sessions \ chat.listed ELSE {runs[t].session}) :
          /\ posts' = Append(posts, [run |-> t, session |-> s, sent |-> 0])
          /\ runs' = [runs EXCEPT ![t].phase = "open", ![t].post = Len(posts) + 1, ![t].session = s]
          /\ chat' = Adopted(s)
    /\ UNCHANGED <<abortRef, recorded, asked, signedIn>>

\* A 401 that a newly acquired token does not mend fails the turn and signs the user out.
Unauthorized(t) ==
    /\ runs[t].phase = "sending" /\ Fails(t, "4xx") /\ signedIn' = FALSE
    /\ UNCHANGED <<posts, recorded, asked>>

\* The request fails: no network, no token, or an answer that is not a stream.
Settle(t) ==
    /\ runs[t].phase = "sending"
    /\ \E status \in {"none", "4xx", "5xx"} : Fails(t, status)
    /\ UNCHANGED <<posts, recorded, asked, signedIn>>

Wake(t) ==
    /\ runs[t].phase = "backoff"
    /\ runs' = [runs EXCEPT ![t].phase = "sending", ![t].tokens = FALSE, ![t].done = FALSE,
                            ![t].error = FALSE]
    /\ abortRef' = t
    /\ UNCHANGED <<chat, posts, recorded, asked, signedIn>>
-----------------------------------------------------------------------------
(* What an open stream brings, while it brings anything at all: the events, and comments that
   say nothing but keep it alive. *)

Alive(t)    == runs[t].phase = "open" /\ ~runs[t].silent
Speaking(t) == Alive(t) /\ ~runs[t].done /\ ~runs[t].error
PostOf(t)   == posts[runs[t].post]

OnToken(t) ==
    /\ Speaking(t) /\ PostOf(t).sent < AnswerLength
    /\ posts' = [posts EXCEPT ![runs[t].post].sent = @ + 1]
    /\ runs' = [runs EXCEPT ![t].tokens = TRUE]
    /\ chat' = [chat EXCEPT !.messages =
          PendingBecome(Pending, <<<<runs[t].post, PostOf(t).sent + 1>>>>)]
    /\ UNCHANGED <<abortRef, recorded, asked, signedIn>>

\* The API keeps the turn before it says it is done.
OnDone(t) ==
    /\ Speaking(t)
    /\ recorded' = [recorded EXCEPT ![PostOf(t).session] = Append(@, runs[t].post)]
    /\ runs' = [runs EXCEPT ![t].done = TRUE]
    /\ chat' = Finished(runs[t].post)
    /\ UNCHANGED <<abortRef, posts, asked, signedIn>>

OnError(t) ==
    /\ Speaking(t) /\ runs' = [runs EXCEPT ![t].error = TRUE]
    /\ UNCHANGED <<chat, abortRef, posts, recorded, asked, signedIn>>

\* The stream ends: an error that was told fails the turn, and one that never said it was done is over.
Close(t) ==
    /\ Alive(t) /\ Over(t)
    /\ chat' = IF runs[t].error THEN Failed ELSE IF runs[t].done THEN chat ELSE Finished(Local)
    /\ UNCHANGED <<posts, recorded, asked, signedIn>>

\* The connection is lost.
Break(t) ==
    /\ runs[t].phase = "open" /\ Fails(t, "none")
    /\ UNCHANGED <<posts, recorded, asked, signedIn>>

\* From now on the stream brings nothing, not even a comment, and nobody says it has ended.
FallSilent(t) ==
    /\ Alive(t) /\ runs' = [runs EXCEPT ![t].silent = TRUE]
    /\ UNCHANGED <<chat, abortRef, posts, recorded, asked, signedIn>>

\* As it would be if the timer were set by what the stream brings and not before.
IdleOnceHeard(t) ==
    /\ runs[t].phase = "open" /\ runs[t].silent /\ runs[t].tokens /\ Fails(t, "none")
    /\ UNCHANGED <<posts, recorded, asked, signedIn>>

(* Nothing was read for the time of the idle timer, which is set once the answer has begun and
   again by every chunk. *)
IdleTimeout(t) ==
    /\ runs[t].phase = "open" /\ runs[t].silent /\ Fails(t, "none")
    /\ UNCHANGED <<posts, recorded, asked, signedIn>>
-----------------------------------------------------------------------------
WebNext ==
    \/ Send \/ Resend \/ Stop \/ NewConversation
    \/ \E s \in Sessions : OpenSession(s) \/ \E want \in {"compact", "delete"} : Manage(s, want)
    \/ \E i \in DOMAIN asked : AnswerSidebar(i)
    \/ \E t \in DOMAIN runs :
          \/ Accept(t) \/ Unauthorized(t) \/ Settle(t) \/ Wake(t)
          \/ OnToken(t) \/ OnDone(t) \/ OnError(t) \/ Close(t) \/ Break(t)
          \/ FallSilent(t) \/ IdleTimeout(t)

\* The browser's own timers fire.  Nothing is asked of the user, the API or the network.
WebFairness == \A t \in 1..MaxTurns : WF_webVars(t \in DOMAIN runs /\ (Wake(t) \/ IdleTimeout(t)))

WebSpec == WebInit /\ [][WebNext]_webVars /\ WebFairness
-----------------------------------------------------------------------------
(* A silent retry never doubles an answer: what one run puts into a message is the answer
   to one post (useChatStream.ts, the reconnect policy). *)
NoAnswerIsDoubled == \A i \in DOMAIN chat.messages : LET text == chat.messages[i].text IN
    \A k, l \in DOMAIN text :
        posts[text[k][1]].run = posts[text[l][1]].run => text[k][1] = text[l][1]

(* A message that has the id the API gave is whole: it ends with every token of that
   answer, unless some stream broke after it had said it was done. *)
FinishedIsWhole == (\A t \in DOMAIN runs : ~runs[t].late) =>
    \A i \in DOMAIN chat.messages : LET m == chat.messages[i] IN
        m.id > 0 => IsSuffix(Tokens(m.id, posts[m.id].sent), m.text)

(* What is shown of the answers can be trusted to be what the API said. *)
TranscriptIsHonest == NoAnswerIsDoubled /\ FinishedIsWhole

\* The API keeps a run: it does not answer the request, or keeps the stream alive, by comments if need be.
Held(t) == t \in DOMAIN runs /\ (runs[t].phase = "sending" \/ Alive(t))

(* A turn that streams stops streaming, unless the API keeps one of its runs for ever: a stream
   that falls silent is given up, and a run that waits to be sent again is sent
   (useChatStream.run, streamChat's idle timer). *)
TurnSettles == (chat.streaming ~> ~chat.streaming) \/ \E t \in 1..MaxTurns : <>[]Held(t)
=============================================================================
