---------------------------- MODULE SessionWindow ----------------------------
(***************************************************************************)
(* One conversation: its rows in Postgres and the window of live turns     *)
(* that short_term.py keeps in a cache, under chat turns                   *)
(* (orchestrator.py), the compaction that context.py runs inside a turn,   *)
(* the compact and delete endpoints (routers/sessions.py), a cache that    *)
(* forgets and a database that fails.                                      *)
(*                                                                         *)
(* A message is its number: larger is later. A rolling summary is the set  *)
(* of messages it stands for.                                              *)
(***************************************************************************)
EXTENDS Integers, FiniteSets

CONSTANTS
    Workers,        \* requests of this session in flight at a time
    MaxMessages,    \* bound on the messages of the session
    MaxHistory,     \* context_max_history_turns
    MinLive,        \* context_min_live_turns
    CompactEvery,   \* context_compact_every_n_turns
    WindowFaults,   \* kinds of failure: "evict", "commit", "load"
    MaxWindowFaults \* bound on the failures

ASSUME WindowAssumption ==
    /\ MaxMessages \in Nat
    /\ MaxHistory \in Nat
    /\ MinLive \in Nat
    /\ CompactEvery \in Nat \ {0}
    /\ WindowFaults \subseteq {"evict", "commit", "load"}
    /\ MaxWindowFaults \in Nat

VARIABLES
    rows,        \* the messages table: which messages are stored, and suppressed
    session,     \* the chat_sessions row: whether it exists, its rolling summary
    cache,       \* the cached SessionWindow
    request,     \* what each worker is doing, with the window it holds
    latest,      \* the number of the latest message
    windowFaults \* failures so far

windowVars == <<rows, session, cache, request, latest, windowFaults>>

Messages == 1..MaxMessages
WorkerPhases == {"idle", "asked", "loaded", "assembled", "answered", "squeezed", "deleting"}

WindowType == [turns: SUBSET Messages, summary: SUBSET Messages, since: 0..MaxMessages]

\* retired: messages whose suppression was flushed to Postgres and not committed.
RequestType == [phase: WorkerPhases, kind: {"turn", "compact"}, window: WindowType,
                retired: SUBSET Messages, answer: 0..MaxMessages]

WindowTypeOK ==
    /\ rows \in [Messages -> {"none", "live", "suppressed"}]
    /\ session \in [exists: BOOLEAN, summary: SUBSET Messages]
    /\ cache \in [hit: BOOLEAN, window: WindowType]
    /\ request \in [Workers -> RequestType]
    /\ latest \in 0..MaxMessages
    /\ windowFaults \in 0..MaxWindowFaults

EmptyWindow == [turns |-> {}, summary |-> {}, since |-> 0]
NoRequest   == [phase |-> "idle", kind |-> "turn", window |-> EmptyWindow,
                retired |-> {}, answer |-> 0]
Miss        == [hit |-> FALSE, window |-> EmptyWindow]
Cached(win) == [hit |-> TRUE, window |-> win]

WindowInit ==
    /\ rows = [m \in Messages |-> "none"]
    /\ session = [exists |-> FALSE, summary |-> {}]
    /\ cache = Miss
    /\ request = [w \in Workers |-> NoRequest]
    /\ latest = 0
    /\ windowFaults = 0

WindowFault(kind) ==
    /\ kind \in WindowFaults
    /\ windowFaults < MaxWindowFaults
    /\ windowFaults' = windowFaults + 1

Live == {m \in Messages : rows[m] = "live"}

\* The last n of a set of messages.
Newest(set, n) == {m \in set : Cardinality({k \in set : k > m}) < n}

-----------------------------------------------------------------------------
(* A turn. *)

\* _ensure_session and _persist_user_turn: the question is stored, or the failure
\* is swallowed and the turn goes on.
Ask(w) ==
    /\ request[w].phase = "idle"
    /\ latest < MaxMessages
    /\ \/ /\ session' = [session EXCEPT !.exists = TRUE]
          /\ rows' = [rows EXCEPT ![latest + 1] = "live"]
          /\ latest' = latest + 1
          /\ UNCHANGED windowFaults
       \/ /\ WindowFault("commit")
          /\ UNCHANGED <<rows, session, latest>>
    /\ request' = [request EXCEPT ![w] = [NoRequest EXCEPT !.phase = "asked"]]
    /\ UNCHANGED cache

\* Mutant: suppressed rows are read too.
HydratedAll ==
    [turns |-> Newest({m \in Messages : rows[m] # "none"}, MaxHistory),
     summary |-> session.summary, since |-> 0]

\* _hydrate: the newest unsuppressed rows and the stored summary.
Hydrated == [turns |-> Newest(Live, MaxHistory), summary |-> session.summary, since |-> 0]

\* ShortTermMemory.load: the cached window, or the one in Postgres, which is cached.
\* When Postgres fails the stage degrades to an empty window.
LoadWindow(w, win) ==
    \/ /\ cache.hit
       /\ win = cache.window
       /\ UNCHANGED <<cache, windowFaults>>
    \/ /\ ~cache.hit
       /\ win = Hydrated
       /\ cache' = Cached(win)
       /\ UNCHANGED windowFaults
    \/ /\ ~cache.hit
       /\ WindowFault("load")
       /\ win = EmptyWindow
       /\ UNCHANGED cache

LoadMemory(w) ==
    /\ request[w].phase = "asked"
    /\ \E win \in {cache.window, Hydrated, EmptyWindow} :
         /\ LoadWindow(w, win)
         /\ request' = [request EXCEPT ![w].phase = "loaded", ![w].window = win]
    /\ UNCHANGED <<rows, session, latest>>

\* Mutant: the summary is rewritten from the retired turns alone.
CompactedAlone(win, victims) ==
    IF victims = {} THEN win
    ELSE [turns |-> win.turns \ victims, summary |-> victims, since |-> 0]

\* compact: fold the victims into the summary and drop them from the window.
Compacted(win, victims) ==
    IF victims = {} THEN win
    ELSE [turns |-> win.turns \ victims, summary |-> win.summary \cup victims, since |-> 0]

\* Mutant: nothing is protected.
SuppressibleAll(win) == win.turns

\* suppressible: all but the newest MinLive turns.
Suppressible(win) == win.turns \ Newest(win.turns, MinLive)

\* _compaction_reason; `over' says that the projected prompt passes the ratio.
CompactionDue(win, over) ==
    /\ Cardinality(win.turns) > MinLive
    /\ \/ Cardinality(win.turns) > MaxHistory
       \/ win.since >= CompactEvery
       \/ over

\* What assemble leaves of the window: compaction if due, then whatever the packing
\* could not fit (some of the turns that are not protected) is folded too.
Assembled(win) ==
    LET kept == {Compacted(win, IF CompactionDue(win, over) THEN Suppressible(win) ELSE {}) :
                   over \in BOOLEAN}
    IN  UNION {{Compacted(k, overflow) : overflow \in SUBSET Suppressible(k)} : k \in kept}

\* Suppression is flushed inside the turn's transaction, so its row locks keep
\* other suppressions out until the commit.
NoneFlushed(w) == \A v \in Workers \ {w} : request[v].retired = {}

\* assemble: compact, flush the suppression, save the window to the cache.
Assemble(w) ==
    /\ request[w].phase = "loaded"
    /\ \E win \in Assembled(request[w].window) :
         /\ win.turns # request[w].window.turns => NoneFlushed(w)
         /\ cache' = Cached(win)
         /\ request' = [request EXCEPT ![w].phase = "assembled", ![w].window = win,
                                       ![w].retired = request[w].window.turns \ win.turns]
    /\ UNCHANGED <<rows, session, latest, windowFaults>>

\* Mutant: a status that nothing reads.
SuppressedUnread(w) ==
    [m \in Messages |-> IF m \in request[w].retired /\ rows[m] = "live"
                        THEN "compacted" ELSE rows[m]]

\* What committing the flushed suppression makes of rows and summary.
Suppressed(w) ==
    [m \in Messages |-> IF m \in request[w].retired /\ rows[m] = "live"
                        THEN "suppressed" ELSE rows[m]]
SummaryOf(w) == IF request[w].retired = {} THEN session.summary ELSE request[w].window.summary

\* _persist_assistant_turn: the answer and the suppression are committed together,
\* or rolled back together; the turn goes on either way.  Without its session row the
\* answer cannot be stored.
PersistAnswer(w) ==
    /\ request[w].phase = "assembled"
    /\ request[w].kind = "turn"
    /\ latest < MaxMessages
    /\ latest' = latest + 1
    /\ \/ /\ session.exists
          /\ rows' = [Suppressed(w) EXCEPT ![latest + 1] = "live"]
          /\ session' = [session EXCEPT !.summary = SummaryOf(w)]
          /\ UNCHANGED windowFaults
       \/ /\ ~session.exists
          /\ UNCHANGED <<rows, session, windowFaults>>
       \/ /\ session.exists
          /\ WindowFault("commit")
          /\ UNCHANGED <<rows, session>>
    /\ request' = [request EXCEPT ![w].phase = "answered", ![w].answer = latest + 1,
                                  ![w].retired = {}]
    /\ UNCHANGED cache

\* record_turn: append the answer and save.  The question was never appended.
RecordAnswer(w) ==
    /\ request[w].phase = "answered"
    /\ cache' = Cached([request[w].window EXCEPT !.turns = @ \cup {request[w].answer},
                                                !.since = @ + 1])
    /\ request' = [request EXCEPT ![w] = NoRequest]
    /\ UNCHANGED <<rows, session, latest, windowFaults>>

\* An essential stage fails after the assembly: the transaction is rolled back, the
\* cache keeps what assemble saved.
FailTurn(w) ==
    /\ request[w].phase \in {"loaded", "assembled"}
    /\ request[w].kind = "turn"
    /\ WindowFault("commit")
    /\ request' = [request EXCEPT ![w] = NoRequest]
    /\ UNCHANGED <<rows, session, cache, latest>>

-----------------------------------------------------------------------------
(* The session endpoints. *)

\* compact_session: load, compact everything that may be, save to the cache.
CompactSession(w) ==
    /\ request[w].phase = "idle"
    /\ session.exists
    /\ \E loaded \in {cache.window, Hydrated} :
         /\ IF cache.hit THEN loaded = cache.window ELSE loaded = Hydrated
         /\ LET win == Compacted(loaded, Suppressible(loaded))
            IN  /\ win.turns # loaded.turns => NoneFlushed(w)
                /\ cache' = Cached(win)
                /\ request' = [request EXCEPT ![w] =
                     [NoRequest EXCEPT !.phase = "squeezed", !.kind = "compact", !.window = win,
                                       !.retired = loaded.turns \ win.turns]]
    /\ UNCHANGED <<rows, session, latest, windowFaults>>

\* persist_compaction and commit; then assemble once more for the statistics.
CommitCompaction(w) ==
    /\ request[w].phase = "squeezed"
    /\ rows' = Suppressed(w)
    /\ session' = [session EXCEPT !.summary = SummaryOf(w)]
    /\ request' = [request EXCEPT ![w].phase = "loaded", ![w].retired = {}]
    /\ UNCHANGED <<cache, latest, windowFaults>>

\* The statistics' assembly is committed and nothing is recorded.
FinishCompaction(w) ==
    /\ request[w].phase = "assembled"
    /\ request[w].kind = "compact"
    /\ rows' = Suppressed(w)
    /\ session' = [session EXCEPT !.summary = SummaryOf(w)]
    /\ request' = [request EXCEPT ![w] = NoRequest]
    /\ UNCHANGED <<cache, latest, windowFaults>>

\* delete_session: the rows go with the session, then the cache is cleared.
DeleteSession(w) ==
    /\ request[w].phase = "idle"
    /\ session.exists
    /\ NoneFlushed(w)
    /\ rows' = [m \in Messages |-> "none"]
    /\ session' = [exists |-> FALSE, summary |-> {}]
    /\ request' = [request EXCEPT ![w].phase = "deleting"]
    /\ UNCHANGED <<cache, latest, windowFaults>>

ClearCache(w) ==
    /\ request[w].phase = "deleting"
    /\ cache' = Miss
    /\ request' = [request EXCEPT ![w] = NoRequest]
    /\ UNCHANGED <<rows, session, latest, windowFaults>>

\* The cached window expires, or the store restarts.
Evict ==
    /\ cache.hit
    /\ WindowFault("evict")
    /\ cache' = Miss
    /\ UNCHANGED <<rows, session, request, latest>>

WindowNext ==
    \/ \E w \in Workers :
         \/ Ask(w) \/ LoadMemory(w) \/ Assemble(w) \/ RecordAnswer(w) \/ FailTurn(w)
         \/ PersistAnswer(w)
         \/ CompactSession(w) \/ CommitCompaction(w) \/ FinishCompaction(w)
         \/ DeleteSession(w) \/ ClearCache(w)
    \/ Evict

WindowSpec == WindowInit /\ [][WindowNext]_windowVars
-----------------------------------------------------------------------------
(* Properties. *)

\* "Suppression is lossless" (short_term.py): a row that is suppressed is part of the
\* stored summary, through commits that fail, caches that forget and sessions that are
\* compacted by hand.
SuppressionIsLossless == \A m \in Messages : rows[m] = "suppressed" => m \in session.summary

\* Between requests the cached window never replays a turn that Postgres has as
\* suppressed: the two drop a turn together, or Postgres alone keeps it.
NoStaleReplay ==
    (cache.hit /\ \A w \in Workers : request[w].phase = "idle")
      => \A m \in cache.window.turns : rows[m] # "suppressed"

\* A suppressed turn is in the summary and nowhere in the window: what a session was told
\* is kept once, in the rows, the summary and the cache together.
WindowIsFaithful == SuppressionIsLossless /\ NoStaleReplay

\* What short_term.py says of the window ("never silently dropped"): a turn that has
\* loaded its window without a failure replays every stored turn among the newest
\* MaxHistory that is neither summarised nor its own question.
EarlierTurnsAreReplayed ==
    \A w \in Workers :
      (request[w].phase = "loaded" /\ request[w].kind = "turn" /\ windowFaults = 0)
        => Newest(Live, MaxHistory) \ {latest} \subseteq request[w].window.turns
=============================================================================
