----------------------------- MODULE SharedProofs -----------------------------
(***************************************************************************)
(* Proofs about what outlives a request: the session's window, the user's  *)
(* memories, the retrieval plans that turns share, and a REST tool's       *)
(* circuit, token and results.                                             *)
(***************************************************************************)
EXTENDS SessionWindow, SemanticCache, LongTermMemory, ToolCalls, FiniteSetTheorems, WellFoundedInduction, TLAPS

-----------------------------------------------------------------------------
(* The session's window, under one request of the session at a time *)

\* What is suppressed in Postgres.
Retired == {m \in Messages : rows[m] = "suppressed"}

\* A window that a turn or the cache holds: it replays nothing suppressed, summarises
\* everything that is, and counts no more turns than there were messages.
Faithful(win) ==
    /\ Retired \subseteq win.summary
    /\ Retired \cap win.turns = {}
    /\ win.since <= latest

Holding == {"loaded", "assembled", "answered", "squeezed"}
Flushed == {"assembled", "squeezed"}

\* The request in flight holds a faithful window; while its suppression is flushed
\* and not committed the window summarises what is about to be suppressed, and the
\* cache holds that window or none.
RequestInv(w) ==
    /\ request[w].phase \in Holding => Faithful(request[w].window)
    /\ request[w].phase \in Flushed =>
         /\ request[w].retired \subseteq request[w].window.summary
         /\ request[w].retired \cap request[w].window.turns = {}
         /\ cache.hit => cache.window = request[w].window
    /\ request[w].phase = "answered" =>
         /\ request[w].answer \in Messages /\ rows[request[w].answer] # "suppressed"
         /\ request[w].window.since < latest

\* The strengthening of SuppressionIsLossless and NoStaleReplay.
WindowInv ==
    /\ WindowTypeOK
    /\ Retired \subseteq session.summary
    /\ cache.hit => Faithful(cache.window)
    /\ \A m \in Messages : m > latest => rows[m] = "none"
    /\ \A w \in Workers : RequestInv(w)

\* The turns of one conversation come one after the other, and Postgres answers.
OneAtATime == (\E w : Workers = {w}) /\ "load" \notin WindowFaults

\* Compacting moves what it takes out of a window into the window's summary.
LEMMA CompactedFacts ==
  ASSUME NEW win \in WindowType, NEW victims \in SUBSET win.turns
  PROVE  /\ Compacted(win, victims) \in WindowType
         /\ Compacted(win, victims).turns = win.turns \ victims
         /\ Compacted(win, victims).summary = win.summary \cup victims
        /\ Compacted(win, victims).since \in {0, win.since}
  BY WindowAssumption DEF Compacted, WindowType

\* So does everything assemble may do.
LEMMA AssembledFacts ==
  ASSUME NEW win \in WindowType, NEW new \in Assembled(win)
  PROVE  /\ new \in WindowType
         /\ new.turns \subseteq win.turns
         /\ new.summary = win.summary \cup (win.turns \ new.turns)
        /\ new.since \in {0, win.since}
  <1> DEFINE taken(over) == IF CompactionDue(win, over) THEN Suppressible(win) ELSE {}
  <1>1. PICK over \in BOOLEAN :
          \E overflow \in SUBSET Suppressible(Compacted(win, taken(over))) :
            new = Compacted(Compacted(win, taken(over)), overflow)
    BY DEF Assembled
  <1> DEFINE victims == taken(over)
             kept    == Compacted(win, victims)
  <1>6. PICK overflow \in SUBSET Suppressible(kept) : new = Compacted(kept, overflow)
    BY <1>1
  <1>2. victims \subseteq win.turns
    BY DEF Suppressible
  <1> HIDE DEF victims
  <1>3. /\ kept \in WindowType
        /\ kept.turns = win.turns \ victims
        /\ kept.summary = win.summary \cup victims
        /\ kept.since \in {0, win.since}
    BY <1>2, CompactedFacts
  <1> HIDE DEF kept
  <1>4. overflow \subseteq kept.turns
    BY <1>6 DEF Suppressible
  <1>5. /\ new \in WindowType
        /\ new.turns = kept.turns \ overflow
        /\ new.summary = kept.summary \cup overflow
        /\ new.since \in {0, kept.since}
    BY <1>3, <1>4, <1>6, CompactedFacts
  <1> QED BY <1>2, <1>3, <1>4, <1>5 DEF WindowType

\* A window with no turns and no summary is a window.
LEMMA EmptyWindowType == EmptyWindow \in WindowType /\ NoRequest \in RequestType
  BY WindowAssumption DEF EmptyWindow, NoRequest, WindowType, RequestType, WorkerPhases

LEMMA HydratedFacts ==
  ASSUME WindowInv
  PROVE  Hydrated \in WindowType /\ Faithful(Hydrated)
  BY WindowAssumption DEF Hydrated, WindowInv, WindowTypeOK, WindowType, Newest, Live, Faithful,
     Retired, Messages

\* A request's step that leaves Postgres alone keeps the invariant when the record and
\* the cache it leaves behind do.
LEMMA RequestStep ==
  ASSUME WindowInv, NEW w \in Workers, Workers = {w},
         NEW new \in RequestType, request' = [request EXCEPT ![w] = new],
         UNCHANGED <<rows, session>>, windowFaults' \in 0..MaxWindowFaults,
         latest' = latest \/ (latest < MaxMessages /\ latest' = latest + 1),
         cache' \in [hit : BOOLEAN, window : WindowType],
         cache'.hit => Faithful(cache'.window),
         new.phase \in Holding => Faithful(new.window),
         new.phase \in Flushed =>
           /\ new.retired \subseteq new.window.summary
           /\ new.retired \cap new.window.turns = {}
           /\ cache'.hit => cache'.window = new.window,
         new.phase = "answered" =>
           /\ new.answer \in Messages /\ rows[new.answer] # "suppressed"
           /\ new.window.since < latest'
  PROVE  WindowInv'
  <1>1. request' \in [Workers -> RequestType] /\ request'[w] = new
    BY DEF WindowInv, WindowTypeOK
  <1>2. Retired' = Retired
    BY DEF Retired
  <1>3. latest \in 0..MaxMessages /\ latest' \in 0..MaxMessages /\ latest <= latest'
    BY WindowAssumption DEF WindowInv, WindowTypeOK
  <1>4. WindowTypeOK'
    BY <1>1, <1>3 DEF WindowInv, WindowTypeOK
  <1>5. ASSUME NEW win \in WindowType, Faithful(win)
        PROVE  Retired' \subseteq win.summary /\ Retired' \cap win.turns = {} /\ win.since <= latest'
    BY <1>2, <1>3, <1>5, WindowAssumption DEF Faithful, WindowType
  <1>6. RequestInv(w)'
    <2>1. new.window \in WindowType
      BY DEF RequestType
    <2> QED BY <1>1, <1>5, <2>1 DEF RequestInv, Faithful
  <1>7. (cache.hit => Faithful(cache.window))'
    BY <1>5 DEF Faithful
  <1>8. \A m \in Messages : m > latest' => rows'[m] = "none"
    BY <1>3, WindowAssumption DEF WindowInv, Messages
  <1>9. Retired' \subseteq session'.summary
    BY <1>2 DEF WindowInv
  <1> QED BY <1>4, <1>6, <1>7, <1>8, <1>9 DEF WindowInv

\* Committing what a request has flushed keeps the invariant: the window it holds, and
\* the cache, summarise what is committed.
LEMMA CommitStep ==
  ASSUME WindowInv, NEW w \in Workers, Workers = {w}, request[w].phase \in Flushed,
         NEW new \in RequestType, request' = [request EXCEPT ![w] = new],
         new.phase \notin Flushed, new.window = request[w].window \/ new.phase \notin Holding,
         new.phase = "answered" => new.answer = latest' /\ latest' = latest + 1,
         \/ rows' = Suppressed(w) /\ latest' = latest
         \/ /\ latest' = latest + 1 /\ latest' \in Messages
            /\ rows' = [Suppressed(w) EXCEPT ![latest + 1] = "live"],
         session' = [session EXCEPT !.summary = SummaryOf(w)],
         UNCHANGED <<cache, windowFaults>>
  PROVE  WindowInv'
  <1>1. request' \in [Workers -> RequestType] /\ request'[w] = new /\ request[w] \in RequestType
    BY DEF WindowInv, WindowTypeOK
  <1>2. Suppressed(w) \in [Messages -> {"none", "live", "suppressed"}]
    BY DEF Suppressed, WindowInv, WindowTypeOK
  <1>3. latest \in 0..MaxMessages /\ latest' \in 0..MaxMessages /\ latest <= latest'
    BY DEF WindowInv, WindowTypeOK, Messages
  <1>4. /\ rows' \in [Messages -> {"none", "live", "suppressed"}]
        /\ \A m \in Messages : rows'[m] = "suppressed" => Suppressed(w)[m] = "suppressed"
        /\ latest' = latest + 1 => rows'[latest'] = "live"
        /\ \A m \in Messages : m > latest' => rows'[m] = Suppressed(w)[m]
    <2>1. CASE rows' = Suppressed(w) /\ latest' = latest
      BY <1>2, <1>3, <2>1, WindowAssumption
    <2>2. CASE /\ latest' = latest + 1 /\ latest' \in Messages
               /\ rows' = [Suppressed(w) EXCEPT ![latest + 1] = "live"]
      BY <1>2, <1>3, <2>2, WindowAssumption DEF Messages
    <2> QED BY <2>1, <2>2
  <1>5. \A m \in Messages : /\ Suppressed(w)[m] = "suppressed" => m \in Retired \cup request[w].retired
                            /\ rows[m] = "none" => Suppressed(w)[m] = "none"
    BY DEF Suppressed, Retired
  <1>6. Retired' \subseteq Retired \cup request[w].retired
    BY <1>4, <1>5 DEF Retired
  <1>7. \A m \in Messages : m > latest' => rows'[m] = "none"
    BY <1>3, <1>4, <1>5, WindowAssumption DEF WindowInv, Messages
  <1>8. RequestInv(w) /\ Faithful(request[w].window) /\ request[w].window \in WindowType
    BY <1>1 DEF WindowInv, RequestInv, Holding, Flushed, RequestType
  <1>9. /\ Retired' \subseteq request[w].window.summary
        /\ Retired' \cap request[w].window.turns = {}
        /\ request[w].window.since <= latest
    BY <1>6, <1>8 DEF RequestInv, Faithful
  <1>10. Retired' \subseteq SummaryOf(w) /\ SummaryOf(w) \in SUBSET Messages
    <2>1. Retired \subseteq session.summary /\ session.summary \in SUBSET Messages
      BY DEF WindowInv, WindowTypeOK
    <2> QED BY <1>6, <1>8, <1>9, <2>1 DEF SummaryOf, WindowType
  <1>11. session' \in [exists : BOOLEAN, summary : SUBSET Messages] /\ session'.summary = SummaryOf(w)
    <2> HIDE DEF SummaryOf
    <2> QED BY <1>10 DEF WindowInv, WindowTypeOK
  <1>12. WindowTypeOK'
    BY <1>1, <1>3, <1>4, <1>11 DEF WindowInv, WindowTypeOK
  <1>13. (cache.hit => Faithful(cache.window))'
    BY <1>3, <1>8, <1>9, WindowAssumption DEF RequestInv, Faithful, WindowType
  <1>14. request[w].window.since <= latest'
    BY <1>3, <1>8, <1>9, WindowAssumption DEF WindowType
  <1>15. RequestInv(w)'
    <2>1. new.phase \in Holding => Faithful(new.window)'
      BY <1>9, <1>14 DEF Faithful
    <2>2. new.phase = "answered" => /\ new.answer \in Messages /\ rows'[new.answer] # "suppressed"
                                    /\ new.window.since < latest'
      <3> SUFFICES ASSUME new.phase = "answered"
                   PROVE  /\ new.answer \in Messages /\ rows'[new.answer] # "suppressed"
                          /\ new.window.since < latest'
        OBVIOUS
      <3>1. new.answer = latest' /\ latest' = latest + 1 /\ new.window = request[w].window
        BY DEF Holding
      <3> QED BY <1>3, <1>4, <1>8, <1>9, <3>1, WindowAssumption DEF Messages, WindowType
    <2> QED BY <1>1, <2>1, <2>2 DEF RequestInv
  <1> QED BY <1>7, <1>10, <1>11, <1>12, <1>13, <1>15 DEF WindowInv

LEMMA WindowInitInv == WindowInit => WindowInv
  <1> SUFFICES ASSUME WindowInit PROVE WindowInv
    OBVIOUS
  <1>1. WindowTypeOK
    BY EmptyWindowType, WindowAssumption DEF WindowInit, WindowTypeOK, Miss, EmptyWindow
  <1> QED BY <1>1 DEF WindowInit, WindowInv, RequestInv, NoRequest, Holding, Flushed, Retired,
                      Miss

LEMMA WindowNextInv ==
  ASSUME OneAtATime, WindowInv, [WindowNext]_windowVars
  PROVE  WindowInv'
  <1>0. WindowTypeOK
    BY DEF WindowInv
  <1>1. CASE UNCHANGED windowVars
    BY <1>1 DEF windowVars, WindowInv, WindowTypeOK, Retired, Faithful, RequestInv
  <1>2. CASE Evict
    <2>1. WindowTypeOK'
      BY <1>0, <1>2, EmptyWindowType, WindowAssumption
         DEF Evict, WindowFault, WindowTypeOK, Miss
    <2>2. UNCHANGED <<rows, session, request, latest>> /\ cache'.hit = FALSE
      BY <1>2 DEF Evict, Miss
    <2> QED BY <2>1, <2>2 DEF WindowInv, RequestInv, Faithful, Retired
  <1>3. ASSUME NEW w \in Workers,
               \/ Ask(w) \/ LoadMemory(w) \/ Assemble(w) \/ RecordAnswer(w) \/ FailTurn(w)
               \/ PersistAnswer(w)
               \/ CompactSession(w) \/ CommitCompaction(w) \/ FinishCompaction(w)
               \/ DeleteSession(w) \/ ClearCache(w)
        PROVE  WindowInv'
    <2>1. Workers = {w} /\ request[w] \in RequestType /\ request[w].window \in WindowType
      BY <1>0 DEF OneAtATime, WindowTypeOK, RequestType
    <2>2. RequestInv(w) /\ (cache.hit => Faithful(cache.window))
      BY DEF WindowInv
    <2>3. /\ cache \in [hit : BOOLEAN, window : WindowType]
          /\ windowFaults \in 0..MaxWindowFaults /\ MaxWindowFaults \in Nat
          /\ windowFaults < MaxWindowFaults => windowFaults + 1 \in 0..MaxWindowFaults
      BY <1>0, WindowAssumption DEF WindowTypeOK
    <2>4. CASE Ask(w)
      <3> DEFINE new == [NoRequest EXCEPT !.phase = "asked"]
      <3>1. new \in RequestType /\ new.phase = "asked"
        BY EmptyWindowType DEF RequestType, WorkerPhases
      <3>2. request' = [request EXCEPT ![w] = new] /\ UNCHANGED cache
        BY <2>4 DEF Ask
      <3> HIDE DEF new
      <3>3. CASE UNCHANGED <<rows, session, latest>> /\ WindowFault("commit")
        BY <2>1, <2>2, <2>3, <3>1, <3>2, <3>3, RequestStep DEF WindowFault, Holding, Flushed
      <3>4. CASE /\ session' = [session EXCEPT !.exists = TRUE]
                 /\ rows' = [rows EXCEPT ![latest + 1] = "live"]
                 /\ latest' = latest + 1
                 /\ UNCHANGED windowFaults
        <4>1. request' \in [Workers -> RequestType] /\ request'[w] = new
          BY <1>0, <3>1, <3>2 DEF WindowTypeOK
        <4>2. latest' \in 1..MaxMessages
          BY <1>0, <2>4, <3>4, WindowAssumption DEF Ask, WindowTypeOK
        <4>3. WindowTypeOK'
          <5>1. rows' \in [Messages -> {"none", "live", "suppressed"}]
            BY <1>0, <3>4 DEF WindowTypeOK
          <5>2. session' \in [exists : BOOLEAN, summary : SUBSET Messages]
            BY <1>0, <3>4 DEF WindowTypeOK
          <5> QED BY <1>0, <3>2, <3>4, <4>1, <4>2, <5>1, <5>2, WindowAssumption DEF WindowTypeOK
        <4>4. Retired' \subseteq Retired /\ session'.summary = session.summary
          BY <1>0, <3>4 DEF Retired, WindowTypeOK, Messages
        <4>5. \A m \in Messages : m > latest' => rows'[m] = "none"
          BY <1>0, <3>4, WindowAssumption DEF WindowInv, WindowTypeOK, Messages
        <4>6. RequestInv(w)'
          BY <3>1, <4>1 DEF RequestInv, Holding, Flushed
        <4>7. (cache.hit => Faithful(cache.window))'
          BY <1>0, <2>2, <2>3, <3>2, <3>4, <4>4, WindowAssumption
             DEF Faithful, WindowType, WindowTypeOK
        <4>8. Retired' \subseteq session'.summary
          BY <4>4 DEF WindowInv
        <4> QED BY <2>1, <4>3, <4>5, <4>6, <4>7, <4>8 DEF WindowInv
      <3> QED BY <2>4, <3>3, <3>4 DEF Ask
    <2>5. CASE LoadMemory(w)
      <3>1. PICK win : /\ LoadWindow(w, win)
                       /\ request' = [request EXCEPT ![w].phase = "loaded", ![w].window = win]
                       /\ UNCHANGED <<rows, session, latest>>
        BY <2>5 DEF LoadMemory
      <3>2. /\ win \in WindowType /\ Faithful(win) /\ UNCHANGED windowFaults
            /\ cache' = cache \/ cache' = Cached(win)
        BY <2>2, <2>3, <3>1, HydratedFacts DEF LoadWindow, WindowFault, OneAtATime
      <3> DEFINE new == [request[w] EXCEPT !.phase = "loaded", !.window = win]
      <3>3. /\ new \in RequestType /\ new.phase = "loaded" /\ new.window = win
            /\ request' = [request EXCEPT ![w] = new]
        BY <1>0, <2>1, <3>1, <3>2 DEF RequestType, WorkerPhases, WindowTypeOK
      <3> HIDE DEF new
      <3>4. cache' \in [hit : BOOLEAN, window : WindowType] /\ (cache'.hit => Faithful(cache'.window))
        <4>1. CASE cache' = cache
          BY <2>2, <2>3, <4>1
        <4>2. CASE cache' = Cached(win)
          BY <3>2, <4>2 DEF Cached
        <4> QED BY <3>2, <4>1, <4>2
      <3> QED BY <2>1, <2>3, <3>1, <3>2, <3>3, <3>4, RequestStep DEF Flushed
    <2>6. CASE Assemble(w)
      <3>1. PICK win \in Assembled(request[w].window) :
              /\ cache' = Cached(win)
              /\ request' = [request EXCEPT ![w].phase = "assembled", ![w].window = win,
                                       ![w].retired = request[w].window.turns \ win.turns]
              /\ UNCHANGED <<rows, session, latest, windowFaults>>
        BY <2>6 DEF Assemble
      <3>2. /\ win \in WindowType /\ win.turns \subseteq request[w].window.turns
            /\ win.summary = request[w].window.summary \cup (request[w].window.turns \ win.turns)
            /\ win.since \in {0, request[w].window.since}
        BY <2>1, AssembledFacts
      <3>3. Faithful(request[w].window)
        BY <2>2, <2>6 DEF Assemble, RequestInv, Holding
      <3>4. Faithful(win)
        BY <2>1, <3>2, <3>3, <1>0, WindowAssumption DEF Faithful, WindowType, WindowTypeOK
      <3> DEFINE retired == request[w].window.turns \ win.turns
                 new == [request[w] EXCEPT !.phase = "assembled", !.window = win,
                                           !.retired = retired]
      <3>5. retired \subseteq Messages /\ retired \subseteq win.summary /\ retired \cap win.turns = {}
        BY <2>1, <3>2 DEF WindowType
      <3>6. request' = [request EXCEPT ![w] = new]
        BY <1>0, <3>1 DEF WindowTypeOK
      <3> HIDE DEF retired
      <3>7. /\ new \in RequestType /\ new.phase = "assembled" /\ new.window = win
            /\ new.retired = retired
        BY <2>1, <3>2, <3>5 DEF RequestType, WorkerPhases
      <3> HIDE DEF new
      <3>8. cache' \in [hit : BOOLEAN, window : WindowType] /\ cache'.window = win
        BY <3>1, <3>2 DEF Cached
      <3> QED BY <2>1, <2>3, <3>1, <3>4, <3>5, <3>6, <3>7, <3>8, RequestStep
    <2>7. CASE RecordAnswer(w)
      <3> DEFINE win == [request[w].window EXCEPT !.turns = @ \cup {request[w].answer},
                                                  !.since = @ + 1]
      <3>1. /\ cache' = Cached(win) /\ request' = [request EXCEPT ![w] = NoRequest]
            /\ UNCHANGED <<rows, session, latest, windowFaults>>
        BY <2>7 DEF RecordAnswer
      <3>2. /\ Faithful(request[w].window) /\ request[w].answer \in Messages
            /\ rows[request[w].answer] # "suppressed" /\ request[w].window.since < latest
        BY <2>2, <2>7 DEF RecordAnswer, RequestInv, Holding
      <3>3. latest \in 0..MaxMessages /\ request[w].window.since + 1 \in 0..MaxMessages
        BY <1>0, <2>1, <3>2, WindowAssumption DEF WindowTypeOK, WindowType
      <3>4. /\ win \in WindowType /\ win.summary = request[w].window.summary
            /\ win.turns = request[w].window.turns \cup {request[w].answer}
            /\ win.since = request[w].window.since + 1
        BY <2>1, <3>2, <3>3 DEF WindowType
      <3> HIDE DEF win
      <3>5. Faithful(win)
        BY <2>1, <3>2, <3>3, <3>4, WindowAssumption DEF Faithful, Retired, WindowType
      <3>6. cache' \in [hit : BOOLEAN, window : WindowType] /\ cache'.window = win
        BY <3>1, <3>4 DEF Cached
      <3>7. NoRequest \in RequestType /\ NoRequest.phase = "idle"
        BY EmptyWindowType DEF NoRequest
      <3> QED BY <2>1, <2>3, <3>1, <3>5, <3>6, <3>7, RequestStep DEF Holding, Flushed
    <2>8. CASE FailTurn(w)
      <3>1. /\ request' = [request EXCEPT ![w] = NoRequest] /\ NoRequest.phase = "idle"
            /\ UNCHANGED <<rows, session, cache, latest>> /\ windowFaults' \in 0..MaxWindowFaults
        BY <2>3, <2>8 DEF FailTurn, WindowFault, NoRequest
      <3> QED BY <2>1, <2>2, <2>3, <3>1, EmptyWindowType, RequestStep DEF Holding, Flushed
    <2>9. CASE PersistAnswer(w)
      <3> DEFINE last == latest + 1
                 new  == [request[w] EXCEPT !.phase = "answered", !.answer = last, !.retired = {}]
      <3>1. /\ last \in Messages /\ last \in 0..MaxMessages /\ latest' = last
            /\ latest < MaxMessages /\ latest \in 0..MaxMessages
        BY <1>0, <2>9, WindowAssumption DEF PersistAnswer, WindowTypeOK, Messages
      <3>2. request' = [request EXCEPT ![w] = new] /\ UNCHANGED cache /\ request[w].phase = "assembled"
        BY <1>0, <2>9 DEF PersistAnswer, WindowTypeOK
      <3> HIDE DEF last
      <3>3. /\ new \in RequestType /\ new.phase = "answered" /\ new.window = request[w].window
            /\ new.answer = latest'
        BY <2>1, <3>1 DEF RequestType, WorkerPhases
      <3> HIDE DEF new
      <3>4. CASE UNCHANGED <<rows, session>> /\ (UNCHANGED windowFaults \/ WindowFault("commit"))
        <4>1. windowFaults' \in 0..MaxWindowFaults
          BY <2>3, <3>4 DEF WindowFault
        <4>2. Faithful(new.window)
          BY <2>2, <3>2, <3>3 DEF RequestInv, Holding
        <4>3. rows[latest'] # "suppressed"
          BY <3>1 DEF WindowInv, last
        <4>4. new.window.since < latest'
          BY <2>1, <3>1, <3>3, <4>2, WindowAssumption DEF last, Faithful, WindowType
        <4> QED BY <2>1, <2>2, <2>3, <3>1, <3>2, <3>3, <3>4, <4>1, <4>2, <4>3, <4>4, RequestStep
                DEF last, Flushed
      <3>5. CASE /\ rows' = [Suppressed(w) EXCEPT ![latest + 1] = "live"]
                 /\ session' = [session EXCEPT !.summary = SummaryOf(w)]
                 /\ UNCHANGED windowFaults
        BY <2>1, <3>1, <3>2, <3>3, <3>5, CommitStep DEF Flushed, last
      <3> QED BY <2>9, <3>4, <3>5 DEF PersistAnswer
    <2>10. CASE CompactSession(w)
      <3>1. PICK loaded :
              /\ IF cache.hit THEN loaded = cache.window ELSE loaded = Hydrated
              /\ LET win == Compacted(loaded, Suppressible(loaded))
                 IN  /\ cache' = Cached(win)
                     /\ request' = [request EXCEPT ![w] =
                          [NoRequest EXCEPT !.phase = "squeezed", !.kind = "compact",
                                            !.window = win,
                                            !.retired = loaded.turns \ win.turns]]
        BY <2>10 DEF CompactSession
      <3>2. loaded \in WindowType /\ Faithful(loaded)
        BY <2>2, <2>3, <3>1, HydratedFacts
      <3> DEFINE win     == Compacted(loaded, Suppressible(loaded))
                 retired == loaded.turns \ win.turns
                 new     == [NoRequest EXCEPT !.phase = "squeezed", !.kind = "compact",
                                              !.window = win, !.retired = retired]
      <3>3. /\ cache' = Cached(win) /\ request' = [request EXCEPT ![w] = new]
            /\ UNCHANGED <<rows, session, latest, windowFaults>>
        BY <2>10, <3>1 DEF CompactSession
      <3>4. /\ win \in WindowType /\ win.turns = loaded.turns \ Suppressible(loaded)
            /\ win.summary = loaded.summary \cup Suppressible(loaded)
            /\ win.since \in {0, loaded.since} /\ Suppressible(loaded) \subseteq loaded.turns
        BY <3>2, CompactedFacts DEF Suppressible
      <3> HIDE DEF win
      <3>5. retired \subseteq Messages /\ retired \subseteq win.summary /\ retired \cap win.turns = {}
        BY <3>2, <3>4 DEF WindowType
      <3> HIDE DEF retired
      <3>6. /\ new \in RequestType /\ new.phase = "squeezed" /\ new.window = win
            /\ new.retired = retired
        BY <3>4, <3>5, EmptyWindowType DEF NoRequest, RequestType, WorkerPhases
      <3> HIDE DEF new
      <3>7. Faithful(win)
        BY <1>0, <3>2, <3>4, WindowAssumption DEF Faithful, WindowType, WindowTypeOK
      <3>8. cache' \in [hit : BOOLEAN, window : WindowType] /\ cache'.window = win
        BY <3>3, <3>4 DEF Cached
      <3> QED BY <2>1, <2>3, <3>3, <3>5, <3>6, <3>7, <3>8, RequestStep
    <2>11. CASE CommitCompaction(w)
      <3> DEFINE new == [request[w] EXCEPT !.phase = "loaded", !.retired = {}]
      <3>1. new \in RequestType /\ new.phase = "loaded" /\ new.window = request[w].window
        BY <2>1 DEF RequestType, WorkerPhases
      <3>2. /\ request[w].phase = "squeezed" /\ request' = [request EXCEPT ![w] = new]
            /\ rows' = Suppressed(w) /\ session' = [session EXCEPT !.summary = SummaryOf(w)]
            /\ UNCHANGED <<cache, latest, windowFaults>>
        BY <1>0, <2>11 DEF CommitCompaction, WindowTypeOK
      <3> HIDE DEF new
      <3> QED BY <2>1, <3>1, <3>2, CommitStep DEF Flushed
    <2>12. CASE FinishCompaction(w)
      <3>1. /\ request[w].phase = "assembled" /\ request' = [request EXCEPT ![w] = NoRequest]
            /\ rows' = Suppressed(w) /\ session' = [session EXCEPT !.summary = SummaryOf(w)]
            /\ UNCHANGED <<cache, latest, windowFaults>> /\ NoRequest.phase = "idle"
        BY <2>12 DEF FinishCompaction, NoRequest
      <3> QED BY <2>1, <3>1, EmptyWindowType, CommitStep DEF Flushed, Holding
    <2>13. CASE DeleteSession(w)
      <3> DEFINE new == [request[w] EXCEPT !.phase = "deleting"]
      <3>1. new \in RequestType /\ new.phase = "deleting"
        BY <2>1 DEF RequestType, WorkerPhases
      <3>2. /\ request' = [request EXCEPT ![w] = new]
            /\ rows' = [m \in Messages |-> "none"] /\ session' = [exists |-> FALSE, summary |-> {}]
            /\ UNCHANGED <<cache, latest, windowFaults>>
        BY <1>0, <2>13 DEF DeleteSession, WindowTypeOK
      <3>3. request' \in [Workers -> RequestType] /\ request'[w] = new
        BY <1>0, <3>1, <3>2 DEF WindowTypeOK
      <3>4. WindowTypeOK'
        BY <1>0, <3>2, <3>3 DEF WindowTypeOK
      <3>5. Retired' = {}
        BY <3>2 DEF Retired
      <3>6. (cache.hit => Faithful(cache.window))'
        BY <2>2, <3>2, <3>5 DEF Faithful
      <3>7. RequestInv(w)'
        BY <3>1, <3>3 DEF RequestInv, Holding, Flushed
      <3> QED BY <2>1, <3>2, <3>4, <3>5, <3>6, <3>7 DEF WindowInv
    <2>14. CASE ClearCache(w)
      <3>1. /\ request' = [request EXCEPT ![w] = NoRequest] /\ NoRequest.phase = "idle"
            /\ UNCHANGED <<rows, session, latest, windowFaults>>
            /\ cache' \in [hit : BOOLEAN, window : WindowType] /\ cache'.hit = FALSE
        BY <2>14, EmptyWindowType DEF ClearCache, NoRequest, Miss
      <3> QED BY <2>1, <2>3, <3>1, EmptyWindowType, RequestStep DEF Holding, Flushed
    <2> QED BY <1>3, <2>4, <2>5, <2>6, <2>7, <2>8, <2>9, <2>10, <2>11, <2>12, <2>13, <2>14
  <1> QED BY <1>1, <1>2, <1>3 DEF WindowNext

\* The inductive invariant of the window, its rows and its cache.
THEOREM WindowInductive == ASSUME OneAtATime PROVE WindowSpec => []WindowInv
  <1>1. WindowInit => WindowInv
    BY WindowInitInv
  <1>2. WindowInv /\ [WindowNext]_windowVars => WindowInv'
    BY WindowNextInv
  <1> QED BY <1>1, <1>2, PTL DEF WindowSpec

\* "Suppression is lossless" (SuppressionIsLossless), and a cached window replays
\* nothing that is suppressed (NoStaleReplay): compact, persist_compaction and the
\* session endpoints for any number of messages, any thresholds, any commits that
\* fail and any eviction, when the turns of a session do not overlap.
THEOREM SuppressionKeepsAll == ASSUME OneAtATime PROVE WindowSpec => []WindowIsFaithful
  <1>1. WindowInv => WindowIsFaithful
    BY DEF WindowInv, WindowTypeOK, WindowType, WindowIsFaithful, SuppressionIsLossless, NoStaleReplay, Faithful, Retired
  <1> QED BY <1>1, WindowInductive, PTL

-----------------------------------------------------------------------------
(* The retrieval plans that turns share *)

Occupied == {q \in Queries : entries[q].held}
Pending  == {t \in Turns : lookup[t].phase \in {"stored", "evicting"}}
Evicting == {t \in Turns : lookup[t].phase = "evicting"}

\* What a set of evictions is about to delete.
Doomed(set) == UNION {lookup[t].victims : t \in set}

\* The strengthening of CacheIsBounded: whatever evictions are carried out first, what
\* is left has room for the turns that are still to evict.
CacheInv ==
    /\ CacheTypeOK
    /\ IsFiniteSet(Occupied)
    /\ \A set \in SUBSET Evicting :
         Cardinality(Occupied \ Doomed(set)) <= CacheCap + Cardinality(Pending \ set) + evictFaults

\* No more turns in flight than the cap, which is what an eviction of a whole page deletes at least.
FewTurns == Cardinality(Turns) <= CacheCap

\* A subset of a finite set, and what it leaves of it.
LEMMA FewerLeft ==
  ASSUME NEW S, IsFiniteSet(S), NEW T, T \subseteq S
  PROVE  /\ IsFiniteSet(T) /\ IsFiniteSet(S \ T)
         /\ Cardinality(T) \in Nat /\ Cardinality(S) \in Nat
         /\ Cardinality(T) <= Cardinality(S)
         /\ Cardinality(S \ T) = Cardinality(S) - Cardinality(T)
  <1>1. T \in SUBSET S /\ S \ T \in SUBSET S
    OBVIOUS
  <1>2. IsFiniteSet(T) /\ IsFiniteSet(S \ T) /\ Cardinality(T) <= Cardinality(S)
    BY <1>1, FS_Subset
  <1>3. Cardinality(S \ T) = Cardinality(S) - Cardinality(S \cap T)
    BY <1>2, FS_Difference
  <1>4. S \cap T = T
    OBVIOUS
  <1> QED BY <1>2, <1>3, <1>4, FS_CardinalityType

LEMMA CacheInitInv == CacheInit => CacheInv
  <1> SUFFICES ASSUME CacheInit PROVE CacheInv
    OBVIOUS
  <1>1. CacheTypeOK
    BY CacheAssumption
       DEF CacheInit, CacheTypeOK, CachedType, LookupType, NoCacheEntry, NoLookup
  <1>2. Occupied = {} /\ Evicting = {} /\ Pending = {}
    BY DEF CacheInit, Occupied, Evicting, Pending, NoCacheEntry, NoLookup
  <1>3. IsFiniteSet({}) /\ Cardinality({}) = 0
    BY FS_EmptySet
  <1>4. \A set \in SUBSET Evicting : Occupied \ Doomed(set) = {} /\ Pending \ set = {}
    BY <1>2
  <1>5. evictFaults = 0
    BY DEF CacheInit
  <1> QED BY <1>1, <1>2, <1>3, <1>4, <1>5, CacheAssumption DEF CacheInv

\* Nothing stored and no turn past its miss: the bound is kept.
LEMMA BoundKept ==
  ASSUME CacheInv, CacheTypeOK', Occupied' = Occupied, Pending' = Pending, Evicting' = Evicting,
         evictFaults' = evictFaults, \A t \in Evicting : lookup'[t].victims = lookup[t].victims
  PROVE  CacheInv'
  <1>1. \A set \in SUBSET Evicting : Doomed(set)' = Doomed(set)
    BY DEF Doomed
  <1> QED BY <1>1 DEF CacheInv

\* CacheIsBounded is the invariant for no eviction at all.
LEMMA BoundFollows == ASSUME CacheInv PROVE CacheIsBounded
  <1>1. Cardinality(Occupied \ Doomed({})) <= CacheCap + Cardinality(Pending \ {}) + evictFaults
    BY DEF CacheInv
  <1>2. Occupied \ Doomed({}) = Occupied /\ Pending \ {} = Pending
    BY DEF Doomed
  <1> QED BY <1>1, <1>2 DEF CacheIsBounded, Occupied, Pending

\* An eviction that fails leaves one entry more than it should.
LEMMA EvictionFailed ==
  ASSUME CacheInv, NEW t \in Turns, lookup[t].phase \in {"stored", "evicting"},
         EvictFails(t), UNCHANGED <<readable, indexChanges>>
  PROVE  CacheInv'
  <1> DEFINE q == lookup[t].query
  <1>0. CacheTypeOK
    BY DEF CacheInv
  <1>1. /\ lookup' = [lookup EXCEPT ![t] = NoLookup(q)] /\ q \in Queries /\ UNCHANGED entries
        /\ evictFaults' = evictFaults + 1 /\ evictFaults \in Nat /\ evictFaults' \in 0..MaxEvictFaults
    BY <1>0, CacheAssumption DEF EvictFails, CacheTypeOK, LookupType
  <1> HIDE DEF q
  <1>2. NoLookup(q) \in LookupType /\ NoLookup(q).phase = "idle"
    BY <1>1, CacheAssumption DEF NoLookup, LookupType, NoCacheEntry, CachedType
  <1>3. /\ lookup' \in [Turns -> LookupType] /\ lookup'[t].phase = "idle"
        /\ \A s \in Turns : s # t => lookup'[s] = lookup[s]
    BY <1>0, <1>1, <1>2 DEF CacheTypeOK
  <1>4. CacheTypeOK'
    BY <1>0, <1>1, <1>3 DEF CacheTypeOK
  <1>5. /\ Occupied' = Occupied /\ Pending' = Pending \ {t} /\ t \in Pending
        /\ Evicting' = Evicting \ {t}
    BY <1>1, <1>3 DEF Occupied, Pending, Evicting
  <1>6. ASSUME NEW set \in SUBSET Evicting'
        PROVE  Cardinality(Occupied' \ Doomed(set)') <= CacheCap + Cardinality(Pending' \ set) + evictFaults'
    <2>1. set \in SUBSET Evicting /\ Doomed(set)' = Doomed(set) /\ t \notin set
      BY <1>3, <1>5 DEF Doomed, Evicting
    <2>2. Cardinality(Occupied \ Doomed(set)) <= CacheCap + Cardinality(Pending \ set) + evictFaults
      BY <2>1 DEF CacheInv
    <2>3. Pending' \ set \subseteq Turns /\ Pending \ set = (Pending' \ set) \cup {t} /\ t \notin Pending' \ set
      BY <1>5, <2>1 DEF Pending
    <2>4. IsFiniteSet(Pending' \ set) /\ Cardinality(Pending' \ set) \in Nat
      BY <2>3, CacheAssumption, FewerLeft
    <2>5. Cardinality(Pending \ set) = Cardinality(Pending' \ set) + 1
      BY <2>3, <2>4, FS_AddElement
    <2>6. Cardinality(Occupied \ Doomed(set)) \in Nat
      BY FewerLeft DEF CacheInv
    <2> QED BY <1>1, <1>5, <2>1, <2>2, <2>4, <2>5, <2>6, CacheAssumption
  <1> QED BY <1>4, <1>5, <1>6 DEF CacheInv

LEMMA CacheNextInv ==
  ASSUME FewTurns, CacheInv, [CacheNext]_cacheVars
  PROVE  CacheInv'
  <1>0. CacheTypeOK
    BY DEF CacheInv
  <1>1. CASE UNCHANGED cacheVars
    <2>1. CacheTypeOK'
      BY <1>0, <1>1 DEF cacheVars, CacheTypeOK
    <2> QED BY <1>1, <2>1, BoundKept DEF cacheVars, Occupied, Pending, Evicting
  <1>2. ASSUME NEW t \in Turns, Probe(t) PROVE CacheInv'
    <2>1. PICK q \in Queries :
            lookup' = [lookup EXCEPT ![t] =
              [NoLookup(q) EXCEPT !.phase = IF Hit(entries[q]) THEN "found" ELSE "missed",
                                  !.entry = entries[q]]]
      BY <1>2 DEF Probe
    <2> DEFINE ph  == IF Hit(entries[q]) THEN "found" ELSE "missed"
               new == [NoLookup(q) EXCEPT !.phase = ph, !.entry = entries[q]]
    <2>2. ph \in {"found", "missed"} /\ entries[q] \in CachedType
      BY <1>0 DEF CacheTypeOK
    <2>3. lookup' = [lookup EXCEPT ![t] = new]
      BY <2>1
    <2> HIDE DEF ph
    <2>4. new \in LookupType /\ new.phase \in {"found", "missed"}
      BY <2>2 DEF NoLookup, LookupType
    <2> HIDE DEF new
    <2>5. /\ lookup[t].phase = "idle" /\ UNCHANGED <<entries, readable, indexChanges, evictFaults>>
          /\ lookup' \in [Turns -> LookupType] /\ lookup'[t] = new
          /\ \A s \in Turns : s # t => lookup'[s] = lookup[s]
      BY <1>0, <1>2, <2>3, <2>4 DEF Probe, CacheTypeOK
    <2>6. CacheTypeOK'
      BY <1>0, <2>5 DEF CacheTypeOK
    <2> QED BY <2>4, <2>5, <2>6, BoundKept DEF Occupied, Pending, Evicting
  <1>3. ASSUME NEW t \in Turns, Resolve(t) PROVE CacheInv'
    <2> DEFINE chunks == Resolved(lookup[t].entry.ids)
               ph     == IF chunks = {} THEN "missed" ELSE "hit"
               new    == [lookup[t] EXCEPT !.phase = ph, !.chunks = chunks]
    <2>1. /\ chunks \subseteq Chunks /\ ph \in {"missed", "hit"} /\ lookup[t] \in LookupType
          /\ lookup' = [lookup EXCEPT ![t] = new] /\ lookup[t].phase = "found"
      BY <1>0, <1>3 DEF Resolve, Resolved, CacheTypeOK
    <2> HIDE DEF chunks, ph
    <2>2. new \in LookupType /\ new.phase = ph
      BY <2>1 DEF LookupType
    <2> HIDE DEF new
    <2>3. /\ UNCHANGED <<entries, readable, indexChanges, evictFaults>>
          /\ lookup' \in [Turns -> LookupType] /\ lookup'[t] = new
          /\ \A s \in Turns : s # t => lookup'[s] = lookup[s]
      BY <1>0, <1>3, <2>1, <2>2 DEF Resolve, CacheTypeOK
    <2>4. CacheTypeOK'
      BY <1>0, <2>3 DEF CacheTypeOK
    <2> QED BY <2>1, <2>2, <2>3, <2>4, BoundKept DEF Occupied, Pending, Evicting
  <1>4. ASSUME NEW t \in Turns, TouchEntry(t) PROVE CacheInv'
    <2> DEFINE q    == lookup[t].query
               hits == IF entries[q].held THEN HitsAfter(lookup[t].entry.hits) ELSE entries[q].hits
    <2>1. /\ q \in Queries /\ lookup[t].phase = "hit" /\ hits \in 0..MaxHits
          /\ entries' = [entries EXCEPT ![q].hits = hits]
          /\ lookup' = [lookup EXCEPT ![t] = NoLookup(q)]
      BY <1>0, <1>4, CacheAssumption
         DEF TouchEntry, HitsAfter, CacheTypeOK, LookupType, CachedType
    <2> HIDE DEF hits, q
    <2>2. NoLookup(q) \in LookupType /\ NoLookup(q).phase = "idle"
      BY <2>1, CacheAssumption DEF NoLookup, LookupType, NoCacheEntry, CachedType
    <2>3. /\ UNCHANGED <<readable, indexChanges, evictFaults>>
          /\ lookup' \in [Turns -> LookupType] /\ lookup'[t].phase = "idle"
          /\ \A s \in Turns : s # t => lookup'[s] = lookup[s]
      BY <1>0, <1>4, <2>1, <2>2 DEF TouchEntry, CacheTypeOK
    <2>4. entries' \in [Queries -> CachedType] /\ (\A k \in Queries : entries'[k].held = entries[k].held)
      BY <1>0, <2>1 DEF CacheTypeOK, CachedType
    <2>5. CacheTypeOK'
      BY <1>0, <2>3, <2>4 DEF CacheTypeOK
    <2> QED BY <2>1, <2>3, <2>4, <2>5, BoundKept DEF Occupied, Pending, Evicting
  <1>5. ASSUME NEW t \in Turns, Store(t) PROVE CacheInv'
    <2>1. PICK ids \in SUBSET readable :
            \/ /\ ids # {}
               /\ entries' = [entries EXCEPT ![lookup[t].query] =
                                [held |-> TRUE, ids |-> ids, hits |-> 0, expired |-> FALSE]]
               /\ lookup' = [lookup EXCEPT ![t].phase = "stored"]
            \/ /\ ids = {}
               /\ lookup' = [lookup EXCEPT ![t] = NoLookup(lookup[t].query)]
               /\ UNCHANGED entries
      BY <1>5 DEF Store
    <2>2. /\ lookup[t].phase = "missed" /\ lookup[t] \in LookupType /\ lookup[t].query \in Queries
          /\ UNCHANGED <<readable, indexChanges, evictFaults>>
      BY <1>0, <1>5 DEF Store, CacheTypeOK, LookupType
    <2>3. CASE /\ lookup' = [lookup EXCEPT ![t] = NoLookup(lookup[t].query)]
               /\ UNCHANGED entries
      <3>1. NoLookup(lookup[t].query) \in LookupType /\ NoLookup(lookup[t].query).phase = "idle"
        BY <2>2, CacheAssumption DEF NoLookup, LookupType, NoCacheEntry, CachedType
      <3>2. /\ lookup' \in [Turns -> LookupType] /\ lookup'[t].phase = "idle"
            /\ \A s \in Turns : s # t => lookup'[s] = lookup[s]
        BY <1>0, <2>3, <3>1 DEF CacheTypeOK
      <3>3. CacheTypeOK'
        BY <1>0, <2>2, <2>3, <3>2 DEF CacheTypeOK
      <3> QED BY <2>2, <2>3, <3>2, <3>3, BoundKept DEF Occupied, Pending, Evicting
    <2>4. CASE /\ entries' = [entries EXCEPT ![lookup[t].query] =
                                [held |-> TRUE, ids |-> ids, hits |-> 0, expired |-> FALSE]]
               /\ lookup' = [lookup EXCEPT ![t].phase = "stored"]
      <3> DEFINE q     == lookup[t].query
                 entry == [held |-> TRUE, ids |-> ids, hits |-> 0, expired |-> FALSE]
                 new   == [lookup[t] EXCEPT !.phase = "stored"]
      <3>1. /\ new \in LookupType /\ new.phase = "stored" /\ new.victims = lookup[t].victims
            /\ lookup' = [lookup EXCEPT ![t] = new]
        BY <1>0, <2>2, <2>4 DEF LookupType, CacheTypeOK
      <3> HIDE DEF new
      <3>2. /\ lookup' \in [Turns -> LookupType] /\ lookup'[t].phase = "stored"
            /\ \A s \in Turns : s # t => lookup'[s] = lookup[s]
            /\ \A s \in Turns : lookup'[s].victims = lookup[s].victims
        BY <1>0, <3>1 DEF CacheTypeOK
      <3>3. entry \in CachedType /\ entry.held
        BY <1>0, <2>1, CacheAssumption DEF CacheTypeOK, CachedType
      <3>4. /\ entries' \in [Queries -> CachedType] /\ entries'[q] = entry
            /\ \A k \in Queries : k # q => entries'[k] = entries[k]
        BY <1>0, <2>2, <2>4, <3>3 DEF CacheTypeOK
      <3>5. CacheTypeOK'
        BY <1>0, <2>2, <3>2, <3>4 DEF CacheTypeOK
      <3> HIDE DEF entry
      <3>6. Occupied' = Occupied \cup {q}
        BY <2>2, <3>3, <3>4 DEF Occupied
      <3>7. IsFiniteSet(Occupied')
        BY <3>6, FS_AddElement DEF CacheInv
      <3>8. Pending' = Pending \cup {t} /\ t \notin Pending /\ Evicting' = Evicting /\ t \notin Evicting
        BY <2>2, <3>2 DEF Pending, Evicting
      <3>9. ASSUME NEW set \in SUBSET Evicting
            PROVE  Cardinality(Occupied' \ Doomed(set)') <= CacheCap + Cardinality(Pending' \ set) + evictFaults'
        <4>1. Doomed(set)' = Doomed(set)
          BY <3>2 DEF Doomed, Evicting
        <4> DEFINE before == Occupied \ Doomed(set)
        <4>2. IsFiniteSet(before) /\ IsFiniteSet(Pending \ set)
          <5>1. Pending \ set \subseteq Turns
            BY DEF Pending
          <5> QED BY <5>1, CacheAssumption, FS_Subset, FS_Difference DEF CacheInv
        <4>3. Occupied' \ Doomed(set)' \subseteq before \cup {q}
          BY <3>6, <4>1
        <4>4. Cardinality(Occupied' \ Doomed(set)') <= Cardinality(before) + 1
          <5> DEFINE after == Occupied' \ Doomed(set)'
          <5> HIDE DEF before, after, q
          <5>1. /\ IsFiniteSet(before \cup {q}) /\ Cardinality(before) \in Nat
                /\ Cardinality(before \cup {q}) = Cardinality(before)
                   \/ Cardinality(before \cup {q}) = Cardinality(before) + 1
            BY <4>2, FS_AddElement, FS_CardinalityType
          <5>2. after \subseteq before \cup {q}
            BY <4>3 DEF after
          <5>3. Cardinality(after) \in Nat /\ Cardinality(after) <= Cardinality(before \cup {q})
            BY <5>1, <5>2, FewerLeft
          <5>4. Cardinality(after) <= Cardinality(before) + 1
            BY <5>1, <5>3
          <5> QED BY <5>4 DEF after
        <4>5. Pending' \ set = (Pending \ set) \cup {t} /\ t \notin Pending \ set
          BY <3>8
        <4>6. Cardinality(Pending' \ set) = Cardinality(Pending \ set) + 1
          BY <4>2, <4>5, FS_AddElement
        <4>7. Cardinality(before) <= CacheCap + Cardinality(Pending \ set) + evictFaults
          BY DEF CacheInv
        <4>8. IsFiniteSet(Occupied' \ Doomed(set)')
          BY <3>7, FS_Difference
        <4>10. evictFaults' = evictFaults /\ evictFaults \in Nat
          BY <1>0, <2>2, CacheAssumption DEF CacheTypeOK
        <4>9. /\ Cardinality(before) \in Nat /\ Cardinality(Pending \ set) \in Nat
              /\ Cardinality(Occupied' \ Doomed(set)') \in Nat
          BY <4>2, <4>8, FS_CardinalityType
        <4> HIDE DEF before
        <4> QED BY <4>4, <4>6, <4>7, <4>9, <4>10, CacheAssumption
      <3> QED BY <3>5, <3>7, <3>8, <3>9 DEF CacheInv
    <2> QED BY <2>1, <2>3, <2>4
  <1>6. ASSUME NEW t \in Turns, EvictScan(t), ~EvictFails(t) PROVE CacheInv'
    <2>0. PICK page \in SUBSET Occupied :
            /\ Cardinality(page) = 2 * CacheCap \/ page = Occupied
            /\ \E victims \in Victims(page) :
                 lookup' = [lookup EXCEPT ![t].phase = "evicting", ![t].victims = victims]
      BY <1>6 DEF EvictScan, Occupied
    <2>1. PICK victims \in Victims(page) :
            lookup' = [lookup EXCEPT ![t].phase = "evicting", ![t].victims = victims]
      BY <2>0
    <2>2. /\ lookup[t].phase = "stored" /\ UNCHANGED <<entries, readable, indexChanges, evictFaults>>
          /\ evictFaults \in 0..MaxEvictFaults
      BY <1>0, <1>6 DEF EvictScan, CacheTypeOK
    <2>3. Cardinality(Occupied) <= CacheCap + Cardinality(Pending) + evictFaults
          /\ Cardinality(Pending) \in Nat /\ Cardinality(Pending) <= CacheCap
      <3>1. Pending \subseteq Turns
        BY DEF Pending
      <3>2. /\ Cardinality(Pending) \in Nat /\ Cardinality(Turns) \in Nat
            /\ Cardinality(Pending) <= Cardinality(Turns)
        BY <3>1, CacheAssumption, FewerLeft
      <3> QED BY <3>2, BoundFollows, CacheAssumption DEF CacheIsBounded, Occupied, Pending, FewTurns
    <2> DEFINE fresh == {q \in page : LiveEntry(q)}
    <2>4. PICK v \in Coldest(fresh) : victims = {q \in page : entries[q].expired} \cup v
      BY <2>1 DEF Victims
    <2>5. page \ victims = fresh \ v /\ victims \subseteq page /\ victims \subseteq Queries
          /\ fresh \subseteq page /\ v \subseteq fresh
      BY <2>4 DEF Occupied, LiveEntry, Coldest
    <2>6. IsFiniteSet(Occupied \ victims) /\ Cardinality(Occupied \ victims) <= CacheCap + evictFaults
      <3>0. CacheCap \in Nat /\ evictFaults \in Nat /\ IsFiniteSet(Occupied)
        BY <2>2, CacheAssumption DEF CacheInv
      <3> HIDE DEF fresh
      <3>1. IsFiniteSet(page) /\ IsFiniteSet(fresh)
        BY <2>5, <3>0, FewerLeft
      <3>2. /\ Cardinality(fresh \ v) = Cardinality(fresh) - Cardinality(v)
            /\ Cardinality(fresh) \in Nat /\ Cardinality(v) \in Nat
        BY <2>5, <3>1, FewerLeft
      <3>3. Cardinality(v) = IF Cardinality(fresh) > CacheCap THEN Cardinality(fresh) - CacheCap ELSE 0
        BY DEF Coldest
      <3>4. Cardinality(page \ victims) <= CacheCap
        <4>1. Cardinality(fresh \ v) <= CacheCap
          BY <3>0, <3>2, <3>3
        <4> QED BY <2>5, <4>1
      <3>5. /\ Cardinality(page \ victims) = Cardinality(page) - Cardinality(victims)
            /\ Cardinality(page) \in Nat /\ Cardinality(victims) \in Nat
        BY <2>5, <3>1, FewerLeft
      <3>6. /\ Cardinality(Occupied \ victims) = Cardinality(Occupied) - Cardinality(victims)
            /\ IsFiniteSet(Occupied \ victims) /\ Cardinality(Occupied) \in Nat
        <4>1. victims \subseteq Occupied
          BY <2>5
        <4>2. /\ Cardinality(Occupied \ victims) = Cardinality(Occupied) - Cardinality(victims)
              /\ IsFiniteSet(Occupied \ victims)
          BY <3>0, <4>1, FewerLeft
        <4> QED BY <3>0, <4>2, FewerLeft
      <3>7. CASE page = Occupied
        <4>1. Cardinality(Occupied \ victims) <= CacheCap /\ Cardinality(Occupied \ victims) \in Nat
          BY <3>4, <3>6, <3>7, FS_CardinalityType
        <4> QED BY <3>0, <3>6, <4>1
      <3>8. CASE Cardinality(page) = 2 * CacheCap
        <4>1. Cardinality(victims) >= CacheCap
          BY <3>0, <3>4, <3>5, <3>8
        <4> QED BY <2>3, <3>0, <3>5, <3>6, <4>1
      <3> QED BY <2>0, <3>7, <3>8
    <2> HIDE DEF fresh
    <2> DEFINE new == [lookup[t] EXCEPT !.phase = "evicting", !.victims = victims]
    <2>7. /\ new \in LookupType /\ new.phase = "evicting" /\ new.victims = victims
          /\ lookup' = [lookup EXCEPT ![t] = new]
      BY <1>0, <2>1, <2>5 DEF LookupType, CacheTypeOK
    <2> HIDE DEF new
    <2>8. /\ lookup' \in [Turns -> LookupType] /\ lookup'[t] = new
          /\ \A s \in Turns : s # t => lookup'[s] = lookup[s]
      BY <1>0, <2>7 DEF CacheTypeOK
    <2>9. CacheTypeOK'
      BY <1>0, <2>2, <2>8 DEF CacheTypeOK
    <2>10. Occupied' = Occupied /\ Pending' = Pending /\ Evicting' = Evicting \cup {t}
      BY <2>2, <2>7, <2>8 DEF Occupied, Pending, Evicting
    <2>11. ASSUME NEW set \in SUBSET Evicting'
           PROVE  Cardinality(Occupied' \ Doomed(set)') <= CacheCap + Cardinality(Pending' \ set) + evictFaults'
      <3>1. CASE t \in set
        <4>1. Occupied' \ Doomed(set)' \subseteq Occupied \ victims
          BY <2>7, <2>8, <2>10, <3>1 DEF Doomed
        <4>2. Cardinality(Occupied' \ Doomed(set)') <= Cardinality(Occupied \ victims)
              /\ Cardinality(Occupied' \ Doomed(set)') \in Nat /\ Cardinality(Occupied \ victims) \in Nat
          BY <2>6, <4>1, FewerLeft
        <4>3. Cardinality(Pending' \ set) \in Nat
          <5>1. Pending' \ set \subseteq Turns
            BY <2>10 DEF Pending
          <5> QED BY <5>1, CacheAssumption, FewerLeft
        <4> QED BY <2>2, <2>6, <4>2, <4>3, CacheAssumption
      <3>2. CASE t \notin set
        <4>1. set \in SUBSET Evicting /\ Doomed(set)' = Doomed(set)
          BY <2>8, <2>10, <3>2 DEF Doomed, Evicting
        <4> QED BY <2>2, <2>10, <4>1 DEF CacheInv
      <3> QED BY <3>1, <3>2
    <2> QED BY <2>9, <2>10, <2>11 DEF CacheInv
  <1>7. ASSUME NEW t \in Turns, EvictDelete(t), ~EvictFails(t) PROVE CacheInv'
    <2> DEFINE q == lookup[t].query
    <2>1. /\ lookup[t].phase = "evicting" /\ UNCHANGED <<readable, indexChanges, evictFaults>>
          /\ entries' = [k \in Queries |-> IF k \in lookup[t].victims THEN NoCacheEntry ELSE entries[k]]
          /\ lookup' = [lookup EXCEPT ![t] = NoLookup(q)] /\ q \in Queries
      BY <1>0, <1>7 DEF EvictDelete, CacheTypeOK, LookupType
    <2> HIDE DEF q
    <2>2. NoLookup(q) \in LookupType /\ NoLookup(q).phase = "idle" /\ NoCacheEntry \in CachedType
          /\ ~NoCacheEntry.held
      BY <2>1, CacheAssumption DEF NoLookup, LookupType, NoCacheEntry, CachedType
    <2>3. /\ lookup' \in [Turns -> LookupType] /\ lookup'[t].phase = "idle"
          /\ \A s \in Turns : s # t => lookup'[s] = lookup[s]
      BY <1>0, <2>1, <2>2 DEF CacheTypeOK
    <2>4. entries' \in [Queries -> CachedType]
      BY <1>0, <2>1, <2>2 DEF CacheTypeOK
    <2>5. CacheTypeOK'
      BY <1>0, <2>1, <2>3, <2>4 DEF CacheTypeOK
    <2>6. Occupied' = Occupied \ lookup[t].victims
      BY <2>1, <2>2 DEF Occupied
    <2>7. Pending' = Pending \ {t} /\ Evicting' = Evicting \ {t} /\ t \in Evicting
      BY <2>1, <2>3 DEF Pending, Evicting
    <2>8. ASSUME NEW set \in SUBSET Evicting'
          PROVE  Cardinality(Occupied' \ Doomed(set)') <= CacheCap + Cardinality(Pending' \ set) + evictFaults'
      <3>1. set \cup {t} \in SUBSET Evicting /\ Pending' \ set = Pending \ (set \cup {t})
        BY <2>7
      <3>2. Doomed(set)' \cup lookup[t].victims = Doomed(set \cup {t})
        BY <2>3, <2>7 DEF Doomed, Evicting
      <3>3. Occupied' \ Doomed(set)' = Occupied \ Doomed(set \cup {t})
        BY <2>6, <3>2
      <3> QED BY <2>1, <3>1, <3>3 DEF CacheInv
    <2>9. IsFiniteSet(Occupied')
      BY <2>6, FS_Difference DEF CacheInv
    <2> QED BY <2>5, <2>8, <2>9 DEF CacheInv
  <1>8. CASE ExpireEntry
    <2>1. PICK q \in Queries : entries' = [entries EXCEPT ![q].expired = TRUE]
      BY <1>8 DEF ExpireEntry
    <2>2. entries' \in [Queries -> CachedType] /\ (\A k \in Queries : entries'[k].held = entries[k].held)
      BY <1>0, <2>1 DEF CacheTypeOK, CachedType
    <2>3. CacheTypeOK' /\ UNCHANGED <<lookup, evictFaults>>
      BY <1>0, <1>8, <2>2 DEF ExpireEntry, CacheTypeOK
    <2> QED BY <2>2, <2>3, BoundKept DEF Occupied, Pending, Evicting
  <1>9. CASE ChangeIndex
    <2>1. CacheTypeOK' /\ UNCHANGED <<entries, lookup, evictFaults>>
      BY <1>0, <1>9, CacheAssumption DEF ChangeIndex, CacheTypeOK
    <2> QED BY <2>1, BoundKept DEF Occupied, Pending, Evicting
  <1>10. ASSUME NEW t \in Turns, EvictFails(t), EvictScan(t) \/ EvictDelete(t) PROVE CacheInv'
    BY <1>10, EvictionFailed DEF EvictScan, EvictDelete
  <1> QED BY <1>1, <1>2, <1>3, <1>4, <1>5, <1>6, <1>7, <1>8, <1>9, <1>10 DEF CacheNext

\* A hit hands over only what the caller may read now.
LEMMA CacheReadable ==
  ASSUME CacheTypeOK, [CacheNext]_cacheVars, NEW t \in Turns,
         lookup[t].phase = "found", lookup'[t].phase = "hit"
  PROVE  lookup'[t].chunks # {} /\ lookup'[t].chunks \subseteq readable
  <1>1. ASSUME NEW s \in Turns, Resolve(s)
        PROVE  lookup'[t].chunks # {} /\ lookup'[t].chunks \subseteq readable
    <2> DEFINE chunks == Resolved(lookup[s].entry.ids)
               ph     == IF chunks = {} THEN "missed" ELSE "hit"
    <2>1. lookup' = [lookup EXCEPT ![s].phase = ph, ![s].chunks = chunks]
      BY <1>1 DEF Resolve
    <2>2. chunks \subseteq readable
      BY DEF Resolved
    <2>3. s = t
      BY <2>1 DEF CacheTypeOK
    <2> HIDE DEF chunks
    <2>4. lookup'[t].chunks = chunks /\ ph = "hit"
      BY <2>1, <2>3 DEF CacheTypeOK, LookupType
    <2> QED BY <2>2, <2>4
  <1>2. ASSUME NEW s \in Turns, Probe(s) PROVE FALSE
    BY <1>2 DEF Probe, CacheTypeOK, LookupType, NoLookup
  <1>3. ASSUME NEW s \in Turns, TouchEntry(s) \/ Store(s) \/ EvictScan(s) \/ EvictDelete(s)
        PROVE  FALSE
    BY <1>3 DEF TouchEntry, Store, EvictScan, EvictDelete, EvictFails, CacheTypeOK, LookupType, NoLookup
  <1>4. ~(UNCHANGED lookup)
    OBVIOUS
  <1> QED BY <1>1, <1>2, <1>3, <1>4 DEF CacheNext, ExpireEntry, ChangeIndex, cacheVars

\* The inductive invariant of the shared plans.
THEOREM CacheInductive == ASSUME FewTurns PROVE CacheSpec => []CacheInv
  <1>1. CacheInit => CacheInv
    BY CacheInitInv
  <1>2. CacheInv /\ [CacheNext]_cacheVars => CacheInv'
    BY CacheNextInv
  <1> QED BY <1>1, <1>2, PTL DEF CacheSpec

\* The shared retrieval plans (CacheIsSafe): a stale plan never shows what the caller
\* may not read (probe, retrieve_by_ids), and the partition stays within its cap and
\* the turns still evicting (store, evict), and an entry for each eviction that failed, for any
\* number of turns up to the cap, any failures, expiries and changes of the index.
THEOREM CacheSafety == ASSUME FewTurns PROVE CacheSpec => CacheIsSafe
  <1>1. CacheInv => CacheIsBounded
    BY BoundFollows
  <1>2. CacheInv /\ [CacheNext]_cacheVars
          => [\A t \in Turns : (lookup[t].phase = "found" /\ lookup'[t].phase = "hit")
                => lookup'[t].chunks # {} /\ lookup'[t].chunks \subseteq readable]_cacheVars
    BY CacheReadable DEF CacheInv
  <1> QED BY <1>1, <1>2, CacheInductive, PTL DEF CacheSpec, CacheIsSafe, HitIsReadable

-----------------------------------------------------------------------------
(* The memories of one user *)

Recent == {"replacing", "pruning"}

\* Everything that is held, copied or forgotten was extracted; a prune that has a victim
\* has seen more than MemoryCap memories.
MemoryInv ==
    /\ MemoryTypeOK
    /\ \A m \in Memories : points[m].held \/ sweep.copies[m].held => m <= born
    /\ \A m \in forgotten : m <= born
    /\ turn.phase = "replacing" => turn.new \in Memories
    /\ turn.victims # {} => born > MemoryCap

LEMMA MemoryBounds ==
  /\ MaxMemories \in Nat /\ MemoryCap \in Nat /\ MaxCandidates \in Nat /\ MaxSalience \in Nat
  /\ MaxMemoryFaults \in Nat /\ MaxMemoryEvents \in Nat
  /\ 0 \in Ids /\ (\A m \in Memories : m \in Ids) /\ 0 \in 0..MaxCandidates
  BY MemoryAssumption DEF Ids, Memories

LEMMA MemoryNames ==
  /\ NoPoint \in PointType /\ NoPoint.held = FALSE /\ Clean \in FlushType
  /\ \A old \in FlushType : \A set : FlushLive(old, set) \in FlushType
  /\ \A old \in FlushType : \A set : FlushDeleted(old, set) \in FlushType
  BY MemoryBounds
     DEF NoPoint, PointType, Clean, FlushType, FlushLive, FlushDeleted, Ids

\* Committing what was flushed leaves rows of their type.
LEMMA CommittedType ==
  ASSUME MemoryTypeOK, NEW flush \in FlushType
  PROVE  Committed(flush) \in [Memories -> {"none", "live", "deleted"}]
  BY DEF Committed, FlushType, MemoryTypeOK

\* Deleting points leaves all else of them as it was.
LEMMA WithoutFacts ==
  ASSUME MemoryTypeOK, NEW set
  PROVE  /\ Without(set) \in [Memories -> PointType]
         /\ \A m \in Memories : /\ Without(set)[m].held = (points[m].held /\ m \notin set)
                                /\ Without(set)[m].supersedes = points[m].supersedes
                                /\ Without(set)[m].expired = points[m].expired
                                /\ Without(set)[m].salience = points[m].salience
  BY ZenonT(45) DEF Without, MemoryTypeOK, PointType

\* A look-up that fails is counted, and deletes nothing.
LEMMA DeleteFacts ==
  ASSUME MemoryTypeOK, NEW set, DeletePoints(set)
  PROVE  /\ points' \in [Memories -> PointType]
         /\ memoryFaults' \in 0..MaxMemoryFaults
         /\ \/ points' = Without(set) /\ memoryFaults' = memoryFaults
            \/ set # {} /\ points' = points /\ memoryFaults' = memoryFaults + 1
  BY WithoutFacts, MemoryBounds DEF DeletePoints, MemoryFault, MemoryTypeOK

\* What is prunable is nothing, or one of more than MemoryCap memories.
LEMMA PrunableFacts ==
  ASSUME MemoryInv, NEW victims \in Prunable(Readable)
  PROVE  /\ victims \subseteq Readable
         /\ IsFiniteSet(Readable) /\ Cardinality(Readable) \in Nat
         /\ Cardinality(Readable) <= born
         /\ victims = {} => Cardinality(Readable) <= MemoryCap
         /\ victims # {} => /\ born > MemoryCap
                            /\ \E v \in Readable : victims = {v}
  <1>1. Readable \subseteq 1..born /\ born \in Nat
    BY MemoryBounds DEF Readable, Held, MemoryInv, MemoryTypeOK, Memories, Ids
  <1>2. IsFiniteSet(1..born) /\ Cardinality(1..born) = born
    BY <1>1, FS_Interval
  <1>3. /\ IsFiniteSet(Readable) /\ Cardinality(Readable) \in Nat
        /\ Cardinality(Readable) <= born
    BY <1>1, <1>2, FewerLeft
  <1>4. CASE Cardinality(Readable) <= MemoryCap
    BY <1>3, <1>4 DEF Prunable
  <1>5. CASE ~(Cardinality(Readable) <= MemoryCap)
    <2>1. \E v \in Readable : victims = {v}
      BY <1>5 DEF Prunable
    <2>2. born > MemoryCap
      BY <1>1, <1>3, <1>5, MemoryBounds
    <2> QED BY <1>3, <2>1, <2>2
  <1> QED BY <1>4, <1>5

LEMMA MemoryInitInv == MemoryInit => MemoryInv
  <1> SUFFICES ASSUME MemoryInit PROVE MemoryInv
    OBVIOUS
  <1>1. MemoryTypeOK
    BY MemoryNames, MemoryBounds DEF MemoryInit, MemoryTypeOK, NoTurn, NoSweep, Ids
  <1> QED BY <1>1, MemoryNames DEF MemoryInv, MemoryInit, NoTurn, NoSweep

TurnType == [phase: {"idle", "recalled", "answering", "answered", "writing", "replacing",
                     "pruning"},
             consented: BOOLEAN, recalled: SUBSET Memories, seen: SUBSET Memories,
             left: 0..MaxCandidates, new: Ids, victims: SUBSET Memories, flush: FlushType]
SweepType == [phase: {"idle", "expired", "merging", "decayed"},
              copies: [Memories -> PointType], flush: FlushType]

LEMMA MemoryNextInv ==
  ASSUME MemoryInv, [MemoryNext]_memoryVars
  PROVE  MemoryInv'
  <1>0. /\ MemoryTypeOK /\ turn \in TurnType /\ sweep \in SweepType /\ NoTurn \in TurnType
        /\ NoSweep \in SweepType
    BY MemoryNames, MemoryBounds
       DEF MemoryInv, MemoryTypeOK, TurnType, SweepType, NoTurn, NoSweep, Ids
  <1> USE DEF Ids
  <1>1. CASE UNCHANGED memoryVars
    BY <1>1 DEF memoryVars, MemoryInv, MemoryTypeOK
  \* A step that only changes the turn, rows and faults.
  <1>2. ASSUME NEW new \in TurnType, turn' = new, UNCHANGED <<points, sweep, forgotten, born>>,
               new.phase = "replacing" => new.new \in Memories,
               new.victims # {} => born > MemoryCap,
               memoryRows' \in [Memories -> {"none", "live", "deleted"}],
               UNCHANGED <<consent, forgetting, memoryEvents, restored>>,
               memoryFaults' \in 0..MaxMemoryFaults
        PROVE  MemoryInv'
    BY <1>2 DEF MemoryInv, MemoryTypeOK, TurnType
  <1>3. CASE Recall
    <2>1. PICK set \in SUBSET Recallable :
            /\ UNCHANGED memoryFaults \/ MemoryFault("search")
            /\ turn' = [NoTurn EXCEPT !.phase = "recalled", !.consented = consent, !.recalled = set]
      BY <1>3 DEF Recall
    <2>2. turn' \in TurnType /\ turn'.phase = "recalled" /\ turn'.victims = {}
      BY <1>0, <2>1 DEF NoTurn, TurnType, MemoryTypeOK, Recallable, Readable, Held
    <2>3. memoryFaults' \in 0..MaxMemoryFaults
      BY <1>0, <2>1, MemoryBounds DEF MemoryFault, MemoryTypeOK
    <2> QED BY <1>0, <1>2, <1>3, <2>2, <2>3 DEF Recall, MemoryTypeOK
  <1>4. CASE Touch
    <2> DEFINE flush == FlushLive(turn.flush, turn.recalled)
               new   == [turn EXCEPT !.phase = "answering", !.flush = flush]
    <2>1. flush \in FlushType
      BY <1>0, MemoryNames DEF TurnType
    <2>2. turn' = new
      BY <1>0, <1>4 DEF Touch, TurnType
    <2> HIDE DEF flush
    <2>3. new \in TurnType /\ new.phase = "answering" /\ new.victims = turn.victims
      BY <1>0, <2>1 DEF TurnType
    <2> HIDE DEF new
    <2>4. /\ points' \in [Memories -> PointType]
          /\ \A m \in Memories : points'[m].held = points[m].held
      BY <1>0, <1>4, MemoryBounds DEF Touch, Boosted, MemoryTypeOK, PointType
    <2> QED BY <1>0, <1>4, <2>2, <2>3, <2>4 DEF Touch, MemoryInv, MemoryTypeOK, TurnType
  <1>5. CASE CommitAnswer
    <2>1. turn' = [turn EXCEPT !.phase = "answered", !.flush = Clean]
      BY <1>5 DEF CommitAnswer
    <2>2. turn' \in TurnType /\ turn'.phase = "answered" /\ turn'.victims = turn.victims
      BY <1>0, <2>1, MemoryNames DEF TurnType
    <2>3. memoryRows' \in [Memories -> {"none", "live", "deleted"}]
      BY <1>0, <1>5, CommittedType DEF CommitAnswer, MemoryTypeOK, TurnType
    <2>4. memoryFaults' \in 0..MaxMemoryFaults
      BY <1>0, <1>5, MemoryBounds DEF CommitAnswer, MemoryFault, MemoryTypeOK
    <2> QED BY <1>0, <1>2, <1>5, <2>2, <2>3, <2>4 DEF CommitAnswer, MemoryInv
  <1>6. CASE Extract
    <2>1. /\ turn' \in TurnType /\ turn'.phase # "replacing"
          /\ turn'.victims = turn.victims \/ turn'.victims = {}
      <3>1. CASE turn' = NoTurn
        BY <1>0, <3>1 DEF NoTurn
      <3>2. ASSUME NEW n \in 1..MaxCandidates,
                   turn' = [turn EXCEPT !.phase = "writing", !.seen = Readable, !.left = n]
            PROVE  /\ turn' \in TurnType /\ turn'.phase # "replacing"
                   /\ turn'.victims = turn.victims
        <4>1. n \in 0..MaxCandidates /\ Readable \in SUBSET Memories
          BY MemoryBounds DEF Readable, Held
        <4> QED BY <1>0, <3>2, <4>1 DEF TurnType
      <3> QED BY <1>6, <3>1, <3>2 DEF Extract
    <2> QED BY <1>0, <1>2, <1>6, <2>1 DEF Extract, MemoryInv, MemoryTypeOK
  <1>7. CASE Remember
    <2>0. turn.phase = "writing" /\ turn.left \in 0..MaxCandidates /\ turn.left > 0
          /\ turn.left - 1 \in 0..MaxCandidates
      BY <1>0, <1>7, MemoryBounds DEF Remember, TurnType
    <2>1. CASE /\ born < MaxMemories
               /\ \E old \in turn.seen \cup {0}, s \in 1..MaxSalience :
                    points' = [points EXCEPT ![born + 1] =
                      [held |-> TRUE, salience |-> s, expired |-> FALSE, supersedes |-> old]]
               /\ born' = born + 1
               /\ turn' = [turn EXCEPT !.phase = "replacing", !.new = born + 1, !.left = @ - 1]
      <3>1. PICK old \in turn.seen \cup {0}, s \in 1..MaxSalience :
              points' = [points EXCEPT ![born + 1] =
                [held |-> TRUE, salience |-> s, expired |-> FALSE, supersedes |-> old]]
        BY <2>1
      <3>0. born \in 0..MaxMemories
        BY <1>0 DEF MemoryTypeOK
      <3>2. born \in Nat /\ born + 1 \in Memories /\ born' = born + 1 /\ born' \in Ids
        BY <2>1, <3>0, MemoryBounds DEF Memories
      <3> DEFINE next  == born + 1
                 less  == turn.left - 1
                 point == [held |-> TRUE, salience |-> s, expired |-> FALSE, supersedes |-> old]
                 new   == [turn EXCEPT !.phase = "replacing", !.new = next, !.left = less]
      <3>3. point \in PointType
        BY <1>0, <3>1, MemoryBounds DEF PointType, TurnType, Memories
      <3> HIDE DEF point
      <3>4. /\ points' \in [Memories -> PointType]
            /\ \A m \in Memories : m # born + 1 => points'[m] = points[m]
        BY <1>0, <3>1, <3>3 DEF MemoryTypeOK, point
      <3>5. turn' = new
        BY <1>0, <2>1 DEF TurnType
      <3> HIDE DEF next, less
      <3>6. new \in TurnType /\ new.new = next /\ new.victims = turn.victims
        BY <1>0, <2>0, <3>2 DEF TurnType, less, next, Memories
      <3>7. \A m \in Memories : points'[m].held \/ sweep.copies[m].held => m <= born'
        BY <3>2, <3>4 DEF MemoryInv, Memories
      <3>8. \A m \in forgotten : m <= born'
        BY <1>0, <3>2 DEF MemoryInv, MemoryTypeOK, Memories
      <3>9. turn.victims # {} => born' > MemoryCap
        BY <3>2, MemoryBounds DEF MemoryInv
      <3> HIDE DEF new
      <3> QED BY <1>0, <1>7, <3>2, <3>4, <3>5, <3>6, <3>7, <3>8, <3>9
              DEF Remember, MemoryInv, MemoryTypeOK, TurnType, next
    <2>2. CASE turn' = [turn EXCEPT !.left = @ - 1] /\ UNCHANGED <<points, born>>
      <3> DEFINE less == turn.left - 1
      <3>1. turn' = [turn EXCEPT !.left = less]
        BY <1>0, <2>2 DEF TurnType
      <3> HIDE DEF less
      <3>2. turn' \in TurnType /\ turn'.phase = "writing" /\ turn'.victims = turn.victims
        BY <1>0, <2>0, <3>1 DEF TurnType, less
      <3> QED BY <1>0, <1>2, <1>7, <2>2, <3>2 DEF Remember, MemoryInv, MemoryTypeOK
    <2> QED BY <1>7, <2>1, <2>2 DEF Remember
  <1>8. CASE Replace
    <2> DEFINE old   == {points[turn.new].supersedes} \ {0}
               flush == FlushDeleted(FlushLive(turn.flush, {turn.new}), old)
               new   == [turn EXCEPT !.phase = "writing", !.new = 0, !.flush = flush]
    <2>1. DeletePoints(old) /\ turn' = new /\ flush \in FlushType
      BY <1>0, <1>8, MemoryNames DEF Replace, TurnType
    <2>2. /\ points' \in [Memories -> PointType] /\ memoryFaults' \in 0..MaxMemoryFaults
          /\ \A m \in Memories : points'[m].held => points[m].held
      BY <1>0, <2>1, DeleteFacts, WithoutFacts
    <2> HIDE DEF old, flush
    <2>3. new \in TurnType /\ new.phase = "writing" /\ new.victims = turn.victims
      BY <1>0, <2>1, MemoryBounds DEF TurnType
    <2> HIDE DEF new
    <2> QED BY <1>0, <1>8, <2>1, <2>2, <2>3 DEF Replace, MemoryInv, MemoryTypeOK, TurnType
  <1>9. CASE PruneScan
    <2>1. PICK victims \in Prunable(Readable) :
            turn' = [turn EXCEPT !.phase = "pruning", !.victims = victims]
      BY <1>9 DEF PruneScan
    <2>2. victims \subseteq Memories /\ (victims # {} => born > MemoryCap)
      BY <2>1, PrunableFacts DEF Readable, Held
    <2>3. turn' \in TurnType /\ turn'.phase = "pruning" /\ turn'.victims = victims
      BY <1>0, <2>1, <2>2 DEF TurnType
    <2> QED BY <1>0, <1>2, <1>9, <2>2, <2>3 DEF PruneScan, MemoryTypeOK
  <1>10. CASE PruneDelete
    <2>1. DeletePoints(turn.victims) /\ turn' = NoTurn /\ NoTurn.victims = {} /\ NoTurn.phase = "idle"
      BY <1>10 DEF PruneDelete, NoTurn
    <2>2. /\ points' \in [Memories -> PointType] /\ memoryFaults' \in 0..MaxMemoryFaults
          /\ \A m \in Memories : points'[m].held => points[m].held
      BY <1>0, <2>1, DeleteFacts, WithoutFacts
    <2> QED BY <1>0, <1>10, <2>1, <2>2 DEF PruneDelete, MemoryInv, MemoryTypeOK, TurnType
  <1>11. CASE SweepExpire
    <2> DEFINE stale == {m \in Held : points[m].expired}
               flush == FlushDeleted(sweep.flush, stale)
               new   == [sweep EXCEPT !.phase = "expired", !.flush = flush]
    <2>1. DeletePoints(stale) /\ sweep' = new /\ flush \in FlushType
      BY <1>0, <1>11, MemoryNames DEF SweepExpire, SweepType
    <2>2. /\ points' \in [Memories -> PointType] /\ memoryFaults' \in 0..MaxMemoryFaults
          /\ \A m \in Memories : points'[m].held => points[m].held
      BY <1>0, <2>1, DeleteFacts, WithoutFacts
    <2> HIDE DEF stale, flush
    <2>3. new \in SweepType /\ new.copies = sweep.copies
      BY <1>0, <2>1 DEF SweepType
    <2> HIDE DEF new
    <2>4. memoryEvents' \in 0..MaxMemoryEvents
      BY <1>0, <1>11, MemoryBounds DEF SweepExpire, MemoryEvent, MemoryTypeOK
    <2> QED BY <1>0, <1>11, <2>1, <2>2, <2>3, <2>4
            DEF SweepExpire, MemoryInv, MemoryTypeOK, SweepType
  <1>12. CASE SweepScan
    <2> DEFINE copies == [m \in Memories |-> IF m \in Readable THEN points[m] ELSE NoPoint]
               new    == [sweep EXCEPT !.phase = "merging", !.copies = copies]
    <2>1. /\ copies \in [Memories -> PointType]
          /\ \A m \in Memories : copies[m].held => points[m].held
      BY <1>0, MemoryNames DEF MemoryTypeOK, Readable, Held
    <2>2. sweep' = new
      BY <1>12 DEF SweepScan
    <2> HIDE DEF copies
    <2>3. new \in SweepType /\ new.copies = copies
      BY <1>0, <2>1 DEF SweepType
    <2> HIDE DEF new
    <2> QED BY <1>0, <1>12, <2>1, <2>2, <2>3 DEF SweepScan, MemoryInv, MemoryTypeOK, SweepType
  <1>13. CASE SweepMerge
    <2>1. PICK keep \in Memories, drop \in Memories :
            /\ keep # drop
            /\ sweep.copies[keep].held /\ sweep.copies[drop].held
            /\ LET kept == [sweep.copies[keep] EXCEPT !.supersedes = drop]
               IN  /\ points' = [Without({drop}) EXCEPT ![keep] = kept]
                   /\ sweep' = [sweep EXCEPT !.copies[keep] = kept, !.copies[drop] = NoPoint,
                                  !.flush = FlushDeleted(FlushLive(@, {keep}), {drop})]
                   /\ restored' = IF keep \in Readable THEN restored ELSE restored + 1
      BY <1>13 DEF SweepMerge
    <2> DEFINE kept   == [sweep.copies[keep] EXCEPT !.supersedes = drop]
               copies == [[sweep.copies EXCEPT ![keep] = kept] EXCEPT ![drop] = NoPoint]
               flush  == FlushDeleted(FlushLive(sweep.flush, {keep}), {drop})
               new    == [sweep EXCEPT !.copies = copies, !.flush = flush]
    <2>2. /\ sweep.copies \in [Memories -> PointType] /\ sweep.flush \in FlushType
          /\ kept \in PointType /\ flush \in FlushType
      BY <1>0, MemoryNames, MemoryBounds DEF SweepType, PointType
    <2>3. points' = [Without({drop}) EXCEPT ![keep] = kept]
      BY <2>1
    <2>4. sweep' = new
      BY <1>0, <2>1, <2>2 DEF SweepType
    <2> HIDE DEF kept, flush
    <2>5. /\ copies \in [Memories -> PointType]
          /\ \A m \in Memories : copies[m].held => sweep.copies[m].held
      BY <2>1, <2>2, MemoryNames
    <2> HIDE DEF copies
    <2>6. new \in SweepType /\ new.copies = copies
      BY <1>0, <2>2, <2>5 DEF SweepType
    <2> HIDE DEF new
    <2>7. /\ points' \in [Memories -> PointType]
          /\ \A m \in Memories : points'[m].held => points[m].held \/ m = keep
      BY <1>0, <2>2, <2>3, WithoutFacts
    <2>8. restored' \in Nat
      BY <1>0, <2>1 DEF MemoryTypeOK
    <2> QED BY <1>0, <1>13, <2>1, <2>4, <2>5, <2>6, <2>7, <2>8
            DEF SweepMerge, MemoryInv, MemoryTypeOK, SweepType
  <1>14. CASE SweepDecay
    <2>1. PICK aged \in SUBSET {m \in Memories : sweep.copies[m].held /\ sweep.copies[m].salience > 0} :
            /\ points' = [m \in Memories |->
                            IF m \in aged /\ points[m].held
                            THEN [points[m] EXCEPT !.salience = sweep.copies[m].salience - 1]
                            ELSE points[m]]
            /\ sweep' = [sweep EXCEPT !.phase = "decayed", !.flush = FlushLive(@, aged)]
      BY <1>14 DEF SweepDecay
    <2>5. \A m \in aged : sweep.copies[m].salience - 1 \in 0..MaxSalience
      BY <1>0, MemoryBounds DEF PointType, SweepType
    <2>2. /\ points' \in [Memories -> PointType]
          /\ \A m \in Memories : points'[m].held = points[m].held
      BY <1>0, <2>1, <2>5 DEF MemoryTypeOK, PointType
    <2> DEFINE flush == FlushLive(sweep.flush, aged)
               new   == [sweep EXCEPT !.phase = "decayed", !.flush = flush]
    <2>3. flush \in FlushType /\ sweep' = new
      BY <1>0, <2>1, MemoryNames DEF SweepType
    <2> HIDE DEF flush
    <2>4. new \in SweepType /\ new.copies = sweep.copies
      BY <1>0, <2>3 DEF SweepType
    <2> HIDE DEF new
    <2> QED BY <1>0, <1>14, <2>2, <2>3, <2>4 DEF SweepDecay, MemoryInv, MemoryTypeOK, SweepType
  <1>15. CASE SweepPrune
    <2>1. PICK victims \in Prunable(Readable) :
            /\ DeletePoints(victims)
            /\ memoryRows' = Committed(FlushDeleted(sweep.flush, victims))
      BY <1>15 DEF SweepPrune
    <2>2. /\ points' \in [Memories -> PointType] /\ memoryFaults' \in 0..MaxMemoryFaults
          /\ \A m \in Memories : points'[m].held => points[m].held
      BY <1>0, <2>1, DeleteFacts, WithoutFacts
    <2>3. memoryRows' \in [Memories -> {"none", "live", "deleted"}]
      BY <1>0, <2>1, MemoryNames, CommittedType DEF SweepType
    <2>4. sweep' = NoSweep /\ \A m \in Memories : ~NoSweep.copies[m].held
      BY <1>15, MemoryNames DEF SweepPrune, NoSweep
    <2> QED BY <1>0, <1>15, <2>2, <2>3, <2>4 DEF SweepPrune, MemoryInv, MemoryTypeOK, SweepType
  <1>16. CASE ForgetPoint
    <2>1. PICK m \in 1..born :
            /\ DeletePoints({m})
            /\ forgetting' = m
            /\ forgotten' = IF points[m].held /\ ~points'[m].held
                            THEN forgotten \cup {m} ELSE forgotten
      BY <1>16 DEF ForgetPoint
    <2>2. m \in Memories /\ m <= born
      BY <1>0, <2>1, MemoryBounds DEF MemoryTypeOK, Memories
    <2>3. /\ points' \in [Memories -> PointType] /\ memoryFaults' \in 0..MaxMemoryFaults
          /\ \A k \in Memories : points'[k].held => points[k].held
      BY <1>0, <2>1, DeleteFacts, WithoutFacts
    <2>4. memoryEvents' \in 0..MaxMemoryEvents
      BY <1>0, <1>16, MemoryBounds DEF ForgetPoint, MemoryEvent, MemoryTypeOK
    <2>5. forgotten' \subseteq Memories /\ \A k \in forgotten' : k <= born
      BY <1>0, <2>1, <2>2 DEF MemoryInv, MemoryTypeOK
    <2> QED BY <1>0, <1>16, <2>1, <2>2, <2>3, <2>4, <2>5, MemoryBounds
            DEF ForgetPoint, MemoryInv, MemoryTypeOK
  <1>17. CASE ForgetRow
    <2>1. memoryRows' \in [Memories -> {"none", "live", "deleted"}]
      BY <1>0, <1>17, MemoryNames, CommittedType DEF ForgetRow
    <2> QED BY <1>0, <1>17, <2>1, MemoryBounds DEF ForgetRow, MemoryInv, MemoryTypeOK
  <1>18. CASE SetConsent
    <2>1. memoryRows' \in [Memories -> {"none", "live", "deleted"}]
      BY <1>0, <1>18, MemoryNames, CommittedType DEF SetConsent, MemoryTypeOK
    <2>2. memoryEvents' \in 0..MaxMemoryEvents
      BY <1>0, <1>18, MemoryBounds DEF SetConsent, MemoryEvent, MemoryTypeOK
    <2>3. consent' \in BOOLEAN
      BY <1>18 DEF SetConsent
    <2> QED BY <1>0, <1>18, <2>1, <2>2, <2>3 DEF SetConsent, MemoryInv, MemoryTypeOK
  <1>19. CASE ExpireMemory
    <2>1. PICK m \in Readable : points' = [points EXCEPT ![m].expired = TRUE]
      BY <1>19 DEF ExpireMemory
    <2>2. /\ points' \in [Memories -> PointType]
          /\ \A k \in Memories : points'[k].held = points[k].held
      BY <1>0, <2>1 DEF Readable, Held, MemoryTypeOK, PointType
    <2>3. memoryEvents' \in 0..MaxMemoryEvents
      BY <1>0, <1>19, MemoryBounds DEF ExpireMemory, MemoryEvent, MemoryTypeOK
    <2> QED BY <1>0, <1>19, <2>2, <2>3 DEF ExpireMemory, MemoryInv, MemoryTypeOK
  <1> QED BY <1>1, <1>3, <1>4, <1>5, <1>6, <1>7, <1>8, <1>9, <1>10, <1>11, <1>12, <1>13, <1>14,
             <1>15, <1>16, <1>17, <1>18, <1>19 DEF MemoryNext

\* Writing a salience or an expiry to a point does not make it or remove it.
LEMMA HeldKept ==
  ASSUME MemoryTypeOK, Touch \/ SweepDecay \/ ExpireMemory
  PROVE  \A m \in Memories : points'[m].held = points[m].held
  <1>1. CASE Touch
    BY <1>1 DEF Touch, Boosted, MemoryTypeOK, PointType
  <1>2. CASE SweepDecay
    <2>1. PICK aged :
            points' = [m \in Memories |->
                         IF m \in aged /\ points[m].held
                         THEN [points[m] EXCEPT !.salience = sweep.copies[m].salience - 1]
                         ELSE points[m]]
      BY <1>2 DEF SweepDecay
    <2> QED BY <2>1 DEF MemoryTypeOK, PointType
  <1>3. CASE ExpireMemory
    <2>1. PICK k \in Memories : points' = [points EXCEPT ![k].expired = TRUE]
      BY <1>3 DEF ExpireMemory, Readable, Held
    <2> QED BY <2>1 DEF MemoryTypeOK, PointType
  <1> QED BY <1>1, <1>2, <1>3

\* What leaves the collection in one step: the reasons of LostForAReason.
LEMMA MemoryLoss ==
  ASSUME MemoryInv, [MemoryNext]_memoryVars, NEW m \in Held \ Held'
  PROVE  \/ points[m].expired
         \/ forgetting' = m
         \/ \E k \in Memories : points'[k].supersedes = m
         \/ born > MemoryCap
  <1>0. /\ MemoryTypeOK /\ m \in Memories /\ points[m].held /\ ~points'[m].held
        /\ turn \in TurnType /\ sweep \in SweepType
    BY DEF MemoryInv, MemoryTypeOK, Held, TurnType, SweepType
  <1>1. ASSUME NEW set, DeletePoints(set)
        PROVE  m \in set /\ points' = Without(set)
    BY <1>0, <1>1, DeleteFacts, WithoutFacts
  <1>2. ~UNCHANGED points
    BY <1>0
  <1>3. CASE Touch \/ SweepDecay \/ ExpireMemory
    BY <1>0, <1>3, HeldKept
  <1>4. CASE Remember
    <2>1. \E point : points' = [points EXCEPT ![born + 1] = point]
      BY <1>2, <1>4 DEF Remember
    <2>2. m # born + 1
      BY <1>0, MemoryBounds DEF MemoryInv, MemoryTypeOK, Ids
    <2> QED BY <1>0, <2>1, <2>2 DEF MemoryTypeOK
  <1>5. CASE Replace
    <2>1. /\ m = points[turn.new].supersedes /\ turn.new \in Memories
          /\ points' = Without({points[turn.new].supersedes} \ {0})
      BY <1>0, <1>1, <1>5 DEF Replace, MemoryInv
    <2> QED BY <1>0, <2>1, WithoutFacts
  <1>6. CASE PruneDelete
    BY <1>1, <1>6 DEF PruneDelete, MemoryInv
  <1>7. CASE SweepExpire
    <2>1. m \in {k \in Held : points[k].expired}
      BY <1>1, <1>7 DEF SweepExpire
    <2> QED BY <2>1
  <1>8. CASE SweepMerge
    <2>1. PICK keep \in Memories, drop \in Memories :
            /\ keep # drop /\ sweep.copies[keep].held
            /\ points' = [Without({drop}) EXCEPT ![keep] =
                            [sweep.copies[keep] EXCEPT !.supersedes = drop]]
      BY <1>8 DEF SweepMerge
    <2> DEFINE kept == [sweep.copies[keep] EXCEPT !.supersedes = drop]
    <2>2. kept.held /\ kept.supersedes = drop
      BY <1>0, <2>1 DEF SweepType, PointType
    <2> HIDE DEF kept
    <2>3. points' = [Without({drop}) EXCEPT ![keep] = kept]
      BY <2>1 DEF kept
    <2>4. points'[keep].held /\ points'[keep].supersedes = drop
      BY <1>0, <2>2, <2>3, WithoutFacts
    <2>5. m = drop
      <3>1. m # keep
        BY <1>0, <2>4
      <3>2. points'[m] = Without({drop})[m]
        BY <1>0, <2>3, <3>1, WithoutFacts
      <3> QED BY <1>0, <3>2, WithoutFacts, ZenonT(45)
    <2> QED BY <2>4, <2>5
  <1>9. CASE SweepPrune
    <2>1. PICK victims \in Prunable(Readable) : DeletePoints(victims)
      BY <1>9 DEF SweepPrune
    <2> QED BY <1>1, <2>1, PrunableFacts
  <1>10. CASE ForgetPoint
    <2>1. PICK k : DeletePoints({k}) /\ forgetting' = k
      BY <1>10 DEF ForgetPoint
    <2> QED BY <1>1, <2>1
  <1> QED BY <1>2, <1>3, <1>4, <1>5, <1>6, <1>7, <1>8, <1>9, <1>10
          DEF MemoryNext, memoryVars, Recall, CommitAnswer, Extract, PruneScan, SweepScan,
              ForgetRow, SetConsent

\* What comes back into the collection in one step after it was forgotten.
LEMMA MemoryReturn ==
  ASSUME MemoryInv, [MemoryNext]_memoryVars, NEW m \in forgotten, m \in Held' \ Held
  PROVE  sweep.copies[m].held
  <1>0. /\ MemoryTypeOK /\ m \in Memories /\ points'[m].held /\ ~points[m].held /\ m <= born
        /\ sweep \in SweepType
    BY DEF MemoryInv, MemoryTypeOK, Held, SweepType
  <1>1. ~UNCHANGED points
    BY <1>0
  <1>2. ASSUME NEW set, DeletePoints(set) PROVE FALSE
    BY <1>0, <1>2, DeleteFacts, WithoutFacts
  <1>3. CASE Touch \/ SweepDecay \/ ExpireMemory
    BY <1>0, <1>3, HeldKept
  <1>4. CASE Remember
    <2>1. \E point : points' = [points EXCEPT ![born + 1] = point]
      BY <1>1, <1>4 DEF Remember
    <2>2. m # born + 1
      BY <1>0, MemoryBounds DEF MemoryTypeOK, Ids, Memories
    <2> QED BY <1>0, <2>1, <2>2 DEF MemoryTypeOK
  <1>5. CASE SweepMerge
    <2>0. PICK keep \in Memories, drop \in Memories : \E kept :
              /\ sweep.copies[keep].held
              /\ points' = [Without({drop}) EXCEPT ![keep] = kept]
      BY <1>5 DEF SweepMerge
    <2>1. PICK kept :
            /\ sweep.copies[keep].held
            /\ points' = [Without({drop}) EXCEPT ![keep] = kept]
      BY <2>0
    <2>2. m = keep
      BY <1>0, <2>1, WithoutFacts
    <2> QED BY <2>1, <2>2
  <1>6. ~(Replace \/ PruneDelete \/ SweepExpire \/ SweepPrune \/ ForgetPoint)
    BY <1>2 DEF Replace, PruneDelete, SweepExpire, SweepPrune, ForgetPoint
  <1> QED BY <1>1, <1>3, <1>4, <1>5, <1>6
          DEF MemoryNext, memoryVars, Recall, CommitAnswer, Extract, PruneScan, SweepScan,
              ForgetRow, SetConsent

\* How many memories may be readable, and whether the turn still has one to prune.
Allowed == MemoryCap + memoryFaults + restored
Due == IF turn.phase = "replacing" \/ (turn.phase = "writing" /\ turn.left = 0) THEN 1 ELSE 0

\* The strengthening of GrowthIsBounded: what the turn has chosen to prune does not count.
GrowthInv ==
    /\ MemoryInv
    /\ turn.phase # "pruning" => turn.victims = {}
    /\ turn.victims = {} \/ \E v : turn.victims = {v}
    /\ turn.phase = "replacing" => turn.left = 0
    /\ Cardinality(Readable \ turn.victims) <= Allowed + Due

\* Nothing becomes readable by deleting other points.
LEMMA ReadableWithout ==
  ASSUME MemoryTypeOK, NEW set, NEW m \in Memories,
         Without(set)[m].held, ~Without(set)[m].expired
  PROVE  m \in Readable
  BY DEF Without, MemoryTypeOK, PointType, Readable, Held

LEMMA ReadableFinite ==
  ASSUME MemoryInv
  PROVE  IsFiniteSet(Readable)
  <1>1. Readable \subseteq 1..born /\ born \in Nat
    BY MemoryBounds DEF Readable, Held, MemoryInv, MemoryTypeOK, Memories, Ids
  <1>2. IsFiniteSet(1..born)
    BY <1>1, FS_Interval
  <1> QED BY <1>1, <1>2, FewerLeft

\* Fewer readable memories, and no less allowed, keep the bound.
LEMMA GrowthKept ==
  ASSUME GrowthInv, MemoryInv', Readable' \subseteq Readable, turn'.victims = turn.victims,
         turn'.phase # "pruning" => turn'.victims = {},
         turn'.phase = "replacing" => turn'.left = 0,
         memoryFaults' >= memoryFaults, restored' = restored, Due' >= Due
  PROVE  GrowthInv'
  <1> DEFINE before == Readable \ turn.victims
             after  == Readable' \ turn'.victims
  <1>1. IsFiniteSet(before) /\ after \subseteq before
    BY ReadableFinite, FS_Difference DEF GrowthInv
  <1>2. Cardinality(before) <= Allowed + Due
    BY DEF GrowthInv
  <1> HIDE DEF before, after
  <1>3. /\ Cardinality(after) \in Nat /\ Cardinality(before) \in Nat
        /\ Cardinality(after) <= Cardinality(before)
    BY <1>1, FewerLeft
  <1>6. Due \in Nat /\ Due' \in Nat
    BY DEF Due
  <1>7. /\ memoryFaults \in Nat /\ restored \in Nat /\ memoryFaults' \in Nat
    BY MemoryBounds DEF GrowthInv, MemoryInv, MemoryTypeOK
  <1>4. Allowed' >= Allowed /\ Allowed \in Nat /\ Allowed' \in Nat /\ Due \in Nat /\ Due' \in Nat
    <2>1. Allowed = MemoryCap + memoryFaults + restored /\ Allowed' = MemoryCap + memoryFaults' + restored
      BY DEF Allowed
    <2>2. Allowed \in Nat /\ Allowed' \in Nat /\ Allowed' >= Allowed
      <3>1. \A cap, f, g, r \in Nat : f <= g => /\ cap + f + r \in Nat /\ cap + g + r \in Nat
                                               /\ cap + g + r >= cap + f + r
        OBVIOUS
      <3>2. MemoryCap \in Nat /\ memoryFaults <= memoryFaults'
        BY <1>7, MemoryBounds
      <3> QED BY <1>7, <2>1, <3>1, <3>2
    <2> QED BY <1>6, <2>2
  <1>5. Cardinality(after) <= Allowed' + Due'
    BY <1>2, <1>3, <1>4
  <1> QED BY <1>5 DEF GrowthInv, after

LEMMA GrowthSame ==
  ASSUME GrowthInv, MemoryInv', Readable' \subseteq Readable, turn' = turn,
         memoryFaults' >= memoryFaults, restored' = restored
  PROVE  GrowthInv'
  <1>1. Due' = Due /\ Due \in Nat
    BY DEF Due
  <1>2. Due' >= Due
    BY <1>1
  <1> QED BY <1>2, GrowthKept DEF GrowthInv

\* One more readable memory, and one more allowed, keep the bound.
LEMMA GrowthByOne ==
  ASSUME GrowthInv, MemoryInv', NEW m, Readable' \ turn'.victims \subseteq (Readable \ turn.victims) \cup {m},
         turn'.phase # "pruning" => turn'.victims = {},
         turn'.victims = {} \/ \E v : turn'.victims = {v},
         turn'.phase = "replacing" => turn'.left = 0,
         Allowed' + Due' = Allowed + Due + 1
  PROVE  GrowthInv'
  <1> DEFINE before == Readable \ turn.victims
             after  == Readable' \ turn'.victims
  <1>1. IsFiniteSet(before) /\ after \subseteq before \cup {m}
    BY ReadableFinite, FS_Difference DEF GrowthInv
  <1>2. Cardinality(before) <= Allowed + Due
    BY DEF GrowthInv
  <1> HIDE DEF before, after
  <1>3. /\ Cardinality(before) \in Nat /\ IsFiniteSet(before \cup {m})
        /\ Cardinality(before \cup {m}) \in Nat
        /\ Cardinality(before \cup {m}) <= Cardinality(before) + 1
    <2>1. Cardinality(before \cup {m}) = Cardinality(before)
          \/ Cardinality(before \cup {m}) = Cardinality(before) + 1
      BY <1>1, FS_AddElement
    <2>2. Cardinality(before) \in Nat /\ IsFiniteSet(before \cup {m})
      BY <1>1, FS_AddElement, FS_CardinalityType
    <2> QED BY <2>1, <2>2
  <1>4. Cardinality(after) \in Nat /\ Cardinality(after) <= Cardinality(before \cup {m})
    BY <1>1, <1>3, FewerLeft
  <1>5. Allowed \in Nat /\ Due \in Nat
    BY MemoryBounds DEF Allowed, Due, GrowthInv, MemoryInv, MemoryTypeOK
  <1>6. Cardinality(after) <= Allowed' + Due'
    BY <1>2, <1>3, <1>4, <1>5
  <1> QED BY <1>6 DEF GrowthInv, after

LEMMA GrowthInitInv == MemoryInit => GrowthInv
  <1> SUFFICES ASSUME MemoryInit PROVE GrowthInv
    OBVIOUS
  <1>1. MemoryInv /\ turn.victims = {} /\ turn.phase = "idle"
    BY MemoryInitInv DEF MemoryInit, NoTurn
  <1>2. Readable \ turn.victims = {}
    BY MemoryNames DEF MemoryInit, Readable, Held
  <1>3. Cardinality(Readable \ turn.victims) = 0
    BY <1>2, FS_EmptySet
  <1> QED BY <1>1, <1>3, MemoryBounds DEF GrowthInv, Allowed, Due, MemoryInit

LEMMA GrowthNextInv ==
  ASSUME MaxCandidates = 1, GrowthInv, [MemoryNext]_memoryVars
  PROVE  GrowthInv'
  <1>0. /\ MemoryInv /\ MemoryInv' /\ MemoryTypeOK /\ turn \in TurnType
        /\ memoryFaults \in Nat /\ restored \in Nat
    BY MemoryNextInv, MemoryBounds DEF GrowthInv, MemoryInv, MemoryTypeOK, TurnType
  <1>1. ASSUME NEW set, DeletePoints(set)
        PROVE  Readable' \subseteq Readable /\ memoryFaults' >= memoryFaults
    <2>1. CASE points' = Without(set) /\ memoryFaults' = memoryFaults
      BY <1>0, <2>1, ReadableWithout DEF Readable, Held
    <2>2. CASE points' = points /\ memoryFaults' = memoryFaults + 1
      BY <1>0, <2>2 DEF Readable, Held
    <2> QED BY <1>0, <1>1, <2>1, <2>2, DeleteFacts
  <1>2. CASE UNCHANGED memoryVars
    BY <1>0, <1>2, GrowthSame DEF memoryVars, Readable, Held
  <1>3. CASE Recall
    <2>1. /\ turn.phase = "idle" /\ turn'.phase = "recalled" /\ turn'.victims = {}
          /\ turn.victims = {} /\ UNCHANGED <<points, restored>>
      BY <1>3 DEF Recall, GrowthInv, NoTurn
    <2>2. memoryFaults' >= memoryFaults
      BY <1>0, <1>3 DEF Recall, MemoryFault
    <2> QED BY <1>0, <2>1, <2>2, GrowthKept DEF Readable, Held, Due
  <1>4. CASE Touch
    <2>1. /\ turn.phase = "recalled" /\ turn'.phase = "answering" /\ turn'.victims = turn.victims
          /\ UNCHANGED <<memoryFaults, restored>>
      BY <1>0, <1>4 DEF Touch, TurnType
    <2>2. Readable' \subseteq Readable
      BY <1>0, <1>4 DEF Touch, Boosted, Readable, Held, MemoryTypeOK, PointType
    <2> QED BY <1>0, <2>1, <2>2, GrowthKept DEF Due, GrowthInv
  <1>5. CASE CommitAnswer
    <2>1. /\ turn.phase = "answering" /\ turn'.phase = "answered" /\ turn'.victims = turn.victims
          /\ UNCHANGED <<points, restored>>
      BY <1>0, <1>5 DEF CommitAnswer, TurnType
    <2>2. memoryFaults' >= memoryFaults
      BY <1>0, <1>5 DEF CommitAnswer, MemoryFault
    <2> QED BY <1>0, <2>1, <2>2, GrowthKept DEF Readable, Held, Due, GrowthInv
  <1>6. CASE Extract
    <2>1. /\ turn.phase = "answered" /\ turn.victims = {}
          /\ UNCHANGED <<points, restored, memoryFaults>>
      BY <1>6 DEF Extract, GrowthInv
    <2>2. turn'.victims = {} /\ turn'.phase # "replacing"
      <3>1. ASSUME NEW n \in 1..MaxCandidates,
                   turn' = [turn EXCEPT !.phase = "writing", !.seen = Readable, !.left = n]
            PROVE  turn'.victims = {} /\ turn'.phase # "replacing"
        BY <1>0, <2>1, <3>1 DEF TurnType
      <3>2. CASE turn' = NoTurn
        BY <3>2 DEF NoTurn
      <3> QED BY <1>6, <3>1, <3>2 DEF Extract
    <2>3. Due = 0 /\ Due' >= 0
      BY <2>1 DEF Due
    <2> QED BY <1>0, <2>1, <2>2, <2>3, GrowthKept DEF Readable, Held
  <1>7. CASE Remember
    <2>1. /\ turn.phase = "writing" /\ turn.left = 1 /\ turn.victims = {} /\ Due = 0
          /\ UNCHANGED <<memoryFaults, restored>>
      BY <1>0, <1>7 DEF Remember, GrowthInv, TurnType, Due
    <2>2. CASE /\ \E point : points' = [points EXCEPT ![born + 1] = point]
               /\ turn' = [turn EXCEPT !.phase = "replacing", !.new = born + 1, !.left = @ - 1]
      <3>1. turn'.phase = "replacing" /\ turn'.left = 0 /\ turn'.victims = {}
        BY <1>0, <2>1, <2>2 DEF TurnType
      <3>2. Readable' \ turn'.victims \subseteq (Readable \ turn.victims) \cup {born + 1}
        BY <1>0, <2>1, <2>2, <3>1 DEF Readable, Held, MemoryTypeOK
      <3>3. Allowed' + Due' = Allowed + Due + 1
        BY <1>0, <2>1, <3>1, MemoryBounds DEF Allowed, Due
      <3> QED BY <1>0, <3>1, <3>2, <3>3, GrowthByOne
    <2>3. CASE turn' = [turn EXCEPT !.left = @ - 1] /\ UNCHANGED points
      <3>1. turn'.phase = "writing" /\ turn'.left = 0 /\ turn'.victims = {}
        BY <1>0, <2>1, <2>3 DEF TurnType
      <3> QED BY <1>0, <2>1, <2>3, <3>1, GrowthKept DEF Readable, Held, Due
    <2> QED BY <1>7, <2>2, <2>3 DEF Remember
  <1>8. CASE Replace
    <2>1. Readable' \subseteq Readable /\ memoryFaults' >= memoryFaults
      BY <1>1, <1>8 DEF Replace
    <2>2. /\ turn.phase = "replacing" /\ turn.left = 0 /\ turn.victims = {}
          /\ turn'.phase = "writing" /\ turn'.left = 0 /\ turn'.victims = {}
          /\ UNCHANGED restored
      BY <1>0, <1>8 DEF Replace, GrowthInv, TurnType
    <2> QED BY <1>0, <2>1, <2>2, GrowthKept DEF Due
  <1>9. CASE PruneScan
    <2>1. PICK victims \in Prunable(Readable) :
            turn' = [turn EXCEPT !.phase = "pruning", !.victims = victims]
      BY <1>9 DEF PruneScan
    <2>2. /\ turn'.phase = "pruning" /\ turn'.victims = victims
          /\ turn.victims = {} /\ Due = 1 /\ Due' = 0 /\ UNCHANGED <<points, memoryFaults, restored>>
      BY <1>0, <1>9, <2>1 DEF PruneScan, GrowthInv, TurnType, Due
    <2>3. Readable' = Readable /\ Allowed' = Allowed /\ Allowed \in Nat /\ Allowed >= MemoryCap
      BY <1>0, <2>2, MemoryBounds DEF Readable, Held, Allowed
    <2>4. IsFiniteSet(Readable) /\ Cardinality(Readable) \in Nat
      BY <1>0, <2>1, PrunableFacts
    <2>5. Cardinality(Readable) <= Allowed + 1
      <3>1. Readable \ turn.victims = Readable
        BY <2>2
      <3> QED BY <2>2, <3>1 DEF GrowthInv
    <2>6. Cardinality(Readable \ victims) <= Allowed
      <3>1. CASE victims = {}
        <4>1. Readable \ victims = Readable /\ Cardinality(Readable) <= MemoryCap
          BY <1>0, <3>1, PrunableFacts
        <4>2. Cardinality(Readable) <= Allowed
          BY <2>3, <2>4, <4>1, MemoryBounds
        <4> QED BY <4>1, <4>2
      <3>2. CASE victims # {}
        <4>1. PICK v \in Readable : victims = {v}
          BY <1>0, <3>2, PrunableFacts
        <4>2. Cardinality(Readable \ {v}) = Cardinality(Readable) - 1
          BY <2>4, FS_RemoveElement
        <4>3. Cardinality(Readable) - 1 <= Allowed
          BY <2>3, <2>4, <2>5
        <4> QED BY <4>1, <4>2, <4>3
      <3> QED BY <3>1, <3>2
    <2>7. victims = {} \/ \E v : victims = {v}
      BY <1>0, PrunableFacts
    <2>8. Cardinality(Readable' \ turn'.victims) <= Allowed' + Due'
      <3>1. Readable' \ turn'.victims = Readable \ victims /\ Allowed' + Due' = Allowed
        BY <2>2, <2>3
      <3> QED BY <2>6, <3>1
    <2> QED BY <1>0, <2>2, <2>7, <2>8 DEF GrowthInv
  <1>10. CASE PruneDelete
    <2>1. /\ DeletePoints(turn.victims) /\ turn.phase = "pruning" /\ UNCHANGED restored
          /\ turn'.phase = "idle" /\ turn'.victims = {} /\ Due = 0 /\ Due' = 0
      BY <1>10 DEF PruneDelete, NoTurn, Due
    <2>2. CASE points' = Without(turn.victims) /\ memoryFaults' = memoryFaults
      <3>1. Readable' \ turn'.victims = Readable \ turn.victims
        BY <1>0, <2>1, <2>2, WithoutFacts DEF Readable, Held
      <3>2. Allowed' + Due' = Allowed + Due
        BY <2>1, <2>2 DEF Allowed
      <3> QED BY <1>0, <2>1, <3>1, <3>2 DEF GrowthInv
    <2>3. CASE turn.victims # {} /\ points' = points /\ memoryFaults' = memoryFaults + 1
      <3>1. PICK v : turn.victims = {v}
        BY <2>3 DEF GrowthInv
      <3>2. Readable' \ turn'.victims \subseteq (Readable \ turn.victims) \cup {v}
        BY <2>1, <2>3, <3>1 DEF Readable, Held
      <3>3. Allowed' + Due' = Allowed + Due + 1
        BY <1>0, <2>1, <2>3, MemoryBounds DEF Allowed
      <3> QED BY <1>0, <2>1, <3>2, <3>3, GrowthByOne
    <2> QED BY <1>0, <2>1, <2>2, <2>3, DeleteFacts
  <1>11. CASE SweepExpire
    <2>1. Readable' \subseteq Readable /\ memoryFaults' >= memoryFaults
      BY <1>1, <1>11 DEF SweepExpire
    <2> QED BY <1>0, <1>11, <2>1, GrowthSame DEF SweepExpire
  <1>12. CASE SweepScan
    BY <1>0, <1>12, GrowthSame DEF SweepScan, Readable, Held
  <1>13. CASE SweepMerge
    <2>0. PICK keep \in Memories, drop \in Memories : \E kept :
              /\ points' = [Without({drop}) EXCEPT ![keep] = kept]
              /\ restored' = IF keep \in Readable THEN restored ELSE restored + 1
      BY <1>13 DEF SweepMerge
    <2>1. PICK kept :
            /\ points' = [Without({drop}) EXCEPT ![keep] = kept]
            /\ restored' = IF keep \in Readable THEN restored ELSE restored + 1
      BY <2>0
    <2>2. UNCHANGED <<turn, memoryFaults>> /\ Due' = Due
      BY <1>13 DEF SweepMerge, Due
    <2>3. Readable' \subseteq Readable \cup {keep}
      <3>1. \A m \in Memories \ {keep} : points'[m] = Without({drop})[m]
        BY <1>0, <2>1, WithoutFacts
      <3> QED BY <1>0, <3>1, ReadableWithout DEF Readable, Held
    <2>4. CASE keep \in Readable
      <3>1. Readable' \subseteq Readable /\ restored' = restored
        BY <2>1, <2>3, <2>4
      <3>2. memoryFaults' >= memoryFaults
        BY <1>0, <2>2
      <3> QED BY <1>0, <2>2, <3>1, <3>2, GrowthSame
    <2>5. CASE keep \notin Readable
      <3>1. Readable' \ turn'.victims \subseteq (Readable \ turn.victims) \cup {keep}
        BY <2>2, <2>3
      <3>2. Allowed' + Due' = Allowed + Due + 1
        <4>1. restored' = restored + 1
          BY <2>1, <2>5
        <4>2. Due \in Nat
          BY DEF Due
        <4> QED BY <1>0, <2>2, <4>1, <4>2, MemoryBounds DEF Allowed
      <3> QED BY <1>0, <2>2, <3>1, <3>2, GrowthByOne DEF GrowthInv
    <2> QED BY <2>4, <2>5
  <1>14. CASE SweepDecay
    <2>1. Readable' \subseteq Readable
      <3>1. PICK aged :
              points' = [m \in Memories |->
                           IF m \in aged /\ points[m].held
                           THEN [points[m] EXCEPT !.salience = sweep.copies[m].salience - 1]
                           ELSE points[m]]
        BY <1>14 DEF SweepDecay
      <3> QED BY <1>0, <3>1 DEF MemoryTypeOK, PointType, Readable, Held
    <2> QED BY <1>0, <1>14, <2>1, GrowthSame DEF SweepDecay
  <1>15. CASE SweepPrune
    <2>1. Readable' \subseteq Readable /\ memoryFaults' >= memoryFaults
      BY <1>1, <1>15 DEF SweepPrune
    <2> QED BY <1>0, <1>15, <2>1, GrowthSame DEF SweepPrune
  <1>16. CASE ForgetPoint
    <2>1. Readable' \subseteq Readable /\ memoryFaults' >= memoryFaults
      BY <1>1, <1>16 DEF ForgetPoint
    <2> QED BY <1>0, <1>16, <2>1, GrowthSame DEF ForgetPoint
  <1>17. CASE ForgetRow \/ SetConsent
    BY <1>0, <1>17, GrowthSame DEF ForgetRow, SetConsent, Readable, Held
  <1>18. CASE ExpireMemory
    <2>1. PICK m \in Memories : points' = [points EXCEPT ![m].expired = TRUE]
      BY <1>18 DEF ExpireMemory, Readable, Held
    <2>2. Readable' \subseteq Readable
      BY <1>0, <2>1 DEF MemoryTypeOK, PointType, Readable, Held
    <2> QED BY <1>0, <1>18, <2>2, GrowthSame DEF ExpireMemory
  <1> QED BY <1>2, <1>3, <1>4, <1>5, <1>6, <1>7, <1>8, <1>9, <1>10, <1>11, <1>12, <1>13, <1>14,
             <1>15, <1>16, <1>17, <1>18 DEF MemoryNext

\* The invariant behind the theorems on memories (MemoryInv): what the turns, the consolidation
\* and the deletions of memory.py hold in their hands while they interleave.
THEOREM MemoryInductive == MemorySpec => []MemoryInv
  <1>1. MemoryInit => MemoryInv
    BY MemoryInitInv
  <1>2. MemoryInv /\ [MemoryNext]_memoryVars => MemoryInv'
    BY MemoryNextInv
  <1> QED BY <1>1, <1>2, PTL DEF MemorySpec

\* What is lost is lost for a reason (LostForAReason), and what the user forgot does not
\* come back but out of the copies of a consolidation (ForgottenStaysForgotten): remember,
\* prune, _delete_points, consolidate_user and delete_memory in any interleaving.
THEOREM MemoriesStay == MemorySpec => LostForAReason /\ ForgottenStaysForgotten
  <1>1. MemoryInv /\ [MemoryNext]_memoryVars
          => [\A m \in Held \ Held' :
                \/ points[m].expired
                \/ forgetting' = m
                \/ \E k \in Memories : points'[k].supersedes = m
                \/ born > MemoryCap]_memoryVars
    BY MemoryLoss
  <1>2. MemoryInv /\ [MemoryNext]_memoryVars
          => [\A m \in forgotten : m \in Held' \ Held => sweep.copies[m].held]_memoryVars
    BY MemoryReturn
  <1> QED BY <1>1, <1>2, MemoryInductive, PTL DEF MemorySpec, LostForAReason, ForgottenStaysForgotten

\* The bound on what a user's collection holds (GrowthIsBounded), with the two above: for
\* any number of memories, any cap, any failures and events, when a turn extracts one.
THEOREM MemoriesLast == ASSUME MaxCandidates = 1 PROVE MemorySpec => MemoriesAreKept
  <1>1. MemoryInit => GrowthInv
    BY GrowthInitInv
  <1>2. GrowthInv /\ [MemoryNext]_memoryVars => GrowthInv'
    BY GrowthNextInv
  <1>3. GrowthInv => GrowthIsBounded
    <2> SUFFICES ASSUME GrowthInv, turn.phase = "idle"
                 PROVE  Cardinality(Readable) <= MemoryCap + memoryFaults + restored
      BY DEF GrowthIsBounded
    <2>1. Readable \ turn.victims = Readable /\ Due = 0
      BY DEF GrowthInv, Due
    <2>2. Allowed + Due = MemoryCap + memoryFaults + restored
      BY <2>1, MemoryBounds DEF Allowed, GrowthInv, MemoryInv, MemoryTypeOK
    <2> QED BY <2>1, <2>2 DEF GrowthInv
  <1> QED BY <1>1, <1>2, <1>3, MemoriesStay, PTL DEF MemorySpec, MemoriesAreKept
-----------------------------------------------------------------------------
(* The circuit, the token and the cached results of a REST tool *)

AnswerType == [kind : {"none", "failed", "ok"}, url : Urls \cup {""}, body : Bodies \cup {""}, at : Nat]
ResultType == [url : Urls \cup {""}, expires : Nat, answer : AnswerType]
\* How many requests a call may have sent before one.
SendsBefore == 0..(Attempts - 1)
CallingType ==
    [at : {"free", "auth", "fetching", "sending", "sleeping", "done"}, url : Urls \cup {""}, body : Bodies \cup {""},
     since : Nat, began : Nat, sent : SendsBefore, left : Int, waited : Nat, answer : AnswerType]

ToolTyped ==
    /\ time \in [now : Nat, begun : Nat]
    /\ circuit \in [state : {"closed", "open", "half_open"}, failures : Nat, opened : Nat]
    /\ token \in [use : Int, good : Int]
    /\ results \subseteq ResultType /\ IsFiniteSet(results)
    /\ calling \in [Callers -> CallingType]

\* A caller asked before now what it waits for, and a token that may be used has the skew left.
AskedBefore ==
    /\ \A c \in Callers : calling[c].began <= time.now /\ calling[c].since <= time.now
    /\ token.use <= time.now \/ (token.good - token.use >= Skew)
    /\ Lifetime <= Skew => token.use <= time.now

\* The cache within its bound, one entry for a key.
CacheFits ==
    /\ Cardinality(results) <= CacheSize
    /\ \A r, o \in results : r.url = o.url => r = o

\* The strengthening of ToolCallsAreSound.
ToolInv == ToolTyped /\ AskedBefore /\ CacheFits /\ OpenHoldsBack /\ TokenOutlivesTheCall /\ CachedAnswersAreGood

LEMMA NoCallTyped == NoCall \in CallingType /\ NotAnswered \in AnswerType /\ NoAnswer \in AnswerType
<1>1. Attempts \in Nat \ {0}
  BY ToolCallAssumption
<1>2. NoAnswer \in AnswerType /\ NotAnswered \in AnswerType
  BY DEF NotAnswered, NoAnswer, AnswerType
<1>3. 0 \in SendsBefore
  BY <1>1 DEF SendsBefore
<1> QED BY <1>2, <1>3 DEF NoCall, CallingType

\* What Over makes of a caller.
LEMMA OverFacts ==
  ASSUME ToolTyped, NEW c \in Callers, NEW answer \in AnswerType
  PROVE  /\ Over(c, answer) \in [Callers -> CallingType]
         /\ \A d \in Callers : d # c => Over(c, answer)[d] = calling[d]
         /\ Over(c, answer)[c].at = "done" /\ Over(c, answer)[c].answer = answer
         /\ Over(c, answer)[c].url = calling[c].url /\ Over(c, answer)[c].began = calling[c].began
         /\ Over(c, answer)[c].since = 0
<1> DEFINE over == [NoCall EXCEPT !.at = "done", !.url = calling[c].url,
                                !.body = calling[c].body, !.began = calling[c].began, !.answer = answer]
<1>1. calling[c] \in CallingType
  BY DEF ToolTyped
<1>2. /\ over \in CallingType /\ over.at = "done" /\ over.answer = answer
      /\ over.url = calling[c].url /\ over.began = calling[c].began /\ over.since = 0
  BY <1>1, NoCallTyped DEF CallingType, NoCall
<1>3. Over(c, answer) = [calling EXCEPT ![c] = over]
  BY DEF Over
<1> HIDE DEF over
<1> QED BY <1>2, <1>3 DEF ToolTyped

LEMMA ToolInitInv == ToolCallInit => ToolInv
<1> SUFFICES ASSUME ToolCallInit PROVE ToolInv
  OBVIOUS
<1>1. /\ time = [now |-> 0, begun |-> 0] /\ circuit = [state |-> "closed", failures |-> 0, opened |-> 0]
      /\ token = [use |-> -1, good |-> -1] /\ results = {} /\ calling = [c \in Callers |-> NoCall]
  BY DEF ToolCallInit
<1>2. ToolTyped
  BY <1>1, NoCallTyped, FS_EmptySet DEF ToolTyped
<1>3. \A c \in Callers : calling[c].at = "free" /\ calling[c].began = 0 /\ calling[c].since = 0
  BY <1>1 DEF NoCall
<1>4. AskedBefore
  BY <1>1, <1>3 DEF AskedBefore
<1>5. CacheFits
  BY <1>1, FS_EmptySet, ToolCallAssumption DEF CacheFits
<1>6. OpenHoldsBack /\ TokenOutlivesTheCall /\ CachedAnswersAreGood
  BY <1>1, <1>3, ToolCallAssumption DEF OpenHoldsBack, TokenOutlivesTheCall, CachedAnswersAreGood
<1> QED BY <1>2, <1>4, <1>5, <1>6 DEF ToolInv

LEMMA TickKeeps == ToolInv /\ Tick => ToolInv'
<1> SUFFICES ASSUME ToolInv, Tick PROVE ToolInv'
  OBVIOUS
<1>1. /\ time' = [time EXCEPT !.now = @ + 1]
      /\ UNCHANGED <<circuit, token, results, calling>>
  BY DEF Tick
<1>2. time'.now = time.now + 1 /\ time.now \in Nat /\ time' \in [now : Nat, begun : Nat]
  BY <1>1 DEF ToolInv, ToolTyped
<1>3. ToolTyped'
  BY <1>1, <1>2 DEF ToolInv, ToolTyped
<1>4. AskedBefore'
  <2>1. \A c \in Callers : calling[c].began \in Nat /\ calling[c].since \in Nat
    BY DEF ToolInv, ToolTyped, CallingType
  <2>2. token.use \in Int /\ token.good \in Int
    BY DEF ToolInv, ToolTyped
  <2> QED BY <1>1, <1>2, <2>1, <2>2 DEF ToolInv, AskedBefore
<1>5. CacheFits' /\ OpenHoldsBack' /\ TokenOutlivesTheCall' /\ CachedAnswersAreGood'
  BY <1>1 DEF ToolInv, CacheFits, OpenHoldsBack, TokenOutlivesTheCall, CachedAnswersAreGood
<1> QED BY <1>3, <1>4, <1>5 DEF ToolInv

LEMMA BeginCallKeeps == ASSUME NEW c \in Callers PROVE ToolInv /\ BeginCall(c) => ToolInv'
<1> SUFFICES ASSUME ToolInv, BeginCall(c) PROVE ToolInv'
  OBVIOUS
<1>1. PICK url \in Urls, body \in Bodies :
        calling' = IF Seen = "open"
                   THEN [calling EXCEPT ![c] = [NoCall EXCEPT !.at = "done", !.answer = NotAnswered]]
                   ELSE [calling EXCEPT ![c] = [NoCall EXCEPT !.at = "auth", !.url = url,
                                                   !.body = body, !.began = time.now]]
  BY DEF BeginCall
<1>2. /\ time' = [time EXCEPT !.begun = @ + 1] /\ circuit' = [circuit EXCEPT !.state = Seen]
      /\ UNCHANGED <<token, results>>
  BY DEF BeginCall
<1>3. /\ time'.now = time.now /\ time.now \in Nat /\ time' \in [now : Nat, begun : Nat]
      /\ circuit'.failures = circuit.failures /\ circuit'.opened = circuit.opened /\ circuit'.state = Seen
      /\ Seen \in {"closed", "open", "half_open"} /\ (Seen = "closed" <=> circuit.state = "closed")
      /\ Seen = "open" => circuit.state = "open"
  BY <1>2 DEF ToolInv, ToolTyped, Seen
<1>4. \A d \in Callers : d # c => calling'[d] = calling[d]
  BY <1>1 DEF ToolInv, ToolTyped
<1>5. /\ calling' \in [Callers -> CallingType]
      /\ IF Seen = "open" THEN calling'[c].at = "done" ELSE calling'[c].at = "auth"
      /\ calling'[c].began <= time.now /\ calling'[c].since <= time.now
      /\ calling'[c].answer.kind # "ok"
  <2>1. CASE Seen = "open"
    <3> DEFINE new == [NoCall EXCEPT !.at = "done", !.answer = NotAnswered]
    <3>1. new \in CallingType /\ new.at = "done" /\ new.began = 0 /\ new.since = 0 /\ new.answer = NotAnswered
      BY NoCallTyped DEF CallingType, NoCall
    <3>2. NotAnswered.kind = "failed"
      BY DEF NotAnswered, NoAnswer
    <3>3. calling' = [calling EXCEPT ![c] = new]
      BY <1>1, <2>1
    <3> HIDE DEF new
    <3> QED BY <1>3, <2>1, <3>1, <3>2, <3>3 DEF ToolInv, ToolTyped
  <2>2. CASE Seen # "open"
    <3> DEFINE new == [NoCall EXCEPT !.at = "auth", !.url = url, !.body = body, !.began = time.now]
    <3>1. /\ new \in CallingType /\ new.at = "auth" /\ new.began = time.now /\ new.since = 0
          /\ new.answer = NoAnswer
      BY <1>3, NoCallTyped DEF CallingType, NoCall
    <3>2. NoAnswer.kind = "none"
      BY DEF NoAnswer
    <3>3. calling' = [calling EXCEPT ![c] = new]
      BY <1>1, <2>2
    <3> HIDE DEF new
    <3> QED BY <1>3, <2>2, <3>1, <3>2, <3>3 DEF ToolInv, ToolTyped
  <2> QED BY <2>1, <2>2
<1>6. ToolTyped'
  BY <1>2, <1>3, <1>5 DEF ToolInv, ToolTyped
<1>7. AskedBefore'
  BY <1>2, <1>3, <1>4, <1>5 DEF ToolInv, AskedBefore
<1>8. OpenHoldsBack'
  BY <1>3, <1>4, <1>5 DEF ToolInv, OpenHoldsBack
<1>9. CacheFits' /\ TokenOutlivesTheCall' /\ CachedAnswersAreGood'
  BY <1>2, <1>4, <1>5 DEF ToolInv, CacheFits, TokenOutlivesTheCall, CachedAnswersAreGood
<1> QED BY <1>6, <1>7, <1>8, <1>9 DEF ToolInv

\* The lesser of two numbers, and the greater.
LEMMA Lesser == Min({Skew, Lifetime - 1}) \in Int /\ Min({Skew, Lifetime - 1}) <= Skew
                /\ Min({Skew, Lifetime - 1}) <= Lifetime - 1
<1>1. Skew \in Int /\ Lifetime - 1 \in Int
  BY ToolCallAssumption
<1>2. \E x \in {Skew, Lifetime - 1} : \A y \in {Skew, Lifetime - 1} : x <= y
  <2>1. CASE Skew <= Lifetime - 1
    BY <1>1, <2>1
  <2>2. CASE ~(Skew <= Lifetime - 1)
    <3>1. Lifetime - 1 <= Skew /\ Lifetime - 1 <= Lifetime - 1
      BY <1>1, <2>2
    <3> QED BY <3>1
  <2> QED BY <2>1, <2>2
<1> QED BY <1>1, <1>2 DEF Min

LEMMA Greater == Max({0, Lifetime - Skew}) = IF Lifetime > Skew THEN Lifetime - Skew ELSE 0
<1>1. Skew \in Int /\ Lifetime \in Int
  BY ToolCallAssumption
<1>2. \E x \in {0, Lifetime - Skew} : \A y \in {0, Lifetime - Skew} : x >= y
  <2>1. CASE 0 >= Lifetime - Skew
    BY <1>1, <2>1
  <2>2. CASE ~(0 >= Lifetime - Skew)
    BY <1>1, <2>2
  <2> QED BY <2>1, <2>2
<1> QED BY <1>1, <1>2 DEF Max

\* A caller that has a token is answered from the cache, or goes on to send.
LEMMA PreparedKeeps ==
  ASSUME ToolInv, NEW c \in Callers, NEW left \in Int, NEW waited \in Nat,
         left + waited > Min({Skew, Lifetime - 1}), Prepared(c, left, waited), calling[c].at \in {"auth", "fetching"},
         time' = time, circuit' = circuit, token' \in [use : Int, good : Int],
         token'.use <= time.now \/ (token'.good - token'.use >= Skew),
         Lifetime <= Skew => token'.use <= time.now
  PROVE  ToolInv'
<1> DEFINE fresh == {r \in results : r.url = calling[c].url /\ time.now < r.expires}
<1>0. /\ time.now \in Nat /\ calling[c].began <= time.now /\ calling[c].since <= time.now
      /\ calling[c].began \in Nat /\ calling[c] \in CallingType /\ 0 <= time.now
  <2>1. calling[c] \in CallingType /\ time.now \in Nat
    BY DEF ToolInv, ToolTyped
  <2>2. calling[c].began \in Nat
    BY <2>1 DEF CallingType
  <2> QED BY <2>1, <2>2 DEF ToolInv, AskedBefore
<1>1. CASE fresh # {}
  <2>1. PICK r \in fresh : calling' = Over(c, r.answer)
    <3> DEFINE old == {r \in results : r.url = calling[c].url}
               picked == CHOOSE r \in {r \in old : time.now < r.expires} : TRUE
    <3>1. fresh = {r \in old : time.now < r.expires}
      OBVIOUS
    <3>2. calling' = Over(c, picked.answer)
      BY <1>1, <3>1 DEF Prepared
    <3>3. picked \in fresh
      BY <1>1, <3>1
    <3> QED BY <3>2, <3>3
  <2>2. results' = results
    <3> DEFINE old == {o \in results : o.url = calling[c].url}
    <3>1. fresh = {o \in old : time.now < o.expires}
      OBVIOUS
    <3> QED BY <1>1, <3>1 DEF Prepared
  <2>3. /\ r \in results /\ r.url = calling[c].url /\ time.now < r.expires /\ r.answer \in AnswerType
        /\ r.expires \in Nat /\ r.answer.at \in Nat
    BY DEF ToolInv, ToolTyped, ResultType, AnswerType
  <2>4. /\ calling' \in [Callers -> CallingType] /\ \A d \in Callers : d # c => calling'[d] = calling[d]
        /\ calling'[c].at = "done" /\ calling'[c].answer = r.answer
        /\ calling'[c].url = calling[c].url /\ calling'[c].began = calling[c].began /\ calling'[c].since = 0
    BY <2>1, <2>3, OverFacts DEF ToolInv
  <2>5. ToolTyped'
    BY <2>2, <2>4 DEF ToolInv, ToolTyped
  <2>6. AskedBefore'
    BY <1>0, <2>4 DEF ToolInv, AskedBefore
  <2>7. CacheFits' /\ OpenHoldsBack' /\ TokenOutlivesTheCall'
    BY <2>2, <2>4 DEF ToolInv, CacheFits, OpenHoldsBack, TokenOutlivesTheCall
  <2>8. CachedAnswersAreGood'
    <3>1. r.answer.url = r.url /\ r.expires <= r.answer.at + Ttl
      BY <2>3 DEF ToolInv, CachedAnswersAreGood
    <3>2. calling'[c].began <= calling'[c].answer.at + Ttl
      BY <1>0, <2>3, <2>4, <3>1, ToolCallAssumption
    <3> QED BY <2>2, <2>3, <2>4, <3>1, <3>2 DEF ToolInv, CachedAnswersAreGood
  <2> QED BY <2>5, <2>6, <2>7, <2>8 DEF ToolInv
<1>2. CASE fresh = {}
  <2>1. /\ calling' = [calling EXCEPT ![c].at = "sending", ![c].left = left, ![c].waited = waited, ![c].since = 0]
        /\ results' = results \ {r \in results : r.url = calling[c].url}
    <3> DEFINE old == {r \in results : r.url = calling[c].url}
    <3>1. fresh = {r \in old : time.now < r.expires}
      OBVIOUS
    <3> QED BY <1>2, <3>1 DEF Prepared
  <2>2. results' \subseteq results /\ IsFiniteSet(results') /\ Cardinality(results') <= Cardinality(results)
        /\ Cardinality(results) \in Nat /\ Cardinality(results') \in Nat
    BY <2>1, FS_Subset, FS_CardinalityType DEF ToolInv, ToolTyped
  <2>3. /\ calling' \in [Callers -> CallingType] /\ \A d \in Callers : d # c => calling'[d] = calling[d]
        /\ calling'[c].at = "sending" /\ calling'[c].left = left /\ calling'[c].waited = waited
        /\ calling'[c].began = calling[c].began /\ calling'[c].since = 0
    <3> DEFINE new == [calling[c] EXCEPT !.at = "sending", !.left = left, !.waited = waited, !.since = 0]
    <3>1. /\ new \in CallingType /\ new.at = "sending" /\ new.left = left /\ new.waited = waited
          /\ new.began = calling[c].began /\ new.since = 0
      BY <1>0 DEF CallingType
    <3>2. calling' = [calling EXCEPT ![c] = new]
      BY <2>1 DEF ToolInv, ToolTyped
    <3> HIDE DEF new
    <3> QED BY <3>1, <3>2 DEF ToolInv, ToolTyped
  <2>4. ToolTyped'
    BY <2>2, <2>3 DEF ToolInv, ToolTyped
  <2>5. AskedBefore'
    BY <1>0, <2>3 DEF ToolInv, AskedBefore
  <2>6. CacheFits'
    BY <2>2, ToolCallAssumption DEF ToolInv, CacheFits
  <2>7. OpenHoldsBack'
    BY <2>3 DEF ToolInv, OpenHoldsBack
  <2>8. TokenOutlivesTheCall'
    BY <2>3 DEF ToolInv, TokenOutlivesTheCall
  <2>9. CachedAnswersAreGood'
    BY <2>2, <2>3 DEF ToolInv, CachedAnswersAreGood
  <2> QED BY <2>4, <2>5, <2>6, <2>7, <2>8, <2>9 DEF ToolInv
<1> QED BY <1>1, <1>2

LEMMA TakeTokenKeeps == ASSUME NEW c \in Callers PROVE ToolInv /\ TakeToken(c) => ToolInv'
<1> SUFFICES ASSUME ToolInv, TakeToken(c) PROVE ToolInv'
  OBVIOUS
<1>1. /\ calling[c].at = "auth" /\ time.now < token.use /\ Prepared(c, token.good - time.now, 0)
      /\ time' = time /\ circuit' = circuit /\ token' = token
  BY DEF TakeToken
<1>2. /\ time.now \in Nat /\ token \in [use : Int, good : Int] /\ token.use \in Int /\ token.good \in Int
  BY DEF ToolInv, ToolTyped
<1>3. /\ token.use <= time.now \/ (token.good - token.use >= Skew)
      /\ Lifetime <= Skew => token.use <= time.now
  BY DEF ToolInv, AskedBefore
<1>4. token.good - time.now \in Int /\ 0 \in Nat /\ token.good - time.now + 0 > Min({Skew, Lifetime - 1})
  BY <1>1, <1>2, <1>3, Lesser, ToolCallAssumption
<1> QED BY <1>1, <1>2, <1>3, <1>4, PreparedKeeps

\* A caller that is over with nothing changes nothing.
LEMMA GivesUpKeeps ==
  ASSUME ToolInv, NEW c \in Callers, calling' = Over(c, NotAnswered), UNCHANGED <<time, circuit, token, results>>
  PROVE  ToolInv'
<1>1. NotAnswered.kind = "failed" /\ NotAnswered \in AnswerType
  BY NoCallTyped DEF NotAnswered, NoAnswer
<1>2. /\ calling' \in [Callers -> CallingType] /\ \A d \in Callers : d # c => calling'[d] = calling[d]
      /\ calling'[c].at = "done" /\ calling'[c].answer = NotAnswered
      /\ calling'[c].began = calling[c].began /\ calling'[c].since = 0
  BY <1>1, OverFacts DEF ToolInv
<1>3. ToolTyped'
  BY <1>2 DEF ToolInv, ToolTyped
<1>4. 0 <= time.now
  BY DEF ToolInv, ToolTyped
<1> QED BY <1>1, <1>2, <1>3, <1>4, ZenonT(45) DEF ToolInv, AskedBefore, CacheFits, OpenHoldsBack, TokenOutlivesTheCall,
                                     CachedAnswersAreGood

LEMMA TokenArrivesKeeps == ASSUME NEW c \in Callers PROVE ToolInv /\ TokenArrives(c) => ToolInv'
<1> SUFFICES ASSUME ToolInv, TokenArrives(c) PROVE ToolInv'
  OBVIOUS
<1>1. calling[c].at = "fetching" /\ time' = time /\ circuit' = circuit
  BY DEF TokenArrives
<1>2. ASSUME NEW issued \in calling[c].since..time.now, token' = TokenOf(calling[c].since, issued),
             Prepared(c, issued + Lifetime - time.now, time.now - calling[c].since)
      PROVE  ToolInv'
  <2>1. /\ time.now \in Nat /\ calling[c].since \in Nat /\ calling[c].since <= time.now
        /\ Lifetime \in Int /\ Skew \in Nat
    BY ToolCallAssumption DEF ToolInv, ToolTyped, CallingType, AskedBefore
  <2>2. /\ token'.use = calling[c].since + (IF Lifetime > Skew THEN Lifetime - Skew ELSE 0)
        /\ token'.good = issued + Lifetime
        /\ token' = [use |-> token'.use, good |-> token'.good]
    BY <1>2, Greater DEF TokenOf
  <2>3. token' \in [use : Int, good : Int]
    BY <2>1, <2>2
  <2>4. /\ issued + Lifetime - time.now \in Int /\ time.now - calling[c].since \in Nat
        /\ (issued + Lifetime - time.now) + (time.now - calling[c].since) > Min({Skew, Lifetime - 1})
    <3>1. Lifetime > Min({Skew, Lifetime - 1}) /\ Min({Skew, Lifetime - 1}) \in Int
      BY <2>1, Lesser
    <3> QED BY <2>1, <3>1
  <2>5. /\ token'.use <= time.now \/ (token'.good - token'.use >= Skew)
        /\ Lifetime <= Skew => token'.use <= time.now
    BY <2>1, <2>2
  <2> QED BY <1>1, <1>2, <2>3, <2>4, <2>5, PreparedKeeps
<1>3. CASE calling' = Over(c, NotAnswered) /\ UNCHANGED <<token, results>>
  BY <1>1, <1>3, GivesUpKeeps
<1> QED BY <1>2, <1>3 DEF TokenArrives

LEMMA AskTokenKeeps == ASSUME NEW c \in Callers PROVE ToolInv /\ AskToken(c) => ToolInv'
<1> SUFFICES ASSUME ToolInv, AskToken(c) PROVE ToolInv'
  OBVIOUS
<1> DEFINE new == [calling[c] EXCEPT !.at = "fetching", !.since = time.now]
<1>1. /\ calling[c].at = "auth" /\ calling' = [calling EXCEPT ![c] = new]
      /\ UNCHANGED <<time, circuit, token, results>>
  BY DEF AskToken, ToolInv, ToolTyped
<1>2. calling[c] \in CallingType /\ time.now \in Nat
  BY DEF ToolInv, ToolTyped
<1>3. new \in CallingType /\ new.at = "fetching" /\ new.began = calling[c].began /\ new.since = time.now
  BY <1>2 DEF CallingType
<1> HIDE DEF new
<1>4. /\ calling' \in [Callers -> CallingType] /\ \A d \in Callers : d # c => calling'[d] = calling[d]
      /\ calling'[c] = new
  BY <1>1, <1>3 DEF ToolInv, ToolTyped
<1>5. ToolTyped'
  BY <1>1, <1>4 DEF ToolInv, ToolTyped
<1>6. AskedBefore'
  <2>1. calling[c].began <= time.now /\ time.now <= time.now
    BY <1>2 DEF ToolInv, AskedBefore
  <2> QED BY <1>1, <1>3, <1>4, <2>1 DEF ToolInv, AskedBefore
<1>7. OpenHoldsBack'
  <2>1. circuit.state = "open" => calling[c].began <= circuit.opened
    BY <1>1 DEF ToolInv, OpenHoldsBack
  <2> QED BY <1>1, <1>3, <1>4, <2>1 DEF ToolInv, OpenHoldsBack
<1>8. CacheFits' /\ TokenOutlivesTheCall' /\ CachedAnswersAreGood'
  BY <1>1, <1>3, <1>4 DEF ToolInv, CacheFits, TokenOutlivesTheCall, CachedAnswersAreGood
<1> QED BY <1>5, <1>6, <1>7, <1>8 DEF ToolInv

LEMMA WakesKeeps == ASSUME NEW c \in Callers PROVE ToolInv /\ Wakes(c) => ToolInv'
<1> SUFFICES ASSUME ToolInv, Wakes(c) PROVE ToolInv'
  OBVIOUS
<1> DEFINE new == [calling[c] EXCEPT !.at = "sending"]
<1>1. /\ calling[c].at = "sleeping" /\ calling' = [calling EXCEPT ![c] = new]
      /\ UNCHANGED <<time, circuit, token, results>>
  BY DEF Wakes, ToolInv, ToolTyped
<1>2. calling[c] \in CallingType
  BY DEF ToolInv, ToolTyped
<1>3. /\ new \in CallingType /\ new.at = "sending" /\ new.began = calling[c].began
      /\ new.since = calling[c].since /\ new.left = calling[c].left /\ new.waited = calling[c].waited
      /\ new.sent = calling[c].sent
  BY <1>2 DEF CallingType
<1> HIDE DEF new
<1>4. /\ calling' \in [Callers -> CallingType] /\ \A d \in Callers : d # c => calling'[d] = calling[d]
      /\ calling'[c] = new
  BY <1>1, <1>3 DEF ToolInv, ToolTyped
<1>5. ToolTyped'
  BY <1>1, <1>4 DEF ToolInv, ToolTyped
<1> QED BY <1>1, <1>3, <1>4, <1>5 DEF ToolInv, AskedBefore, CacheFits, OpenHoldsBack,
                                     TokenOutlivesTheCall, CachedAnswersAreGood

\* What one failure more does to the circuit.
LEMMA FailureOpens ==
  ASSUME ToolInv, circuit' = OneFailed
  PROVE  /\ circuit' \in [state : {"closed", "open", "half_open"}, failures : Nat, opened : Nat]
         /\ circuit'.state # "closed" <=> circuit'.failures >= Threshold
         /\ circuit'.state = "open" => circuit'.opened = time.now
<1>1. /\ circuit \in [state : {"closed", "open", "half_open"}, failures : Nat, opened : Nat]
      /\ time.now \in Nat /\ Threshold \in Nat \ {0}
      /\ circuit.state # "closed" <=> circuit.failures >= Threshold
  BY ToolCallAssumption DEF ToolInv, ToolTyped, OpenHoldsBack
<1>2. CASE circuit.failures + 1 >= Threshold
  <2>1. /\ circuit'.failures = circuit.failures + 1 /\ circuit'.state = "open" /\ circuit'.opened = time.now
        /\ circuit' \in [state : {"closed", "open", "half_open"}, failures : Nat, opened : Nat]
    <3> DEFINE new == [circuit EXCEPT !.failures = circuit.failures + 1, !.state = "open", !.opened = time.now]
    <3>1. circuit' = new
      BY <1>2 DEF OneFailed
    <3>2. circuit.failures + 1 \in Nat
      BY <1>1
    <3>3. new.failures = circuit.failures + 1 /\ new.state = "open" /\ new.opened = time.now
      BY <1>1
    <3>4. new \in [state : {"closed", "open", "half_open"}, failures : Nat, opened : Nat]
      BY <1>1, <3>2
    <3> QED BY <3>1, <3>3, <3>4
  <2> QED BY <1>1, <1>2, <2>1
<1>3. CASE ~(circuit.failures + 1 >= Threshold)
  <2>1. /\ circuit'.failures = circuit.failures + 1 /\ circuit'.state = circuit.state
        /\ circuit' \in [state : {"closed", "open", "half_open"}, failures : Nat, opened : Nat]
    <3> DEFINE new == [circuit EXCEPT !.failures = circuit.failures + 1, !.state = @, !.opened = @]
    <3>1. circuit' = new
      BY <1>3 DEF OneFailed
    <3>2. circuit.failures + 1 \in Nat
      BY <1>1
    <3>3. new.failures = circuit.failures + 1 /\ new.state = circuit.state
      BY <1>1
    <3>4. new \in [state : {"closed", "open", "half_open"}, failures : Nat, opened : Nat]
      BY <1>1, <3>2
    <3> QED BY <3>1, <3>3, <3>4
  <2> QED BY <1>1, <1>3, <2>1
<1> QED BY <1>2, <1>3

LEMMA FailsKeeps == ASSUME NEW c \in Callers PROVE ToolInv /\ Fails(c) => ToolInv'
<1> SUFFICES ASSUME ToolInv, Fails(c) PROVE ToolInv'
  OBVIOUS
<1>1. /\ calling[c].at = "sending" /\ circuit' = OneFailed
      /\ UNCHANGED <<time, token, results>>
  BY DEF Fails
<1>2. /\ calling[c] \in CallingType /\ calling[c].sent \in 0..(Attempts - 1) /\ calling[c].sent \in Nat
      /\ time.now \in Nat /\ Attempts \in Nat /\ calling[c].since <= time.now
  <2>1. calling[c] \in CallingType /\ time.now \in Nat /\ Attempts \in Nat
    BY ToolCallAssumption DEF ToolInv, ToolTyped
  <2>2. calling[c].sent \in 0..(Attempts - 1)
    BY <2>1 DEF CallingType, SendsBefore
  <2>3. calling[c].since <= time.now
    BY DEF ToolInv, AskedBefore
  <2> QED BY <2>1, <2>2, <2>3
<1>3. /\ calling' \in [Callers -> CallingType] /\ \A d \in Callers : d # c => calling'[d] = calling[d]
      /\ calling'[c].began = calling[c].began /\ calling'[c].since <= time.now
      /\ \/ calling'[c].at = "sleeping" /\ calling'[c].sent > 0
         \/ calling'[c].at = "done" /\ calling'[c].answer.kind # "ok"
  <2>1. CASE calling' = Over(c, NotAnswered)
    <3>1. NotAnswered.kind = "failed" /\ NotAnswered \in AnswerType
      BY NoCallTyped DEF NotAnswered, NoAnswer
    <3> QED BY <1>2, <2>1, <3>1, OverFacts DEF ToolInv
  <2>2. CASE calling[c].sent + 1 < Attempts
             /\ calling' = [calling EXCEPT ![c].sent = @ + 1, ![c].at = "sleeping", ![c].left = 0]
    <3> DEFINE new == [calling[c] EXCEPT !.sent = @ + 1, !.at = "sleeping", !.left = 0]
    <3>1. calling' = [calling EXCEPT ![c] = new]
      BY <2>2 DEF ToolInv, ToolTyped
    <3>2. calling[c].sent + 1 \in 0..(Attempts - 1) /\ calling[c].sent + 1 > 0
      BY <1>2, <2>2
    <3>3. /\ new.at = "sleeping" /\ new.began = calling[c].began
          /\ new.since = calling[c].since /\ new.sent = calling[c].sent + 1
      BY <1>2 DEF CallingType
    <3>4. new \in CallingType
      <4> DEFINE next == calling[c].sent + 1
      <4>1. new = [calling[c] EXCEPT !.sent = next, !.at = "sleeping", !.left = 0]
        BY <1>2 DEF CallingType
      <4>2. next \in SendsBefore
        BY <3>2 DEF SendsBefore
      <4> HIDE DEF next
      <4>3. calling[c] \in CallingType
        BY <1>2
      <4>4. 0 \in Int
        OBVIOUS
      <4> HIDE DEF new
      <4> QED BY <4>1, <4>2, <4>3, <4>4 DEF CallingType
    <3> HIDE DEF new
    <3> QED BY <1>2, <3>1, <3>2, <3>3, <3>4 DEF ToolInv, ToolTyped
  <2> QED BY <2>1, <2>2 DEF Fails, Retries
<1>4. /\ circuit' \in [state : {"closed", "open", "half_open"}, failures : Nat, opened : Nat]
      /\ circuit'.state # "closed" <=> circuit'.failures >= Threshold
      /\ circuit'.state = "open" => circuit'.opened = time.now
  BY <1>1, FailureOpens
<1>5. ToolTyped'
  BY <1>1, <1>3, <1>4 DEF ToolInv, ToolTyped
<1>6. AskedBefore'
  BY <1>1, <1>3 DEF ToolInv, AskedBefore
<1>7. OpenHoldsBack'
  <2>1. \A d \in Callers : calling'[d].began <= time.now
    BY <1>3 DEF ToolInv, AskedBefore
  <2> QED BY <1>4, <2>1 DEF OpenHoldsBack
<1>8. TokenOutlivesTheCall'
  <2>1. calling'[c].at = "sending" \/ calling'[c].at = "sleeping" => calling'[c].sent # 0
    <3>1. Attempts \in Nat /\ calling'[c].sent \in 0..(Attempts - 1)
      BY <1>2, <1>3 DEF CallingType, SendsBefore
    <3> QED BY <1>3, <3>1
  <2> QED BY <1>3, <2>1 DEF ToolInv, TokenOutlivesTheCall
<1>9. CacheFits' /\ CachedAnswersAreGood'
  BY <1>1, <1>3 DEF ToolInv, CacheFits, CachedAnswersAreGood
<1> QED BY <1>5, <1>6, <1>7, <1>8, <1>9 DEF ToolInv

\* Some cached result is the nearest to its end.
LEMMA OldestThere ==
  ASSUME ToolTyped, results # {}
  PROVE  \E o \in results : \A p \in results : o.expires <= p.expires
<1>1. \A r \in results : r.expires \in Nat
  BY DEF ToolTyped, ResultType
<1> DEFINE ends == {r.expires : r \in results}
<1>2. ends \subseteq Nat /\ ends # {}
  BY <1>1
<1>3. PICK least \in ends : \A n \in ends : ~(<<n, least>> \in OpToRel(<, Nat))
  BY <1>2, NatLessThanWellFounded, WFMin
<1>4. \A n \in ends : ~(n < least)
  BY <1>2, <1>3, Zenon DEF OpToRel
<1>5. \A n \in ends : least <= n
  <2>1. ends \subseteq Nat /\ least \in Nat
    BY <1>2
  <2> HIDE DEF ends
  <2> QED BY <1>4, <2>1
<1> QED BY <1>3, <1>5

\* A result more is stored, and the bound kept.
LEMMA StoredFits ==
  ASSUME ToolInv, NEW r \in ResultType
  PROVE  /\ Stored(r) \subseteq results \cup {r} /\ IsFiniteSet(Stored(r))
         /\ Cardinality(Stored(r)) <= CacheSize
         /\ \A o, p \in Stored(r) : o.url = p.url => o = p
<1> DEFINE oldest == CHOOSE o \in results : \A p \in results : o.expires <= p.expires
           rest == IF Cardinality(results) >= CacheSize THEN results \ {oldest} ELSE results
           others == {o \in rest : o.url # r.url}
<1>0. /\ IsFiniteSet(results) /\ Cardinality(results) \in Nat /\ Cardinality(results) <= CacheSize
      /\ CacheSize \in Nat \ {0}
  BY FS_CardinalityType, ToolCallAssumption DEF ToolInv, ToolTyped, CacheFits
<1>1. rest \subseteq results /\ IsFiniteSet(rest) /\ Cardinality(rest) \in Nat /\ Cardinality(rest) + 1 <= CacheSize
  <2>1. CASE Cardinality(results) >= CacheSize
    <3>1. results # {}
      BY <1>0, <2>1, FS_EmptySet
    <3>2. oldest \in results
      BY <3>1, OldestThere DEF ToolInv
    <3>3. /\ IsFiniteSet(results \ {oldest})
          /\ Cardinality(results \ {oldest}) = Cardinality(results) - 1
      BY <1>0, <3>2, FS_RemoveElement
    <3> HIDE DEF oldest
    <3>4. Cardinality(results) = CacheSize /\ CacheSize - 1 \in Nat /\ CacheSize - 1 + 1 <= CacheSize
      BY <1>0, <2>1
    <3> QED BY <2>1, <3>3, <3>4
  <2>2. CASE ~(Cardinality(results) >= CacheSize)
    <3> HIDE DEF oldest
    <3> QED BY <1>0, <2>2
  <2> QED BY <2>1, <2>2
<1> HIDE DEF rest
<1>2. others \subseteq rest /\ IsFiniteSet(others) /\ Cardinality(others) <= Cardinality(rest)
      /\ Cardinality(others) \in Nat
  BY <1>1, FS_Subset, FS_CardinalityType
<1>3. r \notin others /\ \A o \in others : o.url # r.url
  OBVIOUS
<1>4. Stored(r) = others \cup {r}
  BY DEF Stored, rest, oldest
<1> HIDE DEF others
<1>5. IsFiniteSet(others \cup {r}) /\ Cardinality(others \cup {r}) = Cardinality(others) + 1
  BY <1>2, <1>3, FS_AddElement
<1>6. Cardinality(others \cup {r}) <= CacheSize
  BY <1>0, <1>1, <1>2, <1>5
<1>7. \A o, p \in others \cup {r} : o.url = p.url => o = p
  BY <1>1, <1>2, <1>3 DEF ToolInv, CacheFits
<1> QED BY <1>1, <1>2, <1>4, <1>5, <1>6, <1>7

LEMMA SucceedsKeeps == ASSUME NEW c \in Callers PROVE ToolInv /\ Succeeds(c) => ToolInv'
<1> SUFFICES ASSUME ToolInv, Succeeds(c) PROVE ToolInv'
  OBVIOUS
<1> DEFINE answer == [kind |-> "ok", url |-> calling[c].url, body |-> calling[c].body, at |-> time.now]
           new == [url |-> calling[c].url, expires |-> time.now + Ttl, answer |-> answer]
<1>1. /\ calling[c].at = "sending" /\ circuit' = [state |-> "closed", failures |-> 0, opened |-> 0]
      /\ results' = Stored(new) /\ calling' = Over(c, answer) /\ UNCHANGED <<time, token>>
  BY DEF Succeeds
<1>2. /\ calling[c] \in CallingType /\ time.now \in Nat /\ Ttl \in Nat /\ Threshold \in Nat \ {0}
      /\ 0 <= time.now /\ time.now + Ttl \in Nat
  BY ToolCallAssumption DEF ToolInv, ToolTyped
<1>3. /\ calling[c].began \in Nat /\ calling[c].began <= time.now
      /\ calling[c].url \in Urls \cup {""} /\ calling[c].body \in Bodies \cup {""}
  BY <1>2 DEF CallingType, ToolInv, AskedBefore
<1>4. answer \in AnswerType /\ answer.kind = "ok" /\ answer.url = calling[c].url /\ answer.at = time.now
  BY <1>2, <1>3 DEF AnswerType
<1> HIDE DEF answer
<1>5. new \in ResultType /\ new.url = calling[c].url /\ new.expires = time.now + Ttl /\ new.answer = answer
  BY <1>2, <1>3, <1>4 DEF ResultType
<1> HIDE DEF new
<1>6. /\ calling' \in [Callers -> CallingType] /\ \A d \in Callers : d # c => calling'[d] = calling[d]
      /\ calling'[c].at = "done" /\ calling'[c].answer = answer /\ calling'[c].url = calling[c].url
      /\ calling'[c].began = calling[c].began /\ calling'[c].since = 0
  BY <1>1, <1>4, OverFacts DEF ToolInv
<1>7. /\ results' \subseteq results \cup {new} /\ IsFiniteSet(results') /\ Cardinality(results') <= CacheSize
      /\ \A o, p \in results' : o.url = p.url => o = p
  BY <1>1, <1>5, StoredFits
<1>8. ToolTyped'
  <2>1. circuit' \in [state : {"closed", "open", "half_open"}, failures : Nat, opened : Nat]
    BY <1>1
  <2> QED BY <1>1, <1>5, <1>6, <1>7, <2>1 DEF ToolInv, ToolTyped
<1>9. AskedBefore'
  <2>1. \A d \in Callers : calling'[d].began <= time.now /\ calling'[d].since <= time.now
    BY <1>2, <1>3, <1>6 DEF ToolInv, AskedBefore
  <2> QED BY <1>1, <2>1 DEF ToolInv, AskedBefore
<1>10. CacheFits' /\ TokenOutlivesTheCall'
  BY <1>6, <1>7 DEF ToolInv, CacheFits, TokenOutlivesTheCall
<1>11. OpenHoldsBack'
  BY <1>1, <1>2 DEF OpenHoldsBack
<1>12. CachedAnswersAreGood'
  <2>1. \A r \in results' : r.answer.kind = "ok" /\ r.answer.url = r.url /\ r.expires <= r.answer.at + Ttl
    BY <1>2, <1>4, <1>5, <1>7 DEF ToolInv, CachedAnswersAreGood
  <2>2. calling'[c].began <= calling'[c].answer.at + Ttl
    <3>1. calling'[c].answer.at = time.now /\ calling'[c].began = calling[c].began
      BY <1>4, <1>6
    <3>2. \A b, n, t \in Nat : b <= n => b <= n + t
      OBVIOUS
    <3>3. calling[c].began <= time.now + Ttl
      BY <1>2, <1>3, <3>2
    <3> QED BY <3>1, <3>3
  <2> QED BY <1>4, <1>6, <2>1, <2>2 DEF ToolInv, CachedAnswersAreGood
<1> QED BY <1>8, <1>9, <1>10, <1>11, <1>12 DEF ToolInv

LEMMA ToolKeeps == ToolInv /\ [ToolCallNext]_toolCallVars => ToolInv'
<1> SUFFICES ASSUME ToolInv, [ToolCallNext]_toolCallVars PROVE ToolInv'
  OBVIOUS
<1>1. CASE Tick
  BY <1>1, TickKeeps
<1>2. ASSUME NEW c \in Callers, BeginCall(c) \/ Serve(c) PROVE ToolInv'
  BY <1>2, BeginCallKeeps, TakeTokenKeeps, AskTokenKeeps, TokenArrivesKeeps, SucceedsKeeps, FailsKeeps, WakesKeeps
     DEF Serve
<1>3. CASE UNCHANGED toolCallVars
  BY <1>3 DEF toolCallVars, ToolInv, ToolTyped, AskedBefore, CacheFits, OpenHoldsBack, TokenOutlivesTheCall,
              CachedAnswersAreGood
<1> QED BY <1>1, <1>2, <1>3 DEF ToolCallNext

(* The circuit, the token and the cached results of a REST tool hold, whatever callers share it
   and in whatever order their answers come. *)
THEOREM ToolCallsSound == ToolCallSpec => []ToolCallsAreSound
<1>1. ToolInv => ToolCallsAreSound
  BY DEF ToolInv, ToolCallsAreSound
<1> QED BY <1>1, ToolInitInv, ToolKeeps, PTL DEF ToolCallSpec

\* The types: one entry for a key and no more than the cache may have, no request too many.
THEOREM ToolCallTypes == ToolCallSpec => []ToolCallTypeOK
<1>1. ToolInv => ToolCallTypeOK
  <2> SUFFICES ASSUME ToolInv PROVE ToolCallTypeOK
    OBVIOUS
  <2>1. circuit.state \in {"closed", "open", "half_open"} /\ circuit.failures \in Nat
    BY DEF ToolInv, ToolTyped
  <2>2. \A c \in Callers :
          /\ calling[c].sent \in 0..(Attempts - 1)
          /\ calling[c].at \in {"free", "auth", "fetching", "sending", "sleeping", "done"}
    BY DEF ToolInv, ToolTyped, CallingType, SendsBefore
  <2> QED BY <2>1, <2>2 DEF ToolInv, CacheFits, ToolCallTypeOK
<1> QED BY <1>1, ToolInitInv, ToolKeeps, PTL DEF ToolCallSpec
=============================================================================
