------------------------------ MODULE ToolCalls ------------------------------
(***************************************************************************)
(* Calls of one REST tool by several turns at once (tools/rest_tool.py):   *)
(* the circuit breaker, the cached credential, the cached results, the     *)
(* retries. The executor is shared; a caller gives way where it awaits.    *)
(*                                                                         *)
(* A request is its URL with its parameters, and its body. Time passes in  *)
(* ticks.                                                                  *)
(***************************************************************************)
EXTENDS Integers, FiniteSets, FiniteSetsExt

CONSTANTS
    Callers, Urls, Bodies,
    Attempts,        \* retry_attempts + 1
    Threshold,       \* circuit_failure_threshold
    ResetTicks,      \* circuit_reset_seconds
    Lifetime,        \* expires_in of a token
    Skew,            \* oauth_expiry_skew_seconds
    Ttl,             \* cache_ttl_seconds
    CacheSize,       \* result_cache_max_entries
    MaxToolTime, MaxToolCalls

ASSUME ToolCallAssumption ==
    /\ {Threshold, Attempts, CacheSize} \subseteq Nat \ {0}
    /\ {Skew, Ttl} \subseteq Nat /\ Lifetime \in Int

VARIABLES
    time,      \* time.monotonic(), and how many calls have begun
    circuit,   \* the tool's _Circuit
    token,     \* the cached access token: until when it is used, until when it is good
    results,   \* the cached results, by URL and parameters
    calling    \* what each caller is doing

toolCallVars == <<time, circuit, token, results, calling>>

NoAnswer == [kind |-> "none", url |-> "", body |-> "", at |-> 0]
NoCall == [at |-> "free", url |-> "", body |-> "", since |-> 0, began |-> 0, sent |-> 0,
         left |-> 0, waited |-> 0, answer |-> NoAnswer]

ToolCallInit ==
    /\ time = [now |-> 0, begun |-> 0]
    /\ circuit = [state |-> "closed", failures |-> 0, opened |-> 0]
    /\ token = [use |-> -1, good |-> -1]
    /\ results = {}
    /\ calling = [c \in Callers |-> NoCall]
-----------------------------------------------------------------------------
Tick ==
    /\ time.now < MaxToolTime /\ time' = [time EXCEPT !.now = @ + 1]
    /\ UNCHANGED <<circuit, token, results, calling>>

\* CircuitBreaker.state: an open circuit is half open once the reset time has passed.
Seen == IF circuit.state = "open" /\ time.now - circuit.opened >= ResetTicks THEN "half_open"
        ELSE circuit.state

\* A call that is over keeps its answer and what it asked for.
Over(c, answer) == [calling EXCEPT ![c] = [NoCall EXCEPT !.at = "done", !.url = calling[c].url,
                                              !.body = calling[c].body, !.began = calling[c].began,
                                              !.answer = answer]]

NotAnswered == [NoAnswer EXCEPT !.kind = "failed"]

(* execute, up to the first await: an open circuit answers at once. *)
BeginCall(c) ==
    /\ calling[c].at \in {"free", "done"} /\ time.begun < MaxToolCalls
    /\ time' = [time EXCEPT !.begun = @ + 1]
    /\ circuit' = [circuit EXCEPT !.state = Seen]
    /\ \E url \in Urls, body \in Bodies :
         calling' = IF Seen = "open"
                    THEN [calling EXCEPT ![c] = [NoCall EXCEPT !.at = "done", !.answer = NotAnswered]]
                    ELSE [calling EXCEPT ![c] = [NoCall EXCEPT !.at = "auth", !.url = url,
                                                    !.body = body, !.began = time.now]]
    /\ UNCHANGED <<token, results>>

\* As it would be if a cached result had no end.
PreparedFromStale(c, left, waited) ==
    LET old == {r \in results : r.url = calling[c].url} IN
    IF old # {}
    THEN calling' = Over(c, (CHOOSE r \in old : TRUE).answer) /\ UNCHANGED results
    ELSE /\ calling' = [calling EXCEPT ![c].at = "sending", ![c].left = left, ![c].waited = waited, ![c].since = 0]
         /\ UNCHANGED results

(* _cache_key, _cached and what follows prepare without an await. *)
Prepared(c, left, waited) ==
    LET old == {r \in results : r.url = calling[c].url}
        fresh == {r \in old : time.now < r.expires}
    IN  IF fresh # {}
        THEN /\ calling' = Over(c, (CHOOSE r \in fresh : TRUE).answer)
             /\ UNCHANGED results
        ELSE /\ calling' = [calling EXCEPT ![c].at = "sending", ![c].left = left, ![c].waited = waited, ![c].since = 0]
             /\ results' = results \ old

(* TokenProvider.token: a cached one is used; else the lock is let go and one is fetched, with
   the time read before.  The lifetime the fetch finds counts from then. *)
TakeToken(c) ==
    /\ calling[c].at = "auth" /\ time.now < token.use
    /\ Prepared(c, token.good - time.now, 0)
    /\ UNCHANGED <<time, circuit, token>>

AskToken(c) ==
    /\ calling[c].at = "auth" /\ time.now >= token.use
    /\ calling' = [calling EXCEPT ![c].at = "fetching", ![c].since = time.now]
    /\ UNCHANGED <<time, circuit, token, results>>

\* As it would be if a token were used to its last second.
TokenOfNoSkew(since, issued) == [use |-> since + Lifetime, good |-> issued + Lifetime]

\* When it is used is counted from the time read before the fetch, its life from its issue.
TokenOf(since, issued) == [use |-> since + Max({0, Lifetime - Skew}), good |-> issued + Lifetime]

(* The token endpoint answers with a token issued while the caller waited; when it refuses, or
   the secret is not there, prepare raises. *)
TokenArrives(c) ==
    /\ calling[c].at = "fetching"
    /\ \/ \E issued \in calling[c].since..time.now :
             /\ token' = TokenOf(calling[c].since, issued)
             /\ Prepared(c, issued + Lifetime - time.now, time.now - calling[c].since)
       \/ calling' = Over(c, NotAnswered) /\ UNCHANGED <<token, results>>
    /\ UNCHANGED <<time, circuit>>
-----------------------------------------------------------------------------
\* As it would be if the circuit opened one failure late.
OneFailedLate ==
    [circuit EXCEPT !.failures = @ + 1, !.state  = IF circuit.failures >= Threshold THEN "open" ELSE @,
                    !.opened = IF circuit.failures >= Threshold THEN time.now ELSE @]

\* CircuitBreaker.record_failure
OneFailed ==
    [circuit EXCEPT !.failures = @ + 1, !.state  = IF circuit.failures + 1 >= Threshold THEN "open" ELSE @,
                    !.opened = IF circuit.failures + 1 >= Threshold THEN time.now ELSE @]

(* _store: the entry nearest to its end makes room, even for one that is there already. *)
Stored(r) ==
    LET oldest == CHOOSE o \in results : \A p \in results : o.expires <= p.expires
        rest == IF Cardinality(results) >= CacheSize THEN results \ {oldest} ELSE results
    IN  {o \in rest : o.url # r.url} \cup {r}

(* A success closes the circuit whatever its state, and is cached. *)
Succeeds(c) ==
    /\ calling[c].at = "sending"
    /\ LET answer == [kind |-> "ok", url |-> calling[c].url, body |-> calling[c].body, at |-> time.now] IN
       /\ circuit' = [state |-> "closed", failures |-> 0, opened |-> 0]
       /\ results' = Stored([url |-> calling[c].url, expires |-> time.now + Ttl, answer |-> answer])
       /\ calling' = Over(c, answer)
    /\ UNCHANGED <<time, token>>

\* As it would be if an answer that will not change were asked for again.
RetriesAgain(c, retryable) == calling[c].sent < Attempts

Retries(c, retryable) == retryable /\ calling[c].sent + 1 < Attempts

(* A failure counts against the circuit, one of the caller's own making too; a timeout, a 429
   and a 5xx are tried again after a pause, though the circuit may have opened. *)
Fails(c) ==
    /\ calling[c].at = "sending"
    /\ circuit' = OneFailed
    /\ \E retryable \in BOOLEAN :
         calling' = IF Retries(c, retryable)
                    THEN [calling EXCEPT ![c].sent = @ + 1, ![c].at = "sleeping", ![c].left = 0]
                    ELSE Over(c, NotAnswered)
    /\ UNCHANGED <<time, token, results>>

Wakes(c) ==
    /\ calling[c].at = "sleeping"
    /\ calling' = [calling EXCEPT ![c].at = "sending"]
    /\ UNCHANGED <<time, circuit, token, results>>

Serve(c) == TakeToken(c) \/ AskToken(c) \/ TokenArrives(c) \/ Succeeds(c) \/ Fails(c) \/ Wakes(c)

ToolCallNext == Tick \/ \E c \in Callers : BeginCall(c) \/ Serve(c)

ToolCallSpec == ToolCallInit /\ [][ToolCallNext]_toolCallVars
-----------------------------------------------------------------------------
(* Types: the cache has one entry for a key and no more than it may; a call sends no more
   requests than it has attempts (rest_tool.py:1180, 1263). *)
ToolCallTypeOK ==
    /\ circuit.state \in {"closed", "open", "half_open"} /\ circuit.failures \in Nat
    /\ Cardinality(results) <= CacheSize
    /\ \A r, o \in results : r.url = o.url => r = o
    /\ \A c \in Callers : calling[c].sent \in 0..(Attempts - 1)
    /\ \A c \in Callers : calling[c].at \in {"free", "auth", "fetching", "sending", "sleeping", "done"}

(* While the circuit is open no call runs that began after it opened, whichever callers'
   failures opened it; and it is open, or half open, when there were failures enough since
   the last success, in whatever order the answers came (rest_tool.py:802-853, 1245). *)
OpenHoldsBack ==
    /\ circuit.state # "closed" <=> circuit.failures >= Threshold
    /\ \A c \in Callers : circuit.state = "open" /\ calling[c].at \notin {"free", "done"}
                             => calling[c].began <= circuit.opened

(* A caller that goes on to send has a token with more than the skew left of it, less the time
   that it waited for its own fetch, however long the fetches of others took
   (rest_tool.py:745-757). *)
TokenOutlivesTheCall ==
    \A c \in Callers : calling[c].at \in {"sending", "sleeping"} /\ calling[c].sent = 0 =>
                         calling[c].left + calling[c].waited > Min({Skew, Lifetime - 1})

(* A cached answer is one the upstream gave for the same URL and parameters, no longer ago
   than its time to live when the call began, and never a failure (rest_tool.py:1163-1193).
   The body of the request is not in the key, and nothing is said of it here. *)
CachedAnswersAreGood ==
    /\ \A r \in results : r.answer.kind = "ok" /\ r.answer.url = r.url /\ r.expires <= r.answer.at + Ttl
    /\ \A c \in Callers : calling[c].at = "done" /\ calling[c].answer.kind = "ok" =>
         /\ calling[c].answer.url = calling[c].url
         /\ calling[c].began <= calling[c].answer.at + Ttl

\* The circuit, the token and the cache of a REST tool hold under concurrent callers.
ToolCallsAreSound == OpenHoldsBack /\ TokenOutlivesTheCall /\ CachedAnswersAreGood
=============================================================================
