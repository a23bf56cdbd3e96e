------------------------------ MODULE GateProofs ------------------------------
(***************************************************************************)
(* Proofs about the gates of a question. The admission of a request: for   *)
(* any number of requests, keys, replicas and ticks, whoever gets in is    *)
(* current and within budget. The screening of a turn: whatever the text,  *)
(* the recognisers and the settings, it hides what it must and nothing     *)
(* else, and tells what it did.                                            *)
(***************************************************************************)
EXTENDS Admission, InputGuard, DataLemmas, SequenceTheorems

-----------------------------------------------------------------------------
(* The caller of a request *)

Ranks == {0} \cup {Clearance(admin, grouped) : admin \in BOOLEAN, grouped \in BOOLEAN}

RequestTypes == [at : {"new", "stale", "fetch", "unknown", "refetch", "groups", "in", "out",
                       "down", "misconfigured"},
                 token : TokenType, header : BOOLEAN, asked : Int, groups : BOOLEAN, rank : Ranks]

KeysType == [keys : SUBSET Kids, fetched : Int, tried : Int, lock : Requests \cup {Nobody}]

GateTyped ==
    /\ gateClock \in Nat
    /\ published \subseteq Kids
    /\ member \in [in : BOOLEAN, left : Int]
    /\ jwks \in KeysType
    /\ groupCache \in [known : BOOLEAN, groups : BOOLEAN, until : Int]
    /\ requests \in [Requests -> RequestTypes]

\* A fetch holds the lock, and ends within the timeout of the call.
FetchIsShort ==
    /\ \A r \in Requests : Fetching(r) => jwks.lock = r
    /\ jwks.lock # Nobody => gateClock <= jwks.tried + KeyTimeout

\* A cached membership that was lost since runs out within the cache's life of the loss.
LossIsSeen ==
    /\ \A r \in Requests : requests[r].asked <= gateClock
    /\ groupCache.known => groupCache.until <= gateClock + GroupLife
    /\ groupCache.known /\ groupCache.groups /\ ~member.in =>
         groupCache.until <= member.left + GroupLife \/ groupCache.until <= gateClock

\* The strengthening of CallersAreCurrent.
GateInv == GateTyped /\ FetchIsShort /\ LossIsSeen

LEMMA GateBounds ==
  /\ KeyLife \in Nat /\ KeyLife > 0 /\ GroupLife \in Nat /\ GroupLife > 0
  /\ KeyPause \in Nat /\ KeyTimeout \in Nat /\ Leeway \in Nat /\ MaxTime \in Nat
  BY GateAssumption

\* What a request becomes when its token is looked at: still this request, let in with
\* the groups of the cache at most, and only while they last.
LooksAt(old, new) ==
    /\ new \in RequestTypes
    /\ new.at \in {"unknown", "groups", "in", "out"}
    /\ new.asked \in {old.asked, gateClock, Never}
    /\ new.at = "in" /\ new.groups =>
         groupCache.known /\ groupCache.groups /\ groupCache.until > gateClock

LEMMA AdmittedTyped ==
  ASSUME NEW old \in RequestTypes, NEW groups \in BOOLEAN
  PROVE  /\ Admitted(old, groups) \in RequestTypes
         /\ Admitted(old, groups).at = "in" /\ Admitted(old, groups).groups = groups
         /\ Admitted(old, groups).asked = Never
<1> DEFINE rank == Clearance(old.token.admin, groups)
<1>1. rank \in Ranks
  BY DEF RequestTypes, TokenType, Ranks
<1>2. Admitted(old, groups) = [old EXCEPT !.at = "in", !.asked = Never, !.groups = groups, !.rank = rank]
  BY DEF Admitted
<1> HIDE DEF rank
<1>3. Never \in Int
  BY DEF Never
<1> QED
  BY <1>1, <1>2, <1>3 DEF RequestTypes

LEMMA RefusedTyped ==
  ASSUME NEW old \in RequestTypes
  PROVE  /\ Refused(old) \in RequestTypes
         /\ Refused(old).at = "out" /\ Refused(old).groups = FALSE /\ Refused(old).asked = Never
<1>1. 0 \in Ranks /\ Never \in Int
  BY DEF Ranks, Never
<1>2. Refused(old) = [old EXCEPT !.at = "out", !.asked = Never, !.groups = FALSE, !.rank = 0]
  BY DEF Refused
<1> QED
  BY <1>1, <1>2 DEF RequestTypes

LEMMA VerifiedLooks ==
  ASSUME GateTyped, NEW old \in RequestTypes
  PROVE  LooksAt(old, Verified(old))
<1>1. groupCache.groups \in BOOLEAN /\ gateClock \in Int
  BY DEF GateTyped
<1>2. CASE Verified(old) = [old EXCEPT !.at = "groups", !.asked = gateClock]
  BY <1>1, <1>2 DEF RequestTypes, LooksAt
<1>3. CASE Verified(old) = Refused(old)
  BY <1>3, RefusedTyped DEF LooksAt
<1>4. CASE Verified(old) = Admitted(old, FALSE)
  <2>1. FALSE \in BOOLEAN
    OBVIOUS
  <2> QED
    BY <1>4, <2>1, AdmittedTyped DEF LooksAt
<1>5. CASE /\ Verified(old) = Admitted(old, groupCache.groups)
           /\ groupCache.known /\ groupCache.until > gateClock
  BY <1>1, <1>5, AdmittedTyped DEF LooksAt
<1> QED
  BY <1>2, <1>3, <1>4, <1>5 DEF Verified

LEMMA CheckedLooks ==
  ASSUME GateTyped, NEW old \in RequestTypes, NEW held, NEW again
  PROVE  LooksAt(old, Checked(old, held, again))
<1>1. CASE Checked(old, held, again) = Verified(old)
  BY <1>1, VerifiedLooks
<1>2. CASE Checked(old, held, again) = Refused(old)
  BY <1>2, RefusedTyped DEF LooksAt
<1>3. CASE Checked(old, held, again) = [old EXCEPT !.at = "unknown"]
  BY <1>3 DEF RequestTypes, LooksAt
<1> QED
  BY <1>1, <1>2, <1>3 DEF Checked

LEMMA GateInitInv == GateInit => GateInv
<1> SUFFICES ASSUME GateInit PROVE GateInv
  OBVIOUS
<1> USE GateBounds, GateAssumption
<1>1. PICK scene \in Scenes : requests = [r \in Requests |-> NewRequest(scene.token[r], r \in scene.headers)]
  BY DEF GateInit
<1>2. scene.token \in [Requests -> TokenType]
  OBVIOUS
<1>3. 0 \in Ranks
  BY DEF Ranks
<1>4. \A r \in Requests : NewRequest(scene.token[r], r \in scene.headers) \in RequestTypes
  BY <1>2, <1>3 DEF NewRequest, RequestTypes, Never
<1>5. GateTyped
  BY <1>1, <1>4 DEF GateInit, GateTyped, KeysType, Never
<1>6. FetchIsShort
  BY <1>1 DEF GateInit, FetchIsShort, Fetching, NewRequest
<1>7. LossIsSeen
  BY <1>1 DEF GateInit, LossIsSeen, NewRequest, Never
<1> QED
  BY <1>5, <1>6, <1>7 DEF GateInv

\* One request moves, by what is known: the rest of the invariant is untouched.
LEMMA RequestMoves ==
  ASSUME GateInv, NEW r \in Requests, NEW new \in RequestTypes,
         requests' = [requests EXCEPT ![r] = new], new.asked <= gateClock,
         jwks' \in KeysType, UNCHANGED <<gateClock, mode, published, member>>,
         \/ UNCHANGED groupCache
         \/ \E groups \in BOOLEAN :
              /\ groups => member.in
              /\ requests[r].at = "groups" /\ groupCache' = Learned(r, groups)
  PROVE  GateTyped' /\ LossIsSeen'
<1> USE GateBounds
<1>1. requests'[r] = new /\ \A q \in Requests \ {r} : requests'[q] = requests[q]
  BY DEF GateInv, GateTyped
<1>2. \A q \in Requests : requests'[q].asked <= gateClock'
  BY <1>1 DEF GateInv, LossIsSeen
<1>3. requests' \in [Requests -> RequestTypes]
  BY DEF GateInv, GateTyped
<1>4. CASE UNCHANGED groupCache
  BY <1>2, <1>3, <1>4 DEF GateInv, GateTyped, LossIsSeen
<1>5. CASE ~UNCHANGED groupCache
  <2>1. PICK groups \in BOOLEAN : (groups => member.in) /\ groupCache' = Learned(r, groups)
    BY <1>5
  <2>2. requests[r].asked \in Int /\ requests[r].asked <= gateClock
    BY DEF GateInv, GateTyped, RequestTypes, LossIsSeen
  <2> DEFINE until == requests[r].asked + GroupLife
  <2>3. until \in Int /\ until <= gateClock + GroupLife
    BY <2>2 DEF GateInv, GateTyped
  <2>4. groupCache' = [groupCache EXCEPT !.known = TRUE, !.groups = groups, !.until = until]
    BY <2>1 DEF Learned
  <2> HIDE DEF until
  <2>5. /\ groupCache' \in [known : BOOLEAN, groups : BOOLEAN, until : Int]
        /\ groupCache'.groups = groups /\ groupCache'.until = until
    BY <2>3, <2>4 DEF GateInv, GateTyped
  <2> QED
    BY <1>2, <1>3, <2>1, <2>3, <2>5 DEF GateInv, GateTyped, LossIsSeen
<1> QED
  BY <1>4, <1>5

\* A request that looks at its token and does not fetch.
LEMMA LookedAt ==
  ASSUME GateInv, NEW r \in Requests, NEW new, LooksAt(requests[r], new),
         requests' = [requests EXCEPT ![r] = new], jwks' \in KeysType,
         UNCHANGED <<gateClock, mode, published, member, groupCache>>,
         jwks'.tried = jwks.tried,
         jwks'.lock = jwks.lock \/ (Fetching(r) /\ jwks'.lock = Nobody)
  PROVE  GateInv'
<1>1. new \in RequestTypes /\ new.at \notin {"fetch", "refetch"}
  BY DEF LooksAt
<1>2. new.asked <= gateClock
  BY DEF LooksAt, GateInv, GateTyped, LossIsSeen, Never
<1>3. GateTyped' /\ LossIsSeen'
  BY <1>1, <1>2, RequestMoves
<1>4. requests'[r] = new /\ \A q \in Requests \ {r} : requests'[q] = requests[q]
  BY DEF GateInv, GateTyped
<1>5. FetchIsShort'
  BY <1>1, <1>4 DEF GateInv, FetchIsShort, Fetching
<1> QED
  BY <1>3, <1>5 DEF GateInv

LEMMA GateNextInv == GateInv /\ [GateNext]_gateVars => GateInv'
<1> SUFFICES ASSUME GateInv, [GateNext]_gateVars PROVE GateInv'
  OBVIOUS
<1> USE GateBounds
<1>1. CASE Pass(gateClock + 1)
  <2>1. gateClock' = gateClock + 1 /\ UNCHANGED <<mode, published, jwks, groupCache, requests>>
    BY <1>1 DEF Pass
  <2> DEFINE left == IF member.left + GroupLife <= gateClock + 1 THEN Never ELSE member.left
  <2>2. left \in Int /\ member' = [member EXCEPT !.left = left]
    BY <1>1 DEF Pass, GateInv, GateTyped, Never
  <2>3. left = member.left \/ member.left + GroupLife <= gateClock'
    BY <2>1
  <2> HIDE DEF left
  <2>4. member' \in [in : BOOLEAN, left : Int] /\ member'.in = member.in /\ member'.left = left
    BY <2>2 DEF GateInv, GateTyped
  <2>5. GateTyped'
    BY <2>1, <2>4 DEF GateInv, GateTyped
  <2>6. FetchIsShort'
    BY <1>1, <2>1 DEF Pass, GateInv, FetchIsShort, Fetching
  <2>7. \A r \in Requests : requests[r].asked \in Int
    BY DEF GateInv, GateTyped, RequestTypes
  <2>8. LossIsSeen'
    BY <2>1, <2>3, <2>4, <2>7 DEF GateInv, GateTyped, LossIsSeen
  <2> QED
    BY <2>5, <2>6, <2>8 DEF GateInv
<1>2. CASE ChangeGroup
  <2> DEFINE left == IF member.in THEN gateClock ELSE member.left
  <2>1. /\ left \in Int /\ member' = [in |-> ~member.in, left |-> left]
        /\ UNCHANGED <<gateClock, mode, published, jwks, groupCache, requests>>
    BY <1>2 DEF ChangeGroup, GateInv, GateTyped
  <2>2. member.in => left = gateClock
    OBVIOUS
  <2> HIDE DEF left
  <2>3. member' \in [in : BOOLEAN, left : Int] /\ member'.in = ~member.in /\ member'.left = left
    BY <2>1 DEF GateInv, GateTyped
  <2> QED
    BY <2>1, <2>2, <2>3 DEF GateInv, GateTyped, FetchIsShort, Fetching, LossIsSeen
<1>3. ASSUME NEW keys \in SUBSET Kids, Rotate(keys) PROVE GateInv'
  BY <1>3 DEF Rotate, GateInv, GateTyped, FetchIsShort, Fetching, LossIsSeen
<1>4. ASSUME NEW r \in Requests, Arrive(r) PROVE GateInv'
  <2>1. UNCHANGED <<gateClock, mode, published, member, jwks, groupCache>> /\ requests[r] \in RequestTypes
    BY <1>4 DEF Arrive, Goes, GoesOn, GateInv, GateTyped
  <2>2. jwks' \in KeysType /\ jwks'.tried = jwks.tried /\ jwks'.lock = jwks.lock
    BY <2>1 DEF GateInv, GateTyped
  <2>3. ASSUME NEW to \in {"misconfigured", "stale"}, requests' = [requests EXCEPT ![r] = [requests[r] EXCEPT !.at = to]]
        PROVE  GateInv'
    <3> DEFINE new == [requests[r] EXCEPT !.at = to]
    <3>1. new \in RequestTypes /\ new.at = to /\ new.asked = requests[r].asked
      BY <2>1 DEF RequestTypes
    <3>2. requests' = [requests EXCEPT ![r] = new]
      BY <2>3
    <3> HIDE DEF new
    <3>3. GateTyped' /\ LossIsSeen'
      BY <2>1, <2>2, <3>1, <3>2, RequestMoves DEF GateInv, LossIsSeen
    <3>4. requests'[r] = new /\ \A q \in Requests \ {r} : requests'[q] = requests[q]
      BY <3>2 DEF GateInv, GateTyped
    <3>5. FetchIsShort'
      BY <2>1, <3>1, <3>4 DEF GateInv, FetchIsShort, Fetching
    <3> QED
      BY <3>3, <3>5 DEF GateInv
  <2>4. ASSUME NEW new, LooksAt(requests[r], new), GoesOn(r, new) PROVE GateInv'
    BY <2>1, <2>2, <2>4, LookedAt DEF GoesOn
  <2>5. LooksAt(requests[r], Refused(requests[r]))
    BY <2>1, RefusedTyped DEF LooksAt
  <2>6. LooksAt(requests[r], Checked(requests[r], jwks, FALSE))
    BY <2>1, CheckedLooks DEF GateInv
  <2>7. LooksAt(requests[r], Admitted(requests[r], FALSE))
    <3>1. FALSE \in BOOLEAN
      OBVIOUS
    <3> QED
      BY <2>1, <3>1, AdmittedTyped DEF LooksAt
  <2>8. CASE Goes(r, "misconfigured")
    BY <2>3, <2>8 DEF Goes, GateInv, GateTyped
  <2>9. CASE GoesOn(r, Admitted(requests[r], FALSE))
    BY <2>4, <2>7, <2>9
  <2>10. CASE GoesOn(r, [requests[r] EXCEPT !.at = "stale"])
    BY <2>3, <2>10 DEF GoesOn
  <2>11. CASE GoesOn(r, Refused(requests[r]))
    BY <2>4, <2>5, <2>11
  <2>12. CASE GoesOn(r, Checked(requests[r], jwks, FALSE))
    BY <2>4, <2>6, <2>12
  <2> QED
    BY <1>4, <2>8, <2>9, <2>10, <2>11, <2>12 DEF Arrive
<1>5. ASSUME NEW r \in Requests, BeginFetch(r) PROVE GateInv'
  <2> DEFINE to == IF requests[r].at = "stale" THEN "fetch" ELSE "refetch"
  <2> DEFINE new == [requests[r] EXCEPT !.at = to]
  <2>1. /\ requests' = [requests EXCEPT ![r] = new]
        /\ UNCHANGED <<gateClock, mode, published, member, groupCache>>
        /\ jwks' = [jwks EXCEPT !.lock = r, !.tried = gateClock] /\ jwks.lock = Nobody
    BY <1>5 DEF BeginFetch, Goes, GateInv, GateTyped
  <2>2. new \in RequestTypes /\ new.asked = requests[r].asked
    BY DEF GateInv, GateTyped, RequestTypes
  <2>3. jwks' \in KeysType /\ jwks'.lock = r /\ jwks'.tried = gateClock
    <3>1. gateClock \in Int /\ published \in SUBSET Kids /\ jwks \in KeysType
      BY DEF GateInv, GateTyped
    <3>2. r \in Requests \cup {Nobody} /\ Nobody \in Requests \cup {Nobody}
      OBVIOUS
    <3>3. jwks' = [jwks EXCEPT !.lock = r, !.tried = gateClock]
      BY <2>1
    <3>4. \A next : next = [jwks EXCEPT !.lock = r, !.tried = gateClock] =>
            next \in KeysType /\ next.lock = r /\ next.tried = gateClock
      BY <3>1, <3>2 DEF KeysType
    <3> QED
      BY <3>3, <3>4
  <2> HIDE DEF new
  <2>4. GateTyped' /\ LossIsSeen'
    BY <2>1, <2>2, <2>3, RequestMoves DEF GateInv, LossIsSeen
  <2>5. \A q \in Requests \ {r} : requests'[q] = requests[q] /\ ~Fetching(q)
    BY <2>1, GateAssumption DEF GateInv, GateTyped, FetchIsShort
  <2>6. FetchIsShort'
    BY <2>1, <2>3, <2>5 DEF GateInv, GateTyped, FetchIsShort, Fetching
  <2> QED
    BY <2>4, <2>6 DEF GateInv
<1>6. ASSUME NEW r \in Requests, FetchAnswers(r) PROVE GateInv'
  <2>1. /\ GoesOn(r, Checked(requests[r], jwks', requests[r].at = "refetch")) /\ UNCHANGED groupCache
        /\ jwks' = [jwks EXCEPT !.keys = published, !.fetched = gateClock, !.lock = Nobody] /\ Fetching(r)
    BY <1>6 DEF FetchAnswers
  <2>2. jwks' \in KeysType /\ jwks'.tried = jwks.tried /\ jwks'.lock = Nobody
    <3>1. gateClock \in Int /\ published \in SUBSET Kids /\ jwks \in KeysType
      BY DEF GateInv, GateTyped
    <3>2. r \in Requests \cup {Nobody} /\ Nobody \in Requests \cup {Nobody}
      OBVIOUS
    <3>3. jwks' = [jwks EXCEPT !.keys = published, !.fetched = gateClock, !.lock = Nobody]
      BY <2>1
    <3>4. \A next : next = [jwks EXCEPT !.keys = published, !.fetched = gateClock, !.lock = Nobody] =>
            next \in KeysType /\ next.tried = jwks.tried /\ next.lock = Nobody
      BY <3>1, <3>2 DEF KeysType
    <3> QED
      BY <3>3, <3>4
  <2>3. requests[r] \in RequestTypes
    BY DEF GateInv, GateTyped
  <2>4. LooksAt(requests[r], Checked(requests[r], jwks', requests[r].at = "refetch"))
    BY <2>3, CheckedLooks DEF GateInv
  <2> QED
    BY <2>1, <2>2, <2>4, LookedAt DEF GoesOn
<1>7. ASSUME NEW r \in Requests, FetchFails(r) PROVE GateInv'
  <2>1. /\ jwks' = [jwks EXCEPT !.lock = Nobody] /\ Fetching(r) /\ UNCHANGED groupCache
        /\ UNCHANGED <<gateClock, mode, published, member>>
    BY <1>7 DEF FetchFails, GoesOn
  <2>2. jwks' \in KeysType /\ jwks'.tried = jwks.tried /\ jwks'.lock = Nobody
    BY <2>1 DEF GateInv, GateTyped, KeysType
  <2>3. requests[r] \in RequestTypes
    BY DEF GateInv, GateTyped
  <2>4. LooksAt(requests[r], Checked(requests[r], jwks', requests[r].at = "refetch"))
    BY <2>3, CheckedLooks DEF GateInv
  <2>5. CASE GoesOn(r, Checked(requests[r], jwks', requests[r].at = "refetch"))
    BY <2>1, <2>2, <2>4, <2>5, LookedAt DEF GoesOn
  <2>6. CASE GoesOn(r, [requests[r] EXCEPT !.at = "down"])
    <3> DEFINE new == [requests[r] EXCEPT !.at = "down"]
    <3>1. new \in RequestTypes /\ new.asked = requests[r].asked /\ new.at = "down"
      BY <2>3 DEF RequestTypes
    <3>2. requests' = [requests EXCEPT ![r] = new]
      BY <2>6 DEF GoesOn
    <3> HIDE DEF new
    <3>3. GateTyped' /\ LossIsSeen'
      BY <2>1, <2>2, <3>1, <3>2, RequestMoves DEF GateInv, LossIsSeen
    <3>4. requests'[r] = new /\ \A q \in Requests \ {r} : requests'[q] = requests[q]
      BY <3>2 DEF GateInv, GateTyped
    <3>5. FetchIsShort'
      BY <2>1, <2>2, <3>1, <3>4 DEF GateInv, FetchIsShort, Fetching
    <3> QED
      BY <3>3, <3>5 DEF GateInv
  <2> QED
    BY <1>7, <2>5, <2>6 DEF FetchFails
<1>8. ASSUME NEW r \in Requests, DirectoryAnswers(r) \/ DirectoryFails(r) PROVE GateInv'
  <2>1. PICK groups \in BOOLEAN : /\ groups => member.in
                                  /\ requests[r].at = "groups" /\ groupCache' = Learned(r, groups)
                                  /\ requests' = [requests EXCEPT ![r] = Admitted(requests[r], groups)]
    <3>1. member.in \in BOOLEAN /\ FALSE \in BOOLEAN
      BY DEF GateInv, GateTyped
    <3> QED
      BY <1>8, <3>1 DEF DirectoryAnswers, DirectoryFails
  <2>2. UNCHANGED <<gateClock, mode, published, member, jwks>>
    BY <1>8 DEF DirectoryAnswers, DirectoryFails
  <2> DEFINE new == Admitted(requests[r], groups)
  <2>3. new \in RequestTypes /\ new.at = "in" /\ new.asked = Never
    BY AdmittedTyped DEF GateInv, GateTyped
  <2>4. requests' = [requests EXCEPT ![r] = new]
    BY <2>1
  <2> HIDE DEF new
  <2>5. new.asked <= gateClock /\ jwks' \in KeysType
    BY <2>2, <2>3 DEF Never, GateInv, GateTyped
  <2>6. GateTyped' /\ LossIsSeen'
    BY <2>1, <2>2, <2>3, <2>4, <2>5, RequestMoves
  <2>7. requests'[r] = new /\ \A q \in Requests \ {r} : requests'[q] = requests[q]
    BY <2>4 DEF GateInv, GateTyped
  <2>8. FetchIsShort'
    BY <2>2, <2>3, <2>7 DEF GateInv, FetchIsShort, Fetching
  <2> QED
    BY <2>6, <2>8 DEF GateInv
<1>9. ASSUME NEW r \in Requests, Guard(r) PROVE GateInv'
  <2>1. requests[r] \in RequestTypes
    BY DEF GateInv, GateTyped
  <2>2. LooksAt(requests[r], Refused(requests[r]))
    BY <2>1, RefusedTyped DEF LooksAt
  <2> QED
    BY <1>9, <2>2, LookedAt DEF Guard, GoesOn, GateInv, GateTyped
<1>10. CASE UNCHANGED gateVars
  BY <1>10 DEF gateVars, GateInv, GateTyped, FetchIsShort, Fetching, LossIsSeen
<1> QED
  BY <1>1, <1>2, <1>3, <1>4, <1>5, <1>6, <1>7, <1>8, <1>9, <1>10 DEF GateNext

\* What looks at a token with the keys it has just checked, or asked for, is vouched for.
LEMMA KeysVouch == GateInv /\ GateNext =>
  \A r \in Requests :
      mode = "entra" /\ requests[r].at \in {"new", "fetch", "refetch"} /\ requests'[r].at \in {"groups", "in"}
      => Vouched'
<1> SUFFICES ASSUME GateInv, GateNext, NEW r \in Requests, mode = "entra",
                    requests[r].at \in {"new", "fetch", "refetch"}, requests'[r].at \in {"groups", "in"}
             PROVE  Vouched'
  OBVIOUS
<1> USE GateBounds
<1>1. /\ gateClock \in Int /\ jwks \in KeysType /\ requests[r] \in RequestTypes
      /\ jwks.fetched \in Int /\ jwks.tried \in Int
  BY DEF GateInv, GateTyped, KeysType
<1>2. \A q \in Requests : \A new : requests' = [requests EXCEPT ![q] = new] => q = r /\ new.at \in {"groups", "in"}
  BY DEF GateInv, GateTyped
<1>3. requests' # requests
  OBVIOUS
<1>4. CASE Arrive(r)
  <2>1. UNCHANGED <<gateClock, jwks>>
    BY <1>4 DEF Arrive, Goes, GoesOn
  <2>2. ~KeysExpired
    <3>1. Refused(requests[r]).at = "out" /\ [requests[r] EXCEPT !.at = "stale"].at = "stale"
      BY <1>1, RefusedTyped DEF RequestTypes
    <3> QED
      BY <1>2, <1>4, <3>1 DEF Arrive, GoesOn
  <2> QED
    BY <1>1, <2>1, <2>2 DEF KeysExpired, Vouched
<1>5. CASE FetchAnswers(r)
  <2>1. gateClock' = gateClock /\ jwks'.fetched = gateClock
    BY <1>1, <1>5 DEF FetchAnswers, GoesOn, KeysType
  <2> QED
    BY <1>1, <2>1 DEF Vouched
<1>6. CASE FetchFails(r)
  <2>1. gateClock' = gateClock /\ jwks'.fetched = jwks.fetched /\ jwks'.tried = jwks.tried
    BY <1>1, <1>6 DEF FetchFails, GoesOn, KeysType
  <2>2. gateClock <= jwks.tried + KeyTimeout
    BY <1>6, GateAssumption DEF FetchFails, GateInv, FetchIsShort
  <2> QED
    BY <1>1, <2>1, <2>2 DEF Vouched
<1>7. ASSUME NEW q \in Requests, BeginFetch(q) PROVE FALSE
  <2>1. requests' = [requests EXCEPT ![q] = [requests[q] EXCEPT !.at = IF requests[q].at = "stale" THEN "fetch" ELSE "refetch"]]
    BY <1>7 DEF BeginFetch, Goes, GateInv, GateTyped
  <2> QED
    BY <1>2, <2>1 DEF GateInv, GateTyped, RequestTypes
<1>8. ASSUME NEW q \in Requests, Guard(q) PROVE FALSE
  BY <1>2, <1>8, RefusedTyped DEF Guard, GoesOn, GateInv, GateTyped
<1>9. ASSUME NEW q \in Requests, DirectoryAnswers(q) \/ DirectoryFails(q) PROVE FALSE
  <2>1. requests[q].at = "groups" /\ \E new : requests' = [requests EXCEPT ![q] = new]
    BY <1>9 DEF DirectoryAnswers, DirectoryFails
  <2> QED
    BY <1>2, <2>1
<1>10. ASSUME NEW q \in Requests, Arrive(q) \/ FetchAnswers(q) \/ FetchFails(q) PROVE q = r
  <2>1. \E new : requests' = [requests EXCEPT ![q] = new]
    BY <1>10 DEF Arrive, FetchAnswers, FetchFails, Goes, GoesOn
  <2> QED
    BY <1>2, <2>1
<1> QED
  BY <1>3, <1>4, <1>5, <1>6, <1>7, <1>8, <1>9, <1>10 DEF GateNext, Pass, ChangeGroup, Rotate

\* A request is let in for a group by the directory, which has just seen the caller in it,
\* or by the cache of what it saw.
LEMMA GroupsRunOut == GateInv /\ GateNext =>
  \A r \in Requests : requests[r].at # "in" /\ requests'[r].at = "in" /\ requests'[r].groups =>
      member.in \/ gateClock < member.left + GroupLife
<1> SUFFICES ASSUME GateInv, GateNext, NEW r \in Requests,
                    requests[r].at # "in", requests'[r].at = "in", requests'[r].groups, ~member.in
             PROVE  gateClock < member.left + GroupLife
  OBVIOUS
<1> USE GateBounds
<1>1. /\ gateClock \in Int /\ member.left \in Int /\ groupCache.until \in Int /\ requests[r] \in RequestTypes
      /\ \A q \in Requests : requests[q] \in RequestTypes
  BY DEF GateInv, GateTyped
<1>2. \A q \in Requests : \A new : requests' = [requests EXCEPT ![q] = new] => q = r /\ new.at = "in" /\ new.groups
  BY DEF GateInv, GateTyped
<1>3. requests' # requests
  OBVIOUS
<1>4. ASSUME NEW q \in Requests, NEW new, LooksAt(requests[q], new), GoesOn(q, new)
      PROVE  gateClock < member.left + GroupLife
  <2>1. groupCache.known /\ groupCache.groups /\ groupCache.until > gateClock
    BY <1>2, <1>4 DEF GoesOn, LooksAt
  <2> QED
    BY <1>1, <2>1 DEF GateInv, LossIsSeen
<1>5. ASSUME NEW q \in Requests, NEW held, NEW again, GoesOn(q, Checked(requests[q], held, again))
      PROVE  gateClock < member.left + GroupLife
  BY <1>1, <1>4, <1>5, CheckedLooks DEF GateInv
<1>6. \A q \in Requests : ~GoesOn(q, Refused(requests[q]))
  BY <1>1, <1>2, RefusedTyped DEF GoesOn
<1>7. \A q \in Requests : ~GoesOn(q, Admitted(requests[q], FALSE))
  <2>1. FALSE \in BOOLEAN
    OBVIOUS
  <2> QED
    BY <1>1, <1>2, <2>1, AdmittedTyped DEF GoesOn
<1>8. \A q \in Requests, to \in {"stale", "down", "misconfigured", "fetch", "refetch"} :
        /\ ~GoesOn(q, [requests[q] EXCEPT !.at = to])
        /\ ~Goes(q, to)
  BY <1>1, <1>2 DEF GoesOn, Goes, RequestTypes
<1>9. ASSUME NEW q \in Requests, Arrive(q) PROVE gateClock < member.left + GroupLife
  BY <1>5, <1>6, <1>7, <1>8, <1>9 DEF Arrive
<1>10. ASSUME NEW q \in Requests, BeginFetch(q) PROVE gateClock < member.left + GroupLife
  BY <1>8, <1>10 DEF BeginFetch
<1>11. ASSUME NEW q \in Requests, FetchAnswers(q) \/ FetchFails(q) PROVE gateClock < member.left + GroupLife
  BY <1>5, <1>8, <1>11 DEF FetchAnswers, FetchFails
<1>12. ASSUME NEW q \in Requests, DirectoryAnswers(q) \/ DirectoryFails(q) PROVE FALSE
  <2>1. FALSE \in BOOLEAN /\ member.in = FALSE
    BY DEF GateInv, GateTyped
  <2>2. requests' = [requests EXCEPT ![q] = Admitted(requests[q], FALSE)]
    BY <1>12, <2>1 DEF DirectoryAnswers, DirectoryFails
  <2> QED
    BY <1>1, <1>2, <2>1, <2>2, AdmittedTyped
<1>13. ASSUME NEW q \in Requests, Guard(q) PROVE FALSE
  BY <1>6, <1>13 DEF Guard
<1> QED
  BY <1>3, <1>9, <1>10, <1>11, <1>12, <1>13 DEF GateNext, Pass, ChangeGroup, Rotate

\* The inductive invariant of the gate.
THEOREM GateInductive == GateSpec => []GateInv
<1>1. GateInit => GateInv
  BY GateInitInv
<1>2. GateInv /\ [GateNext]_gateVars => GateInv'
  BY GateNextInv
<1> QED
  BY <1>1, <1>2, PTL DEF GateSpec

(* Who gets in is who the keys and the groups say, within the lives of their caches, for any
   number of requests, keys and group changes (JWKSCache, EntraTokenValidator). *)
THEOREM CallersCurrent == GateSpec => CallersAreCurrent
<1>1. GateInv /\ [GateNext]_gateVars =>
        [\A r \in Requests :
            /\ mode = "entra" /\ requests[r].at \in {"new", "fetch", "refetch"} /\ requests'[r].at \in {"groups", "in"}
            => Vouched']_gateVars
  BY KeysVouch
<1>2. GateInv /\ [GateNext]_gateVars =>
        [\A r \in Requests : requests[r].at # "in" /\ requests'[r].at = "in" /\ requests'[r].groups =>
            member.in \/ gateClock < member.left + GroupLife]_gateVars
  BY GroupsRunOut
<1>3. GateSpec => KeysAreAskedFor
  BY <1>1, GateInductive, PTL DEF GateSpec, KeysAreAskedFor
<1>4. GateSpec => LostGroupsRunOut
  BY <1>2, GateInductive, PTL DEF GateSpec, LostGroupsRunOut
<1> QED
  BY <1>3, <1>4 DEF CallersAreCurrent

-----------------------------------------------------------------------------
(* The budget of a caller *)

LinkTypes   == {"unset", "ready", "off"}
BucketType  == [tokens : 0..Capacity, seen : Nat, used : BOOLEAN]
PassageType == [at : Nat, by : Replicas, shared : BOOLEAN]

SharedIn(m)        == {i \in DOMAIN passed : passed[i].shared /\ Minute(passed[i].at) = m}
LocalSince(w, from) == {i \in DOMAIN passed : ~passed[i].shared /\ passed[i].by = w /\ passed[i].at >= from}

BudgetTyped ==
    /\ tick \in 0..LastTick
    /\ counter \in [0..Minute(LastTick) -> Nat]
    /\ link \in [Replicas -> LinkTypes]
    /\ bucket \in [Replicas -> BucketType]
    /\ passed \in Seq(PassageType)

\* What the shared counter has let through is counted in it, and within the limit.
SharedIsCounted == \A m \in DOMAIN counter :
    Cardinality(SharedIn(m)) <= counter[m] /\ Cardinality(SharedIn(m)) <= Capacity

\* What a bucket has let through since any tick was in it then, or came back since.
BucketHolds == \A w \in Replicas :
    /\ bucket[w].seen <= tick
    /\ \A i \in DOMAIN passed : ~passed[i].shared /\ passed[i].by = w =>
         bucket[w].used /\ passed[i].at <= bucket[w].seen
    /\ \A from \in 0..bucket[w].seen :
         Cardinality(LocalSince(w, from)) + bucket[w].tokens <= Capacity + (bucket[w].seen - from)

\* The strengthening of BudgetIsKept.
BudgetInv == BudgetTyped /\ SharedIsCounted /\ BucketHolds

LEMMA BudgetBounds ==
  /\ PerMinute \in Nat /\ PerMinute > 0 /\ Burst \in Nat /\ LastTick \in Nat
  /\ Capacity \in Nat /\ Capacity > 0
  BY BudgetAssumption DEF Capacity

LEMMA MinuteBounds ==
  ASSUME NEW t \in 0..LastTick
  PROVE  Minute(t) \in 0..Minute(LastTick)
<1> USE BudgetBounds
<1>1. \A a, b \in Nat : a <= b => a \div PerMinute <= b \div PerMinute /\ a \div PerMinute \in Nat
  OBVIOUS
<1> QED
  BY <1>1 DEF Minute

LEMMA LeastOfTwo ==
  ASSUME NEW a \in Int, NEW b \in Int
  PROVE  Min({a, b}) = IF a <= b THEN a ELSE b
<1>1. \A x \in {a, b} : (\A y \in {a, b} : x <= y) <=> x = IF a <= b THEN a ELSE b
  OBVIOUS
<1>2. (IF a <= b THEN a ELSE b) \in {a, b}
  OBVIOUS
<1> QED
  BY <1>1, <1>2 DEF Min

\* A request more is one more in each set it belongs to.
LEMMA OneAdmitted ==
  ASSUME BudgetTyped, NEW w \in Replicas, NEW shared \in BOOLEAN, Admit(w, shared)
  PROVE  /\ passed' \in Seq(PassageType)
         /\ DOMAIN passed' = DOMAIN passed \cup {Len(passed) + 1} /\ Len(passed) + 1 \notin DOMAIN passed
         /\ passed'[Len(passed) + 1] = [at |-> tick, by |-> w, shared |-> shared]
         /\ \A i \in DOMAIN passed : passed'[i] = passed[i]
<1>1. [at |-> tick, by |-> w, shared |-> shared] \in PassageType
  BY BudgetBounds DEF PassageType, BudgetTyped
<1> QED
  BY <1>1 DEF Admit, BudgetTyped

LEMMA FiniteSets ==
  ASSUME BudgetTyped
  PROVE  \A S \in SUBSET DOMAIN passed : IsFiniteSet(S) /\ Cardinality(S) \in Nat
<1>1. DOMAIN passed = 1..Len(passed) /\ Len(passed) \in Nat
  BY DEF BudgetTyped
<1>2. IsFiniteSet(DOMAIN passed)
  BY <1>1, FS_Interval
<1> QED
  BY <1>2, FS_Subset, FS_CardinalityType

LEMMA AddOne ==
  ASSUME NEW S, IsFiniteSet(S), NEW x, x \notin S, NEW T, T = S \/ T = S \cup {x}
  PROVE  Cardinality(T) \in {Cardinality(S), Cardinality(S) + 1} /\ (T = S => Cardinality(T) = Cardinality(S))
  BY FS_AddElement, FS_CardinalityType

LEMMA BudgetInitInv == BudgetInit => BudgetInv
<1> SUFFICES ASSUME BudgetInit PROVE BudgetInv
  OBVIOUS
<1> USE BudgetBounds
<1>1. BudgetTyped
  <2>1. FullBucket \in BucketType
    BY DEF FullBucket, BucketType
  <2> QED
    BY <2>1 DEF BudgetInit, BudgetTyped, LinkTypes
<1>2. \A m : SharedIn(m) = {}
  BY DEF BudgetInit, SharedIn
<1>3. \A w, from : LocalSince(w, from) = {}
  BY DEF BudgetInit, LocalSince
<1> DEFINE none == Cardinality({})
<1>6. none = 0
  BY FS_EmptySet
<1>7. \A m : Cardinality(SharedIn(m)) = none
  BY <1>2
<1>8. \A w, from : Cardinality(LocalSince(w, from)) = none
  BY <1>3
<1> HIDE DEF none
<1>4. SharedIsCounted
  BY <1>1, <1>6, <1>7 DEF BudgetInit, SharedIsCounted
<1>5. BucketHolds
  <2>1. \A w \in Replicas : bucket[w] = FullBucket /\ FullBucket.seen = 0 /\ FullBucket.tokens = Capacity
    BY DEF BudgetInit, FullBucket
  <2>2. DOMAIN passed = {} /\ tick = 0
    BY DEF BudgetInit
  <2> QED
    BY <1>6, <1>8, <2>1, <2>2 DEF BucketHolds
<1> QED
  BY <1>1, <1>4, <1>5 DEF BudgetInv

LEMMA BudgetFacts ==
  ASSUME BudgetInv
  PROVE  /\ tick \in Nat
         /\ \A i \in DOMAIN passed : passed[i].at \in Nat
         /\ \A w \in Replicas : /\ bucket[w].seen \in Nat /\ bucket[w].seen <= tick
                                /\ bucket[w].tokens \in Nat
<1>1. \A i \in DOMAIN passed : passed[i] \in PassageType
  BY DEF BudgetInv, BudgetTyped
<1>2. \A w \in Replicas : bucket[w] \in BucketType
  BY DEF BudgetInv, BudgetTyped
<1> QED
  BY <1>1, <1>2, BudgetBounds DEF BudgetInv, BudgetTyped, BucketHolds, BucketType, PassageType

\* One more is counted in a minute.
LEMMA CountOne ==
  ASSUME BudgetInv, NEW m \in 0..Minute(LastTick), NEW more \in {0, 1},
         counter' = [counter EXCEPT ![m] = @ + more]
  PROVE  /\ counter' \in [0..Minute(LastTick) -> Nat] /\ counter[m] \in Nat /\ counter'[m] = counter[m] + more
         /\ \A n \in DOMAIN counter : /\ counter[n] \in Nat /\ counter[n] <= counter'[n]
                                      /\ n # m => counter'[n] = counter[n]
<1>1. counter[m] \in Nat /\ counter[m] + more \in Nat /\ DOMAIN counter = 0..Minute(LastTick)
  BY DEF BudgetInv, BudgetTyped
<1> DEFINE next == counter[m] + more
<1>2. counter' = [counter EXCEPT ![m] = next] /\ next \in Nat /\ counter[m] <= next
  BY <1>1
<1> HIDE DEF next
<1>3. counter' \in [0..Minute(LastTick) -> Nat] /\ counter'[m] = next
  BY <1>1, <1>2 DEF BudgetInv, BudgetTyped
<1>4. \A n \in DOMAIN counter : counter[n] \in Nat /\ (n # m => counter'[n] = counter[n])
  BY <1>2 DEF BudgetInv, BudgetTyped
<1> QED
  BY <1>1, <1>2, <1>3, <1>4 DEF next

\* Before a request takes its token, its bucket holds what BucketHolds says, refilled.
LEMMA LocalBound ==
  ASSUME BudgetInv, NEW w \in Replicas, NEW refilled \in 0..Capacity, NEW from \in 0..tick,
         bucket[w].used => refilled <= bucket[w].tokens + (tick - bucket[w].seen)
  PROVE  Cardinality(LocalSince(w, from)) + refilled <= Capacity + (tick - from)
<1> USE BudgetBounds
<1>1. /\ bucket[w].seen \in Nat /\ bucket[w].tokens \in Nat /\ bucket[w].seen <= tick /\ tick \in Nat
      /\ \A i \in DOMAIN passed : passed[i].at \in Nat
  BY BudgetFacts
<1>2. LocalSince(w, from) \in SUBSET DOMAIN passed
  BY DEF LocalSince
<1>3. Cardinality(LocalSince(w, from)) \in Nat
  BY <1>2, FiniteSets DEF BudgetInv
<1>4. CASE bucket[w].used /\ from <= bucket[w].seen
  <2>1. Cardinality(LocalSince(w, from)) + bucket[w].tokens <= Capacity + (bucket[w].seen - from)
    BY <1>1, <1>4 DEF BudgetInv, BucketHolds
  <2> QED
    BY <1>1, <1>3, <1>4, <2>1
<1>5. CASE ~(bucket[w].used /\ from <= bucket[w].seen)
  <2>1. LocalSince(w, from) = {}
    BY <1>1, <1>5 DEF BudgetInv, BucketHolds, LocalSince
  <2>2. Cardinality(LocalSince(w, from)) = 0
    BY <2>1, FS_EmptySet
  <2> QED
    BY <1>1, <2>2
<1> QED
  BY <1>4, <1>5

\* A request at a bucket, which is let through or not.
LEMMA TakeHolds ==
  ASSUME BudgetInv, NEW w \in Replicas, TakeLocal(w), UNCHANGED tick
  PROVE  /\ bucket' \in [Replicas -> BucketType] /\ passed' \in Seq(PassageType)
         /\ \A m : SharedIn(m)' = SharedIn(m)
         /\ BucketHolds'
<1> USE BudgetBounds
<1> DEFINE tokens == IF Refilled(w) < 1 THEN Refilled(w) ELSE Refilled(w) - 1
<1> DEFINE full == [tokens |-> tokens, seen |-> tick, used |-> TRUE]
<1>1. bucket[w] \in BucketType /\ tick \in Nat /\ bucket[w].seen \in Nat /\ bucket[w].tokens \in 0..Capacity
  BY DEF BudgetInv, BudgetTyped, BucketType
<1>2. /\ Refilled(w) \in 0..Capacity
      /\ bucket[w].used => Refilled(w) <= bucket[w].tokens + (tick - bucket[w].seen)
  <2>1. bucket[w].seen <= tick
    BY DEF BudgetInv, BucketHolds
  <2>2. Min({Capacity, bucket[w].tokens + (tick - bucket[w].seen)}) \in
          {Capacity, bucket[w].tokens + (tick - bucket[w].seen)} /\
        Min({Capacity, bucket[w].tokens + (tick - bucket[w].seen)}) <= Capacity /\
        Min({Capacity, bucket[w].tokens + (tick - bucket[w].seen)}) <= bucket[w].tokens + (tick - bucket[w].seen)
    BY <1>1, <2>1, LeastOfTwo
  <2> QED
    BY <1>1, <2>1, <2>2 DEF Refilled
<1>3. tokens \in 0..Capacity
  BY <1>2
<1>4. bucket' = [bucket EXCEPT ![w] = full]
  BY DEF TakeLocal
<1>5. full \in BucketType /\ full.tokens = tokens /\ full.seen = tick /\ full.used
  BY <1>1, <1>3 DEF BucketType
<1> HIDE DEF full
<1>6. bucket' \in [Replicas -> BucketType] /\ bucket'[w] = full /\ \A v \in Replicas \ {w} : bucket'[v] = bucket[v]
  BY <1>4, <1>5 DEF BudgetInv, BudgetTyped
<1>7. CASE Refilled(w) < 1
  <2>1. passed' = passed /\ tokens = Refilled(w)
    BY <1>7 DEF TakeLocal
  <2>2. \A m : SharedIn(m)' = SharedIn(m)
    BY <2>1 DEF SharedIn
  <2>3. \A v, from : LocalSince(v, from)' = LocalSince(v, from)
    BY <2>1 DEF LocalSince
  <2>4. BucketHolds'
    <3> SUFFICES ASSUME NEW v \in Replicas
                 PROVE  /\ bucket'[v].seen <= tick'
                        /\ \A i \in DOMAIN passed' : ~passed'[i].shared /\ passed'[i].by = v =>
                             bucket'[v].used /\ passed'[i].at <= bucket'[v].seen
                        /\ \A from \in 0..bucket'[v].seen :
                             Cardinality(LocalSince(v, from)') + bucket'[v].tokens <= Capacity + (bucket'[v].seen - from)
      BY DEF BucketHolds
    <3>1. CASE v # w
      BY <1>6, <2>1, <2>3, <3>1 DEF BudgetInv, BucketHolds
    <3>2. CASE v = w
      <4>1. \A i \in DOMAIN passed' : ~passed'[i].shared /\ passed'[i].by = w =>
              bucket[w].used /\ passed'[i].at <= bucket[w].seen
        BY <2>1 DEF BudgetInv, BucketHolds
      <4>2. bucket[w].seen <= tick /\ \A i \in DOMAIN passed : passed[i].at \in Nat
        BY BudgetFacts
      <4>3. ASSUME NEW from \in 0..tick PROVE Cardinality(LocalSince(w, from)) + tokens <= Capacity + (tick - from)
        BY <1>1, <1>2, <1>3, <4>3, LocalBound
      <4> QED
        BY <1>1, <1>5, <1>6, <2>1, <2>3, <3>2, <4>1, <4>2, <4>3
    <3> QED
      BY <3>1, <3>2
  <2> QED
    BY <1>6, <2>1, <2>2, <2>4 DEF BudgetInv, BudgetTyped
<1>8. CASE ~(Refilled(w) < 1)
  <2> DEFINE last == Len(passed) + 1
  <2>1. Admit(w, FALSE) /\ tokens = Refilled(w) - 1
    BY <1>8 DEF TakeLocal
  <2>2. /\ passed' \in Seq(PassageType) /\ DOMAIN passed' = DOMAIN passed \cup {last} /\ last \notin DOMAIN passed
        /\ passed'[last] = [at |-> tick, by |-> w, shared |-> FALSE]
        /\ \A i \in DOMAIN passed : passed'[i] = passed[i]
    <3>1. FALSE \in BOOLEAN
      OBVIOUS
    <3> QED
      BY <2>1, <3>1, OneAdmitted DEF BudgetInv
  <2> HIDE DEF last
  <2>3. \A m : SharedIn(m)' = SharedIn(m)
    BY <2>2 DEF SharedIn
  <2>4. \A v \in Replicas \ {w} : \A from : LocalSince(v, from)' = LocalSince(v, from)
    BY <2>2 DEF LocalSince
  <2>5. \A from \in 0..tick : LocalSince(w, from)' = LocalSince(w, from) \cup {last}
    BY <1>1, <2>2 DEF LocalSince
  <2>6. BucketHolds'
    <3> SUFFICES ASSUME NEW v \in Replicas
                 PROVE  /\ bucket'[v].seen <= tick'
                        /\ \A i \in DOMAIN passed' : ~passed'[i].shared /\ passed'[i].by = v =>
                             bucket'[v].used /\ passed'[i].at <= bucket'[v].seen
                        /\ \A from \in 0..bucket'[v].seen :
                             Cardinality(LocalSince(v, from)') + bucket'[v].tokens <= Capacity + (bucket'[v].seen - from)
      BY DEF BucketHolds
    <3>1. CASE v # w
      BY <1>6, <2>2, <2>4, <3>1 DEF BudgetInv, BucketHolds
    <3>2. CASE v = w
      <4>1. \A i \in DOMAIN passed : ~passed[i].shared /\ passed[i].by = w => passed[i].at <= bucket[w].seen
        BY DEF BudgetInv, BucketHolds
      <4>2. bucket[w].seen <= tick /\ \A i \in DOMAIN passed : passed[i].at \in Nat
        BY BudgetFacts
      <4>3. \A i \in DOMAIN passed' : ~passed'[i].shared /\ passed'[i].by = w => passed'[i].at <= tick
        BY <1>1, <2>2, <4>1, <4>2
      <4>4. ASSUME NEW from \in 0..tick
            PROVE  Cardinality(LocalSince(w, from)') + tokens <= Capacity + (tick - from)
        <5>1. Cardinality(LocalSince(w, from)) + Refilled(w) <= Capacity + (tick - from)
          BY <1>1, <1>2, <4>4, LocalBound
        <5>2. LocalSince(w, from) \in SUBSET DOMAIN passed
          BY DEF LocalSince
        <5>3. IsFiniteSet(LocalSince(w, from)) /\ Cardinality(LocalSince(w, from)) \in Nat /\ last \notin LocalSince(w, from)
          BY <2>2, <5>2, FiniteSets DEF BudgetInv
        <5>4. Cardinality(LocalSince(w, from)') = Cardinality(LocalSince(w, from)) + 1
          BY <2>5, <5>3, FS_AddElement
        <5> QED
          BY <1>1, <1>2, <2>1, <5>1, <5>3, <5>4
      <4> QED
        BY <1>1, <1>5, <1>6, <3>2, <4>3, <4>4
    <3> QED
      BY <3>1, <3>2
  <2> QED
    BY <1>6, <2>2, <2>3, <2>6
<1> QED
  BY <1>7, <1>8

LEMMA BudgetNextInv == BudgetInv /\ [BudgetNext]_budgetVars => BudgetInv'
<1> SUFFICES ASSUME BudgetInv, [BudgetNext]_budgetVars PROVE BudgetInv'
  OBVIOUS
<1> USE BudgetBounds
<1>1. Minute(tick) \in DOMAIN counter /\ DOMAIN counter = 0..Minute(LastTick)
  BY MinuteBounds DEF BudgetInv, BudgetTyped
<1>2. CASE Later
  <2>1. tick' = tick + 1 /\ tick' \in 0..LastTick /\ UNCHANGED <<counter, link, bucket, passed>>
    BY <1>2 DEF Later, BudgetInv, BudgetTyped
  <2>2. \A m : SharedIn(m)' = SharedIn(m)
    BY <2>1 DEF SharedIn
  <2>3. \A w, from : LocalSince(w, from)' = LocalSince(w, from)
    BY <2>1 DEF LocalSince
  <2>4. BudgetTyped'
    BY <2>1 DEF BudgetInv, BudgetTyped
  <2>5. SharedIsCounted'
    BY <2>1, <2>2 DEF BudgetInv, SharedIsCounted
  <2>6. \A w \in Replicas : bucket[w].seen \in Nat /\ tick \in Nat
    BY DEF BudgetInv, BudgetTyped, BucketType
  <2>7. BucketHolds'
    BY <2>1, <2>3, <2>6 DEF BudgetInv, BucketHolds
  <2> QED
    BY <2>4, <2>5, <2>7 DEF BudgetInv
<1>3. ASSUME NEW w \in Replicas, Connect(w) PROVE BudgetInv'
  <2>1. link' = [link EXCEPT ![w] = "ready"] /\ UNCHANGED <<tick, counter, bucket, passed>>
    BY <1>3 DEF Connect
  <2>2. BudgetTyped'
    BY <2>1 DEF BudgetInv, BudgetTyped, LinkTypes
  <2> QED
    BY <2>1, <2>2 DEF BudgetInv, SharedIsCounted, SharedIn, BucketHolds, LocalSince
<1>4. ASSUME NEW w \in Replicas, AcquireShared(w) PROVE BudgetInv'
  <2> DEFINE now == Minute(tick)
  <2>1. /\ counter' = [counter EXCEPT ![now] = counter[now] + 1] /\ UNCHANGED <<tick, link, bucket>>
        /\ \/ counter[now] + 1 <= Capacity /\ Admit(w, TRUE)
           \/ UNCHANGED passed
    <3>1. counter[now] \in Nat
      BY <1>1 DEF BudgetInv, BudgetTyped
    <3>2. \/ counter[now] + 1 > Capacity /\ UNCHANGED passed
          \/ ~(counter[now] + 1 > Capacity) /\ Admit(w, TRUE)
      BY <1>4 DEF AcquireShared
    <3>3. counter' = [counter EXCEPT ![now] = counter[now] + 1] /\ UNCHANGED <<tick, link, bucket>>
      BY <1>4 DEF AcquireShared
    <3>4. ~(counter[now] + 1 > Capacity) => counter[now] + 1 <= Capacity
      BY <3>1
    <3> QED
      BY <3>2, <3>3, <3>4
  <2>2. /\ counter' \in [0..Minute(LastTick) -> Nat] /\ counter'[now] = counter[now] + 1
        /\ counter[now] \in Nat
        /\ \A m \in DOMAIN counter \ {now} : counter'[m] = counter[m] /\ counter[m] \in Nat
    BY <1>1, <2>1, CountOne
  <2>3. \A m : SharedIn(m) \in SUBSET DOMAIN passed
    BY DEF SharedIn
  <2>4. \A m : IsFiniteSet(SharedIn(m)) /\ Cardinality(SharedIn(m)) \in Nat
    BY <2>3, FiniteSets DEF BudgetInv
  <2>5. CASE UNCHANGED passed
    <3>1. \A m : SharedIn(m)' = SharedIn(m)
      BY <2>5 DEF SharedIn
    <3>2. BudgetTyped'
      BY <2>1, <2>2, <2>5 DEF BudgetInv, BudgetTyped
    <3>3. BucketHolds'
      BY <2>1, <2>5 DEF BudgetInv, BucketHolds, LocalSince
    <3>4. SharedIsCounted'
      BY <1>1, <2>2, <2>4, <3>1 DEF BudgetInv, SharedIsCounted
    <3> QED
      BY <3>2, <3>3, <3>4 DEF BudgetInv
  <2>6. CASE counter[now] + 1 <= Capacity /\ Admit(w, TRUE)
    <3> DEFINE last == Len(passed) + 1
    <3>1. /\ passed' \in Seq(PassageType) /\ DOMAIN passed' = DOMAIN passed \cup {last} /\ last \notin DOMAIN passed
          /\ passed'[last] = [at |-> tick, by |-> w, shared |-> TRUE]
          /\ \A i \in DOMAIN passed : passed'[i] = passed[i]
      BY <2>6, OneAdmitted DEF BudgetInv
    <3> HIDE DEF last
    <3>2. \A m : SharedIn(m)' = IF m = now THEN SharedIn(m) \cup {last} ELSE SharedIn(m)
      BY <3>1 DEF SharedIn
    <3>3. \A v, from : LocalSince(v, from)' = LocalSince(v, from)
      BY <3>1 DEF LocalSince
    <3>4. BudgetTyped'
      BY <2>1, <2>2, <3>1 DEF BudgetInv, BudgetTyped
    <3>5. BucketHolds'
      BY <2>1, <3>1, <3>3 DEF BudgetInv, BucketHolds
    <3>6. last \notin SharedIn(now)
      BY <2>3, <3>1
    <3>7. \A m : m = now => Cardinality(SharedIn(m)') = Cardinality(SharedIn(m)) + 1
      <4>1. Cardinality(SharedIn(now) \cup {last}) = Cardinality(SharedIn(now)) + 1
        BY <2>4, <3>6, FS_AddElement
      <4> QED
        BY <3>2, <4>1
    <3>8. SharedIsCounted'
      <4> SUFFICES ASSUME NEW m \in DOMAIN counter
                   PROVE  Cardinality(SharedIn(m)') <= counter'[m] /\ Cardinality(SharedIn(m)') <= Capacity
        BY <1>1, <2>2 DEF SharedIsCounted
      <4>1. Cardinality(SharedIn(m)) <= counter[m] /\ Cardinality(SharedIn(m)) <= Capacity
        BY DEF BudgetInv, SharedIsCounted
      <4>2. CASE m = now
        BY <2>2, <2>4, <2>6, <3>7, <4>1, <4>2
      <4>3. CASE m # now
        BY <2>2, <3>2, <4>1, <4>3
      <4> QED
        BY <4>2, <4>3
    <3> QED
      BY <3>4, <3>5, <3>8 DEF BudgetInv
  <2> QED
    BY <2>1, <2>5, <2>6
<1>5. ASSUME NEW w \in Replicas, AcquireLocal(w) \/ FallBack(w) PROVE BudgetInv'
  <2>1. TakeLocal(w) /\ tick' = tick /\ link' \in [Replicas -> LinkTypes]
    BY <1>5 DEF AcquireLocal, FallBack, BudgetInv, BudgetTyped, LinkTypes
  <2>2. /\ counter' \in [0..Minute(LastTick) -> Nat]
        /\ \A m \in DOMAIN counter : counter[m] \in Nat /\ counter[m] <= counter'[m]
    <3>1. CASE UNCHANGED counter
      <4>1. \A m \in DOMAIN counter : counter[m] \in Nat
        BY DEF BudgetInv, BudgetTyped
      <4> QED
        BY <3>1, <4>1 DEF BudgetInv, BudgetTyped
    <3>2. ASSUME NEW more \in {0, 1}, counter' = [counter EXCEPT ![Minute(tick)] = @ + more]
          PROVE  /\ counter' \in [0..Minute(LastTick) -> Nat]
                 /\ \A m \in DOMAIN counter : counter[m] \in Nat /\ counter[m] <= counter'[m]
      BY <1>1, <3>2, CountOne
    <3> QED
      BY <1>5, <3>1, <3>2 DEF AcquireLocal, FallBack
  <2>3. /\ bucket' \in [Replicas -> BucketType] /\ passed' \in Seq(PassageType) /\ BucketHolds'
        /\ \A m : SharedIn(m)' = SharedIn(m)
    BY <2>1, TakeHolds
  <2>4. \A m : Cardinality(SharedIn(m)) \in Nat
    <3>1. \A m : SharedIn(m) \in SUBSET DOMAIN passed
      BY DEF SharedIn
    <3> QED
      BY <3>1, FiniteSets DEF BudgetInv
  <2>5. SharedIsCounted'
    BY <1>1, <2>2, <2>3, <2>4 DEF BudgetInv, SharedIsCounted
  <2>6. BudgetTyped'
    BY <2>1, <2>2, <2>3 DEF BudgetInv, BudgetTyped
  <2> QED
    BY <2>3, <2>5, <2>6 DEF BudgetInv
<1>6. CASE UNCHANGED budgetVars
  BY <1>6 DEF budgetVars, BudgetInv, BudgetTyped, SharedIsCounted, SharedIn, BucketHolds, LocalSince
<1> QED
  BY <1>2, <1>3, <1>4, <1>5, <1>6 DEF BudgetNext

\* The invariant bounds what got through since any tick, also since the last one a bucket saw.
LEMMA BudgetFollows == BudgetInv => BudgetIsKept
<1> SUFFICES ASSUME BudgetInv PROVE BudgetIsKept
  OBVIOUS
<1> USE BudgetBounds
<1>1. \A m \in DOMAIN counter : PassedBy(LAMBDA p : p.shared /\ Minute(p.at) = m) <= Capacity
  BY DEF BudgetInv, SharedIsCounted, SharedIn, PassedBy
<1>2. ASSUME NEW w \in Replicas, NEW from \in 0..tick
      PROVE  Cardinality(LocalSince(w, from)) <= Capacity + (tick - from)
  <2>1. /\ bucket[w].seen \in Nat /\ bucket[w].seen <= tick /\ tick \in Nat
        /\ \A i \in DOMAIN passed : passed[i].at \in Nat
    BY BudgetFacts
  <2>2. CASE from <= bucket[w].seen
    <3>1. bucket[w].tokens \in Nat
      BY DEF BudgetInv, BudgetTyped, BucketType
    <3>2. LocalSince(w, from) \in SUBSET DOMAIN passed
      BY DEF LocalSince
    <3>3. Cardinality(LocalSince(w, from)) \in Nat
      BY <3>2, FiniteSets DEF BudgetInv
    <3>4. Cardinality(LocalSince(w, from)) + bucket[w].tokens <= Capacity + (bucket[w].seen - from)
      BY <1>2, <2>1, <2>2 DEF BudgetInv, BucketHolds
    <3> QED
      BY <1>2, <2>1, <3>1, <3>3, <3>4
  <2>3. CASE from > bucket[w].seen
    <3>1. LocalSince(w, from) = {}
      BY <1>2, <2>1, <2>3 DEF BudgetInv, BucketHolds, LocalSince
    <3> QED
      BY <1>2, <2>1, <3>1, FS_EmptySet
  <2> QED
    BY <1>2, <2>1, <2>2, <2>3
<1>3. \A w \in Replicas : \A from \in 0..tick :
        PassedBy(LAMBDA p : ~p.shared /\ p.by = w /\ p.at >= from) <= Capacity + (tick - from)
  BY <1>2 DEF LocalSince, PassedBy
<1> QED
  BY <1>1, <1>3 DEF BudgetIsKept

\* The inductive invariant of the budget.
THEOREM BudgetInductive == BudgetSpec => []BudgetInv
<1>1. BudgetInit => BudgetInv
  BY BudgetInitInv
<1>2. BudgetInv /\ [BudgetNext]_budgetVars => BudgetInv'
  BY BudgetNextInv
<1> QED
  BY <1>1, <1>2, PTL DEF BudgetSpec

(* However many replicas there are, and whenever Redis fails which of them: a minute lets
   through no more than the limit by the shared counter, and any span of ticks no more than
   a full bucket and its length by each replica (RateLimiter.acquire). *)
THEOREM BudgetKept == BudgetSpec => []BudgetIsKept
<1>1. BudgetInv => BudgetIsKept
  BY BudgetFollows
<1> QED
  BY <1>1, BudgetInductive, PTL

(* Both stages of the admission keep what they promise, for every number of requests, keys,
   replicas and ticks (get_principal, enforce_rate_limit). *)
THEOREM AdmissionSound == AdmissionSpec => AdmissionIsSound
  BY CallersCurrent, BudgetKept, PTL DEF AdmissionSpec, AdmissionIsSound

-----------------------------------------------------------------------------
(* The screening: what the detector keeps *)

\* What a recogniser may find in a text of n cells.
Match(n) == {m \in [by : DOMAIN Recognizers, from : 1..n, to : 1..n, score : Int] : m.from <= m.to}

\* The best first: two matches with the same certainty, length, place and recogniser are one.
LEMMA BetterTotal ==
    ASSUME NEW n \in Nat, NEW S \in SUBSET Match(n)
    PROVE  TotalOrder({p \in S \X S : Better(p[1], p[2])}, S)
<1>1. \A m \in S : /\ m.from \in Int /\ m.to \in Int /\ m.score \in Int /\ m.by \in Int
                   /\ m = [by |-> m.by, from |-> m.from, to |-> m.to, score |-> m.score]
  <2> SUFFICES ASSUME NEW m \in S
               PROVE  /\ m.from \in Int /\ m.to \in Int /\ m.score \in Int /\ m.by \in Int
                      /\ m = [by |-> m.by, from |-> m.from, to |-> m.to, score |-> m.score]
    OBVIOUS
  <2>1. m \in [by : DOMAIN Recognizers, from : 1..n, to : 1..n, score : Int]
    BY DEF Match
  <2>2. m.by \in Int
    BY <2>1, ScreenAssumption
  <2> QED
    BY <2>1, <2>2
<1>2. \A m \in S : ~Better(m, m)
  BY <1>1 DEF Better, Cost
<1>3. \A m, o \in S : m # o => Better(m, o) \/ Better(o, m)
  <2> SUFFICES ASSUME NEW m \in S, NEW o \in S, ~Better(m, o), ~Better(o, m) PROVE m = o
    OBVIOUS
  <2>1. m.score = o.score /\ Cost(m) = Cost(o) /\ m.from = o.from /\ m.by = o.by
    BY <1>1 DEF Better, Cost
  <2>2. m.to = o.to
    BY <1>1, <2>1 DEF Cost
  <2> QED
    BY <1>1, <2>1, <2>2
<1>4. \A m, o, q \in S : Better(m, o) /\ Better(o, q) => Better(m, q)
  <2> SUFFICES ASSUME NEW m \in S, NEW o \in S, NEW q \in S, Better(m, o), Better(o, q) PROVE Better(m, q)
    OBVIOUS
  <2>1. PICK a \in Int, b \in Int, c \in Int : a = Cost(m) /\ b = Cost(o) /\ c = Cost(q)
    BY <1>1 DEF Cost
  <2> QED
    BY <1>1, <2>1 DEF Better
<1> QED
  BY <1>2, <1>3, <1>4 DEF TotalOrder

\* No two of them share a cell.
Apart(F) == \A m, o \in F : m # o => ~Overlap(m, o)

\* What is kept shares no cell; what is not is crossed by something better that is.
LEMMA UnoverlappedFacts ==
    ASSUME NEW n \in Nat, NEW S \in SUBSET Match(n), IsFiniteSet(S)
    PROVE  /\ Unoverlapped(S) \in SUBSET S /\ Apart(Unoverlapped(S))
           /\ \A m \in S : m \in Unoverlapped(S) \/ \E o \in Unoverlapped(S) : Overlap(m, o) /\ Better(o, m)
<1> DEFINE R == {p \in S \X S : Better(p[1], p[2])}
           size == Cardinality(S)
           q == Ranked(S)
           Turn(v, k) == IF \E o \in v : Overlap(q[k], o) THEN v ELSE v \cup {q[k]}
           V == SUBSET S
           step == [i \in 1..size |-> [v \in V |-> Turn(v, i)]]
           Level(f) == f = [k \in 0..size |-> IF k = 0 THEN {}
                                ELSE LET m == q[k]
                                         others == f[k - 1]
                                     IN  IF \E o \in others : Overlap(m, o) THEN others ELSE others \cup {m}]
           r == CHOOSE f : Level(f)
<1>1. size \in Nat /\ Lists(q, S, R)
  BY BetterTotal, SortedFacts DEF Ranked
<1>2. \A k \in 1..size : q[k] \in S
  BY <1>1 DEF Lists
<1>3. ASSUME NEW v \in V, NEW k \in 1..size PROVE Turn(v, k) \in V
  BY <1>2
<1>4. step \in StepsOf(size, V) /\ \A i \in 1..size, v \in V : step[i][v] = Turn(v, i)
  BY <1>3 DEF StepsOf
<1>5. Unoverlapped(S) = r[size]
  BY Zenon DEF Unoverlapped
<1>s. size = Cardinality(S)
  OBVIOUS
<1> HIDE DEF size, V, step, q, R
<1>9. PICK f \in [0..size -> V] : f[0] = {} /\ \A i \in 1..size : f[i] = step[i][f[i - 1]]
  <2>1. PICK b \in V : b = {}
    BY DEF V
  <2>2. \E f \in [0..size -> V] : f[0] = b /\ \A i \in 1..size : f[i] = step[i][f[i - 1]]
    BY <1>1, <1>4, <2>1, Recursion, Z3
  <2> QED
    BY <2>1, <2>2
<1>10. Level(f)
  <2>1. ASSUME NEW k \in 0..size PROVE f[k] = IF k = 0 THEN {} ELSE Turn(f[k - 1], k)
    <3>1. CASE k = 0
      BY <1>9, <3>1
    <3>2. CASE k \in 1..size
      <4>1. k - 1 \in 0..size /\ k # 0
        BY <1>1, <3>2
      <4>2. f[k - 1] \in V
        BY <1>9, <4>1
      <4> HIDE DEF Turn
      <4>3. f[k] = Turn(f[k - 1], k)
        BY <1>4, <1>9, <3>2, <4>2
      <4> QED
        BY <4>1, <4>3
    <3> QED
      BY <1>1, <3>1, <3>2
  <2>2. f = [k \in 0..size |-> f[k]]
    BY <1>9
  <2> QED
    BY <2>1, <2>2
<1>11. Level(r)
  <2> HIDE DEF Level
  <2> QED
    BY <1>10
<1>12. \A k \in 0..size : r[k] = IF k = 0 THEN {} ELSE Turn(r[k - 1], k)
  <2> HIDE DEF r
  <2> QED
    BY <1>11
<1> HIDE DEF r, Level, Turn
<1> DEFINE Done(k) ==
             /\ r[k] \in SUBSET {q[j] : j \in 1..k} /\ Apart(r[k])
             /\ \A j \in 1..k : q[j] \in r[k] \/ \E l \in 1..k : l < j /\ q[l] \in r[k] /\ Overlap(q[j], q[l])
           T == {k \in Nat : k <= size => Done(k)}
<1>13. 0 \in T
  <2>1. 0 \in 0..size
    BY <1>1
  <2>2. r[0] = {}
    BY <1>12, <2>1
  <2> QED
    BY <2>2 DEF Apart
<1> HIDE DEF Done
<1>14. ASSUME NEW k \in T PROVE k + 1 \in T
  <2> SUFFICES ASSUME k + 1 <= size PROVE Done(k + 1)
    BY <1>14
  <2>1. k \in Nat /\ k <= size /\ k + 1 \in 0..size /\ k + 1 # 0 /\ k + 1 - 1 = k
    BY <1>1
  <2>2. Done(k)
    BY <1>14, <2>1
  <2>3. r[k + 1] = Turn(r[k], k + 1)
    BY <1>12, <2>1
  <2>4. PICK v, x : v = r[k] /\ x = q[k + 1]
    OBVIOUS
  <2>5. /\ v \in SUBSET {q[j] : j \in 1..k} /\ Apart(v)
        /\ \A j \in 1..k : q[j] \in v \/ \E l \in 1..k : l < j /\ q[l] \in v /\ Overlap(q[j], q[l])
    BY <2>2, <2>4 DEF Done
  <2>6. 1..k + 1 = 1..k \cup {k + 1}
    BY <2>1
  <2>7. CASE \E o \in v : Overlap(x, o)
    <3>1. r[k + 1] = v
      BY <2>3, <2>4, <2>7 DEF Turn
    <3>2. PICK l \in 1..k : q[l] \in v /\ Overlap(x, q[l])
      BY <2>5, <2>7
    <3>3. l < k + 1
      BY <2>1
    <3> QED
      BY <2>4, <2>5, <2>6, <3>1, <3>2, <3>3 DEF Done
  <2>8. CASE ~\E o \in v : Overlap(x, o)
    <3>1. r[k + 1] = v \cup {x}
      BY <2>3, <2>4, <2>8 DEF Turn
    <3>2. \A m, o \in v \cup {x} : Overlap(m, o) => Overlap(o, m)
      BY DEF Overlap
    <3>3. Apart(v \cup {x})
      BY <2>5, <2>8, <3>2 DEF Apart
    <3> QED
      BY <2>4, <2>5, <2>6, <3>1, <3>3, SMTT(25) DEF Done
  <2> QED
    BY <2>7, <2>8
<1> HIDE DEF T
<1>15. T = Nat
  <2>1. T \in SUBSET Nat
    BY DEF T
  <2> QED
    BY <1>13, <1>14, <2>1, SetInduction
<1>16. Done(size)
  BY <1>1, <1>15 DEF T
<1>17. PICK u : u = Unoverlapped(S)
  OBVIOUS
<1>18. /\ u \in SUBSET {q[j] : j \in 1..size} /\ Apart(u)
       /\ \A j \in 1..size : q[j] \in u \/ \E l \in 1..size : l < j /\ q[l] \in u /\ Overlap(q[j], q[l])
  BY <1>5, <1>16, <1>17 DEF Done
<1>19. \A j, l \in 1..size : l < j => Better(q[l], q[j])
  <2> SUFFICES ASSUME NEW j \in 1..size, NEW l \in 1..size, l < j PROVE Better(q[l], q[j])
    OBVIOUS
  <2>1. <<q[l], q[j]>> \in R
    BY <1>1, <1>s DEF Lists
  <2> QED
    BY <2>1 DEF R
<1>20. ASSUME NEW m \in S PROVE m \in u \/ \E o \in u : Overlap(m, o) /\ Better(o, m)
  <2>1. PICK j \in 1..size : q[j] = m
    BY <1>1, <1>s DEF Lists
  <2> QED
    BY <1>18, <1>19, <2>1
<1> QED
  BY <1>2, <1>17, <1>18, <1>20

-----------------------------------------------------------------------------
(* What a redaction does to one span *)

\* The cells of a span that its replacement does not show.
Hidden(m, how) ==
    {c \in m.from..m.to : how = "partial" /\ 0 < KeepChars /\ KeepChars < Cost(m) => c <= m.to - KeepChars}

\* A piece of a redacted text that shows the cells of M, in their order, and no other.
Piece(b, M) ==
    /\ b \in Seq(Int)
    /\ \A j \in 1..Len(b) : b[j] <= 0 \/ b[j] \in M
    /\ \A c \in M : \E j \in 1..Len(b) : b[j] = c
    /\ \A i, j \in 1..Len(b) : i < j /\ b[i] > 0 /\ b[j] > 0 => b[i] < b[j]

\* What stands for a span: its last cells in a partial redaction, in order, and no other.
LEMMA StandsFacts ==
    ASSUME NEW n \in Nat, NEW m \in Match(n), NEW how, NEW b, b = Stands(m, how)
    PROVE  Piece(b, (m.from..m.to) \ Hidden(m, how))
<1>1. m.from \in Int /\ m.to \in Int /\ m.from <= m.to /\ m.from >= 1 /\ m.by \in Int /\ m.by >= 1
  <2>1. m \in [by : DOMAIN Recognizers, from : 1..n, to : 1..n, score : Int]
    BY DEF Match
  <2>2. DOMAIN Recognizers = 1..Len(Recognizers)
    BY ScreenAssumption
  <2>3. Len(Recognizers) \in Nat
    BY ScreenAssumption
  <2> QED
    BY <2>1, <2>2, <2>3 DEF Match
<1>2. KeepChars \in Nat
  BY ScreenAssumption
<1>3. b = Stands(m, how)
  OBVIOUS
<1>4. CASE how # "partial"
  <2>1. b = <<-m.by>>
    BY <1>3, <1>4 DEF Stands
  <2>2. Hidden(m, how) = m.from..m.to
    BY <1>4 DEF Hidden
  <2>3. b \in Seq(Int) /\ Len(b) = 1 /\ b[1] = -m.by
    BY <1>1, <2>1
  <2>4. b[1] <= 0
    BY <1>1, <2>3
  <2> QED
    BY <1>3, <2>2, <2>3, <2>4 DEF Piece
<1>5. CASE how = "partial"
  <2>1. PICK d \in Nat : d = Cost(m)
    BY <1>1 DEF Cost
  <2>2. b = [i \in 1..d |-> IF i > d - KeepChars /\ 0 < KeepChars /\ KeepChars < d THEN m.from + i - 1 ELSE 0]
    BY <1>3, <1>5, <2>1 DEF Stands
  <2>3. b \in Seq(Int) /\ Len(b) = d
    <3>1. \A i \in 1..d : (IF i > d - KeepChars /\ 0 < KeepChars /\ KeepChars < d THEN m.from + i - 1 ELSE 0) \in Int
      BY <1>1, <1>2
    <3>2. b \in [1..d -> Int]
      BY <2>2, <3>1
    <3> QED
      BY <3>2
  <2>4. \A i \in 1..d : b[i] = IF i > d - KeepChars /\ 0 < KeepChars /\ KeepChars < d THEN m.from + i - 1 ELSE 0
    BY <2>2
  <2>5. m.to = m.from + d - 1
    BY <1>1, <2>1 DEF Cost
  <2>6. Hidden(m, how) = {c \in m.from..m.to : 0 < KeepChars /\ KeepChars < d => c <= m.to - KeepChars}
    BY <1>5, <2>1 DEF Hidden
  <2>7. \A j \in 1..d : b[j] <= 0 \/ b[j] \in (m.from..m.to) \ Hidden(m, how)
    BY <1>1, <1>2, <2>4, <2>5, <2>6
  <2>8. \A c \in (m.from..m.to) \ Hidden(m, how) : \E j \in 1..d : b[j] = c
    <3> SUFFICES ASSUME NEW c \in m.from..m.to, 0 < KeepChars, KeepChars < d, c > m.to - KeepChars
                 PROVE  \E j \in 1..d : b[j] = c
      BY <1>1, <1>2, <2>6
    <3>1. PICK j \in Int : j = c - m.from + 1
      BY <1>1
    <3>2. j \in 1..d /\ j > d - KeepChars /\ m.from + j - 1 = c
      BY <1>1, <1>2, <2>5, <3>1
    <3> QED
      BY <2>4, <3>2
  <2>9. \A i, j \in 1..d : i < j /\ b[i] > 0 /\ b[j] > 0 => b[i] < b[j]
    BY <1>1, <1>2, <2>4
  <2> QED
    BY <1>3, <2>3, <2>7, <2>8, <2>9 DEF Piece
<1> QED
  BY <1>4, <1>5

(* A text redacted down to l: up to there it is itself, beyond it shows the cells of K, in
   their order, and no other. *)
RedactedTo(text, l, n, K) ==
    /\ text \in Seq(Int) /\ l \in 0..n /\ l <= Len(text) /\ K \in SUBSET (l + 1..n)
    /\ \A i \in 1..l : text[i] = i
    /\ \A i \in l + 1..Len(text) : text[i] <= 0 \/ text[i] \in K
    /\ \A c \in K : \E i \in l + 1..Len(text) : text[i] = c
    /\ \A i, j \in l + 1..Len(text) : i < j /\ text[i] > 0 /\ text[j] > 0 => text[i] < text[j]

\* Three pieces joined, cell by cell.
LEMMA ThreeJoined ==
    ASSUME NEW V, NEW a \in Seq(V), NEW b \in Seq(V), NEW c \in Seq(V), NEW r, r = a \o b \o c,
           NEW p \in Nat, NEW d \in Nat, NEW q \in Nat, p = Len(a), d = Len(b), q = Len(c)
    PROVE  /\ r \in Seq(V) /\ Len(r) = p + d + q
           /\ \A i \in 1..p : r[i] = a[i]
           /\ \A j \in 1..d : r[p + j] = b[j]
           /\ \A j \in 1..q : r[p + d + j] = c[j]
<1>1. p = Len(a) /\ d = Len(b) /\ q = Len(c)
  OBVIOUS
<1>2. PICK ab : ab = a \o b
  OBVIOUS
<1>3. ab \in Seq(V) /\ Len(ab) = p + d
  BY <1>1, <1>2
<1>4. \A i \in 1..p : ab[i] = a[i]
  BY <1>1, <1>2
<1>5. \A j \in 1..d : ab[p + j] = b[j]
  BY <1>1, <1>2
<1>6. r = ab \o c
  BY <1>2
<1>7. r \in Seq(V) /\ Len(r) = p + d + q
  <2>1. c \in Seq(V) /\ Len(c) = q
    BY <1>1
  <2>2. r \in Seq(V) /\ Len(r) = Len(ab) + Len(c)
    BY <1>3, <1>6, <2>1, ConcatProperties
  <2> QED
    BY <1>3, <2>1, <2>2
<1>8. \A i \in 1..p + d : r[i] = ab[i]
  BY <1>1, <1>3, <1>6
<1>9. \A j \in 1..q : r[p + d + j] = c[j]
  BY <1>1, <1>3, <1>6, SMTT(25)
<1>10. (\A i \in 1..p : i \in 1..p + d) /\ \A j \in 1..d : p + j \in 1..p + d
  BY <1>1
<1> QED
  BY <1>1, <1>2, <1>4, <1>5, <1>6, <1>7, <1>8, <1>9, <1>10

\* A text with a piece in the place of the cells from one place to another.
Splice(text, from, to, b) == SubSeq(text, 1, from - 1) \o b \o SubSeq(text, to + 1, Len(text))

\* A piece put in the place of a span, to the left of those that were replaced.
LEMMA Spliced ==
    ASSUME NEW n \in Nat, NEW from \in 1..n, NEW to \in from..n, NEW l \in to..n, NEW K, NEW text,
           RedactedTo(text, l, n, K), NEW M \in SUBSET (from..to), NEW b, Piece(b, M),
           NEW r, r = Splice(text, from, to, b)
    PROVE  RedactedTo(r, from - 1, n, K \cup (to + 1..l) \cup M)
<1>1. from \in Int /\ to \in Int /\ from <= to /\ from >= 1 /\ to <= n /\ to <= l
  OBVIOUS
<1>2. PICK size \in Nat : size = Len(text)
  BY DEF RedactedTo
<1>3. PICK p \in Nat, q \in Nat : p = from - 1 /\ q = size - to
  <2>1. l \in Int /\ l <= size
    BY <1>2 DEF RedactedTo
  <2>2. from - 1 \in Nat /\ size - to \in Nat
    BY <1>1, <1>2, <2>1
  <2> QED
    BY <2>2
<1>4. PICK a, c : a = SubSeq(text, 1, p) /\ c = SubSeq(text, to + 1, size)
  OBVIOUS
<1>5. text \in Seq(Int) /\ l \in Nat /\ l <= size /\ l <= n /\ K \in SUBSET (l + 1..n)
  BY <1>2 DEF RedactedTo
<1>6. a \in Seq(Int) /\ Len(a) = p /\ \A i \in 1..p : a[i] = text[i]
  <2>1. p <= size
    BY <1>1, <1>3, <1>5
  <2>2. \A i \in 1..p : text[i] \in Int
    BY <1>2, <1>5, <2>1
  <2> QED
    BY <1>4, <2>2, SubSeqProperties
<1>7. c \in Seq(Int) /\ Len(c) = q /\ \A j \in 1..q : c[j] = text[to + j]
  <2>1. PICK t \in Int : t = to + 1
    BY <1>1
  <2>2. size - t + 1 = q /\ t >= 1 /\ c = SubSeq(text, t, size) /\ to = t - 1
    <3>1. c = SubSeq(text, t, size)
      BY <1>4, <2>1
    <3>2. PICK e \in Int : e = to
      BY <1>1
    <3>3. e >= 1 /\ t = e + 1 /\ q = size - e
      BY <1>1, <1>3, <2>1, <3>2
    <3> QED
      BY <1>2, <3>1, <3>2, <3>3
  <2>3. \A i \in t..size : text[i] \in Int
    BY <1>2, <1>5, <2>2
  <2>4. /\ c \in Seq(Int) /\ Len(c) = IF t <= size THEN size - t + 1 ELSE 0
        /\ \A i \in 1..size - t + 1 : c[i] = text[t + i - 1]
    BY <2>2, <2>3, SubSeqProperties
  <2>5. Len(c) = q
    BY <2>2, <2>4
  <2>6. \A i \in 1..q : t + i - 1 = to + i
    BY <2>1, <2>2
  <2> QED
    BY <2>2, <2>4, <2>5, <2>6
<1>8. /\ b \in Seq(Int)
      /\ \A j \in 1..Len(b) : b[j] <= 0 \/ b[j] \in M
      /\ \A x \in M : \E j \in 1..Len(b) : b[j] = x
      /\ \A i, j \in 1..Len(b) : i < j /\ b[i] > 0 /\ b[j] > 0 => b[i] < b[j]
  BY DEF Piece
<1>9. PICK d \in Nat : d = Len(b)
  BY <1>8
<1>10. r = a \o b \o c
  BY <1>2, <1>3, <1>4 DEF Splice
<1>12. /\ r \in Seq(Int) /\ Len(r) = p + d + q
       /\ \A i \in 1..p : r[i] = a[i]
       /\ \A j \in 1..d : r[p + j] = b[j]
       /\ \A j \in 1..q : r[p + d + j] = c[j]
  <2>1. a \in Seq(Int) /\ b \in Seq(Int) /\ c \in Seq(Int) /\ p = Len(a) /\ d = Len(b) /\ q = Len(c)
    BY <1>6, <1>7, <1>8, <1>9
  <2> QED
    BY <1>10, <2>1, ThreeJoined
<1>13. M \in SUBSET (from..to) /\ \A x \in M : x \in Int /\ from <= x /\ x <= to
  BY <1>1
<1>14. /\ \A i \in 1..l : text[i] = i
       /\ \A i \in l + 1..size : text[i] <= 0 \/ text[i] \in K
       /\ \A x \in K : \E i \in l + 1..size : text[i] = x
       /\ \A i, j \in l + 1..size : i < j /\ text[i] > 0 /\ text[j] > 0 => text[i] < text[j]
  BY <1>2 DEF RedactedTo
<1>15. \A i \in 1..p : r[i] = i
  <2>1. \A i \in 1..p : i \in 1..l
    BY <1>1, <1>3, <1>5
  <2> QED
    BY <1>6, <1>12, <1>14, <2>1
\* The places beyond p are those of b and those of c.
<1>16. \A i \in p + 1..p + d + q : \/ i - p \in 1..d /\ r[i] = b[i - p]
                                   \/ i - p - d \in 1..q /\ r[i] = text[to + (i - p - d)]
  <2> SUFFICES ASSUME NEW i \in p + 1..p + d + q
               PROVE  \/ i - p \in 1..d /\ r[i] = b[i - p]
                      \/ i - p - d \in 1..q /\ r[i] = text[to + (i - p - d)]
    OBVIOUS
  <2>1. CASE i - p \in 1..d
    <3>1. i = p + (i - p)
      BY <2>1
    <3> QED
      BY <1>12, <2>1, <3>1
  <2>2. CASE i - p - d \in 1..q
    <3>1. i = p + d + (i - p - d)
      BY <2>2
    <3> QED
      BY <1>7, <1>12, <2>2, <3>1
  <2>3. i - p \in 1..d \/ i - p - d \in 1..q
    OBVIOUS
  <2> QED
    BY <2>1, <2>2, <2>3
\* What c shows: the cells after the span that are still themselves, and then those of K.
<1>17. \A j \in 1..q : \/ to + j \in to + 1..l /\ text[to + j] = to + j
                       \/ to + j \in l + 1..size /\ (text[to + j] <= 0 \/ text[to + j] \in K)
  <2> SUFFICES ASSUME NEW j \in 1..q
               PROVE  \/ to + j \in to + 1..l /\ text[to + j] = to + j
                      \/ to + j \in l + 1..size /\ (text[to + j] <= 0 \/ text[to + j] \in K)
    OBVIOUS
  <2>1. to + j \in to + 1..l \/ to + j \in l + 1..size
    <3>1. PICK t \in Int, g \in Int : t = to /\ g = to + j
      BY <1>1
    <3>2. t + 1 <= g /\ g <= size
      BY <1>2, <1>3, <3>1
    <3> QED
      BY <1>2, <1>5, <3>1, <3>2
  <2>2. to + j \in to + 1..l => to + j \in 1..l
    BY <1>1, <1>5
  <2> QED
    BY <1>14, <2>1, <2>2
<1> DEFINE N == K \cup (to + 1..l) \cup M
<1>18. N \in SUBSET (p + 1..n)
  <2>1. \A x \in K : x \in p + 1..n
    BY <1>1, <1>3, <1>5
  <2>2. \A x \in to + 1..l : x \in p + 1..n
    BY <1>1, <1>3, <1>5
  <2>3. \A x \in M : x \in p + 1..n
    BY <1>1, <1>3, <1>13
  <2> QED
    BY <2>1, <2>2, <2>3
<1>19. \A i \in p + 1..p + d + q : r[i] <= 0 \/ r[i] \in N
  <2> SUFFICES ASSUME NEW i \in p + 1..p + d + q PROVE r[i] <= 0 \/ r[i] \in N
    OBVIOUS
  <2>1. CASE i - p \in 1..d /\ r[i] = b[i - p]
    BY <1>8, <1>9, <2>1
  <2>2. CASE i - p - d \in 1..q /\ r[i] = text[to + (i - p - d)]
    BY <1>17, <2>2
  <2> QED
    BY <1>16, <2>1, <2>2
<1>20. ASSUME NEW x \in N PROVE \E i \in p + 1..p + d + q : r[i] = x
  <2>1. CASE x \in M
    <3>1. PICK j \in 1..d : b[j] = x
      BY <1>8, <1>9, <2>1
    <3>2. p + j \in p + 1..p + d + q
      OBVIOUS
    <3> QED
      BY <1>12, <3>1, <3>2
  <2>2. ASSUME NEW i \in to + 1..size, text[i] = x PROVE \E k \in p + 1..p + d + q : r[k] = x
    <3>1. PICK j \in 1..q : i = to + j
      <4>1. i - to \in 1..q /\ i = to + (i - to)
        BY <1>1, <1>2, <1>3
      <4> QED
        BY <4>1
    <3>2. p + d + j \in p + 1..p + d + q
      OBVIOUS
    <3> QED
      BY <1>7, <1>12, <2>2, <3>1, <3>2
  <2>3. CASE x \in to + 1..l
    <3>1. x \in 1..l /\ x \in to + 1..size
      BY <1>1, <1>2, <1>5, <2>3
    <3> QED
      BY <1>14, <2>2, <3>1
  <2>4. CASE x \in K
    <3>1. PICK i \in l + 1..size : text[i] = x
      BY <1>14, <2>4
    <3>2. i \in to + 1..size
      BY <1>1, <1>2, <1>5
    <3> QED
      BY <2>2, <3>1, <3>2
  <2> QED
    BY <2>1, <2>3, <2>4
\* What c shows lies beyond the span, and in order.
<1>21. \A j \in 1..q : text[to + j] <= 0 \/ text[to + j] > to
  <2> SUFFICES ASSUME NEW j \in 1..q PROVE text[to + j] <= 0 \/ text[to + j] > to
    OBVIOUS
  <2>1. to + j > to
    BY <1>1
  <2>2. \A x \in K : x > to
    BY <1>1, <1>5
  <2> QED
    BY <1>17, <2>1, <2>2
<1>22. \A i, j \in 1..q : i < j /\ text[to + i] > 0 /\ text[to + j] > 0 => text[to + i] < text[to + j]
  <2> SUFFICES ASSUME NEW i \in 1..q, NEW j \in 1..q, i < j, text[to + i] > 0, text[to + j] > 0
               PROVE  text[to + i] < text[to + j]
    OBVIOUS
  <2>1. PICK g \in Int, h \in Int : g = to + i /\ h = to + j
    BY <1>1
  <2>2. g < h
    BY <1>1, <2>1
  <2>3. \/ g \in to + 1..l /\ text[g] = g
        \/ g \in l + 1..size /\ (text[g] <= 0 \/ text[g] \in K)
    BY <1>17, <2>1
  <2>4. \/ h \in to + 1..l /\ text[h] = h
        \/ h \in l + 1..size /\ (text[h] <= 0 \/ text[h] \in K)
    BY <1>17, <2>1
  <2>5. text[g] \in Int /\ text[h] \in Int
    BY <1>1, <1>2, <1>5, <2>3, <2>4
  <2>6. text[g] > 0 /\ text[h] > 0
    BY <2>1
  <2>7. CASE g \in to + 1..l /\ text[g] = g
    <3>1. CASE h \in to + 1..l /\ text[h] = h
      BY <2>1, <2>2, <2>7, <3>1
    <3>2. CASE h \in l + 1..size /\ (text[h] <= 0 \/ text[h] \in K)
      <4>1. text[h] \in l + 1..n
        BY <1>5, <2>5, <2>6, <3>2, SMTT(25)
      <4> QED
        BY <1>1, <1>5, <2>1, <2>7, <4>1
    <3> QED
      BY <2>4, <3>1, <3>2
  <2>8. CASE g \in l + 1..size
    <3>1. h \in l + 1..size
      BY <1>1, <1>2, <1>5, <2>2, <2>4, <2>8
    <3> QED
      BY <1>14, <2>1, <2>2, <2>6, <2>8, <3>1
  <2> QED
    BY <2>3, <2>7, <2>8
<1>23. ASSUME NEW i \in p + 1..p + d + q, NEW j \in p + 1..p + d + q, i < j, r[i] > 0, r[j] > 0
       PROVE  r[i] < r[j]
  <2>1. CASE i - p \in 1..d /\ r[i] = b[i - p]
    <3>1. r[i] \in M
      <4>1. b[i - p] \in Int /\ b[i - p] > 0
        BY <1>8, <1>9, <1>23, <2>1
      <4> QED
        BY <1>8, <1>9, <2>1, <4>1
    <3>2. CASE j - p \in 1..d /\ r[j] = b[j - p]
      <4>1. i - p < j - p
        BY <1>23
      <4> QED
        BY <1>8, <1>9, <1>23, <2>1, <3>2, <4>1
    <3>3. CASE j - p - d \in 1..q /\ r[j] = text[to + (j - p - d)]
      <4>1. r[j] > to /\ r[j] \in Int
        <5>1. j \in 1..Len(r)
          BY <1>12
        <5>2. r[j] \in Int
          BY <1>12, <5>1
        <5>3. r[j] <= 0 \/ r[j] > to
          BY <1>21, <3>3
        <5> QED
          BY <1>1, <1>23, <5>2, <5>3
      <4>2. r[i] \in Int /\ r[i] <= to
        BY <1>13, <3>1
      <4> QED
        BY <1>1, <4>1, <4>2
    <3> QED
      BY <1>16, <3>2, <3>3
  <2>2. CASE i - p - d \in 1..q /\ r[i] = text[to + (i - p - d)]
    <3>1. j - p \notin 1..d
      BY <1>23, <2>2
    <3>2. j - p - d \in 1..q /\ r[j] = text[to + (j - p - d)]
      BY <1>16, <3>1
    <3>3. i - p - d < j - p - d
      BY <1>23
    <3> QED
      BY <1>22, <1>23, <2>2, <3>2, <3>3
  <2> QED
    BY <1>16, <2>1, <2>2
<1>24. p \in 0..n /\ p <= Len(r) /\ p = from - 1
  <2>1. p <= n
    BY <1>1, <1>3
  <2>2. p <= p + d + q
    OBVIOUS
  <2> QED
    BY <1>3, <1>12, <2>1, <2>2
<1> HIDE DEF N
<1>25. RedactedTo(r, p, n, N)
  <2>1. /\ r \in Seq(Int) /\ p \in 0..n /\ p <= Len(r) /\ N \in SUBSET (p + 1..n)
        /\ \A i \in 1..p : r[i] = i
    BY <1>12, <1>15, <1>18, <1>24
  <2>2. \A i \in p + 1..Len(r) : r[i] <= 0 \/ r[i] \in N
    BY <1>12, <1>19
  <2>3. \A x \in N : \E i \in p + 1..Len(r) : r[i] = x
    BY <1>12, <1>20
  <2>4. \A i, j \in p + 1..Len(r) : i < j /\ r[i] > 0 /\ r[j] > 0 => r[i] < r[j]
    BY <1>12, <1>23
  <2> QED
    BY <2>1, <2>2, <2>3, <2>4 DEF RedactedTo
<1> QED
  BY <1>24, <1>25 DEF N

\* One span more, to the left of those that were replaced.
LEMMA ReplacedFacts ==
    ASSUME NEW n \in Nat, NEW m \in Match(n), NEW how, NEW l, NEW K, NEW text,
           RedactedTo(text, l, n, K), m.to <= l
    PROVE  RedactedTo(Replaced(text, m, how), m.from - 1, n,
                      K \cup (m.to + 1..l) \cup ((m.from..m.to) \ Hidden(m, how)))
<1>1. m \in [by : DOMAIN Recognizers, from : 1..n, to : 1..n, score : Int] /\ m.from <= m.to
  BY DEF Match
<1>2. l \in Int /\ l <= n
  BY DEF RedactedTo
<1>3. PICK from, to, M : from = m.from /\ to = m.to /\ M = (m.from..m.to) \ Hidden(m, how)
  OBVIOUS
<1>4. from \in 1..n /\ to \in from..n /\ l \in to..n
  BY <1>1, <1>2, <1>3
<1>5. M \in SUBSET (from..to)
  BY <1>3
<1>6. PICK b, r : b = Stands(m, how) /\ r = Replaced(text, m, how)
  OBVIOUS
<1>7. Piece(b, M)
  BY <1>3, <1>6, StandsFacts
<1>8. r = Splice(text, from, to, b)
  BY <1>3, <1>6 DEF Replaced, Splice
<1>9. RedactedTo(r, from - 1, n, K \cup (to + 1..l) \cup M)
  BY <1>4, <1>5, <1>7, <1>8, Spliced
<1> QED
  BY <1>3, <1>6, <1>9

-----------------------------------------------------------------------------
(* What it does to all of them, from right to left *)

\* Spans that share no cell, the last first, are in a total order.
LEMMA FromRightTotal ==
    ASSUME NEW n \in Nat, NEW F \in SUBSET Match(n), Apart(F)
    PROVE  /\ TotalOrder(FromRight(F), F)
           /\ \A m, o \in F : m.from > o.from => o.to < m.from
<1>1. \A m \in F : m.from \in Int /\ m.to \in Int /\ m.from <= m.to
  <2> SUFFICES ASSUME NEW m \in F PROVE m.from \in Int /\ m.to \in Int /\ m.from <= m.to
    OBVIOUS
  <2>1. m \in [by : DOMAIN Recognizers, from : 1..n, to : 1..n, score : Int]
    BY DEF Match
  <2> QED
    BY <2>1 DEF Match
<1>2. \A m, o \in F : m # o => m.from > o.from \/ o.from > m.from
  BY <1>1 DEF Apart, Overlap
<1>3. \A m, o \in F : m.from > o.from => o.to < m.from
  <2> SUFFICES ASSUME NEW m \in F, NEW o \in F, m.from > o.from PROVE o.to < m.from
    OBVIOUS
  <2>1. m # o /\ ~Overlap(o, m)
    BY <1>1 DEF Apart
  <2> QED
    BY <1>1, <2>1 DEF Overlap
<1>4. \A m, o, q \in F : m.from > o.from /\ o.from > q.from => m.from > q.from
  BY <1>1
<1>5. \A m \in F : ~(m.from > m.from)
  BY <1>1
<1> QED
  BY <1>2, <1>3, <1>4, <1>5 DEF TotalOrder, FromRight


\* Where the text is itself once k spans are replaced, and what it shows beyond.
Edge(q, k, n)        == IF k = 0 THEN n ELSE q[k].from - 1
Beyond(q, k, n, how) == (Edge(q, k, n) + 1..n) \ UNION {Hidden(q[j], how) : j \in 1..k}

\* Whatever replaces the spans one after the other does so from right to left.
LEMMA ChainFacts ==
    ASSUME NEW n \in Nat, NEW F \in SUBSET Match(n), Apart(F), NEW q \in Seq(F), NEW how, NEW g,
           \A k, l \in 1..Len(q) : k < l => q[k].from > q[l].from,
           g[0] \in Seq(Int), Len(g[0]) = n, \A i \in 1..n : g[0][i] = i,
           \A k \in 1..Len(q) : Replaced(g[k - 1], q[k], how) \in Seq(Int)
                                    => g[k] = Replaced(g[k - 1], q[k], how)
    PROVE  \A k \in 0..Len(q) : RedactedTo(g[k], Edge(q, k, n), n, Beyond(q, k, n, how))
<1>1. PICK size \in Nat : size = Len(q) /\ DOMAIN q = 1..size
  OBVIOUS
<1>2. \A k \in 1..size : q[k] \in F /\ q[k] \in Match(n)
  BY <1>1
<1>3. \A k \in 1..size : q[k].from \in Int /\ q[k].to \in Int /\ q[k].from >= 1 /\ q[k].to <= n
  <2> SUFFICES ASSUME NEW m \in Match(n) PROVE m.from \in Int /\ m.to \in Int /\ m.from >= 1 /\ m.to <= n
    BY <1>2
  <2>1. m \in [by : DOMAIN Recognizers, from : 1..n, to : 1..n, score : Int]
    BY DEF Match
  <2> QED
    BY <2>1
<1>4. \A k, l \in 1..size : k < l => q[l].to < q[k].from
  BY <1>1, <1>2, FromRightTotal
<1> DEFINE Done(k) == RedactedTo(g[k], Edge(q, k, n), n, Beyond(q, k, n, how))
           T == {k \in Nat : k <= size => Done(k)}
<1>5. 0 \in T
  <2>1. Edge(q, 0, n) = n /\ Beyond(q, 0, n, how) = {}
    BY DEF Edge, Beyond
  <2>2. n + 1..n = {} /\ n \in 0..n
    OBVIOUS
  <2> QED
    BY <2>1, <2>2 DEF RedactedTo
<1> HIDE DEF Done
<1>6. ASSUME NEW k \in T PROVE k + 1 \in T
  <2> SUFFICES ASSUME k + 1 <= size PROVE Done(k + 1)
    BY <1>6
  <2>1. k \in Nat /\ k <= size /\ k + 1 \in 1..size /\ k + 1 # 0 /\ k + 1 - 1 = k
    BY <1>1
  <2>2. Done(k)
    BY <1>6, <2>1
  <2>3. PICK m \in Match(n) : m = q[k + 1]
    BY <1>2, <2>1
  <2>4. PICK l, K : l = Edge(q, k, n) /\ K = Beyond(q, k, n, how)
    OBVIOUS
  <2>5. RedactedTo(g[k], l, n, K)
    BY <2>2, <2>4 DEF Done
  <2>6. l \in Int /\ m.to <= l /\ l <= n /\ m.from \in Int /\ m.to \in Int /\ m.from >= 1 /\ m.from <= m.to
    <3>1. l \in Int /\ l <= n
      BY <2>5 DEF RedactedTo
    <3>2. m.from \in Int /\ m.to \in Int /\ m.to <= n /\ m.from >= 1
      BY <1>3, <2>1, <2>3
    <3>3. m.from <= m.to
      BY DEF Match
    <3>4. CASE k = 0
      BY <2>4, <3>1, <3>2, <3>3, <3>4 DEF Edge
    <3>5. CASE k # 0
      <4>1. k \in 1..size /\ k < k + 1
        BY <2>1, <3>5
      <4>2. m.to < q[k].from /\ q[k].from \in Int
        BY <1>3, <1>4, <2>1, <2>3, <4>1
      <4>3. l = q[k].from - 1
        BY <2>4, <3>5 DEF Edge
      <4> QED
        BY <3>1, <3>2, <3>3, <4>2, <4>3
    <3> QED
      BY <3>4, <3>5
  <2> DEFINE N == K \cup (m.to + 1..l) \cup ((m.from..m.to) \ Hidden(m, how))
  <2>7. RedactedTo(Replaced(g[k], m, how), m.from - 1, n, N)
    BY <2>5, <2>6, ReplacedFacts
  <2>8. g[k + 1] = Replaced(g[k], m, how)
    <3>1. Replaced(g[k], m, how) \in Seq(Int)
      BY <2>7 DEF RedactedTo
    <3> QED
      BY <1>1, <2>1, <2>3, <3>1, SMTT(25)
  <2>9. Edge(q, k + 1, n) = m.from - 1
    BY <2>1, <2>3 DEF Edge
  <2>10. \A j \in 1..k : \A c \in Hidden(q[j], how) : c \in Int /\ c > l
    <3> SUFFICES ASSUME NEW j \in 1..k, NEW c \in Hidden(q[j], how) PROVE c \in Int /\ c > l
      OBVIOUS
    <3>1. j \in 1..size /\ k \in 1..size /\ k # 0
      BY <2>1
    <3>2. c \in q[j].from..q[j].to
      BY DEF Hidden
    <3>3. q[k].from <= q[j].from
      <4>1. j < k \/ j = k
        BY <2>1
      <4> QED
        BY <1>1, <1>3, <3>1, <4>1
    <3>4. l = q[k].from - 1
      BY <2>4, <3>1 DEF Edge
    <3> QED
      BY <1>3, <3>1, <3>2, <3>3, <3>4
  <2>11. \A c \in Hidden(m, how) : c \in m.from..m.to
    BY DEF Hidden
  <2>12. K = (l + 1..n) \ UNION {Hidden(q[j], how) : j \in 1..k}
    BY <2>4 DEF Beyond
  <2>13. Beyond(q, k + 1, n, how) = N
    <3>1. Beyond(q, k + 1, n, how) = (m.from..n) \ UNION {Hidden(q[j], how) : j \in 1..k + 1}
      <4>1. m.from - 1 + 1 = m.from
        BY <2>6
      <4> QED
        BY <2>9, <4>1 DEF Beyond
    <3>2. 1..k + 1 = 1..k \cup {k + 1}
      BY <2>1
    <3>3. PICK H, G : /\ H = UNION {Hidden(q[j], how) : j \in 1..k}
                      /\ G = UNION {Hidden(q[j], how) : j \in 1..k + 1}
      OBVIOUS
    <3>4. G = H \cup Hidden(m, how)
      <4>1. ASSUME NEW c PROVE c \in H <=> \E j \in 1..k : c \in Hidden(q[j], how)
        BY <3>3
      <4>2. ASSUME NEW c PROVE c \in G <=> \E j \in 1..k + 1 : c \in Hidden(q[j], how)
        BY <3>3
      <4>3. ASSUME NEW c PROVE c \in G <=> c \in H \/ c \in Hidden(m, how)
        BY <2>3, <3>2, <4>1, <4>2
      <4> QED
        BY <4>3
    <3>5. \A c \in H : c \in Int /\ c > l
      BY <2>10, <3>3
    <3>6. Beyond(q, k + 1, n, how) = (m.from..n) \ (H \cup Hidden(m, how))
      <4>1. Beyond(q, k + 1, n, how) = (m.from..n) \ G
        BY <3>1, <3>3
      <4> QED
        BY <3>4, <4>1
    <3>7. N = ((l + 1..n) \ H) \cup (m.to + 1..l) \cup ((m.from..m.to) \ Hidden(m, how))
      BY <2>12, <3>3
    <3>8. ASSUME NEW c PROVE c \in (m.from..n) \ (H \cup Hidden(m, how)) <=>
             c \in ((l + 1..n) \ H) \cup (m.to + 1..l) \cup ((m.from..m.to) \ Hidden(m, how))
      BY <2>6, <2>11, <3>5, SMTT(40)
    <3> QED
      BY <3>6, <3>7, <3>8
  <2> QED
    BY <2>7, <2>8, <2>9, <2>13 DEF Done
<1> HIDE DEF T
<1>7. T = Nat
  <2>1. T \in SUBSET Nat
    BY DEF T
  <2> QED
    BY <1>5, <1>6, <2>1, SetInduction
<1> QED
  BY <1>1, <1>7 DEF T, Done

\* The texts on the way, as long as what is replaced leaves a text.
Texts(f, size, q, how, start, V) ==
    /\ f \in [0..size -> V] /\ f[0] = start
    /\ \A k \in 1..size : Replaced(f[k - 1], q[k], how) \in V => f[k] = Replaced(f[k - 1], q[k], how)

\* There are such texts.
LEMMA TextsExist ==
    ASSUME NEW size \in Nat, NEW q, NEW how, NEW V, NEW start \in V
    PROVE  \E f : Texts(f, size, q, how, start, V)
<1> DEFINE Turn(v, k) == Replaced(v, q[k], how)
           step == [i \in 1..size |-> [v \in V |-> IF Turn(v, i) \in V THEN Turn(v, i) ELSE v]]
<1> HIDE DEF Turn
<1>1. step \in StepsOf(size, V)
      /\ \A i \in 1..size, v \in V : step[i][v] = IF Turn(v, i) \in V THEN Turn(v, i) ELSE v
  BY DEF StepsOf
<1> HIDE DEF step
<1>2. PICK f \in [0..size -> V] : f[0] = start /\ \A i \in 1..size : f[i] = step[i][f[i - 1]]
  BY <1>1, Recursion
<1>3. ASSUME NEW k \in 1..size, Turn(f[k - 1], k) \in V PROVE f[k] = Turn(f[k - 1], k)
  <2>1. k - 1 \in 0..size
    OBVIOUS
  <2>2. f[k - 1] \in V
    BY <1>2, <2>1
  <2> QED
    BY <1>1, <1>2, <1>3, <2>2
<1> QED
  BY <1>2, <1>3 DEF Turn, Texts

\* What a redaction shows: every cell but those its findings hide, in their order.
LEMMA RedactFacts ==
    ASSUME NEW cells \in Seq(CellKinds), NEW F \in SUBSET Match(Len(cells)), IsFiniteSet(F), Apart(F), NEW how
    PROVE  LET text == Redact(cells, F, how) IN
           /\ text \in Seq(Int) /\ \A i \in DOMAIN text : text[i] <= Len(cells)
           /\ Shown(text, cells) = (DOMAIN cells) \ UNION {Hidden(m, how) : m \in F}
           /\ \A i, j \in DOMAIN text : i < j /\ text[i] > 0 /\ text[j] > 0 => text[i] < text[j]
<1>1. PICK n \in Nat : n = Len(cells) /\ DOMAIN cells = 1..n
  OBVIOUS
<1> DEFINE q == Sorted(F, FromRight(F))
           size == Len(q)
           start == Itself(cells)
           V == Seq(Int)
           Level(f) == f = [k \in 0..size |-> IF k = 0 THEN start ELSE Replaced(f[k - 1], q[k], how)]
           r == CHOOSE f : Level(f)
<1>2. Lists(q, F, FromRight(F)) /\ q \in Seq(F)
  BY <1>1, FromRightTotal, SortedFacts
<1>3. size \in Nat /\ DOMAIN q = 1..size
  BY <1>2
<1>4. \A k, l \in 1..size : k < l => q[k].from > q[l].from
  <2> SUFFICES ASSUME NEW k \in 1..size, NEW l \in 1..size, k < l PROVE q[k].from > q[l].from
    OBVIOUS
  <2>1. <<q[k], q[l]>> \in FromRight(F)
    BY <1>2, <1>3 DEF Lists
  <2> QED
    BY <2>1 DEF FromRight
<1>5. start \in V /\ Len(start) = n /\ \A i \in 1..n : start[i] = i
  <2>1. start = [i \in 1..n |-> i]
    BY <1>1 DEF Itself
  <2> QED
    BY <2>1
<1>6. Redact(cells, F, how) = r[size]
  BY Zenon DEF Redact, RedactedBy
<1>s. size = Len(q)
  OBVIOUS
<1>v. V = Seq(Int)
  OBVIOUS
<1> HIDE DEF size, V, q, start
<1>7. PICK f : Texts(f, size, q, how, start, V)
  BY <1>3, <1>5, TextsExist
<1>8. /\ f \in [0..size -> V] /\ f[0] = start
      /\ \A k \in 1..size : Replaced(f[k - 1], q[k], how) \in V => f[k] = Replaced(f[k - 1], q[k], how)
  BY <1>7 DEF Texts
<1>9. ASSUME NEW k \in 1..size PROVE k - 1 \in 0..size /\ k # 0 /\ f[k - 1] \in V
  <2>1. k - 1 \in 0..size /\ k # 0
    BY <1>3
  <2> QED
    BY <1>8, <2>1
<1>10. \A k \in 1..size : Replaced(f[k - 1], q[k], how) \in Seq(Int) => f[k] = Replaced(f[k - 1], q[k], how)
  BY <1>8, <1>v
<1>11. \A k \in 0..size : RedactedTo(f[k], Edge(q, k, n), n, Beyond(q, k, n, how))
  BY <1>1, <1>2, <1>4, <1>5, <1>8, <1>10, <1>s, <1>v, ChainFacts
<1>12. ASSUME NEW k \in 1..size PROVE f[k] = Replaced(f[k - 1], q[k], how)
  <2>1. PICK m \in Match(n) : m = q[k]
    BY <1>1, <1>2, <1>3
  <2>2. RedactedTo(f[k - 1], Edge(q, k - 1, n), n, Beyond(q, k - 1, n, how))
    BY <1>9, <1>11
  <2>3. m.to <= Edge(q, k - 1, n)
    <3>1. CASE k = 1
      <4>1. Edge(q, k - 1, n) = n
        BY <3>1 DEF Edge
      <4> QED
        BY <4>1 DEF Match
    <3>2. CASE k # 1
      <4>1. k - 1 \in 1..size /\ k - 1 # 0 /\ k - 1 < k
        BY <1>3, <3>2
      <4>2. q[k - 1].from > q[k].from /\ q[k - 1] \in F /\ q[k] \in F
        BY <1>2, <1>3, <1>4, <4>1
      <4>3. m.to < q[k - 1].from /\ q[k - 1] \in Match(n)
        BY <1>1, <2>1, <4>2, FromRightTotal
      <4>4. q[k - 1].from \in Int /\ m.to \in Int
        BY <4>3 DEF Match
      <4>5. Edge(q, k - 1, n) = q[k - 1].from - 1
        BY <4>1 DEF Edge
      <4> QED
        BY <4>3, <4>4, <4>5
    <3> QED
      BY <3>1, <3>2
  <2>4. Replaced(f[k - 1], m, how) \in Seq(Int)
    <3>1. PICK N : RedactedTo(Replaced(f[k - 1], m, how), m.from - 1, n, N)
      BY <2>2, <2>3, ReplacedFacts
    <3> QED
      BY <3>1 DEF RedactedTo
  <2> QED
    BY <1>10, <2>1, <2>4
<1>13. Level(f)
  <2>1. ASSUME NEW k \in 0..size PROVE f[k] = IF k = 0 THEN start ELSE Replaced(f[k - 1], q[k], how)
    <3>1. CASE k = 0
      BY <1>8, <3>1
    <3>2. CASE k \in 1..size
      BY <1>9, <1>12, <3>2
    <3> QED
      BY <1>3, <3>1, <3>2
  <2>2. f = [k \in 0..size |-> f[k]]
    BY <1>8
  <2> QED
    BY <2>1, <2>2
<1> HIDE DEF Level
<1>14. Level(r)
  BY <1>13
<1> HIDE DEF r
<1>15. \A k \in 0..size : r[k] = IF k = 0 THEN start ELSE Replaced(r[k - 1], q[k], how)
  BY <1>14 DEF Level
<1>16. r[0] = start /\ \A k \in 1..size : r[k] = Replaced(r[k - 1], q[k], how)
  <2>1. 0 \in 0..size /\ \A k \in 1..size : k \in 0..size /\ k # 0
    BY <1>3
  <2> QED
    BY <1>15, <2>1
<1>17. \A k \in 0..size : RedactedTo(r[k], Edge(q, k, n), n, Beyond(q, k, n, how))
  BY <1>1, <1>2, <1>4, <1>5, <1>16, <1>s, <1>v, ChainFacts
<1>18. PICK text, l, K : text = r[size] /\ l = Edge(q, size, n) /\ K = Beyond(q, size, n, how)
  OBVIOUS
<1>19. RedactedTo(text, l, n, K)
  <2>1. size \in 0..size
    BY <1>3
  <2> QED
    BY <1>17, <1>18, <2>1
<1>20. PICK z \in Nat : z = Len(text) /\ DOMAIN text = 1..z
  BY <1>19 DEF RedactedTo
<1> DEFINE H == UNION {Hidden(m, how) : m \in F}
<1>21. H = UNION {Hidden(q[j], how) : j \in 1..size}
  <2>1. \A m \in F : \E j \in 1..size : q[j] = m
    BY <1>2, <1>3 DEF Lists
  <2>2. \A j \in 1..size : q[j] \in F
    BY <1>2, <1>3
  <2> QED
    BY <2>1, <2>2
<1>22. l \in Int /\ 0 <= l /\ l <= n /\ l <= z /\ \A c \in H : c \in Int /\ c > l
  <2>1. l \in Int /\ 0 <= l /\ l <= n /\ l <= z
    BY <1>19, <1>20 DEF RedactedTo
  <2> SUFFICES ASSUME NEW j \in 1..size, NEW c \in Hidden(q[j], how) PROVE c \in Int /\ c > l
    BY <1>21, <2>1
  <2>2. c \in q[j].from..q[j].to
    BY DEF Hidden
  <2>3. \A k \in 1..size : q[k].from \in Int /\ q[k].to \in Int
    <3> SUFFICES ASSUME NEW m \in Match(n) PROVE m.from \in Int /\ m.to \in Int
      BY <1>1, <1>2, <1>3
    <3> QED
      BY DEF Match
  <2>4. size \in 1..size /\ size # 0 /\ (j < size \/ j = size)
    BY <1>3
  <2>5. q[size].from <= q[j].from
    BY <1>4, <2>3, <2>4
  <2>6. l = q[size].from - 1
    BY <1>18, <2>4 DEF Edge
  <2> QED
    BY <2>2, <2>3, <2>4, <2>5, <2>6
<1>23. K = (l + 1..n) \ H
  BY <1>18, <1>21 DEF Beyond
<1> HIDE DEF H
<1>24. /\ text \in Seq(Int)
       /\ \A i \in 1..l : text[i] = i
       /\ \A i \in l + 1..z : text[i] <= 0 \/ text[i] \in K
       /\ \A c \in K : \E i \in l + 1..z : text[i] = c
       /\ \A i, j \in l + 1..z : i < j /\ text[i] > 0 /\ text[j] > 0 => text[i] < text[j]
  BY <1>19, <1>20 DEF RedactedTo
<1>25. \A i \in 1..z : text[i] \in Int
  BY <1>20, <1>24
<1>26. \A i \in 1..z : \/ i \in 1..l /\ text[i] = i
                       \/ i \in l + 1..z /\ (text[i] <= 0 \/ (text[i] \in l + 1..n /\ text[i] \notin H))
  <2>1. \A i \in 1..z : i \in 1..l \/ i \in l + 1..z
    BY <1>22
  <2> QED
    BY <1>23, <1>24, <2>1
<1>27. \A i \in 1..z : text[i] <= n
  BY <1>22, <1>25, <1>26
<1>28. ToSet(text) \cap (1..n) = (1..n) \ H
  <2>1. ToSet(text) = {text[i] : i \in 1..z}
    BY <1>20 DEF ToSet
  <2>2. ASSUME NEW i \in 1..z, text[i] \in 1..n PROVE text[i] \notin H
    BY <1>22, <1>25, <1>26, <2>2
  <2>3. ASSUME NEW c \in 1..n, c \notin H PROVE \E i \in 1..z : text[i] = c
    <3>1. CASE c <= l
      <4>1. c \in 1..l /\ c \in 1..z
        BY <1>22, <3>1
      <4> QED
        BY <1>24, <4>1
    <3>2. CASE c > l
      <4>1. c \in K
        BY <1>22, <1>23, <2>3, <3>2
      <4>2. \A i \in l + 1..z : i \in 1..z
        BY <1>22
      <4> QED
        BY <1>24, <4>1, <4>2
    <3> QED
      BY <1>22, <3>1, <3>2
  <2> QED
    BY <2>1, <2>2, <2>3
<1>29. \A i, j \in 1..z : i < j /\ text[i] > 0 /\ text[j] > 0 => text[i] < text[j]
  <2> SUFFICES ASSUME NEW i \in 1..z, NEW j \in 1..z, i < j, text[i] > 0, text[j] > 0 PROVE text[i] < text[j]
    OBVIOUS
  <2>1. CASE j \in 1..l
    <3>1. i \in 1..l
      BY <1>22, <2>1
    <3> QED
      BY <1>24, <2>1, <3>1
  <2>2. CASE j \in l + 1..z
    <3>1. CASE i \in l + 1..z
      BY <1>24, <2>2, <3>1
    <3>2. CASE i \in 1..l
      <4>1. text[j] \in l + 1..n
        BY <1>22, <1>25, <1>26, <2>2
      <4> QED
        BY <1>22, <1>24, <3>2, <4>1
    <3> QED
      BY <1>22, <3>1, <3>2
  <2> QED
    BY <1>22, <2>1, <2>2
<1>30. Shown(text, cells) = (DOMAIN cells) \ H
  BY <1>1, <1>28 DEF Shown
<1> QED
  BY <1>1, <1>6, <1>18, <1>20, <1>24, <1>27, <1>29, <1>30 DEF H

-----------------------------------------------------------------------------
(* What is found, and how texts and verdicts are made *)

\* As many values as arguments at most.
LEMMA ImageFinite ==
    ASSUME NEW S, IsFiniteSet(S), NEW f, DOMAIN f = S, NEW T, T = {f[x] : x \in S}
    PROVE  IsFiniteSet(T)
<1>1. PICK g : g = [x \in S |-> f[x]]
  OBVIOUS
<1>2. g \in Surjection(S, T)
  BY <1>1 DEF Surjection
<1> QED
  BY <1>2, FS_Surjection

\* What a recogniser finds are spans of the text.
LEMMA FoundFacts ==
    ASSUME NEW cells \in Seq(CellKinds), NEW r \in DOMAIN Recognizers
    PROVE  Found(cells, r) \in SUBSET Match(Len(cells)) /\ IsFiniteSet(Found(cells, r))
           /\ \A m \in Found(cells, r) : m.by = r
<1>1. PICK n \in Nat : n = Len(cells) /\ DOMAIN cells = 1..n
  OBVIOUS
<1>2. PICK p : p = Recognizers[r]
  OBVIOUS
<1>3. p \in [pattern : Seq(CellKinds) \ {<<>>}, score : Int, keyword : {"no", "boost", "required"}]
  <2>1. PICK X : X = [pattern : Seq(CellKinds) \ {<<>>}, score : Int, keyword : {"no", "boost", "required"}]
    OBVIOUS
  <2>2. Recognizers \in Seq(X)
    BY <2>1, ScreenAssumption
  <2>3. p \in X
    BY <1>2, <2>2
  <2> QED
    BY <2>1, <2>3
<1>4. PICK d \in Nat : d = Len(p.pattern)
  BY <1>3
<1>5. d >= 1
  <2>1. p.pattern \in Seq(CellKinds) /\ p.pattern # <<>>
    BY <1>3
  <2> QED
    BY <1>4, <2>1
<1> DEFINE end(i) == i + Len(p.pattern) - 1
           context(i) == InContext(cells, i, end(i))
           at == {j \in DOMAIN cells : /\ end(j) <= Len(cells)
                                       /\ SubSeq(cells, j, end(j)) = p.pattern
                                       /\ p.keyword = "required" => context(j)}
           span(i) == [by |-> r, from |-> i, to |-> end(i),
                       score |-> p.score + (IF p.keyword # "no" /\ context(i) THEN 15 ELSE 0)]
           f == [i \in at |-> span(i)]
<1>6. Found(cells, r) = {span(i) : i \in at}
  BY <1>2 DEF Found
<1>7. ASSUME NEW i \in at PROVE span(i) \in Match(n) /\ span(i).by = r
  <2>1. i \in 1..n /\ i + d - 1 <= n /\ i + d - 1 >= i
    BY <1>1, <1>4, <1>5
  <2>2. p.score + (IF p.keyword # "no" /\ context(i) THEN 15 ELSE 0) \in Int
    <3>1. p.score \in Int
      BY <1>3
    <3> HIDE DEF context
    <3> QED
      BY <3>1
  <2>3. i + d - 1 \in 1..n
    BY <1>1, <2>1
  <2> HIDE DEF context, at
  <2> QED
    BY <1>4, <2>1, <2>2, <2>3 DEF Match
<1>8. IsFiniteSet(at)
  BY <1>1, PlacesFinite
<1>9. IsFiniteSet({span(i) : i \in at})
  <2>1. PICK g : g = f
    OBVIOUS
  <2>2. DOMAIN g = at /\ {span(i) : i \in at} = {g[i] : i \in at}
    BY <2>1
  <2> HIDE DEF at, span, f
  <2> QED
    BY <1>8, <2>2, ImageFinite, SMTT(25)
<1> HIDE DEF at, span, f
<1> QED
  BY <1>1, <1>6, <1>7, <1>9

\* All that is certain enough, of all recognisers.
Certain(cells) == {m \in UNION {Found(cells, r) : r \in DOMAIN Recognizers} : m.score >= Confident}

LEMMA AnalyzedFacts ==
    ASSUME NEW cells \in Seq(CellKinds)
    PROVE  /\ Certain(cells) \in SUBSET Match(Len(cells))
           /\ Analyzed(cells) \in SUBSET Match(Len(cells)) /\ IsFiniteSet(Analyzed(cells)) /\ Apart(Analyzed(cells))
           /\ \A m \in Certain(cells) : \/ m \in Analyzed(cells)
                                        \/ \E o \in Analyzed(cells) : Overlap(m, o) /\ Better(o, m)
<1>1. PICK n \in Nat : n = Len(cells)
  OBVIOUS
<1>2. PICK S : S = Certain(cells)
  OBVIOUS
<1>3. S \in SUBSET Match(n)
  BY <1>1, <1>2, FoundFacts DEF Certain
<1>4. IsFiniteSet(S)
  <2> DEFINE all == {Found(cells, r) : r \in DOMAIN Recognizers}
             f == [r \in DOMAIN Recognizers |-> Found(cells, r)]
  <2>1. IsFiniteSet(DOMAIN Recognizers)
    <3>1. PICK k \in Nat : DOMAIN Recognizers = 1..k
      BY ScreenAssumption
    <3> QED
      BY <3>1, CountTo
  <2>2. IsFiniteSet(all)
    <3>1. PICK g : g = f
      OBVIOUS
    <3>2. DOMAIN g = DOMAIN Recognizers /\ all = {g[r] : r \in DOMAIN Recognizers}
      BY <3>1
    <3> HIDE DEF all, f
    <3> QED
      BY <2>1, <3>2, ImageFinite
  <2>3. \A T \in all : IsFiniteSet(T)
    BY FoundFacts
  <2>4. S \in SUBSET (UNION all)
    BY <1>2 DEF Certain
  <2> HIDE DEF all
  <2> QED
    BY <2>2, <2>3, <2>4, FS_UNION, FS_Subset
<1>5. Analyzed(cells) = Unoverlapped(S)
  BY <1>2 DEF Analyzed, Certain
<1>6. PICK u : u = Unoverlapped(S)
  OBVIOUS
<1>7. /\ u \in SUBSET S /\ Apart(u)
      /\ \A m \in S : m \in u \/ \E o \in u : Overlap(m, o) /\ Better(o, m)
  BY <1>1, <1>3, <1>4, <1>6, UnoverlappedFacts
<1>8. IsFiniteSet(u)
  BY <1>4, <1>7, FS_Subset
<1> QED
  BY <1>1, <1>2, <1>3, <1>5, <1>6, <1>7, <1>8

\* Escaping and stripping make a text of a text.
LEMMA NeutralisedTyped ==
    ASSUME NEW cells \in Seq(CellKinds)
    PROVE  Neutralised(cells) \in Seq(CellKinds)
<1>1. PICK T, s : T = {i \in DOMAIN cells : cells[i] # "invisible"} /\ s = Picked(cells, T)
  OBVIOUS
<1>2. s \in Seq(CellKinds)
  BY <1>1, PickedSet
<1>3. Neutralised(cells) = [i \in DOMAIN s |-> IF s[i] = "delimiter" THEN "word" ELSE s[i]]
  BY <1>1 DEF Neutralised
<1>4. "word" \in CellKinds
  BY DEF CellKinds
<1>5. PICK n \in Nat : DOMAIN s = 1..n
  BY <1>2
<1>6. \A i \in 1..n : s[i] \in CellKinds
  BY <1>2, <1>5
<1>7. [i \in 1..n |-> IF s[i] = "delimiter" THEN "word" ELSE s[i]] \in [1..n -> CellKinds]
  BY <1>4, <1>6
<1> QED
  BY <1>3, <1>5, <1>7
-----------------------------------------------------------------------------
\* The smaller of two numbers.
LEMMA MinOfTwo ==
    ASSUME NEW a \in Int, NEW b \in Int
    PROVE  Min({a, b}) = IF a <= b THEN a ELSE b
<1>1. IsFiniteSet({a, b})
  <2>1. {a, b} = {a} \cup {b}
    OBVIOUS
  <2>2. IsFiniteSet({a})
    BY FS_Singleton
  <2> QED
    BY <2>1, <2>2, FS_AddElement
<1>2. Min({a, b}) \in {a, b} /\ \A y \in {a, b} : Min({a, b}) <= y
  BY <1>1, MinFacts
<1> QED
  BY <1>2

VerdictType == [hits : Nat, score : 0..100, action : {"allow", "warn", "block"}, label : Labels \cup {"none"}]

LEMMA CountTyped == ASSUME NEW cells \in Seq(CellKinds), NEW kind PROVE Count(cells, kind) \in Nat
<1>1. PICK n \in Nat : DOMAIN cells = 1..n
  OBVIOUS
<1>2. {i \in DOMAIN cells : cells[i] = kind} \in SUBSET (1..n)
  BY <1>1
<1> QED
  BY <1>2, PlacesFinite DEF Count

\* Suspicions are parts of a hundred, alone and combined.
LEMMA WeightTyped ==
    ASSUME NEW n \in Nat, NEW weight \in 0..100, NEW bonus \in Nat
    PROVE  Weight(n, weight, bonus) \in 0..100
<1>1. CASE n = 0
  BY <1>1 DEF Weight
<1>2. CASE n # 0
  <2>1. PICK b \in Nat : b = bonus * (n - 1)
    <3>1. n - 1 \in Nat
      BY <1>2
    <3> QED
      BY <3>1
  <2>2. RepeatCap \in Nat
    BY ScreenAssumption
  <2>3. PICK c \in Nat : c = Min({b, RepeatCap})
    BY <2>2, MinOfTwo
  <2>4. Weight(n, weight, bonus) = Min({100, weight + c})
    BY <1>2, <2>1, <2>3 DEF Weight
  <2>5. Min({100, weight + c}) = IF 100 <= weight + c THEN 100 ELSE weight + c
    BY MinOfTwo
  <2> QED
    BY <2>4, <2>5
<1> QED
  BY <1>1, <1>2

LEMMA PartOfHundred == ASSUME NEW a \in 0..100, NEW b \in 0..100 PROVE (a * b) \div 100 \in 0..100
<1>1. PICK p \in Int : p = a * b
  OBVIOUS
<1>2. 0 <= p /\ p <= 10000
  <2>1. a * b >= 0
    OBVIOUS
  <2>2. a * b <= a * 100
    OBVIOUS
  <2>3. a * 100 <= 10000
    OBVIOUS
  <2> QED
    BY <1>1, <2>1, <2>2, <2>3
<1>3. p \div 100 \in 0..100
  BY <1>2
<1> QED
  BY <1>1, <1>3

LEMMA CombinedTyped == ASSUME NEW a \in 0..100, NEW b \in 0..100 PROVE Combined(a, b) \in 0..100
<1>1. PICK c \in 0..100, d \in 0..100 : c = 100 - a /\ d = 100 - b
  <2>1. 100 - a \in 0..100 /\ 100 - b \in 0..100
    OBVIOUS
  <2> QED
    BY <2>1
<1>2. PICK e \in 0..100 : e = (c * d) \div 100
  BY PartOfHundred
<1>3. Combined(a, b) = 100 - e
  BY <1>1, <1>2 DEF Combined
<1> QED
  BY <1>3

LEMMA ScannedTyped ==
    ASSUME NEW cells \in Seq(CellKinds), NEW warnAt, NEW blockAt
    PROVE  Scanned(cells, warnAt, blockAt) \in VerdictType /\ Scanned(cells, warnAt, blockAt).label = "none"
<1>1. PICK k \in Nat : k = Min({Len(cells), ScanChars}) /\ k <= Len(cells)
  <2>1. ScanChars \in Nat /\ Len(cells) \in Nat
    BY ScreenAssumption
  <2> QED
    BY <2>1, MinOfTwo
<1>2. PICK sample : sample = SubSeq(cells, 1, k)
  OBVIOUS
<1>3. sample \in Seq(CellKinds)
  <2>1. \A i \in 1..k : cells[i] \in CellKinds
    BY <1>1
  <2> QED
    BY <1>2, <2>1, SubSeqProperties
<1>4. PICK h \in Nat, d \in Nat, i \in Nat :
        h = Count(sample, "hook") /\ d = Count(sample, "delimiter") /\ i = Count(sample, "invisible")
  BY <1>3, CountTyped
<1>5. HookWeight \in 0..100 /\ ForgeryWeight \in 0..100 /\ InvisibleWeight \in 0..100 /\ RepeatBonus \in Nat
  BY ScreenAssumption
<1>6. PICK a \in 0..100, b \in 0..100, c \in 0..100 :
        a = Weight(h, HookWeight, RepeatBonus) /\ b = Weight(d, ForgeryWeight, 0) /\ c = Weight(i, InvisibleWeight, 0)
  <2>1. 0 \in Nat
    OBVIOUS
  <2> QED
    BY <1>5, <2>1, WeightTyped
<1>7. PICK ab \in 0..100 : ab = Combined(a, b)
  BY CombinedTyped
<1>8. PICK score \in 0..100 : score = Combined(ab, c)
  BY CombinedTyped
<1>9. PICK hits \in Nat : hits = h + d + i
  OBVIOUS
<1>10. Scanned(cells, warnAt, blockAt) =
         [hits |-> hits, score |-> score, action |-> ActionFor(score, warnAt, blockAt), label |-> "none"]
  BY <1>1, <1>2, <1>4, <1>6, <1>7, <1>8, <1>9 DEF Scanned
<1>11. ActionFor(score, warnAt, blockAt) \in {"allow", "warn", "block"}
  BY DEF ActionFor
<1> QED
  BY <1>10, <1>11 DEF VerdictType

\* The classifier changes the score and the action; when it fails, nothing.
LEMMA JudgedFacts ==
    ASSUME NEW v \in VerdictType, v.label = "none", NEW label \in Labels, NEW warnAt, NEW blockAt \in 0..100,
           NEW w, w = Judged(v, label, warnAt, blockAt)
    PROVE  /\ w \in VerdictType /\ w.hits = v.hits
           /\ label = "failed" => w = v
           /\ w.label = "none" => w = v
<1>1. CASE label = "failed"
  BY <1>1 DEF Judged
<1>2. CASE label # "failed"
  <2>1. v.score \in 0..100 /\ BenignFactor \in 0..100
    BY ScreenAssumption DEF VerdictType
  <2>2. PICK score \in 0..100 : score = IF label = "benign" THEN (v.score * BenignFactor) \div 100
                                        ELSE Max({v.score, blockAt})
    <3>1. (v.score * BenignFactor) \div 100 \in 0..100
      BY <2>1, PartOfHundred
    <3>2. Max({v.score, blockAt}) \in {v.score, blockAt}
      <4>1. {v.score, blockAt} = {v.score} \cup {blockAt} /\ IsFiniteSet({v.score})
        BY FS_Singleton
      <4>2. IsFiniteSet({v.score, blockAt})
        BY <4>1, FS_AddElement
      <4>3. {v.score, blockAt} \in SUBSET Int /\ {v.score, blockAt} # {}
        BY <2>1
      <4> QED
        BY <4>2, <4>3, MaxFacts
    <3>3. Max({v.score, blockAt}) \in 0..100
      BY <2>1, <3>2
    <3> QED
      BY <3>1, <3>3
  <2>3. PICK action \in {"allow", "warn", "block"} : action = ActionFor(score, warnAt, blockAt)
    BY DEF ActionFor
  <2>4. Judged(v, label, warnAt, blockAt) = [v EXCEPT !.label = label, !.score = score, !.action = action]
    BY <1>2, <2>2, <2>3 DEF Judged
  <2>5. w = [v EXCEPT !.label = label, !.score = score, !.action = action]
    BY <2>4
  <2>6. w \in VerdictType /\ w.hits = v.hits /\ w.label = label
    BY <2>5 DEF VerdictType
  <2>7. label # "none"
    BY DEF Labels
  <2> QED
    BY <1>2, <2>4, <2>5, <2>6, <2>7
<1> QED
  BY <1>1, <1>2

-----------------------------------------------------------------------------
(* Decisions, and the invariant of the screening *)

Actions == {"allow", "redact", "warn", "block", "clarify"}
Events  == [kind : {"size", "pii", "language", "injection"}, action : Actions]
DecisionType == [allowed : BOOLEAN, action : Actions, text : Seq(Int), stored : Seq(Int),
                 events : Seq(Events), refused : BOOLEAN]
TurnType == [raw : Seq(CellKinds), rules : RuleTypes, cells : Seq(CellKinds)]
Stages   == {"normalise", "analyze", "verify", "language", "scan", "passages", "decided"}

\* A decision that lets the turn through, and one that does not.
Calm(d) ==
    d \in DecisionType /\ d.allowed /\ ~d.refused /\ \A i \in DOMAIN d.events : d.events[i].action # "block"
Stopped(d) ==
    d \in DecisionType /\ ~d.allowed /\ d.refused /\ d.action \in {"block", "clarify"}
    /\ Last(d.events).action = d.action

\* An event that does not block leaves a decision calm, whatever its action then says.
LEMMA ToldFacts ==
    ASSUME NEW d, Calm(d), NEW kind \in {"size", "pii", "language", "injection"},
           NEW a \in {"allow", "redact", "warn"}, NEW act \in Actions
    PROVE  /\ Calm(Told(d, kind, a)) /\ Told(d, kind, a).text = d.text /\ Told(d, kind, a).stored = d.stored
           /\ Calm([Told(d, kind, a) EXCEPT !.action = act])
           /\ [Told(d, kind, a) EXCEPT !.action = act].text = d.text
           /\ [Told(d, kind, a) EXCEPT !.action = act].stored = d.stored
           /\ Told(d, kind, a).action = d.action
<1>1. PICK ev : ev = [kind |-> kind, action |-> a]
  OBVIOUS
<1>2. ev \in Events /\ ev.action # "block"
  BY <1>1 DEF Events, Actions
<1>3. PICK old : old = d.events
  OBVIOUS
<1>4. old \in Seq(Events) /\ \A i \in DOMAIN old : old[i].action # "block"
  BY <1>3 DEF Calm, DecisionType
<1>5. PICK new : new = Append(old, ev)
  OBVIOUS
<1>6. new \in Seq(Events)
  BY <1>2, <1>4, <1>5
<1>7. \A i \in DOMAIN new : new[i].action # "block"
  <2>1. PICK k \in Nat : k = Len(old) /\ DOMAIN old = 1..k
    BY <1>4
  <2>2. DOMAIN new = 1..k + 1 /\ new[k + 1] = ev /\ \A i \in 1..k : new[i] = old[i]
    BY <1>2, <1>4, <1>5, <2>1
  <2>3. \A i \in 1..k + 1 : i \in 1..k \/ i = k + 1
    BY <2>1
  <2> QED
    BY <1>2, <1>4, <2>1, <2>2, <2>3
<1>8. Told(d, kind, a) = [d EXCEPT !.events = new]
  BY <1>1, <1>3, <1>5 DEF Told
<1>9. PICK e : e = [d EXCEPT !.events = new]
  OBVIOUS
<1>10. d \in DecisionType /\ d.allowed /\ ~d.refused
  BY DEF Calm
<1>11. e \in DecisionType /\ e.allowed = d.allowed /\ e.refused = d.refused /\ e.events = new
       /\ e.text = d.text /\ e.stored = d.stored /\ e.action = d.action
  BY <1>6, <1>9, <1>10 DEF DecisionType
<1>12. PICK f : f = [e EXCEPT !.action = act]
  OBVIOUS
<1>13. f \in DecisionType /\ f.allowed = e.allowed /\ f.refused = e.refused /\ f.events = new
       /\ f.text = e.text /\ f.stored = e.stored
  BY <1>11, <1>12 DEF DecisionType
<1>14. Calm(e) /\ Calm(f)
  BY <1>7, <1>10, <1>11, <1>13 DEF Calm
<1> QED
  BY <1>8, <1>9, <1>11, <1>12, <1>13, <1>14

\* A refusal is told.
LEMMA RefusalFacts ==
    ASSUME NEW d \in DecisionType, NEW kind \in {"size", "pii", "language", "injection"},
           NEW a \in {"block", "clarify"}
    PROVE  /\ Stopped(Refusal(d, kind, a))
           /\ Refusal(d, kind, a).text = d.text /\ Refusal(d, kind, a).stored = d.stored
<1>1. PICK ev : ev = [kind |-> kind, action |-> a]
  OBVIOUS
<1>2. ev \in Events /\ ev.action = a
  BY <1>1 DEF Events, Actions
<1>3. PICK old : old = d.events
  OBVIOUS
<1>4. old \in Seq(Events)
  BY <1>3 DEF DecisionType
<1>5. PICK new : new = Append(old, ev)
  OBVIOUS
<1>6. new \in Seq(Events) /\ Last(new) = ev
  BY <1>2, <1>4, <1>5 DEF Last
<1>7. PICK e : e = [d EXCEPT !.events = new]
  OBVIOUS
<1>8. Told(d, kind, a) = e
  BY <1>1, <1>3, <1>5, <1>7 DEF Told
<1>9. e \in DecisionType /\ e.events = new /\ e.text = d.text /\ e.stored = d.stored
  BY <1>6, <1>7 DEF DecisionType
<1>10. PICK f : f = [e EXCEPT !.allowed = FALSE, !.action = a, !.refused = TRUE]
  OBVIOUS
<1>11. f \in DecisionType /\ f.events = new /\ f.text = d.text /\ f.stored = d.stored
       /\ f.allowed = FALSE /\ f.refused = TRUE /\ f.action = a
  <2>1. a \in Actions
    BY DEF Actions
  <2> QED
    BY <1>9, <1>10, <2>1 DEF DecisionType
<1>12. Refusal(d, kind, a) = f
  BY <1>8, <1>10 DEF Refusal
<1> QED
  BY <1>2, <1>6, <1>11, <1>12 DEF Stopped

\* A text for which nothing was replaced.
LEMMA ItselfTyped ==
    ASSUME NEW cells \in Seq(CellKinds)
    PROVE  Itself(cells) \in Seq(Int) /\ \A i \in DOMAIN Itself(cells) : Itself(cells)[i] <= Len(cells)
<1>1. PICK n \in Nat : n = Len(cells) /\ DOMAIN cells = 1..n
  OBVIOUS
<1>2. Itself(cells) = [i \in 1..n |-> i]
  BY <1>1 DEF Itself
<1>3. [i \in 1..n |-> i] \in Seq(Int)
  OBVIOUS
<1> QED
  BY <1>1, <1>2, <1>3
-----------------------------------------------------------------------------
Typed ==
    /\ turn \in TurnType /\ verdict \in VerdictType /\ passages \in Seq(Seq(CellKinds))
    /\ screening \in Stages

Decided == Calm(decision) \/ (Stopped(decision) /\ screening = "decided")

Reported ==
    /\ report \in SUBSET Match(Len(turn.cells)) /\ IsFiniteSet(report) /\ Apart(report)
    /\ screening = "normalise" => report = {} /\ verdict.hits = 0
    /\ screening = "verify" => Rule("pii")
    /\ screening \in {"verify", "language", "scan", "passages"} /\ Rule("pii") /\ ~Rule("verify")
           => report = Analyzed(turn.cells)

\* The text a reader sees, as far as it is taken.
Visible == SubSeq(Neutralised(turn.raw), 1, Min({MaxChars, Len(Neutralised(turn.raw))}))

Taken ==
    screening \notin {"normalise", "decided"} =>
        /\ Len(turn.cells) \in Min({MinChars, MaxChars})..MaxChars
        /\ Rule("normalise") => turn.cells = Visible

Redacted ==
    screening \in {"language", "scan", "passages"} =>
        /\ decision.stored = IF Rule("pii") THEN Redact(turn.cells, report, Rule("mode")) ELSE Itself(turn.cells)
        /\ decision.text = IF Rule("pii") THEN Redact(turn.cells, Secrets(report), "mask") ELSE Itself(turn.cells)

\* The passages dealt with are the first ones.
Filing ==
    /\ screened \in [kept : SUBSET Nat, quarantined : SUBSET Nat, flagged : SUBSET Nat,
                     events : SUBSET (Nat \X {"block", "warn"})]
    /\ \E h \in 0..Len(passages) : screened.kept \cup screened.quarantined = 1..h
    /\ screened.flagged \subseteq screened.kept \cup screened.quarantined
    /\ PassagesAreAccounted

ScreenInv == Typed /\ Decided /\ Reported /\ Taken /\ Redacted /\ OutageKeepsVerdict /\ Filing
-----------------------------------------------------------------------------
\* What a redaction shows is a text, whatever was found.
LEMMA RedactedTyped ==
    ASSUME Typed, Reported, NEW how, NEW F \in SUBSET report
    PROVE  /\ Redact(turn.cells, F, how) \in Seq(Int)
           /\ \A i \in DOMAIN Redact(turn.cells, F, how) : Redact(turn.cells, F, how)[i] <= Len(turn.cells)
<1>1. PICK cells \in Seq(CellKinds) : cells = turn.cells
  BY DEF Typed, TurnType
<1>2. F \in SUBSET Match(Len(cells)) /\ IsFiniteSet(F) /\ Apart(F)
  <2>1. IsFiniteSet(F)
    BY FS_Subset DEF Reported
  <2> QED
    BY <1>1, <2>1 DEF Reported, Apart
<1>3. PICK text : text = Redact(cells, F, how)
  OBVIOUS
<1>4. text \in Seq(Int) /\ \A i \in DOMAIN text : text[i] <= Len(cells)
  BY <1>2, <1>3, RedactFacts
<1> QED
  BY <1>1, <1>3, <1>4

LEMMA InitScreen == ScreenInit => ScreenInv
<1> SUFFICES ASSUME ScreenInit PROVE ScreenInv
  OBVIOUS
<1>1. PICK raw \in Turns, rules \in Rules : turn = [raw |-> raw, rules |-> rules, cells |-> raw]
  BY DEF ScreenInit
<1>2. raw \in Seq(CellKinds) /\ rules \in RuleTypes
  BY ScreenAssumption
<1>3. turn \in TurnType
  BY <1>1, <1>2 DEF TurnType
<1>4. verdict \in VerdictType /\ verdict.hits = 0
  BY DEF ScreenInit, Clean, VerdictType
<1>5. passages \in Seq(Seq(CellKinds))
  <2>1. passages \in Seq(Passages)
    BY DEF ScreenInit, SeqOf
  <2>2. \A i \in DOMAIN passages : passages[i] \in Seq(CellKinds)
    BY <2>1, ScreenAssumption
  <2> QED
    BY <2>1, <2>2
<1>6. screening = "normalise"
  BY DEF ScreenInit
<1>7. Typed
  BY <1>3, <1>4, <1>5, <1>6 DEF Typed, Stages
<1>8. Decided
  <2>1. decision \in DecisionType
    BY DEF ScreenInit, DecisionType, Actions
  <2>2. decision.allowed = TRUE /\ decision.refused = FALSE /\ decision.events = <<>>
    BY DEF ScreenInit
  <2> QED
    BY <2>1, <2>2 DEF Decided, Calm
<1>9. Reported
  <2>1. report = {}
    BY DEF ScreenInit
  <2> QED
    BY <1>4, <1>6, <2>1, FS_EmptySet DEF Reported, Apart
<1>10. Taken /\ Redacted /\ OutageKeepsVerdict
  BY <1>6 DEF Taken, Redacted, OutageKeepsVerdict
<1>11. Filing
  <2>1. screened = [kept |-> {}, quarantined |-> {}, flagged |-> {}, events |-> {}]
    BY DEF ScreenInit
  <2>2. screened.kept \cup screened.quarantined = 1..0 /\ 0 \in 0..Len(passages)
    BY <1>5, <2>1
  <2>3. PassagesAreAccounted
    BY <1>6, <2>1 DEF PassagesAreAccounted
  <2> QED
    BY <2>1, <2>2, <2>3 DEF Filing
<1> QED
  BY <1>7, <1>8, <1>9, <1>10, <1>11 DEF ScreenInv

\* The turn is escaped and cut to size.
LEMMA NormaliseKeeps == ASSUME ScreenInv, NormaliseTurn PROVE ScreenInv'
<1>1. screening = "normalise" /\ Calm(decision) /\ report = {} /\ verdict.hits = 0 /\ turn \in TurnType
  BY DEF ScreenInv, NormaliseTurn, Decided, Reported, Typed
<1>2. UNCHANGED <<report, verdict, passages, screened>>
  BY DEF NormaliseTurn
<1>3. PICK cells : cells = IF Rule("normalise") THEN Neutralised(turn.raw) ELSE turn.raw
  OBVIOUS
<1>4. cells \in Seq(CellKinds)
  BY <1>1, <1>3, NeutralisedTyped DEF TurnType
<1>5. PICK n \in Nat : n = Len(cells)
  BY <1>4
<1>6. PICK whole : whole = [decision EXCEPT !.text = Itself(cells), !.stored = Itself(cells)]
  OBVIOUS
<1>7. Calm(whole) /\ whole.text = Itself(cells) /\ whole.stored = Itself(cells)
  <2>1. Itself(cells) \in Seq(Int)
    BY <1>4, ItselfTyped
  <2>2. decision \in DecisionType
    BY <1>1 DEF Calm
  <2>3. whole \in DecisionType /\ whole.events = decision.events /\ whole.allowed = decision.allowed
        /\ whole.refused = decision.refused /\ whole.text = Itself(cells) /\ whole.stored = Itself(cells)
    BY <1>6, <2>1, <2>2 DEF DecisionType
  <2> QED
    BY <1>1, <2>3 DEF Calm
<1>8. MinChars \in Nat /\ MaxChars \in Nat
  BY ScreenAssumption
<1>9. PICK k \in 0..n :
        /\ turn' = [turn EXCEPT !.cells = SubSeq(cells, 1, k)]
        /\ \/ Stopped(decision') /\ screening' = "decided"
           \/ /\ Calm(decision') /\ screening' = "analyze" /\ MinChars <= n
              /\ k = IF MaxChars <= n THEN MaxChars ELSE n
  <2>1. CASE n < MinChars
    <3>1. decision' = Refusal(whole, "size", "clarify") /\ screening' = "decided"
          /\ turn' = [turn EXCEPT !.cells = SubSeq(cells, 1, n)]
      BY <1>3, <1>5, <1>6, <1>8, <2>1 DEF NormaliseTurn
    <3>2. Stopped(decision')
      BY <1>7, <3>1, RefusalFacts DEF Calm
    <3>3. n \in 0..n
      OBVIOUS
    <3> QED
      BY <3>1, <3>2, <3>3
  <2>2. CASE MinChars <= n /\ n <= MaxChars
    <3>1. decision' = whole /\ screening' = "analyze" /\ turn' = [turn EXCEPT !.cells = SubSeq(cells, 1, n)]
      BY <1>3, <1>5, <1>6, <1>8, <2>2 DEF NormaliseTurn
    <3>2. n = IF MaxChars <= n THEN MaxChars ELSE n
      BY <1>8, <2>2
    <3>3. n \in 0..n /\ Calm(decision')
      BY <1>7, <3>1
    <3> QED
      BY <2>2, <3>1, <3>2, <3>3
  <2>3. CASE MinChars <= n /\ n > MaxChars /\ Rule("truncate")
    <3>1. decision' = [Told(whole, "size", "warn") EXCEPT !.action = "warn"] /\ screening' = "analyze"
          /\ turn' = [turn EXCEPT !.cells = SubSeq(cells, 1, MaxChars)]
      BY <1>3, <1>5, <1>6, <1>8, <2>3 DEF NormaliseTurn
    <3>2. Calm(decision')
      <4>1. "warn" \in Actions
        BY DEF Actions
      <4> QED
        BY <1>7, <3>1, <4>1, ToldFacts
    <3>3. MaxChars \in 0..n /\ MaxChars = IF MaxChars <= n THEN MaxChars ELSE n
      BY <1>8, <2>3
    <3> QED
      BY <2>3, <3>1, <3>2, <3>3
  <2>4. CASE MinChars <= n /\ n > MaxChars /\ ~Rule("truncate")
    <3>1. decision' = [Refusal(whole, "size", "block") EXCEPT !.text = <<>>, !.stored = <<>>]
          /\ screening' = "decided" /\ turn' = [turn EXCEPT !.cells = SubSeq(cells, 1, n)]
      BY <1>3, <1>5, <1>6, <1>8, <2>4 DEF NormaliseTurn
    <3>2. PICK d : d = Refusal(whole, "size", "block")
      OBVIOUS
    <3>3. Stopped(d)
      BY <1>7, <3>2, RefusalFacts DEF Calm
    <3>4. PICK e : e = [d EXCEPT !.text = <<>>, !.stored = <<>>]
      OBVIOUS
    <3>5. d \in DecisionType
      BY <3>3 DEF Stopped
    <3>6. e \in DecisionType /\ e.events = d.events /\ e.allowed = d.allowed /\ e.refused = d.refused /\ e.action = d.action
      <4>1. <<>> \in Seq(Int)
        OBVIOUS
      <4>2. PICK blank \in Seq(Int) : blank = <<>>
        BY <4>1
      <4>3. e = [d EXCEPT !.text = blank, !.stored = blank]
        BY <3>4, <4>2
      <4> HIDE <4>2
      <4> QED
        BY <3>5, <4>3 DEF DecisionType
    <3>7. Stopped(e)
      BY <3>3, <3>6 DEF Stopped
    <3>8. n \in 0..n /\ Stopped(decision')
      BY <3>1, <3>2, <3>4, <3>7
    <3> QED
      BY <3>1, <3>8
  <2> QED
    BY <1>8, <2>1, <2>2, <2>3, <2>4
<1>10. PICK cut : cut = SubSeq(cells, 1, k)
  OBVIOUS
<1>11. cut \in Seq(CellKinds) /\ Len(cut) = k
  <2>1. \A i \in 1..k : cells[i] \in CellKinds
    BY <1>4, <1>5
  <2>2. k >= 0 /\ k \in Int
    OBVIOUS
  <2> QED
    BY <1>10, <2>1, <2>2, SubSeqProperties
<1>12. turn' \in TurnType /\ turn'.cells = cut /\ turn'.rules = turn.rules /\ turn'.raw = turn.raw
  BY <1>1, <1>9, <1>10, <1>11 DEF TurnType
<1>13. screening' \in {"decided", "analyze"}
  BY <1>9
<1>14. Typed'
  BY <1>2, <1>12, <1>13 DEF ScreenInv, Typed, Stages
<1>15. Decided'
  BY <1>9 DEF Decided
<1>16. Reported'
  BY <1>1, <1>2, <1>13, FS_EmptySet DEF Reported, Apart
<1>17. Taken'
  <2> SUFFICES ASSUME screening' # "decided" PROVE Taken'
    BY DEF Taken
  <2>1. MinChars <= n /\ k = IF MaxChars <= n THEN MaxChars ELSE n
    BY <1>9
  <2>2. Min({MaxChars, n}) = k /\ Min({MinChars, MaxChars}) = IF MinChars <= MaxChars THEN MinChars ELSE MaxChars
    BY <1>8, <2>1, MinOfTwo
  <2>3. Len(cut) \in Min({MinChars, MaxChars})..MaxChars
    BY <1>8, <1>11, <2>1, <2>2
  <2>4. ASSUME Rule("normalise") PROVE cut = SubSeq(Neutralised(turn.raw), 1, Min({MaxChars, Len(Neutralised(turn.raw))}))
    BY <1>3, <1>5, <1>10, <2>2, <2>4
  <2> QED
    BY <1>12, <2>3, <2>4 DEF Taken, Visible, Rule
<1>18. Redacted'
  BY <1>13 DEF Redacted
<1>19. OutageKeepsVerdict'
  BY <1>1, <1>2 DEF OutageKeepsVerdict
<1>20. Filing'
  BY <1>2, <1>9, <1>12 DEF ScreenInv, Filing, PassagesAreAccounted, Rule, Stopped
<1> QED
  BY <1>14, <1>15, <1>16, <1>17, <1>18, <1>19, <1>20 DEF ScreenInv

-----------------------------------------------------------------------------
(* Every step of the screening keeps the invariant *)

\* What none but the scan of the passages touches.
LEMMA FilingStays ==
    ASSUME Filing, UNCHANGED <<turn, passages, screened>>, screening' # "decided" \/ ~decision'.allowed
    PROVE  Filing'
BY DEF Filing, PassagesAreAccounted, Rule

\* The detector looks at the turn.
LEMMA AnalyzeKeeps == ASSUME ScreenInv, AnalyzeTurn PROVE ScreenInv'
<1>1. screening = "analyze" /\ Calm(decision) /\ UNCHANGED <<turn, verdict, passages, screened>>
  BY DEF ScreenInv, AnalyzeTurn, Decided
<1>2. PICK cells \in Seq(CellKinds) : cells = turn.cells
  BY DEF ScreenInv, Typed, TurnType
<1>3. screening' = IF Rule("pii") THEN "verify" ELSE "language"
  BY DEF AnalyzeTurn
<1>4. report' = IF Rule("pii") THEN Analyzed(cells) ELSE {}
  BY <1>2 DEF AnalyzeTurn
<1>5. Typed'
  BY <1>1, <1>3 DEF ScreenInv, Typed, Stages
<1>6. Calm(decision') /\ (~Rule("pii") => decision'.text = Itself(cells) /\ decision'.stored = Itself(cells))
  <2>1. CASE Rule("pii")
    BY <1>1, <2>1 DEF AnalyzeTurn
  <2>2. CASE ~Rule("pii")
    <3>1. PICK d : d = [decision EXCEPT !.text = Itself(cells), !.stored = Itself(cells)]
      OBVIOUS
    <3>2. decision' = d
      BY <1>2, <2>2, <3>1 DEF AnalyzeTurn
    <3>3. Itself(cells) \in Seq(Int)
      BY ItselfTyped
    <3>4. decision \in DecisionType
      BY <1>1 DEF Calm
    <3>5. d \in DecisionType /\ d.events = decision.events /\ d.allowed = decision.allowed
          /\ d.refused = decision.refused /\ d.text = Itself(cells) /\ d.stored = Itself(cells)
      BY <3>1, <3>3, <3>4 DEF DecisionType
    <3>6. Calm(d)
      BY <1>1, <3>5 DEF Calm
    <3> QED
      BY <3>2, <3>5, <3>6
  <2> QED
    BY <2>1, <2>2
<1>7. Decided'
  BY <1>6 DEF Decided
<1>8. Reported'
  <2>1. report' \in SUBSET Match(Len(cells)) /\ IsFiniteSet(report') /\ Apart(report')
    <3>1. CASE Rule("pii")
      BY <1>4, <3>1, AnalyzedFacts
    <3>2. CASE ~Rule("pii")
      BY <1>4, <3>2, FS_EmptySet DEF Apart
    <3> QED
      BY <3>1, <3>2
  <2>2. screening' # "normalise"
    BY <1>3
  <2>3. (Rule("pii") => report' = Analyzed(cells)) /\ (screening' = "verify" => Rule("pii"))
    BY <1>3, <1>4
  <2> QED
    BY <1>1, <1>2, <2>1, <2>2, <2>3 DEF Reported, Rule, Apart
<1>9. Taken'
  BY <1>1, <1>3 DEF ScreenInv, Taken, Visible, Rule
<1>10. Redacted'
  BY <1>1, <1>2, <1>3, <1>6 DEF Redacted, Rule
<1>11. screening' \notin {"passages", "decided"}
  BY <1>3
<1>12. OutageKeepsVerdict'
  BY <1>11 DEF OutageKeepsVerdict
<1>13. Filing'
  BY <1>1, <1>11, FilingStays DEF ScreenInv
<1> QED
  BY <1>5, <1>7, <1>8, <1>9, <1>10, <1>12, <1>13 DEF ScreenInv

\* The model may reject some of it, and the rest is redacted.
LEMMA VerifyKeeps == ASSUME ScreenInv, VerifyTurn PROVE ScreenInv'
<1>1. screening = "verify" /\ Calm(decision) /\ UNCHANGED <<turn, verdict, passages, screened>>
      /\ screening' = "language"
  BY DEF ScreenInv, VerifyTurn, Decided
<1>2. PICK cells \in Seq(CellKinds) : cells = turn.cells
  BY DEF ScreenInv, Typed, TurnType
<1> DEFINE asked == {m \in report : Rule("verify") /\ m.score >= VerifyFrom}
<1>3. PICK kept, done :
        /\ kept \in SUBSET report
        /\ ~Rule("verify") => kept = report
        /\ done = [decision EXCEPT !.stored = Redact(cells, kept, Rule("mode")),
                                   !.text   = Redact(cells, Secrets(kept), "mask")]
        /\ report' = kept
        /\ decision' = IF kept = {} THEN Told(done, "pii", "allow")
                       ELSE [Told(done, "pii", "redact") EXCEPT !.action = "redact"]
  <2>1. PICK rejected \in SUBSET asked :
          LET kept == report \ rejected
              done == [decision EXCEPT !.stored = Redact(turn.cells, kept, Rule("mode")),
                                       !.text   = Redact(turn.cells, Secrets(kept), "mask")]
          IN  /\ report' = kept
              /\ decision' = IF kept = {} THEN Told(done, "pii", "allow")
                             ELSE [Told(done, "pii", "redact") EXCEPT !.action = "redact"]
    BY DEF VerifyTurn
  <2>2. PICK kept : kept = report \ rejected
    OBVIOUS
  <2>3. kept \in SUBSET report /\ (~Rule("verify") => kept = report)
    BY <2>2
  <2>4. PICK done : done = [decision EXCEPT !.stored = Redact(cells, kept, Rule("mode")),
                                           !.text   = Redact(cells, Secrets(kept), "mask")]
    OBVIOUS
  <2> HIDE DEF asked
  <2>5. /\ report' = kept
        /\ decision' = IF kept = {} THEN Told(done, "pii", "allow")
                       ELSE [Told(done, "pii", "redact") EXCEPT !.action = "redact"]
    BY <1>2, <2>1, <2>2, <2>4
  <2> QED
    BY <2>3, <2>4, <2>5
<1>4. PICK stored, text : stored = Redact(cells, kept, Rule("mode")) /\ text = Redact(cells, Secrets(kept), "mask")
  OBVIOUS
<1>5. stored \in Seq(Int) /\ text \in Seq(Int)
  <2>1. Typed /\ Reported
    BY DEF ScreenInv
  <2>2. Secrets(kept) \in SUBSET report
    BY <1>3 DEF Secrets
  <2> QED
    BY <1>2, <1>3, <1>4, <2>1, <2>2, RedactedTyped
<1>6. done \in DecisionType /\ done.events = decision.events /\ done.allowed = decision.allowed
      /\ done.refused = decision.refused /\ done.text = text /\ done.stored = stored
  <2>1. decision \in DecisionType /\ done = [decision EXCEPT !.stored = stored, !.text = text]
    BY <1>1, <1>3, <1>4 DEF Calm
  <2> QED
    BY <1>5, <2>1 DEF DecisionType
<1>7. Calm(done)
  BY <1>1, <1>6 DEF Calm
<1>8. Calm(decision') /\ decision'.text = text /\ decision'.stored = stored
  <2>1. "redact" \in Actions
    BY DEF Actions
  <2>2. CASE kept = {}
    <3>1. decision' = Told(done, "pii", "allow")
      BY <1>3, <2>2
    <3> QED
      BY <1>6, <1>7, <2>1, <3>1, ToldFacts
  <2>3. CASE kept # {}
    <3>1. decision' = [Told(done, "pii", "redact") EXCEPT !.action = "redact"]
      BY <1>3, <2>3
    <3> QED
      BY <1>6, <1>7, <2>1, <3>1, ToldFacts
  <2> QED
    BY <2>2, <2>3
<1>9. Typed'
  BY <1>1 DEF ScreenInv, Typed, Stages
<1>10. Decided'
  BY <1>8 DEF Decided
<1>11. Reported'
  <2>1. IsFiniteSet(kept)
    BY <1>3, FS_Subset DEF ScreenInv, Reported
  <2>2. kept \in SUBSET Match(Len(cells)) /\ Apart(kept)
    BY <1>2, <1>3 DEF ScreenInv, Reported, Apart
  <2>3. Rule("pii") /\ ~Rule("verify") => kept = Analyzed(cells)
    BY <1>1, <1>2, <1>3 DEF ScreenInv, Reported
  <2> QED
    BY <1>1, <1>2, <1>3, <2>1, <2>2, <2>3 DEF Reported, Rule, Apart
<1>12. Taken'
  BY <1>1 DEF ScreenInv, Taken, Visible, Rule
<1>13. OutageKeepsVerdict'
  BY <1>1 DEF OutageKeepsVerdict
<1>14. Filing'
  BY <1>1, FilingStays DEF ScreenInv
<1>15. Redacted'
  <2>1. Rule("pii")
    BY <1>1 DEF ScreenInv, Reported
  <2> QED
    BY <1>1, <1>2, <1>3, <1>4, <1>8, <2>1 DEF Redacted, Rule, Secrets
<1> QED
  BY <1>9, <1>10, <1>11, <1>12, <1>13, <1>14, <1>15 DEF ScreenInv

\* A warning about the language.
LEMMA LanguageKeeps == ASSUME ScreenInv, DetectLanguage PROVE ScreenInv'
<1>1. screening = "language" /\ Calm(decision) /\ UNCHANGED <<turn, report, verdict, passages, screened>>
      /\ screening' = "scan"
  BY DEF ScreenInv, DetectLanguage, Decided
<1>2. Calm(decision') /\ decision'.text = decision.text /\ decision'.stored = decision.stored
  <2>1. CASE UNCHANGED decision
    BY <1>1, <2>1
  <2>2. CASE decision' = [Told(decision, "language", "warn") EXCEPT !.action = "warn"]
    <3>1. "warn" \in Actions
      BY DEF Actions
    <3> QED
      BY <1>1, <2>2, <3>1, ToldFacts
  <2> QED
    BY <2>1, <2>2 DEF DetectLanguage
<1>3. Typed'
  BY <1>1 DEF ScreenInv, Typed, Stages
<1>4. Decided'
  BY <1>2 DEF Decided
<1>5. Reported'
  BY <1>1 DEF ScreenInv, Reported, Rule, Apart
<1>6. Taken'
  BY <1>1 DEF ScreenInv, Taken, Visible, Rule
<1>7. Redacted'
  BY <1>1, <1>2 DEF ScreenInv, Redacted, Rule
<1>8. OutageKeepsVerdict'
  BY <1>1 DEF OutageKeepsVerdict
<1>9. Filing'
  BY <1>1, FilingStays DEF ScreenInv
<1> QED
  BY <1>3, <1>4, <1>5, <1>6, <1>7, <1>8, <1>9 DEF ScreenInv

\* The prompt is a text.
LEMMA PromptTyped == ASSUME ScreenInv, screening = "scan" PROVE PromptCells \in Seq(CellKinds)
<1>1. PICK cells \in Seq(CellKinds) : cells = turn.cells
  BY DEF ScreenInv, Typed, TurnType
<1>2. PICK text : text = decision.text
  OBVIOUS
<1>3. text \in Seq(Int) /\ \A i \in DOMAIN text : text[i] <= Len(cells)
  <2>1. CASE Rule("pii")
    <3>1. text = Redact(turn.cells, Secrets(report), "mask") /\ Secrets(report) \in SUBSET report
      BY <1>2, <2>1 DEF ScreenInv, Redacted, Secrets
    <3> QED
      BY <1>1, <3>1, RedactedTyped DEF ScreenInv
  <2>2. CASE ~Rule("pii")
    <3>1. text = Itself(cells)
      BY <1>1, <1>2, <2>2 DEF ScreenInv, Redacted
    <3> QED
      BY <3>1, ItselfTyped
  <2> QED
    BY <2>1, <2>2
<1>4. PICK n \in Nat : n = Len(text) /\ DOMAIN text = 1..n
  BY <1>3
<1>5. PromptCells = [i \in 1..n |-> IF text[i] > 0 THEN cells[text[i]] ELSE "word"]
  BY <1>1, <1>2, <1>4 DEF PromptCells
<1>6. ASSUME NEW i \in 1..n PROVE (IF text[i] > 0 THEN cells[text[i]] ELSE "word") \in CellKinds
  <2>1. text[i] \in Int /\ text[i] <= Len(cells)
    BY <1>3, <1>4
  <2>2. CASE text[i] > 0
    <3>1. text[i] \in 1..Len(cells)
      BY <2>1, <2>2
    <3> QED
      BY <2>2, <3>1
  <2>3. "word" \in CellKinds
    BY DEF CellKinds
  <2> QED
    BY <2>2, <2>3
<1>7. [i \in 1..n |-> IF text[i] > 0 THEN cells[text[i]] ELSE "word"] \in [1..n -> CellKinds]
  BY <1>6
<1> QED
  BY <1>4, <1>5, <1>7

\* The patterns judge the prompt, and in doubt the classifier.
LEMMA ScanKeeps == ASSUME ScreenInv, ScanTurn PROVE ScreenInv'
<1>1. screening = "scan" /\ Calm(decision) /\ UNCHANGED <<turn, report, passages, screened>>
  BY DEF ScreenInv, ScanTurn, Decided
<1>2. PICK v \in VerdictType : v = Scanned(PromptCells, WarnAt, BlockAt) /\ v.label = "none"
  BY <1>1, PromptTyped, ScannedTyped
<1>3. PICK label \in Labels :
        /\ label = "failed" \/ InDoubt(v, WarnAt, BlockAt)
        /\ verdict' = Judged(v, label, WarnAt, BlockAt)
        /\ decision' = Concluded(Judged(v, label, WarnAt, BlockAt))
        /\ screening' = IF decision'.allowed THEN "passages" ELSE "decided"
  <2>1. PICK label \in IF Rule("classifier") /\ InDoubt(v, WarnAt, BlockAt) THEN Labels ELSE {"failed"} :
        /\ verdict' = Judged(v, label, WarnAt, BlockAt)
        /\ decision' = Concluded(Judged(v, label, WarnAt, BlockAt))
        /\ screening' = IF decision'.allowed THEN "passages" ELSE "decided"
    BY <1>2 DEF ScanTurn
  <2>2. "failed" \in Labels
    BY DEF Labels
  <2>3. label \in Labels /\ (label = "failed" \/ InDoubt(v, WarnAt, BlockAt))
    BY <2>1, <2>2
  <2> QED
    BY <2>1, <2>3
<1>4. PICK w : w = Judged(v, label, WarnAt, BlockAt)
  OBVIOUS
<1>5. w \in VerdictType /\ w.hits = v.hits /\ (label = "failed" => w = v) /\ (w.label = "none" => w = v)
  <2>1. BlockAt \in 0..100
    BY ScreenAssumption
  <2> QED
    BY <1>2, <1>4, <2>1, JudgedFacts, SMTT(25)
<1>6. verdict' = w /\ decision' = Concluded(w)
  BY <1>3, <1>4
<1>7. /\ Calm(decision') \/ Stopped(decision')
      /\ decision'.text = decision.text /\ decision'.stored = decision.stored
      /\ w.hits > 0 /\ w.action = "block" => Stopped(decision')
  <2>1. CASE w.hits = 0
    BY <1>1, <1>6, <2>1 DEF Concluded
  <2>2. CASE w.hits # 0 /\ w.action = "block"
    <3>1. decision' = Refusal(decision, "injection", "block")
      BY <1>6, <2>2 DEF Concluded
    <3>2. decision \in DecisionType
      BY <1>1 DEF Calm
    <3> QED
      BY <3>1, <3>2, RefusalFacts
  <2>3. CASE w.hits # 0 /\ w.action # "block"
    <3>1. PICK a \in {"allow", "redact", "warn"} : a = w.action
      BY <1>5, <2>3 DEF VerdictType
    <3>2. PICK t : t = Told(decision, "injection", a)
      OBVIOUS
    <3>3. PICK act : act = IF t.action = "allow" THEN "warn" ELSE t.action
      OBVIOUS
    <3>4. act \in Actions
      <4>1. t.action = decision.action
        <5>1. "warn" \in Actions
          BY DEF Actions
        <5> QED
          BY <1>1, <3>2, <5>1, ToldFacts
      <4>2. decision.action \in Actions
        BY <1>1 DEF Calm, DecisionType
      <4>3. "warn" \in Actions
        BY DEF Actions
      <4> QED
        BY <3>3, <4>1, <4>2, <4>3
    <3>5. decision' = [t EXCEPT !.action = act]
      BY <1>6, <2>3, <3>1, <3>2, <3>3 DEF Concluded
    <3> QED
      BY <1>1, <2>3, <3>2, <3>4, <3>5, ToldFacts
  <2> QED
    BY <2>1, <2>2, <2>3
<1>8. screening' \in {"passages", "decided"} /\ (screening' = "decided" <=> ~decision'.allowed)
  BY <1>3
<1>9. Typed'
  BY <1>1, <1>5, <1>6, <1>8 DEF ScreenInv, Typed, Stages
<1>10. Decided'
  BY <1>7, <1>8 DEF Decided, Stopped
<1>11. Reported'
  BY <1>1, <1>8 DEF ScreenInv, Reported, Rule, Apart
<1>12. Taken'
  BY <1>1, <1>8 DEF ScreenInv, Taken, Visible, Rule
<1>13. Redacted'
  BY <1>1, <1>7, <1>8 DEF ScreenInv, Redacted, Rule
<1>14. OutageKeepsVerdict'
  <2>1. Scanned(PromptCells, WarnAt, BlockAt)' = v
    BY <1>1, <1>2, <1>7 DEF PromptCells, Scanned
  <2>2. ASSUME v.hits > 0, v.action = "block" PROVE ~decision'.allowed
    <3>1. v.score >= BlockAt
      BY <1>2, <2>2 DEF Scanned, ActionFor
    <3>2. ~InDoubt(v, WarnAt, BlockAt)
      <4>1. v.score \in Int /\ BlockAt \in Int
        <5>1. v.score \in 0..100
          BY DEF VerdictType
        <5>2. BlockAt \in 0..100
          BY ScreenAssumption
        <5> QED
          BY <5>1, <5>2
      <4> QED
        BY <3>1, <4>1 DEF InDoubt
    <3>3. w = v
      BY <1>3, <1>5, <3>2
    <3> QED
      BY <1>7, <2>2, <3>3 DEF Stopped
  <2>3. ASSUME verdict'.label = "none" PROVE verdict'.action = v.action
    BY <1>5, <1>6, <2>3
  <2> QED
    BY <2>1, <2>2, <2>3 DEF OutageKeepsVerdict
<1>15. Filing'
  <2>1. screening' # "decided" \/ ~decision'.allowed
    BY <1>8
  <2> QED
    BY <1>1, <2>1, FilingStays DEF ScreenInv
<1> QED
  BY <1>9, <1>10, <1>11, <1>12, <1>13, <1>14, <1>15 DEF ScreenInv

\* The number of the passages dealt with.
LEMMA HandledIs ==
    ASSUME NEW h \in Nat, screened.kept \cup screened.quarantined = 1..h
    PROVE  Handled(screened) = h
BY CountTo DEF Handled

\* One more passage is filed.
LEMMA PassageKeeps == ASSUME ScreenInv, ScanPassage PROVE ScreenInv'
<1>1. screening = "passages" /\ Handled(screened) < Len(passages)
      /\ UNCHANGED <<turn, decision, report, passages, screening>>
  BY DEF ScanPassage
<1>2. PICK size \in Nat : size = Len(passages) /\ DOMAIN passages = 1..size
  BY DEF ScreenInv, Typed
<1>3. PICK h \in 0..size : screened.kept \cup screened.quarantined = 1..h
  BY <1>2 DEF ScreenInv, Filing
<1>4. h \in Nat /\ Handled(screened) = h /\ h < size
  <2>1. h \in Nat
    OBVIOUS
  <2> QED
    BY <1>1, <1>2, <1>3, <2>1, HandledIs
<1>5. PICK i \in 1..size : i = h + 1
  BY <1>4
<1>6. PICK v \in VerdictType : v = Scanned(passages[i], PassageWarnAt, PassageBlockAt) /\ v.label = "none"
  <2>1. passages[i] \in Seq(CellKinds)
    BY <1>2 DEF ScreenInv, Typed
  <2> QED
    BY <2>1, ScannedTyped
<1>7. PICK label \in Labels :
        /\ label = "failed" \/ Rule("classifier")
        /\ verdict' = Judged(v, label, PassageWarnAt, PassageBlockAt)
        /\ screened' = Filed(screened, i, Judged(v, label, PassageWarnAt, PassageBlockAt))
  <2>1. PICK label \in IF Rule("classifier") /\ InDoubt(v, (PassageWarnAt * 6) \div 10, 101) THEN Labels ELSE {"failed"} :
        /\ verdict' = Judged(v, label, PassageWarnAt, PassageBlockAt)
        /\ screened' = Filed(screened, i, Judged(v, label, PassageWarnAt, PassageBlockAt))
    BY <1>4, <1>5, <1>6 DEF ScanPassage
  <2>2. "failed" \in Labels
    BY DEF Labels
  <2>3. label \in Labels /\ (label = "failed" \/ Rule("classifier"))
    BY <2>1, <2>2
  <2> QED
    BY <2>1, <2>3
<1>8. PICK w : w = Judged(v, label, PassageWarnAt, PassageBlockAt)
  OBVIOUS
<1>9. w \in VerdictType /\ w.hits = v.hits /\ (label = "failed" => w = v)
  <2>1. PassageBlockAt \in 0..100
    BY ScreenAssumption
  <2> QED
    BY <1>6, <1>8, <2>1, JudgedFacts
<1>10. PICK s : s = screened
  OBVIOUS
<1>11. s \in [kept : SUBSET Nat, quarantined : SUBSET Nat, flagged : SUBSET Nat,
               events : SUBSET (Nat \X {"block", "warn"})]
  BY <1>10 DEF ScreenInv, Filing
<1>12. PICK t : t = screened'
  OBVIOUS
<1>13. PICK held \in BOOLEAN : held <=> w.hits # 0 /\ w.action = "block" /\ Rule("quarantine")
  OBVIOUS
<1>14. /\ t.kept = IF held THEN s.kept ELSE s.kept \cup {i}
       /\ t.quarantined = IF held THEN s.quarantined \cup {i} ELSE s.quarantined
       /\ t.flagged = IF w.hits = 0 THEN s.flagged ELSE s.flagged \cup {i}
       /\ t.events = IF w.hits = 0 THEN s.events
                     ELSE s.events \cup {<<i, IF held THEN "block" ELSE "warn">>}
       /\ t \in [kept : SUBSET Nat, quarantined : SUBSET Nat, flagged : SUBSET Nat,
                  events : SUBSET (Nat \X {"block", "warn"})]
  <2>0. i \in Nat /\ t = Filed(s, i, w)
    BY <1>7, <1>8, <1>10, <1>12
  <2>1. CASE w.hits = 0
    <3>1. t = [s EXCEPT !.kept = @ \cup {i}] /\ ~held
      BY <1>13, <2>0, <2>1 DEF Filed
    <3> QED
      BY <1>11, <2>0, <2>1, <3>1
  <2>2. CASE w.hits # 0 /\ held
    <3>1. t = [s EXCEPT !.quarantined = @ \cup {i}, !.flagged = @ \cup {i}, !.events = @ \cup {<<i, "block">>}]
      BY <1>13, <2>0, <2>2 DEF Filed
    <3>2. PICK x, y, z : x = s.quarantined \cup {i} /\ y = s.flagged \cup {i} /\ z = s.events \cup {<<i, "block">>}
      OBVIOUS
    <3>3. x \in SUBSET Nat /\ y \in SUBSET Nat /\ z \in SUBSET (Nat \X {"block", "warn"})
      BY <1>11, <2>0, <3>2
    <3>4. t = [s EXCEPT !.quarantined = x, !.flagged = y, !.events = z]
      BY <3>1, <3>2
    <3>5. /\ t.quarantined = x /\ t.flagged = y /\ t.events = z
          /\ t.kept = s.kept
          /\ t \in [kept : SUBSET Nat, quarantined : SUBSET Nat, flagged : SUBSET Nat,
                     events : SUBSET (Nat \X {"block", "warn"})]
      BY <1>11, <3>3, <3>4
    <3> QED
      BY <2>2, <3>2, <3>5
  <2>3. CASE w.hits # 0 /\ ~held
    <3>1. t = [s EXCEPT !.kept = @ \cup {i}, !.flagged = @ \cup {i}, !.events = @ \cup {<<i, "warn">>}]
      BY <1>13, <2>0, <2>3 DEF Filed
    <3>2. PICK x, y, z : x = s.kept \cup {i} /\ y = s.flagged \cup {i} /\ z = s.events \cup {<<i, "warn">>}
      OBVIOUS
    <3>3. x \in SUBSET Nat /\ y \in SUBSET Nat /\ z \in SUBSET (Nat \X {"block", "warn"})
      BY <1>11, <2>0, <3>2
    <3>4. t = [s EXCEPT !.kept = x, !.flagged = y, !.events = z]
      BY <3>1, <3>2
    <3>5. /\ t.kept = x /\ t.flagged = y /\ t.events = z
          /\ t.quarantined = s.quarantined
          /\ t \in [kept : SUBSET Nat, quarantined : SUBSET Nat, flagged : SUBSET Nat,
                     events : SUBSET (Nat \X {"block", "warn"})]
      BY <1>11, <3>3, <3>4
    <3> QED
      BY <2>3, <3>2, <3>5
  <2> QED
    BY <2>1, <2>2, <2>3
<1>15. t.kept \cup t.quarantined = 1..h + 1 /\ h + 1 \in 0..size
  <2>1. 1..h + 1 = 1..h \cup {i}
    BY <1>4, <1>5
  <2>2. s.kept \cup s.quarantined = 1..h
    BY <1>3, <1>10
  <2>3. t.kept \cup t.quarantined = (s.kept \cup s.quarantined) \cup {i}
    BY <1>14
  <2> QED
    BY <1>4, <2>1, <2>2, <2>3
<1>16. i \notin s.kept /\ i \notin s.quarantined /\ i \notin s.flagged
  <2>1. i \notin 1..h
    BY <1>4, <1>5
  <2>2. s.kept \cup s.quarantined = 1..h /\ s.flagged \subseteq s.kept \cup s.quarantined
    BY <1>3, <1>10 DEF ScreenInv, Filing
  <2> QED
    BY <2>1, <2>2
<1> DEFINE Plain(j) == Scanned(passages[j], PassageWarnAt, PassageBlockAt)
<1>17. /\ s.kept \cap s.quarantined = {} /\ s.flagged \subseteq s.kept \cup s.quarantined
       /\ \A j \in s.flagged : <<j, IF j \in s.quarantined THEN "block" ELSE "warn">> \in s.events
       /\ \A j \in s.kept \cup s.quarantined : Plain(j).hits > 0 => j \in s.flagged
       /\ \A j \in s.kept : Rule("quarantine") /\ ~Rule("classifier") =>
             (Plain(j).hits > 0 => Plain(j).action # "block")
  BY <1>10 DEF ScreenInv, Filing, PassagesAreAccounted
<1>18. v = Plain(i)
  BY <1>6
<1> HIDE DEF Plain
<1>19. /\ t.kept \cap t.quarantined = {} /\ t.flagged \subseteq t.kept \cup t.quarantined
       /\ \A j \in t.flagged : <<j, IF j \in t.quarantined THEN "block" ELSE "warn">> \in t.events
       /\ \A j \in t.kept \cup t.quarantined : Plain(j).hits > 0 => j \in t.flagged
       /\ \A j \in t.kept : Rule("quarantine") /\ ~Rule("classifier") =>
             (Plain(j).hits > 0 => Plain(j).action # "block")
  <2>1. t.kept \cap t.quarantined = {}
    BY <1>14, <1>16, <1>17
  <2>2. t.flagged \subseteq t.kept \cup t.quarantined
    BY <1>14, <1>17
  <2>3. ASSUME NEW j \in t.flagged PROVE <<j, IF j \in t.quarantined THEN "block" ELSE "warn">> \in t.events
    <3>1. CASE j \in s.flagged
      <4>1. j # i
        BY <1>16, <3>1
      <4>2. j \in t.quarantined <=> j \in s.quarantined
        BY <1>14, <4>1
      <4>3. s.events \subseteq t.events
        BY <1>14
      <4> QED
        BY <1>17, <3>1, <4>2, <4>3
    <3>2. CASE j \notin s.flagged
      <4>1. j = i /\ w.hits # 0
        BY <1>14, <3>2
      <4>2. i \in t.quarantined <=> held
        BY <1>14, <1>16
      <4>3. <<i, IF held THEN "block" ELSE "warn">> \in t.events
        BY <1>14, <4>1
      <4> QED
        BY <4>1, <4>2, <4>3
    <3> QED
      BY <3>1, <3>2
  <2>4. ASSUME NEW j \in t.kept \cup t.quarantined, Plain(j).hits > 0 PROVE j \in t.flagged
    <3>1. CASE j \in s.kept \cup s.quarantined
      BY <1>14, <1>17, <2>4, <3>1
    <3>2. CASE j \notin s.kept \cup s.quarantined
      <4>1. j = i
        BY <1>14, <3>2
      <4>2. w.hits # 0
        BY <1>9, <1>18, <2>4, <4>1
      <4> QED
        BY <1>14, <4>1, <4>2
    <3> QED
      BY <3>1, <3>2
  <2>5. ASSUME NEW j \in t.kept, Rule("quarantine"), ~Rule("classifier"), Plain(j).hits > 0
        PROVE  Plain(j).action # "block"
    <3>1. CASE j \in s.kept
      BY <1>17, <2>5, <3>1
    <3>2. CASE j \notin s.kept
      <4>1. j = i /\ ~held
        BY <1>14, <3>2
      <4>2. w = v
        BY <1>7, <1>9, <2>5
      <4>3. w.hits # 0
        BY <1>9, <1>18, <2>5, <4>1
      <4> QED
        BY <1>13, <1>18, <2>5, <4>1, <4>2, <4>3
    <3> QED
      BY <3>1, <3>2
  <2> QED
    BY <2>1, <2>2, <2>3, <2>4, <2>5
<1>20. Typed'
  <2>1. verdict' = w
    BY <1>7, <1>8
  <2> QED
    BY <1>1, <1>9, <2>1 DEF ScreenInv, Typed
<1>21. Decided'
  BY <1>1 DEF ScreenInv, Decided
<1>22. Reported'
  BY <1>1 DEF ScreenInv, Reported, Rule, Apart
<1>23. Taken'
  BY <1>1 DEF ScreenInv, Taken, Visible, Rule
<1>24. Redacted'
  BY <1>1 DEF ScreenInv, Redacted, Rule
<1>25. OutageKeepsVerdict'
  <2>1. i \in t.kept \cup t.quarantined
    BY <1>14
  <2> QED
    BY <1>12, <2>1 DEF OutageKeepsVerdict
<1>26. Filing'
  <2>1. passages' = passages /\ turn' = turn /\ screening' = "passages" /\ screened' = t
    BY <1>1, <1>12
  <2>2. PassagesAreAccounted'
    BY <1>19, <2>1 DEF PassagesAreAccounted, Plain, Rule
  <2> QED
    BY <1>2, <1>14, <1>15, <1>19, <2>1, <2>2 DEF Filing
<1> QED
  BY <1>20, <1>21, <1>22, <1>23, <1>24, <1>25, <1>26 DEF ScreenInv

\* All have been dealt with.
LEMMA DoneKeeps == ASSUME ScreenInv, PassagesDone PROVE ScreenInv'
<1>1. screening = "passages" /\ screening' = "decided" /\ Handled(screened) = Len(passages)
      /\ UNCHANGED <<turn, decision, report, verdict, passages, screened>>
  BY DEF PassagesDone
<1>2. PICK size \in Nat : size = Len(passages) /\ DOMAIN passages = 1..size
  BY DEF ScreenInv, Typed
<1>3. PICK h \in 0..size : screened.kept \cup screened.quarantined = 1..h
  BY <1>2 DEF ScreenInv, Filing
<1>4. h = size
  <2>1. h \in Nat
    OBVIOUS
  <2> QED
    BY <1>1, <1>2, <1>3, <2>1, HandledIs
<1>5. Typed'
  BY <1>1 DEF ScreenInv, Typed, Stages
<1>6. Decided'
  BY <1>1 DEF ScreenInv, Decided
<1>7. Reported'
  BY <1>1 DEF ScreenInv, Reported, Rule, Apart
<1>8. Taken' /\ Redacted'
  BY <1>1 DEF Taken, Redacted
<1>9. OutageKeepsVerdict'
  <2>1. (Scanned(PromptCells, WarnAt, BlockAt))' = Scanned(PromptCells, WarnAt, BlockAt)
    BY <1>1 DEF PromptCells, Scanned
  <2> QED
    BY <1>1, <2>1 DEF ScreenInv, OutageKeepsVerdict
<1>10. Filing'
  <2>1. screened.kept \cup screened.quarantined = DOMAIN passages
    BY <1>2, <1>3, <1>4
  <2>2. PassagesAreAccounted'
    BY <1>1, <2>1 DEF ScreenInv, Filing, PassagesAreAccounted, Rule
  <2> QED
    BY <1>1, <2>2 DEF ScreenInv, Filing
<1> QED
  BY <1>5, <1>6, <1>7, <1>8, <1>9, <1>10 DEF ScreenInv

-----------------------------------------------------------------------------
(* The screening is sound *)

\* Every step of the screening.
LEMMA NextScreen == ASSUME ScreenInv, [ScreenNext]_screenVars PROVE ScreenInv'
<1>1. CASE NormaliseTurn
  BY <1>1, NormaliseKeeps
<1>2. CASE AnalyzeTurn
  BY <1>2, AnalyzeKeeps
<1>3. CASE VerifyTurn
  BY <1>3, VerifyKeeps
<1>4. CASE DetectLanguage
  BY <1>4, LanguageKeeps
<1>5. CASE ScanTurn
  BY <1>5, ScanKeeps
<1>6. CASE ScanPassage
  BY <1>6, PassageKeeps
<1>7. CASE PassagesDone
  BY <1>7, DoneKeeps
<1>8. CASE UNCHANGED screenVars
  <2>1. UNCHANGED <<turn, decision, report, verdict, passages, screened, screening>>
    BY <1>8 DEF screenVars
  <2>2. Typed' /\ Decided'
    BY <2>1 DEF ScreenInv, Typed, Decided
  <2>3. Reported' /\ Taken' /\ Redacted'
    BY <2>1 DEF ScreenInv, Reported, Taken, Redacted, Visible, Rule, Apart
  <2>4. OutageKeepsVerdict'
    <3>1. (Scanned(PromptCells, WarnAt, BlockAt))' = Scanned(PromptCells, WarnAt, BlockAt)
      BY <2>1 DEF PromptCells, Scanned
    <3> QED
      BY <2>1, <3>1 DEF ScreenInv, OutageKeepsVerdict
  <2>5. Filing'
    BY <2>1 DEF ScreenInv, Filing, PassagesAreAccounted, Rule
  <2> QED
    BY <2>2, <2>3, <2>4, <2>5 DEF ScreenInv
<1> QED
  BY <1>1, <1>2, <1>3, <1>4, <1>5, <1>6, <1>7, <1>8 DEF ScreenNext

LEMMA ScreenHolds == ScreenSpec => []ScreenInv
<1>1. ScreenInit => ScreenInv
  BY InitScreen
<1>2. ScreenInv /\ [ScreenNext]_screenVars => ScreenInv'
  BY NextScreen
<1> QED
  BY <1>1, <1>2, PTL DEF ScreenSpec
-----------------------------------------------------------------------------
\* How much of a span a redaction shows.
LEMMA FewShown ==
    ASSUME NEW n \in Nat, NEW m \in Match(n), NEW how, NEW T \in SUBSET ((m.from..m.to) \ Hidden(m, how))
    PROVE  Cardinality(T) <= IF how = "partial" THEN KeepChars ELSE 0
<1>1. PICK a \in Int, b \in Int : a = m.from /\ b = m.to /\ a <= b
  <2>1. m \in [by : DOMAIN Recognizers, from : 1..n, to : 1..n, score : Int] /\ m.from <= m.to
    BY DEF Match
  <2> QED
    BY <2>1
<1>2. KeepChars \in Nat
  BY ScreenAssumption
<1>3. CASE how = "partial" /\ 0 < KeepChars /\ KeepChars < Cost(m)
  <2>1. Hidden(m, how) = {c \in a..b : c <= b - KeepChars}
    BY <1>1, <1>3 DEF Hidden
  <2>2. T \in SUBSET (b - KeepChars + 1..b)
    BY <1>1, <1>2, <2>1
  <2>3. PICK k \in Nat : k = KeepChars
    BY <1>2
  <2>4. IsFiniteSet(b - k + 1..b) /\ Cardinality(b - k + 1..b) = k
    <3>1. PICK lo \in Int : lo = b - k + 1
      OBVIOUS
    <3>2. IsFiniteSet(lo..b) /\ Cardinality(lo..b) = IF lo > b THEN 0 ELSE b - lo + 1
      BY FS_Interval
    <3> QED
      BY <3>1, <3>2
  <2>5. Cardinality(T) <= k
    BY <2>2, <2>3, <2>4, FS_Subset
  <2> QED
    BY <1>3, <2>3, <2>5
<1>4. CASE ~(how = "partial" /\ 0 < KeepChars /\ KeepChars < Cost(m))
  <2>1. Hidden(m, how) = a..b
    BY <1>1, <1>4 DEF Hidden
  <2>2. T = {}
    BY <1>1, <2>1
  <2> QED
    BY <1>2, <2>2, FS_EmptySet
<1> QED
  BY <1>3, <1>4

\* What is shown of a text when its findings, or the secrets among them, are replaced.
LEMMA ShownWhen ==
    ASSUME ScreenInv, NEW how, NEW F \in SUBSET report, NEW text, text = Redact(turn.cells, F, how)
    PROVE  /\ text \in Seq(Int)
           /\ Shown(text, turn.cells) = (DOMAIN turn.cells) \ UNION {Hidden(m, how) : m \in F}
           /\ \A i, j \in DOMAIN text : i < j /\ text[i] > 0 /\ text[j] > 0 => text[i] < text[j]
<1>1. PICK cells \in Seq(CellKinds) : cells = turn.cells
  BY DEF ScreenInv, Typed, TurnType
<1>2. F \in SUBSET Match(Len(cells)) /\ IsFiniteSet(F) /\ Apart(F)
  <2>1. IsFiniteSet(F)
    BY FS_Subset DEF ScreenInv, Reported
  <2> QED
    BY <1>1, <2>1 DEF ScreenInv, Reported, Apart
<1>3. text = Redact(cells, F, how)
  BY <1>1
<1>4. /\ text \in Seq(Int)
      /\ Shown(text, cells) = (DOMAIN cells) \ UNION {Hidden(m, how) : m \in F}
      /\ \A i, j \in DOMAIN text : i < j /\ text[i] > 0 /\ text[j] > 0 => text[i] < text[j]
  BY <1>2, <1>3, RedactFacts
<1> QED
  BY <1>1, <1>4

\* A span that is found lies in the text.
LEMMA FoundSpan ==
    ASSUME ScreenInv, NEW m \in report
    PROVE  m \in Match(Len(turn.cells)) /\ Len(turn.cells) \in Nat /\ DOMAIN turn.cells = 1..Len(turn.cells)
           /\ m.from \in Int /\ m.to \in Int /\ 1 <= m.from /\ m.from <= m.to /\ m.to <= Len(turn.cells)
<1>1. PICK cells \in Seq(CellKinds) : cells = turn.cells
  BY DEF ScreenInv, Typed, TurnType
<1>2. PICK n \in Nat : n = Len(cells) /\ DOMAIN cells = 1..n
  OBVIOUS
<1>3. m \in Match(n)
  BY <1>1, <1>2 DEF ScreenInv, Reported
<1>4. m \in [by : DOMAIN Recognizers, from : 1..n, to : 1..n, score : Int] /\ m.from <= m.to
  BY <1>3 DEF Match
<1>5. m.from \in Int /\ m.to \in Int /\ 1 <= m.from /\ m.from <= m.to /\ m.to <= n
  BY <1>4
<1> QED
  BY <1>1, <1>2, <1>3, <1>5

LEMMA Exact == ScreenInv => RedactionIsExact
<1> SUFFICES ASSUME ScreenInv, screening \in {"language", "scan", "passages"}, Rule("pii") PROVE RedactionIsExact
  BY DEF RedactionIsExact
<1>1. PICK how : how = Rule("mode")
  OBVIOUS
<1>2. decision.stored = Redact(turn.cells, report, how) /\ decision.text = Redact(turn.cells, Secrets(report), "mask")
  BY <1>1 DEF ScreenInv, Redacted
<1>3. /\ Shown(decision.stored, turn.cells) = (DOMAIN turn.cells) \ UNION {Hidden(m, how) : m \in report}
      /\ \A i, j \in DOMAIN decision.stored :
           i < j /\ decision.stored[i] > 0 /\ decision.stored[j] > 0 => decision.stored[i] < decision.stored[j]
  <2>1. report \in SUBSET report
    OBVIOUS
  <2> QED
    BY <1>2, <2>1, ShownWhen
<1>4. Shown(decision.text, turn.cells) = (DOMAIN turn.cells) \ UNION {Hidden(m, "mask") : m \in Secrets(report)}
  <2>1. Secrets(report) \in SUBSET report
    BY DEF Secrets
  <2> QED
    BY <1>2, <2>1, ShownWhen
<1>5. \A m : Hidden(m, "mask") = m.from..m.to
  BY DEF Hidden
<1>6. Shown(decision.text, turn.cells) = (DOMAIN turn.cells) \ Spans(Secrets(report))
  <2>1. {Hidden(m, "mask") : m \in Secrets(report)} = {m.from..m.to : m \in Secrets(report)}
    BY <1>5
  <2> QED
    BY <1>4, <2>1 DEF Spans
<1>7. (DOMAIN turn.cells) \ Spans(report) \subseteq Shown(decision.stored, turn.cells)
  <2> SUFFICES ASSUME NEW m \in report, NEW c \in Hidden(m, how) PROVE c \in Spans(report)
    BY <1>3
  <2>1. c \in m.from..m.to
    BY DEF Hidden
  <2> QED
    BY <2>1 DEF Spans
<1>8. ASSUME NEW m \in report
      PROVE  Cardinality(Shown(decision.stored, turn.cells) \cap (m.from..m.to))
                 <= IF how = "partial" THEN KeepChars ELSE 0
  <2>1. Shown(decision.stored, turn.cells) \cap (m.from..m.to) \in SUBSET ((m.from..m.to) \ Hidden(m, how))
    BY <1>3
  <2> QED
    BY <2>1, FoundSpan, FewShown
<1> QED
  BY <1>1, <1>3, <1>6, <1>7, <1>8 DEF RedactionIsExact

LEMMA NoSecret == ScreenInv => NoSecretIsShown
<1> SUFFICES ASSUME ScreenInv, Rule("normalise"), Rule("pii"), ~Rule("verify"),
                    screening \in {"language", "scan", "passages"},
                    NEW r \in Credentials, NEW m \in Found(Visible, r), ~(m.score < Confident)
             PROVE  \/ ~(m.from..m.to \subseteq Shown(decision.text, turn.cells))
                    \/ /\ \E o \in report : o.by \notin Credentials /\ Overlap(m, o) /\ o.score >= m.score
                       /\ ~(m.from..m.to \subseteq Shown(decision.stored, turn.cells)) \/ Rule("mode") = "partial"
  BY DEF NoSecretIsShown, Visible
<1>1. PICK cells \in Seq(CellKinds) : cells = turn.cells /\ cells = Visible
  BY DEF ScreenInv, Typed, TurnType, Taken
<1>2. report = Analyzed(cells)
  BY <1>1 DEF ScreenInv, Reported
<1>3. PICK n \in Nat : n = Len(cells)
  OBVIOUS
<1>4. r \in DOMAIN Recognizers
  BY ScreenAssumption
<1>5. m \in Found(cells, r) /\ m \in Match(n) /\ m.by = r
  BY <1>1, <1>3, <1>4, FoundFacts
<1>6. m.from \in Int /\ m.to \in Int /\ m.from <= m.to /\ m.score \in Int
  <2>1. m \in [by : DOMAIN Recognizers, from : 1..n, to : 1..n, score : Int] /\ m.from <= m.to
    BY <1>5 DEF Match
  <2> QED
    BY <2>1
<1>7. m \in Certain(cells)
  <2>1. Confident \in Int
    BY ScreenAssumption
  <2> QED
    BY <1>4, <1>5, <1>6, <2>1 DEF Certain
<1>8. ASSUME NEW o \in report, o.by \in Credentials, Overlap(m, o)
      PROVE  ~(m.from..m.to \subseteq Shown(decision.text, turn.cells))
  <2>1. o.from \in Int /\ o.to \in Int /\ o.from <= o.to
    BY FoundSpan
  <2>2. PICK c \in m.from..m.to : c \in o.from..o.to
    <3>1. CASE m.from <= o.from
      <4>1. o.from \in m.from..m.to /\ o.from \in o.from..o.to
        BY <1>6, <1>8, <2>1, <3>1 DEF Overlap
      <4> QED
        BY <4>1
    <3>2. CASE o.from <= m.from
      <4>1. m.from \in m.from..m.to /\ m.from \in o.from..o.to
        BY <1>6, <1>8, <2>1, <3>2 DEF Overlap
      <4> QED
        BY <4>1
    <3> QED
      BY <1>6, <2>1, <3>1, <3>2
  <2>3. o \in Secrets(report)
    BY <1>8 DEF Secrets
  <2>4. Shown(decision.text, turn.cells) = (DOMAIN turn.cells) \ Spans(Secrets(report))
    BY Exact DEF RedactionIsExact
  <2>5. c \in Spans(Secrets(report))
    BY <2>2, <2>3 DEF Spans
  <2> QED
    BY <2>2, <2>4, <2>5
<1>9. CASE m \in report
  <2>1. Overlap(m, m)
    BY <1>6 DEF Overlap
  <2> QED
    BY <1>5, <1>8, <1>9, <2>1
<1>10. CASE m \notin report
  <2>1. PICK o \in report : Overlap(m, o) /\ Better(o, m)
    BY <1>2, <1>7, <1>10, AnalyzedFacts
  <2>2. o \in Match(n) /\ o.from \in Int /\ o.to \in Int /\ o.from <= o.to
    BY <1>1, <1>3, <2>1, FoundSpan
  <2>3. o.score \in Int
    BY <2>2 DEF Match
  <2>4. o.score >= m.score
    BY <1>6, <2>1, <2>3 DEF Better
  <2>5. CASE o.by \in Credentials
    BY <1>8, <2>1, <2>5
  <2>6. CASE o.by \notin Credentials /\ Rule("mode") = "partial"
    BY <2>1, <2>4, <2>6
  <2>7. CASE o.by \notin Credentials /\ Rule("mode") # "partial"
    <3>1. PICK c \in m.from..m.to : c \in o.from..o.to
      <4>1. CASE m.from <= o.from
        <5>1. o.from \in m.from..m.to /\ o.from \in o.from..o.to
          BY <1>6, <2>1, <2>2, <4>1 DEF Overlap
        <5> QED
          BY <5>1
      <4>2. CASE o.from <= m.from
        <5>1. m.from \in m.from..m.to /\ m.from \in o.from..o.to
          BY <1>6, <2>1, <2>2, <4>2 DEF Overlap
        <5> QED
          BY <5>1
      <4> QED
        BY <1>6, <2>2, <4>1, <4>2
    <3>2. c \in Hidden(o, Rule("mode"))
      BY <2>7, <3>1 DEF Hidden
    <3>3. decision.stored = Redact(turn.cells, report, Rule("mode")) /\ report \in SUBSET report
      BY DEF ScreenInv, Redacted
    <3>4. Shown(decision.stored, turn.cells) = (DOMAIN turn.cells) \ UNION {Hidden(x, Rule("mode")) : x \in report}
      BY <3>3, ShownWhen
    <3>5. c \notin Shown(decision.stored, turn.cells)
      BY <2>1, <3>2, <3>4
    <3> QED
      BY <2>1, <2>4, <2>7, <3>1, <3>5
  <2> QED
    BY <2>5, <2>6, <2>7
<1> QED
  BY <1>9, <1>10

(* The screening hides what it must and nothing else, whatever the turns, the recognisers,
   the settings and the weights; it tells why it refuses; no outage of the classifier turns a
   verdict of the patterns around; and every passage is accounted for. *)
THEOREM ScreeningSound == ScreenSpec => []ScreeningIsSound
<1>1. ScreenInv => ScreeningIsSound
  <2> SUFFICES ASSUME ScreenInv PROVE ScreeningIsSound
    OBVIOUS
  <2>1. RefusalIsTold
    BY DEF ScreenInv, Decided, Calm, Stopped, RefusalIsTold
  <2>2. OutageKeepsVerdict /\ PassagesAreAccounted
    BY DEF ScreenInv, Filing
  <2> QED
    BY <2>1, <2>2, Exact, NoSecret DEF ScreeningIsSound
<1> QED
  BY <1>1, ScreenHolds, PTL

\* The types of the screening: findings are spans of the text, scores parts of a hundred.
THEOREM ScreenTypes == ScreenSpec => []ScreenTypeOK
<1>1. ScreenInv => ScreenTypeOK
  <2> SUFFICES ASSUME ScreenInv PROVE ScreenTypeOK
    OBVIOUS
  <2>1. decision.action \in {"allow", "redact", "warn", "block", "clarify"}
    BY DEF ScreenInv, Decided, Calm, Stopped, DecisionType, Actions
  <2>2. screening \notin {"normalise", "decided"} => Len(turn.cells) \in Min({MinChars, MaxChars})..MaxChars
    BY DEF ScreenInv, Taken
  <2>3. \A m \in report : 1 <= m.from /\ m.from <= m.to /\ m.to <= Len(turn.cells)
    BY FoundSpan
  <2>4. verdict.score \in 0..100
    BY DEF ScreenInv, Typed, VerdictType
  <2>5. screened.kept \cup screened.quarantined \subseteq DOMAIN passages
    <3>1. PICK size \in Nat : size = Len(passages) /\ DOMAIN passages = 1..size
      BY DEF ScreenInv, Typed
    <3>2. PICK h \in 0..size : screened.kept \cup screened.quarantined = 1..h
      BY <3>1 DEF ScreenInv, Filing
    <3> QED
      BY <3>1, <3>2
  <2> QED
    BY <2>1, <2>2, <2>3, <2>4, <2>5 DEF ScreenTypeOK
<1> QED
  BY <1>1, ScreenHolds, PTL
=============================================================================
