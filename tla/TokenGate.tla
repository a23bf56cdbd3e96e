------------------------------ MODULE TokenGate ------------------------------
(***************************************************************************)
(* From a request to its caller (services/api/app/auth): the bearer token, *)
(* the signing key it names, its claims, the groups of a caller who has    *)
(* too many for the token, the clearance they give and the role a route    *)
(* asks for.                                                               *)
(*                                                                         *)
(* Requests of one worker interleave at every await: the fetch of the      *)
(* keys, under a lock, and the calls of the directory, under none. Every   *)
(* request is of one user and asks about one group.                        *)
(***************************************************************************)
EXTENDS Integers, FiniteSets, FiniteSetsExt

CONSTANTS
    Requests,
    Kids,           \* key ids
    Scenes,         \* a mode, and per request the token and whether the dev header comes
    FirstKeys,      \* the keys published at first
    KeyLife,        \* entra_jwks_cache_seconds, in ticks
    KeyPause,       \* entra_jwks_refresh_min_seconds
    KeyTimeout,     \* entra_jwks_timeout_seconds
    GroupLife,      \* entra_group_cache_seconds
    Leeway,
    GroupRank,      \* entra_clearance_groups, of the one group
    RoleRank,       \* entra_clearance_roles, of the role "rag.admin"
    DefaultRank,    \* entra_default_classification
    MaxTime         \* bound: the last tick

VARIABLES
    gateClock,
    mode,
    published,      \* the keys the identity provider publishes
    member,         \* whether the user is in the group, and when the user last left
    jwks,           \* JWKSCache: its keys and times, and the request that holds its lock
    groupCache,     \* the groups of the user, and until when
    requests

gateVars == <<gateClock, mode, published, member, jwks, groupCache, requests>>

Nobody   == "nobody"
Never    == -100
TokenType == [kid : Kids \cup {"none"}, sound : BOOLEAN, scoped : BOOLEAN, expires : 0..MaxTime + 9,
              overage : BOOLEAN, admin : BOOLEAN]

ASSUME GateAssumption ==
    /\ KeyLife \in Nat \ {0} /\ GroupLife \in Nat \ {0} /\ FirstKeys \subseteq Kids
    /\ {KeyPause, KeyTimeout, Leeway, MaxTime} \subseteq Nat /\ Nobody \notin Requests
    /\ \A scene \in Scenes : scene.token \in [Requests -> TokenType]

NewRequest(token, header) == [at |-> "new", token |-> token, header |-> header, asked |-> Never,
                              groups |-> FALSE, rank |-> 0]

GateInit ==
    /\ gateClock = 0
    /\ published = FirstKeys
    /\ member = [in |-> TRUE, left |-> Never]
    /\ jwks = [keys |-> {}, fetched |-> Never, tried |-> Never, lock |-> Nobody]
    /\ groupCache = [known |-> FALSE, groups |-> FALSE, until |-> Never]
    /\ \E scene \in Scenes :
          /\ mode = scene.mode
          /\ requests = [r \in Requests |-> NewRequest(scene.token[r], r \in scene.headers)]

GateTypeOK ==
    /\ jwks.keys \subseteq Kids /\ jwks.lock \in Requests \cup {Nobody}
    /\ \A r \in Requests :
         /\ requests[r].at \in {"new", "stale", "fetch", "unknown", "refetch", "groups",
                                 "in", "out", "down", "misconfigured"}
         /\ requests[r].token \in TokenType /\ requests[r].groups \in BOOLEAN
-----------------------------------------------------------------------------
(* The world. *)
Pass(time) == /\ gateClock < MaxTime /\ gateClock' = time
              /\ jwks.lock # Nobody => time <= jwks.tried + KeyTimeout
              /\ member' = [member EXCEPT !.left = IF @ + GroupLife <= time THEN Never ELSE @]
              /\ UNCHANGED <<mode, published, jwks, groupCache, requests>>
Rotate(keys) == /\ keys # {} /\ keys # published /\ published' = keys
                /\ UNCHANGED <<gateClock, mode, member, jwks, groupCache, requests>>
ChangeGroup == /\ member' = [in |-> ~member.in, left |-> IF member.in THEN gateClock ELSE member.left]
               /\ UNCHANGED <<gateClock, mode, published, jwks, groupCache, requests>>
-----------------------------------------------------------------------------
\* One step of a request, and of nothing else.
Goes(r, to) == /\ requests' = [requests EXCEPT ![r].at = to]
               /\ UNCHANGED <<gateClock, mode, published, member>>
GoesOn(r, request) == /\ requests' = [requests EXCEPT ![r] = request]
                      /\ UNCHANGED <<gateClock, mode, published, member>>

KeysExpired == jwks.keys = {} \/ gateClock - jwks.fetched >= KeyLife

\* The clearance of roles and groups: the highest that one of them gives, or the default.
Clearance(admin, grouped) == LET given == (IF admin THEN {RoleRank} ELSE {}) \cup (IF grouped THEN {GroupRank} ELSE {})
                             IN  IF given = {} THEN DefaultRank ELSE Max(given)

\* principal_from_claims.
Admitted(request, groups) == [request EXCEPT
    !.at = "in", !.asked = Never, !.groups = groups, !.rank = Clearance(request.token.admin, groups)]
Refused(request) == [request EXCEPT !.at = "out", !.asked = Never, !.groups = FALSE, !.rank = 0]

(* decode, once it has the key: signature, times, audience, issuer, directory and scope; then
   the groups, which are the token's, the cache's or have to be asked for. *)
Sound(token) == token.sound /\ gateClock - Leeway < token.expires /\ token.scoped
Verified(request) ==
    IF ~Sound(request.token) THEN Refused(request)
    ELSE IF ~request.token.overage THEN Admitted(request, FALSE)
    ELSE IF groupCache.known /\ groupCache.until > gateClock
         THEN Admitted(request, groupCache.groups)
    ELSE [request EXCEPT !.at = "groups", !.asked = gateClock]

(* key_for, with the keys there are: an unknown key id is worth one more fetch, unless the
   last one was a moment ago. *)
Checked(request, cache, again) ==
    IF request.token.kid \in cache.keys THEN Verified(request)
    ELSE IF ~again /\ gateClock - cache.tried >= KeyPause THEN [request EXCEPT !.at = "unknown"]
    ELSE Refused(request)

ArriveTrusting(r) ==
    LET request == requests[r] IN
    /\ request.at = "new"
    /\ GoesOn(r, IF request.token.kid = "none" THEN Refused(request)
                 ELSE IF jwks.keys = {} THEN [request EXCEPT !.at = "stale"]
                 ELSE Checked(request, jwks, FALSE))
    /\ UNCHANGED <<jwks, groupCache>>

(* get_principal: an unsigned caller of the development mode, which production refuses, or
   a bearer token with an algorithm and a key id. *)
Arrive(r) ==
    LET request == requests[r] IN
    /\ request.at = "new"
    /\ \/ mode = "devInProduction" /\ Goes(r, "misconfigured")
       \/ mode = "dev" /\ request.header /\ GoesOn(r, Admitted(request, FALSE))
       \/ /\ mode = "entra" \/ (mode = "dev" /\ ~request.header)
          /\ GoesOn(r, IF request.token.kid = "none" THEN Refused(request)
                       ELSE IF KeysExpired THEN [request EXCEPT !.at = "stale"]
                       ELSE Checked(request, jwks, FALSE))
    /\ UNCHANGED <<jwks, groupCache>>
-----------------------------------------------------------------------------
(* JWKSCache.refresh, forced: under the lock, one request to the identity provider, even
   when another has just had an answer. *)
BeginFetch(r) ==
    /\ requests[r].at \in {"stale", "unknown"} /\ jwks.lock = Nobody
    /\ jwks' = [jwks EXCEPT !.lock = r, !.tried = gateClock]
    /\ Goes(r, IF requests[r].at = "stale" THEN "fetch" ELSE "refetch") /\ UNCHANGED groupCache

Fetching(r) == requests[r].at \in {"fetch", "refetch"}

FetchAnswers(r) ==
    /\ Fetching(r)
    /\ jwks' = [jwks EXCEPT !.keys = published, !.fetched = gateClock, !.lock = Nobody]
    /\ GoesOn(r, Checked(requests[r], jwks', requests[r].at = "refetch")) /\ UNCHANGED groupCache

\* No answer, or one without a usable key: the keys that are there go on being used.
FetchFails(r) ==
    /\ Fetching(r)
    /\ jwks' = [jwks EXCEPT !.lock = Nobody]
    /\ GoesOn(r, IF jwks.keys = {} THEN [requests[r] EXCEPT !.at = "down"]
                 ELSE Checked(requests[r], jwks', requests[r].at = "refetch"))
    /\ UNCHANGED groupCache
-----------------------------------------------------------------------------
LearnedFromAnswer(r, groups) ==
    [groupCache EXCEPT !.known = TRUE, !.groups = groups, !.until = MaxTime + GroupLife]

\* What the directory, or its failure, says is the user's groups from the time they were asked for.
Learned(r, groups) == [groupCache EXCEPT !.known = TRUE, !.groups = groups, !.until = requests[r].asked + GroupLife]

DirectoryAnswers(r) ==
    /\ requests[r].at = "groups"
    /\ groupCache' = Learned(r, member.in) /\ requests' = [requests EXCEPT ![r] = Admitted(@, member.in)]
    /\ UNCHANGED <<gateClock, mode, published, member, jwks>>

(* No token of the API's own, from the managed identity or for a secret, or a page that fails:
   no groups, and so it is remembered. *)
DirectoryFails(r) ==
    /\ requests[r].at = "groups"
    /\ groupCache' = Learned(r, FALSE) /\ requests' = [requests EXCEPT ![r] = Admitted(@, FALSE)]
    /\ UNCHANGED <<gateClock, mode, published, member, jwks>>

\* require_roles: an admin route wants the role, whoever the caller is.
Guard(r) ==
    /\ requests[r].at = "in" /\ ~requests[r].token.admin
    /\ GoesOn(r, Refused(requests[r])) /\ UNCHANGED <<jwks, groupCache>>
-----------------------------------------------------------------------------
GateNext ==
    \/ Pass(gateClock + 1) \/ ChangeGroup \/ \E keys \in SUBSET Kids : Rotate(keys)
    \/ \E r \in Requests :
          \/ Arrive(r) \/ BeginFetch(r) \/ FetchAnswers(r) \/ FetchFails(r)
          \/ DirectoryAnswers(r) \/ DirectoryFails(r) \/ Guard(r)

GateSpec == GateInit /\ [][GateNext]_gateVars
-----------------------------------------------------------------------------
\* Whether the keys were within their life when they were last looked at, or their publisher
\* was asked again after it.
Vouched == gateClock - jwks.fetched < KeyLife + KeyTimeout \/ jwks.tried - jwks.fetched >= KeyLife

(* A key past its life vouches for a caller only after the identity provider was asked for
   the keys again, and gave none (JWKSCache.key_for, refresh). *)
KeysAreAskedFor == [][\A r \in Requests :
    /\ mode = "entra" /\ requests[r].at \in {"new", "fetch", "refetch"} /\ requests'[r].at \in {"groups", "in"}
    => Vouched']_gateVars

(* A group a caller has lost opens nothing for longer than the cache of groups lasts
   (resolve_groups): whatever the order of the answers of the directory, the groups of an
   admitted caller were the caller's at most that long ago. *)
LostGroupsRunOut == [][\A r \in Requests :
    requests[r].at # "in" /\ requests'[r].at = "in" /\ requests'[r].groups =>
        member.in \/ gateClock < member.left + GroupLife]_gateVars

(* What admits a caller is current, within the lives of the two caches. *)
CallersAreCurrent == KeysAreAskedFor /\ LostGroupsRunOut
=============================================================================
