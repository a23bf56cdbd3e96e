----------------------------- MODULE RequestBudget -----------------------------
(***************************************************************************)
(* The budget of one caller (services/api/app/deps.py, RateLimiter): a     *)
(* counter per minute that the replicas share in Redis, and a bucket of    *)
(* its own that a replica falls back to, for good, once Redis has failed   *)
(* it. The limiter of tool calls (tools/registry.py) is the same bucket    *)
(* without the shared counter.                                             *)
(***************************************************************************)
EXTENDS Integers, Sequences, FiniteSets, FiniteSetsExt

CONSTANTS
    Replicas,
    PerMinute,     \* api_rate_limit_per_minute; a minute is as many ticks
    Burst,
    LastTick,      \* bound
    MaxAdmitted    \* bound: the requests of a behaviour that are admitted

VARIABLES
    tick,
    counter,       \* per minute, what Redis has counted
    link,          \* per replica: the client is unset, ready, or given up
    bucket,        \* per replica: the tokens, and when they were last looked at
    passed         \* the admitted requests: [at, by, shared]

ASSUME BudgetAssumption == PerMinute \in Nat \ {0} /\ Burst \in Nat /\ LastTick \in Nat /\ MaxAdmitted \in Nat

budgetVars == <<tick, counter, link, bucket, passed>>

Minute(t) == t \div PerMinute
Capacity  == PerMinute + Burst
FullBucket == [tokens |-> Capacity, seen |-> 0, used |-> FALSE]

BudgetInit ==
    /\ tick = 0 /\ counter = [m \in 0..Minute(LastTick) |-> 0]
    /\ link \in [Replicas -> {"unset", "off"}]
    /\ bucket = [w \in Replicas |-> FullBucket] /\ passed = <<>>

BudgetTypeOK ==
    /\ \A w \in Replicas : bucket[w].tokens \in 0..Capacity /\ link[w] \in {"unset", "ready", "off"}
    /\ Len(passed) <= MaxAdmitted

Later == /\ tick < LastTick /\ tick' = tick + 1
         /\ UNCHANGED <<counter, link, bucket, passed>>

\* _client: made once; without Redis in the settings there never is one.
Connect(w) == /\ link[w] = "unset" /\ link' = [link EXCEPT ![w] = "ready"]
              /\ UNCHANGED <<tick, counter, bucket, passed>>

Admit(w, shared) == passed' = Append(passed, [at |-> tick, by |-> w, shared |-> shared])

\* _acquire_redis: what is refused is counted as well.
AcquireShared(w) ==
    /\ link[w] = "ready" /\ Len(passed) < MaxAdmitted /\ counter[Minute(tick)] <= Capacity + 1
    /\ counter' = [counter EXCEPT ![Minute(tick)] = @ + 1]
    /\ IF counter[Minute(tick)] + 1 > Capacity THEN UNCHANGED passed ELSE Admit(w, TRUE)
    /\ UNCHANGED <<tick, link, bucket>>

RefilledOver(w) == IF bucket[w].used THEN Min({2 * Capacity, bucket[w].tokens + (tick - bucket[w].seen)}) ELSE Capacity

\* A token comes back every tick, up to the capacity; a first request finds them all.
Refilled(w) == IF bucket[w].used THEN Min({Capacity, bucket[w].tokens + (tick - bucket[w].seen)}) ELSE Capacity

\* _acquire_local.
TakeLocal(w) ==
    /\ bucket' = [bucket EXCEPT ![w] = [tokens |-> IF Refilled(w) < 1 THEN Refilled(w) ELSE Refilled(w) - 1,
                                        seen |-> tick, used |-> TRUE]]
    /\ IF Refilled(w) < 1 THEN UNCHANGED passed ELSE Admit(w, FALSE)

AcquireLocal(w) ==
    /\ link[w] = "off" /\ Len(passed) < MaxAdmitted /\ TakeLocal(w)
    /\ UNCHANGED <<tick, counter, link>>

\* Redis fails a replica, before or after it has counted: that request and all later ones are local.
FallBack(w) ==
    /\ link[w] = "ready" /\ Len(passed) < MaxAdmitted /\ counter[Minute(tick)] <= Capacity
    /\ link' = [link EXCEPT ![w] = "off"] /\ TakeLocal(w)
    /\ \E counted \in {0, 1} : counter' = [counter EXCEPT ![Minute(tick)] = @ + counted]
    /\ UNCHANGED tick

BudgetNext == Later \/ \E w \in Replicas : Connect(w) \/ AcquireShared(w) \/ AcquireLocal(w) \/ FallBack(w)
BudgetSpec == BudgetInit /\ [][BudgetNext]_budgetVars
-----------------------------------------------------------------------------
(* What gets through is bounded over all replicas: in a minute of the clock no more than the
   limit by the shared counter, and from any tick on no more than a full bucket and what
   came back since by the bucket of each replica (RateLimiter.acquire). *)
PassedBy(P(_)) == Cardinality({i \in DOMAIN passed : P(passed[i])})
BudgetIsKept ==
    /\ \A m \in DOMAIN counter : PassedBy(LAMBDA p : p.shared /\ Minute(p.at) = m) <= Capacity
    /\ \A w \in Replicas : \A from \in 0..tick :
          PassedBy(LAMBDA p : ~p.shared /\ p.by = w /\ p.at >= from) <= Capacity + (tick - from)
=============================================================================
