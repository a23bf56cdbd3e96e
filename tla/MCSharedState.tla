----------------------------- MODULE MCSharedState -----------------------------
(***************************************************************************)
(* What outlives a request and what requests share: the session's window,  *)
(* the user's memories and the retrieval plans of the chat, the manifest   *)
(* of a source, the chunks of its documents in the index, the run of an    *)
(* evaluation, the caches of the admission, and the callers' budgets.      *)
(* These parts share no state with each other, so one of them is checked   *)
(* at a time: `part' says which, and the others keep one of their initial  *)
(* states.                                                                 *)
(***************************************************************************)
EXTENDS ChunkUpsert, SessionWindow, LongTermMemory, SemanticCache, ManifestStore, EvalRun, Admission

VARIABLE part

sharedVars == <<part, windowVars, memoryVars, cacheVars, vars, evalVars, gateVars, budgetVars, chunkVars>>

\* Evaluation: a question to refuse, one for a tool, one about documents of another tenant.
GoldenOf(refusal, tool, documents, tenant) ==
    [refusal |-> refusal, tool |-> tool, documents |-> documents, tenant |-> tenant]
ToRefuse   == GoldenOf(TRUE, FALSE, FALSE, 1)
OfOthers   == GoldenOf(FALSE, FALSE, TRUE, 2)
SomeGolden == <<ToRefuse, GoldenOf(FALSE, TRUE, FALSE, 1), OfOthers>>
LimitsOf(gate, aclLeak, refusal, live) ==
    [gate |-> gate, aclLeak |-> aclLeak, refusal |-> refusal, quality |-> 1, tool |-> 2,
     recall |-> 1, live |-> live]
SomeLimits    == {LimitsOf(TRUE, 2, 0, TRUE), LimitsOf(TRUE, 0, 2, FALSE), LimitsOf(FALSE, 0, 0, FALSE)}
SomeBaselines == {[passed |-> {}, failed |-> {}], [passed |-> {ToRefuse}, failed |-> {OfOthers}]}

\* Admission: a caller with too many groups, beside one with a new key, a short token, the role, or no token.
TokenOf(kid, sound, expires, overage, admin) ==
    [kid |-> kid, sound |-> sound, scoped |-> TRUE, expires |-> expires, overage |-> overage, admin |-> admin]
GroupToken == TokenOf("k1", TRUE, 9, TRUE, FALSE)
Scene(m, token, headers) ==
    [mode |-> m, headers |-> headers, token |-> [r1 |-> GroupToken, r2 |-> token]]
SomeScenes == {Scene("entra", GroupToken, {}), Scene("entra", TokenOf("k2", TRUE, 1, TRUE, TRUE), {}),
               Scene("entra", TokenOf("k2", TRUE, 9, FALSE, TRUE), {}),
               Scene("dev", TokenOf("none", FALSE, 9, FALSE, FALSE), {"r1"}),
               Scene("devInProduction", GroupToken, {"r1"})}

\* Chunks: a text alone, nearly the same text with a blank, and that one grown by a third,
\* which is nearly the second and not the first.
SomeDrafts == {<<"a">>, <<"b", " ">>, <<"c", "b">>}
SomeNear   == {{"a", "b"}, {"b", "c"}}
-----------------------------------------------------------------------------
\* A part that does not run has one initial state.
Starts(p, Initial, resting) == ((part = p) \/ (part # p /\ resting)) /\ Initial

SharedInit ==
    /\ part \in {"window", "memory", "cache", "manifest", "eval", "gate", "budget", "chunks"}
    /\ WindowInit /\ MemoryInit /\ CacheInit
    /\ Starts("manifest", Init, Provisioned => blob = [version |-> 1, entries |-> Empty])
    /\ Starts("eval", EvalInit, limits = LimitsOf(TRUE, 0, 2, FALSE) /\ selection = <<ToRefuse>>)
    /\ Starts("gate", GateInit,
              /\ mode = "entra"
              /\ requests = [r \in Requests |-> NewRequest(GroupToken, FALSE)])
    /\ Starts("budget", BudgetInit, link = [w \in Replicas |-> "off"])
    /\ Starts("chunks", ChunkInit,
              /\ drafts = [d \in Documents |-> <<"a">>] /\ oneForAll = TRUE)

SharedNext ==
    /\ UNCHANGED part
    /\ \/ /\ part = "window" /\ WindowNext
          /\ UNCHANGED <<memoryVars, cacheVars, vars, evalVars, gateVars, budgetVars,
                         chunkVars>>
       \/ /\ part = "memory" /\ MemoryNext
          /\ UNCHANGED <<windowVars, cacheVars, vars, evalVars, gateVars, budgetVars,
                         chunkVars>>
       \/ /\ part = "cache" /\ CacheNext
          /\ UNCHANGED <<windowVars, memoryVars, vars, evalVars, gateVars, budgetVars,
                         chunkVars>>
       \/ /\ part = "manifest" /\ Next
          /\ UNCHANGED <<windowVars, memoryVars, cacheVars, evalVars, gateVars, budgetVars,
                         chunkVars>>
       \/ /\ part = "eval" /\ EvalNext
          /\ UNCHANGED <<windowVars, memoryVars, cacheVars, vars, gateVars, budgetVars,
                         chunkVars>>
       \/ /\ part = "gate" /\ GateNext
          /\ UNCHANGED <<windowVars, memoryVars, cacheVars, vars, evalVars, budgetVars,
                         chunkVars>>
       \/ /\ part = "budget" /\ BudgetNext
          /\ UNCHANGED <<windowVars, memoryVars, cacheVars, vars, evalVars, gateVars,
                         chunkVars>>
       \/ /\ part = "chunks" /\ ChunkNext
          /\ UNCHANGED <<windowVars, memoryVars, cacheVars, vars, evalVars, gateVars,
                         budgetVars>>

SharedSpec == SharedInit /\ [][SharedNext]_sharedVars
-----------------------------------------------------------------------------
\* The types of the part that runs.
SharedTypeOK ==
    CASE part = "window"   -> WindowTypeOK
      [] part = "memory"   -> MemoryTypeOK
      [] part = "cache"    -> CacheTypeOK
      [] part = "manifest" -> TypeOK
      [] part = "eval"     -> EvalTypeOK
      [] part = "gate"     -> GateTypeOK
      [] part = "budget"   -> BudgetTypeOK
      [] part = "chunks"   -> ChunkTypeOK
=============================================================================
