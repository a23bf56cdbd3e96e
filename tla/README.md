# A TLA+ model of the RAG platform

The repository is a retrieval-augmented chat product: Azure Functions that ingest
documents from several kinds of source into a vector index, an API that answers questions
over that index with sessions, memory, tools and guardrails, a browser client, and an
evaluation that gates releases. This directory models the parts that keep state or make
decisions in TLA+, checks the models with TLC on small instances, and proves the main
properties of most of those that keep state with TLAPS, for every value of the constants.

Contents: 1 the system, 2 the modules and how they correspond to the code, 3 what the
runs check, 4 where the code and its documents disagree, 5 what is proved, 6 what is not
modelled, 7 what could come next.

Paths are relative to `src/`; `I/` stands for `services/ingestion/ingestion/`, `A/` for
`services/api/app/`, `G/` for `packages/ragcore/ragcore/`, `W/` for `web/src/`.

## 1. The system

### Ingestion

A *source* is a row of `source_configs`: a blob container, a SharePoint drive, a SQL
table, a local folder or a web site. A *run* brings the index in line with one source.
It has three phases (`I/pipeline.py`):

| phase | function | reads | writes |
|---|---|---|---|
| plan | `plan_source` | the listing, the cursor, the manifest | the run's tasks and missing ids, in memory or in a Durable envelope |
| process | `process_document`, one task per document, in parallel | the document, the plan's manifest entry | Qdrant points, then the `documents` row |
| finalize | `finalize_run` | the outcomes | tombstones of missing documents, the manifest blob, `ingest_runs`, `source_configs.cursor` |

The same facts therefore live in four stores that no transaction joins: the **points**,
the **documents row**, the **manifest entry** (ETag, content hash, ACL fingerprint, live
or deleted, last seen) and the source's **cursor**. All of the pipeline's correctness is
about how these four may differ after a step fails.

Runs are started by `ingest_timer` (nightly), `ingest_http`, `ingest_blob` (one document),
`ingest_retry` (one task, or a reindex) and `ingest_orchestrator` (Durable: plan, waves of
document activities, finalize).

| component | state | operations | what is hard | what makes it correct |
|---|---|---|---|---|
| run of one source (`I/pipeline.py`, `I/delta.py`) | the four stores, the plan, the tasks | list, classify in two phases, fetch, index, write row, tombstone, fold, save, record | the source changes at every step; documents fail one by one; the worker dies anywhere; the plan is stale when used | a document that will be skipped is served as it is; the cursor never passes a change that is not indexed; a deletion is inferred only from a pass that saw everything; the index converges |
| connectors (`I/connectors/`) | a cursor, a link or a watermark | list since a cursor, fetch unless not modified, resolve the ACL | incremental and full listings mean different things; a "not modified" answer hides a lost index | what a listing leaves out is either unchanged or behind no cursor |
| manifest store (`I/delta.py`) | one blob per source with an ETag | load, save if unchanged, merge, retry | concurrent runs, lost answers, a run executed twice | what a finished save recorded is not lost |
| chunk upsert, dedupe (`I/upsert.py`, `G/dedupe.py`) | points by chunk, ownership of shared chunks | upsert, prune, drop duplicates | the order of documents decides who owns a chunk | every text of a written document is in the index, once |
| HTTP crawler (`I/connectors/http_crawler.py`) | the frontier, the pages asked for, the answers | crawl level by level, ask conditionally, list | a page that does not answer looks deleted; a "not modified" page shows no links; the cap | what is within reach is asked for; nothing is hidden without a reason |
| triggers, Durable orchestration (`services/ingestion/function_app.py`) | envelopes, queue messages | fan out, retry, poison queue | activities run at least once; two triggers of one source overlap | each outcome is folded once and none is lost |
| document admin (`A/routers/documents.py`) | documents rows, points | delete, reindex | beside a run in progress | a deleted document stays deleted |

### A chat turn

`A/rag/orchestrator.py` answers a turn in thirteen stages: input guard, memory load, query
transform, cache probe, retrieve, out-of-domain gate, contradiction, tool plan, context
assembly, generate, citations, output guard, memory write-back. Input guard, retrieve,
context assembly, generate and output guard are essential; the others degrade to a warning
event. Every exit emits `context_stats`, `usage` and `done`. An outage of Postgres means
"answered but not recorded".

| component | state | operations | what is hard | what makes it correct |
|---|---|---|---|---|
| orchestrator, stream (`A/rag/orchestrator.py`, `A/routers/chat.py`) | the turn, its rows, a bounded buffer | the stages; heartbeat, sentinel, disconnect | a failure at each stage and each commit; a slow client | events in order, `done` once and last, every loss told |
| session window (`A/rag/memory/short_term.py`) | a cached window, `messages` rows, a rolling summary | hydrate, append, compact, suppress, clear | the cache is written before the commit; caches forget | a suppressed turn is in the summary; a suppressed turn is not replayed |
| context assembly (`A/rag/context.py`) | token budgets | pack, shed, number the sources | estimates against measures, for a bounded number of passes; pinned turns | the prompt fits when it can; every chunk is cited or dropped with a reason |
| long-term memory (`A/rag/memory/`) | points and rows of memories, consent | recall, write back, supersede, prune, consolidate, forget | all of them at once, two copies, no transaction | bounded growth; nothing is lost or comes back without a reason |
| semantic cache (`A/rag/memory/semantic_cache.py`) | retrieval plans with the ids they found | probe, resolve, touch, store, evict | access changes after the store; evictions that fail | a hit gives only what the caller may read now |
| retrieval and gate (`A/rag/retriever.py`, `A/rag/mmr.py`, `A/rag/guardrails/ood.py`) | the pool of a question | search, merge, dedupe, rerank, diversify, cut, judge | probes and the reranker fail | every drop has one reason; the best stays; an outage is not a refusal |
| query plan (`A/rag/query_transform.py`) | - | read a model's plan, merge it with the caller's filter | broken answers, dates | the caller's range stands |
| access rule (`G/models/acl.py`, `G/vectorstore/filters.py`) | - | check, filter, layer defaults, merge filters | one rule written several times | all of them are the same rule |
| input guard, PII (`A/rag/guardrails/`, `G/pii/`) | - | normalise, detect, redact, judge | overlaps, hidden characters, outages | what is hidden is exactly what was found |
| contradictions (`A/rag/guardrails/contradiction.py`) | - | cluster, pair, judge, note | four bases, renumbered markers | the later source is the current one |
| citations, output guard (`A/rag/citations.py`, `A/rag/guardrails/output_guard.py`) | - | check markers, ground claims, redact, replace | a stage fails after the answer is written | markers are backed, ungrounded answers are told, stored text is clean |
| tools (`A/rag/tools/`) | circuit, token, result cache; the turn's counters | offer, route, call, retry | concurrent callers, limits counted in several places | limits hold; an open circuit holds back |
| LLM client (`G/llm/client.py`) | one call | build, attempt, stream, parse, meter | a stream that fails half way | what is heard is one answer |
| admission (`A/auth/`, `A/deps.py`) | keys, groups, budgets | validate, refresh, resolve groups, count | requests that wait for one refresh, Redis failing | callers are current; budgets hold |
| web client (`W/`) | the store, the reader's buffer | run, resend, stop, retry, sidebar, parse frames | late answers, streams that break or fall silent, chunking | what is shown is what was said; a turn the API lets go of ends |
| evaluation (`services/eval/`) | a run, its results, the reports | select, ask, score, gate, compare | averages, errors, skips | a green gate is earned |

The halves interact through shared state only: the points and the `documents` rows that
ingestion writes and retrieval reads, and the queue by which the admin API asks for a
reindex.

## 2. The modules

```
IngestRun ── IngestRunInv ── IngestRunProofs                    (theorems)
                  └───────── MCIngestRun                        (3 runs + 1)
ManifestRegister <─ refines ─ ManifestStore Crawler ── ManifestProofs  (theorems)
AccessFilter QueryPlan Contradictions Retrieval ── AccessProofs (theorems)
ChunkUpsert EvalRun WebChat SseFrames ── HonestyProofs          (theorems)
SessionWindow LongTermMemory SemanticCache ToolCalls ── SharedProofs  (theorems)
TokenGate RequestBudget ── Admission  InputGuard ── GateProofs  (theorems)
ChatTurn ToolLoop AnswerGuard LlmCall ContextPacking ── ChatProofs    (theorems)
Listing ── DataLemmas                                           (shared lemmas)

MCSharedState = SessionWindow LongTermMemory SemanticCache ManifestStore
                ChunkUpsert EvalRun Admission
MCChatTurn    = ChatTurn ToolLoop MCContextPacking(ContextPacking) AnswerGuard
MCServices    = AccessFilter MCRetrieval(Retrieval) InputGuard Contradictions
                QueryPlan ToolCalls
MCStreams     = WebChat MCSseFrames(SseFrames) LlmCall Crawler
```

`Listing` has the two operators by which the modules make a sequence of a set (`Sorted`, in an
order) or of some places of a sequence (`Picked`), given member by member. `DataLemmas` has
what is proved about them once for all proof modules, with induction and recursion over the
numbers, sums, orders and minima of finite sets.

An `MC` module of the lower half gathers components that share no state. A variable `part`
says which of them runs; the others keep one of their initial states, so the states of the
instance are the sum of the components' states and not their product. A property of one
component holds trivially where another runs, and is exercised where its own does.

### IngestRun: one source, run after run

| variable | in the code |
|---|---|
| `src` | what the source would list and download: present, larger than `ingest_max_document_bytes`, ETag, content, ACL, the time of the latest change |
| `points` | the document's Qdrant points: none, live or tombstoned; the content hash and ACL of their payload |
| `rows` | the `documents` row |
| `manifest` | the stored manifest, `ManifestEntry` by document |
| `cursor` | `source_configs.cursor` |
| `run` | `IngestPlan` and the phase: mode, start, new cursor, ids seen, skipped and missing, and the manifest loaded at the start (`prior`) |
| `work` | the `DocumentTask` and `DocumentOutcome` of each document and how far `_process` got |
| `last` | the latest `IngestRunSummary` |
| `clock`, `faults` | bounds |

An ETag, a content hash and an ACL fingerprint are the clock value at which they appeared.
That keeps equality and age, the only things the code (and the properties) ever ask of them.

| action | code |
|---|---|
| `StartRun` | the triggers: load manifest and cursor, open the enumeration |
| `ListDoc` | one descriptor of `list_documents`: ACL, `classify_document` phase 1, task |
| `EndList`, `ListFails` | the end of `plan_source`, whole or after a connector error; `ingest_single_document` reducing the plan |
| `Fetch` | connector fetch and `classify_document` phase 2, with every early return |
| `WriteIndex`, `WriteRow` | chunk, embed, upsert; then `upsert_document` |
| `AclIndex`, `LateAcl` | the ACL-only reindex found in phase 1 (with its row) and in phase 2 (without) |
| `DeleteIndex`, `DeleteRow` | a listed deletion |
| `FailDoc` | any exception of `_process`, before or after the index write |
| `TombstoneMissing`, `SaveManifest`, `RecordRun` | `finalize_run` |
| `Crash` | the worker dies between any two of these |
| `Edit`, `Touch`, `SetAcl`, `RevertAcl`, `Remove`, `Upload`, `Restore` | the source's owner |

The connector is a constant. `"blob"` stands for blob and local files: every listing is
full, a download honours the known ETag. `"sharepoint"` is a Graph delta: a resumed
listing mentions what changed, deletions included. `"sql"` is a watermark query: rows carry
their text, deleted rows are flagged, and every change of a row moves its ETag; its
permissions are columns of the row, so that reading them cannot fail.

Modes are the triggers: `"delta"` (nightly), `"full"` (a rescan: the cursor is ignored),
`"forced"`, `"single"` (the blob trigger) and `"reindex"`.

### ManifestStore and ManifestRegister: concurrent saves

`ManifestRegister` is the promise: a run offers what it has seen, and publishing it is one
atomic step that keeps, document by document, whichever entry was seen last.
`ManifestStore` is what `BlobManifestStore` does: load with an ETag, fold the run's
outcomes, upload on condition of the ETag (or on no condition when none is known), and on
any failure reload, merge and try again, `Attempts` times (3 in the code). A blob's ETag is
its version number. A failed upload may have been applied or not. A worker that dies in
`finalize_run` is started again by Durable Functions with the same outcomes. Each action is
one request to the store or one local computation between two requests.

| action | code (`I/delta.py` and `finalize_run`) |
|---|---|
| `Plan` | the run up to `finalize_run`: any outcome per document |
| `Load` | `BlobManifestStore.load`, whose every failure counts as an absent blob |
| `Fold` | outcomes, deletions and refreshes of the skipped, stamped with the wall clock |
| `Write`, `WriteFails` | `upload_blob` |
| `Reload` | the `except` branch of `save`: load and `_merge_manifests` |
| `Crash` | the activity is retried |

### The components of the second half

| module | code | state and actions |
|---|---|---|
| `ChunkUpsert` | `I/upsert.py`, `G/vectorstore/writer.py` | of each document what the source holds, its points by position, and how far `upsert_document` got: `ProbeCorpus`, `ProbeFails`, `Decide` (the loop over the drafts, one turn of which is `Considered`, with the registration of what it keeps), `WriteBatch`, `Prune`, `Fail`, `Tombstone`; `NextRun` makes new upserters, `Edit` changes the source. `oneForAll` tells `process_documents`, which shares an upserter, from the durable activities, which do not |
| `SessionWindow` | `A/rag/memory/short_term.py`, `A/rag/context.py`, `A/routers/sessions.py` | rows, cached window and summary; a worker's request in its phases, each commit and each cache access a step; the cache may forget, commits may fail |
| `LongTermMemory` | `A/rag/memory/long_term.py`, `consolidate.py`, `A/routers/memory.py` | points, rows, consent; a turn, a consolidation and the endpoints step by step; `restored` counts what a consolidation wrote back after it was gone |
| `SemanticCache` | `A/rag/memory/semantic_cache.py` | the entries of one partition; turns that probe, resolve, touch, store and evict, of which the scan or the delete may fail; the index changes between any two |
| `EvalRun` | `services/eval/`, `A/routers/eval.py` | the items under way, results, aggregate, gate, baseline, report, and who reads the run |
| `TokenGate` | `A/auth/entra.py`, `principal.py` | the key cache with its lock and cool-down, the group cache; requests interleave at each await |
| `RequestBudget` | `A/deps.py` | the shared counter of a minute, a bucket per replica, the link to Redis |
| `Admission` | `A/deps.py` | the two together: what a request passes before its handler |
| `ChatTurn` | `A/rag/orchestrator.py`, `A/routers/chat.py` | the stages in order with their failures, the events, rows and audit, the buffer, sender, heartbeat, sentinel and reader; `Told` is what was emitted so far, wherever it is, and `Orderly` what a client can follow |
| `ToolLoop` | `A/rag/tools/registry.py`, `router.py` | what is offered, what the model asks for, the guard's counters, the audit |
| `ContextPacking` | `A/rag/context.py` | what is packed, the measure, the passes of shedding, the ledger of drops. An item has the tokens it was counted as, which is all that packing and shedding look at, and those it adds to the measured prompt: the two differ item by item |
| `AnswerGuard` | `A/rag/citations.py`, `A/rag/guardrails/output_guard.py` | the answer by sentences and markers; the stages, each of which may fail |
| `AccessFilter` | `G/models/acl.py`, `G/models/retrieval.py`, `G/vectorstore/filters.py` | `Permits`, the filter and its matching, layering and merging; the state is one request's filters |
| `Retrieval` | `A/rag/retriever.py`, `mmr.py`, `A/rag/guardrails/ood.py`, `G/dedupe.py`, `G/vectorstore/hybrid.py`, `G/rerank/` | the probes' answers, the pool in order, the drop ledger, the verdict; then the same question from the cached plan. The logistic that makes a score of the encoder's logit is a constant, any function that keeps order |
| `InputGuard` | `A/rag/guardrails/input_guard.py`, `injection.py`, `G/pii/` | a text of cells, its visible form, findings (with a keyword within `CONTEXT_WINDOW` of them, or not), redacted forms, scores, the decision and its events; passages |
| `Contradictions` | `A/rag/guardrails/contradiction.py` | clusters, pairs to ask about, conflicts, the notes by marker |
| `QueryPlan` | `A/rag/query_transform.py` | a model's answer read into a plan |
| `ToolCalls` | `A/rag/tools/rest_tool.py` | callers in their phases; circuit, cached results, time; the token, whose use is counted from the moment it was asked for, and whose life from its issue, somewhere between that and its arrival |
| `WebChat` | `W/store/chat.ts`, `W/hooks/useChatStream.ts`, `W/components/SessionSidebar.tsx`, `W/api/client.ts` | the store, runs of the hook, posts the API accepted, the sidebar's requests; streams that break (`Break`), or fall `silent` until the idle timer ends them (`IdleTimeout`). A stream that is not silent may bring nothing but heartbeats for as long as it likes |
| `SseFrames` | `W/api/sse.ts` | a text cut into chunks, the reader's buffer, whose carriage returns and pairs become line feeds chunk by chunk (`Normal`), its fields, the frames |
| `LlmCall` | `G/llm/client.py` | the request, the attempts, the message under way, what is heard and metered |
| `Crawler` | `I/connectors/http_crawler.py` | a site of pages and links that changes; `robots.txt`, the levels of a crawl with the requests of one level in flight, each of which may be redirected and is conditional on an ETag or a date; the sitemap; then what plan, process and finalize make of the listing |

Data are abstract throughout: a text is a value, a score a small whole number, a duration a
tick. What is kept is the order of steps, the guards and early returns, and what is awaited
between reading state and using it.

## 3. What the runs check

| run | instance | properties |
|---|---|---|
| `IngestDelta` | SQL; nightly and full; 3 changes, a crash or broken listing | `NothingLostBehindCursor` |
| `IngestWide` | SharePoint; every change, failure and trigger; 2 changes, 1 failure | `TypeOK`, `RowNeverAheadOfIndex`, `HidesOnlyTheMissing` |
| `IngestLive` | blob, `FairSpec`; nightly and single runs; 2 changes, 1 failure | `SkipIsSound`, `AclSkipIsSound`, `CleanFullScanMirrors`, `EventuallyMirrored` |
| `SharedState` | eight components, one at a time | `WindowIsFaithful`, `MemoriesAreKept`, `CacheIsSafe`, `SavedIsKept`, `RefinesRegister`, `IndexIsHonest`, `GreenIsEarned`, `AdmissionIsSound` |
| `ChatTurn` | one turn: stages, loop, packing, guards | `StreamIsWellFormed`, `TurnIsAccounted`, `PackingIsHonest`, `AnswerIsHonest`, `LoopIsSafe`, `EverythingEnds` |
| `Services` | six services around a turn | `FilterIsPermits`, `DefaultsNeverGrant`, `MergeNeverWidens`, `RetrievalIsHonest`, `BestIsKept`, `ScreeningIsSound`, `ConflictsAreHonest`, `PlanIsFaithful`, `ToolCallsAreSound` |
| `Streams` | the browser, its reader, the model's call, the crawler | `TranscriptIsHonest`, `TurnSettles`, `FramesIgnoreChunking`, `CallIsOneAnswer`, `CrawlIsHonest` |

Each of the last four also checks the types of its parts.

### Ingestion

Two documents suffice: the code treats each document alone except for the cursor, the
missing set and the status, and for these one document beside another is what can go
wrong. `MaxClock` bounds the changes of the source, `MaxFaults` the failures. The number of
runs over the source is not bounded. One failure suffices for what goes wrong over several
runs, since what it leaves behind meets any number of later runs and the changes beside it;
that more of them change nothing is what the theorems say of every one of these properties
but `EventuallyMirrored` (section 5). `IngestLive` checks safety and liveness in one instance.

*SkipIsSound*: if the manifest's ETag is the source's current one, so that phase 1 will not
even download the bytes, then the index serves those bytes. It takes a chain of steps of
several runs to break: a failure after an index write, a crash, a change between listing
and download. *AclSkipIsSound* says the same of permissions. *NothingLostBehindCursor*:
what the index has wrong lies past the cursor. *HidesOnlyTheMissing*: points are tombstoned
only for documents that are missing, too large, or were changed while the run was on.
*CleanFullScanMirrors*: when a full pass that overlapped no change is recorded as a
success, each listed document is served as it is, and what the manifest had as live and the
source no longer has is hidden. Points that a dead worker left without an entry are nobody's
to hide: if their document is removed before the next run, they stay (the property does not
claim otherwise). *EventuallyMirrored*: the nightly runs get there without
anyone asking whether a pass was clean.

*SavedIsKept*, *RefinesRegister*: entries recorded by a save that returned are never
replaced by older ones, and each accepted upload is one publication of the register. Two
runs with two attempts and one failure or crash reach a conflict, a merge, a lost answer
and a save that gives up.

*IndexIsHonest* is three claims about the chunks. `NoTextTwice`: a text is live under one
document. `EveryTextHasAHome`: once all documents are written, each of their texts is in
the index under some document, or one nearly the same is. `NothingIsLeftOver`: a written
document shows nothing it no longer holds. Two documents, three runs, three contents (a
text, a near-duplicate of it with a blank, that one behind a near-duplicate of its own), one
failed call and edits before the last run cover a document that grows, shrinks, moves its
texts to other positions, fails half way and is repeated, goes and comes back.

Being nearly the same is not transitive, and that matters with one upserter for a run.
Document *d* holds `a`, *e* holds `b`; `a` is dropped for `b`. In the next run *e* holds `c`
and `b`, and `b` is dropped for `c`, which is nearly `b` but not nearly `a`: `a` is in no
document and nothing like it is. So with one upserter the property promises only a live text
in each *group*, a set of texts that holds both of a near pair or none: the home may be at
the end of a chain of near-duplicates. With upserters of their own the direct form holds.

*CrawlIsHonest*: short of the cap, a crawl asks for every page within `max_depth` clicks and
for nothing else; what it hides it could not reach, or it did not answer; a page that comes
with an ETag and was downloaded is indexed and recorded as it was then or newer. Five pages
(one disallowed, one of another domain, one that redirects there), two of which come with an
ETag and two with a date, one change and one failed request in two crawls contain a page
linked twice, a level cut by the cap, a page that answers "not modified" by either validator
and one that does not answer. What the code does and the property allows: a redirect is
followed to a page that neither `allow_domains` nor `robots.txt` would let the crawl ask for
(the property speaks of the pages asked for); the links of a page that answers "not modified"
are not followed, so on a full crawl what is only reachable over it is tombstoned; a page
whose request fails looks deleted; a page linked from two pages of a level is fetched and
listed twice, and may use up the cap; a live page of a sitemap, and a live page without an
ETag, are never indexed again; a page that was hidden and answers "not modified" when it
reappears gets a live entry over tombstoned points. The cache of downloaded pages that the
connector's docstring promises is never used: processing asks for the page again.

### The chat

*WindowIsFaithful*: a suppressed row is part of the stored summary, and the cached window
replays nothing that is suppressed, through failing commits,
forgetting caches and compaction by hand. *MemoriesAreKept*: the collection stays within
the cap but for prunes that failed, a memory leaves it only for one of four reasons, and a
forgotten one comes back only out of a consolidation that had read it. *CacheIsSafe*: the
partition is bounded while several turns store and evict, but for evictions that failed, and
a hit hands over only what the caller may read when it is resolved.

*StreamIsWellFormed*: the session first, `done` once and last, an error only right before
it, a tool's result right after its call. *TurnIsAccounted*: what could not be stored was
told, and every tool that ran has its audit row or the client was told that it has not.
*PackingIsHonest*: the prompt fits, or only what is pinned is left, or every pass was used
and something shed had been counted as more than it was; every chunk is cited or dropped
with a reason, markers follow rank, what is pinned stays. With items that are off by one or
two tokens either way and a limit of one, both ends of the passes are reached: prompts that
fit after them, and prompts sent over their budget with something left to shed. *AnswerIsHonest*:
markers that are sent are backed or come with a notice, an ungrounded answer is told,
personal data is not stored. *LoopIsSafe*: repeats stay under the limit, restricted sources
do not reach tools outside, tools run before the last round. *EverythingEnds*: the loop
ends, and `done` reaches a client that stays.

*FilterIsPermits*, *DefaultsNeverGrant*, *MergeNeverWidens*: the access rule as a filter is
the rule in Python; layering and merging only narrow. *RetrievalIsHonest*, *BestIsKept*:
each chunk found is in the context or dropped with one reason, nothing of others gets past
the merge, an outage is no refusal, the first chunk stays first. *ScreeningIsSound*: what
is redacted is what was found, in both forms; refusals say why; an outage of the classifier
leaves the verdict to the patterns. *ConflictsAreHonest*, *PlanIsFaithful*,
*ToolCallsAreSound*: who supersedes whom, what is searched for, which calls run.

*AdmissionIsSound*: what admits a caller is current within the lives of the two caches, and
what passes in a minute, or from any tick on, is bounded over all replicas. *GreenIsEarned*:
the gate never passes a run in which an item leaked or too few refusals were right, however
it is set.

*TranscriptIsHonest*: a silent resend never doubles an answer, and a message with the API's
id is whole. *TurnSettles*: a turn that streams stops streaming, unless the API keeps one of
its runs for ever. It may do so: a request is waited for without a timer, and the API sends
heartbeats into a stream for as long as the turn behind it takes (`A/routers/chat.py:210`),
each of which sets the idle timer anew. What the browser owes is the rest: a stream that
falls silent is given up, before its first event too; a run that waits to be sent again is
sent, and not more often than `streamMaxRetries`; whatever ends a run ends the streaming.
*FramesIgnoreChunking*: the frames are those that the specification of event streams gives
the text as a whole, with line ends of all three kinds, unless a chunk ended between the two
characters of a pair; if one did, the pair is two line ends, and still no line is lost
(section 4). Texts of five cells with line feeds, of four with carriage returns too, and two
longer ones are cut everywhere. *CallIsOneAnswer*: what is heard is a beginning of one
attempt's message, part by part and without gaps, and all of it once the stream is done; it
ends once, and is metered as what it was.

### Bounds

Every bound is a constant of the configuration: two turns, callers, requests or replicas
where they compete; one or two failures, since the code has no state that counts them beyond
the retry limits (2 or 3 attempts), the circuit's threshold (2) and the cool-downs (a tick);
caps of one or two so that the limit is reached and passed; texts and prompts of a few
units, chosen to contain each kind of element and each overlap of two. Session, memories and
cache have one worker, two memories and one cached entry: what needs more is listed below.

### What the properties assume

These limits are the code's, not the bounds':

- `AclSkipIsSound` leaves out a document that comes back under its old ETag (`"restore"`)
  and an ACL change taken back after a half-finished rewrite (`"aclback"`). Where the
  document is downloaded it also leaves out a failed permission read (`"aclread"`: the
  document gets the source's default ACL, which is recorded as its own; it takes a second
  failure to be skipped so) and runs that ask for a document again that answers "not
  modified" (`"forced"`, `"reindex"`: the new ACL is recorded and not written). TLC refutes
  the property with each of the first two and with `"forced"`, and with `"aclread"` beside
  `"partial"`.
- `SkipIsSound` leaves out `"restore"`: such a document is recorded live and stays
  tombstoned.
- `NothingLostBehindCursor` leaves out failed documents (the cursor is stored although a
  document failed, and their change is lost to an incremental listing) and single-document runs (section 4), documents too large to ingest and
  deletions the manifest never recorded. SQL watermarks are unique.
- `CleanFullScanMirrors` needs what `AclSkipIsSound` needs, and of SQL rows that none was
  ever too large (`"grow"`): such a row is recorded with its ETag and no hash, and is skipped
  once it is small enough.
- `SavedIsKept` and `RefinesRegister` need a manifest that exists and loads that succeed
  (`Provisioned`, no `"load"` failure): without, a save has no ETag to be conditional on.
- `NoTextTwice` needs a probe of the corpus that answered, and documents with upserters of
  their own not side by side. `EveryTextHasAHome` needs both, no document that lost a text,
  and none twice through one upserter. Without any one of these the checker finds a text
  that is in two documents or in none.
- `WindowIsFaithful` is for turns of a session that do not overlap (`Workers` has one member):
  two that compact one session overwrite each other's summary, and the checker finds that at
  once with two. It needs loads from Postgres that succeed: a turn
  that could not load starts from an empty window, and compacts and caches that one.
- `CacheIsSafe`'s bound needs no more turns in flight than the cap, as an eviction looks at
  one page of entries, and has one entry more for each eviction that failed. `GrowthIsBounded`, in `MemoriesAreKept`, allows for prunes that failed and
  for memories that a consolidation wrote back, and needs turns that extract one memory:
  a prune drops one a turn.
- `AnswerIsHonest` needs a grounding threshold above zero; with zero the gate is off.
- `TranscriptIsHonest` leaves out a stream that breaks after it said `done`.
- `TurnIsAccounted` leaves out refusals: a short-circuited turn does not drain its warnings.
- `AdmissionIsSound` bounds the age of keys by the refreshes that were tried, since keys stay
  in use while refreshing fails.
- `PlanIsFaithful` is about a year or a month that ends a range: a day ends at its first
  instant. It allows for one sub-question where the limit is none (section 4).
- `ToolCallsAreSound` says nothing of a request's body, which is not in the cache's key: two
  calls that differ in it share a result.
- `PackingIsHonest` is about turns that are not blank (a turn of no tokens that is shed counts
  as one) and allows for a prompt over its budget after the last pass (section 4).
- `CrawlIsHonest` speaks of what one crawl downloaded, short of the cap, of pages with an
  ETag, and of the pages that are asked for, wherever a redirect leads.
- `ConflictsAreHonest` compares three sources on one basis only. `resolve_conflict` looks at
  four in turn and takes the first that tells two sources apart, so that of three, each may
  supersede the next, on different bases.
- `TurnSettles` excludes a run that the API holds: a request it does not answer, or a stream
  that it keeps alive.
- `FramesIgnoreChunking` excludes nothing, but says something else of a text that was cut
  within a pair.

### Fairness

`IngestRun!FairSpec` asks strong fairness of starting the nightly run and weak fairness of
the steps of a run: the timer fires every night whatever else is triggered, and a started
run is executed until it ends or dies, deaths being bounded. `ChatTurn` asks weak fairness
of the pipeline, of the sender, of the sentinel and of the reader while the client stays:
tasks of one event loop. `ToolLoop` asks it of the loop itself. `WebChat` asks it of the
browser's two timers: the one of a run that waits to be sent again (`Wake`) and the idle timer
of a stream that has fallen silent (`IdleTimeout`). Nothing is assumed of failures, of the API
as seen from the browser, of the network, of what a model says, or of users.

### Deadlock

The runs of `IngestRun` check deadlock: a run in progress always has a next step, and a run
can be started whenever none is in progress. The other runs say `CHECK_DEADLOCK FALSE`: a
turn, a call, a save or an evaluation is over when it is over, and the instance really
stops when its bounded number of them has ended.

## 4. Where the code and its documents disagree

Each of these is a run with one property, which states what a docstring says and which the
model of the code violates. The trace of the run is the scenario.

| run | property | in short |
|---|---|---|
| `SingleSwallows` | `SingleRunKeepsOtherChanges` | a single-document run stores the cursor of the whole listing and drops the other tasks |
| `QuestionsVanish` | `EarlierTurnsAreReplayed` | only answers are appended to a cached window: the second turn's question is not replayed to the third |
| `ResponseEnds` | `ResponseEnds` | the sentinel gives up on a buffer that is full for a second, and the finished response stays open |
| `WeakIsRefused` | `WeakIsRefused` | with reranking off, positions are read as cross-encoder evidence and a weak question is answered |
| `CutPairs` | `FramesFollowSpec` | a chunk that ends within a pair of carriage return and line feed makes a blank line of it, and a frame ends early |

The reader of event streams says that it implements the wire format of the HTML specification
and that the server's framing must not matter to it (`W/api/sse.ts:9-12`); it normalises line
ends in what is left of the buffer and the chunk together (`:128`), so that a carriage return
at the end of a chunk is a line feed before the line feed of its pair arrives. This product's
API writes line feeds only (`A/routers/chat.py:147`, `:226`), so that it takes a proxy, or
another server, to meet this.

Two smaller ones have no run. `context_fit_max_passes` is documented as the passes allowed
"before the assembler strips the prompt down to the mandatory system + question payload"
(`G/settings.py:921-927`, `docs/CONTRACTS.md:2851`); after the last pass `_fit` returns what it
has and strips nothing (`A/rag/context.py:1056`), and the prompt is sent over its budget.
`PackingIsHonest` says when that may be: only if what was shed had been counted as more than
it was. And `qt_max_subqueries` may be 0 (`G/settings.py:806`, "maximum decomposed
sub-questions"), but the loop looks at it after it kept one (`A/rag/query_transform.py:594`),
so that one is in the plan; the retriever's own cap then drops it. `QueryPlan!Considered` does
as the code does.

## 5. What is proved

All proofs are for arbitrary constants: any set of documents, runs, requests, tools or
texts, any bound on changes and failures, any thresholds. They are checked by `tlapm` to the
last leaf. Conditions are hypotheses of a theorem, and each is one without which TLC refutes
the property ("What the properties assume" says why); the conditions are met by the
configurations of section 3.

### One source, run after run

`IngestRunProofs` (about `IngestRun`, invariants in `IngestRunInv`):

| theorem | states | condition |
|---|---|---|
| `TypeCorrect` | `[]TypeOK` | none |
| `SkipSoundness` | `[]SkipIsSound` | no `"restore"` |
| `HidesSoundly` | `HidesOnlyTheMissing` | none |
| `RowsFollow` | `[]RowNeverAheadOfIndex` | none |
| `AclSkipSoundness` | `[]AclSkipIsSound` | `AclConditions`: neither `"restore"` nor `"aclback"`; unless rows come with the listing, no `"aclread"`, forced or reindex run |
| `CleanScansMirror` | `CleanFullScanMirrors` | `MirrorConditions`: these, and no SQL row ever too large |
| `CursorLosesNothing` | `[]NothingLostBehindCursor` | `CursorConditions`: these, no document that fails, no single-document or reindex run |

`SkipIsSound` is not inductive. It speaks of entries whose *ETag* is current, but a
document may be edited, indexed and crash before its entry is saved, leaving an entry that
is right about older bytes; and the ETag of a document re-saved under the same bytes moves
while the entry stays good. What survives every step is that the *content hash* vouches for
the index (`HashVouches`), and that an ETag names one content (`EtagNamesContent`), from
which `SkipIsSound` follows. To carry `HashVouches` through a run, `IInv` says the
same of a task's outcome before it is folded (`TaskSound`), orders versions so that a stale
task cannot name newer bytes (`Versions`), and says that whatever a run is about to
tombstone is not a document the manifest knows by ETag or content (`PlanSound`,
`GoneIsUnknown`): this is where the difference between full and resumed listings enters.
`"restore"` breaks this last part: a deleted document comes back under an ETag the manifest
knows.

`HidesOnlyTheMissing` is an action property. Its invariant `HideInv` says that each
deletion planned, or about to be inferred from a full listing, is of a document that was
missing, too large or changed since the start of the run.

`RowInv`, for `RowNeverAheadOfIndex`, orders the versions a document has in the stores and
in its task: row, index, source (`StoresOrdered`, `TaskOrdered`). The order holds however
runs die, since a task writes the index before the row and never carries bytes older than
the index has.

`AclInv` says of ACLs that they only grow, that the index has had what an entry *with a
hash* vouches for (`AclOrdered`), and that no download is asked for with the ETag on record
(`DownloadIsNew`): with it, "not modified" would record an ACL nobody wrote.

`MirrorInv` follows one document through a run in which it does not change (`Steady`): its
task carries what the source has, and the stores mirror the source as far as the task got
(`TaskRight`); without a task it was mirrored already, or lies behind the cursor, or will be
hidden (`NoTaskRight`). `CleanFullScanMirrors` is this invariant when the run is recorded.
`CursorInv` adds that a run's new cursor is the time at which it started; what changed later
is past it, and what changed before was steady.

### Saving the manifest

`ManifestProofs` (about `ManifestStore`): `StoreTypeCorrect` (`[]TypeOK`) and, under
`Conditional` (the manifest exists and loads do not fail), `SavesAreKept`,
`GivesUpUnderContention` (a save that gives up saw as many other writes or failures as it
had attempts) and `ImplementsRegister` (`Spec => Register!Spec`), for any number of runs,
attempts, lost answers and crashes.

The key of `StoreInv` is `ETagStandsForManifest`: while a run's ETag is still the blob's,
what the run is about to write *is* the merge of its manifest into the stored one, so the
store's acceptance makes an unlocked read-merge-write atomic. `AttemptsPaid` charges every
refused attempt to a finished save or a failure; the bound follows because a run that gives
up is not among the finished.

### The chunks in the index

`HonestyProofs` (about `ChunkUpsert`): `IndexHonest` (`[]IndexIsHonest`) and `ChunkTypes`,
for any documents, drafts, pairs of near-duplicates, batch size, runs and failures, with one
upserter or one each. The hypotheses of its three claims are in the property, as what may
not have `happened`.

What `upsert_document` keeps of its drafts is a recursive function, and a fact about it
needs induction. The library's theorems for that take an operator, which the provers cannot
instantiate; `DataLemmas` therefore derives induction and definition by recursion over the
numbers for *sets and functions* (`SetInduction`, `Recursion`) from the least-element
principle, and `KeptSound` is proved with them: the loop keeps texts of the drafts, none that is
registered or owned, and leaves none without an answer (`Answered`).

Every step is then summarised by what it does to one document's fields (`StartedOn`, `Decided`,
`BatchWritten`, ...; `ChunkStep` says there are no others), and the invariants are proved
over the summaries:

- `ChunkInv`: what is written of a document so far is a prefix of what was kept. With pruning
  this is `NothingIsLeftOver`.
- `TwiceInv`: a probed document knows of every text that is live elsewhere, by its probe or
  by the register, and what one document is about to write is live or about to be written
  nowhere else (`Disjoint`). With upserters of their own it takes that no two are in flight
  (`Apart`).
- `OwnInv`, for upserters of their own: each text is in the index, or in a document that is
  not settled and will be written again; a text that was called another's is *exactly* in
  that other document (`Holds`), so that no chain of near-duplicates arises.
- `GroupInv`, for one upserter: each text that is registered has a document that keeps it
  (`Keeper`), and each group of texts a document drops has something registered or stands in
  a document the run has not come to (`Grounded`, `Stands`).

### A crawl

`ManifestProofs` also has `CrawlHonest` (`CrawlerSpec => []CrawlIsHonest`) and `CrawlTypes`, for
any site, seeds, cap, depth and number of crawls, changes and failed requests. How deep a
crawl got is `Levels`: after *d* levels it has asked for nothing but the pages within
*d - 1* clicks, and short of the cap for all of them, and the links it has not followed yet
are its frontier. The clicks are counted over the links *as this crawl read them*
(`crawl.read`), which grow while it goes on; that a level already reached does not change
when a page further out is read is `ReachIsLocal`, and that the levels are the least such
sets `ReachIsLeast`. What is recorded is followed by versions: every ETag on record, in an
answer, in the listing or in a task is of a version that was there (`Was`), and an answer is
newer than the record, or it would be "not modified" (`AnsweredWas`, `ListedWas`). All of
this is about the page that answers, wherever a redirect leads, and a date that is sent with
a request is no obstacle, since a server that has an ETag to compare does not look at it. From
that `ProcessedIsIndexed` follows task by task, although a page may change again between the
crawl and the second request for it.

### What requests share

`SharedProofs`:

- `SuppressionKeepsAll` (`[]WindowIsFaithful`), under `OneAtATime` (turns of a session do not
  overlap, loads succeed). `WindowInv` says that the window in the cache and the one a turn
  holds are `Faithful`: they replay nothing suppressed and summarise all of it; between the
  flush and the commit the turn's window already summarises what is about to be suppressed.
- `CacheSafety` (`CacheIsSafe`), under `FewTurns` (no more turns in flight than the cap), for
  any number of evictions that fail. Turns that evict beside each other may have chosen the
  same victims. `CacheInv` therefore bounds, for *every set* of evictions, what is left when
  these are carried out, by the cap, the turns that have not chosen yet and the evictions that
  failed. An eviction that saw all that is held leaves no more than the cap; one that saw a
  page of twice the cap deletes as many as the cap, which is enough for the turns in flight.
- `MemoriesLast` (`MemoriesAreKept`), when a turn extracts one memory; `MemoriesStay` is its two
  action properties alone, without that condition. `GrowthInv` leaves out what the turn has
  chosen to prune and charges what is over the cap to a prune that failed or a memory a
  consolidation wrote back.
- `ToolCallsSound` (`[]ToolCallsAreSound`) and `ToolCallTypes`, of a REST tool's circuit, token
  and results. `ToolInv` adds what the callers in flight rest on: nobody began or asked for a
  token later than now (so a circuit that opens now was opened after all of them began), a
  token that may still be used has the skew left of it (`AskedBefore`: it was issued no
  earlier than it was asked for, and its use counts from then), and the cache has one entry
  for a key, so that the eviction makes room (`CacheFits`).

### Admission

`GateProofs` (about `Admission`): `CallersCurrent`, `BudgetKept` and both as
`AdmissionSound` (`AdmissionSpec => AdmissionIsSound`). `GateInv` says that whoever fetches
keys holds the lock, within the timeout of the call (`FetchIsShort`), and that a cached
membership that was lost runs out within the cache's life of the loss, although a request may
have asked before and stores its answer later (`LossIsSeen`). `BudgetInv` counts: what the
shared counter let through in a minute is in the counter; what a bucket let through from any
tick on and what is left in it are at most a full bucket and what came back since
(`BucketHolds`, one inequality for every tick).

### The screening of a turn

`GateProofs` also has `ScreeningSound` (`ScreenSpec => []ScreeningIsSound`) and `ScreenTypes`,
for any turns, passages, recognisers, context window, weights and settings that the
validators let pass (`ScreenAssumption`). `ScreenInv` goes with the stages: what was found is
spans of the text that do not overlap (`Reported`), both forms are redactions of the text
(`Redacted`), a refusal has its event and is the end (`Decided`), the passages dealt with are
the first ones, each kept or held back (`Filing`). The work is in what a redaction shows. It is
a recursion over what was found, from the right, in which each replacement moves the text
behind it; that it is a recursion at all, and ends with the leftmost finding, is `TextsExist`,
and what it has made of the text when it has come down to a place is `RedactedTo`: itself up to
there, and beyond it the cells that are to be seen, in their order (`Spliced`, `ChainFacts`,
`RedactFacts`). `NoSecret` is about the text a reader sees: a certain match is in the report or
lost to a better one that overlaps it (`AnalyzedFacts`).

### A turn

`ChatProofs`:

- `LoopSafety` (`LoopSpec => LoopIsSafe`): a call that ran was counted by the guard, so that
  the guard's limit bounds the runs.
- `AnswerHonest` (`[]AnswerIsHonest`), if `0 < Enough`. `AnswerInv` goes stage by stage: the
  report is of the occurrences there are, or its stage failed; what is left of the answer is
  what the report kept; an answer past the gate that scored too little says so.
- `StreamWellFormed` and `TurnAccounted`. `StreamInv` is about everything told so far,
  wherever it is between pipeline and client (`Told`): it is in order, and the stage says
  which events cannot have been sent yet. `AccountInv` says at each stage what is missing in
  the store and that the client has heard of it or is owed the warning, which is drained
  before the turn ends.
- `PackingHonest` (`[]PackingIsHonest`) and `PackTypes`, for any chunks, memories, turns,
  summaries and budgets, any number of passes, and however far each item's count is from what
  it adds to the prompt (`PackAssumption`: what is counted is counted as one token at least).
  `PackInv` charges the prompt: while it is shed, it is over its budget by at most the excess
  that is left, unless something outside it was overcounted (`Over`); a thing that was not
  overcounted takes at least as much off the prompt as off the excess (`Frees`, over `Total`,
  the sum of token counts: `TotalLess`, `TotalWithout`). Once overcounted, always so, since
  nothing comes back; so a pass that ends above the budget with something left has overcounted,
  and one pass is enough where no count is too high.
  The chunks are followed as a ledger, first draft by draft through the packing
  (`Accounted`), then drop by drop. Density is compared by products, and that this is an
  order, so that there is a weakest source, is `DensityTotal`.
- `OneCallOneAnswer` (`[]CallIsOneAnswer`), for any messages of the model and any number of
  attempts. `LlmInv` adds that a call that is about to be made again has handed out nothing,
  and that what an open stream has handed out is exactly what is `Behind` its place in the
  message, each part once and in order.

### The verdict of an evaluation

`HonestyProofs` also has `GreenEarned` (`EvalSpec => []GreenIsEarned`) and `EvalTypes`, for
any golden set, limits within their validators' bounds (`EvalAssumption`), concurrency, and
outcomes. `EvalInv` says that the leak and the refusal are always measured (that is why no
item can escape the two hard gates by having no score), that nothing is decided before every
item is a result or skipped, and that what the gate said still follows from the results
(`Earned`). Two lemmas are about sets of items rather than about this program: a sum over a
finite set of whole numbers is one (`SumIsInt`, by recursion on subsets), and a finite set
with a total order can be listed in order (`OrderExists`), so that `InOrder`, which chooses
such a list, has one to choose; `WorseIsOrder` is that `worst_items`' key with its stable
sort is such an order.

### The transcript of the browser

`HonestyProofs` also has `TranscriptHonest` (`WebSpec => []TranscriptIsHonest`) and
`WebTyped`, for any sessions, turns, retries, lengths of an answer and requests of the
sidebar; all it assumes is that the listed sessions are sessions and `streamMaxRetries` a
number (`WebAssumption`). `WebInv` has two parts. The first holds always: tokens in a
message are of posts that have spoken, a run has heard tokens of one post at most and, if
of one, is open on it or over (`OneSpoke`: a run is sent again only before its first
token), and a post whose id a message or a session's record has is not being heard any
more. The second holds while no stream broke after its `done` (`NoneLate`): at most the
last run is alive, and while it is the store streams (`LastIsLive`), so a pending message
ends with exactly what the open run's post has said (`MessagesWhole`), and is whole when
`done` gives it its id. Most steps only make runs quieter; what such a step keeps is proved
once (`QuietStep`), and what remains are the steps that begin a run, accept a post or tell
a token.

### The frames of a stream

`HonestyProofs` also has `FramesWhole` (`SseSpec => []FramesIgnoreChunking`) and `SseTypes`,
for texts of any length, with line ends of all three kinds, cut anywhere. The property says
what the text read so far means as a whole (`WholeFrames`, by its line ends and blank lines)
without a reader; the code goes by chunks, lines and a buffer. First, the line ends: making
them the same in two parts is as making them the same in one, but for a pair that was cut
(`NormalAppend`, `NormalJoins`), and does nothing to what waits in the buffer (`HearStep`); so
unless a chunk ended within a pair, the reader has had the text of the specification.
`SseInv` then joins the two readings at the line ends: a reader that has handled
the lines up to a line end `e` has made the frames of the text up to `e`, its open fields are
those of the block that `e` is in (`FieldsAt`), and its buffer is what it read after `e`
(`Right`). A chunk only adds to the buffer, and each turn of the loop moves such a reader from
one line end to the next (`FirstLineFacts`, with `WithLineFacts` for what a line does), so a
loop of as many turns as the buffer has cells leaves no line end (`DrainedFacts`). The flush at
the end handles what no line end followed, and adds one frame at most.

### The access rule and the query plan

`AccessProofs` (about `AccessFilter`): `AccessTypeCorrect` (filters stay well formed, their
dates never crossed), `FilterMatchesCheck` (the filter matches exactly what
`AccessControl.permits` permits), `DefaultsGrantNothing`, `MergeOnlyNarrows`. The state is
a request's filters; the lemmas are about the operators: that the smaller of two bounds
narrows, that a facet kept in common narrows, that a layered ACL permits no more. The only
invariant needed beside the types is that a filter's dates are not crossed, which the
merge keeps by leaving the caller's bounds when the two filters' would cross.

`PlanFaithful` (`PlanSpec => []PlanIsFaithful`) assumes of the model's answer only its types,
and of a caller's range that it does not cross, as the validator of `MetadataFilter` sees to.
The loop over the sub-questions is a function of the round; `Recursion` shows that there is
one, from well-foundedness, and `DistinctApart` follows what it keeps round by round
(`Apart`). `PlanInv` says of a plan that was made where each part is from (`Made`).

### Sources that disagree

`AccessProofs` also has `ConflictsHonest` (`ConflictSpec => []ConflictsAreHonest`) and
`ConflictTypes`, for any pool, likeness and limits, and any verdicts of the model.
`ConflictInv`: what is judged is pairs of passages of different documents, each once
(`PairsJudged`), a conflict is what `resolve_conflict` says of its pair, and a note is about
a conflict by the places of its sides among the sources that were packed (`NotesRight`).
What the verdict is worth is about `resolve_conflict` alone: it is the same whichever passage
is named first, unless nothing tells the two apart (`ResolvedEitherWay`), and what one basis
decides is an order, so that of three passages compared on one basis none supersedes the next
all the way round (`BasisOrders`).
`CandidatesFacts` follows the pairs through collecting, dropping repeats and sorting.

### Retrieval

`AccessProofs` also has `RetrievalHonest` (`RetrievalSpec => []RetrievalIsHonest`),
`RetrievalTypes` and the action property `BestKept` (`RetrievalSpec => BestIsKept`), for any
collection, number of probes, scores and limits. `RetrievalAssumption` asks for what the
settings' validators see to (limits are positive), that scores lie within `0..ScoreTop`, and
that the logistic keeps their order.
Every stage has a lemma that is about its operator alone and says what comes out of a
sequence without repetitions (`Unrepeated`): `UnionFacts` (each chunk of the
caller's once, whatever the engine returned), `DedupeFacts`, `RerankCutFacts` (with and without the
encoder), `DiversifiedFacts`, `CutInOrderFacts`. What a stage takes out of the pool it puts
into the ledger, so together they remain the same chunks (`Audit`), and `RetrievalInv` says
so from the merge to the gate. It also says that these stages, and any verdict, come after a
probe that was answered (`Searched`), and that a cached plan is told from a search by a fusion
score of 0. `BestKept` rests on the greedy choice of `Diversified` taking the foremost
candidate first (`Foremost`), and on the document cap counting from the front.

### What is only model-checked

- Liveness (`EventuallyMirrored`, `EverythingEnds`, `TurnSettles`): fairness and `ENABLED`
  are beyond the installed provers.
- The type invariants of the composed modules (`SharedTypeOK` and its like). What the
  proofs need of the types is part of the proved invariants.

## 6. What is not modelled

- Of a run: dry runs, `ingest_uploaded_document`, the working-hours guard, the counters of
  the summary, batching into waves. Of the connectors: paging, rendering of rows, expansion
  of group permissions; of the crawler nested sitemaps, media types and the parsing of
  links. Of the manifest store: `LocalManifestStore` (an
  unconditional write), the manifest's own cursor, blobs that do not parse.
- Two runs at once over the points: `ManifestStore` has concurrent runs of the manifest,
  `ChunkUpsert` concurrent documents of a run, `IngestRun` sequential runs of everything.
- The administration of documents, the queue and its poison retry, health and feedback
  endpoints.
- What nothing calls: `SemanticCache.invalidate`, `pin`, and consolidation on a schedule
  (it is modelled as if someone ran it).
- The OpenAI-compatible client, the MCP session, the harness of the evaluation, panels of
  the browser beside the chat and the sidebar.
- For good: parsing, chunking and the expressions of the recognisers, prompts, embeddings,
  settings, logging, infrastructure: functions over data no property of control depends on,
  or no state at all.

## 7. What could come next

1. The types of `TokenGate`, `RequestBudget`, `ChatTurn` and the others, which are parts of
   their proved invariants, stated for the composed modules.
2. Two concurrent runs over points, rows and manifest, composing `IngestRun` with
   `ManifestStore`; deletion by an administrator beside them.
3. Ties of SQL watermarks; an order of sources over several bases, which the code does not have.
