SPECIFICATION SharedSpec
CONSTANTS
 Workers = {w1}
 MaxMessages = 7
 MaxHistory = 3
 MinLive = 1
 CompactEvery = 2
 WindowFaults = {"evict", "commit"}
 MaxWindowFaults = 2
 MaxMemories = 2
 MemoryCap = 1
 TopK = 1
 MaxCandidates = 1
 MaxSalience = 1
 MemoryFaults = {"resolve", "search", "commit"}
 MaxMemoryFaults = 1
 MaxMemoryEvents = 2
 Turns = {t1}
 Queries = {q1, q2, q3}
 Chunks = {c1, c2}
 CacheCap = 1
 MaxHits = 2
 MaxIndexChanges = 1
 MaxEvictFaults = 1
 Runs = {r1, r2}
 Docs = {d1, d2}
 Attempts = 2
 Provisioned = TRUE
 Faults = {"write", "crash"}
 MaxFaults = 1
 Golden <- SomeGolden
 Limits <- SomeLimits
 Baselines <- SomeBaselines
 Concurrency = 2
 HardRefusal = 1
 Full = 2
 WorstShown = 2
 Requests = {"r1", "r2"}
 Kids = {"k1", "k2"}
 Scenes <- SomeScenes
 FirstKeys = {"k1"}
 KeyTimeout = 1
 KeyLife = 2
 KeyPause = 1
 GroupLife = 2
 Leeway = 1
 GroupRank = 0
 RoleRank = 2
 DefaultRank = 1
 MaxTime = 3
 Replicas = {"a", "b"}
 PerMinute = 2
 Burst = 1
 LastTick = 3
 MaxAdmitted = 5
 Documents = {"d1", "d2"}
 Drafts <- SomeDrafts
 Blank = " "
 DedupeEnabled = TRUE
 NearPairs <- SomeNear
 BatchSize = 1
 MaxRuns = 3
 MaxMishaps = 1
INVARIANTS SharedTypeOK WindowIsFaithful SavedIsKept GreenIsEarned IndexIsHonest
PROPERTIES MemoriesAreKept CacheIsSafe RefinesRegister AdmissionIsSound
CHECK_DEADLOCK FALSE
