SPECIFICATION ServicesSpec
CONSTANTS
 Users = {"u"}
 Groups = {"g"}
 Roles = {}
 Tenants = {1,2}
 Ranks = {0,1}
 Facets = {"x","y"}
 Dates = {0,1}
 Defaults <- AclDefaults
 Wishes <- SomeWishes
 ProbeCount = 2
 Corpora <- SomeCorpora
 FusionScores = {1, 4}
 RerankScores = {1, 5}
 ScoreTop = 6
 Logistic <- SomeLogistic
 SearchLimit = 2
 RerankLimit = 3
 RerankTop = 2
 RerankFloor = 2
 PerDocument = 1
 TopN = 3
 OodFloor = 3
 OodMeanFloor = 2
 CollapseSpread = 0
 CollapseTop = 4
 Turns <- SomeTurns
 Passages <- SomePassages
 MaxPassages = 1
 Recognizers <- SomeRecognizers
 ContextWindow = 1
 Credentials = {3, 4}
 Rules <- SomeRules
 MinChars = 1
 MaxChars = 4
 ScanChars = 3
 Confident = 60
 VerifyFrom = 60
 KeepChars = 1
 HookWeight = 45
 ForgeryWeight = 40
 InvisibleWeight = 20
 RepeatBonus = 5
 RepeatCap = 10
 WarnAt = 30
 BlockAt = 70
 PassageBlockAt = 50
 BenignFactor = 40
 Pools <- SomePools
 Likenesses <- SomeLikenesses
 Alike = 4
 MinPassages = 2
 MaxClusters = 1
 MaxPairs = 3
 Horizon = 3
 Words = {"a", "b"}
 Payloads <- SomePayloads
 OwnFilters <- SomeOwn
 DayLength = 2
 MonthLength = 4
 YearLength = 12
 MaxSubqueries = 1
 Abstract <- SomeAbstract
 Callers = {"c1", "c2"}
 Urls = {"u", "v"}
 Bodies = {"b"}
 Attempts = 2
 Threshold = 2
 ResetTicks = 1
 Lifetime = 3
 Skew = 1
 Ttl = 2
 CacheSize = 1
 MaxToolTime = 3
 MaxToolCalls = 3
INVARIANTS ServicesTypeOK FilterIsPermits DefaultsNeverGrant MergeNeverWidens
INVARIANTS RetrievalIsHonest ScreeningIsSound ConflictsAreHonest
INVARIANTS PlanIsFaithful ToolCallsAreSound
PROPERTIES BestIsKept
CHECK_DEADLOCK FALSE
