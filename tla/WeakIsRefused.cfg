SPECIFICATION RetrievalSpec
CONSTANTS
 ProbeCount = 2
 Corpora <- SomeCorpora
 FusionScores = {1, 4}
 RerankScores = {1, 5}
 ScoreTop = 6
 Logistic <- SomeLogistic
 SearchLimit = 2
 RerankLimit = 3
 RerankTop = 2
 RerankFloor = 2
 PerDocument = 1
 TopN = 3
 OodFloor = 3
 OodMeanFloor = 2
 CollapseSpread = 0
 CollapseTop = 4
INVARIANTS WeakIsRefused
CHECK_DEADLOCK FALSE
