SPECIFICATION ChatTurnSpec
CONSTANTS
 Capacity = 1
 MaxRounds = 2
 MaxTurnFaults = 2
 MaxBeats = 1
 Tools = {"lookup"}
 LocalTools = {"lookup"}
 Arguments = {"a", "b"}
 Personal = {"b"}
 Ceilings = {1, 3}
 MaxIterations = 3
 RepeatLimit = 2
 MaxCalls = 2
 ChunkKinds <- SomeChunks
 MaxChunks = 3
 Memories <- SomeMemories
 Histories <- SomeHistories
 Summaries <- SomeSummaries
 Overheads = {0, 8}
 PromptBudget = 10
 RetrievedBudget = 6
 MemoryBudget = 4
 SummaryBudget = 2
 FixedTokens = 1
 MinChunks = 1
 MinTurns = 1
 FitPasses = 1
 Sources = 2
 Sentences <- SomeSentences
 MaxSentences = 2
 Whole = 4
 Enough = 2
 Floor = 1
INVARIANTS ChatTurnTypeOK StreamIsWellFormed TurnIsAccounted
INVARIANTS PackingIsHonest AnswerIsHonest
PROPERTIES LoopIsSafe EverythingEnds
CHECK_DEADLOCK FALSE
