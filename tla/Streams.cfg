SPECIFICATION StreamsSpec
CONSTANTS
 Sessions = {"s1", "s2"}
 Listed = {"s1"}
 MaxTurns = 2
 StreamRetries = 1
 AnswerLength = 1
 MaxAsked = 1
 Wires <- SomeWires
 CallKinds = {"complete", "stream", "structured", "classify"}
 Wants <- SomeWants
 ModelMessages <- SomeMessages
 MaxRetries = 2
 Pages = {"a", "b", "c", "d", "other"}
 Seeds <- SomeSeeds
 Redirected <- SomeRedirects
 Tagged = {"a", "other"}
 Dated = {"b", "c"}
 Disallowed = {"c"}
 Foreign = {"other"}
 Webs <- SomeWebs
 MaxDepth = 2
 MaxPages = 4
 MaxChanges = 1
 MaxCrawls = 2
 MaxCrawlFaults = 1
INVARIANTS StreamsTypeOK TranscriptIsHonest FramesIgnoreChunking CallIsOneAnswer CrawlIsHonest
PROPERTIES TurnSettles
CHECK_DEADLOCK FALSE
