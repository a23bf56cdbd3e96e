SPECIFICATION WindowSpec
CONSTANTS
 Workers = {w1}
 MaxMessages = 6
 MaxHistory = 6
 MinLive = 2
 CompactEvery = 3
 WindowFaults = {}
 MaxWindowFaults = 0
INVARIANTS EarlierTurnsAreReplayed
CHECK_DEADLOCK FALSE
