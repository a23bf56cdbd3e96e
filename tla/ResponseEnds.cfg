SPECIFICATION FairTurnSpec
CONSTANTS
 Capacity = 1
 MaxRounds = 1
 MaxTurnFaults = 0
 MaxBeats = 0
PROPERTY ResponseEnds
CHECK_DEADLOCK FALSE
