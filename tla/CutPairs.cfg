SPECIFICATION SseSpec
CONSTANTS
 Wires <- SomeWires
INVARIANT FramesFollowSpec
CHECK_DEADLOCK FALSE
