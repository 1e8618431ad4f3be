SPECIFICATION RoutingSpec
CONSTANTS
    Tiers <- DEFAULT_TIERS
    FallbackModel = "deepseek-v4-pro"
    Claude = {"claude-sonnet-5", "claude-opus-5-5", "claude-haiku-4-5"}
    Down = {"gpt-5.4-mini", "deepseek-v4-pro", "claude-haiku-4-5"}
    Verdicts = {8}
    OtherFloors = {0}
    CapsSent = {"gpt-5.4-mini"}
    ShiftsSent = {0}
    MAX_DROP = 3
    SESSION_ITEMS = 1
    SESSION_TTL = 0
    MaxTurns = 1
    MaxSteps = 2
    LastTime = 0
INVARIANT CapHolds
CHECK_DEADLOCK FALSE
