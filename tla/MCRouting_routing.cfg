SPECIFICATION MCSpec
CONSTANTS
    Units = {"scorer", "verifier", "preferences", "routing"}
    Tiers <- DEFAULT_TIERS
    FallbackModel = "deepseek-v4-pro"
    Vocabulary = {"explain", "rename", "fix", "crash", "deadlock", "refactor", "latency", "audit",
                  "decompose", "systemdesign", "millionusers", "thisfunction", "typeerrors",
                  "thesefiles", "everywhere", "redis", "oauth", "jwt", "rollback", "robust"}
    MaxPhrases = 3
    FileCounts = {1, 10}
    Origins <- MCOrigins
    Askers = {"a1", "a2"}
    Texts = {"plain", "rigged"}
    Rigged = {"rigged"}
    Computed = {3, 9, 12}
    Opinions = {0, 1, 10, 20, 21}
    BAND = 6
    MARGIN = 1
    VERDICT_ITEMS = 2
    VERDICT_TTL = 1
    MaxAsks = 3
    VerifierHorizon = 2
    Slots = {"s1", "s2"}
    Budgets = {0, 5}
    CapNames = {"deepseek-flash", "gpt-5.5", "gpt-5.4", "unheard-of"}
    CapModels = {"deepseek-flash", "gpt-5.5", "gpt-5.4"}
    Costs = {1, 4}
    WARN = 80
    BUDGET_SHIFT = 2
    BUDGET_CAP = "gpt-5.4-mini"
    MODE_SHIFT = 2
    MaxSpend = 6
    Days = 2
    Claude = {"claude-sonnet-5", "claude-opus-5-5", "claude-haiku-4-5"}
    Down = {"claude-sonnet-5", "gpt-5.5"}
    Verdicts = {0, 2, 12, 15}
    OtherFloors = {0}
    CapsSent = {"none", "gpt-5.4-mini"}
    ShiftsSent <- MCShifts
    MAX_DROP = 3
    SESSION_ITEMS = 1
    SESSION_TTL = 0
    MaxTurns = 2
    MaxSteps = 4
    LastTime = 1
INVARIANTS
    AutoTypeOK
    OpinionIsBounded
    OverrunBounded RoutedAsAsked
    ScoredWithinCap
PROPERTIES
    MoreIsNeverLess
    LoopStaysPut ScoreFallsSlowly ClaudeEffortKept
CHECK_DEADLOCK FALSE
