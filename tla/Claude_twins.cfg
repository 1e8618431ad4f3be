SPECIFICATION ClaudeSpec
CONSTANTS
    Letters = {"a"}
    MaxReplies = 2
    MaxBlocks = 4
    MaxText = 1
    STASH_ITEMS = 2
    STASH_TTL = 1
    MaxTime = 0
INVARIANT OwnThinking
CHECK_DEADLOCK FALSE
