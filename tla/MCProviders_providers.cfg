SPECIFICATION MCSpec
CONSTANTS
    Units = {"access", "rate", "transport", "request", "claude"}
    Requests = {"r1", "r2"}
    Provider = {"ds", "oa"}
    DeepSeek = "ds"
    Catalogue <- MCCatalogue
    Priced = {"flash", "mini"}
    AutoNames = {"auto"}
    Unsupported = {"gpt3"}
    Chain <- MCChain
    SECRET_TTL = 2
    Horizon = 3
    Turns = {"t1", "t2", "t3"}
    Providers = 2
    TTL = 4
    RETRY = 3
    MaxFetch = 1
    Boot = {0, 3, 5}
    RateHorizon = 9
    MaxRetries = 3
    MaxChunks = 2
    Failures = {0, 1, 200, 400, 401, 409, 429, 503}
    Asks <- MCAsks
    Layouts = {"own", "twin"}
    MaxMessages = 4
    Letters = {"a"}
    MaxReplies = 2
    MaxBlocks = 3
    MaxText = 2
    STASH_ITEMS = 1
    STASH_TTL = 0
    MaxTime = 1
INVARIANTS
    ProvidersTypeOK
    OurKeyInOrder PricedFresh RepeatedOnlyIfSafe
    NothingRefusedIsSent
    StreamAgreesWithComplete SentBackWhole
PROPERTIES ImplementsProviderCall PrefixIsStable
CHECK_DEADLOCK FALSE
