SPECIFICATION FairAttemptsSpec
CONSTANTS
    r1 = r1
    hello = hello
    None = None
    Requests = {r1}
    Models <- MCModels
    Prompts = {hello}
    TokenLimits = {1}
    PromptTokens <- MCPromptTokens
    InitialLatency = 2
    AlphaNum = 1
    AlphaDen = 2
    Queries <- FastQuery
    Configs <- AnyConfig
    MaxRetries = 2
    RetryDelay = 2
    Latencies <- MCLatencies
    Errors <- AllErrors
    Faults = {"adapter"}
    Timeout = 3
    SdkTimeout = 2
    MockLatency = 2
    Statuses = {400, 401, 403, 404, 422, 429, 500, 503}
INVARIANTS TimeIsBounded AverageWithinTimeout
PROPERTIES TransientFailuresAreRetried Termination
