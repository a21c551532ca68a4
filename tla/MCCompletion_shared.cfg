SPECIFICATION Spec
CONSTANTS
    r1 = r1
    r2 = r2
    r3 = r3
    hello = hello
    m1 = m1
    m2 = m2
    None = None
    Requests = {r1, r2, r3}
    Models = {m1, m2}
    Prompts = {hello}
    TokenLimits = {1, 3}
    PromptTokens <- MCPromptTokens
    InitialLatency = 2
    AlphaNum = 3
    AlphaDen = 10
    Queries <- RoutedQueries
    Configs <- ModelChange
    MaxRetries = 0
    RetryDelay = 0
    Latencies = {0, 5}
    Errors = {"ProviderTimeoutError"}
    Faults = {"redis", "process"}
SYMMETRY SharedSymmetry
INVARIANTS CacheSound AnswerIsGenuine OneRowPerCompletion AverageWithinExperience PreferredProviderAnswers FallbackOnlyAfterExhaustion
PROPERTIES FastestFollowsExperience
