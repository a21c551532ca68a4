SPECIFICATION Spec
CONSTANTS
    r1 = r1
    r2 = r2
    r3 = r3
    hello = hello
    m1 = m1
    m2 = m2
    None = None
    Requests = {r1, r2}
    Models = {m1, m2}
    Prompts = {hello}
    TokenLimits = {1}
    PromptTokens <- MCPromptTokens
    InitialLatency = 2
    AlphaNum = 1
    AlphaDen = 2
    Queries <- FixedQuery
    Configs <- AnyConfig
    MaxRetries = 2
    RetryDelay = 1
    Latencies = {2}
    Errors = {"ProviderTimeoutError", "ProviderRequestError"}
    Faults = {"redis", "postgres", "process", "adapter"}
SYMMETRY Symmetry
INVARIANTS TypeOK FallbackOnlyAfterExhaustion CallBudget TelemetryTruth PreferredProviderAnswers
PROPERTIES NeverCallAfterFinalError ImplementsPromise
