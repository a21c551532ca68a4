SPECIFICATION FairGatewaySpec
CONSTANTS
    alice = alice
    r1 = r1
    r2 = r2
    hello = hello
    None = None
    NoBucket = NoBucket
    Requests = {r1, r2}
    Models <- MCModels
    Prompts = {hello}
    TokenLimits = {1}
    PromptTokens <- MCPromptTokens
    InitialLatency = 2
    AlphaNum = 1
    AlphaDen = 2
    Queries <- OneQuery
    Configs <- AnyConfig
    MaxRetries = 1
    RetryDelay = 0
    Latencies = {2}
    Errors = {"ProviderTimeoutError"}
    Faults = {"redis", "adapter"}
    Clients = {alice}
    Owner <- OneOwner
    Capacity = 1
    Grain = 1
    Refill = 2
    Second = 1
    MinTTL = 1
    Steps = {1}
    MaxSends = 2
    MaxTravel = 2
INVARIANTS WorkIsPaid UpstreamBound
PROPERTIES EveryRequestEnds
