SPECIFICATION FairLifeSpec
CONSTANTS
    s1 = s1
    s2 = s2
    load = load
    None = None
    MaxRows = 1
    Kinds <- OneKind
    Slots = {s1, s2}
    PageLoad = load
    Limit = 1
    Faults = {"postgres", "network"}
    Urls <- SomeUrls
    DriverArguments <- MCDriverArguments
    Casefold <- MCCasefold
PROPERTIES RefreshEnds CatchesUp GatewayServes OutageShows
