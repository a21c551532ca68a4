SPECIFICATION Spec
CONSTANTS
    None = None
    Levels <- TwoWorkers
    Scenarios <- Both
    RequestCount = 3
    Warmup = 0
    Latencies = {0, 3}
    Faults = {"request", "cache", "reply"}
INVARIANTS ResultsAddUp ExitTellsTheTruth
CHECK_DEADLOCK FALSE
