SPECIFICATION Spec
CONSTANTS
    s1 = s1
    s2 = s2
    load = load
    None = None
    MaxRows = 1
    Kinds <- OneKind
    Slots = {s1, s2}
    PageLoad = load
    Limit = 1
    Faults = {}
INVARIANTS UpToDate
