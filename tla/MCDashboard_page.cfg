SPECIFICATION Spec
CONSTANTS
    s1 = s1
    s2 = s2
    load = load
    None = None
    MaxRows = 2
    Kinds <- ThreeKinds
    Slots = {s1, s2}
    PageLoad = load
    Limit = 1
    Faults = {"postgres", "network"}
SYMMETRY Symmetry
INVARIANTS TypeOK CountersAgree AsFreshAsAsked NothingSkipped
