SPECIFICATION FairSpec
CONSTANTS
    None = None
    Texts = {1, 2}
    Strategies = {"fixed", "fastest"}
    MaxCopies = 2
INVARIANTS PageTellsTheTruth
PROPERTIES RequestEnds LabelReturns
