SPECIFICATION Spec
CONSTANTS
    Missing = Missing
    Garbled = Garbled
    Kinds = {"presence"}
    FaultSets = {{"line"}}
    BloatLines = 3
    CompactCount = 2
    KeepTail = 1
    MaxOps = 4
INVARIANTS AckedSurvive
