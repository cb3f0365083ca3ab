SPECIFICATION Spec
CONSTANTS
    Missing = Missing
    Garbled = Garbled
    Kinds = {"presence"}
    FaultSets = {{"rebuilt"}, {"line", "newline", "repair", "projection"}}
    BloatLines = 3
    CompactCount = 2
    KeepTail = 1
    MaxOps = 6
INVARIANTS TrustIsSound JournalStaysBounded
PROPERTIES ImplementsStore
