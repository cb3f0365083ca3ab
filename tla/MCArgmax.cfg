SPECIFICATION Spec
CONSTANTS
    Rows = 2
    Configs <- LocalOnly
    MaxDecides = 1
INVARIANTS NoSilentArgmax
