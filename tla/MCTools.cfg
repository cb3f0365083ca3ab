SPECIFICATION ToolsSpec
CONSTANTS
    None = None
    Tool = {"outline", "big_functions", "symbol_refs", "symbol_context", "knowledge_search", "module_map"}
    Row = {1, 2, 3, 4}
    Query = {"q1", "q2"}
    Lists <- RowOrders
    Costs <- RowCosts
    Budget = {2, 5}
    Cap = {2}
    Body = 3
    Clip = 2
    MaxEdits = 1
    Server = {w1, w2}
    FlushThreshold = 2
    Window = 0
    MaxEvents = 3
    MaxClock = 2
    Rows = 2
    Configs <- Settings
    MaxDecides = 2
SYMMETRY Processes
INVARIANTS
    RowsAreShownOnce PagesMoveOn
      SourceIsTrue EnginesLoadOnce
CHECK_DEADLOCK FALSE
