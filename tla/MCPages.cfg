SPECIFICATION PagingSpec
CONSTANTS
    None = None
    Tool = {"repo_map"}
    Row = {1, 2, 3, 4}
    Query = {"q1"}
    Lists <- RowOrders
    Costs <- RowCosts
    Budget = {2}
    Cap = {2}
    Body = 3
    Clip = 2
    MaxEdits = 0
INVARIANTS RowsAreShownOnce
