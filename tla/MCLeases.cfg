SPECIFICATION SessionsSpec
CONSTANTS
    Menus = {"leases"}
    s1 = s1
    s2 = s2
    p1 = p1
    k1 = k1
    k2 = k2
    pol1 = pol1
    pol2 = pol2
    Absent = Absent
    Nobody = Nobody
    NoKey = NoKey
    NoPolicy = NoPolicy
    None = None
    NoCall = NoCall
    NoLease = NoLease
    Session = {s1, s2}
    Agent = {1, 2}
    Path = {p1}
    Key = {k1}
    Policy = {pol1}
    MaxMessages = 2
    MaxHandoffs = 2
    MaxIdempotency = 2
    MaxStale = 2
    DefaultTtl = 2
    SuspendTtl = 2
    Replies = {TRUE}
    AgentOf <- TwoAgents
    Calls <- LeaseCalls
    MaxEvents = 4
    MaxTime = 3
INVARIANTS TypeOK RebuildAgrees
PROPERTIES
    IncarnationsMoveForward ActiveIncarnationNeedsForce NoCommitPanics OthersAreLeftAlone
