SPECIFICATION ServicesSpec
CONSTANTS
    NoEntry = NoEntry
    NoIdea = NoIdea
    Reader = {r1, r2}
    File = {f1}
    MaxWrites = 2
    Client = {c1, c2}
    Runners = 2
    MaxScans = 2
    Path = {f1, f2}
    MaxChanges = 3
    MaxDirs = 1
    MaxFaults = 1
    Writer = {w1, w2}
    MaxCalls = 3
    Title = {title1}
    MaxSlug = 2
    RunId = {1, 2}
    MaxRuns = 1
    None = None
    Thread = {t1, t2}
    Viewer = {v1}
    Pid = {1, 2}
    Own = 1
    Reading = {1}
    MaxSeq = 3
    MaxCaptures = 2
    MaxSamples = 2
    MaxStarts = 3
INVARIANTS
     OnlyDroppedPassesLeak LedgerMends AckedRunsAreKept
    CancelIsObeyed  CapturesAreKept
PROPERTIES  LatchedIsRefused HitIsFresh
CHECK_DEADLOCK FALSE
