SPECIFICATION TurnsSpec
CONSTANTS
    Absent = Absent
    NotGiven = NotGiven
    Proc = {p1, p2}
    Result = {r1}
    MaxRounds = {1}
    DefaultMaxRounds = 2
    MaxPosts = 2
INVARIANT PostsStay
CHECK_DEADLOCK FALSE
