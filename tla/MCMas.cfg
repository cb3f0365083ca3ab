SPECIFICATION Spec
CONSTANTS
    p1 = p1
    p2 = p2
    a = a
    b = b
    x = x
    y = y
    r1 = r1
    r2 = r2
    Absent = Absent
    NotGiven = NotGiven
    Nobody = Nobody
    Proc = {p1}
    Path = {a, b}
    Content = {x, y}
    Result = {r1, r2}
    MaxRounds = {1}
    DefaultMaxRounds = 2
    MaxPosts = 2
    MaxEntries = 2
    MaxEdits = 1
SYMMETRY Interchangeable
INVARIANTS PostsStay SpillsAreTheirs WritesAreJournaled FinalIsSettled
PROPERTIES RecoveredIsRestored 
