SPECIFICATION FairSpec
CONSTANTS
    NoTask = NoTask
    Proc = {p1, p2}
    Rare = {}
    Ttl = 2
    MaxRun = 1
    MaxSubmits = 2
    Mortal = {p1}
  
PROPERTIES LeaseEnds WaitedTaskIsRecorded
