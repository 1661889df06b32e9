SPECIFICATION Spec
CONSTANTS
    s1 = s1
    s2 = s2
    u1 = u1
    u2 = u2
    i1 = i1
    i2 = i2
    NoFile = NoFile
    Empty = Empty
    NoJob = NoJob
    NoUpload = NoUpload
    Scan = {s1, s2}
    PageCount <- MCTwoAndOne
    MaxPages = 2
    Blank <- MCNoPage
    Undecodable <- MCNoPage
    Ingester = {i1, i2}
    Upload = {u1}
    MaxJobs = 1
    SameSecond = TRUE
    MaxFaults = 0
    MaxCrashes = 0
    MaxDeletes = 0
INVARIANT CompleteScan
