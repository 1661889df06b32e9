SPECIFICATION Spec
CONSTANTS
    s1 = s1
    s2 = s2
    u1 = u1
    u2 = u2
    i1 = i1
    i2 = i2
    NoFile = NoFile
    Empty = Empty
    NoJob = NoJob
    NoUpload = NoUpload
    Scan = {s1}
    PageCount <- MCAllPages
    MaxPages = 1
    Blank <- MCNoPage
    Undecodable <- MCNoPage
    Ingester = {i1}
    Upload = {u1, u2}
    MaxJobs = 1
    SameSecond = FALSE
    MaxFaults = 0
    MaxCrashes = 0
    MaxDeletes = 0
PROPERTY TrashOnlyPartial
