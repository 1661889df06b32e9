SPECIFICATION Spec
CONSTANTS
    h1 = h1
    h2 = h2
    f1 = f1
    Main = Main
    NoFile = NoFile
    Empty = Empty
    NoAccount = NoAccount
    Sub = {1, 2}
    Folder = {f1}
    Handler = {h1, h2}
    MaxGrants = 2
    MaxErrors = 1
    MaxRequests = 2
    MaxCrashes = 1
INVARIANTS
    TypeOK
    RefreshTokenKept
    FreshIsDisk
    AloneTakesEffect
SYMMETRY MCSymmetry
CHECK_DEADLOCK FALSE
