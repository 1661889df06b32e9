SPECIFICATION Spec
CONSTANTS
    h1 = h1
    h2 = h2
    f1 = f1
    Main = Main
    NoFile = NoFile
    Empty = Empty
    NoAccount = NoAccount
    Sub = {1, 2}
    Folder = {f1}
    Handler = {h1}
    MaxGrants = 2
    MaxErrors = 0
    MaxRequests = 3
    MaxCrashes = 0
INVARIANT SignedOutCanLogIn
CHECK_DEADLOCK FALSE
