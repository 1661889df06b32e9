SPECIFICATION Spec
CONSTANTS
    Thread = {finder, request}
    finder = finder
    Nobody = Nobody
    Blank = Blank
    Rows = 10
    ReadRows = 5
    Block = 4
    MaxSheets = 2
    MaxOpens = 2
    MaxPlugs = 2
    MaxScans = 1
INVARIANTS
    TypeOK
    DocumentInOrder
    WholeBlocksEncoded
    ScansAlone
PROPERTIES
    ScanEnds
CHECK_DEADLOCK FALSE
