\* Two nodes, of which each may crash and start again.
SPECIFICATION Spec
CONSTANTS
    n1 = n1
    n2 = n2
    k = k
    Node = {n1, n2}
    Key = {k}
    Usage = {1, 2}
    CmdCap = 2
    ReportCap = 1
    MaxTx = 2
    MaxSaid = 2
    MaxStarts = 2
INVARIANTS
    TypeOK
    OnlyRealUpdates
    OnePerKey
PROPERTIES
    CommandsTaken
CHECK_DEADLOCK FALSE
