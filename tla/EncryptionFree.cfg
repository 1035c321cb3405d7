CONSTANTS
    Node = {m1}
    Key = {a, b}
    ValidKey = {a, b}
    Secret = {s1, s2, s3}
    Annotated = s1
    EtcdFaults = FALSE
    MaxRequests = 3
SPECIFICATION FreeSpec
INVARIANT AcceptedRequestCoversScan
SYMMETRY Symmetry
CHECK_DEADLOCK FALSE
