CONSTANTS
    Node = {m1, m2}
    Key = {a, b}
    ValidKey = {a, b}
    Secret = {s1, s2}
    Annotated = s1
    EtcdFaults = FALSE
    MaxRequests = 2
SPECIFICATION Spec
CONSTRAINT OneSecretLast
SYMMETRY Symmetry
INVARIANT UpdatedNodesReadEverything
INVARIANT CurrentIsInEtcd
CHECK_DEADLOCK FALSE
