CONSTANTS
    Node = {m1, m2}
    Key = {a, x}
    ValidKey = {a}
    Secret = {s1}
    Annotated = s1
    EtcdFaults = TRUE
    MaxRequests = 1
SPECIFICATION FairSpec
INVARIANT DoneNodesConsistent
PROPERTY CampaignSettles
CHECK_DEADLOCK FALSE
