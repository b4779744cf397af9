SPECIFICATION FairSpec
CONSTANTS
    p1 = p1
    p2 = p2
    k1 = k1
    k2 = k2
    u1 = u1
    u2 = u2
    u3 = u3
    u4 = u4
    NoTask = NoTask
    Proc = {p1, p2}
    KB = {k1, k2}
    Upload = {u1, u2, u3, u4}
    KbOf <- MCKbOf
    HashOf <- MCHashOf
    Deployments <- OneProcess
    MaxLen = 1
    MaxCrashes = 1
PROPERTY PendingIsReclaimed
CHECK_DEADLOCK FALSE
