SPECIFICATION FairSpec
CONSTANTS
    p1 = p1
    p2 = p2
    k1 = k1
    k2 = k2
    u1 = u1
    u2 = u2
    u3 = u3
    u4 = u4
    NoTask = NoTask
    Proc = {p1, p2}
    KB = {k1, k2}
    Upload = {u1, u2, u3, u4}
    KbOf <- MCKbOf
    HashOf <- MCHashOf
    Deployments <- MCDeployments
    MaxLen = 1
    MaxCrashes = 1
INVARIANTS
    SequentialUploadsAreDeduplicated
    RejectedOnlyForATwin
    AcceptedIsHeld
    AtMostOneCall
    AckedIsDone
    RoundRobin
PROPERTIES
    InProcessTaskIsRun
    ReadStreamsDrain
CHECK_DEADLOCK FALSE
