SPECIFICATION FairSpec
CONSTANTS
    r1 = r1
    r2 = r2
    r3 = r3
    t1 = t1
    t2 = t2
    e1 = e1
    e2 = e2
    e3 = e3
    pa = pa
    pb = pb
    x = x
    y = y
    Request = {r1, r2, r3}
    Target = {t1, t2}
    Entry = {e1, e2, e3}
    Provider = {pa, pb}
    Prompt = {x, y}
    TargetOf <- MCTargetOf
    ProviderOf <- MCProviderOf
    Price <- MCPrice
    Asks <- MCAsks
    Cap = 2
    Slots = 1
    Window = 1
    OpenFor = 1
    MinSamples = 2
    RateNum = 1
    RateDen = 2
    MaxTime = 2
INVARIANTS
    SlotsAreReturned
    OpenTargetsGetNoNewRequests
    OneSamplePerRequest
    LoneCallsOvershootOnce
    FailedMeansAllFailed
PROPERTIES
    RequestsEnd
CHECK_DEADLOCK FALSE
