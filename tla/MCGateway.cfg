SPECIFICATION Spec
CONSTANTS
    r1 = r1
    r2 = r2
    r3 = r3
    alice = alice
    bob = bob
    carol = carol
    jane = jane
    odd = odd
    ta = ta
    tb = tb
    ka = ka
    kb1 = kb1
    kb2 = kb2
    s1 = s1
    emb = emb
    vec = vec
    Anonymous = Anonymous
    DefaultTenant = DefaultTenant
    Unrestricted = Unrestricted
    Request = {r1, r2, r3}
    Tenant = {ta, tb, DefaultTenant}
    Kb = {ka, kb1, kb2}
    Session = {s1}
    Plugin = {emb, vec}
    Builtins = {emb, vec}
    EntryPoints = {vec}
    Broken <- MCBroken
    KbConfig <- MCKbConfig
    DefaultKb = ka
    Identity <- MCIdentity
    StaticKeys = {alice, carol}
    KeyRows = {bob}
    Claims <- MCClaims
    Malformed = {odd}
    Burst <- MCBurst
    Rate <- MCRate
    Cost = 2
    LlmTokens = {3}
    MaxTime = 3
    UploadCap = 2
    TokenCap = 1
    MaxPeriod = 1
    MaxEntries = 2
    MaxStarts = 2
    Scenarios <- MCScenarios
INVARIANTS
    BucketsHold
    QuotaHolds
    AuditIsComplete
    SessionsAnswerOnce
    PluginsFollowTheApp
PROPERTY
    RequestsAreAnswered
CHECK_DEADLOCK FALSE
