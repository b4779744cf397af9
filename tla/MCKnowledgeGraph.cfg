SPECIFICATION Spec
CONSTANTS
    d1 = d1
    d2 = d2
    c1 = c1
    c2 = c2
    c3 = c3
    acme = acme
    acmeInc = acmeInc
    bolt = bolt
    corp = corp
    noise = noise
    Skipped = Skipped
    Doc = {d1, d2}
    Chunk = {c1, c2, c3}
    Name = {acme, acmeInc, bolt, corp, noise}
    Doubtful = {noise}
    ChunksOf <- MCChunksOf
    NameNorm <- MCNameNorm
    NameLen <- MCNameLen
    AlikeName <- MCAlikeName
    ByModel <- MCByModel
    ByRules <- MCByRules
    Wirings <- MCWirings
    MaxReruns = 1
INVARIANTS
    BuiltMeansPresent
    
    RelationsJoinEntities
CHECK_DEADLOCK FALSE
