SPECIFICATION Spec
CONSTANTS
    q1 = q1
    q2 = q2
    k1 = k1
    k2 = k2
    t1 = t1
    t2 = t2
    e1 = e1
    Blank = Blank
    NoId = NoId
    NoQuery = NoQuery
    KB = {k1, k2}
    Text = {t1, t2}
    Entity = {e1}
    Query = {q1, q2}
    Chunk <- MCChunk
    HomeOf <- MCHomeOf
    Field = {"doc_id", "page", "lang"}
    NumberField = {"page"}
    Meta <- MCMeta
    Containing <- MCContaining
    CacheDoc = 0
    Tokens <- MCTokens
    Similar <- MCSimilar
    Matching <- MCMatching
    Mentions <- MCMentions
    Seeds <- MCSeeds
    Adjacent <- MCAdjacent
    Members <- MCMembers
    DenseTopK = 3
    Bm25TopK = 3
    RerankTopK = 3
    Candidates = 3
    RrfK = 2
    Weight <- MCWeight
    Scale = 60
    ContextBudget = 3
    DefaultKB = k1
    Plans <- MCPlans
    MaxTasks = 2
    RerankScore <- MCRerankScore
    UsagePerCall = 1
    Workloads <- MCWorkloads
    Deployments <- MCDeployments
INVARIANTS
    StandardAnswersAreGrounded
    AgenticAnswersAreVerified
    LoneUsageIsOwn
    TracesAreHonest
PROPERTY
    QueriesEnd
CHECK_DEADLOCK FALSE
