SPECIFICATION Spec
CONSTANTS
    e1 = e1
    e2 = e2
    k1 = k1
    k2 = k2
    r1 = r1
    r2 = r2
    Original = Original
    Elsewhere = Elsewhere
    None = None
    Editor = {e1, e2}
    Query = {r1, r2}
    KB = {k1, k2}
    Home = k1
    AskedIn <- MCAskedIn
    Alike <- MCAlike
    MaxFaults = 1
INVARIANTS
    NeverServesSuperseded
    RefusedLeavesNoTrace
    EditsKeepTheChunkSearchable
    AnsweredFromTheRow
    ExactHitsOutliveNoInvalidation
SYMMETRY MCSymmetry
CHECK_DEADLOCK FALSE
