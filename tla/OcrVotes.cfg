SPECIFICATION Spec
CONSTANTS
    None = None
    Cvis = {c1}
    Requests = {r1, r2}
    Plates = {p1}
    Majority = 2
    MaxAttempts = 2
    SendOutcomes = {"ok", "refused", "lost"}
    PutOutcomes = {"ok", "refused"}
    RecogniserRaises = TRUE
    Crashable = {"violation"}
    Stoppable = {"uploader", "plate"}
    Rebalanced = {"stored"}
    MaxFaults = 1
SYMMETRY IdSymmetry
INVARIANT TypeOK
INVARIANT DistinctReadings
PROPERTY ElectionSpec
CHECK_DEADLOCK FALSE
