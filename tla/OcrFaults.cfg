SPECIFICATION FairSpec
CONSTANTS
    None = None
    Cvis = {c1}
    Requests = {r1, r2}
    Plates = {p1}
    Majority = 2
    MaxAttempts = 1
    SendOutcomes = {"ok"}
    PutOutcomes = {"ok", "refused", "lost"}
    RecogniserRaises = FALSE
    Crashable = {"deepstream", "uploader", "violation", "plate"}
    Stoppable = {}
    Rebalanced = {"requests", "responses", "stored", "ocrRequests", "ocrResults"}
    MaxFaults = 1
INVARIANT OneOcrRequestPerSnapshot
 
PROPERTY ResponseAnnounced
PROPERTY OcrRequestAnswered
PROPERTY PendingResolved
CHECK_DEADLOCK FALSE
