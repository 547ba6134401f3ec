SPECIFICATION Spec
CONSTANTS
    None = None
    Cvis = {c1, c2}
    Zones = {z1}
    ZoneSets = {{z1}}
    Plates = {p1}
    FallbackKeys = {e1}
    Majority = 1
    Threshold = 1
    ExitConfirm = 1
    Cooldown = 1
    ActiveTtl = 2
    FrameGap = 1
    MatchWindow = 2
    EvictIdle = 2
    IdentityDrift = FALSE
    OcrEnabled = TRUE
    FkEnforced = FALSE
    RedisOutcomes = {"ok"}
    DbOutcomes = {"ok"}
    CommitOutcomes = {"ok"}
    MaxTime = 5
    MaxLag = 0
    MaxObjects = 1
    MaxVotes = 1
    MaxCrashes = 0
SYMMETRY CviSymmetry
INVARIANT OnePenaltyPerVisit
CHECK_DEADLOCK FALSE
