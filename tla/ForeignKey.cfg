SPECIFICATION Spec
CONSTANTS
    None = None
    Cvis = {c1, c2}
    Zones = {z1}
    ZoneSets = {{z1}}
    Plates = {}
    FallbackKeys = {e1}
    Majority = 1
    Threshold = 1
    ExitConfirm = 1
    Cooldown = 1
    ActiveTtl = 2
    FrameGap = 1
    MatchWindow = 2
    EvictIdle = 2
    IdentityDrift = FALSE
    OcrEnabled = FALSE
    FkEnforced = TRUE
    RedisOutcomes = {"ok"}
    DbOutcomes = {"ok"}
    CommitOutcomes = {"ok"}
    MaxTime = 5
    MaxLag = 0
    MaxObjects = 1
    MaxVotes = 0
    MaxCrashes = 0
SYMMETRY CviSymmetry
INVARIANT ActiveKeyHasRow
CHECK_DEADLOCK FALSE
