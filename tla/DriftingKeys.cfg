SPECIFICATION Spec
CONSTANTS
    None = None
    Cvis = {c1}
    Zones = {z1, z2}
    ZoneSets = {{z1}, {z2}}
    Plates = {p1}
    FallbackKeys = {e1, e2}
    Majority = 1
    Threshold = 1
    ExitConfirm = 1
    Cooldown = 2
    ActiveTtl = 2
    FrameGap = 1
    MatchWindow = 2
    EvictIdle = 2
    IdentityDrift = TRUE
    OcrEnabled = TRUE
    FkEnforced = FALSE
    RedisOutcomes = {"ok", "refused"}
    DbOutcomes = {"ok", "refused"}
    CommitOutcomes = {"ok", "failed"}
    MaxTime = 7
    MaxLag = 0
    MaxObjects = 1
    MaxVotes = 1
    MaxCrashes = 0
SYMMETRY ZoneSymmetry
INVARIANT PenaltySpacing
INVARIANT ActiveKeyHasRow
CHECK_DEADLOCK FALSE
