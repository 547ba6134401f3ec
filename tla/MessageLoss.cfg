SPECIFICATION FairSpec
CONSTANTS
    None = None
    Cvis = {c1, c2}
    Zones = {z1, z2}
    ZoneSets = {{z1, z2}, {z1}, {}}
    Plates = {}
    FallbackKeys = {e1}
    Majority = 1
    Threshold = 1
    ExitConfirm = 1
    Cooldown = 1
    ActiveTtl = 2
    FrameGap = 1
    MatchWindow = 2
    EvictIdle = 2
    IdentityDrift = FALSE
    OcrEnabled = FALSE
    FkEnforced = FALSE
    RedisOutcomes = {"ok"}
    DbOutcomes = {"ok", "refused"}
    CommitOutcomes = {"ok"}
    MaxTime = 3
    MaxLag = 0
    MaxObjects = 1
    MaxVotes = 0
    MaxCrashes = 1
PROPERTY MessageCommitted
CHECK_DEADLOCK FALSE
