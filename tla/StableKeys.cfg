SPECIFICATION Spec
CONSTANTS
    None = None
    Cvis = {c1, c2}
    Zones = {z1}
    ZoneSets = {{z1}}
    Plates = {}
    FallbackKeys = {e1}
    Majority = 1
    Threshold = 1
    ExitConfirm = 1
    Cooldown = 1
    ActiveTtl = 2
    FrameGap = 1
    MatchWindow = 2
    EvictIdle = 2
    IdentityDrift = FALSE
    OcrEnabled = FALSE
    FkEnforced = FALSE
    RedisOutcomes = {"ok"}
    DbOutcomes = {"ok", "refused", "lost"}
    CommitOutcomes = {"ok"}
    MaxTime = 6
    MaxLag = 1
    MaxObjects = 2
    MaxVotes = 0
    MaxCrashes = 1
SYMMETRY CviSymmetry
INVARIANT TypeOK
INVARIANT OnePenaltyPerVisit
INVARIANT RowsInReachedCycles
INVARIANT HolderKeepsActiveKey
PROPERTY LedgerSpec
PROPERTY RegistrySpec
CHECK_DEADLOCK FALSE
