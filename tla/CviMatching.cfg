SPECIFICATION Spec
CONSTANTS
    Cvis = {c1, c2}
    Vehicles = {u, v}
    Tracks = {t1, t2}
    None = None
    Boxes = {1, 2, 3}
    Overlapping <- Adjacent
    TrackWindow = 1
    SpatialWindow = 2
    EmbeddingWindow = 2
    PlateWindow = 2
    MaxIdle = 2
    Alike <- AllAlike
    ReId = TRUE
    MaxSightings = 3
    MaxTime = 4
SYMMETRY Symmetry
INVARIANT TypeOK
INVARIANT MixedOnlyIfMet
INVARIANT ParkedKeepsCvi
PROPERTY RegistrySpec
CHECK_DEADLOCK FALSE
