SPECIFICATION Spec
CONSTANTS
    None = None
    a = a
    b = b
    c = c
    CameraList <- Three
    Capacity = 2
    MaxQueue = 2
    InOrder = TRUE
    MaxFrames = 1
INVARIANT SnapshotOfCamera
CHECK_DEADLOCK FALSE
