SPECIFICATION Spec
CONSTANTS
    None = None
    a = a
    b = b
    c = c
    CameraList <- Two
    Capacity = 2
    MaxQueue = 2
    InOrder = FALSE
    MaxFrames = 3
INVARIANT TypeOK
INVARIANT DetectionNamesCamera
INVARIANT DropsCounted
INVARIANT RingFindsCaptured
INVARIANT RightWhileAligned
CHECK_DEADLOCK FALSE
