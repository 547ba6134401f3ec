SPECIFICATION Spec
CONSTANTS
    None = None
    Cameras = {c1}
    Details = {d1, d2}
    Shapes = {s1}
    Operators = {o1, o2}
    Ttl = 1
    QueryTime = 1
    MaxZones = 1
    MaxEdits = 5
    MaxTime = 4
    MaxRestarts = 1
INVARIANT TypeOK
INVARIANT ZonesHaveCamera
INVARIANT AuditKnowsExistence
INVARIANT CreatedOnce
PROPERTY EditsInForce
CHECK_DEADLOCK FALSE
