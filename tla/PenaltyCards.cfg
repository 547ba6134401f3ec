SPECIFICATION FairSpec
CONSTANTS
    None = None
    Violations = {v1, v2}
    Operators = {o1, o2}
    MaxReviews = 1
    MaxTriggers = 2
    MaxStops = 1
INVARIANT TypeOK
INVARIANT CardsAreStored
INVARIANT AnnouncedOnce
PROPERTY DecisionStands
PROPERTY RequestServed
PROPERTY LifecycleSpec
CHECK_DEADLOCK FALSE
