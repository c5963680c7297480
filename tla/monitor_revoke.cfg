SPECIFICATION FairSpec
CONSTANTS
    MaxRevokes = 1
    MaxBuffer = 1
CHECK_DEADLOCK FALSE
PROPERTY RevokeStops
