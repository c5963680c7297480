SPECIFICATION Spec
CONSTANTS
    MaxRevokes = 4
    MaxBuffer = 3
CHECK_DEADLOCK FALSE
INVARIANTS TypeOK HealthyHearsAll
PROPERTIES WarningIsEarned CriticalIsEarned
