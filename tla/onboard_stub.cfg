SPECIFICATION FairSpec
CONSTANTS
    Run = {r1}
    Cancels = TRUE
    Policies = {"unlimited"}
    TimesOut = FALSE
    MaxArgo = 1
CHECK_DEADLOCK FALSE
PROPERTY StubIsSafe
