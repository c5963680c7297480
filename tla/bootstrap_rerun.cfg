SPECIFICATION BootstrapSpec
CONSTANTS
    Run = {r1, r2}
    Cancels = FALSE
    Policies = {"unlimited"}
    TimesOut = TRUE
    MaxArgo = 1
    MaxRuns = 3
    NoRun = NoRun
CHECK_DEADLOCK FALSE
INVARIANT DoneMeansProvisioned
