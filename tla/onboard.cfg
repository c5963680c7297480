SPECIFICATION FairCreateSpec
CONSTANTS
    Run = {r1}
    Request = {q1, q2}
    Cancels = TRUE
    Policies = {"unlimited", "bounded"}
    TimesOut = TRUE
    MaxArgo = 2
CHECK_DEADLOCK FALSE
INVARIANTS TypeOK OnboardedOnce SuccessIsComplete DatabaseGoesFirst FailureEventIsLast
PROPERTIES CreatedMeansProvisioned IsSaga Onboards CancelledRunEnds
