SPECIFICATION Spec
CONSTANTS
    Browser = {b1, b2}
    Login = {l1, l2}
    Callback = {c1, c2}
    PendingTTL = 1
    SessionTTL = 2
    MaxTime = 3
    Configured = TRUE
    None = None
SYMMETRY Symmetry
CHECK_DEADLOCK FALSE
INVARIANTS TypeOK OneSessionPerLogin SignedInByOwnLogin CookieOutlivesSession
PROPERTY OnlyOverlapIsRefused
