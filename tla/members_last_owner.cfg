SPECIFICATION Spec
CONSTANTS
    o1 = o1
    o2 = o2
    a1 = a1
    p1 = p1
    s1 = s1
    g1 = g1
    User = {o1, o2, a1, p1}
    ServiceAccount = {}
    Group = {}
    PlatformAdmin = {p1}
    Denied = {}
    Roles0 <- TwoOwners
    Members0 <- NoMembers
    Call = {c1, c2}
    Kinds = {"suspend"}
    Asked = {"owner", "admin"}
    LostAcks = FALSE
CHECK_DEADLOCK FALSE
PROPERTY SuspensionKeepsAnOwner
