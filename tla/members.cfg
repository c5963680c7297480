SPECIFICATION Spec
CONSTANTS
    o1 = o1
    o2 = o2
    a1 = a1
    p1 = p1
    s1 = s1
    g1 = g1
    User = {o1, o2, a1}
    ServiceAccount = {s1}
    Group = {g1}
    PlatformAdmin = {}
    Denied = {}
    Roles0 <- MixedRoles
    Members0 <- OneMember
    Call = {c1}
    Kinds = {"assign", "unassign", "change", "add_member", "remove_member", "suspend", "reinstate"}
    Asked = {"owner", "admin"}
    LostAcks = TRUE
CHECK_DEADLOCK FALSE
INVARIANTS TypeOK OnlyUsersOwn SchemasAgree
PROPERTIES SuspensionKeepsAnOwner OwnerSuspendedByOwner OnlyUnassignStripsLastRole
