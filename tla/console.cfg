SPECIFICATION ConsoleSpec
CONSTANTS
    NoKey = NoKey
    All = All
    u1 = u1  u2 = u2
    g1 = g1  g2 = g2
    p1 = p1  p2 = p2
    r1 = r1
    c1 = c1  c2 = c2  c3 = c3
    a = a  b = b
    s1 = s1
    USERS = {u1, u2}
    GROUPS = {g1, g2}
    PRINCIPALS = {p1, p2}
    ROLES = {r1}
    MAX_PANELS = 1
    MAX_LATE = 1
    STREAMS = {s1}
    CALLS = {c1, c2, c3}
    ACTORS = {a, b}
    ActorOf <- MCActorOf
    PAGE_SIZE = 1
    MAX_TIME = 3
INVARIANTS ConsoleTypeOK SelectionIsConsistent OwnWritesVisible HistoryHasNoGap
PROPERTIES StreamsEnd
