CONSTANTS
    p1 = p1  p2 = p2  b1 = b1  b2 = b2  k1 = k1  schedule = schedule
    Process = {p1, p2}
    Board = {b1, b2}
    Row <- MCRow
    Kind <- MCKind
    BoardOf <- MCBoardOf
    Refers <- MCRefers
    GroupOf <- MCGroupOf
    Key = {k1}
    Schedule = schedule
    LIMIT = 1
    BATCH = 2
    CHUNK = 1
    MAX_FAILURES = 2
    None = None
SPECIFICATION SubjectSpec
INVARIANTS OneCleanup LimitsHold
PROPERTIES LivingKept ExpiredGo
CHECK_DEADLOCK FALSE
