CONSTANTS
    v1 = v1
    v2 = v2
    b1 = b1
    b2 = b2
    Visitor = {v1, v2}
    Board = {b1, b2}
    None = None
    ANONYMOUS_CREDENTIAL_LIFETIME_DAYS = 3
    VISITOR_TOKEN_REFRESH_INTERVAL = 1
    MAX_BOARD_RETENTION_DAYS = 2
    MAX_TIME = 5
SPECIFICATION Spec
SYMMETRY Interchangeable
INVARIANTS NeverTimesOut CredentialsOutliveBoards
PROPERTIES TombstonesKept
CHECK_DEADLOCK FALSE
