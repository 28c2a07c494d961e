CONSTANTS
    s1 = s1
    s2 = s2
    s3 = s3
    b1 = b1
    b2 = b2
    Session = {s1, s2, s3}
    Board = {b1, b2}
    None = None
    MAX_ACTIVE_OWNED_BOARDS_PER_SESSION = 1
    MAX_ACTIVE_INVITATIONS = 1
    MAX_ACTIVE_PARTICIPANTS = 1
    MAX_BOARD_PARTICIPANT_INVITATION_RECORDS = 2
    MAX_BOARD_PARTICIPANT_MEMBERSHIP_RECORDS = 2
    MAX_BOARD_OWNER_HISTORY_RECORDS = 1
    MAX_PARTICIPANT_INVITATION_USES = 2
    BOARD_CHILD_DELETE_BATCH_SIZE = 1
    MAX_MEMBERSHIPS = 3
    MAX_INVITATIONS = 3
    MAX_ROWS_OF_TWO = 2
SPECIFICATION AccessSpec
SYMMETRY Interchangeable
INVARIANTS UniqueRows LimitsKept SessionsReferenced
PROPERTIES OwnerKept RedemptionsRemembered
CHECK_DEADLOCK FALSE
