CONSTANTS
    None = None
    MAX_SYNC_ATTEMPTS = 2
    MAX_REVISION = 2
SPECIFICATION SubjectSpec
INVARIANT SameRevisionSameState
CHECK_DEADLOCK FALSE
