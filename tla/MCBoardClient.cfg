CONSTANTS
    None = None
    MAX_SYNC_ATTEMPTS = 2
    MAX_REVISION = 2
SPECIFICATION SubjectSpec
INVARIANTS OneRevision LostStaysLost MovesOnTruth KnownStaleIsSaid
PROPERTIES NeverBackwards Converges
CHECK_DEADLOCK FALSE
