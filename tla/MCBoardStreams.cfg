CONSTANTS
    s1 = s1  s2 = s2
    Stream = {s1, s2}
    Watched = s1
    None = None
    MAX_BOARD_STREAMS_PER_VISITOR = 2
    BUFFER = 2
    MAX_REVISION = 2
SPECIFICATION Spec
INVARIANTS LeasesMatch SubscribedWhileListening NothingMissed OneConnection
PROPERTIES RetryNeverLost
SYMMETRY Symmetry
CHECK_DEADLOCK FALSE
