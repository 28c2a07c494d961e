CONSTANTS
    s1 = s1
    Stream = {s1}
    Watched = s1
    None = None
    MAX_BOARD_STREAMS_PER_VISITOR = 1
    BUFFER = 2
    MAX_REVISION = 2
SPECIFICATION FairSpec
PROPERTIES PromiseKept RequestsAnswered StreamsEnd
CHECK_DEADLOCK FALSE
