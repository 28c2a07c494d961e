CONSTANT MAX_SIGNALS = 2
SPECIFICATION FairSpec
INVARIANT DrainedFirst
PROPERTY ShutdownsEnd
CHECK_DEADLOCK FALSE
