CONSTANTS
    None = None
    c1 = c1  c2 = c2
    k1 = k1
    Column = {c1, c2}
    Card = {k1}
    Together <- Some
    Watched = {"quickCreateColumn", "createActionItem"}
    MAX_TRANSACTION_ATTEMPTS = 2
    MAX_REVISION = 2
    MAX_REQUESTS = 2
SPECIFICATION ControlsSpec
INVARIANT OncePerInput
PROPERTIES ControlsSettle DestroysAsConfirmed
CHECK_DEADLOCK FALSE
