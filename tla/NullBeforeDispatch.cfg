SPECIFICATION ReceiptSpec
CONSTANTS
    Time = {0, 1}
INVARIANTS
    NullBeforeDispatch
CHECK_DEADLOCK FALSE
