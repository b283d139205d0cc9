SPECIFICATION MCSpec
CONSTANTS
    Tab = {t1, t2}
    MaxSession = 3
    MaxFault = 2
INVARIANTS
    PageInv
    OneStoryShown
CHECK_DEADLOCK FALSE
