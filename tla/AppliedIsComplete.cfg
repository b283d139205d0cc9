SPECIFICATION LiveMigrationSpec
CONSTANTS
    Operator = {o1}
INVARIANT AppliedIsComplete
CHECK_DEADLOCK FALSE
