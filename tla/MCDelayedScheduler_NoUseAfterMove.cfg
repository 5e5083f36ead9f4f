CONSTANTS
    Sessions = {s1}
    BackendIds = {b1}
    GlobalIds = {1, 2}
    Deadlines = {1, 2}
SPECIFICATION Spec
CHECK_DEADLOCK FALSE
INVARIANT NoUseAfterMove
