\* The heap ends full when every global id has been used: the model's bound,
\* not a stop of the code, hence no deadlock check.
CONSTANTS
    GlobalIds = {1, 2, 3, 4, 5}
    Deadlines = {1, 2, 3}
SPECIFICATION Spec
CHECK_DEADLOCK FALSE
INVARIANT FrontIsEarliest
