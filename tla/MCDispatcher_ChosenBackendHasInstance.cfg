CONSTANTS
    DblMax = 1000
    Backends = {1, 2}
    Frontends = {"f1"}
    Sessions = {"s1"}
    Workers = {"w1", "w2"}
    Profiles <- MCProfiles
    PushedRoutes <- MCPushedRoutes
    MaxReq = 3
SPECIFICATION Spec
INVARIANT ChosenBackendHasInstance
\* Dispatcher::Stop can leave a worker blocked in queue_cv_.wait forever
\* (run dispatcher_stop_hangs); those states have no successor.
CHECK_DEADLOCK FALSE
