CONSTANTS
    DblMax = 1000
    Backends = {1, 2}
    Frontends = {"f1"}
    Sessions = {"s1"}
    Workers = {"w1", "w2"}
    Profiles <- MCProfiles
    PushedRoutes <- MCPushedRoutes
    MaxReq = 3
SPECIFICATION Spec
\* The only states with no successor are those where Dispatcher::Stop waits
\* on a worker blocked in queue_cv_.wait; run dispatcher_stop_hangs checks it.
CHECK_DEADLOCK FALSE
INVARIANT TypeOK
 
