\* Pipelined requests with lookahead and every event of the environment.
CONSTANTS
    w1 = w1  w2 = w2
    Main = "main"
    Workers = {w1, w2}
    Scripts <- Pipelined
    SendBytes = 1
    Hwm = 2
    StrLimit = 3
    SockCap = 2
    Lookahead = 1
    Events = {"shut", "reset", "fail", "raise", "stale", "stop"}
SPECIFICATION Spec
INVARIANTS TypeOK OneServant ResponsesInOrder TotalAccurate OneFlusher LoopSurvives
PROPERTIES CloseIsClean NoRequestAfterClose NoWriteAfterClose
\* The client may stay silent, and nothing happens after a close or a stop.
CHECK_DEADLOCK FALSE
SYMMETRY WorkerSymmetry
