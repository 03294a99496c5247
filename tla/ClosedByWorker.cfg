\* A finding: a worker closes the socket that main is about to select().
CONSTANTS
    w1 = w1  w2 = w2
    Main = "main"
    Workers = {w1, w2}
    Scripts <- ExpectBehind
    SendBytes = 1
    Hwm = 2
    StrLimit = 2
    SockCap = 2
    Lookahead = 0
    Events = {"reset"}
SPECIFICATION Spec
INVARIANTS LoopSurvives
\* The client may stay silent, and nothing happens after a close or a stop.
CHECK_DEADLOCK FALSE
