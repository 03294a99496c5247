\* A finding: a worker starts to wait after the last notify().
CONSTANTS
    w1 = w1  w2 = w2
    Main = "main"
    Workers = {w1, w2}
    Scripts <- TwoLarge
    SendBytes = 1
    Hwm = 2
    StrLimit = 2
    SockCap = 1
    Lookahead = 0
    Events = {"reset"}
SPECIFICATION Spec
INVARIANTS PausedIsHeard
\* The client may stay silent, and nothing happens after a close or a stop.
CHECK_DEADLOCK FALSE
