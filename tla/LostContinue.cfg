\* A finding: the continue that a worker sends is lost, and the response before
\* it sent twice, when main flushes at the same time.
CONSTANTS
    w1 = w1  w2 = w2
    Main = "main"
    Workers = {w1, w2}
    Scripts <- ExpectBehind
    SendBytes = 2
    Hwm = 2
    StrLimit = 2
    SockCap = 1
    Lookahead = 0
    Events = {}
SPECIFICATION ReadingSpec
PROPERTIES ContinueSent
\* The client may stay silent, and nothing happens after a close or a stop.
CHECK_DEADLOCK FALSE
