\* A 100 Continue that a worker sends, while main may be flushing.
CONSTANTS
    w1 = w1  w2 = w2
    Main = "main"
    Workers = {w1, w2}
    Scripts <- ExpectBehind
    SendBytes = 2
    Hwm = 2
    StrLimit = 2
    SockCap = 2
    Lookahead = 0
    Events = {"shut", "reset", "fail", "raise", "stale", "stop"}
SPECIFICATION Spec
INVARIANTS OneServant
\* The client may stay silent, and nothing happens after a close or a stop.
CHECK_DEADLOCK FALSE
SYMMETRY WorkerSymmetry
