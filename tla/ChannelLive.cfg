\* A client that reads, or leaves; no symmetry, because it is unsound for liveness.
CONSTANTS
    w1 = w1  w2 = w2
    Main = "main"
    Workers = {w1}
    Scripts <- Answered
    SendBytes = 2
    Hwm = 2
    StrLimit = 2
    SockCap = 1
    Lookahead = 0
    Events = {"shut", "reset", "fail", "raise"}
SPECIFICATION ReadingSpec
INVARIANTS PausedIsHeard OutputBounded
PROPERTIES RequestsAnswered ContinueSent InputRead CloseHappens GoneIsNoticed
\* The client may stay silent, and nothing happens after a close or a stop.
CHECK_DEADLOCK FALSE
