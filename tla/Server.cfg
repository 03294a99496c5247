\* One listener with room for one channel, two that both accept for the last
\* place, and one without a second descriptor; two clients, so that one waits.
\* No symmetry: it is unsound for liveness.
CONSTANTS
    c1 = c1  c2 = c2  s1 = s1  s2 = s2
    Servers = {s1, s2}
    Setups <- MCSetups
    Clients = {c1, c2}
    Fds = {5, 6}
    Free = Free
    Timeout = 0
    Interval = 1
    Pieces = 2
SPECIFICATION FairSpec
INVARIANTS ConnectionsBounded MapsAgree
PROPERTIES QuietIsReaped WaitingIsAccepted
