\* Four thread numbers, three tasks, pool sizes 0 to 2: a resize may start
\* threads while as many stops are pending.  No symmetry: it is unsound for liveness.
CONSTANTS
    t1 = t1  t2 = t2  t3 = t3  t4 = t4  k1 = k1  k2 = k2  k3 = k3
    ThreadNos = {t1, t2, t3, t4}
    Tasks = {k1, k2, k3}
    Counts = {0, 1, 2}
SPECIFICATION FairSpec
INVARIANTS
    TypeOK ActiveCountAccurate CountHonoured NoLostWakeup StopsAreSeen
    ShutdownDrains
PROPERTIES ImplementsWorkQueue EveryTaskResolved PoolConverges
