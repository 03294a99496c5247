\* Overflows below, at and above STRBUF_LIMIT, and files of up to six bytes.
\* A closed or exhausted buffer still answers, so there is no deadlock.
CONSTANTS
    Bytes <- MCBytes  Writes <- MCWrites  Files <- MCFiles  Counts <- MCCounts
    StrbufLimit = 3
    Overflows = {0, 2, 3, 4}
    MaxFile = 6
SPECIFICATION Spec
INVARIANTS Consistent PendingInMemoryBounded
PROPERTY ImplementsByteQueue
