\* Content-Lengths, chunks and files of up to two bytes, and an application that
\* gives up to three: too few, exactly as many and too many.
CONSTANTS
    None = None
    Lengths <- MCLengths
    MaxGiven = 3
    LogSocketErrors = {TRUE, FALSE}
SPECIFICATION Spec
INVARIANTS KeptOpenInStep OneWholeResponse ReleasedOnce
