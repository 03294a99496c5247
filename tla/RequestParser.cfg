\* Nine well-formed streams and every stream that differs from one of three by a
\* lost or a replaced token, in segments of every size.
SPECIFICATION Spec
CONSTANTS
    MaxHeader = 14
    MaxBody = 18
    BodyLength = 2
    BigLength = 18
    Streams <- MCStreams
INVARIANTS TypeOK FramingExact ConsumptionInRange RoundsBounded
