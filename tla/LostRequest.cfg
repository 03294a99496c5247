\* A request without a body that expects a continue, and a second request.
SPECIFICATION Spec
CONSTANTS
    MaxHeader = 14
    MaxBody = 18
    BodyLength = 2
    BigLength = 18
    Streams <- MCBodyless
INVARIANT FinishedIsCompleted
