SPECIFICATION Spec
CONSTANTS
    Requests = {r1, r2}
    Kinds = {"body", "extended"}
    MaxBodies = 1
    MaxStreams = 1
SYMMETRY Symmetry
INVARIANTS GivenBackUnsent CanceledIsReset WaitersAreKept
PROPERTY TimeoutIsBlamed
