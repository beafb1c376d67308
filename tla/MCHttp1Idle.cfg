CONSTANTS
    Requests = {r1, r2}
    QueueStrategy = TRUE
    BufCap = 2
    QuietBody = FALSE
    MaxFrames = 1
    MaxData = 0
    MaxStalls = 2
    MaxStrays = 0
    Bodies = {"none", "chunked"}
SYMMETRY Symmetry
SPECIFICATION Spec
INVARIANTS IdleIsOffered
