CONSTANTS
    Requests = {r1, r2}
    QueueStrategy = TRUE
    BufCap = 2
    QuietBody = TRUE
    MaxFrames = 1
    MaxData = 0
    MaxStalls = 1
    MaxStrays = 1
    Bodies = {"none", "chunked", "sized", "zero"}
SYMMETRY Symmetry
SPECIFICATION Spec
INVARIANTS NoStrandedOutput MessagesDoNotInterleave
PROPERTY ReuseIsSafe
