CONSTANTS
    Requests = {r1, r2}
    QueueStrategy = FALSE
    BufCap = 2
    QuietBody = FALSE
    MaxFrames = 0
    MaxData = 1
    MaxStalls = 0
    MaxStrays = 0
    Bodies = {"none", "framed", "close", "upgrade"}
SPECIFICATION FairSpec
INVARIANTS NoStrandedInput ResponseIsOwn CleanEndIsComplete
 
