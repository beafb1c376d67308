SPECIFICATION FairSpec
CONSTANTS
    Requests = {r1}
    Limit = 1
    MaxSenders = 2
    Events = {"graceful", "goaway", "settings", "cancel"}
INVARIANTS CountsExact GracefulCloseCutsNothing
PROPERTY ClosingFinishes
