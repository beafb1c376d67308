SPECIFICATION DatagramFairSpec
CONSTANTS
    Sessions = {0, 64}
    Senders = {"s1", "s2"}
    On <- MCOn
    PACKETS = 2
    SESSION_BYTES = 5
    CONNECTION_BYTES = 6
    Payloads = {1}
    Arrivals = {2}
    Limits <- MCLimits
    Work = 1
    Uses <- MCUses
INVARIANTS BookkeepingExact WaitersAreTold
PROPERTY EverySessionSends
