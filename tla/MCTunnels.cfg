SPECIFICATION TunnelsSpec
CONSTANTS
    TURNS = 2
    WriteMax = 2
    PeerMax = 1
    WRITE_LIMIT = 1
    MaxPayloads = 3
    MaxArrivals = 1
INVARIANTS BarrierIsKept WritersAreWoken
PROPERTIES    UdpIsTunnel
