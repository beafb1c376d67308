SPECIFICATION WireSpec
CONSTANTS
    Radix = 2
    MaxSize = 7
    ExtLimit = 2
    TrailerLimit = 7
    MaxTrailers = 1
    MaxWire = 13
    Bursts <- MCBursts
    Chunks <- MCChunks
    MaxFrames = 2
    MAX_RESPONSE_HEAD = 14
    Answers <- MCAnswers
    Targets <- MCTargets
    Replies <- MCReplies
    Tags = 2
    Low = 2
    MAX_UDP_PAYLOAD = 1
    MaxStream = 7
    MaxGiven = 2
    Sources <- MCSources
    Payloads <- MCPayloads
    Malformations <- MCMalformations
    Peers <- MCPeers
    MaxBatch = 3
    READS = 2
INVARIANTS BodiesAreUnderstood HandshakeIsExact CapsulesAreRead PayloadsAreUnframed CloseIsNoticed
