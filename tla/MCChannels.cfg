SPECIFICATION ChannelsSpec
CONSTANTS
    MaxChunks = 3
    Requests = {r1, r2, r3, r4}
INVARIANTS SenderNotForgotten ReceiverNotForgotten RequestsAreKept
PROPERTIES StreamSpec 
