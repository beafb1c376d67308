SPECIFICATION Spec
CONSTANTS
    Requests = {r1}
    Limit = 1
    MaxSenders = 1
    Events = {"dropHandle", "dropTask", "violation", "failure", "peerClose"}
PROPERTY CloseIsTrue
