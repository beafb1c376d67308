SPECIFICATION ExchangeFairSpec
CONSTANTS
    Calls <- MCCalls
    Sizes = {1}
    MaxSent = 2
    Lengths <- MCLengths
INVARIANTS ReleasedIsSettled EndsAreTrue BodyIsWoken
 
