\* Two callers, two bodies, two expiries and one clear_all() between the commands.
SPECIFICATION FairSpec
CONSTANTS
    c1 = c1  c2 = c2  k1 = k1  h1 = h1  h2 = h2
    Callers <- MCCallers
    Keys <- MCKeys
    Hashes <- MCHashes
    Responses <- MCResponses
    Result <- MCResult
    NoResponse = NoResponse
    NoHash = NoHash
    Unclaimed = Unclaimed
    MaxExpiries = 2
    MaxClears = 1
INVARIANTS OneWorkerUntilCleared ResponseFitsClaim
PROPERTIES KeepsContract ClaimAnswers
