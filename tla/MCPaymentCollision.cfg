\* Two payments draw one rrn within a second.
SPECIFICATION Spec
CONSTANTS
    q1 = q1  q2 = q2  k1 = k1  k2 = k2  n1 = n1  n2 = n2
    alice = alice  shop = shop
    Requests <- MCRequests
    Keys <- MCTwoKeys
    Hashes <- MCBodies
    Rrns <- MCRrns
    Callers <- MCOwner
    Accounts <- MCAccounts
    Amounts <- MCAmounts
    Responses <- MCResponses
    NoResponse = NoResponse
    Unclaimed = Unclaimed
    NoRrn = NoRrn
    RegisteredAtStart <- MCAccounts
    StoreKinds <- MCRedis
    Transports <- MCDirect
    AceFaults <- MCSwitchFaults
    RrnsCollide = TRUE
    HandlerMayFail = FALSE
    MaxIncidents = 0
INVARIANTS ApprovedIsRecorded
CHECK_DEADLOCK FALSE
