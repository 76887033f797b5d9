\* Both stores, two keys, two bodies, foreign callers, a party who registers late, exceptions, one incident: a death, a reset.
\* ACE as transport: the ways an own socket can end a call are among its ways.
SPECIFICATION FairSpec
CONSTANTS
    q1 = q1  q2 = q2  k1 = k1  k2 = k2  n1 = n1  n2 = n2
    alice = alice  shop = shop
    Requests <- MCRequests
    Keys <- MCTwoKeys
    Hashes <- MCBodies
    Rrns <- MCRrns
    Callers <- MCAnyone
    Accounts <- MCAccounts
    Amounts <- MCAmounts
    Responses <- MCResponses
    NoResponse = NoResponse
    Unclaimed = Unclaimed
    NoRrn = NoRrn
    RegisteredAtStart <- MCAlice
    StoreKinds <- MCStores
    Transports <- MCAce
    AceFaults <- MCSwitchFaults
    RrnsCollide = FALSE
    HandlerMayFail = TRUE
    MaxIncidents = 1
INVARIANTS OneAuthorisation ApprovedIsRecorded LedgerMatchesSwitch BackstopCatches
           RefusedMeansUntouched SameAnswer
PROPERTIES ClaimsAreAnswered
CHECK_DEADLOCK FALSE
