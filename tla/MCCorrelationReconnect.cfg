\* One caller, an echo whose next_stan() is interrupted, a broken connection and the next one.
SPECIFICATION FairSwitchSpec
CONSTANTS
    c1 = c1  c2 = c2  h1 = h1  h2 = h2
    Callers <- MCOneCaller
    Hearts <- MCHearts
    Link = Link
    NoOne = NoOne
    NoAnswer = NoAnswer
    StanLimit = 8
    FirstStan = 6
    Interruptible <- MCOneHeart
    SwitchReorders = FALSE
    MaxDrops = 1
    MaxBeats = 1
INVARIANTS ConnectedIsListening
PROPERTIES EveryCallReturns ListensAgain ApprovalIsSettled
CHECK_DEADLOCK FALSE
