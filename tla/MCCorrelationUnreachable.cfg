\* The connection breaks while a caller waits.
SPECIFICATION Spec
CONSTANTS
    c1 = c1  c2 = c2  h1 = h1  h2 = h2
    Callers <- MCOneCaller
    Hearts <- MCOneHeart
    Link = Link
    NoOne = NoOne
    NoAnswer = NoAnswer
    StanLimit = 8
    FirstStan = 0
    Interruptible <- MCOneHeart
    SwitchReorders = TRUE
    MaxDrops = 1
    MaxBeats = 0
INVARIANTS UnreachableMeansUnsent
CHECK_DEADLOCK FALSE
