\* Two callers that interrupt each other inside next_stan(); responses in any order; the counter
\* comes round on STANs in use.
SPECIFICATION Spec
CONSTANTS
    c1 = c1  c2 = c2  h1 = h1  h2 = h2
    Callers <- MCCallers
    Hearts <- MCOneHeart
    Link = Link
    NoOne = NoOne
    NoAnswer = NoAnswer
    StanLimit = 4
    FirstStan = 2
    Interruptible <- MCCallers
    SwitchReorders = FALSE
    MaxDrops = 0
    MaxBeats = 0
INVARIANTS OwnAnswer OnlyTimedOutReversed PendingIsWaiting
PROPERTIES UndisturbedIsUnique
SYMMETRY Symmetry
CHECK_DEADLOCK FALSE
