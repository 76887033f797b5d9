\* Both trackers, clocks one apart, recordings delayed by one, a window of four, one restart.
SPECIFICATION VelocitySpec
CONSTANTS
    a1 = a1  a2 = a2  a3 = a3  a4 = a4
    Attempts <- MCAttempts
    Backends <- MCBackends
    Orders <- MCOrders
    Window = 4
    ReviewCount = 1
    DeclineCount = 2
    Slack = 2
    Delay = 1
    Skew = 1
    MaxTime = 7
    MaxRestarts = 1
SYMMETRY MCSymmetry
INVARIANTS LimitHolds
PROPERTIES CountIsTrue
CHECK_DEADLOCK FALSE
