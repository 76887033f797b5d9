\* Starts with either master key or none, one after another; deaths at every step; threads interrupted anywhere.
SPECIFICATION Spec
CONSTANTS
    p1 = p1  p2 = p2  p3 = p3  q1 = q1  q2 = q2  q3 = q3  m1 = m1  m2 = m2
    Processes <- MCProcesses
    Requests <- MCRequests
    Masters <- MCMasters
    NoMaster = NoMaster
    NoKey = NoKey
    NoBlock = NoBlock
    Absent = Absent
    Empty = Empty
    OneAtATime = TRUE
SYMMETRY MCSymmetry
INVARIANTS BlocksSurvive OwnKey StartsUnlessTorn
CHECK_DEADLOCK FALSE
