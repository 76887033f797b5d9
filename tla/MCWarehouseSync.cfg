\* Payments that commit in any order; runs fail at any step, also inside the insert and after it.
SPECIFICATION FairSpec
CONSTANTS
    n1 = n1  n2 = n2  n3 = n3  j1 = j1  j2 = j2
    Rrns <- MCRrns
    Jobs <- MCJobs
    PageSize = 2
    MaxTime = 3
    MaxFailures = 2
INVARIANTS NothingSkipped RecountsAreFailures
PROPERTIES WatermarkAdvances AllLoaded
