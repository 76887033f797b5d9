\* Two replicas with databases of their own, one of which may lose it, and tokens that expire.
SPECIFICATION Spec
CONSTANTS
    d1 = d1  d2 = d2  alice = alice  bob = bob  m1 = m1  m2 = m2
    s1 = s1  s2 = s2  u1 = u1  u2 = u2  u3 = u3  c1 = c1  c2 = c2
    Replicas <- MCReplicas
    Cnics <- MCCnics
    Cards <- MCCards
    Passwords <- MCPasswords
    Ids <- MCIds
    Legacy <- MCLegacy
    NoPassword = NoPassword
    Callers <- MCCallers
    NoRow = NoRow
    NoToken = NoToken
    Lifetime = 0
    MaxTime = 1
    MaxTokens = 2
    MaxLosses = 1
SYMMETRY MCSymmetry
INVARIANTS PasswordIsKept TokenIsItsUser
CHECK_DEADLOCK FALSE
