\* Two sessions, a reset and crashes: safety, the implementation of Ledger, and every call returns.
SPECIFICATION FairSpec
CONSTANTS
    s1 = s1  s2 = s2  a1 = a1  a2 = a2  r1 = r1  r2 = r2
    Sessions <- MCSessions
    NoSession = NoSession
    Calls <- MCCalls
    Accounts <- MCAccounts
    Rrns <- MCRrns
    Amounts <- MCAmounts
    MaxResets = 1
INVARIANTS TypeOK DoubleEntry ToldIsTrue OneRecorder
PROPERTIES LedgerPromise EveryCallReturns
