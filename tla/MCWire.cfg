\* Two threads, four kinds of message, halves of halves, a broken connection.
SPECIFICATION FairSpec
CONSTANTS
    s1 = s1  s2 = s2
    Senders <- MCSenders
    Messages <- MCMessages
    NoOne = NoOne
    MaxDrops = 1
INVARIANTS InOrder AnswerFindsItsRequest
PROPERTIES EverySendReturns SentIsReceived
CHECK_DEADLOCK FALSE
