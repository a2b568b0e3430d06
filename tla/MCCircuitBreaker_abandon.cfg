\* Calls that the rate limiter turns away after the breaker has admitted them.
SPECIFICATION FairSpec
CONSTANTS
    c1 = c1  c2 = c2  c3 = c3  c4 = c4  c5 = c5
    Call <- FiveCalls
    FailureThreshold = 5
    SuccessThreshold = 3
    HalfOpenMax = 3
CHECK_DEADLOCK FALSE
PROPERTIES
    AlwaysRecovers
