CONSTANTS
 N = 3
 Concurrency = 2
 FlushSize = 2
 MaxRetries = 1
 Tpm = 1
 Estimate <- Plain
 MaxEvents = 2
SPECIFICATION FairSpec
INVARIANTS ItemsTypeOK NoneTwice AllAnswered CountsMatch
PROPERTY RunEnds
CHECK_DEADLOCK FALSE
