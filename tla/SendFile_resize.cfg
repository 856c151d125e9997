CONSTANTS
    MaxLen = 4
    MaxCount = 2
SPECIFICATION FairSpec
INVARIANTS SentIsPrefix ErrMeansNothingSent
PROPERTIES Returns
CHECK_DEADLOCK FALSE
