CONSTANTS
    Fd = {"file", "sock", "listen"}
    Pipe = {}
    Call <- FileAndSocket
    QueueDepth = 2
    Width = 2
    MaxOps = 3
    MaxFaults = 3
SPECIFICATION FairSpec
INVARIANTS TypeOK OpsConserved BufferStaysLent WithinBuffer
PROPERTIES AcceptedIsReported
CHECK_DEADLOCK FALSE
