CONSTANTS
    Conn = {c1, c2}
    FD = {lfd, f1}
    ListenFd = lfd
    Free = Free
    Listener = Listener
    Backlog = 2
    SndBuf = 1
    Patient = FALSE
    Cuts = {"none", "head", "body"}
    MaxReq = 1
    MaxEvents = 4
    BufLen = 2
    MaxWrite = 2
    Faults = {}
    Mode = "DynamicPath"
    Request <- ApiRequests
    FileKind <- MCFileKind
    FileLen = 1
SPECIFICATION FairSpec
PROPERTIES HangupNoticed BacklogServed
CHECK_DEADLOCK FALSE
