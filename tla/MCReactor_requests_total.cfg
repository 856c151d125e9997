CONSTANTS
    Conn = {c1, c2}
    FD = {lfd, f1, f2, f3}
    ListenFd = lfd
    Free = Free
    Listener = Listener
    Backlog = 2
    SndBuf = 1
    Patient = TRUE
    Cuts = {"head"}
    MaxReq = 1
    MaxEvents = 2
    BufLen = 1
    MaxWrite = 2
    Faults = {}
    Mode = "FastPath"
    Request <- FileRequests
    FileKind <- MCFileKind
    FileLen = 1
SYMMETRY Symmetry
SPECIFICATION Spec
INVARIANTS RequestsTotalIsRequests
CHECK_DEADLOCK FALSE
