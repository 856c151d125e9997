CONSTANTS
    Conn = {c1, c2}
    FD = {lfd, f1, f2, f3}
    ListenFd = lfd
    Free = Free
    Listener = Listener
    Backlog = 2
    SndBuf = 1
    Patient = TRUE
    Cuts = {"none"}
    MaxReq = 2
    MaxEvents = 4
    BufLen = 1
    MaxWrite = 2
    Faults = {}
    Mode = "FastPath"
    Request <- FileRequests
    FileKind <- MCFileKind
    FileLen = 1
SPECIFICATION FairSpec
PROPERTIES ServiceSpec
INVARIANTS LoopSurvives SleepsOnlyWhenAnswered
