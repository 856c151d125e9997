CONSTANTS
    Conn = {c1, c2, c3}
    FD = {lfd, f1, f2}
    ListenFd = lfd
    Free = Free
    Listener = Listener
    Backlog = 2
    SndBuf = 1
    Patient = FALSE
    Cuts = {"none"}
    MaxReq = 1
    MaxEvents = 2
    BufLen = 1
    MaxWrite = 2
    Faults = {"epoll_wait", "epoll_ctl", "close"}
    Mode = "FastPath"
    Request <- OddRequests
    FileKind <- MCFileKind
    FileLen = 2
SYMMETRY Symmetry
SPECIFICATION Spec
INVARIANTS ConnectionsMirrorEpoll NoDescriptorLeak NoBlockingRead AnswerGoesToSender NoLostWakeup OnlyWriteBlocks LoopInvariant
CHECK_DEADLOCK FALSE
