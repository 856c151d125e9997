CONSTANTS
    CommandLine <- FourWords
    Numeral <- MCNumeral
    Ipv4 <- MCIpv4
    Allowed <- NotCpu0
    IoUringFeature = TRUE
    IoUringWorks = FALSE
    MayFail = {"getrlimit", "metrics", "socket", "bind", "listen", "spawn", "epoll_create", "epoll_ctl", "loop"}
SPECIFICATION FairSpec
INVARIANTS ArgsAsDocumented WorkersStay
PROPERTIES ServesOrExits
