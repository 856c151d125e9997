CONSTANTS
    CommandLine <- NoWords
    Numeral <- MCNumeral
    Ipv4 <- MCIpv4
    Allowed <- ThreeCpus
    IoUringFeature = TRUE
    IoUringWorks = TRUE
    MayFail = {"loop"}
SPECIFICATION Spec
INVARIANTS WorkersSpread
