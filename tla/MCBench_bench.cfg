CONSTANTS
    CommandLine <- CommandLines
    Numeral <- MCNumeral
    HeaderLen = 100
    ServerBuf = 8192
    ReadMax = 2
    MaxPieces = 2
    Latency = {1, 2}
SPECIFICATION FairSpec
INVARIANTS InStep StatsAgree PercentilesRight
PROPERTIES Terminates
