CONSTANTS
    NumWorkers = 3
    Capacity = 2
    Job = {j1, j2}
    Shutdown = Shutdown
SPECIFICATION FairSpec
PROPERTIES PoolSpec AllStop
INVARIANTS TypeOK NoneMeansNoJob JobsConserved ShutdownForEach NoJobStranded
