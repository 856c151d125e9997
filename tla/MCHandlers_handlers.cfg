CONSTANTS
    Inode = {i1, i2}
    None = None
    Dir = Dir
    PageSize = 2
    MaxLen = 3
    MaxChanges = 3
    Form <- Forms
SPECIFICATION Spec
INVARIANTS RenameIsSafe FaultNeedsTruncation AtomicWhenQuiet ErrNeedsCause ParamsRecovered
CHECK_DEADLOCK FALSE
