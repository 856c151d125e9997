CONSTANTS
    Inode = {i1, i2}
    None = None
    Dir = Dir
    PageSize = 2
    MaxLen = 3
    MaxChanges = 3
    Form <- NoForm
SPECIFICATION Spec
INVARIANTS MappingStaysValid
CHECK_DEADLOCK FALSE
