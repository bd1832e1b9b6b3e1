CONSTANTS
    f1 = f1
    x = x
    none = none
    Paths <- MCPaths
    Backups <- MCBackups
    MTimes <- MCMTimes
    NoFile = none
    MaxStarts = 2
SPECIFICATION BSpec
PROPERTY
    EditsKept
