CONSTANTS
    a = a
    b = b
    i1 = i1
    i2 = i2
    noname = noname
    Names <- MCNames
    NoName = noname
    Files <- MCFiles
    Classes <- MCClasses
    InitialFiles <- MCInitialFiles
    MaxRuns = 2
SPECIFICATION Spec
INVARIANT
    UnrelatedKept
