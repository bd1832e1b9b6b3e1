CONSTANTS
    p = p
    q = q
    r1 = r1
    d1 = d1
    d2 = d2
    d3 = d3
    bad = bad
    absent = absent
    Packages <- MCPackages
    ReqDirs <- MCReqDirs
    PluginDirs <- MCPluginDirs
    Pkg <- MCPkg
    Ver <- MCVerParsed
    Versions <- MCVersions
    BadVersion = bad
    Absent = absent
    MaxFaults = 1
SPECIFICATION FairSpec
INVARIANTS
    TypeOK
    
PROPERTY
    ConvergesOverRestarts
