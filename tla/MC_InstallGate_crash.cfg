CONSTANTS
    p = p
    q = q
    r1 = r1
    d1 = d1
    d2 = d2
    d3 = d3
    bad = bad
    absent = absent
    Packages <- MCPackages
    ReqDirs <- MCReqDirs
    PluginDirs <- MCPluginDirs
    Pkg <- MCPkg
    Ver <- MCVer
    Versions <- MCVersions
    BadVersion = bad
    Absent = absent
    MaxFaults = 0
SPECIFICATION Spec
INVARIANT
    PhaseNeverAborts
