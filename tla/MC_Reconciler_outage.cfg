CONSTANTS
    a = a
    b = b
    c = c
    s1 = s1
    s2 = s2
    o1 = o1
    o2 = o2
    p1 = p1
    v1 = v1
    none = none
    empty = empty
    Names <- MCNames
    Slugs <- MCSlugs
    Slug <- MCSlug
    StaffGroup = a
    DefaultGroup = b
    Manufacturers <- MCManufacturers
    Roles <- MCRoles
    DeviceTypes <- MCDeviceTypes
    Sites <- MCSites
    ObjectTypes <- MCObjectTypes
    DefaultExcluded <- MCDefaultExcluded
    Wait = TRUE
    Seed <- MCSeed
    FirstId = 5
    Prefixes <- MCPrefixes
    VRFs <- MCVRFs
    NoVrf = none
    Empty = empty
    ExtKinds <- MCExtKinds
    MaxOutages = 1
    MaxExternal = 0
    MaxRuns = 1

SPECIFICATION FairSpec

INVARIANT ConvergedDespiteOutage
