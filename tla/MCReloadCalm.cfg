SPECIFICATION Spec
SYMMETRY Symmetry
CONSTANTS
    DefaultPort = 1
    IntWidth = 4
    Namespaces = {n1, n2}
    Services <- MCServices
    ServiceObjects <- MCServiceObjects
    NamespaceObjects <- MCNamespaceObjects
    ChannelCap = 1
    Requests = 2
    MayOverlap = FALSE
    MaxChanges = 1
INVARIANTS
    TypeOK
    CalmReloadsStoreTheCluster
    DuplicatesComeFromOverlap
PROPERTIES
    ImplementsNamespaceReloads
CHECK_DEADLOCK FALSE
