SPECIFICATION Spec
CONSTANTS
    DefaultPort = 1
    IntWidth = 4
    Services = {"svc"}
    Objects <- MCObjects
    NamespaceObjects <- MCNamespaceObjects
    Namespace = "ns"
    MaxUpdates = 2
    MaxChanges = 2
    MaxCrashes = 1
INVARIANTS
    TypeOK
    StoredAnnotationsStay
    AppPortIsTheTarget
PROPERTIES
    DocumentsFollowTheCluster
CHECK_DEADLOCK FALSE
