SPECIFICATION SafeSpec
CONSTANTS
    s1 = s1
    s2 = s2
    n1 = n1
    n2 = n2
    Services = {s1, s2}
    Namespaces = {n1, n2}
    NamespaceOf <- TwoNamespaces
    ReloadServicesIntervalMins = 3
    safetyMarginMinutes = 1
    ScanTime = 1
    MaxAge = 8
    MaxUpdaters = 2
    MaxBegun = 3
    MaxFailures = 0
INVARIANTS
    TypeOK
    AgeInv
PROPERTIES
    OneMissedReloadIsTolerated
CHECK_DEADLOCK FALSE
