SPECIFICATION Spec
CONSTANTS
    s1 = s1
    s2 = s2
    n1 = n1
    n2 = n2
    Services = {s1, s2}
    Namespaces = {n1}
    NamespaceOf <- OneNamespace
    ReloadServicesIntervalMins = 1
    safetyMarginMinutes = 1
    ScanTime = 0
    MaxAge = 4
    MaxUpdaters = 1
    MaxBegun = 0
    MaxFailures = 0
PROPERTIES
    GoneServicesAreRemoved
    LiveServicesAreStored
CHECK_DEADLOCK FALSE
