SPECIFICATION Spec
CONSTANTS
    Readers = {r1, r2}
    PodAnswers = {"healthy", "nullBody"}
    MaxPods = 1
    QueueCap = 1
    StatusCap = 1
    ErrsCap = 1
    MaxTime = 1
    Retention = 0
    Namespaces = {1}
    Services <- MCServices
    Replicas = {0, 1}
    RestrictToNamespaces = {1}
    MaxRounds = 2
INVARIANTS
    LatestChecksAreLatest
    GaugeCoversQueue
PROPERTIES
    ImplementsJobs
    ImplementsChecker
    ImplementsHistory
CHECK_DEADLOCK FALSE
