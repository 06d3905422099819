SPECIFICATION Spec
SYMMETRY Symmetry
CONSTANTS
    Readers = {r1, r2}
    DesiredReplicas = {0, 2}
    ServiceCopies <- MCServiceCopies
    PodAnswers = {"healthy", "Healthy", "other", "unreachable", "nullBody"}
    MaxPods = 2
    QueueCap = 1
    StatusCap = 1
    ErrsCap = 1
    MaxTime = 1
INVARIANTS
    TypeOK
    InFlightCountsBusyReaders
    VerdictMatchesAnswers
    HealthyPodsMatchPodChecks
    NeverBothMessages
    ScrapeInv
CHECK_DEADLOCK FALSE
