SPECIFICATION Spec
CONSTANTS
    Readers = {r1}
    DesiredReplicas = {0, 1, 2}
    ServiceCopies <- MCServiceCopies
    PodAnswers = {"healthy", "unreachable"}
    MaxPods = 2
    QueueCap = 1
    StatusCap = 1
    ErrsCap = 1
    MaxTime = 0
INVARIANTS
    UnhealthyPodsAreReported
CHECK_DEADLOCK FALSE
