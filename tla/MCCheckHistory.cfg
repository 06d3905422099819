SPECIFICATION Spec
SYMMETRY Symmetry
CONSTANTS
    Namespaces = {ns1, ns2}
    States = {healthy, unhealthy}
    ServiceCopies <- MCServiceCopies
    Details <- MCDetails
    StatusCap = 1
    Retention = 1
    MaxTime = 3
    MaxChecks = 3
INVARIANTS
    TypeOK
    PreviousStateDiffers
    LatestStateSinceNotInFuture
    StateSinceIsARealCheck
    RunsAreExact
    KeptChecksAreStored
    HistoryInv
CHECK_DEADLOCK FALSE
