SPECIFICATION Spec
CONSTANTS
    s1 = s1
    s2 = s2
    d1 = d1
    d2 = d2
    n1 = n1
    n2 = n2
    Services = {s1}
    Deployments = {d1, d2}
    App <- SharedApp
    DeploymentOf <- OwnDeployment
    NamespaceOf <- SameNamespace
    WatchedNamespaces <- OneWatched
    Replicas = {1, 2}
    EventsCap = 1
    UpdatesCap = 1
    MaxChanges = 3
    MaxRestarts = 1
    MaxReloads = 1
INVARIANTS
    TypeOK
    StateMatchesStore
PROPERTIES
    ScaleChangesArePickedUp
CHECK_DEADLOCK FALSE
