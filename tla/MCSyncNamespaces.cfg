SPECIFICATION Spec
CONSTANTS
    s1 = s1
    s2 = s2
    d1 = d1
    d2 = d2
    n1 = n1
    n2 = n2
    Services = {s1, s2}
    Deployments = {d1, d2}
    App <- OwnApp
    DeploymentOf <- OwnDeployment
    NamespaceOf <- OwnNamespace
    WatchedNamespaces <- BothWatched
    Replicas = {1, 2}
    EventsCap = 1
    UpdatesCap = 1
    MaxChanges = 1
    MaxRestarts = 0
    MaxReloads = 0
PROPERTIES
    EveryNamespaceIsWatched
CHECK_DEADLOCK FALSE
