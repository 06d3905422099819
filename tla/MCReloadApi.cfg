SPECIFICATION Spec
CONSTANTS
    DefaultPort = 1
    IntWidth = 4
    Namespaces = {n1}
    Services <- MCServices
    ServiceObjects <- MCServiceObjects
    NamespaceObjects <- MCNamespaceObjects
    ChannelCap = 1
    Posts = {p1}
    Ticks = 1
INVARIANTS
    TypeOK
    AnsweredPostsHaveReloads
PROPERTIES
    PostsAreAnswered
    ScansEnd
CHECK_DEADLOCK FALSE
