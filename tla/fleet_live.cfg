SPECIFICATION FairSpec
CONSTANTS
    a1 = a1
    a2 = a2
    db = db
    k1 = k1
    k2 = k2
    d1 = d1
    d2 = d2
    d3 = d3
    s1 = s1
    s2 = s2
    p1 = p1
    NoContainer = NoContainer
    NoId = NoId
    Containers <- OneApp
    ProdDbs = {}
    DefaultBranch = {}
    Projects = {p1}
    Project <- OneProject
    Created <- CreatedAt
    Clients = {k1}
    Ids = {d1}
    Syncers = {s1}
    InitialResults <- AnyResult
    DockerMayFail = TRUE
    DockerMayExit = TRUE
    SetupMayFail = TRUE
    MaxRestarts = 0
    MaxInstant = 1
PROPERTIES
    QueuedIsBuilt
    LeaksAreCollected

