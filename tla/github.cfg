SPECIFICATION FairSpec
CONSTANTS
    Projects = {p1}
    Branches = {main, feature}
    Main = main
    PullBranches = {feature}
    Commits = {c1, c2}
    Ids = {1, 2, 3}
    NoRow = NoRow
    Startup = startup
    Interval = interval
    Handlers = {}
    NoWaiter = NoWaiter
    Capacity = 2
    BatchSize = 2
    MaxFound = 0
    MaxEvents = 1
    MaxRefusals = 1
    MaxEdits = 1
INVARIANTS
    TypeOK
    OneRowPerCommit
    AnsweredIsOnRecord
PROPERTIES
    ImplementsWorker
    ApiStarts
    HeadsAreRecorded
\* A caller of a worker that has died waits for ever.
CHECK_DEADLOCK FALSE
