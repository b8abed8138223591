\* A deployment of each of two projects, one pull request, three tasks, one crash.
SPECIFICATION FairSpec
CONSTANTS
    site = site
    docs = docs
    site1 = site1
    docs1 = docs1
    c1 = c1
    fix = fix
    p1 = p1
    Projects = {site, docs}
    Deployments = {site1, docs1}
    Pulls = {p1}
    Shas = {c1}
    Branches = {fix}
    ProjectOf <- ProjectOfAll
    BranchOf <- BranchOfAll
    ShaOf <- ShaOfAll
    HeadOf <- HeadOfAll
    PageSize = 2
    MaxNotices = 3
    PostedBefore = {0, 2}
    MaxCrashes = 1
INVARIANTS
    TypeOK
    OneCommentPerPage
    OneCheckRun
    GithubTellsTheRow
PROPERTIES
    NoticesEnd
    LinesMoveForward
\* The bound on spawned tasks stops the builds.
CHECK_DEADLOCK FALSE
