\* One custom domain, two tasks for it at once, the default domain.
SPECIFICATION FairSpec
CONSTANTS
    Domains = {d1}
    Default = wildcard
    Tasks = {t1, t2}
    Renewer = renewer
    MaxFaults = 2
INVARIANTS
    TypeOK
    NoStrandedChallenge
    PairsMatch
PROPERTIES
    DomainsSettle
    ExpiringIsRenewed
\* Everything may have come to its end, with the task that renews dead.
CHECK_DEADLOCK FALSE
