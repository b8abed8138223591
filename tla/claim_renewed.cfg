\* Nothing fails, and the default certificate is renewed on disk in time.
SPECIFICATION FairSpec
CONSTANTS
    Domains = {d1}
    Default = wildcard
    Tasks = {t1}
    Renewer = renewer
    MaxFaults = 0
PROPERTIES
    ServedIsRenewed
