\* Two previews of a project, two files.
SPECIFICATION Spec
CONSTANTS
    Previews = {pr1, pr2}
    Main = main
    Prod = prod
    Files = {data, wal}
    Base = {data}
    Empty = empty
    Missing = missing
    MaxUpsets = 2
SYMMETRY Symmetry
INVARIANTS
    TypeOK
    ProductionIsPreserved
    PreviewIsPreserved
    CloneWasProduction
    NoCloneUnderServer
\* Everything may be deleted, and the bounds reached.
CHECK_DEADLOCK FALSE
