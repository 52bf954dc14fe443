SPECIFICATION FairSpec
CONSTANTS
    Projects = {p1, p2}
    Files = {f1}
    Watcher = watcher
    AutoIndexer = auto
    Handlers = {h1}
    Free = free
    NoProject = none
    Session = none
    NoSnapshot = nosnap
    EditTimes = {}
    Deletions = FALSE
    MaxEdits = 1
    MaxFaults = 0
    MaxCrashes = 0
PROPERTIES EventuallyFresh
