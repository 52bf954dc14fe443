SPECIFICATION FairSpec
CONSTANTS
    Projects = {p1}
    Files = {f1, f2}
    Watcher = watcher
    AutoIndexer = auto
    Handlers = {h1, h2}
    Free = free
    NoProject = none
    Session = p1
    NoSnapshot = nosnap
    EditTimes = {"indexing", "unwatched"}
    Deletions = TRUE
    MaxEdits = 1
    MaxFaults = 1
    MaxCrashes = 0
PROPERTIES  RequestsAnswered SessionGetsReady
