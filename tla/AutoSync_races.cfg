SPECIFICATION Spec
CONSTANTS
    Projects = {p1, p2}
    Files = {f1, f2}
    Watcher = watcher
    AutoIndexer = auto
    Handlers = {h1}
    Free = free
    NoProject = none
    Session = p1
    NoSnapshot = nosnap
    EditTimes = {"indexing", "unwatched"}
    Deletions = TRUE
    MaxEdits = 2
    MaxFaults = 1
    MaxCrashes = 1
INVARIANTS OneIndexer  MissedIsStale  IndexingIsUnderway
PROPERTIES CommitsUnderLock GraphNeverGoesBack
CONSTRAINT OneTrouble
SYMMETRY Symmetry
