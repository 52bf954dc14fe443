SPECIFICATION Spec
CONSTANTS
    server = server
    cli = cli
    watcher = watcher
    handler = handler
    command = command
    Projects = {p}
    Servers = {server}
    Threads = {watcher, handler}
    Watchers = {watcher}
    Of <- MCOf
    NoProject = none
    MaxDeletes = 1
INVARIANTS DeletedStaysDeleted
