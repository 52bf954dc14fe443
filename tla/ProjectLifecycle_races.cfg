SPECIFICATION Spec
CONSTANTS
    server = server
    cli = cli
    watcher = watcher
    handler = handler
    command = command
    Projects = {p}
    Servers = {server, cli}
    Threads = {watcher, handler, command}
    Watchers = {watcher}
    Of <- MCOf
    NoProject = none
    MaxDeletes = 3
INVARIANTS StoresAreCurrent RevivedByItsUsers ReportsHold
PROPERTIES CatalogSpec
