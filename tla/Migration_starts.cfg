SPECIFICATION Spec
CONSTANTS
    Projects = {p1, p2}
    Processes = {server, cli}
    NoProject = none
    MaxCrashes = 2
INVARIANTS TrustedIsWhole NothingIsLost GoneIsBackedUp
