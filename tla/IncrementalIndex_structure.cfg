SPECIFICATION Spec
CONSTANTS
    p = p
    lib = lib
    m = m
    n = n
    a = a
    b = b
    c = c
    h = h
    i = i
    j = j
    x = x
    y = y
    index = index
    init = init
    file = file
    nil = nil
    Files = {a, b, i}
    Segments <- MCSegments
    Project = p
    Path <- MCPath
    Order <- MCOrder
    InitStem = init
    IndexStem = index
    FileMark = file
    Names = {x, y}
    Nothing = nil
    Sources <- MCSources
    Absent = absent
    MaxEdits = 1
    MaxFailures = 0
INVARIANTS StructureComplete
