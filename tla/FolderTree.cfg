SPECIFICATION Spec
CONSTANTS
    a = a
    b = b
    c = c
    x = x
    n1 = n1
    n2 = n2
    Folder = {a, b, c}
    File = {x}
    NoName = NoName
    Root = Root
    Absent = Absent
    Name = {n1, n2}
    Handler = {h1, h2}
    Nobody = Nobody
    Batch = {1, 2}
    MaxDepth = 1
    Start <- OneFile
    StartName <- OneFileName
    Ops = {"create", "rename", "move", "delete", "restore", "file"}
SYMMETRY Symmetry
CHECK_DEADLOCK FALSE
INVARIANTS
    WellFormed
    
PROPERTIES
    MovesNeverSwap
