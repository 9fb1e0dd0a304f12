SPECIFICATION Spec
CONSTANTS
    p1 = p1
    p2 = p2
    v1 = v1
    short = short
    long = long
    Pid = {p1, p2}
    Var = {v1}
    Value = {short, long}
    Absent = Absent
    Garbage = Garbage
    Reread <- MCReread
    Hole = Hole
    None = None
    Inode = {1, 2, 3, 4}
    Size <- MCSize
    MaxSize = 2
    Batch = {}
    Commands <- MCCommands
    Faults = {"crash", "fwrite", "fopen", "rename", "pthread_create"}
    MaxLive = 2
SYMMETRY Symmetry
VIEW MCView
CHECK_DEADLOCK FALSE
INVARIANT PublishedWhole
PROPERTY ImplementsStore
