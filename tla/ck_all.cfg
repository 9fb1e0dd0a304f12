SPECIFICATION Spec
CONSTANTS
    p1 = p1
    p2 = p2
    v1 = v1
    x1 = x1
    Pid = {p1, p2}
    Var = {v1}
    Value = {x1}
    Absent = Absent
    Garbage = Garbage
    Reread <- MCReread
    Hole = Hole
    None = None
    Inode = {1, 2, 3}
    Size <- MCSize
    MaxSize = 2
    Batch = {p2}
    Commands <- MCCommands
    Faults = {"fclose"}
    MaxLive = 1
VIEW MCView
CHECK_DEADLOCK FALSE
INVARIANT TypeOK
INVARIANT CleanExitLeavesNothing
INVARIANT EnvIsReal
PROPERTY RestoresOneSave
