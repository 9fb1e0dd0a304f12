SPECIFICATION Spec
CONSTANTS
    Lines <- MCLines
    Faults = {"pipe", "log"}
CHECK_DEADLOCK FALSE
INVARIANT TypeOK
INVARIANT RunsBounded
INVARIANT FormsRunOnce
INVARIANT FormsAreGated
PROPERTY ImplementsList
