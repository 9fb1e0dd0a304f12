SPECIFICATION Spec
CONSTANTS
    Lines <- MCAny
    Faults = {}
CHECK_DEADLOCK FALSE
INVARIANT SkippedNeverRuns
