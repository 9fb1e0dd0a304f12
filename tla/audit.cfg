SPECIFICATION Spec
CONSTANTS
    Shells = {p, q}
    Worlds = {"alone", "any"}
    MaxStarts <- MCStarts
    MaxCommands <- MCCommands
    MaxSpanning = 2
    NoFile = NoFile
    Blank = Blank
    NoChain = NoChain
    Garbled = Garbled
SYMMETRY Symmetry
CHECK_DEADLOCK FALSE
INVARIANTS TypeOK LogVerifies AcceptedHasNoGap BreaksOnlyAtSeams
