SPECIFICATION Spec
CONSTANTS
    SPY = SPY
    GME = GME
    Symbols = {SPY, GME}
    Sizes = {1, 2}
    Prices = {0, 2}
    Files <- MCFiles
    Defaults <- MCDefaults
    ListRoom = 2
    Room = 4
    Losses = {0, 1, 2}
    Variants = {"plain", "logged"}
    MaxRead = 6
    MaxChunk = 2
    Absent = Absent
    Stray = Stray
INVARIANTS TypeOK PolicyInForce LossIsReported
