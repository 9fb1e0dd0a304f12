SPECIFICATION FairCapture
CONSTANTS
    PipeSize = 2
    Chunk = 2
    Cap = 3
    MaxOut = 4
CHECK_DEADLOCK FALSE
INVARIANTS CaptureTypeOK EchoesOutput
PROPERTY Returns
