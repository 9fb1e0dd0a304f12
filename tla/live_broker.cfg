SPECIFICATION FairSpec
CONSTANTS
    Symbols = {"SPY"}
    Allowed = {"SPY"}
    Prices = {1}
    Capital = 1
    Sizes = {1, 2}
    MaxPosition = 1
    MaxPerDay = 1
    PaperToday = 0
    MaxRequests = 3
    ServerFaults = {"kill", "save", "reset"}
    ShellFaults = {"send", "crash", "read"}
    NoFile = NoFile
    Torn = Torn
    None = None
CHECK_DEADLOCK FALSE
INVARIANTS TypeOK LogIsTrue KeptAnswers
PROPERTY OrderEnds
