SPECIFICATION Spec
CONSTANTS
    DayLength = 24
    Exchanges <- MCExchanges
    Builtin <- MCBuiltin
    Registries <- MCRegistries
    Capacity = 2
    FirstDay = 5
    Offsets <- MCOffsets
    ChangesAt = 50
    Ahead = 9
    Minutes = {0, 2, 30}
    Horizon = 120
    None = None
CHECK_DEADLOCK FALSE
INVARIANTS TypeOK CountdownIsHonest NextBoundaryIsFirst
PROPERTY RunsInTime
