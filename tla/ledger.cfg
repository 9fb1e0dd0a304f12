SPECIFICATION Spec
CONSTANTS
    Shells = {p, q}
    Tickers = {a, b, c}
    Allowed = {a, b, c}
    Slots = 2
    MaxSize = 2
    MaxOrders = 2
    Default = 4
    Capitals = {2}
    Sizes = {1, 2}
    Prices = {1, 2}
    Worlds = {"alone", "child", "any"}
    MaxDay = 2
    MaxCommands <- MCCommands
    NoAccount = NoAccount
    NoBaseline = NoBaseline
SYMMETRY Symmetry
INVARIANTS TypeOK NeverOverdrawn LedgerIsLog OrdersPerDay
PROPERTY ImplementsAccount
