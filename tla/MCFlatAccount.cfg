SPECIFICATION Spec
CONSTANTS
    NumOrders = 3
    Quantities = {1}
    Prices = {1, 2}
    MaxInt = 3
    MaxUint = 7
    MaxOrderQuantity = 4
    MaxPosition = 3
    MaxGross = 6
    MaxOutstanding = 2
    MaxPerWindow = 2
    Window = 2
    LastTime = 5
INVARIANTS
    FlatAccountTrades
CHECK_DEADLOCK FALSE
