SPECIFICATION Spec
CONSTANTS
    NumOrders = 3
    Quantities = {2, 3, 4}
    Prices = {1, 2}
    MaxInt = 3
    MaxUint = 7
    MaxOrderQuantity = 4
    MaxPosition = 3
    MaxGross = 7
    MaxOutstanding = 2
    MaxPerWindow = 2
    Window = 2
    LastTime = 2
INVARIANTS
    
    
    RateIsBounded
    
CHECK_DEADLOCK FALSE
