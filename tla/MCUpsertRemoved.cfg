SPECIFICATION Spec
CONSTANTS
    b1 = b1
    b2 = b2
    Bank = {b1}
    NoBank = NoBank
    NoKey = NoKey
    Detections <- Reports
    UserLabels <- Typed
    UserAmounts = {1000}
    MaxRow = 7
    MaxRounds = 3
    MaxEdits = 1
PROPERTIES
    RemovedStaysRemoved
CHECK_DEADLOCK FALSE
