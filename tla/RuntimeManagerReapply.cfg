SPECIFICATION Spec
CONSTANTS
    Commands <- AllCommands
    NoCommand = NoCommand
    Generation <- Generations
    Operation <- OperationOf
    Callers = {p}
    Upsets = {"raise"}
    MaxUpsets = 1
    MaxFacts = 4
PROPERTIES
    AmbiguousIsNotReissued
CHECK_DEADLOCK FALSE
