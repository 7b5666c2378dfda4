SPECIFICATION Spec
CONSTANTS
    Commands <- AllCommands
    NoCommand = NoCommand
    Generation <- Generations
    Operation <- OperationOf
    Callers = {p, q}
    Upsets = {"raise", "crash", "drift"}
    MaxUpsets = 1
    MaxFacts = 4
INVARIANTS
    TypeOK
    IntentBeforeEffect
    OneCommandPerGeneration
    ReplacementWasIssued
PROPERTIES
    AmbiguousIsRecovered
    LoneCallerIsCurrent
SYMMETRY CallerSymmetry
CHECK_DEADLOCK FALSE
