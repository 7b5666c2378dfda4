SPECIFICATION FairSpec
CONSTANTS
    MaxReplicas = 2
    MaxEdits = 2
    MaxFailures = 2
INVARIANTS
    TypeOK
    HandledIsComplete
PROPERTIES
    ConvergesUndisturbed
    StatusConverges
