SPECIFICATION FairSpec
CONSTANTS
    MaxReplicas = 1
    MaxEdits = 2
    MaxFailures = 1
PROPERTIES
    Converges
