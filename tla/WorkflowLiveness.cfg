SPECIFICATION FairSpec
CONSTANTS
    Nodes = {"a", "b"}
    Workflow = Workflow
    TaskLists <- SmallLists
    Outcomes = {"Succeeded", "Failed"}
    Upsets = {"raise", "crash", "evidence"}
    MaxUpsets = 2
PROPERTIES
    EveryNodeSettles
CHECK_DEADLOCK FALSE
