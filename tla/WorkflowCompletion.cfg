SPECIFICATION FairSpec
CONSTANTS
    Nodes = {"a", "b"}
    Workflow = Workflow
    TaskLists <- SmallLists
    Outcomes = {"Succeeded", "Failed"}
    Upsets = {"raise", "crash", "evidence"}
    MaxUpsets = 0
PROPERTIES
    WorkflowCompletes
CHECK_DEADLOCK FALSE
