SPECIFICATION Spec
CONSTANTS
    Nodes = {"a", "b", "c"}
    Workflow = Workflow
    TaskLists <- Lists
    Outcomes = {"Succeeded", "Failed"}
    Upsets = {"raise", "crash", "evidence"}
    MaxUpsets = 1
INVARIANTS
    TypeOK
    StatusNeverRunsAhead
    PromptsHoldResults
PROPERTIES
    ImplementsDagRun
CHECK_DEADLOCK FALSE
