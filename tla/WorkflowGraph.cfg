SPECIFICATION Spec
CONSTANTS
    Names = {"a", "b", "c"}
    MaxTasks = 3
    MaxDepends = 2
    MaxFrom = 2
    Observed = {"Running", "Succeeded", "Failed"}
INVARIANTS
    OrderRespectsDependencies
    AcceptsExactlyDags
    SkipsTheBlockedSubgraph
    NeverStuck
CHECK_DEADLOCK FALSE
