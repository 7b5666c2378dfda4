SPECIFICATION Spec
CONSTANTS
    p1 = p1
    p2 = p2
    Commands = {1}
    Procs <- TwoProcs
    WorkerId <- OwnIds
    ClockSkew = FALSE
    Answers = {"ok", "error"}
    Upsets = {"intervene"}
    MaxUpsets = 2
    MaxGen = 2
PROPERTY TerminalAttemptIsImmutable
