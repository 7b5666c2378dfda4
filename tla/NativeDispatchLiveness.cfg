SPECIFICATION FairSpec
CONSTANTS
    p1 = p1
    p2 = p2
    Commands = {1, 2}
    Procs <- TwoProcs
    WorkerId <- SharedId
    ClockSkew = FALSE
    Answers = {"ok", "error", "lost"}
    Upsets = {"abort", "crash", "expire", "withdraw"}
    MaxUpsets = 1
    MaxGen = 2
INVARIANTS AtMostOneInvocation AttemptFollowsCommand
PROPERTIES ClosedRowIsFinal StartedEffectIsClosed QueuedCommandStarts
