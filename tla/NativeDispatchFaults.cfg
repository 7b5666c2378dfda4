SPECIFICATION Spec
CONSTANTS
    p1 = p1
    p2 = p2
    Commands = {1}
    Procs <- TwoProcs
    WorkerId <- OwnIds
    ClockSkew = TRUE
    Answers = {"ok", "unusable", "error", "lost"}
    Upsets = {"abort", "crash", "lost", "nouid", "delete", "foreign", "expire", "withdraw", "intervene"}
    MaxUpsets = 3
    MaxGen = 3
INVARIANTS TypeOK OutcomeIsTheAnswer JournalIsALifecycle
PROPERTIES ImplementsEffectOnce NoEffectWhileWithdrawn
