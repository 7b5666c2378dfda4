SPECIFICATION FairSpec
CONSTANTS
    p1 = p1
    p2 = p2
    Commands = {1}
    Procs <- TwoProcs
    WorkerId <- OwnIds
    ClockSkew = FALSE
    Answers = {"ok", "unusable"}
    Upsets = {"delete"}
    MaxUpsets = 1
    MaxGen = 2
PROPERTY UnusableObservationIsClosed
