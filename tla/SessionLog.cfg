SPECIFICATION LogSpec
CONSTANTS
    root = root
    helper = helper
    Receivers <- TwoAgents
    Commands = {"start", "refuse", "stop", "stream", "finish", "fail", "cancel"}
    policy = "Strict"
    snapshot_every = 3
    MaxSequence = 4
    MaxEpochs = 2
    MaxCheckpoints = 1
INVARIANTS
    StoredInOrder
    
CHECK_DEADLOCK FALSE
