SPECIFICATION FairSpec
CONSTANTS
    r1 = r1
    r2 = r2
    r3 = r3
    Requests = {r1, r2, r3}
    PlainText = {r1, r2}
    WithTools = {r1}
    Unsupported = {r3}
    Answer <- OneTalks
    max_attempts = 3
    idle_timeout = 2
    circuit_failure_threshold = 2
INVARIANTS
    OpenIsEarned
    ProbeSlotHasAnOwner
PROPERTIES
    KeepsTheContract
CHECK_DEADLOCK FALSE
