SPECIFICATION Spec
CONSTANTS
    t1 = t1
    t2 = t2
    p1 = p1
    p2 = p2
    check = check
    verdict = verdict
    NoCall = NoCall
    ToolCalls = {t1, t2}
    SessionMode <- FreeAndAsked
    Inputs = {i1}
    Oversized = {}
    Profiles <- TwoProfiles
    DefaultProfile = p1
    NoProfile = NoProfile
    Unlimited = Unlimited
    Limits <- PlainLimits
    NoGate = NoGate
    Gate <- PlainGates
    Scope <- NarrowScope
    ProfileMode <- DenyingP2
    Rules <- CallRules
    MAX_CONSECUTIVE_TOOL_TIMEOUTS = 2
    FINAL_TURN_GRACE = 1
    MAX_SWITCHES_PER_RUN = 1
    Children = {}
    SpawnCalls = {}
    LongLived = TRUE
    StrictCommits = FALSE
    HostCommands = {"Cancel", "SetBehaviorProfile"}
    MaxControls = 2
INVARIANTS
    TypeOK
    CallsAccountedFor
    PromptsAreForWaitingCalls
    CallsRunAsGranted
    InFlightIsTruthful
CHECK_DEADLOCK FALSE
