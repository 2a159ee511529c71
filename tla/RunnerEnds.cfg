SPECIFICATION FairSpec
CONSTANTS
    t1 = t1
    t2 = t2
    p1 = p1
    p2 = p2
    check = check
    verdict = verdict
    NoCall = NoCall
    ToolCalls = {t1, t2}
    SessionMode <- FreeAndDenied
    Inputs = {i1}
    Oversized = {}
    Profiles <- TwoProfiles
    DefaultProfile = p1
    NoProfile = NoProfile
    Unlimited = Unlimited
    Limits <- TightLimits
    NoGate = NoGate
    Gate <- Gates
    Scope <- NarrowScope
    ProfileMode <- PlainProfileMode
    Rules <- SwitchRules
    MAX_CONSECUTIVE_TOOL_TIMEOUTS = 2
    FINAL_TURN_GRACE = 1
    MAX_SWITCHES_PER_RUN = 1
    Children = {}
    SpawnCalls = {}
    LongLived = TRUE
    StrictCommits = FALSE
    HostCommands = {}
    MaxControls = 0
INVARIANTS
    RequestsBounded
PROPERTIES
    RunEnds
CHECK_DEADLOCK FALSE
