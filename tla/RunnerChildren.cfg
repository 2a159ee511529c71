SPECIFICATION FairSpec
CONSTANTS
    t1 = t1
    t2 = t2
    p1 = p1
    p2 = p2
    check = check
    verdict = verdict
    NoCall = NoCall
    ToolCalls = {t1, t2}
    SessionMode <- TwoFree
    Inputs = {i1}
    Oversized = {}
    Profiles <- PlainProfiles
    DefaultProfile = p1
    NoProfile = NoProfile
    Unlimited = Unlimited
    Limits <- PlainLimits
    NoGate = NoGate
    Gate <- PlainGates
    Scope <- PlainScope
    ProfileMode <- PlainProfileMode
    Rules <- PlainRules
    MAX_CONSECUTIVE_TOOL_TIMEOUTS = 2
    FINAL_TURN_GRACE = 1
    MAX_SWITCHES_PER_RUN = 1
    Children = {k1}
    SpawnCalls = {t1}
    LongLived = TRUE
    StrictCommits = FALSE
    HostCommands = {"Cancel", "SpawnChild", "Pause", "Resume", "CancelSession"}
    MaxControls = 2
INVARIANTS
    RunIsDriven
PROPERTIES
    ShutdownDrains
CHECK_DEADLOCK FALSE
