SPECIFICATION FairSpec
CHECK_DEADLOCK FALSE
CONSTANTS
    Runs = {r1, r2}
    Mortal = {r1}
    Versions = {0, 1}
    Readable = {0}
    AdminGoals = {}
    PollerGoals = {"check", "start"}
    Prompt = TRUE
    MaxOutside = 0
    NoRun = NoRun
    r1 = r1
    r2 = r2
INVARIANTS TypeOK RunnerOwnsLock
PROPERTIES MarksOnlyDead ChecksKeepOff LockoutEnds StatusSettles
