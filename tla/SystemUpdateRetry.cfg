SPECIFICATION Spec
CHECK_DEADLOCK FALSE
CONSTANTS
    Runs = {r1, r2}
    Mortal = {}
    Versions = {0, 1}
    Readable = {0, 1}
    AdminGoals = {"start"}
    PollerGoals = {}
    Prompt = TRUE
    MaxOutside = 0
    NoRun = NoRun
    r1 = r1
    r2 = r2
INVARIANTS OpenMeansConsistent
