SPECIFICATION Spec
CHECK_DEADLOCK FALSE
CONSTANTS
    Runs = {r1}
    Mortal = {r1}
    Versions = {0, 1, 2}
    Readable = {0, 2}
    AdminGoals = {"start"}
    PollerGoals = {}
    Prompt = TRUE
    MaxOutside = 2
    NoRun = NoRun
    r1 = r1
    r2 = r2
INVARIANTS OpenMeansConsistent RolledBackRestores
