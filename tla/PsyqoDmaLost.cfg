SPECIFICATION PsyqoFairSpec
CONSTANTS
    Ch = {"GPU", "SPU"}
    Overlap = "yes"
PROPERTY CalledBack
