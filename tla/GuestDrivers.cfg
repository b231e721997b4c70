SPECIFICATION DriversSpec
CONSTANTS
    Ch = {"GPU", "OTC", "SPU"}
    Overlap = "no"
    SectorSize = 2
    Removable = {0}
INVARIANTS NoCallbackLost AnswersRead
PROPERTIES CalledBack StoreSafe RequestsEnd
