CONSTANTS
    Files = {"f1", "f2"}
    Gone = Gone
    Dirs <- MCDirs
    Root = "library"
    Above <- MCAbove
    Excluded = {"quarantine"}
    Advertising = {"promo"}
    Folders <- MCFolders
    Runs <- MCRuns
    MaxRounds = 2
    MaxTouches = 1
SPECIFICATION Spec
INVARIANTS
    TypeOK
    NothingIsLostByDefault
    OnlyJunkLeaves
    AnalysisSettles
