SPECIFICATION Spec
CONSTANTS
    MaxCopies = 2
    Repositories = {"mine", "other"}
    Providers = {"p", "q"}
    Keys = {"k"}
    Files = {"f", "g"}
    Names = {"x", "y"}
    MaxRuns = 3
PROPERTIES
    MergeKeepsNames
    TornStaysTorn
    ResultsNotMixed
