SPECIFICATION Spec
CONSTANTS
    OnWindows = TRUE
    Failed = Failed
    Rank <- TheRank
    Catalogue <- TheCatalogue
    Registry <- TheRegistry
    NameOrder <- TheNameOrder
    Questions <- MCQuestions
    Topics = {"verdict"}
INVARIANT
    UnresolvedPortsAreNotAllowed
