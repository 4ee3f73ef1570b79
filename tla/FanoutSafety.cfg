SPECIFICATION Spec
SYMMETRY TaskSymmetry
CONSTANTS
    Task = {h1, h2, h3}
    Concurrency = 2
    MAX_ATTEMPTS = 2
INVARIANTS
    TypeOK
    ConcurrencyBounded
    SucceededIsPersisted
    StrategyIsTruthful
    EveryHostOnce
    CleanMeansAllPersisted
PROPERTIES
    OutcomeIsFinal
