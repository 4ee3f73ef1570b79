SPECIFICATION Spec
SYMMETRY Symmetry
CONSTANTS
    Host = {h1, h2}
    MAX_ATTEMPTS = 2
    Binary = {old, new}
    None = None
    Partial = Partial
INVARIANTS
    TypeOK
    RunsWhatWasHashed
    RemovalAskedOnce
    ReturnLeavesNothing
