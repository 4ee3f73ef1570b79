SPECIFICATION Spec
CONSTANTS
    Host = {h1}
    MAX_ATTEMPTS = 2
    Binary = {old, new}
    None = None
    Partial = Partial
INVARIANTS
    InterruptionIsCovered
