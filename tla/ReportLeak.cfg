SPECIFICATION Spec
CONSTANTS
    Writer = {w1, w2}
    NoReport = NoReport
    Torn = Torn
INVARIANT
    FailureCleansUp
