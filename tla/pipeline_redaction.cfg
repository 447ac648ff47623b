SPECIFICATION Spec
CONSTANTS
    r1 = r1  r2 = r2
    Request = {r1, r2}
    None = None
    Arrivals <- Usual
    Route <- Routes
    Results <- Rulings
    Fallback <- Others
    Modes <- Settings
SYMMETRY Symmetric
CHECK_DEADLOCK FALSE
INVARIANT RedactedIsSentRedacted
