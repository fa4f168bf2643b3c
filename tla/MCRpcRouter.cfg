CONSTANTS
    Caller = {c1, c2, c3}
    None = None
SPECIFICATION Spec
INVARIANT RouterComplete
