CONSTANTS
    Caller = {c1, c2}
    None = None
SPECIFICATION Spec
SYMMETRY Symmetry
INVARIANT RoutesUseOwnUseCase
