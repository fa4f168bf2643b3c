CONSTANTS
    Caller = {c1, c2, c3}
    Text = {t1, t2}
    None = None
SPECIFICATION Spec
SYMMETRY Symmetry
INVARIANTS
    NoDuplicateAddresses
    StoredRecordsReused
    FinishReflectsInputs
PROPERTY
    RunAtomic
