CONSTANTS
    Identity = {i1, i2}
    SessionId = {s1, s2, s3}
    Request = {r1, r2, r3}
    Operation <- AllOperations
    WebAuthnPasswordless = TRUE
    None = None
SPECIFICATION Spec
SYMMETRY Symmetry
INVARIANTS
    Answered
    SessionDeliveredPerVariant
    RevocationUndoneOnlyByStaleRefresh
PROPERTIES
    RevokeScope
