SPECIFICATION Spec
INVARIANTS CountsMatchTable ValidatedWebAuthnCounted
