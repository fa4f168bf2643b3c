SPECIFICATION Spec
INVARIANT FailureReported
PROPERTY ShutdownCompletes
