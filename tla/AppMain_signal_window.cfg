SPECIFICATION Spec
INVARIANT
    SignalShutsDown
