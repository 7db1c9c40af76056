CONSTANTS
    s1 = s1
    s2 = s2
    Session = {s1, s2}
    Threads = 2
    Timeout = 1
    HandlersThrow = TRUE
SPECIFICATION Spec
INVARIANTS
    TypeOK
    RegisteredUntilEnd
    NoHandlerAfterDestruction
    ExitLeavesNothing
SYMMETRY MCSymmetry
