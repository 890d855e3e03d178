SPECIFICATION Spec
CONSTANTS
    Messages = {m1, m2}
    Edited = {m1}
    Deleted = {}
    Kinds <- MessageKindsHere
    Workers = {w1, w2}
    None = None
    SpendBound = 2
SYMMETRY Symmetry
INVARIANTS
    AnsweredOnce
    ConsentFirst
    ErasedStaysErased
CHECK_DEADLOCK FALSE
