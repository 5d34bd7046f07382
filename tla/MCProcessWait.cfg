CONSTANTS
    c1 = c1
    c2 = c2
    c3 = c3
    Children <- MCChildren
    Codes = {0, 1}
    Unset = Unset
    NoRec = NoRec
    None = None
SYMMETRY ChildSymmetry
SPECIFICATION Spec
INVARIANTS
    TypeOK
    RecordOutlivesChild
    WaitGetsExitCode
CHECK_DEADLOCK FALSE
