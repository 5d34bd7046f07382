CONSTANTS
    c1 = c1
    c2 = c2
    c3 = c3
    Children <- MCChildren
    Codes = {0}
    Unset = Unset
    NoRec = NoRec
    None = None
SPECIFICATION Spec
PROPERTY
    WaitTerminates
CHECK_DEADLOCK FALSE
