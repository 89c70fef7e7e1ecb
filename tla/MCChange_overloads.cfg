SPECIFICATION Spec
CONSTANTS
    Olds <- Overloads
    News <- Overloads
    Absent = Absent
    MaxChanges = 0
CHECK_DEADLOCK FALSE
INVARIANT SignatureChanged
