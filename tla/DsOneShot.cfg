\* Overlapping ceremonies, a store at its bound, a clock that passes the deadlines.
SPECIFICATION Spec
CONSTANTS
    i1 = i1
    i2 = i2
    i3 = i3
    p1 = p1
    c1 = c1
    c2 = c2
    d1 = d1
    Ids = {i1, i2, i3}
    Proposals = {p1}
    Local = Local
    None = None
    Callers = {c1, c2}
    Drivers = {d1}
    MaxRecords = 1
    Validity = 1
    MaxTime = 3
INVARIANTS
    OneShot
PROPERTIES
    EvictionKeeps
SYMMETRY Interchangeable
\* The clock stops at its bound and every id may be used up.
CHECK_DEADLOCK FALSE
