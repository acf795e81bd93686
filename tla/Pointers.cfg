\* Every key hashes to the last of four entries, so that probes wrap around.
CONSTANTS
    Callers = {t1, t2}
    Keys = {3, 7, 11}
    Memory = {m1, m2}
    NoMem = NoMem
    max_pointers = 4
    MaxAdds = 3
SPECIFICATION Spec
INVARIANTS
    NeverErr
PROPERTIES
    ImplementsMap
CHECK_DEADLOCK FALSE
