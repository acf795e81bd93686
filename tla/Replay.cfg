\* The key hashes to the last entry of the table.  The tids 1 and 3 start their
\* search at entry 1 of two; a thread that ends leaves a hole there, with the
\* other thread behind it.
CONSTANTS
    Callers = {0, 1}
    Keys = {15}
    Memory = {m1, m2}
    NoMem = NoMem
    max_pointers = 16
    MaxAdds = 4
    Tids = {1, 3}
    max_threads = 2
    MaxLines = 4
    PageEntries = 2
    CreateOutcomes = {TRUE, FALSE}
SPECIFICATION ReplaySpec
INVARIANTS
    FreedOnce
    EveryLineExecutedOnce
PROPERTIES
    KeepsContract
    Terminates
CHECK_DEADLOCK FALSE
