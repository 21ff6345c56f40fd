\* Three workers, with --report-times.
CONSTANTS
    t1 = t1
    t2 = t2
    t3 = t3
    Options <- Times
SPECIFICATION Spec
INVARIANTS
    NonParallelAlone
