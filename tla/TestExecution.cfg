CONSTANTS
    Commands = {c1, c2}
    Atomics = {a1, a2}
    MaxReports = 3
SPECIFICATION Spec
INVARIANTS
    JudgedOnData
    AtomicAlarmsLast
PROPERTIES
    ReturnedIsFinal
CHECK_DEADLOCK FALSE
