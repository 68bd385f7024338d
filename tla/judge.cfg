\* A judge, three heads of which the last needs no judge, and a launch, a run or a window that dies.
SPECIFICATION Spec
CONSTANTS
    Procs = {p1}
    Starters = {"agent"}
    MaxHead = 3
    Exempt = {3}
    MaxUnknown = 1
    Faults = {"launch", "window", "death"}
    MaxFaults = 1
CHECK_DEADLOCK FALSE
INVARIANT TypeOK
INVARIANT VerdictIsVerified
