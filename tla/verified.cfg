\* The daemon dies between stamping the head and checking it out.
SPECIFICATION Spec
CONSTANTS
    Procs = {p1}
    Starters = {"agent"}
    MaxHead = 2
    Exempt = {}
    MaxUnknown = 1
    Faults = {"crash"}
    MaxFaults = 1
CHECK_DEADLOCK FALSE
INVARIANT VerdictIsVerified
