\* One head that must be decided through a fault of any kind.
SPECIFICATION FairSpec
CONSTANTS
    Procs = {p1}
    Starters = {"agent"}
    MaxHead = 1
    Exempt = {}
    MaxUnknown = 1
    Faults = {"crash", "launch", "checkout", "death", "window", "unread", "slow"}
    MaxFaults = 1
CHECK_DEADLOCK FALSE
PROPERTY JudgingEnds
PROPERTY HeadIsDecided
