SPECIFICATION Spec
CONSTANTS
    People = {"human"}
    News = {"asked"}
    Attended = {TRUE}
    MaxWid = 2
    MaxEpoch = 1
    MaxHead = 1
    MaxFaults = 0
CHECK_DEADLOCK FALSE
PROPERTY NeverKilledAtWork
