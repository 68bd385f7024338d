\* A run's edges and a request, to a human, with another agent next to him.
SPECIFICATION Spec
CONSTANTS
    People = {"human", "agent"}
    News = {"run", "asked"}
    Attended = {FALSE}
    MaxWid = 2
    MaxEpoch = 2
    MaxHead = 2
    MaxFaults = 1
CHECK_DEADLOCK FALSE
INVARIANT TypeOK
PROPERTY NewsKept
PROPERTY NoStranger
