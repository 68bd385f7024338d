\* A request, a human who comes and goes, and the persona.
SPECIFICATION FairSpec
CONSTANTS
    People = {"human"}
    News = {"asked"}
    Attended = {TRUE, FALSE}
    MaxWid = 3
    MaxEpoch = 2
    MaxHead = 1
    MaxFaults = 1
CHECK_DEADLOCK FALSE
PROPERTY RequestTold
PROPERTY PersonaEnds
PROPERTY HandRunSurvives
