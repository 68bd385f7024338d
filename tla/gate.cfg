\* Two questions, one after the other, that say the same or not; the log's events
\* are lost while the dashboard is down, or forgotten.
SPECIFICATION Spec
CONSTANTS
    Questions = {1}
    Many = {}
    Options = {a, b}
    Texts = {t, u}
    Threads = {"t1"}
    MaxTries = 1
    MaxGate = 2
    MaxPost = 1
    Faults = {"dashboard", "daemon", "slow", "ack"}
    MaxFaults = 1
SYMMETRY Alike
CHECK_DEADLOCK FALSE
INVARIANT AnswerIsForGate
