\* A question of several choices, and two faults: Telegram refuses a call, a
\* process dies or is slow, or the topic is closed.
SPECIFICATION FairSpec
CONSTANTS
    Questions = {1}
    Many = {1}
    Options = {"a"}
    Texts = {"t"}
    Threads = {"t1"}
    MaxTries = 2
    MaxGate = 1
    MaxPost = 3
    Faults = {"refuse", "dashboard", "death", "bot", "slow", "topic"}
    MaxFaults = 2
CHECK_DEADLOCK FALSE
INVARIANT TypeOK
INVARIANT NoOrphan
PROPERTY AnsweredReleases
PROPERTY QuestionIsOffered
PROPERTY OldMessageGoes
