SPECIFICATION FairSpec
CONSTANTS
  Tasks = {t1}
  NoTask = NoTask
  MaxAttempts = 2
  MaxConcurrent = 1
  ReworkCap = 1
  InfraCap = 1
  FreeConflicts = 1
  PushAttempts = 1
  CounterTop = 4
  MaxOps = 3
PROPERTY DeadAgentSettles
PROPERTY MergedRunSettles
PROPERTY SpentRunLeaves
PROPERTY TerminalWindowReaped
PROPERTY LaunchFailuresEnd
INVARIANT ReworkNeverFails
INVARIANT AttemptBound
INVARIANT CachedPrIsTrue
INVARIANT DoneMeansShipped
