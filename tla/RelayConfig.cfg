SPECIFICATION FairSpec
CONSTANTS
  Second = 10
  Half = 2048
  Speeds = {50, 100}
  DefaultSlow = 300
  DefaultFast = 150
  DefaultAbove = 80
  Sends = {1, 2}
  Configs <- SomeConfigs
  MaxVersion = 2
INVARIANTS
  ProcessedAtMostOnce
  SentMeansProcessed
  GivesUpOnlyWithCause
  NewestApplied
  ConfigLandsOnNextRead
  IntervalIsUsable
  OneLinePerBadValue
PROPERTIES
  EventsIngestedOnce
CONSTRAINT OneSubject
CHECK_DEADLOCK FALSE
