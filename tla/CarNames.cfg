SPECIFICATION FairSpec
CONSTANTS
  Namespace = ""
  Levels = {"", "teslamate", "home", "cars", "1", "2", "display_name", "model"}
  CarIDs = {"1", "2"}
  BrokerTopics <- SomeTopics
  Values = {"", "old", "new"}
  InitialFiles <- SomeFiles
  MaxPublished = 3
  MaxFaults = 2
INVARIANTS
  RestartKeepsNames
  NamesAreOwn
PROPERTIES
  OnlyOwnEntryChanges
  NamesCatchUp
CHECK_DEADLOCK FALSE
