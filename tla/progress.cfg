\* One filtered channel with fair scheduling: held alarms surface, timed
\* NoAck and shelves end.
CONSTANTS
  facility = facility
  area = area
  c1 = c1
  c2 = c2
  Root = facility
  Channels <- OneChannel
  Groups <- BothGroups
  Ancestors <- OneAncestors
  DirectChannels <- OneDirect
  Subgroups <- AreaBelow
  Order <- OneOrder
  Global = FALSE
  Passive = FALSE
  FilterSeconds <- ShortFilter
  FilterCount <- NoCount
  Configured <- Unmasked
  InitialThreshold <- MinorBeeps
  BeepSeverity = 1
  NoAckHour = 1
  Events <- TimedEvents
  MaskTargets <- Leaves
  MaskRequests <- CancelOrNot
  BitRequests <- NoTargets
  RestoreTargets <- NoTargets
  ForceRequests <- NoMasks
  NoAckTargets <- Leaves
  AckTargets <- NoTargets
  ShelveTargets <- Leaves
  ShelfDurations <- Quick
  BeepTargets <- NoTargets
  BeepRequests <- NoTargets
  SilenceRequests <- Silences
  Reloads = TRUE
  ClockJumps = FALSE
  Synchronous = FALSE
  MaxMono = 4
  MaxWall = 4
  LastArrival = 2
SPECIFICATION FairSpec
PROPERTY TimersServed
