\* Two channels in local mode: shelves that end while the wall clock is set
\* back and forth, with events and acknowledgement; or a reload of the same
\* configuration, which keeps shelves and latches but no timers and masks.
CONSTANTS
  facility = facility
  area = area
  c1 = c1
  c2 = c2
  Root = facility
  Channels <- TwoChannels
  Groups <- BothGroups
  Ancestors <- TwoAncestors
  DirectChannels <- TwoDirect
  Subgroups <- AreaBelow
  Order <- TwoOrder
  Global = FALSE
  Passive = FALSE
  FilterSeconds <- NoFilter
  FilterCount <- NoCount
  Configured <- Unmasked
  InitialThreshold <- MinorBeeps
  BeepSeverity = 1
  NoAckHour = 2
  Events <- TimedEvents
  MaskTargets <- NoTargets
  MaskRequests <- NoMasks
  BitRequests <- NoTargets
  RestoreTargets <- NoTargets
  ForceRequests <- NoMasks
  NoAckTargets <- NoTargets
  AckTargets <- RootOnly
  ShelveTargets <- Everything
  ShelfDurations <- Quick
  BeepTargets <- NoTargets
  BeepRequests <- NoTargets
  SilenceRequests <- NoTargets
  Reloads = FALSE
  ClockJumps = TRUE
  Synchronous = FALSE
  MaxMono = 2
  MaxWall = 3
  LastArrival = 2
  Scenarios <- ShelfScenarios
SPECIFICATION ScenarioSpec
INVARIANTS OperatorTallies DeadlinesCovered
