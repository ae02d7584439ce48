\* One filtered channel in local mode: every order of events, ticks,
\* Cancel, Disable and timed NoAck.
CONSTANTS
  facility = facility
  area = area
  c1 = c1
  c2 = c2
  Root = facility
  Channels <- OneChannel
  Groups <- BothGroups
  Ancestors <- OneAncestors
  DirectChannels <- OneDirect
  Subgroups <- AreaBelow
  Order <- OneOrder
  Global = FALSE
  Passive = FALSE
  FilterSeconds <- ShortFilter
  FilterCount <- OneCount
  Configured <- Unmasked
  InitialThreshold <- MinorBeeps
  BeepSeverity = 1
  NoAckHour = 1
  Events <- FilterEvents
  MaskTargets <- Leaves
  MaskRequests <- NoMasks
  BitRequests <- Hiding
  RestoreTargets <- NoTargets
  ForceRequests <- CancelChoice
  NoAckTargets <- Leaves
  AckTargets <- NoTargets
  ShelveTargets <- NoTargets
  ShelfDurations <- NoTargets
  BeepTargets <- NoTargets
  BeepRequests <- NoTargets
  SilenceRequests <- NoTargets
  Reloads = FALSE
  ClockJumps = TRUE
  Synchronous = TRUE
  MaxMono = 4
  MaxWall = 2
  LastArrival = 3
SPECIFICATION Spec
INVARIANTS NothingOverdueAtEvent FilterTimersExact
