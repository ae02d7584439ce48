\* Two channels in local mode: a one-hour NoAck timer and the restore of a
\* mask in Runtime Overrides.
CONSTANTS
  facility = facility
  area = area
  c1 = c1
  c2 = c2
  Root = facility
  Channels <- TwoChannels
  Groups <- BothGroups
  Ancestors <- TwoAncestors
  DirectChannels <- TwoDirect
  Subgroups <- AreaBelow
  Order <- TwoOrder
  Global = FALSE
  Passive = FALSE
  FilterSeconds <- NoFilter
  FilterCount <- NoCount
  Configured <- Unmasked
  InitialThreshold <- MinorBeeps
  BeepSeverity = 1
  NoAckHour = 2
  Events <- MajorOnly
  MaskTargets <- NoTargets
  MaskRequests <- NoMasks
  BitRequests <- NoTargets
  RestoreTargets <- Leaves
  ForceRequests <- NoMasks
  NoAckTargets <- Everything
  AckTargets <- NoTargets
  ShelveTargets <- NoTargets
  ShelfDurations <- NoTargets
  BeepTargets <- NoTargets
  BeepRequests <- NoTargets
  SilenceRequests <- NoTargets
  Reloads = FALSE
  ClockJumps = FALSE
  Synchronous = FALSE
  MaxMono = 3
  MaxWall = 1
  LastArrival = 3
SPECIFICATION Spec
INVARIANTS TimedIsNoAck
