\* One channel in global active mode: outputs, IOC acknowledgement, masks and
\* deferred Force PV writes.
CONSTANTS
  facility = facility
  area = area
  c1 = c1
  c2 = c2
  Root = facility
  Channels <- OneChannel
  Groups <- BothGroups
  Ancestors <- OneAncestors
  DirectChannels <- OneDirect
  Subgroups <- AreaBelow
  Order <- OneOrder
  Global = TRUE
  Passive = FALSE
  FilterSeconds <- ShortFilter
  FilterCount <- NoCount
  Configured <- Unmasked
  InitialThreshold <- MinorBeeps
  BeepSeverity = 1
  NoAckHour = 2
  Events <- GlobalEvents
  MaskTargets <- AreaAndLeaf
  MaskRequests <- GlobalMasks
  BitRequests <- NoTargets
  RestoreTargets <- NoTargets
  ForceRequests <- ForceChoices
  NoAckTargets <- NoTargets
  AckTargets <- Leaves
  ShelveTargets <- NoTargets
  ShelfDurations <- NoTargets
  BeepTargets <- NoTargets
  BeepRequests <- NoTargets
  SilenceRequests <- NoTargets
  Reloads = FALSE
  ClockJumps = FALSE
  Synchronous = FALSE
  MaxMono = 3
  MaxWall = 1
  LastArrival = 2
SPECIFICATION Spec
INVARIANTS GlobalLatch
PROPERTIES OutputsAccount RequestsEndWithObservation
