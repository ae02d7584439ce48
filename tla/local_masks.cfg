\* Two channels in local mode, three scenarios: events, masks and
\* acknowledgement; overlapping NoAck timers; beep thresholds and silence.
CONSTANTS
  facility = facility
  area = area
  c1 = c1
  c2 = c2
  Root = facility
  Channels <- TwoChannels
  Groups <- BothGroups
  Ancestors <- TwoAncestors
  DirectChannels <- TwoDirect
  Subgroups <- AreaBelow
  Order <- TwoOrder
  Global = FALSE
  Passive = FALSE
  FilterSeconds <- NoFilter
  FilterCount <- NoCount
  Configured <- OneNoAckT
  InitialThreshold <- MinorBeeps
  BeepSeverity = 1
  NoAckHour = 2
  Events <- TimedEvents
  MaskTargets <- AreaAndRoot
  MaskRequests <- OneBit
  BitRequests <- Unmonitored
  RestoreTargets <- NoTargets
  ForceRequests <- NoMasks
  NoAckTargets <- NoTargets
  AckTargets <- RootOnly
  ShelveTargets <- NoTargets
  ShelfDurations <- NoTargets
  BeepTargets <- NoTargets
  BeepRequests <- NoTargets
  SilenceRequests <- NoTargets
  Reloads = FALSE
  ClockJumps = FALSE
  Synchronous = FALSE
  MaxMono = 1
  MaxWall = 1
  LastArrival = 1
  Scenarios <- MaskScenarios
SPECIFICATION ScenarioSpec
INVARIANTS TypeOK AutomationTallies MaskTallies SuppressedHasNoLatch NoAckTimersCover
PROPERTIES EventsKeepLatches NewSoundEndsSilenceCurrent
