\* One channel, one destination, three scenarios: all states of the channel
\* with a mailer and pauses; a failing webhook with an escalation; edits.
CONSTANTS
  c1 = c1
  r1 = r1
  early = early
  late = late
  desk = desk
  alpha = alpha
  beta = beta
  Channels <- OneChannel
  RuleIds <- OneRule
  StageIds <- TwoStages
  DestinationIds <- Desk
  Files <- TwoFiles
  ReloadFiles <- OneFile
  Rules <- MyRules
  Destinations <- MyDestinations
  GroupOrder <- KeyOrder
  MaxAlarms = 1
  BatchDelay = 1
  PacingDelay = 1
  MaxEpisodes = 2
  MaxNow = 4
  Mailers <- Desk
  MaxInFlight = 2
  QueueLimit = 2
  RetryFirst = 1
  RetryLater = 2
  RetryAfters <- NoWait
  Attempts = 3
  Updates <- AllUpdates
  Reloaded <- Fresh
  SettingsChoices <- SimpleOnly
  FileSettings <- None
  Trees <- WholeTree
  Tests = FALSE
  Pauses = TRUE
  Prompt = FALSE
  LastChange = 3
  Scenarios <- AllScenarios
SPECIFICATION ScenarioSpec
INVARIANTS OneEnvelope DeliveryBounded
PROPERTIES OnlyLiveAlarmsSent RepeatsSuppressed ResolutionsDue
