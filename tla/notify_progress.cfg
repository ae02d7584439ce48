\* The pump under the fairness of the event loop.
CONSTANTS
  c1 = c1
  r1 = r1
  early = early
  late = late
  desk = desk
  alpha = alpha
  beta = beta
  Channels <- OneChannel
  RuleIds <- OneRule
  StageIds <- TwoStages
  DestinationIds <- Desk
  Files <- TwoFiles
  ReloadFiles <- OneFile
  Rules <- MyRules
  Destinations <- MyDestinations
  GroupOrder <- KeyOrder
  MaxAlarms = 1
  BatchDelay = 1
  PacingDelay = 1
  MaxEpisodes = 1
  MaxNow = 9
  Mailers <- Desk
  MaxInFlight = 2
  QueueLimit = 2
  RetryFirst = 1
  RetryLater = 2
  RetryAfters <- NoWait
  Attempts = 3
  Updates <- OnlyAlarms
  Reloaded <- Fresh
  SettingsChoices <- SimpleOnly
  FileSettings <- None
  Trees <- WholeTree
  Tests = FALSE
  Pauses = TRUE
  Prompt = TRUE
  LastChange = 1
  Scenarios <- EpisodesOnly
SPECIFICATION ScenarioFairSpec
PROPERTIES AlarmsAnnounced
