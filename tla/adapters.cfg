\* An alarm channel or a severity output of Channel Access with two writes,
\* one cancellation and up to two callbacks in a poll; an alarm of pvAccess
\* with two observers, or an output, behind an inbox of two updates; two rows of one
\* record with two requests; an ACKPV action that changes.
CONSTANTS
  o1 = o1
  o2 = o2
  r1 = r1
  r2 = r2
  NeedsWrite = TRUE
  Severities <- TwoSeverities
  MaxPosted = 2
  MaxCancels = 1
  MaxCallbacks = 2
  Owners <- TwoOwners
  Alarms <- SomeAlarms
  InboxLimit = 2
  MaxOutages = 1
  MaxOperations = 3
  MaxRestarts = 2
  Rows <- TwoRows
  MaxRequests = 2
  MaxOthers = 1
  MaxBreaks = 1
  Directives <- TwoDirectives
  MaxAcks = 4
SPECIFICATION RouterSpec
INVARIANTS ChannelSettles PvaChannelSettles RowsFollowRequests RetriesAccounted
PROPERTIES CaImplementsService PvaImplementsService
CHECK_DEADLOCK FALSE
