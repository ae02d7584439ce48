\* Configuration files of up to six statements about a tree or about lines for
\* the whole configuration, five about settings and seven about INCLUDE files,
\* with edits of what was read, saved again;
\* an editor with two INCLUDE files, a save that fails and another editor;
\* two channels watched by the analytics over three ticks.
CONSTANTS
  k1 = k1
  k2 = k2
  opened = opened
  other = other
  i1 = i1
  i2 = i2
  Scopes <- FileScopes
  Includes <- TwoIncludes
  Mains <- OneMain
  Original = opened
  MaximumSnapshots = 2
  MaximumBytes = 2
  EditorBudgets <- EditScopes
  Identities <- TwoIdentities
  Day = 2
  MaximumRecords = 2
  MaximumRetired = 1
  ClockLimit = 1
  Ranges = {0, 2}
  Filters = {0, 1}
  RequestGap = 1
  MaxTime = 3
  AnalyticsBudgets <- WatchScopes
SPECIFICATION DeskSpec
INVARIANTS ReadersAgree SavedReadsBack EditKeepsTree 
  HistoryContiguous SavedMeansOnDisk ReportsExact EpisodesAccounted
CHECK_DEADLOCK FALSE
