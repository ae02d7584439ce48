---------------------------------- MODULE Desk ----------------------------------
(***************************************************************************)
(* The configuration editor and the analytics at the operator's desk: two  *)
(* components with variables of their own, and what each promises.         *)
(***************************************************************************)
EXTENDS Integers, FiniteSets

CONSTANTS
  Includes, Mains, Original, MaximumSnapshots, MaximumBytes, EditorBudgets,
  Identities, Day, MaximumRecords, MaximumRetired, ClockLimit, Ranges, Filters,
  RequestGap, MaxTime, AnalyticsBudgets

(* A configuration does not include itself, and the number of steps and    *)
(* the sizes of snapshots are numbers.                                     *)
ASSUME EditorAssumption ==
  /\ Original \notin Includes
  /\ EditorBudgets \subseteq
       [edits : Nat, saves : Nat, failures : Nat, foreign : Nat, sizes : SUBSET Nat]

(* Channels are finitely many, and times are numbers.                      *)
ASSUME AnalyticsAssumption ==
  /\ IsFiniteSet(Identities)
  /\ Day \in Int /\ RequestGap \in Int

VARIABLES
  disk, document, filename, modified, undo, redo, savedIncludes, saving, open, edges, foreign, left,
  now, stepped, live, configuration, data, lastMono, work, shown, truth, budget

editorVars == <<disk, document, filename, modified, undo, redo, savedIncludes, saving, open,
                edges, foreign, left>>
analyticsVars == <<now, stepped, live, configuration, data, lastMono, work, shown, truth, budget>>

Editor    == INSTANCE ConfigEditor WITH Budgets <- EditorBudgets, doc <- document, budget <- left
Analytics == INSTANCE AlarmAnalytics WITH Budgets <- AnalyticsBudgets, document <- configuration
-----------------------------------------------------------------------------
HistoryContiguous == Editor!HistoryContiguous
SavedMeansOnDisk  == Editor!SavedMeansOnDisk
ReportsExact      == Analytics!ReportsExact
EpisodesAccounted == Analytics!EpisodesAccounted
=============================================================================
