------------------------------ MODULE MCAlarmLog ------------------------------
(***************************************************************************)
(* Instances of AlarmLog for TLC.  The behaviours of a run follow one of   *)
(* the scenarios below, which differ in their inputs; the constants of the *)
(* cfg are the widest of them.                                             *)
(***************************************************************************)
EXTENDS AlarmLog

CONSTANTS p1, p2,
  Scenarios

VARIABLE scenario

TwoProcesses == {p1, p2}
OneProcess   == {p1}
AllWindows   == {{1}, {2}, {3}, {0, 2}, {0}}
Small        == {{2}}
Larger       == {{3}}
Rings        == {{1}, {2}}
Mixed        == {{0, 2}}
Unlimited    == {{0}}
Same         == {1}
Two          == {1, 2}

(* Two processes hand over a ring whose records all carry the same second; *)
(* files of more than one cell are read by a worker.                       *)
HandOver == INSTANCE AlarmLog WITH
  Windows <- Small, Times <- Same, Sizes <- Same, Torn <- FALSE, LargeFile <- 1,
  CheckpointFails <- FALSE

(* A larger ring, which a view follows.                                    *)
Followed == INSTANCE AlarmLog WITH
  Processes <- OneProcess, Windows <- Larger, Times <- Same, Sizes <- Same, Torn <- FALSE,
  LargeFile <- 20

(* One process is restarted with other limits; records differ in size, and *)
(* writes may be torn.                                                     *)
Tearing == INSTANCE AlarmLog WITH
  Processes <- OneProcess, Windows <- Rings, Times <- Same, LargeFile <- 20, CheckpointFails <- FALSE,
  MaxRecords <- 3

(* The windows of one process share the file, and one has no limit.        *)
Sharing == INSTANCE AlarmLog WITH
  Processes <- OneProcess, Windows <- Mixed, Times <- Two, Sizes <- Same, Torn <- FALSE,
  LargeFile <- 1

(* A log that is emptied at every start and keeps everything.              *)
Emptied == INSTANCE AlarmLog WITH
  Processes <- OneProcess, Windows <- Unlimited, Times <- Two, Truncates <- TRUE

ScenarioInit ==
  /\ scenario \in Scenarios
  /\ Init

ScenarioNext ==
  /\ UNCHANGED scenario
  /\ \/ scenario = "handover" /\ HandOver!Next
     \/ scenario = "followed" /\ Followed!Next
     \/ scenario = "tearing" /\ Tearing!Next
     \/ scenario = "sharing" /\ Sharing!Next
     \/ scenario = "emptied" /\ Emptied!Next

ScenarioSpec == ScenarioInit /\ [][ScenarioNext]_<<vars, scenario>>

AllScenarios == {"handover", "followed", "tearing", "sharing", "emptied"}
=============================================================================
