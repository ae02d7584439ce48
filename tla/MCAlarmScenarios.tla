--------------------------- MODULE MCAlarmScenarios ---------------------------
(***************************************************************************)
(* Several uses of one alarm tree in one run: a behaviour follows one of   *)
(* the scenarios, which differ in the calls and inputs of the environment. *)
(* The constants of the configuration file are those of the first one.     *)
(***************************************************************************)
EXTENDS MCAlarmEngine

CONSTANT Scenarios   \* the scenarios that are explored

VARIABLE scenario

(* Overlapping one-hour NoAck timers of a group, its subgroup and a        *)
(* channel, with mask changes.                                             *)
NoAcks == INSTANCE AlarmEngine WITH
  Configured <- Unmasked, Events <- MajorOnly, NoAckTargets <- Everything,
  MaskRequests <- NoMasks, BitRequests <- Acking, AckTargets <- NoTargets,
  MaxMono <- 5, LastArrival <- 3

(* Beep thresholds, silence, a shelf and acknowledgement over two alarm    *)
(* severities.                                                             *)
Sounds == INSTANCE AlarmEngine WITH
  Configured <- Unmasked, InitialThreshold <- AlarmsLouder, Events <- LatchEvents,
  MaskTargets <- NoTargets, MaskRequests <- NoMasks, BitRequests <- NoTargets,
  ShelveTargets <- SecondOnly, ShelfDurations <- Quick, AckTargets <- RootOnly,
  BeepTargets <- AreaAndLeaf2, BeepRequests <- Louder, SilenceRequests <- Silences

(* A reload of the same configuration with shelves, latches and timers.    *)
Reloading == INSTANCE AlarmEngine WITH
  Configured <- OneNoAck, NoAckHour <- 1, MaskTargets <- SecondOnly, BitRequests <- Acking,
  RestoreTargets <- SecondOnly, NoAckTargets <- SecondOnly, ShelveTargets <- Leaves,
  ShelfDurations <- Varied, Reloads <- TRUE, ClockJumps <- FALSE, AckTargets <- NoTargets,
  MaxMono <- 2, MaxWall <- 2, LastArrival <- 2

ScenarioInit ==
  /\ scenario \in Scenarios
  /\ \/ scenario = "base" /\ Init
     \/ scenario = "noacks" /\ NoAcks!Init
     \/ scenario = "sounds" /\ Sounds!Init
     \/ scenario = "reload" /\ Reloading!Init

ScenarioNext ==
  /\ UNCHANGED scenario
  /\ \/ scenario = "base" /\ Next
     \/ scenario = "noacks" /\ NoAcks!Next
     \/ scenario = "sounds" /\ Sounds!Next
     \/ scenario = "reload" /\ Reloading!Next

ScenarioSpec == ScenarioInit /\ [][ScenarioNext]_<<vars, scenario>>

MaskScenarios   == {"base", "noacks", "sounds"}
ShelfScenarios  == {"base", "reload"}
=============================================================================
