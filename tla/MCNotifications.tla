---------------------------- MODULE MCNotifications ----------------------------
(***************************************************************************)
(* Instances of NotificationService for TLC.  One unit of time stands for  *)
(* the collection time and the distance of attempts at a destination.  The *)
(* behaviours of a run follow one of three scenarios, which differ in      *)
(* their inputs and in the transport of the only destination.              *)
(***************************************************************************)
EXTENDS NotificationService

CONSTANTS c1, r1, early, late, desk, alpha, beta,
  Scenarios   \* the scenarios that are explored

VARIABLE scenario

Clear    == [initialized |-> TRUE, available |-> TRUE, suppressed |-> FALSE,
             communicationError |-> FALSE, unack |-> 0]
Alarm    == [Clear EXCEPT !.unack = 2]
Shelved  == [Clear EXCEPT !.suppressed = TRUE]
Lost     == [Clear EXCEPT !.available = FALSE]
LostLatched == [Lost EXCEPT !.communicationError = TRUE, !.unack = 4]
StartingMasked == [Unknown EXCEPT !.suppressed = TRUE]

None        == {}
OnlyAlarms  == {Clear, Alarm}
WithShelf   == {Clear, Alarm, Shelved}
AllUpdates  == {Clear, Alarm, Shelved, Lost, LostLatched}
Fresh       == {Unknown}

(* A reload that masks the channel: ResolutionsDue does not hold with it.   *)
FreshMasked == {Unknown, StartingMasked}

OneChannel == {c1}
WholeTree  == {{c1}}
SomeTrees  == {{c1}, {}}
OneRule    == {r1}
TwoStages  == {early, late}
Desk       == {desk}
OneFile    == {alpha}
TwoFiles   == {alpha, beta}

Rule(stages, minimum, cooldown) ==
  [id |-> r1, configuration |-> InitialPolicy.configuration, scope |-> Channels, minimum |-> minimum,
   cooldown |-> cooldown, enabled |-> TRUE, resolution |-> TRUE, stages |-> stages]
Stage(id, delay) == [id |-> id, delay |-> delay, destinations |-> {desk}]

Simple    == Rule(<<Stage(early, 0)>>, 2, 2)
Louder    == Rule(<<Stage(early, 0)>>, 3, 2)
Escalated == Rule(<<Stage(early, 0), Stage(late, 2)>>, 1, 0)
MyRules   == {Simple, Louder, Escalated}
MyDestinations == {[id |-> desk, version |-> v] : v \in 1..2}

Settings(r, v) == [rules |-> {r}, destinations |-> {[id |-> desk, version |-> v]}]
SimpleOnly       == {Settings(Simple, 1)}
EscalatedOnly    == {Settings(Escalated, 1)}
Edits            == {Settings(Simple, 1), Settings(Louder, 1), Settings(Simple, 2)}
SomeFileSettings == {Settings(Simple, 1), Settings(Louder, 1)}

(* The key of a group sorts by rule, delay, stage and destination; a       *)
(* resolution has no delay.                                                *)
KeyOrder == <<<<r1, early, desk>>, <<r1, Resolution, desk>>, <<r1, late, desk>>>>

NoWait == {0}
Waits  == {0, 2}

(* A webhook that fails and asks to wait, an escalation and test messages. *)
Delivering == INSTANCE NotificationService WITH
  SettingsChoices <- EscalatedOnly, Mailers <- None, RetryAfters <- Waits, Tests <- TRUE,
  Updates <- WithShelf, Pauses <- FALSE, LastChange <- 2

(* Settings are edited, reloaded from the configuration and moved to       *)
(* another file, and the channel leaves the tree.                          *)
Editing == INSTANCE NotificationService WITH
  SettingsChoices <- Edits, FileSettings <- SomeFileSettings, ReloadFiles <- TwoFiles,
  Trees <- SomeTrees, Updates <- OnlyAlarms, Pauses <- FALSE, MaxNow <- 3

ScenarioInit ==
  /\ scenario \in Scenarios
  /\ \/ scenario = "episodes" /\ Init
     \/ scenario = "delivery" /\ Delivering!Init
     \/ scenario = "edits" /\ Editing!Init

ScenarioNext ==
  /\ UNCHANGED scenario
  /\ \/ scenario = "episodes" /\ Next
     \/ scenario = "delivery" /\ Delivering!Next
     \/ scenario = "edits" /\ Editing!Next

ScenarioSpec == ScenarioInit /\ [][ScenarioNext]_<<vars, scenario>>

ScenarioFairSpec == ScenarioSpec /\ Fairness

EpisodesOnly == {"episodes"}
AllScenarios == {"episodes", "delivery", "edits"}
=============================================================================
