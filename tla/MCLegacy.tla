------------------------------- MODULE MCLegacy -------------------------------
(***************************************************************************)
(* Both alarm programs in lock step on the small tree, one scenario of use *)
(* per behaviour, and the legacy program alone where QtALH means to        *)
(* differ, or goes wrong: in global mode, where it acknowledges for the    *)
(* IOC, when connections of cancelled channels change, and when the beep   *)
(* threshold of a group does.                                              *)
(***************************************************************************)
EXTENDS MCAlarmEngine, LegacyAgreement

CONSTANT Scenarios   \* the scenarios that are explored

VARIABLES
  scenario,
  spoiled    \* the groups whose counters need not be right any more

agreementVars == <<vars, alh, forceCurrent>>

NoForce     == << >>
ForcedArea  == area :> [mask |-> {"Disable"}, force |-> 1, reset |-> 0]
EdgedArea   == area :> [mask |-> {"Ack"}, force |-> 1, reset |-> 1]
FirstOnly   == {c1}
Nested      == {facility, area, c2}
OneDisable  == {"Disable"}
HiddenMasks == {{"Cancel", "Disable"}, {"Disable"}}
OutageEvents == {Ok, Lost}
CountSecond == [c \in Channels |-> IF c = c2 THEN 1 ELSE -1]
FilterBoth  == [c \in Channels |-> 1]

(* Mask changes and acknowledgement; NoAck timers of an hour; outages;     *)
(* thresholds and silence; a Force PV with a reset value, and one that     *)
(* resets whenever it is not the force value; count filters.               *)
Masks == INSTANCE LegacyAgreement WITH MaskTargets <- RootOnly, MaskRequests <- NoMasks

NoAcks == INSTANCE LegacyAgreement WITH
  NoAckTargets <- Nested, MaskRequests <- NoMasks, BitRequests <- Acking, Events <- MajorOnly,
  AckTargets <- NoTargets, MaxMono <- 4, LastArrival <- 3

Outages == INSTANCE LegacyAgreement WITH
  Events <- OutageEvents, MaskTargets <- SecondOnly, BitRequests <- OneDisable, MaskRequests <- HiddenMasks

Sounds == INSTANCE LegacyAgreement WITH
  Events <- LatchEvents, MaskTargets <- NoTargets, BeepTargets <- Leaves, BeepRequests <- Louder,
  SilenceRequests <- Silences

Forces == INSTANCE LegacyAgreement WITH
  MaskTargets <- SecondOnly, MaskRequests <- NoMasks, BitRequests <- Acking, AckTargets <- NoTargets,
  SilenceRequests <- Silences, ForcePVs <- ForcedArea

Edges == INSTANCE LegacyAgreement WITH
  MaskTargets <- SecondOnly, MaskRequests <- NoMasks, BitRequests <- OneDisable, AckTargets <- NoTargets,
  ForcePVs <- EdgedArea

Filters == INSTANCE LegacyAgreement WITH
  FilterSeconds <- FilterBoth, FilterCount <- CountSecond, MaskTargets <- SecondOnly,
  MaskRequests <- NoMasks, BitRequests <- Acking, AckTargets <- NoTargets, MaxMono <- 3, LastArrival <- 3

(* The legacy program alone; in global mode one channel acts.              *)
RecordEvents == [stat : {0}, sevr : {0}, acks : {0, 2}, ackt : {FALSE}]
                  \cup [stat : {1}, sevr : {2}, acks : {2}, ackt : BOOLEAN]
AnEvent      == [stat : {0}, sevr : {0}, acks : {0}, ackt : {FALSE}]
                  \cup [stat : {1}, sevr : {1}, acks : {0}, ackt : {FALSE}]
Monitoring   == {"Cancel"}
AreaAndBelow == {facility, area, c2}
OnAndOff     == {1, 2}

Alone(global, events, targets, bits, beeps, levels, cancelled) == INSTANCE LegacyAlarm WITH
  Global <- global, DefaultMask <- Configured, DefaultBeep <- InitialThreshold,
  InputSeconds <- FilterSeconds, InputCount <- FilterCount, Events <- events,
  MaskTargets <- targets, MaskRequests <- NoMasks, BitRequests <- bits, CancelledConnections <- cancelled,
  BeepTargets <- beeps, BeepRequests <- levels, MaxTime <- MaxMono, time <- mono

HiddenInit      == Alone(TRUE, RecordEvents, FirstOnly, Hiding, FirstOnly, Louder, FALSE)!Init
HiddenNext      == Alone(TRUE, RecordEvents, FirstOnly, Hiding, FirstOnly, Louder, FALSE)!Next
                     /\ alh'.channel[c2] = alh.channel[c2]
ConnectionsInit == Alone(FALSE, AnEvent, SecondOnly, Monitoring, NoTargets, Louder, TRUE)!Init
ConnectionsNext == Alone(FALSE, AnEvent, SecondOnly, Monitoring, NoTargets, Louder, TRUE)!Next
ThresholdsInit  == Alone(FALSE, AnEvent, SecondOnly, Acking, AreaAndBelow, OnAndOff, FALSE)!Init
ThresholdsNext  == Alone(FALSE, AnEvent, SecondOnly, Acking, AreaAndBelow, OnAndOff, FALSE)!Next

AloneInit(next) == Init /\ next /\ forceCurrent = << >>

(* Counters that went wrong could do so without end: it happens once.      *)
Spoiling(global) ==
  /\ LET new == Alone(global, AnEvent, NoTargets, NoMasks, NoTargets, Louder, TRUE)!Spoiled(alh, alh')
     IN /\ spoiled = Alh!Unspoiled \/ new = Alh!Unspoiled
        /\ spoiled' = [k \in DOMAIN spoiled |-> spoiled[k] \cup new[k]]
  /\ UNCHANGED <<channelVars, timerVars, threshold, requested, pendingForce, todo, wall, forceCurrent>>

MCInit ==
  /\ scenario \in Scenarios
  /\ spoiled = Alh!Unspoiled
  /\ \/ scenario = "masks"       /\ Masks!AgreementInit
     \/ scenario = "noacks"      /\ NoAcks!AgreementInit
     \/ scenario = "outages"     /\ Outages!AgreementInit
     \/ scenario = "sounds"      /\ Sounds!AgreementInit
     \/ scenario = "forces"      /\ Forces!AgreementInit
     \/ scenario = "edges"       /\ Edges!AgreementInit
     \/ scenario = "filters"     /\ Filters!AgreementInit
     \/ scenario = "hidden"      /\ AloneInit(HiddenInit)
     \/ scenario = "connections" /\ AloneInit(ConnectionsInit)
     \/ scenario = "thresholds"  /\ AloneInit(ThresholdsInit)

MCNext ==
  \/ scenario = "masks" /\ Masks!AgreementNext /\ UNCHANGED <<scenario, spoiled>>
  \/ scenario = "noacks" /\ NoAcks!AgreementNext /\ UNCHANGED <<scenario, spoiled>>
  \/ scenario = "outages" /\ Outages!AgreementNext /\ UNCHANGED <<scenario, spoiled>>
  \/ scenario = "sounds" /\ Sounds!AgreementNext /\ UNCHANGED <<scenario, spoiled>>
  \/ scenario = "forces" /\ Forces!AgreementNext /\ UNCHANGED <<scenario, spoiled>>
  \/ scenario = "edges" /\ Edges!AgreementNext /\ UNCHANGED <<scenario, spoiled>>
  \/ scenario = "filters" /\ Filters!AgreementNext /\ UNCHANGED <<scenario, spoiled>>
  \/ scenario = "hidden" /\ HiddenNext /\ Spoiling(TRUE) /\ UNCHANGED scenario
  \/ scenario = "connections" /\ ConnectionsNext /\ Spoiling(FALSE) /\ UNCHANGED scenario
  \/ scenario = "thresholds" /\ ThresholdsNext /\ Spoiling(FALSE) /\ UNCHANGED scenario

MCSpec == MCInit /\ [][MCNext]_<<agreementVars, scenario, spoiled>>

LockStep == {"masks", "noacks", "outages", "sounds", "forces", "edges", "filters"}
Compared == LockStep \cup {"hidden", "connections", "thresholds"}

(* LegacyAgrees, where the two programs run side by side.                  *)
LockStepAgrees == scenario \in LockStep => LegacyAgrees

(* LegacyTallies: the counters of a group are counts of its channels until *)
(* one of the ways of Spoiled makes them wrong; there is no other way, the *)
(* other counters and the groups that are not above stay right.            *)
LegacyTallies == Alh!CountersCount(spoiled)
=============================================================================
