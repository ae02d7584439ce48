---------------------------- MODULE MCAlarmEngine ----------------------------
(***************************************************************************)
(* Small configurations of the alarm engine for TLC.                       *)
(*                                                                         *)
(*   Two:  facility -- c1                     One:  facility                *)
(*                  \- area -- c2                           \- area -- c1   *)
(***************************************************************************)
EXTENDS AlarmEngine, TLC

CONSTANTS facility, area, c1, c2

TwoChannels       == {c1, c2}
OneChannel        == {c1}
BothGroups        == {facility, area}
TwoAncestors      == (facility :> {}) @@ (area :> {facility})
                       @@ (c1 :> {facility}) @@ (c2 :> {area, facility})
OneAncestors      == (facility :> {}) @@ (area :> {facility}) @@ (c1 :> {area, facility})
TwoDirect         == (facility :> << c1 >>) @@ (area :> << c2 >>)
OneDirect         == (facility :> << >>) @@ (area :> << c1 >>)
AreaBelow         == (facility :> << area >>) @@ (area :> << >>)
TwoOrder          == (facility :> 0) @@ (area :> 1) @@ (c2 :> 2) @@ (c1 :> 3)
OneOrder          == (facility :> 0) @@ (area :> 1) @@ (c1 :> 2)

Unmasked          == [c \in Channels |-> {}]
OneNoAckT         == [c \in Channels |-> IF c = c1 THEN {"AckT"} ELSE {}]
OneNoAck          == [c \in Channels |-> IF c = c2 THEN {"Ack"} ELSE {}]
AlarmsLouder      == [n \in Nodes |-> IF n = area THEN 2 ELSE 1]
MinorBeeps        == [n \in Nodes |-> 1]
NoFilter          == [c \in Channels |-> 0]
ShortFilter       == [c \in Channels |-> 2]
NoCount           == [c \in Channels |-> 0]
OneCount          == [c \in Channels |-> 1]

Ok      == [status |-> 0, severity |-> 0, acks |-> 0, ackt |-> -1]
Minor   == [status |-> 1, severity |-> 1, acks |-> 0, ackt |-> -1]
Major   == [status |-> 1, severity |-> 2, acks |-> 0, ackt |-> -1]
Lost    == [status |-> 2, severity |-> 4, acks |-> 0, ackt |-> -1]

(* What an IOC record reports in global mode.                              *)
GlobalOk     == [Ok EXCEPT !.ackt = 1]
Transient    == [Ok EXCEPT !.ackt = 1, !.acks = 2]
GlobalMajor  == [Major EXCEPT !.ackt = 1, !.acks = 2]
Acked        == [Major EXCEPT !.ackt = 0]

LatchEvents   == {Ok, Minor, Major}
TimedEvents   == {Ok, Major}
FilterEvents  == {Ok, Major, Lost}
GlobalEvents  == {GlobalOk, Transient, GlobalMajor, Acked, Lost}

NoTargets == {}
Leaves    == Channels
Everything == Nodes
RootOnly  == {facility}
SecondOnly == {c2}
AreaAndRoot == {area, facility}
AreaAndLeaf == {area, c1}
AreaAndLeaf2 == {area, c2}
MajorOnly == {Major}
CancelOrNot == {{}, {"Cancel"}}
NoMasks   == {}
OneBit    == {{"Disable"}}
Unmonitored == {"Disable", "Cancel"}
GlobalMasks == {{"Disable"}, {"Cancel"}, {"Cancel", "Disable"}, {"Ack", "AckT"}}
CancelChoice == {{"Cancel"}}
ForceChoices == {{"AckT", "Disable"}}
Hiding    == {"Disable", "Cancel", "Ack"}
Acking    == {"Ack"}
Quick     == {1}
Varied    == {1, 2}
Louder     == {3}
Silences  == {0}
=============================================================================
