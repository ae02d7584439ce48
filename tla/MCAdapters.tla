------------------------------ MODULE MCAdapters ------------------------------
(***************************************************************************)
(* Instances for TLC of what the engine has its PVs do.  A behaviour is    *)
(* one of a channel of Channel Access or, with the prefix that PvRouter    *)
(* looks for, of pvAccess; of the rows that share the ACKT of a record; or *)
(* of the ACKPV action of a channel.                                       *)
(***************************************************************************)
EXTENDS ChannelAccess

CONSTANTS o1, o2, r1, r2,
  Owners, Alarms, InboxLimit, MaxOutages, MaxOperations, MaxRestarts,
  Rows, MaxRequests, MaxOthers, MaxBreaks,
  Directives, MaxAcks

VARIABLES
  part,
  server, inbox, pv, writes, record, view,
  ioc, feed, row, ackt, readOnly, history,
  directive, removed, action, nextAction, listed, ledger

(* A severity of the server is a number, as a severity that is written is. *)
ASSUME AlarmsAssumption == \A a \in Alarms : a[1] \in Nat

TwoOwners     == {o1, o2}
SomeAlarms    == {<<1, 0>>, <<2, 1>>}
TwoSeverities == {1, 2}
TwoRows       == {r1, r2}
TwoDirectives == {1, 2}

pvaVars  == <<server, inbox, pv, writes, record, view>>
acktVars == <<ioc, feed, row, ackt, readOnly, history>>
ackValueVars == <<directive, removed, action, nextAction, listed, ledger>>

Pva       == INSTANCE PvAccessProofs
Transient == INSTANCE AckTransientProofs
AckPv     == INSTANCE AckValue

(* route; the parts that do not take part start in one state.              *)
RouterInit ==
  /\ part \in {"ca", "pva", "ackt", "ackpv"}
  /\ Init /\ Pva!Init /\ Transient!Init /\ AckPv!Init
  /\ part # "ca" => ~channel.alarm
  /\ part # "pva" => ~pv.prepared
  /\ part # "ackt" => ioc.bit = 0 /\ (\A r \in Rows : row[r].mask = 0) /\ ~readOnly
  /\ part # "ackpv" => directive = 1

RouterNext ==
  /\ UNCHANGED part
  /\ \/ /\ part = "ca" /\ Next
        /\ UNCHANGED <<pvaVars, acktVars, ackValueVars>>
     \/ /\ part = "pva" /\ Pva!Next
        /\ UNCHANGED <<vars, acktVars, ackValueVars>>
     \/ /\ part = "ackt" /\ Transient!Next
        /\ UNCHANGED <<vars, pvaVars, ackValueVars>>
     \/ /\ part = "ackpv" /\ AckPv!Next
        /\ UNCHANGED <<vars, pvaVars, acktVars>>

RouterSpec == RouterInit /\ [][RouterNext]_<<part, vars, pvaVars, acktVars, ackValueVars>>

PvaChannelSettles    == Pva!ChannelSettles
PvaImplementsService == Pva!ImplementsService
RowsFollowRequests   == Transient!RowsFollowRequests
RetriesAccounted     == AckPv!RetriesAccounted
=============================================================================
