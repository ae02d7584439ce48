--------------------------- MODULE LegacyAgreement ---------------------------
(***************************************************************************)
(* The engine of QtALH and the alarm processing of the legacy ALH in lock  *)
(* step: the same configuration, the same events, operator calls, timers   *)
(* and Force PV values go to both, in local mode.  The compatibility       *)
(* inventory (docs/qtalh-compatibility.md) makes the runtime source of the *)
(* legacy program the reference.                                           *)
(*                                                                         *)
(* A call of the engine takes several steps, that of the legacy program    *)
(* one: it is taken with the first, save that both treat an event or a     *)
(* timer when the engine gets to it.  Shelves are QtALH's own.             *)
(***************************************************************************)
EXTENDS AlarmEngine

CONSTANT ForcePVs   \* per node with a Force PV: mask, force and reset value

VARIABLES
  alh,           \* the legacy program
  forceCurrent   \* State::forceCurrent of the nodes with a Force PV

Alh == INSTANCE LegacyAlarm WITH
  DefaultMask <- Configured, DefaultBeep <- InitialThreshold,
  InputSeconds <- FilterSeconds, InputCount <- FilterCount,
  CancelledConnections <- FALSE, MaxTime <- MaxMono, time <- mono

IsOutage(e) == e.severity = Error /\ e.status = Alh!NotConnected

AsLegacy(e) == [stat |-> e.status, sevr |-> e.severity, acks |-> e.acks, ackt |-> FALSE]

(* What an event of the engine is to the legacy program: a connection that *)
(* goes down, or an event, before which the connection came up.  Cancelled *)
(* channels have no monitor in either; that their connections still count  *)
(* in the legacy program is left out here.                                 *)
Hears(a, c, e) ==
  IF "Cancel" \in a.channel[c].mask THEN a
  ELSE IF IsOutage(e) THEN IF c \in a.connected THEN Alh!ConnectionDown(a, c, mono) ELSE a
  ELSE Alh!NewEvent(IF c \in a.connected THEN a ELSE Alh!ConnectionUp(a, c, mono), c, AsLegacy(e), mono)

TimerOf(due) ==
  IF due = {} \/ FirstOf(due) \notin ExpiredTimers THEN alh
  ELSE LET t == FirstOf(due) IN
       IF t.filter THEN Alh!FilterTimeout(alh, t.node) ELSE Alh!NoAckTimeout(alh, t.node)

(* Engine::forceValue                                                      *)
ForceValue(n, value) ==
  LET pv  == ForcePVs[n]
      was == forceCurrent[n]
      ne  == pv.force = pv.reset
      resets == \/ ne /\ was \in {Alh!Unread, pv.force} /\ value # pv.force
                \/ ~ne /\ value = pv.reset
  IN /\ Idle /\ mono <= LastArrival
     /\ forceCurrent' = [forceCurrent EXCEPT ![n] = value]
     /\ todo' = IF value = was THEN todo
                ELSE IF value = pv.force THEN << MaskTask(n, pv.mask, MaskBits, {}, TRUE) >>
                ELSE IF resets THEN << MaskTask(n, {}, {}, MaskBits, TRUE) >>
                ELSE todo
     /\ UNCHANGED <<channelVars, timerVars, threshold, requested, pendingForce, clocks>>
     /\ alh' = Alh!ForcePVValue(alh, n, value)

AgreementInit ==
  /\ Init
  /\ alh = Alh!Started(Channels)
  /\ forceCurrent = [n \in DOMAIN ForcePVs |-> Alh!Unread]

(* Steps of the engine that the legacy program has taken or will take.  A  *)
(* channel that waits for its first event keeps its connection: the legacy *)
(* program remembers the waiting as an alarm, and raises it again when the *)
(* channel comes back.                                                     *)
EngineAlone ==
  /\ \/ \E c \in Channels, e \in Events : /\ IsOutage(e) => ~ch[c].awaiting
                                         /\ MonitorEvent(c, e)
     \/ CountEdge \/ ScanDeadlines \/ ExpireShelves
     \/ ApplyMasks \/ EndSilenceCurrent \/ VisitNoAck \/ ArmNoAck \/ VisitAcknowledge
     \/ Tick \/ TimePasses
  /\ UNCHANGED alh

Together ==
  \/ HandleEvent /\ alh' = Hears(alh, Head(todo).node, Head(todo).event)
  \/ DispatchTimer /\ alh' = TimerOf(Head(todo).due)
  \/ \E n \in MaskTargets, m \in MaskRequests : SetMask(n, m) /\ alh' = Alh!ForceMaskApply(alh, n, m)
  \/ \E n \in MaskTargets : ResetMask(n) /\ alh' = Alh!ForceMaskReset(alh, n)
  \/ \E n \in MaskTargets, b \in BitRequests, op \in {"on", "off", "reset"} :
       /\ OperatorMask(n, MaskTask(n, IF op = "on" THEN {b} ELSE {}, IF op = "off" THEN {b} ELSE {},
                                   IF op = "reset" THEN {b} ELSE {}, FALSE),
                       b = "Ack")
       /\ alh' = Alh!MaskCallback(alh, n, b, op)
  \/ \E n \in NoAckTargets, on \in BOOLEAN : NoAck(n, on) /\ alh' = Alh!ActivateNoAck(alh, n, on, mono)
  \/ \E n \in AckTargets : Acknowledge(n) /\ alh' = Alh!Acknowledge(alh, n)
  \/ \E n \in BeepTargets, v \in BeepRequests : SetBeep(n, v) /\ alh' = Alh!SetBeepSevr(alh, n, v)
  \/ /\ SilenceRequests # {} /\ Idle /\ mono <= LastArrival
     /\ silence' = [silence EXCEPT !.current = ~@]
     /\ alh' = Alh!SilenceCurrent(alh)
     /\ UNCHANGED <<ch, grp, output, timerVars, threshold, requested, pendingForce, todo, clocks>>

AgreementNext ==
  \/ (EngineAlone \/ Together) /\ UNCHANGED forceCurrent
  \/ \E n \in DOMAIN ForcePVs : \E value \in {0, 1, 2} : ForceValue(n, value)

AgreementSpec == AgreementInit /\ [][AgreementNext]_<<vars, alh, forceCurrent>>
-----------------------------------------------------------------------------
(* Between calls the two programs show the same: the alarms, latches and   *)
(* masks of the channels, the summaries of the groups, the timers, the     *)
(* thresholds and whether the current alarms are silenced.                 *)
LegacyAgrees ==
  Idle =>
    /\ \A c \in Channels : LET s == alh.channel[c] IN
         <<ch[c].severity, ch[c].status, ch[c].unack, ch[c].mask, ch[c].filterUntil>>
           = <<s.sevr, s.stat, s.unack, s.mask, s.timeout>>
    /\ \A g \in Groups : LET d == alh.group[g] IN
         <<grp[g].all.severity, grp[g].all.unack, grp[g].all.beep, grp[g].maskCounts>>
           = <<d.curSevr, d.unackSevr, d.unackBeepSevr, d.mask>>
    /\ noAckUntil = alh.noAckTimer
    /\ threshold = alh.beepSevr
    /\ silence.current = alh.silenceCurrent
=============================================================================
