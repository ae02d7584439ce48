----------------------------- MODULE LegacyAlarm -----------------------------
(***************************************************************************)
(* Alarm processing of the legacy Motif ALH (alh/alLib.c with the          *)
(* callbacks of acknowledge.c, mask.c, showmask.c, noAck.c, beepSevr.c and *)
(* force.c).  It is the reference QtALH is measured against.               *)
(*                                                                         *)
(* Everything runs in the event loop of Xt, one callback after another,    *)
(* and reports to nobody in between: a callback is one step.  "alh" holds  *)
(* the whole state, and each function of the code is an operator from that *)
(* state to the next one, so that calls compose as they do in C.           *)
(***************************************************************************)
EXTENDS AlarmTree, FiniteSetsExt, SequencesExt

CONSTANTS
  Global, Passive,        \* _global_flag, _passive_flag
  DefaultMask,            \* per channel, the mask of the configuration file
  DefaultBeep,            \* per node, BEEPSEVR
  BeepSeverity,           \* psetup.beepSevr
  InputSeconds, InputCount,  \* per channel, ALARMCOUNTFILTER (0 seconds: none)
  NoAckHour,
  ForcePVs,               \* per node with a Force PV: mask, force and reset value
  (* inputs and bounds of a run of this module alone *)
  Events, MaskTargets, MaskRequests, BitRequests, BeepTargets, BeepRequests,
  CancelledConnections,   \* connections of cancelled channels change, too
  MaxTime

Error == 4                              \* ERROR_STATE
NotConnected == 2                       \* NOT_CONNECTED
Severity == 0 .. Error
MaskBits == {"Cancel", "Disable", "Ack", "AckT", "Log"}

VARIABLES
  alh,    \* channels, groups, thresholds, timers, silence
  time    \* seconds

vars == <<alh, time>>

NoEvent == [stat |-> 0, sevr |-> 0, acks |-> 0, ackt |-> FALSE]

One(b) == IF b THEN 1 ELSE 0

(* The channels below a node in the order the recursive functions visit    *)
(* them: the channels of a group before its subgroups.                     *)
Walk[n \in Nodes] ==
  IF n \in Channels THEN << n >>
  ELSE FlattenSeq([i \in DOMAIN ChildrenOf(n) |-> Walk[ChildrenOf(n)[i]]])

Subtree(n) == {m \in Nodes : m = n \/ n \in Ancestors[m]}

OnEach(Op(_, _), a, n) == FoldLeft(Op, a, Walk[n])
-----------------------------------------------------------------------------
(* Counters of the groups above a channel.                                 *)

HighestSeverity(counts) ==
  LET seen == {i \in 1 .. Error : counts[i] > 0} IN IF seen = {} THEN 0 ELSE Max(seen)

HighestBeepSeverity(counts, beepSevr) ==
  LET seen == {i \in 1 .. Error : i >= beepSevr /\ counts[i] > 0} IN IF seen = {} THEN 0 ELSE Max(seen)

Shift(counts, from, to, n) ==
  [k \in DOMAIN counts |-> counts[k] - n * One(k = from) + n * One(k = to)]

(* A severity that starts at node n reaches group g, or nothing does: each *)
(* node on the way lets pass what is not below its threshold.              *)
Reaching(a, n, sevr, g) ==
  IF sevr >= a.beepSevr[n] /\ \A h \in Between(n, g) : sevr >= a.beepSevr[h] THEN sevr ELSE 0

Sounding(a, n, sevr) ==
  IF sevr >= a.beepSevr[n] /\ \A h \in Ancestors[n] : sevr >= a.beepSevr[h] THEN sevr ELSE 0

Above(a, n, Group(_, _)) ==
  [a EXCEPT !.group = [g \in Groups |-> IF g \in Ancestors[n] THEN Group(g, a.group[g]) ELSE a.group[g]]]

MoveCurSev(a, c, from, to) ==
  Above(a, c, LAMBDA g, d : LET counts == Shift(d.curSev, from, to, 1) IN
                            [d EXCEPT !.curSev = counts, !.curSevr = HighestSeverity(counts)])

(* alSetUnackSevGroup                                                      *)
MoveUnackSev(a, c, from, to) ==
  Above(a, c, LAMBDA g, d : LET counts == Shift(d.unackSev, from, to, 1) IN
                            [d EXCEPT !.unackSev = counts, !.unackSevr = HighestSeverity(counts)])

(* alSetUnackBeepSevGroup, alSetUnackBeepSevCountGroup: "from" and "to"    *)
(* give for each group what reaches it.                                    *)
MoveBeepSev(a, n, from(_), to(_), count) ==
  Above(a, n, LAMBDA g, d : LET counts == Shift(d.unackBeepSev, from(g), to(g), count) IN
                            [d EXCEPT !.unackBeepSev = counts,
                                      !.unackBeepSevr = HighestBeepSeverity(counts, a.beepSevr[g])])

(* alUpdateGroupMask *)
SetBit(a, c, bit, on) ==
  Above([a EXCEPT !.channel[c].mask = IF on THEN @ \cup {bit} ELSE @ \ {bit}], c,
        LAMBDA g, d : [d EXCEPT !.mask[bit] = IF on THEN @ + 1 ELSE Max({0, @ - 1})])

SetUnackSevChan(a, c, sevr) ==
  LET old   == a.channel[c].unack
      moved == MoveUnackSev([a EXCEPT !.channel[c].unack = sevr], c, old, sevr)
  IN IF old = sevr THEN a
     ELSE [MoveBeepSev(moved, c, LAMBDA g : Reaching(a, c, old, g),
                                 LAMBDA g : Reaching(a, c, sevr, g), 1)
           EXCEPT !.newUnackBeepSevr = Sounding(a, c, sevr)]

(* In global mode the IOC clears the acknowledgement.                      *)
AckChan(a, c) ==
  IF Global /\ ~Passive THEN a ELSE SetUnackSevChan(a, c, 0)

SetAckTChan(a, c, ackt) ==
  LET s == a.channel[c]
      settled == IF /\ ~ackt /\ s.unack > s.sevr
                    /\ Global => s.mask \cap {"Disable", "Ack"} = {}
                 THEN SetUnackSevChan(a, c, s.sevr) ELSE a
  IN IF ackt = ("AckT" \in s.mask) THEN a ELSE SetBit(settled, c, "AckT", ackt)

EndSilenceIfLoud(a) ==
  [a EXCEPT !.silenceCurrent = @ /\ a.newUnackBeepSevr < BeepSeverity]
-----------------------------------------------------------------------------
(* alNewAlarmProcess; e.ackt is the bit of the mask, the opposite of ACKT. *)

(* alSaveAlarmEvent: what the channel was when its connection went down.   *)
SaveAlarmEvent(a, c, e) ==
  LET s == a.channel[c] IN
  IF e.stat = NotConnected /\ e.sevr = Error
  THEN [a EXCEPT !.channel[c].saved =
          [stat |-> s.stat, sevr |-> s.sevr, acks |-> s.unack, ackt |-> "AckT" \in s.mask]]
  ELSE a

FromRecord(a, c, e) ==
  LET s == a.channel[c] IN
  SetAckTChan(IF s.mask \cap {"Disable", "Ack"} = {} THEN SetUnackSevChan(a, c, e.acks)
              ELSE [a EXCEPT !.channel[c].unack = e.acks],
              c, e.ackt)

(* A bug: the latch only rises.                                            *)
LatchRising(a, c, e, mask) ==
  IF ~Global /\ e.sevr >= a.channel[c].unack THEN SetUnackSevChan(a, c, e.sevr) ELSE a

Latch(a, c, e, mask) ==
  IF ~Global /\ (e.sevr >= a.channel[c].unack \/ "AckT" \in mask)
  THEN SetUnackSevChan(a, c, e.sevr) ELSE a

(* Status and severity become those of the event; groups hear of it unless *)
(* the channel is disabled, operators unless it is not to be acknowledged. *)
Process(a, c, e) ==
  LET s      == a.channel[c]
      moved  == [a EXCEPT !.channel[c].stat = e.stat, !.channel[c].sevr = e.sevr]
      summed == MoveCurSev(moved, c, s.sevr, e.sevr)
  IN IF s.stat = e.stat /\ s.sevr = e.sevr THEN a
     ELSE IF "Disable" \in s.mask THEN moved
     ELSE IF "Ack" \in s.mask THEN summed
     ELSE EndSilenceIfLoud(Latch(summed, c, e, s.mask))

NewAlarmProcess(a, c, e) ==
  LET begun == [SaveAlarmEvent(a, c, e) EXCEPT !.newUnackBeepSevr = 0]
  IN Process(IF Global THEN FromRecord(begun, c, e) ELSE begun, c, e)
-----------------------------------------------------------------------------
(* The count filter (alNewAlarmFilter).                                    *)

(* alAlarmFilterReset *)
FilterReset(a, c) ==
  [a EXCEPT !.channel[c].timeout = 0, !.channel[c].countIndex = 0,
            !.channel[c].history = [i \in DOMAIN @ |-> 0]]

StopTimeout(a, c) == [a EXCEPT !.channel[c].timeout = 0]

StartTimeout(a, c, t) ==
  [a EXCEPT !.channel[c].timeout = IF @ = 0 THEN t + InputSeconds[c] ELSE @]

(* The four cases by what is shown and what is new.                        *)
FilterCase(a, c, e, t) ==
  LET s == a.channel[c] IN
  CASE s.sevr = 0 /\ e.sevr = 0 -> StopTimeout(IF e.acks = 0 THEN NewAlarmProcess(a, c, e) ELSE a, c)
    [] s.sevr # 0 /\ e.sevr # 0 -> StopTimeout(NewAlarmProcess(a, c, e), c)
    [] s.sevr = 0 /\ e.sevr # 0 -> StartTimeout(a, c, t)
    [] s.sevr # 0 /\ e.sevr = 0 ->
         IF InputCount[c] = -1 THEN NewAlarmProcess(FilterReset(a, c), c, e)
         ELSE StartTimeout(NewAlarmProcess(a, c, [e EXCEPT !.stat = s.stat, !.sevr = s.sevr]), c, t)

(* The ring of the last changes; when the oldest is recent the event       *)
(* passes.                                                                 *)
CountChange(a, c, e, t) ==
  LET s == a.channel[c]
      i == s.countIndex + 1
  IN IF s.history[i] # 0 /\ t - s.history[i] <= InputSeconds[c]
     THEN NewAlarmProcess(FilterReset(a, c), c, e)
     ELSE [a EXCEPT !.channel[c].history[i] = t,
                    !.channel[c].countIndex = (@ + 1) % (2 * InputCount[c])]

CountIf(changed, a, c, e, t) ==
  IF InputCount[c] > 0 /\ changed THEN CountChange(a, c, e, t) ELSE a

NewAlarmFilter(a, c, e, t) ==
  LET s       == a.channel[c]
      stored  == [a EXCEPT !.channel[c].filtered = e]
      changed == (s.filtered.sevr = 0) # (e.sevr = 0)
  IN IF s.stat = 0 /\ s.sevr = Error THEN NewAlarmProcess(stored, c, e)
     ELSE CountIf(changed, FilterCase(stored, c, e, t), c, e, t)

NewEvent(a, c, e, t) ==
  IF InputSeconds[c] # 0 THEN NewAlarmFilter(a, c, e, t) ELSE NewAlarmProcess(a, c, e)

(* alarmCountFilter_callback *)
FilterTimeout(a, c) ==
  NewAlarmProcess(FilterReset(a, c), c, a.channel[c].filtered)

(* alCaChannelConnectionEvent, and alSetNotConnected for what did not      *)
(* connect at startup.                                                     *)
ConnectionDown(a, c, t) ==
  NewEvent([a EXCEPT !.connected = @ \ {c}], c,
           [stat |-> NotConnected, sevr |-> Error, acks |-> 0, ackt |-> "AckT" \in a.channel[c].mask], t)

(* A channel that comes back is in its saved state until its first event   *)
(* (alConnectEvent).                                                       *)
ConnectionUp(a, c, t) ==
  LET s == a.channel[c]
      b == [a EXCEPT !.connected = @ \cup {c}]
  IN IF s.stat = 0 /\ s.sevr = Error THEN b ELSE NewEvent(b, c, s.saved, t)
-----------------------------------------------------------------------------
(* alChangeChanMask, bit by bit in the order of the code.                  *)

(* A channel whose monitor is cancelled shows no alarm.                    *)
ClearAlarm(a, c) ==
  LET s == a.channel[c]
      acknowledged == SetUnackSevChan(a, c, 0)
  IN IF s.sevr = 0 THEN acknowledged
     ELSE MoveCurSev([acknowledged EXCEPT !.channel[c].sevr = 0, !.channel[c].stat = 0], c, s.sevr, 0)

(* The alarm that is kept is processed as a new one.                       *)
Replay(a, c, acks) ==
  LET s == a.channel[c] IN
  NewAlarmProcess([a EXCEPT !.channel[c].sevr = 0], c,
                  [stat |-> s.stat, sevr |-> s.sevr, acks |-> acks, ackt |-> "AckT" \in s.mask])

ChangeCancel(a, c, m) ==
  LET on == "Cancel" \in m
      b  == SetBit(a, c, "Cancel", on)
      s  == b.channel[c]
  IN IF on = ("Cancel" \in a.channel[c].mask) THEN a
     ELSE IF "Disable" \in s.mask THEN b
     ELSE IF on THEN ClearAlarm(b, c)
     ELSE IF s.sevr > 0 THEN Replay(b, c, s.unack) ELSE b

(* A bug: the groups keep it.                                              *)
HideUnackOfChannel(a, c) == IF Global THEN a ELSE [a EXCEPT !.channel[c].unack = 0]

(* The groups forget the acknowledgement; in global mode the channel does  *)
(* not.                                                                    *)
HideUnack(a, c) ==
  LET kept == a.channel[c].unack IN
  IF Global THEN [SetUnackSevChan(a, c, 0) EXCEPT !.channel[c].unack = kept]
  ELSE SetUnackSevChan(a, c, 0)

AutoAck(a, c) ==
  IF Global /\ a.channel[c].unack > 0
  THEN [AckChan(a, c) EXCEPT !.channel[c].unack = 0] ELSE a

ChangeDisable(a, c, m) ==
  LET on == "Disable" \in m
      b  == SetBit(a, c, "Disable", on)
      s  == b.channel[c]
  IN IF on = ("Disable" \in a.channel[c].mask) THEN a
     ELSE IF "Cancel" \in m THEN b
     ELSE IF on THEN MoveCurSev(HideUnack(b, c), c, s.sevr, 0)
     ELSE IF s.sevr > 0 THEN Replay([b EXCEPT !.channel[c].unack = 0], c, s.unack)
     ELSE AutoAck(b, c)

(* What is outstanding again when NoAck goes.                              *)
ShowUnack(a, c) ==
  LET s == a.channel[c] IN
  EndSilenceIfLoud(IF Global THEN SetUnackSevChan([a EXCEPT !.channel[c].unack = 0], c, s.unack)
                   ELSE SetUnackSevChan(a, c, s.sevr))

ChangeAck(a, c, m) ==
  LET on == "Ack" \in m
      b  == SetBit(a, c, "Ack", on)
  IN IF on = ("Ack" \in a.channel[c].mask) THEN a
     ELSE IF on THEN HideUnack(b, c)
     ELSE IF m \cap {"Cancel", "Disable"} # {} THEN b
     ELSE IF b.channel[c].sevr > 0 THEN ShowUnack(b, c) ELSE AutoAck(b, c)

ChangeBit(a, c, m, bit) ==
  IF (bit \in m) = (bit \in a.channel[c].mask) THEN a ELSE SetBit(a, c, bit, bit \in m)

ChangeChanMask(a, c, m) ==
  ChangeBit(ChangeBit(ChangeAck(ChangeDisable(ChangeCancel(a, c, m), c, m), c, m),
                      c, m, "AckT"),
            c, m, "Log")

ChangeGroupMask(a, n, m) == OnEach(LAMBDA b, c : ChangeChanMask(b, c, m), a, n)

ResetGroupMask(a, n) == OnEach(LAMBDA b, c : ChangeChanMask(b, c, DefaultMask[c]), a, n)

(* alForceChanMask, alForceGroupMask: one bit, to on, off or the default.  *)
ForceMask(a, n, bit, op) ==
  OnEach(LAMBDA b, c :
           LET on == op = "on" \/ (op = "reset" /\ bit \in DefaultMask[c])
               mask == b.channel[c].mask
           IN ChangeChanMask(b, c, IF on THEN mask \cup {bit} ELSE mask \ {bit}),
         a, n)
-----------------------------------------------------------------------------
(* NoAck for one hour (noAck.c).                                           *)

RemoveNoAckTimers(a, n) ==
  [a EXCEPT !.noAckTimer = [m \in Nodes |-> IF m \in Subtree(n) THEN 0 ELSE @[m]]]

(* alResetNoAckGroup passes over what has a timer of its own.              *)
OwnTimer(a, n, c) ==
  \E m \in {c} \cup Between(c, n) : m # n /\ a.noAckTimer[m] # 0

ResetNoAck(a, n) ==
  OnEach(LAMBDA b, c :
           IF OwnTimer(a, n, c) THEN b
           ELSE ChangeChanMask(b, c, (b.channel[c].mask \ {"Ack"}) \cup (DefaultMask[c] \cap {"Ack"})),
         a, n)

ActivateNoAck(a, n, on, t) ==
  IF on THEN [ForceMask(RemoveNoAckTimers(a, n), n, "Ack", "on") EXCEPT !.noAckTimer[n] = t + NoAckHour]
  ELSE ResetNoAck([a EXCEPT !.noAckTimer[n] = 0], n)

NoAckTimeout(a, n) == ResetNoAck([a EXCEPT !.noAckTimer[n] = 0], n)

(* Acknowledgement (ackGroup enters a group while it has something).       *)
Acknowledge(a, n) ==
  IF Passive THEN a
  ELSE OnEach(LAMBDA b, c : IF \A g \in Groups \cap Subtree(n) :
                                 g \in Ancestors[c] => a.group[g].unackSevr # 0
                            THEN AckChan(b, c) ELSE b,
              a, n)

(* Beep thresholds.                                                        *)
SetBeepSevrChan(a, c, sevr) ==
  LET b == [a EXCEPT !.beepSevr[c] = sevr]
      s == a.channel[c].unack
      from(g) == Reaching(a, c, s, g)
      to(g)   == Reaching(b, c, s, g)
  IN IF s = 0 \/ (s >= a.beepSevr[c]) = (s >= sevr) THEN b
     ELSE [MoveBeepSev(b, c, from, to, 1) EXCEPT !.newUnackBeepSevr = Sounding(b, c, s)]

(* The counters of the groups above move by unackSev.                      *)
SetBeepSevrGroup(a, g, sevr) ==
  LET old == a.beepSevr[g]
      b   == [a EXCEPT !.beepSevr[g] = sevr,
                       !.group[g].unackBeepSevr = HighestBeepSeverity(a.group[g].unackBeepSev, sevr)]
      Step(i, d) == [MoveBeepSev(d, g, LAMBDA h : Reaching(a, g, i, h), LAMBDA h : Reaching(b, g, i, h),
                                 a.group[g].unackSev[i])
                     EXCEPT !.newUnackBeepSevr = IF Ancestors[g] = {} THEN @ ELSE Sounding(b, g, i)]
  IN FoldSet(Step, b, {i \in Severity : Min({old, sevr}) <= i /\ i < Max({old, sevr}) /\ i # 0})

SetBeepSevr(a, n, sevr) ==
  IF n \in Channels THEN SetBeepSevrChan(a, n, sevr) ELSE SetBeepSevrGroup(a, n, sevr)

(* The callbacks of the mask dialogs remove NoAck timers and end Silence   *)
(* Current.                                                                *)
EndSilence(a) == [a EXCEPT !.silenceCurrent = FALSE]

MaskCallback(a, n, bit, op) ==
  EndSilence(ForceMask(IF bit = "Ack" THEN RemoveNoAckTimers(a, n) ELSE a, n, bit, op))

ForceMaskApply(a, n, m) == EndSilence(ChangeGroupMask(RemoveNoAckTimers(a, n), n, m))
ForceMaskReset(a, n)    == EndSilence(ResetGroupMask(RemoveNoAckTimers(a, n), n))

SilenceCurrent(a) == [a EXCEPT !.silenceCurrent = ~@]

(* forcePVNewValueEvent, forcePVCalcPerform: the mask is forced when the   *)
(* value becomes the force value, and reset when it becomes the reset      *)
(* value or, when the two are equal, ceases to be the force value.         *)
Unread == -999

ForcePVValue(a, n, value) ==
  LET pv  == ForcePVs[n]
      was == a.force[n]
      b   == [a EXCEPT !.force[n] = value]
      leaves  == pv.force = pv.reset /\ was \in {Unread, pv.force}
      reaches == pv.force # pv.reset /\ value = pv.reset
  IN IF was = value THEN a
     ELSE IF value = pv.force THEN ChangeGroupMask(b, n, pv.mask)
     ELSE IF leaves \/ reaches THEN ResetGroupMask(b, n) ELSE b
-----------------------------------------------------------------------------
(* GetChannelLine: a channel waits for its first event.                    *)
FreshChannel(c) ==
  [sevr |-> IF DefaultMask[c] \cap {"Cancel", "Disable"} # {} THEN 0 ELSE Error,
   stat |-> 0, unack |-> 0, mask |-> DefaultMask[c], saved |-> [NoEvent EXCEPT !.ackt = TRUE],
   filtered |-> [NoEvent EXCEPT !.sevr = Error], timeout |-> 0, countIndex |-> 0,
   history |-> [i \in 1 .. 2 * Max({0, InputCount[c]}) |-> 0]]

FreshGroup(g) ==
  LET curSev == [k \in Severity |-> Cardinality({c \in Below(g) : FreshChannel(c).sevr = k})]
      idle   == [k \in Severity |-> IF k = 0 THEN Cardinality(Below(g)) ELSE 0]
  IN [curSev |-> curSev, curSevr |-> HighestSeverity(curSev),
      unackSev |-> idle, unackSevr |-> 0, unackBeepSev |-> idle, unackBeepSevr |-> 0,
      mask |-> [b \in MaskBits |-> Cardinality({c \in Below(g) : b \in DefaultMask[c]})]]

Fresh ==
  [channel |-> [c \in Channels |-> FreshChannel(c)], group |-> [g \in Groups |-> FreshGroup(g)],
   beepSevr |-> DefaultBeep, noAckTimer |-> [n \in Nodes |-> 0], force |-> [n \in DOMAIN ForcePVs |-> Unread],
   newUnackBeepSevr |-> 0, silenceCurrent |-> FALSE, connected |-> {}]

(* At startup some channels connect in time; to the others happens what    *)
(* alSetNotConnected does.                                                 *)
Started(reached) ==
  FoldSet(LAMBDA c, a : IF c \in reached THEN ConnectionUp(a, c, 1) ELSE ConnectionDown(a, c, 1),
          Fresh, {c \in Channels : "Cancel" \in DefaultMask[c] => CancelledConnections})

Init ==
  /\ \E reached \in SUBSET Channels : alh = Started(reached)
  /\ time = 1

Do(next) == alh' = next /\ UNCHANGED time

Monitored(c) == c \in alh.connected /\ "Cancel" \notin alh.channel[c].mask

MonitorEvent(c, e) == Monitored(c) /\ Do(NewEvent(alh, c, e, time))

(* The connection handler stays when the monitor is cancelled.             *)
Heeds(c) == "Cancel" \in alh.channel[c].mask => CancelledConnections

Connect(c) == c \notin alh.connected /\ Heeds(c) /\ Do(ConnectionUp(alh, c, time))

LoseConnection(c) == c \in alh.connected /\ Heeds(c) /\ Do(ConnectionDown(alh, c, time))

(* Xt calls back when the time has come.                                   *)
TimerFires ==
  \/ \E c \in Channels : /\ alh.channel[c].timeout \in 1 .. time
                         /\ Do(FilterTimeout(alh, c))
  \/ \E n \in Nodes : /\ alh.noAckTimer[n] \in 1 .. time
                      /\ Do(NoAckTimeout(alh, n))

Operate(n) ==
  \/ \E b \in BitRequests, op \in {"on", "off", "reset"} : Do(MaskCallback(alh, n, b, op))
  \/ \E m \in MaskRequests : Do(ForceMaskApply(alh, n, m))
  \/ Do(ForceMaskReset(alh, n))

TimePasses == time < MaxTime /\ time' = time + 1 /\ UNCHANGED alh

Next ==
  \/ \E c \in Channels, e \in Events : MonitorEvent(c, e)
  \/ \E c \in Channels : Connect(c) \/ LoseConnection(c)
  \/ TimerFires
  \/ \E n \in MaskTargets : Operate(n)
  \/ \E n \in MaskTargets : Do(Acknowledge(alh, n))
  \/ \E n \in BeepTargets, sevr \in BeepRequests : Do(SetBeepSevr(alh, n, sevr))
  \/ TimePasses

Spec == Init /\ [][Next]_vars
-----------------------------------------------------------------------------
(* The counters of a group are meant to be counts of the channels below it *)
(* (alLib.h: channels of different severity, of unacknowledged severity,   *)
(* of unacknowledged severity at or above the beep severity).  Each        *)
(* callback moves them by one where it thinks a channel was counted.       *)
Counted(c) ==
  LET s == alh.channel[c] IN IF s.mask \cap {"Disable", "Cancel"} # {} THEN 0 ELSE s.sevr

Outstanding(c) ==
  LET s == alh.channel[c] IN IF s.mask \cap {"Disable", "Ack"} # {} THEN 0 ELSE s.unack

HowMany(g, Value(_), k) == Cardinality({c \in Below(g) : Value(c) = k})

(* The groups whose counters need not be right after a callback led from   *)
(* state a to state b:                                                     *)
(* - the connection of a cancelled channel below changes, and is counted;  *)
(* - in global mode, where a channel keeps what its groups no longer count *)
(*   as unacknowledged, it is hidden in a second way and subtracted again, *)
(*   or moved with the channel's beep threshold;                           *)
(* - the beep threshold of a group below changes, and the groups above     *)
(*   take what is unacknowledged in it for what sounds.                    *)
AboveAny(nodes) == UNION {Ancestors[n] : n \in nodes}

Spoiled(a, b) ==
  LET Off(s)      == s.mask \cap {"Disable", "Ack", "Cancel"}
      connection  == {c \in Channels : /\ "Cancel" \in a.channel[c].mask
                                       /\ (c \in a.connected) # (c \in b.connected)}
      hiddenAgain == {c \in Channels : /\ Global /\ a.channel[c].unack > 0
                                       /\ ~(Off(b.channel[c]) \subseteq Off(a.channel[c]))
                                       /\ Cardinality(Off(b.channel[c])) > 1}
      threshold   == {n \in Nodes : /\ a.beepSevr[n] # b.beepSevr[n]
                                    /\ n \in Channels => Global /\ Off(a.channel[n]) # {}}
  IN [curSev |-> AboveAny(connection), unackSev |-> AboveAny(hiddenAgain),
      unackBeepSev |-> AboveAny(hiddenAgain \cup threshold)]

Unspoiled == [curSev |-> {}, unackSev |-> {}, unackBeepSev |-> {}]

CountersCount(spoiled) ==
  \A g \in Groups, k \in Severity : LET d == alh.group[g] IN
    /\ g \in spoiled.curSev \/ d.curSev[k] = HowMany(g, Counted, k)
    /\ g \in spoiled.unackSev \/ d.unackSev[k] = HowMany(g, Outstanding, k)
    /\ g \in spoiled.unackBeepSev
         \/ d.unackBeepSev[k] = HowMany(g, LAMBDA c : Reaching(alh, c, Outstanding(c), g), k)

(* CountersExact: what alLib.h:132-134 says of the counters.  It fails in  *)
(* each of the ways above.                                                 *)
CountersExact == CountersCount(Unspoiled)
=============================================================================
