-------------------------------- MODULE PvAccess --------------------------------
(***************************************************************************)
(* One channel of the pvAccess adapter (class PvAccess,                    *)
(* qtalh/services/pv_access.cc): the alarm stream its observers share, the *)
(* acknowledgement state kept for its name, or an output for severities.   *)
(*                                                                         *)
(* Threads of pvAccess post updates to a bounded inbox at any time.  The   *)
(* Qt thread drains it, a batch at a time; calls of the engine come        *)
(* between the updates of a batch and between the turns of the Qt thread.  *)
(* An inbox that overflows has lost events: the channel is made again.     *)
(* The server and the pvAccess library are modelled as the adapter uses    *)
(* them.                                                                   *)
(***************************************************************************)
EXTENDS Integers, Sequences

CONSTANTS
  Owners,        \* observers of the alarm
  Alarms,        \* what the server shows: pairs of a severity and a message
  Severities,    \* values that are written
  InboxLimit,    \* MaximumPendingUpdates
  MaxPosted,     \* bound on the observations
  MaxOutages,    \* bound on the times the server is lost
  MaxOperations, \* bound on the put operations that writes set up
  MaxRestarts    \* bound on overflows, and on subscriptions

VARIABLES
  server,   \* the server and the library: connection, operations, observations
  inbox,    \* Inbox, and the batch that is drained
  pv,       \* the Channel and its Operations
  writes,   \* its queue of writes and pendingSeverity
  record,   \* Record: alarm, ACKS, ACKT of the name
  view      \* what the observers were told

vars == <<server, inbox, pv, writes, record, view>>

Nothing == [kind |-> "nothing"]
Outage  == [kind |-> "outage"]

Nobody == [live |-> FALSE, delivered |-> FALSE, replay |-> FALSE]

(* add: the channel is created, for a monitor or prepared for an output.   *)
Init == \E prepared \in BOOLEAN :
  /\ server = [up |-> FALSE, fresh |-> FALSE, setup |-> FALSE, writing |-> 0,
               posted |-> 0, failed |-> FALSE, applied |-> 0, outages |-> 0]
  /\ inbox = [updates |-> <<>>, overflow |-> FALSE, scheduled |-> FALSE,
              batch |-> <<>>, draining |-> FALSE]
  /\ pv = [id |-> 1, created |-> TRUE, connected |-> FALSE, cancelled |-> FALSE,
           monitor |-> 0, subscriptions |-> 0, haveLast |-> FALSE, deadline |-> TRUE,
           restarting |-> FALSE, alarm |-> FALSE, prepared |-> prepared]
  /\ writes = [serial |-> IF prepared THEN 1 ELSE 0, operations |-> IF prepared THEN 1 ELSE 0,
               ready |-> FALSE, sending |-> 0, queued |-> 0,
               pending |-> 0, wanted |-> 0, refused |-> FALSE]
  /\ record = [alarm |-> <<0, 0>>, acks |-> 0, ackt |-> TRUE, changed |-> FALSE, acked |-> FALSE]
  /\ view = [last |-> Nothing, observers |-> [o \in Owners |-> Nobody],
             told |-> [o \in Owners |-> Nothing], fed |-> Nothing, seen |-> 0, gap |-> 0]
-----------------------------------------------------------------------------
(***************************************************************************)
(* The threads of pvAccess.                                                *)
(***************************************************************************)
(* post: an update that does not fit takes all that wait with it.          *)
Posted(u) ==
  LET fits == Len(inbox.updates) < InboxLimit
  IN  IF inbox.overflow THEN [inbox EXCEPT !.scheduled = TRUE]
      ELSE [inbox EXCEPT !.updates = IF fits THEN Append(@, u) ELSE <<>>,
                         !.overflow = ~fits, !.scheduled = TRUE]

Update(kind, serial, ok) == [kind |-> kind, id |-> pv.id, serial |-> serial, ok |-> ok]

(* channelStateChange.  The library renews the operations of a channel.    *)
Connect ==
  /\ pv.created /\ ~server.up
  /\ server' = [server EXCEPT !.up = TRUE, !.fresh = pv.monitor # 0, !.setup = writes.serial # 0]
  /\ inbox' = Posted(Update("connected", 0, TRUE))
  /\ UNCHANGED <<pv, writes, record, view>>

(* A write on its way is carried out or lost.                              *)
Lost(s) == [s EXCEPT !.fresh = FALSE, !.setup = FALSE, !.up = FALSE, !.writing = 0]
CutOff(s) == IF s.writing = 0 THEN {s.applied} ELSE {s.applied, s.writing}

Disconnect ==
  /\ server.up /\ server.outages < MaxOutages
  /\ \E a \in CutOff(server) :
       server' = [Lost(server) EXCEPT !.outages = @ + 1, !.applied = a]
  /\ inbox' = Posted(Update("disconnected", 0, TRUE))
  /\ UNCHANGED <<pv, writes, record, view>>

(* monitorEvent: the server sends its state to a new subscription and      *)
(* every change.                                                           *)
Data ==
  /\ server.up /\ pv.monitor # 0 /\ server.posted < MaxPosted
  /\ server' = [server EXCEPT !.fresh = FALSE, !.posted = @ + 1, !.failed = FALSE]
  /\ \E a \in Alarms :
       inbox' = Posted([kind |-> "data", id |-> pv.id, serial |-> pv.monitor, ok |-> TRUE,
                        number |-> server.posted + 1, alarm |-> a])
  /\ UNCHANGED <<pv, writes, record, view>>

(* monitorConnect, unlisten: the subscription is refused or ended.         *)
Fail ==
  /\ server.up /\ pv.monitor # 0 /\ server.fresh
  /\ server' = [server EXCEPT !.fresh = FALSE, !.failed = TRUE]
  /\ inbox' = Posted(Update("failed", pv.monitor, FALSE))
  /\ UNCHANGED <<pv, writes, record, view>>

(* channelPutConnect.                                                      *)
PutConnect ==
  /\ server.up /\ server.setup
  /\ server' = [server EXCEPT !.setup = FALSE]
  /\ \E ok \in BOOLEAN : inbox' = Posted(Update("putReady", writes.serial, ok))
  /\ UNCHANGED <<pv, writes, record, view>>

(* putDone.                                                                *)
PutDone ==
  /\ server.up /\ server.writing # 0
  /\ \E ok \in BOOLEAN :
       /\ server' = [server EXCEPT !.writing = 0,
                                   !.applied = IF ok THEN server.writing ELSE @]
       /\ inbox' = Posted(Update("putDone", writes.serial, ok))
  /\ UNCHANGED <<pv, writes, record, view>>
-----------------------------------------------------------------------------
(***************************************************************************)
(* Telling the observers.                                                  *)
(***************************************************************************)
Value(n) == [kind |-> "value", number |-> n]
Event(n, r) ==
  [kind |-> "value", number |-> n, alarm |-> r.alarm, acks |-> r.acks, ackt |-> r.ackt]

Hears(e) ==
  [o \in Owners |-> IF view.observers[o].live
                    THEN [live |-> TRUE, delivered |-> TRUE, replay |-> FALSE]
                    ELSE view.observers[o]]

(* deliverAlarm: every observer that was not cancelled is told.            *)
Delivered(e) ==
  LET value == e.kind = "value"
  IN  [view EXCEPT !.last = e, !.observers = Hears(e),
                   !.told = [o \in Owners |-> IF view.observers[o].live THEN e ELSE @[o]],
                   !.fed = IF value THEN Value(e.number) ELSE e,
                   !.seen = IF value THEN e.number ELSE @,
                   !.gap = IF ~value /\ view.seen > @ THEN view.seen ELSE @]

Alarmed == pv.alarm /\ ~pv.cancelled
-----------------------------------------------------------------------------
(***************************************************************************)
(* Writes.                                                                 *)
(***************************************************************************)
(* stopPut: a write on its way is carried out or lost.                     *)
Stopped(w) == [w EXCEPT !.serial = 0, !.ready = FALSE, !.sending = 0, !.queued = 0]
Abandon(s) == [s EXCEPT !.setup = FALSE, !.writing = 0]

(* ensurePut.                                                              *)
Ensured(w) ==
  IF ~pv.created \/ w.serial # 0 THEN w
  ELSE [w EXCEPT !.operations = @ + 1, !.serial = w.operations + 1]

(* sendPut: the operation takes one write at a time.                       *)
CanSend(w) == w.sending = 0 /\ w.queued # 0 /\ w.ready
Send(w) ==
  /\ writes' = IF CanSend(w) THEN [w EXCEPT !.sending = w.queued, !.queued = 0] ELSE w
  /\ server' = [server EXCEPT !.writing = IF CanSend(w) THEN w.queued ELSE @,
                              !.setup = @ \/ (w.serial # writes.serial /\ server.up)]

(* put of a severity to a connected channel: only the newest waits.        *)
Put(v, w) == Send([Ensured(w) EXCEPT !.queued = v])

(* put.                                                                    *)
WriteSeverity(v) ==
  LET w == [writes EXCEPT !.wanted = v, !.pending = v]
  IN  /\ pv.prepared /\ writes.operations <= MaxOperations
      /\ IF pv.connected THEN Put(v, w) ELSE writes' = w /\ UNCHANGED server
      /\ UNCHANGED <<inbox, pv, record, view>>

(* put of Acknowledge and AckTransient: the rules of the IOC.              *)
Acknowledge(s) ==
  /\ Alarmed /\ pv.connected
  /\ s >= record.acks /\ record.acks # 0
  /\ record' = [record EXCEPT !.acks = 0, !.changed = TRUE, !.acked = TRUE]
  /\ UNCHANGED <<server, inbox, pv, writes, view>>

AckTransient ==
  /\ Alarmed /\ pv.connected
  /\ record' = [record EXCEPT !.ackt = ~@, !.changed = TRUE,
                              !.acks = IF record.ackt /\ @ > record.alarm[1] THEN record.alarm[1] ELSE @]
  /\ UNCHANGED <<server, inbox, pv, writes, view>>

(* publishRecords, a timer of changeRecord.                                *)
PublishRecords ==
  /\ record.changed /\ ~inbox.draining
  /\ record' = [record EXCEPT !.changed = FALSE]
  /\ view' = IF Alarmed /\ pv.haveLast THEN Delivered(Event(view.last.number, record)) ELSE view
  /\ UNCHANGED <<server, inbox, pv, writes>>

(* checkDeadlines: a write that is not answered is given up.               *)
PutTimeout ==
  /\ ~inbox.draining
  /\ writes.sending # 0 \/ writes.queued # 0
  /\ writes' = [Stopped(writes) EXCEPT !.refused = TRUE]
  /\ \E a \in CutOff(server) : server' = [Abandon(server) EXCEPT !.applied = a]
  /\ UNCHANGED <<inbox, pv, record, view>>

(* checkDeadlines: a PV that does not connect is reported.                 *)
ConnectionTimeout ==
  /\ ~inbox.draining /\ pv.deadline /\ ~pv.cancelled
  /\ pv' = [pv EXCEPT !.deadline = FALSE]
  /\ view' = IF ~pv.connected /\ pv.alarm THEN Delivered(Outage) ELSE view
  /\ UNCHANGED <<server, inbox, writes, record>>
-----------------------------------------------------------------------------
(***************************************************************************)
(* Observers.                                                              *)
(***************************************************************************)
(* subscribe.                                                              *)
Subscribed(p) ==
  IF p.cancelled \/ ~p.created \/ p.monitor # 0 \/ ~p.alarm THEN p
  ELSE [p EXCEPT !.subscriptions = @ + 1, !.monitor = p.subscriptions + 1]

Renewed(p) == [server EXCEPT !.fresh = @ \/ (p.monitor # pv.monitor /\ server.up)]

(* An observer that joins the stream is told later what was told last.     *)
Joined(o) ==
  LET heard == view.observers[o].live /\ view.observers[o].delivered
  IN  [live |-> TRUE, delivered |-> heard, replay |-> ~heard /\ view.last # Nothing]

Monitor(o) ==
  LET p == Subscribed([pv EXCEPT !.alarm = TRUE, !.cancelled = FALSE,
                                 !.deadline = @ \/ ~pv.connected])
  IN  /\ ~pv.prepared /\ p.subscriptions <= MaxRestarts
      /\ pv' = p /\ server' = Renewed(p)
      /\ view' = [view EXCEPT !.observers[o] = Joined(o)]
      /\ UNCHANGED <<inbox, writes, record>>

(* The timer of monitor.                                                   *)
Replay(o) ==
  /\ ~inbox.draining
  /\ view.observers[o].live /\ view.observers[o].replay
  /\ view' = [view EXCEPT !.observers[o] = [live |-> TRUE, delivered |-> TRUE, replay |-> FALSE],
                          !.told[o] = view.last]
  /\ UNCHANGED <<server, inbox, pv, writes, record>>

(* cancel: the last observer to leave ends the subscription.               *)
Cancel(o) ==
  LET alone == \A x \in Owners \ {o} : ~view.observers[x].live
      left  == [view EXCEPT !.observers[o] = Nobody, !.told[o] = Nothing]
  IN  /\ view.observers[o].live
      /\ view' = IF alone
                 THEN [left EXCEPT !.last = Nothing, !.fed = Nothing, !.gap = server.posted]
                 ELSE left
      /\ pv' = IF alone THEN [pv EXCEPT !.cancelled = TRUE, !.haveLast = FALSE, !.monitor = 0]
               ELSE pv
      /\ server' = IF alone THEN [server EXCEPT !.fresh = FALSE] ELSE server
      /\ UNCHANGED <<inbox, writes, record>>
-----------------------------------------------------------------------------
(***************************************************************************)
(* drain.                                                                  *)
(***************************************************************************)
(* connected: what was not confirmed is written again.                     *)
Connected ==
  LET w == IF pv.prepared THEN Ensured(writes) ELSE writes
  IN  /\ pv' = [pv EXCEPT !.connected = TRUE, !.deadline = FALSE]
      /\ IF w.pending # 0 THEN Put(w.pending, [w EXCEPT !.refused = FALSE])
         ELSE Send([w EXCEPT !.refused = FALSE])
      /\ UNCHANGED <<record, view>>

(* disconnected.                                                           *)
Gap(p) ==
  /\ pv' = p
  /\ writes' = Stopped(writes)
  /\ view' = IF Alarmed THEN Delivered(Outage) ELSE view
  /\ UNCHANGED record

Disconnected ==
  /\ Gap([pv EXCEPT !.connected = FALSE, !.haveLast = FALSE])
  /\ \E a \in CutOff(server) : server' = [Abandon(server) EXCEPT !.applied = a]

(* A change of the alarm raises ACKS, see recGblResetAlarms.               *)
Raised(r, a) ==
  IF r.alarm = a THEN r
  ELSE [r EXCEPT !.alarm = a, !.acks = IF ~r.ackt \/ a[1] >= @ THEN a[1] ELSE @, !.acked = FALSE]

(* sample.                                                                 *)
Sample(u) ==
  IF pv.cancelled \/ ~pv.connected THEN UNCHANGED <<pv, record, view>>
  ELSE /\ record' = Raised(record, u.alarm)
       /\ pv' = [pv EXCEPT !.haveLast = TRUE]
       /\ view' = Delivered(Event(u.number, Raised(record, u.alarm)))

MonitorFailed ==
  /\ pv' = [pv EXCEPT !.haveLast = FALSE]
  /\ view' = IF Alarmed THEN Delivered(Outage) ELSE view
  /\ UNCHANGED record

(* A put operation that cannot be set up is released with its writes.      *)
PutReady(ok) ==
  IF ok THEN Send([writes EXCEPT !.ready = TRUE])
  ELSE /\ writes' = [Stopped(writes) EXCEPT !.refused = TRUE]
       /\ server' = Abandon(server)

(* A bug: any confirmation ends what is pending.                           *)
AnsweredWhole(ok) ==
  Send([writes EXCEPT !.sending = 0, !.refused = ~ok, !.pending = IF ok THEN 0 ELSE @])

(* A confirmed severity is not pending any more, unless a newer one is.    *)
Answered(ok) ==
  Send([writes EXCEPT !.sending = 0, !.refused = ~ok,
                      !.pending = IF ok /\ writes.sending = @ THEN 0 ELSE @])

Apply(u) ==
  \/ u.kind = "connected" /\ Connected
  \/ u.kind = "disconnected" /\ Disconnected
  \/ u.kind = "data" /\ Sample(u) /\ UNCHANGED <<server, writes>>
  \/ u.kind = "failed" /\ MonitorFailed /\ UNCHANGED <<server, writes>>
  \/ u.kind = "putReady" /\ PutReady(u.ok) /\ UNCHANGED <<pv, record, view>>
  \/ u.kind = "putDone" /\ Answered(u.ok) /\ UNCHANGED <<pv, record, view>>

(* A bug: a subscription or operation that was replaced is not noticed.    *)
StaleChannel(u) == u.id # pv.id

(* An update of a channel, subscription or operation that was replaced.    *)
Stale(u) ==
  \/ u.id # pv.id
  \/ u.kind \in {"data", "failed"} /\ u.serial # pv.monitor
  \/ u.kind \in {"putReady", "putDone"} /\ u.serial # writes.serial

Handle ==
  /\ inbox.draining /\ inbox.batch # <<>>
  /\ inbox' = [inbox EXCEPT !.batch = Tail(@)]
  /\ LET u == Head(inbox.batch)
     IN  IF Stale(u) THEN UNCHANGED <<server, pv, writes, record, view>> ELSE Apply(u)

(* drain takes what is queued.                                             *)
Drain ==
  /\ inbox.scheduled /\ ~inbox.draining /\ ~inbox.overflow
  /\ inbox' = [inbox EXCEPT !.batch = inbox.updates, !.updates = <<>>, !.draining = TRUE]
  /\ UNCHANGED <<server, pv, writes, record, view>>

(* recoverInbox: an outage is published, then the channel is made anew.  A *)
(* thread may still post for the old one.                                  *)
RecoverInbox ==
  /\ inbox.scheduled /\ ~inbox.draining /\ inbox.overflow
  /\ pv.id <= MaxRestarts
  /\ \E late \in {<<>>, <<Update("connected", 0, TRUE)>>} :
       inbox' = [inbox EXCEPT !.updates = late, !.overflow = FALSE, !.draining = TRUE]
  /\ pv' = [pv EXCEPT !.connected = FALSE, !.haveLast = FALSE, !.id = @ + 1, !.created = FALSE,
                      !.monitor = 0, !.deadline = FALSE, !.restarting = TRUE]
  /\ writes' = Stopped(writes)
  /\ \E a \in CutOff(server) : server' = [Lost(server) EXCEPT !.applied = a]
  /\ view' = [IF Alarmed THEN Delivered(Outage) ELSE view EXCEPT !.last = Nothing]
  /\ UNCHANGED record

(* What was posted during a drain schedules another one.                   *)
Drained ==
  [inbox EXCEPT !.draining = FALSE, !.scheduled = inbox.updates # <<>> \/ inbox.overflow]

EndDrain ==
  /\ inbox.draining /\ inbox.batch = <<>>
  /\ inbox' = Drained
  /\ UNCHANGED <<server, pv, writes, record, view>>

(* resumeChannels.                                                         *)
ResumeChannels ==
  /\ ~inbox.draining /\ pv.restarting
  /\ pv' = Subscribed([pv EXCEPT !.restarting = FALSE, !.created = TRUE, !.deadline = TRUE])
  /\ UNCHANGED <<server, inbox, writes, record, view>>
-----------------------------------------------------------------------------
Next ==
  \/ Connect \/ Disconnect \/ Data \/ Fail \/ PutConnect \/ PutDone
  \/ Drain \/ RecoverInbox \/ Handle \/ EndDrain \/ ResumeChannels
  \/ PublishRecords \/ PutTimeout \/ ConnectionTimeout
  \/ \E o \in Owners : Monitor(o) \/ Cancel(o) \/ Replay(o)
  \/ \E s \in Severities : WriteSeverity(s) \/ Acknowledge(s)
  \/ AckTransient

Spec == Init /\ [][Next]_vars
-----------------------------------------------------------------------------
(***************************************************************************)
(* Properties.                                                             *)
(***************************************************************************)
(* Nothing is on its way to the adapter and none of its timers runs.       *)
Settled ==
  /\ ~inbox.scheduled /\ ~server.fresh
  /\ ~pv.restarting /\ ~(pv.deadline /\ ~pv.cancelled)
  /\ ~record.changed
  /\ \A o \in Owners : ~view.observers[o].replay

(* ViewSettles: once nothing is under way every observer has been told     *)
(* what holds, the acknowledgement state included, whenever it joined and  *)
(* whatever the inbox dropped.                                             *)
ViewSettles ==
  Settled => \A o \in Owners :
    view.observers[o].live =>
      view.told[o] = IF ~server.up \/ server.failed THEN Outage ELSE Event(server.posted, record)

(* SeveritySettles: a severity is forgotten only when the server confirmed *)
(* it, only the newest is kept, and none waits on a connection unless a    *)
(* write to it was refused or not answered.                                *)
SeveritySettles ==
  /\ writes.pending = 0 => server.applied = writes.wanted
  /\ writes.pending # 0 => writes.pending = writes.wanted
  /\ Settled /\ server.up /\ writes.pending # 0 =>
       writes.sending # 0 \/ writes.queued # 0 \/ writes.refused

(* AcksFollowAlarm: ACKS covers the alarm until it is acknowledged, and    *)
(* without ACKT never more than it, as in a record of the IOC.             *)
AcksFollowAlarm ==
  /\ ~record.acked => record.acks >= record.alarm[1]
  /\ ~record.ackt => record.acks <= record.alarm[1]

(* ChannelSettles: neither direction of a channel is left behind, nor the  *)
(* acknowledgement of its name.                                            *)
ChannelSettles == ViewSettles /\ SeveritySettles /\ AcksFollowAlarm

Promise == INSTANCE PvService WITH
  posted <- server.posted, watching <- Alarmed, told <- view.fed,
  seen <- view.seen, gap <- view.gap

(* ImplementsService: the stream the observers share keeps the promise of  *)
(* PvService.                                                              *)
ImplementsService == Promise!Spec
=============================================================================
