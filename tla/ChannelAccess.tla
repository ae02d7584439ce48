----------------------------- MODULE ChannelAccess -----------------------------
(***************************************************************************)
(* One channel of the Channel Access adapter (class ChannelAccess,         *)
(* qtalh/services/channel_access.cc): an alarm monitor that is cancelled   *)
(* and added again, and an output for severities.                          *)
(*                                                                         *)
(* CA runs callbacks only inside ca_poll.  They are queued and dispatched  *)
(* after it, then access is rechecked and the connection deadline looked   *)
(* at (poll).  Calls of the engine come between polls and between the      *)
(* callbacks of a poll.  The IOC and libca are modelled as the adapter     *)
(* uses them.                                                              *)
(***************************************************************************)
EXTENDS Integers, Sequences

CONSTANTS
  NeedsWrite,       \* global and not passive: monitors need write access
  Severities,       \* values that are written
  MaxPosted,        \* bound on the observations
  MaxCancels,       \* bound on the number of cancellations
  MaxCallbacks      \* bound on the callbacks of one poll

(* 0 stands for no severity.                                               *)
ASSUME SeverityAssumption == Severities \subseteq Nat \ {0}

VARIABLES
  phase,      \* the step of poll, or "idle"
  link,       \* ca_state and the access rights
  owed,       \* CA has still to send the first event of a subscription
  batch,      \* callbacks to dispatch
  channel,    \* the adapter's Channel
  pending,    \* pendingSeverity, 0 for none
  unwritable, \* writeUnavailable: the outage was reported
  posted,     \* observations made so far
  told, seen, gap,  \* history: see PvService
  wanted, sent, putFailed,  \* history: severity asked for, accepted; CA refused the put
  failed      \* history: the newest event of the monitor was a failure

vars == <<phase, link, owed, batch, channel, pending, unwritable, posted,
          told, seen, gap, wanted, sent, putFailed, failed>>

Nothing  == [kind |-> "nothing"]
Outage   == [kind |-> "outage"]
Denied   == [kind |-> "denied"]
Value(n) == [kind |-> "value", number |-> n]

Offline == [up |-> FALSE, read |-> FALSE, write |-> FALSE]

(* add: the channel was created, for an alarm monitor or only an output.   *)
Init ==
  /\ phase = "idle" /\ link = Offline /\ owed = FALSE /\ batch = <<>>
  /\ \E alarm \in BOOLEAN :
       channel = [alarm |-> alarm, cancelled |-> FALSE, subscribed |-> FALSE, epoch |-> 0,
                  last |-> 0, recheck |-> FALSE, deadline |-> TRUE]
  /\ pending = 0 /\ unwritable = FALSE
  /\ posted = 0 /\ told = Nothing /\ seen = 0 /\ gap = 0
  /\ wanted = 0 /\ sent = 0 /\ putFailed = FALSE /\ failed = FALSE

network == <<link, posted, failed>>
outputs == <<wanted, sent, putFailed>>
-----------------------------------------------------------------------------
(***************************************************************************)
(* libca and the IOC, inside ca_poll.                                      *)
(***************************************************************************)
Queue(callback) == batch' = Append(batch, callback)

InPoll == phase = "network" /\ Len(batch) < MaxCallbacks

(* CA renews subscriptions by itself.                                      *)
LinkUp ==
  /\ InPoll /\ ~link.up
  /\ \E r, w \in BOOLEAN : link' = [up |-> TRUE, read |-> r, write |-> w]
  /\ Queue([kind |-> "up"])
  /\ owed' = channel.subscribed
  /\ UNCHANGED <<phase, channel, pending, unwritable, posted, told, seen, gap, failed, outputs>>

LinkDown ==
  /\ InPoll /\ link.up
  /\ link' = Offline
  /\ Queue([kind |-> "down"])
  /\ owed' = FALSE
  /\ UNCHANGED <<phase, channel, pending, unwritable, posted, told, seen, gap, failed, outputs>>

(* A change of the read access sends an event to the subscription.         *)
Rights ==
  /\ InPoll /\ link.up
  /\ \E r, w \in BOOLEAN :
       /\ link' = [link EXCEPT !.read = r, !.write = w]
       /\ link' # link
       /\ owed' = (owed \/ (channel.subscribed /\ r # link.read))
  /\ Queue([kind |-> "access"])
  /\ UNCHANGED <<phase, channel, pending, unwritable, posted, told, seen, gap, failed, outputs>>

(* update: an observation, or a failure of the monitor.                    *)
Update ==
  /\ InPoll /\ link.up /\ channel.subscribed
  /\ posted < MaxPosted
  /\ owed' = FALSE
  /\ \E good \in BOOLEAN :
       /\ good => link.read
       /\ ~good => owed \/ link.read
       /\ posted' = IF good THEN posted + 1 ELSE posted
       /\ failed' = ~good
       /\ Queue([kind |-> "update", epoch |-> channel.epoch, good |-> good, number |-> posted'])
  /\ UNCHANGED <<phase, link, channel, pending, unwritable, told, seen, gap, outputs>>
-----------------------------------------------------------------------------
(***************************************************************************)
(* Telling the engine.                                                     *)
(***************************************************************************)
TellValue(n) == told' = Value(n) /\ seen' = n /\ gap' = gap
TellOutage   == told' = Outage /\ seen' = seen /\ gap' = IF seen > gap THEN seen ELSE gap
TellDenied   == told' = Denied /\ UNCHANGED <<seen, gap>>
TellNothing  == UNCHANGED <<told, seen, gap>>

MissesWrite == NeedsWrite /\ ~link.write

(* A bug: a severity is kept only while its output connects.               *)
PutForgotten(v, ch) ==
  IF ~ch.cancelled /\ link.up /\ link.write
  THEN pending' = 0 /\ sent' = v /\ unwritable' = FALSE /\ putFailed' = FALSE
  ELSE /\ pending' = IF ch.deadline THEN v ELSE pending
       /\ unwritable' = (unwritable \/ ch.cancelled \/ ~ch.deadline)
       /\ UNCHANGED <<sent, putFailed>>

(* put of a severity: CA takes it or refuses it.                           *)
Put(v, ch) ==
  IF ~ch.cancelled /\ link.up /\ link.write
  THEN \/ pending' = 0 /\ sent' = v /\ unwritable' = FALSE /\ putFailed' = FALSE
       \/ pending' = v /\ sent' = sent /\ putFailed' = TRUE /\ UNCHANGED unwritable
  ELSE /\ pending' = v
       /\ unwritable' = (unwritable \/ ch.cancelled \/ ~ch.deadline)
       /\ UNCHANGED <<sent, putFailed>>

(* The part of rightsChanged that is about outputs.                        *)
Replay(ch) ==
  IF pending # 0 /\ link.write
  THEN \/ pending' = 0 /\ sent' = pending /\ unwritable' = FALSE /\ putFailed' = FALSE
       \/ putFailed' = TRUE /\ unwritable' = FALSE /\ UNCHANGED <<pending, sent>>
  ELSE /\ unwritable' = (~link.write /\ (unwritable \/ pending # 0))
       /\ UNCHANGED <<pending, sent, putFailed>>

NoReplay == UNCHANGED <<pending, unwritable, sent, putFailed>>

(* rightsChanged: without read access the cached alarm is dropped.         *)
RightsChanged(ch) ==
  /\ channel' = [ch EXCEPT !.recheck = FALSE, !.last = IF link.read THEN @ ELSE 0]
  /\ IF ~ch.alarm THEN TellNothing
     ELSE IF ~link.read THEN TellOutage
     ELSE IF MissesWrite THEN TellDenied
     ELSE IF ch.last # 0 THEN TellValue(ch.last)
     ELSE TellNothing
  /\ Replay(ch)
-----------------------------------------------------------------------------
(***************************************************************************)
(* poll.                                                                   *)
(***************************************************************************)
Poll ==
  /\ phase = "idle"
  /\ phase' = "network"
  /\ UNCHANGED <<network, owed, batch, channel, pending, unwritable, told, seen, gap, outputs>>

EndNetwork ==
  /\ phase = "network"
  /\ phase' = "dispatch"
  /\ UNCHANGED <<network, owed, batch, channel, pending, unwritable, told, seen, gap, outputs>>

Connectable(ch) == ch.alarm /\ ~ch.cancelled /\ ~ch.subscribed /\ link.up

(* subscribe.                                                              *)
Subscribe(ch) == [ch EXCEPT !.subscribed = @ \/ Connectable(ch)]

(* connected, with CA_OP_CONN_UP; the state is that of now.                *)
ConnectedUp ==
  LET ch == Subscribe([channel EXCEPT !.deadline = FALSE])
  IN  /\ owed' = (owed \/ Connectable(channel))
      /\ IF link.up THEN RightsChanged(ch) ELSE channel' = ch /\ TellNothing /\ NoReplay

(* connected, with CA_OP_CONN_DOWN.                                        *)
ConnectedDown ==
  /\ channel' = [channel EXCEPT !.last = 0]
  /\ IF channel.alarm THEN TellOutage ELSE TellNothing
  /\ NoReplay /\ UNCHANGED owed

AccessChanged ==
  /\ IF link.up THEN RightsChanged(channel) ELSE UNCHANGED channel /\ TellNothing /\ NoReplay
  /\ UNCHANGED owed

(* updated.                                                                *)
Updated(u) ==
  /\ UNCHANGED owed /\ NoReplay
  /\ IF ~u.good
     THEN /\ channel' = [channel EXCEPT !.last = 0]
          /\ IF link.up /\ link.read /\ MissesWrite THEN TellDenied ELSE TellOutage
     ELSE /\ channel' = [channel EXCEPT !.recheck = FALSE,
                                        !.last = IF link.read THEN u.number ELSE 0]
          /\ IF ~link.read THEN TellOutage
             ELSE IF MissesWrite THEN TellDenied
             ELSE TellValue(u.number)

(* A bug: what was queued before a cancellation is delivered after it.     *)
AnyEpoch(u) == u.epoch <= channel.epoch

(* Events queued before a cancellation belong to an older epoch.           *)
Current(u) == u.epoch = channel.epoch

(* dispatch: one queued callback.  A cancelled channel ignores it.         *)
Dispatch ==
  /\ phase = "dispatch" /\ batch # <<>>
  /\ batch' = Tail(batch)
  /\ LET cb == Head(batch)
         ignored == channel.cancelled \/ (cb.kind = "update" /\ ~Current(cb))
     IN  \/ ignored /\ UNCHANGED <<owed, channel>> /\ TellNothing /\ NoReplay
         \/ ~ignored /\ cb.kind = "up" /\ ConnectedUp
         \/ ~ignored /\ cb.kind = "down" /\ ConnectedDown
         \/ ~ignored /\ cb.kind = "access" /\ AccessChanged
         \/ ~ignored /\ cb.kind = "update" /\ Updated(cb)
  /\ UNCHANGED <<phase, network, wanted>>

(* Access is checked again for a channel that was added.                   *)
Recheck ==
  /\ phase = "dispatch" /\ batch = <<>>
  /\ phase' = "recheck"
  /\ IF channel.recheck /\ ~channel.cancelled /\ link.up THEN RightsChanged(channel)
     ELSE /\ channel' = [channel EXCEPT !.recheck = FALSE]
          /\ TellNothing /\ NoReplay
  /\ UNCHANGED <<network, owed, batch, wanted>>

(* The deadline of a connection may be over: a PV that never existed, or   *)
(* was lost while it was cancelled, is reported.                           *)
Deadline ==
  /\ phase = "recheck"
  /\ phase' = "idle"
  /\ \/ UNCHANGED channel /\ TellNothing /\ NoReplay
     \/ /\ channel.deadline /\ ~channel.cancelled
        /\ channel' = [channel EXCEPT !.deadline = FALSE]
        /\ IF link.up THEN TellNothing /\ NoReplay
           ELSE /\ IF channel.alarm THEN TellOutage ELSE TellNothing
                /\ unwritable' = (unwritable \/ pending # 0)
                /\ UNCHANGED <<pending, sent, putFailed>>
  /\ UNCHANGED <<network, owed, batch, wanted>>
-----------------------------------------------------------------------------
(***************************************************************************)
(* Calls of the engine.                                                    *)
(***************************************************************************)
Calls == phase # "network"

(* monitor adds a channel that was cancelled, and one that waits for its   *)
(* connection.                                                             *)
Added(ch) ==
  [ch EXCEPT !.cancelled = FALSE, !.recheck = @ \/ ch.cancelled,
             !.deadline = @ \/ ~link.up]

Monitor ==
  /\ Calls /\ channel.alarm
  /\ channel' = Subscribe(Added(channel))
  /\ owed' = (owed \/ Connectable(Added(channel)))
  /\ TellNothing
  /\ UNCHANGED <<phase, network, batch, pending, unwritable, outputs>>

Cancelled(ch) ==
  [ch EXCEPT !.cancelled = TRUE, !.recheck = FALSE, !.last = 0, !.subscribed = FALSE,
             !.epoch = IF ch.subscribed THEN @ + 1 ELSE @]

Cancel ==
  /\ Calls /\ channel.alarm /\ ~channel.cancelled
  /\ channel.epoch < MaxCancels
  /\ channel' = Cancelled(channel)
  /\ owed' = FALSE
  /\ told' = Nothing /\ gap' = posted /\ UNCHANGED seen
  /\ UNCHANGED <<phase, network, batch, pending, unwritable, outputs>>

WriteSeverity ==
  /\ Calls
  /\ \E v \in Severities : wanted' = v /\ Put(v, channel)
  /\ TellNothing
  /\ UNCHANGED <<phase, network, owed, batch, channel>>

Next ==
  \/ Poll \/ LinkUp \/ LinkDown \/ Rights \/ Update \/ EndNetwork
  \/ Dispatch \/ Recheck \/ Deadline
  \/ Monitor \/ Cancel \/ WriteSeverity

Spec == Init /\ [][Next]_vars
-----------------------------------------------------------------------------
(***************************************************************************)
(* Properties.                                                             *)
(***************************************************************************)
Watching == channel.alarm /\ ~channel.cancelled

(* Nothing is on its way to the adapter or in it.                          *)
Settled ==
  /\ phase = "idle" /\ ~owed
  /\ ~channel.recheck /\ ~(channel.deadline /\ ~channel.cancelled)

(* ViewSettles: once nothing is under way the engine has been told what    *)
(* holds: the newest observation, or the loss of connection or access,     *)
(* whatever changed while the channel was cancelled.                       *)
ViewSettles ==
  Settled /\ Watching =>
    IF ~(link.up /\ link.read) THEN told = Outage
    ELSE IF failed THEN told \in {Outage, Denied}
    ELSE told = IF MissesWrite THEN Denied ELSE Value(posted)

(* A severity does not wait while its output can be written.               *)
NothingWaits == Settled /\ ~channel.cancelled /\ pending # 0 => putFailed \/ ~link.write

(* SeveritySettles: a severity that did not reach CA is kept, only the     *)
(* newest is, and it does not wait while its output can be written.        *)
SeveritySettles ==
  /\ pending = 0 => sent = wanted
  /\ pending # 0 => pending = wanted
  /\ ~channel.alarm => NothingWaits

(* ChannelSettles: neither direction of a channel is left behind.          *)
ChannelSettles == ViewSettles /\ SeveritySettles

(* AlarmedOutputSettles: the same of an output that is an alarm channel as *)
(* well (rightsChanged: "replay only when connection and write access are  *)
(* available").  The code misses it: a fresh event takes the place of the  *)
(* access check of a channel that was added, and of the replay with it.    *)
AlarmedOutputSettles == NothingWaits

Promise == INSTANCE PvService WITH watching <- Watching

(* CaImplementsService: the adapter keeps the promise of PvService.        *)
CaImplementsService == Promise!Spec
=============================================================================
