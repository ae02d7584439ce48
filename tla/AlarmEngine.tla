----------------------------- MODULE AlarmEngine -----------------------------
(***************************************************************************)
(* The alarm engine of QtALH (class Engine, qtalh/core/engine.cc): monitor *)
(* events, count filters, masks, timed NoAck, acknowledgement, shelving,   *)
(* beep thresholds, silence, group summaries and reload.                   *)
(*                                                                         *)
(* The engine runs on one thread and every call runs to completion, but a  *)
(* call walks many nodes and reports each change to callbacks on the way.  *)
(* "todo" is the rest of the running call: an entry point may start only   *)
(* when it is empty, and each step takes its head, so that the states      *)
(* between the steps are those the callbacks can observe.                  *)
(***************************************************************************)
EXTENDS AlarmState

CONSTANTS
  Configured,        \* per channel, the mask of the configuration file
  InitialThreshold,  \* per node, BEEPSEVR
  BeepSeverity,      \* Document::beepSeverity
  NoAckHour,         \* length of the one-hour timer in clock units
  (* the calls and inputs of the environment *)
  Events, MaskTargets, MaskRequests, BitRequests, RestoreTargets, ForceRequests,
  NoAckTargets, AckTargets, ShelveTargets, ShelfDurations, BeepTargets, BeepRequests,
  SilenceRequests, Reloads, ClockJumps,
  Synchronous,       \* the PV service may call back while a timer is dispatched
  (* bounds *)
  MaxMono,           \* the monotonic clock stops here
  MaxWall,           \* the wall clock stops here
  LastArrival        \* no call is made later than this

ASSUME EngineAssumption ==
  /\ Configured \in [Channels -> Mask]
  /\ InitialThreshold \in [Nodes -> Severity]
  /\ BeepSeverity \in Severity
  /\ NoAckHour \in Nat \ {0}
  /\ Events \subseteq Event
  /\ MaskTargets \subseteq Nodes /\ NoAckTargets \subseteq Nodes
  /\ AckTargets \subseteq Nodes /\ ShelveTargets \subseteq Nodes
  /\ MaskRequests \subseteq Mask /\ ForceRequests \subseteq Mask
  /\ BitRequests \subseteq MaskBits /\ RestoreTargets \subseteq Channels
  /\ ShelfDurations \subseteq Nat \ {0}
  /\ BeepTargets \subseteq Nodes /\ BeepRequests \subseteq Severity
  /\ SilenceRequests \subseteq Nat
  /\ Reloads \in BOOLEAN /\ ClockJumps \in BOOLEAN /\ Synchronous \in BOOLEAN
  /\ MaxMono \in Nat \ {0} /\ MaxWall \in Nat \ {0} /\ LastArrival \in Nat

VARIABLES
  ch,                 \* the state of every channel
  grp,                \* the state of every group
  threshold,          \* State::beepThreshold of every node
  noAckUntil,         \* State::noAckUntil of every node, 0 when not armed
  nextStateDeadline, nextShelfDeadline,  \* no timer fires before these
  dispatching,        \* the due deadlines are being dispatched
  requested,          \* requestedAcknowledgements
  pendingForce,       \* pendingForceAckT
  silence,            \* silenceCurrent, silenceForever, silenceUntil
  output,             \* the last value put to the SEVRPV of every node
  todo,               \* the rest of the running call
  mono, wall          \* monotonicNow() and now()

channelVars == <<ch, grp, silence, output>>
timerVars   == <<noAckUntil, nextStateDeadline, nextShelfDeadline, dispatching>>
clocks      == <<mono, wall>>
vars == <<ch, grp, threshold, noAckUntil, nextStateDeadline, nextShelfDeadline,
          dispatching, requested, pendingForce, silence, output, todo, mono, wall>>

Untouched == -2   \* nothing was put to the SEVRPV yet

(***************************************************************************)
(* The pieces of a call that can wait in "todo".                           *)
(***************************************************************************)
Timeout == [node : Nodes, deadline : Nat, filter : BOOLEAN]

PendingForce == [source : Nodes, channel : Channels, mask : BOOLEAN]

Counted == {c \in Channels : FilterCount[c] > 0}   \* channels with a count filter

Task ==
       [op : {"mask"}, node : Nodes, set : Mask, clear : Mask, reset : Mask,
        source : Nodes, automatic : BOOLEAN]
  \cup [op : {"noAck"}, node : Nodes, top : Nodes, on : BOOLEAN]
  \cup [op : {"armNoAck"}, node : Nodes]
  \cup [op : {"acknowledge"}, node : Nodes]
  \cup [op : {"shelve"}, node : Nodes, until : Nat, replace : BOOLEAN]
  \cup [op : {"unshelve"}, node : Nodes]
  \cup [op : {"deadlines"}]
  \cup [op : {"timers"}, due : SUBSET Timeout]
  \cup [op : {"shelves"}]
  \cup [op : {"retry"}, due : SUBSET PendingForce]
  \cup [op : {"event"}, node : Channels, event : Event]
  \cup [op : {"edge"}, node : Counted, event : Event]
  \cup [op : {"endSilence"}]

Deadlines == [op |-> "deadlines"]

MaskTask(n, set, clear, reset, automatic) ==
  [op |-> "mask", node |-> n, set |-> set, clear |-> clear, reset |-> reset,
   source |-> n, automatic |-> automatic]

(* eachChannel: a task on a group becomes the task on each of its children. *)
OnChildren(t) ==
  [i \in 1..Len(ChildrenOf(t.node)) |-> [t EXCEPT !.node = ChildrenOf(t.node)[i]]]

Idle == todo = <<>>
Running(op) == todo # <<>> /\ Head(todo).op = op

(* A callback of the PV service can arrive while no call runs and, from a  *)
(* synchronous service, between the timers that one call dispatches.       *)
CanCallBack == Idle \/ (Synchronous /\ Running("timers"))

Rest == Tail(todo)

(* A bug in which the later of two deadlines is kept.                      *)
NoteLatest(next, deadline) ==
  IF deadline # 0 /\ (next = 0 \/ deadline > next) THEN deadline ELSE next

(* noteDeadline and noteShelfDeadline.                                     *)
Note(next, deadline) ==
  IF deadline # 0 /\ (next = 0 \/ deadline < next) THEN deadline ELSE next

Earliest(deadlines) ==
  LET armed == deadlines \ {0}
  IN  IF armed = {} THEN 0 ELSE CHOOSE d \in armed : \A e \in armed : d <= e

(* A bug: the threshold itself does not sound.                             *)
EndsSilenceAbove(c, s) ==
  LET old == AudibleBeep(c, ch[c], threshold)
      new == AudibleBeep(c, s, threshold)
  IN  new # old /\ new > BeepSeverity

(***************************************************************************)
(* Propagate and publish: channel c becomes s.  A group with its own       *)
(* SEVRPV gets the new severity when "publish" is set; a change of the     *)
(* audible severity ends Silence Current (updatePresentation).             *)
(***************************************************************************)
EndsSilence(c, s) ==
  LET old == AudibleBeep(c, ch[c], threshold)
      new == AudibleBeep(c, s, threshold)
  IN  new # old /\ new >= BeepSeverity

GroupOutput(c, s, publish) ==
  [g \in Groups |->
     LET changed == \/ ~grp[g].initialized
                    \/ grp'[g].all.severity # grp[g].all.severity
     IN  IF /\ g \in Ancestors[c] /\ Active /\ publish
            /\ SeverityEvent(ch[c], s) /\ changed
         THEN grp'[g].all.severity
         ELSE output[g]]

(* own is the value put to the channel's SEVRPV, Untouched for none.       *)
Commit(c, s, own, publish) ==
  /\ ch' = [ch EXCEPT ![c] = s]
  /\ grp' = Propagate(grp, c, ch[c], s, threshold)
  /\ silence' = [silence EXCEPT !.current = @ /\ ~EndsSilence(c, s)]
  /\ output' = [n \in Nodes |->
                  IF n \in Groups THEN GroupOutput(c, s, publish)[n]
                  ELSE IF n = c /\ own # Untouched THEN own ELSE output[n]]

(* updatePresentation and publish alone, for a change of the shelf.        *)
CommitShelf(c, until) ==
  LET s == [ch[c] EXCEPT !.shelf = until]
  IN  /\ ch' = [ch EXCEPT ![c] = s]
      /\ grp' = UpdatePresentation(grp, c, ch[c], s, threshold)
      /\ silence' = [silence EXCEPT !.current = @ /\ ~EndsSilence(c, s)]
      /\ UNCHANGED output

(* A bug: a request outlives the alarm it was made for.                    *)
ProcessKeepingRequest(c, s, e, seen) ==
  LET after == Processed(s, e, seen)
  IN  /\ Commit(c, after, IF PutsSeverity(ch[c], after) THEN after.severity ELSE Untouched, TRUE)
      /\ UNCHANGED requested

(* Engine::process.                                                        *)
Process(c, s, e, seen) ==
  LET after == Processed(s, e, seen)
  IN  /\ Commit(c, after, IF PutsSeverity(ch[c], after) THEN after.severity ELSE Untouched, TRUE)
      /\ requested' = IF after.unack = 0 \/ after.severity = Error
                      THEN requested \ {c} ELSE requested

-----------------------------------------------------------------------------
(***************************************************************************)
(* Engine::event: first the due deadlines, then the event itself.          *)
(***************************************************************************)
MonitorEvent(c, e) ==
  /\ CanCallBack /\ mono <= LastArrival
  /\ todo' = << Deadlines, [op |-> "event", node |-> c, event |-> e] >> \o todo
  /\ UNCHANGED <<channelVars, timerVars, threshold, requested, pendingForce, clocks>>

FilterReset(s) ==
  [s EXCEPT !.filterUntil = 0, !.edgeIndex = 0,
            !.edges = [i \in DOMAIN @ |-> 0]]

ArmFilter(c, s) ==
  [s EXCEPT !.filterUntil = IF @ = 0 THEN mono + FilterSeconds[c] ELSE @]

(* A normal-to-ERROR event ends observation coverage even while it waits   *)
(* in the filter.                                                          *)
LosesCoverage(c, e) ==
  /\ e.severity = Error /\ ch[c].initialized /\ ch[c].severity = 0
  /\ FilterSeconds[c] # 0 /\ ~ch[c].awaiting

Arrived(c, e) ==
  [ch[c] EXCEPT !.pending = e, !.awaiting = @ \/ LosesCoverage(c, e)]

(* The initial ERROR baseline and unfiltered channels bypass the filter.   *)
Bypasses(c) ==
  \/ ~ch[c].initialized /\ ch[c].status = 0 /\ ch[c].severity = Error
  \/ FilterSeconds[c] = 0

IgnoreCancelled(c, e) ==
  /\ "Cancel" \in ch[c].mask
  /\ UNCHANGED <<channelVars, nextStateDeadline, requested>>
  /\ todo' = Rest

PassUnfiltered(c, e) ==
  /\ "Cancel" \notin ch[c].mask /\ Bypasses(c)
  /\ Process(c, Arrived(c, e), e, e.severity)
  /\ todo' = Rest
  /\ UNCHANGED nextStateDeadline

(* What is left of the handler for the ALARMCOUNTFILTER count.             *)
ThenCount(c, e) ==
  todo' = IF /\ FilterCount[c] > 0
             /\ (ch[c].pending.severity = 0) # (e.severity = 0)
          THEN << [op |-> "edge", node |-> c, event |-> e] >> \o Rest
          ELSE Rest

Filtered(c) == "Cancel" \notin ch[c].mask /\ ~Bypasses(c)

(* A bug: a condition that cleared in time leaves its timer running.       *)
StaysNormalTimed(c, e) ==
  /\ Filtered(c) /\ ch[c].severity = 0 /\ e.severity = 0
  /\ Process(c, Arrived(c, e), e, 0)
  /\ ThenCount(c, e)
  /\ UNCHANGED nextStateDeadline

StaysNormal(c, e) ==
  LET s == [Arrived(c, e) EXCEPT !.filterUntil = 0]
  IN  /\ Filtered(c) /\ ch[c].severity = 0 /\ e.severity = 0
      /\ \/ e.acks = 0 /\ Process(c, s, e, 0)
         \* An unregistered transient acknowledgement refreshes the value only.
         \/ /\ e.acks # 0
            /\ ch' = [ch EXCEPT ![c] = [s EXCEPT !.observed = 0, !.awaiting = FALSE]]
            /\ UNCHANGED <<grp, silence, output, requested>>
      /\ ThenCount(c, e)
      /\ UNCHANGED nextStateDeadline

StaysInAlarm(c, e) ==
  /\ Filtered(c) /\ ch[c].severity # 0 /\ e.severity # 0
  /\ Process(c, [Arrived(c, e) EXCEPT !.filterUntil = 0], e, e.severity)
  /\ ThenCount(c, e)
  /\ UNCHANGED nextStateDeadline

(* A bug: the deadline of the filter is not noted.                         *)
HoldAlarmUnnoted(c, e) ==
  /\ Filtered(c) /\ ch[c].severity = 0 /\ e.severity # 0
  /\ ch' = [ch EXCEPT ![c] = ArmFilter(c, Arrived(c, e))]
  /\ requested' = IF LosesCoverage(c, e) THEN requested \ {c} ELSE requested
  /\ ThenCount(c, e)
  /\ UNCHANGED <<grp, silence, output, nextStateDeadline>>

(* A new alarm waits for the filter; nothing is processed yet.             *)
HoldAlarm(c, e) ==
  LET s == ArmFilter(c, Arrived(c, e))
  IN  /\ Filtered(c) /\ ch[c].severity = 0 /\ e.severity # 0
      /\ ch' = [ch EXCEPT ![c] = s]
      /\ requested' = IF LosesCoverage(c, e) THEN requested \ {c} ELSE requested
      /\ nextStateDeadline' = Note(nextStateDeadline, s.filterUntil)
      /\ ThenCount(c, e)
      /\ UNCHANGED <<grp, silence, output>>

(* A recovery waits too: the alarm is processed again with its old status  *)
(* and severity.  A count of -1 lets recoveries through at once.           *)
HoldRecovery(c, e) ==
  LET held == [e EXCEPT !.status = ch[c].status, !.severity = ch[c].severity]
      s    == ArmFilter(c, Arrived(c, e))
  IN  /\ Filtered(c) /\ ch[c].severity # 0 /\ e.severity = 0
      /\ \/ /\ FilterCount[c] = -1
            /\ Process(c, FilterReset(Arrived(c, e)), e, 0)
            /\ UNCHANGED nextStateDeadline
         \/ /\ FilterCount[c] # -1
            /\ Process(c, s, held, 0)
            /\ nextStateDeadline' = Note(nextStateDeadline, s.filterUntil)
      /\ ThenCount(c, e)

HandleEvent ==
  /\ Running("event")
  /\ LET c == Head(todo).node
         e == Head(todo).event
     IN  \/ IgnoreCancelled(c, e)
         \/ PassUnfiltered(c, e)
         \/ StaysNormal(c, e)
         \/ StaysInAlarm(c, e)
         \/ HoldAlarm(c, e)
         \/ HoldRecovery(c, e)
  /\ UNCHANGED <<threshold, noAckUntil, nextShelfDeadline, dispatching, pendingForce, clocks>>

(* The count filter: the ring holds the last 2 * count edges; if the       *)
(* oldest is recent enough, the event is let through.                      *)
CountEdge ==
  /\ Running("edge")
  /\ LET c    == Head(todo).node
         e    == Head(todo).event
         s    == ch[c]
         old  == s.edges[s.edgeIndex + 1]
     IN  \/ /\ old # 0 /\ mono - old <= FilterSeconds[c]
            /\ Process(c, FilterReset(s), e, e.severity)
         \/ /\ ~(old # 0 /\ mono - old <= FilterSeconds[c])
            /\ ch' = [ch EXCEPT ![c].edges[s.edgeIndex + 1] = mono,
                                ![c].edgeIndex = (s.edgeIndex + 1) % Len(s.edges)]
            /\ UNCHANGED <<grp, silence, output, requested>>
  /\ todo' = Rest
  /\ UNCHANGED <<threshold, timerVars, pendingForce, clocks>>

-----------------------------------------------------------------------------
(***************************************************************************)
(* Engine::processDeadlines: an expired silence ends; when a deadline can  *)
(* have passed, the expired timers are collected and dispatched in the     *)
(* order of their deadlines, then shelves end and the deadlines are noted  *)
(* again.  An event that arrives during the dispatch starts no second one. *)
(***************************************************************************)
ExpiredTimers ==
       {[node |-> c, deadline |-> ch[c].filterUntil, filter |-> TRUE] :
          c \in {x \in Channels : /\ "Cancel" \notin ch[x].mask
                                  /\ ch[x].filterUntil # 0 /\ mono >= ch[x].filterUntil}}
  \cup {[node |-> n, deadline |-> noAckUntil[n], filter |-> FALSE] :
          n \in {x \in Nodes : noAckUntil[x] # 0 /\ mono >= noAckUntil[x]}}

(* A bug: a deadline is due only after it has passed.                      *)
DeadlinePassed ==
  \/ nextStateDeadline # 0 /\ mono > nextStateDeadline
  \/ nextShelfDeadline # 0 /\ wall > nextShelfDeadline

DeadlineDue ==
  \/ nextStateDeadline # 0 /\ mono >= nextStateDeadline
  \/ nextShelfDeadline # 0 /\ wall >= nextShelfDeadline

ScanDeadlines ==
  /\ Running("deadlines")
  /\ silence' = [silence EXCEPT !.until = IF ~dispatching /\ mono >= @ THEN 0 ELSE @]
  /\ \/ /\ DeadlineDue /\ ~dispatching
        /\ nextStateDeadline' = 0
        /\ nextShelfDeadline' = 0
        /\ dispatching' = TRUE
        /\ todo' = << [op |-> "timers", due |-> ExpiredTimers], [op |-> "shelves"] >> \o Rest
     \/ /\ ~DeadlineDue \/ dispatching
        /\ todo' = Rest
        /\ UNCHANGED <<nextStateDeadline, nextShelfDeadline, dispatching>>
  /\ UNCHANGED <<ch, grp, output, threshold, noAckUntil, requested, pendingForce, clocks>>

Precedes(t, u) ==
  \/ t.deadline < u.deadline
  \/ t.deadline = u.deadline /\ Order[t.node] < Order[u.node]
  \/ t.deadline = u.deadline /\ t.node = u.node /\ t.filter

FirstOf(due) == CHOOSE t \in due : \A u \in due \ {t} : Precedes(t, u)

FilterExpires(t) ==
  LET s == FilterReset(ch[t.node])
  IN  /\ t.filter /\ t \in ExpiredTimers
      /\ Process(t.node, s, s.pending, s.pending.severity)
      /\ todo' = << [Head(todo) EXCEPT !.due = @ \ {t}] >> \o Rest
      /\ UNCHANGED noAckUntil

(* Engine::noAck(n, false).                                                *)
NoAckExpires(t) ==
  /\ ~t.filter /\ t \in ExpiredTimers
  /\ noAckUntil' = [noAckUntil EXCEPT ![t.node] = 0]
  /\ todo' = << [op |-> "noAck", node |-> t.node, top |-> t.node, on |-> FALSE],
                [Head(todo) EXCEPT !.due = @ \ {t}] >> \o Rest
  /\ UNCHANGED <<channelVars, requested>>

(* An earlier callback cancelled or replaced the timer.                    *)
DropStaleTimer(t) ==
  /\ t \notin ExpiredTimers
  /\ todo' = << [Head(todo) EXCEPT !.due = @ \ {t}] >> \o Rest
  /\ UNCHANGED <<channelVars, noAckUntil, requested>>

DispatchTimer ==
  /\ Running("timers")
  /\ LET due == Head(todo).due
     IN  \/ /\ due # {}
            /\ LET t == FirstOf(due)
               IN  FilterExpires(t) \/ NoAckExpires(t) \/ DropStaleTimer(t)
         \/ /\ due = {}
            /\ todo' = Rest
            /\ UNCHANGED <<channelVars, noAckUntil, requested>>
  /\ UNCHANGED <<threshold, nextStateDeadline, nextShelfDeadline, dispatching,
                 pendingForce, clocks>>

EndedShelves == {c \in Channels : ch[c].shelf # 0 /\ wall >= ch[c].shelf}

ExpireShelves ==
  /\ Running("shelves")
  /\ \/ /\ EndedShelves # {}
        /\ CommitShelf(CHOOSE c \in EndedShelves : \A d \in EndedShelves : Order[c] <= Order[d], 0)
        /\ UNCHANGED <<todo, timerVars>>
     \/ /\ EndedShelves = {}
        /\ nextShelfDeadline' =
             Earliest({nextShelfDeadline} \cup {ch[c].shelf : c \in Channels})
        /\ nextStateDeadline' =
             Earliest({nextStateDeadline} \cup {noAckUntil[n] : n \in Nodes}
                \cup {ch[c].filterUntil : c \in {x \in Channels : "Cancel" \notin ch[x].mask}})
        /\ dispatching' = FALSE
        /\ todo' = Rest
        /\ UNCHANGED <<channelVars, noAckUntil>>
  /\ UNCHANGED <<threshold, requested, pendingForce, clocks>>

(* The 200 ms refresh timer of the window: deferred Force PV writes, then  *)
(* the deadlines.                                                          *)
Tick ==
  /\ Idle
  /\ todo' = (IF Active /\ pendingForce # {}
              THEN << [op |-> "retry", due |-> pendingForce] >> ELSE <<>>) \o << Deadlines >>
  /\ UNCHANGED <<channelVars, timerVars, threshold, requested, pendingForce, clocks>>
-----------------------------------------------------------------------------
(***************************************************************************)
(* Masks: setMask, resetMask, modifyMask and the Force PV masks all apply  *)
(* a mask to each channel below a node (Engine::applyMask).  The operator  *)
(* dialogs first cancel the NoAck timers of the subtree and end Silence    *)
(* Current when the masks are set.                                         *)
(***************************************************************************)
Subtree(n) == {m \in Nodes : m = n \/ n \in Ancestors[m]}

WithoutTimers(n) == [m \in Nodes |-> IF m \in Subtree(n) THEN 0 ELSE noAckUntil[m]]

OperatorMask(n, task, cancelsTimers) ==
  /\ Idle /\ mono <= LastArrival /\ n \in MaskTargets
  /\ todo' = << task, [op |-> "endSilence"] >>
  /\ noAckUntil' = IF cancelsTimers THEN WithoutTimers(n) ELSE noAckUntil
  /\ UNCHANGED <<channelVars, threshold, nextStateDeadline, nextShelfDeadline,
                 dispatching, requested, pendingForce, clocks>>

EndSilenceCurrent ==
  /\ Running("endSilence")
  /\ silence' = [silence EXCEPT !.current = FALSE]
  /\ todo' = Rest
  /\ UNCHANGED <<ch, grp, output, timerVars, threshold, requested, pendingForce, clocks>>

SetMask(n, m) == OperatorMask(n, MaskTask(n, m, MaskBits, {}, FALSE), TRUE)
ResetMask(n)  == OperatorMask(n, MaskTask(n, {}, {}, MaskBits, FALSE), TRUE)

ModifyMask(n, b) ==
  \/ OperatorMask(n, MaskTask(n, {b}, {}, {}, FALSE), b = "Ack")
  \/ OperatorMask(n, MaskTask(n, {}, {b}, {}, FALSE), b = "Ack")
  \/ OperatorMask(n, MaskTask(n, {}, {}, {b}, FALSE), b = "Ack")

(* Runtime Overrides restores the mask of a channel that differs from the  *)
(* configuration; unlike the Reset of the mask dialog it leaves the NoAck  *)
(* timer and the silence alone.                                            *)
RestoreMask(c) ==
  /\ Idle /\ mono <= LastArrival /\ ~Passive
  /\ ch[c].mask # Configured[c]
  /\ todo' = << MaskTask(c, {}, {}, MaskBits, FALSE) >>
  /\ UNCHANGED <<channelVars, timerVars, threshold, requested, pendingForce, clocks>>

(* forceValue: the Force PV reached its force or its reset value.          *)
ForceMask(n) ==
  /\ CanCallBack /\ mono <= LastArrival /\ n \in MaskTargets /\ ForceRequests # {}
  /\ \/ \E m \in ForceRequests : todo' = << MaskTask(n, m, MaskBits, {}, TRUE) >> \o todo
     \/ todo' = << MaskTask(n, {}, {}, MaskBits, TRUE) >> \o todo
  /\ UNCHANGED <<channelVars, timerVars, threshold, requested, pendingForce, clocks>>

(* The mask a request asks of a channel; in passive mode ACKT stays, save  *)
(* for a Force PV in local mode.                                           *)
NewMask(c, t) ==
  LET old  == ch[c].mask
      mask == (old \ (t.clear \cup t.reset)) \cup t.set \cup (Configured[c] \cap t.reset)
  IN  IF Passive /\ (~t.automatic \/ Global)
      THEN (mask \ {"AckT"}) \cup (old \cap {"AckT"})
      ELSE mask

(* The request asks for Disable in place of the Cancel of a channel that   *)
(* still holds an alarm: Add comes first and exposes it.                   *)
AddsFirst(s, m) ==
  /\ "Cancel" \in s.mask /\ "Disable" \notin s.mask
  /\ "Cancel" \notin m /\ "Disable" \in m /\ s.severity > 0

(* The effects of Cancel, then of the local latch rules, on the channel.   *)
AfterCancel(s, m) ==
  LET quiet == [FilterReset(s) EXCEPT !.awaiting = TRUE, !.pending = NoEvent]
  IN  IF "Cancel" \notin m THEN s
      ELSE IF s.mask \cap {"Cancel", "Disable"} # {} THEN quiet
      ELSE [quiet EXCEPT !.severity = 0, !.status = 0, !.unack = 0,
                         !.iocUnack = 0, !.commUnack = FALSE]

(* A bug: NoAck hides the latch instead of clearing it.                    *)
AfterLatchHidden(s, old, m) ==
  IF Global THEN s
  ELSE IF "Disable" \in m THEN [s EXCEPT !.unack = 0]
  ELSE IF "Cancel" \notin m /\ old \cap {"Ack", "Disable", "Cancel"} # {}
  THEN [s EXCEPT !.unack = s.severity]
  ELSE s

AfterLatch(s, old, m) ==
  IF Global THEN s
  ELSE IF m \cap {"Ack", "Disable"} # {} THEN [s EXCEPT !.unack = 0]
  ELSE IF "Cancel" \notin m /\ old \cap {"Ack", "Disable", "Cancel"} # {}
  THEN [s EXCEPT !.unack = s.severity]
  ELSE s

Restored(s, old, m) ==
  old \cap {"Disable", "Cancel"} # {} /\ m \cap {"Disable", "Cancel"} = {} /\ s.severity > 0

(* A transient latched while disabled or NoAck is acknowledged when the    *)
(* channel becomes visible again; the IOC may refuse the write.            *)
AutoAcknowledges(s, old, m) ==
  /\ Active /\ "Cancel" \notin m /\ "Disable" \notin m
  /\ old \cap {"Disable", "Ack"} # {}
  /\ "Disable" \in old \/ "Ack" \notin m
  /\ s.severity = 0 /\ s.unack > 0

(* A bug: an alarm that comes back with an Add is not put.                 *)
MaskOutputOnDisable(s, old, m) ==
  IF Active /\ "Cancel" \notin m /\ ("Disable" \in m) # ("Disable" \in old)
  THEN IF "Disable" \in m THEN -1 ELSE s.severity
  ELSE Untouched

MaskOutput(s, old, m) ==
  IF /\ Active /\ "Cancel" \notin m
     /\ ("Disable" \in m) # ("Disable" \in old) \/ Restored(s, old, m)
  THEN IF "Disable" \in m THEN -1 ELSE s.severity
  ELSE Untouched

(* ACKT is written to the IOC in global active mode.  Whether the record   *)
(* needs the write and whether it takes it is left open; a refused write   *)
(* keeps the old bit, and a Force PV's one is tried again at each tick.    *)
ApplyMask(c, t, acknowledged, refused) ==
  LET old    == ch[c].mask
      asked  == NewMask(c, t)
      latest == AfterLatch(AfterCancel(ch[c], asked), old, asked)
      m      == IF refused THEN (asked \ {"AckT"}) \cup (old \cap {"AckT"}) ELSE asked
      s      == [latest EXCEPT
                   !.mask = m,
                   !.unack = IF acknowledged THEN 0 ELSE @,
                   !.iocUnack = IF acknowledged THEN 0 ELSE @,
                   !.commUnack = @ /\ ~acknowledged]
  IN  /\ acknowledged => AutoAcknowledges(latest, old, asked)
      /\ AutoAcknowledges(latest, old, asked) /\ latest.iocUnack = 0 => acknowledged
      /\ refused => Active
      /\ Commit(c, s, MaskOutput(latest, old, asked), Restored(latest, old, asked))
      /\ requested' = IF asked \cap {"Cancel", "Disable", "Ack"} # {}
                      THEN requested \ {c} ELSE requested
      /\ pendingForce' =
           (IF Active THEN {p \in pendingForce : p.channel # c} ELSE pendingForce)
           \cup (IF refused /\ t.automatic
                 THEN {[source |-> t.source, channel |-> c, mask |-> "AckT" \in asked]}
                 ELSE {})

ApplyMasks ==
  /\ Running("mask")
  /\ LET t == Head(todo)
         n == t.node
     IN  \/ /\ n \in Groups
            /\ todo' = OnChildren(t) \o Rest
            /\ UNCHANGED <<channelVars, requested, pendingForce>>
         \/ /\ n \in Channels /\ AddsFirst(ch[n], NewMask(n, t))
            /\ todo' = << MaskTask(n, {}, {"Cancel"}, {}, FALSE) >> \o todo
            /\ UNCHANGED <<channelVars, requested, pendingForce>>
         \/ /\ n \in Channels /\ ~AddsFirst(ch[n], NewMask(n, t))
            /\ \E acknowledged, refused \in BOOLEAN : ApplyMask(n, t, acknowledged, refused)
            /\ todo' = Rest
  /\ UNCHANGED <<timerVars, threshold, clocks>>

(* retryForceWrites, one deferred write per step.                          *)
RetryForce ==
  /\ Running("retry")
  /\ \/ \E p \in Head(todo).due :
          /\ todo' = << [Head(todo) EXCEPT !.due = @ \ {p}] >> \o Rest
          /\ \/ /\ p \in pendingForce
                /\ pendingForce' = pendingForce \ {p}
                /\ Commit(p.channel,
                          [ch[p.channel] EXCEPT
                             !.mask = (@ \ {"AckT"}) \cup (IF p.mask THEN {"AckT"} ELSE {})],
                          Untouched, FALSE)
             \/ UNCHANGED <<channelVars, pendingForce>>
     \/ /\ Head(todo).due = {}
        /\ todo' = Rest
        /\ UNCHANGED <<channelVars, pendingForce>>
  /\ UNCHANGED <<timerVars, threshold, requested, clocks>>

(* setForceDisabled(n, true) and configureForce drop the deferred writes   *)
(* of that Force PV.                                                       *)
DiscardForce(n) ==
  /\ Idle /\ \E p \in pendingForce : p.source = n
  /\ pendingForce' = {p \in pendingForce : p.source # n}
  /\ UNCHANGED <<channelVars, timerVars, threshold, requested, todo, clocks>>

-----------------------------------------------------------------------------
(***************************************************************************)
(* NoAck for one hour (Engine::noAck).  Setting it clears every timer      *)
(* below; ending it passes over branches that have a timer of their own.   *)
(***************************************************************************)
NoAck(n, on) ==
  /\ Idle /\ mono <= LastArrival
  /\ noAckUntil' = [noAckUntil EXCEPT ![n] = 0]
  /\ todo' = << [op |-> "noAck", node |-> n, top |-> n, on |-> on] >>
             \o (IF on THEN << [op |-> "armNoAck", node |-> n] >> ELSE <<>>)
  /\ UNCHANGED <<channelVars, nextStateDeadline, nextShelfDeadline, dispatching,
                 threshold, requested, pendingForce, clocks>>

(* Two bugs: timers of branches below are not cleared; the end of a timer  *)
(* resets branches that have one of their own.                             *)
VisitNoAckKeeping ==
  /\ Running("noAck")
  /\ LET t == Head(todo)
         n == t.node
     IN  todo' = (IF n \in Groups THEN OnChildren(t)
                  ELSE IF t.on THEN << MaskTask(n, {"Ack"}, {}, {}, FALSE) >>
                  ELSE << MaskTask(n, {}, {}, {"Ack"}, FALSE) >>) \o Rest
  /\ UNCHANGED <<channelVars, timerVars, threshold, requested, pendingForce, clocks>>

VisitNoAck ==
  /\ Running("noAck")
  /\ LET t == Head(todo)
         n == t.node
     IN  \/ /\ ~t.on /\ n # t.top /\ noAckUntil[n] # 0
            /\ todo' = Rest
            /\ UNCHANGED noAckUntil
         \/ /\ t.on \/ n = t.top \/ noAckUntil[n] = 0
            /\ noAckUntil' = IF t.on THEN [noAckUntil EXCEPT ![n] = 0] ELSE noAckUntil
            /\ todo' = (IF n \in Groups THEN OnChildren(t)
                        ELSE IF t.on THEN << MaskTask(n, {"Ack"}, {}, {}, FALSE) >>
                        ELSE << MaskTask(n, {}, {}, {"Ack"}, FALSE) >>) \o Rest
  /\ UNCHANGED <<channelVars, nextStateDeadline, nextShelfDeadline, dispatching,
                 threshold, requested, pendingForce, clocks>>

ArmNoAck ==
  /\ Running("armNoAck")
  /\ LET until == mono + NoAckHour
     IN  /\ noAckUntil' = [noAckUntil EXCEPT ![Head(todo).node] = until]
         /\ nextStateDeadline' = Note(nextStateDeadline, until)
  /\ todo' = Rest
  /\ UNCHANGED <<channelVars, nextShelfDeadline, dispatching, threshold, requested,
                 pendingForce, clocks>>

-----------------------------------------------------------------------------
(***************************************************************************)
(* Engine::acknowledge.  A group is entered only while it has outstanding  *)
(* alarms; shelved channels are passed over.  In global mode the IOC has   *)
(* to confirm, so only the communication error latch is cleared here, and  *)
(* the request is remembered when its write was accepted.                  *)
(***************************************************************************)
Acknowledge(n) ==
  /\ Idle /\ mono <= LastArrival /\ ~Passive
  /\ todo' = << [op |-> "acknowledge", node |-> n] >>
  /\ UNCHANGED <<channelVars, timerVars, threshold, requested, pendingForce, clocks>>

(* A bug: the latch is cleared without telling the groups.                 *)
AcknowledgeSilently(c) ==
  /\ ~Global
  /\ ch' = [ch EXCEPT ![c].unack = 0]
  /\ UNCHANGED <<grp, silence, output, requested>>

AcknowledgeLocally(c) ==
  /\ ~Global
  /\ Commit(c, [ch[c] EXCEPT !.unack = 0], Untouched, FALSE)
  /\ UNCHANGED requested

(* A bug: the communication latch is cleared but its ERROR stays shown.    *)
AcknowledgeHalf(c) ==
  /\ Global
  /\ Commit(c, [ch[c] EXCEPT !.commUnack = FALSE], Untouched, FALSE)
  /\ UNCHANGED requested

AcknowledgeGlobally(c) ==
  /\ Global
  /\ Commit(c, [ch[c] EXCEPT !.commUnack = FALSE,
                             !.unack = IF ch[c].commUnack THEN ch[c].iocUnack ELSE @],
            Untouched, FALSE)
  /\ \/ /\ ch[c].observed # Error /\ ch[c].iocUnack # 0
        /\ requested' = requested \cup {c}
     \/ UNCHANGED requested   \* nothing to write, or the write was refused

VisitAcknowledge ==
  /\ Running("acknowledge")
  /\ LET t == Head(todo)
         n == t.node
     IN  \/ /\ n \in Groups
            /\ todo' = (IF grp[n].all.unack # 0 THEN OnChildren(t) ELSE <<>>) \o Rest
            /\ UNCHANGED <<channelVars, requested>>
         \/ /\ n \in Channels
            /\ \/ /\ ch[n].shelf # 0 \/ ch[n].unack = 0
                  /\ UNCHANGED <<channelVars, requested>>
               \/ /\ ch[n].shelf = 0 /\ ch[n].unack # 0
                  /\ AcknowledgeLocally(n) \/ AcknowledgeGlobally(n)
            /\ todo' = Rest
  /\ UNCHANGED <<timerVars, threshold, pendingForce, clocks>>

-----------------------------------------------------------------------------
(***************************************************************************)
(* Shelving (shelveAt, clearShelf, unshelve).  An existing shelf is kept   *)
(* unless it has ended or a single channel's shelf is replaced.            *)
(***************************************************************************)
Shelve(n, duration, replace) ==
  /\ Idle /\ mono <= LastArrival
  /\ replace => n \in Channels
  /\ todo' = << [op |-> "shelve", node |-> n, until |-> wall + duration, replace |-> replace] >>
  /\ UNCHANGED <<channelVars, timerVars, threshold, requested, pendingForce, clocks>>

Unshelve(n) ==
  /\ Idle /\ mono <= LastArrival
  /\ todo' = << [op |-> "unshelve", node |-> n] >>
  /\ UNCHANGED <<channelVars, timerVars, threshold, requested, pendingForce, clocks>>

VisitShelve ==
  /\ Running("shelve")
  /\ LET t   == Head(todo)
         n   == t.node
         old == ch[n].shelf
     IN  \/ /\ n \in Groups
            /\ todo' = OnChildren(t) \o Rest
            /\ UNCHANGED <<channelVars, nextShelfDeadline>>
         \/ /\ n \in Channels /\ old # 0 /\ old <= wall
            /\ CommitShelf(n, 0)
            /\ UNCHANGED <<todo, nextShelfDeadline>>
         \/ /\ n \in Channels /\ old > wall /\ ~t.replace
            /\ todo' = Rest
            /\ UNCHANGED <<channelVars, nextShelfDeadline>>
         \/ /\ n \in Channels /\ (old = 0 \/ (old > wall /\ t.replace))
            /\ CommitShelf(n, t.until)
            /\ nextShelfDeadline' = Note(nextShelfDeadline, t.until)
            /\ todo' = Rest
  /\ UNCHANGED <<noAckUntil, nextStateDeadline, dispatching, threshold, requested,
                 pendingForce, clocks>>

VisitUnshelve ==
  /\ Running("unshelve")
  /\ LET t == Head(todo)
         n == t.node
     IN  \/ /\ n \in Groups
            /\ todo' = OnChildren(t) \o Rest
            /\ UNCHANGED channelVars
         \/ /\ n \in Channels
            /\ IF ch[n].shelf # 0 THEN CommitShelf(n, 0) ELSE UNCHANGED channelVars
            /\ todo' = Rest
  /\ UNCHANGED <<timerVars, threshold, requested, pendingForce, clocks>>

-----------------------------------------------------------------------------
(***************************************************************************)
(* Beep thresholds and silence.  setBeep recounts every summary that a     *)
(* threshold takes part in (rebuildBeep, rebuildPresentation).             *)
(***************************************************************************)
SetBeep(n, v) ==
  /\ Idle /\ mono <= LastArrival
  /\ threshold' = [threshold EXCEPT ![n] = v]
  /\ grp' = [g \in Groups |->
       [grp[g] EXCEPT
          !.all = [@ EXCEPT !.beepCounts = RecountAll(g, ch, threshold').beepCounts,
                            !.beep = RecountAll(g, ch, threshold').beep],
          !.shown = RecountShown(g, ch, threshold'),
          !.shelved = RecountShelved(g, ch)]]
  /\ UNCHANGED <<ch, silence, output, timerVars, requested, pendingForce, todo, clocks>>

SetSilence ==
  /\ Idle /\ mono <= LastArrival /\ SilenceRequests # {}
  /\ \/ silence' = [silence EXCEPT !.current = ~@]
     \/ silence' = [silence EXCEPT !.forever = ~@]
     \/ \E d \in SilenceRequests :
          silence' = [silence EXCEPT !.until = IF d = 0 THEN 0 ELSE mono + d]
  /\ UNCHANGED <<ch, grp, output, timerVars, threshold, requested, pendingForce, todo, clocks>>

-----------------------------------------------------------------------------
(***************************************************************************)
(* A new engine (constructor and start), at startup and on reload.  On a   *)
(* reload of the same configuration the shelves move to the new engine     *)
(* with the local acknowledgement state of the shelved channels, and the   *)
(* notification service adds that of the channels it is tracking.          *)
(***************************************************************************)
FreshChannel(c) ==
  [severity |-> IF Configured[c] \cap {"Cancel", "Disable"} # {} THEN 0 ELSE Error,
   status |-> 0, unack |-> 0, observed |-> Error, iocUnack |-> 0, commUnack |-> FALSE,
   mask |-> Configured[c], shelf |-> 0, initialized |-> FALSE, awaiting |-> TRUE,
   pending |-> [NoEvent EXCEPT !.severity = Error], filterUntil |-> 0,
   edges |-> [i \in 1..(IF FilterCount[c] > 0 THEN 2 * FilterCount[c] ELSE 0) |-> 0],
   edgeIndex |-> 0]

FreshGroups(states) ==
  [g \in Groups |->
     [all |-> RecountAll(g, states, InitialThreshold),
      shown |-> RecountShown(g, states, InitialThreshold),
      shelved |-> RecountShelved(g, states),
      maskCounts |-> RecountMask(g, states),
      initialized |-> FALSE]]

(* start puts -1 for disabled channels, and the severity of the groups     *)
(* that no event will reach.                                               *)
StartOutput(before) ==
  [n \in Nodes |->
     IF ~Active THEN before[n]
     ELSE IF n \in Channels
     THEN IF "Disable" \in Configured[n] THEN -1 ELSE before[n]
     ELSE IF \A c \in Below(n) : Configured[c] \cap {"Cancel", "Disable"} # {}
     THEN 0 ELSE before[n]]

NoTimers == [n \in Nodes |-> 0]
NoSilence == [current |-> FALSE, forever |-> FALSE, until |-> 0]

Init ==
  /\ ch = [c \in Channels |-> FreshChannel(c)]
  /\ grp = FreshGroups([c \in Channels |-> FreshChannel(c)])
  /\ threshold = InitialThreshold
  /\ noAckUntil = NoTimers
  /\ nextStateDeadline = 0 /\ nextShelfDeadline = 0 /\ dispatching = FALSE
  /\ requested = {} /\ pendingForce = {}
  /\ silence = NoSilence
  /\ output = StartOutput([n \in Nodes |-> Untouched])
  /\ todo = <<>>
  /\ mono = 1 /\ wall = 1

(* restoreShelves, then restoreLocalAcknowledgements for "tracked".        *)
RestoredChannel(c, tracked) ==
  LET fresh  == FreshChannel(c)
      kept   == /\ ~Global /\ fresh.mask \cap {"Ack", "Disable"} = {}
                /\ \/ ch[c].shelf # 0
                   \/ c \in tracked /\ "Cancel" \notin fresh.mask
  IN  [fresh EXCEPT !.shelf = IF ch[c].shelf > wall THEN ch[c].shelf ELSE 0,
                    !.unack = IF kept THEN ch[c].unack ELSE @]

Reload ==
  /\ Idle /\ Reloads /\ mono <= LastArrival
  /\ \E tracked \in SUBSET Channels :
       LET states == [c \in Channels |-> RestoredChannel(c, tracked)]
       IN  /\ ch' = states
           /\ grp' = FreshGroups(states)
           /\ nextShelfDeadline' = Earliest({states[c].shelf : c \in Channels})
  /\ threshold' = InitialThreshold
  /\ noAckUntil' = NoTimers
  /\ nextStateDeadline' = 0
  /\ requested' = {} /\ pendingForce' = {}
  /\ silence' = NoSilence
  /\ output' = StartOutput(output)
  /\ UNCHANGED <<dispatching, todo, clocks>>

(* Time passes between calls; the wall clock can also be set.              *)
TimePasses ==
  /\ Idle /\ mono < MaxMono
  /\ mono' = mono + 1
  /\ wall' = IF wall < MaxWall THEN wall + 1 ELSE wall
  /\ UNCHANGED <<channelVars, timerVars, threshold, requested, pendingForce, todo>>

SetClock ==
  /\ Idle /\ ClockJumps /\ mono <= LastArrival
  /\ wall' \in 1..MaxWall
  /\ UNCHANGED <<channelVars, timerVars, threshold, requested, pendingForce, todo, mono>>

Step ==
  \/ HandleEvent \/ CountEdge
  \/ ScanDeadlines \/ DispatchTimer \/ ExpireShelves
  \/ ApplyMasks \/ EndSilenceCurrent \/ RetryForce
  \/ VisitNoAck \/ ArmNoAck
  \/ VisitAcknowledge
  \/ VisitShelve \/ VisitUnshelve

Call ==
  \/ \E c \in Channels, e \in Events : MonitorEvent(c, e)
  \/ \E n \in Nodes, m \in MaskRequests : SetMask(n, m)
  \/ \E n \in Nodes : ResetMask(n)
  \/ \E n \in Nodes, b \in BitRequests : ModifyMask(n, b)
  \/ \E c \in RestoreTargets : RestoreMask(c)
  \/ \E n \in Nodes : ForceMask(n)
  \/ \E n \in Nodes : DiscardForce(n)
  \/ \E n \in NoAckTargets, on \in BOOLEAN : NoAck(n, on)
  \/ \E n \in AckTargets : Acknowledge(n)
  \/ \E n \in ShelveTargets, d \in ShelfDurations, r \in BOOLEAN : Shelve(n, d, r)
  \/ \E n \in ShelveTargets : Unshelve(n)
  \/ \E n \in BeepTargets, v \in BeepRequests : SetBeep(n, v)
  \/ SetSilence
  \/ Reload

Next == Step \/ Call \/ Tick \/ TimePasses \/ SetClock

Spec == Init /\ [][Next]_vars

(* The thread that runs a call goes on with it; this is WF_vars(Step),     *)
(* written out because a step is enabled exactly while a call runs.  Only  *)
(* finitely many calls fit into one unit of time, and the event loop       *)
(* serves the refresh timer between other calls, so calls hold off neither *)
(* for ever.                                                               *)
Fairness ==
  /\ []<>Idle \/ []<><<Step>>_vars
  /\ SF_vars(Tick)
  /\ SF_vars(TimePasses)
FairSpec == Spec /\ Fairness
-----------------------------------------------------------------------------
(* TypeOK: every variable keeps the type its C++ declaration and the       *)
(* value ranges of engine.h give it.                                       *)
TypeOK ==
  /\ ch \in [Channels -> ChannelState]
  /\ grp \in [Groups -> GroupState]
  /\ threshold \in [Nodes -> Severity]
  /\ noAckUntil \in [Nodes -> Nat]
  /\ nextStateDeadline \in Nat /\ nextShelfDeadline \in Nat
  /\ dispatching \in BOOLEAN
  /\ requested \subseteq Channels
  /\ pendingForce \subseteq PendingForce
  /\ silence \in [current : BOOLEAN, forever : BOOLEAN, until : Nat]
  /\ output \in [Nodes -> -2..4]
  /\ todo \in Seq(Task)
  /\ mono \in Nat /\ wall \in Nat

(* AutomationTallies: the counters propagate moves by one, group by group, *)
(* always equal a fresh count of the channels below: no sequence of        *)
(* events, masks, timers, shelves and reloads leaves a group showing an    *)
(* alarm nobody has, or hiding one (engine.cc propagate, rebuildBeep).     *)
AutomationTallies ==
  \A g \in Groups : grp[g].all = RecountAll(g, ch, threshold)

(* OperatorTallies: the same for what the operator sees, where shelved     *)
(* channels count in "shelved" only (updatePresentation).                  *)
OperatorTallies ==
  \A g \in Groups : /\ grp[g].shown = RecountShown(g, ch, threshold)
                    /\ grp[g].shelved = RecountShelved(g, ch)

(* MaskTallies: the mask summary of a group counts its channels' bits.     *)
MaskTallies == \A g \in Groups : grp[g].maskCounts = RecountMask(g, ch)

(* DeadlinesCovered: outside the dispatch loop no armed timer or shelf is  *)
(* earlier than the deadline below which processDeadlines does not look.   *)
DeadlinesCovered ==
  ~dispatching =>
    /\ \A c \in Channels :
         /\ ch[c].filterUntil # 0 => nextStateDeadline \in 1..ch[c].filterUntil
         /\ ch[c].shelf # 0 => nextShelfDeadline \in 1..ch[c].shelf
    /\ \A n \in Nodes : noAckUntil[n] # 0 => nextStateDeadline \in 1..noAckUntil[n]

(* NothingOverdueAtEvent: when a monitor event is handled outside a timer  *)
(* dispatch, every filter, NoAck timer and shelf that has expired has been *)
(* dispatched, so that the event cannot erase an alarm that outlasted its  *)
(* filter.                                                                 *)
NothingOverdueAtEvent ==
  Running("event") /\ ~dispatching =>
    /\ \A c \in Channels : /\ ch[c].filterUntil = 0 \/ ch[c].filterUntil > mono
                           /\ ch[c].shelf = 0 \/ ch[c].shelf > wall
    /\ \A n \in Nodes : noAckUntil[n] = 0 \/ noAckUntil[n] > mono

(* HeldBackIffTimer: between calls, a filter timer runs exactly for the    *)
(* channels whose shown state differs from their latest event, an alarm or *)
(* a recovery the filter holds back: no condition waits without a timer,   *)
(* and no timer is left that would let a stale event through.              *)
HeldBackIffTimer ==
  Idle => \A c \in Channels :
            ch[c].initialized /\ ~(ch[c].awaiting /\ ch[c].pending.severity = 0)
            => (ch[c].filterUntil # 0
                  <=> (ch[c].pending.severity = 0) # (ch[c].severity = 0))

(* SuppressedHasNoLatch: in local mode a NoAck or disabled channel keeps   *)
(* no outstanding acknowledgement that would come back unasked.            *)
SuppressedHasNoLatch ==
  ~Global => \A c \in Channels :
               ch[c].mask \cap {"Ack", "Disable"} # {} => ch[c].unack = 0

(* CancelledIsQuiet: a cancelled channel has no filter timer, no recorded  *)
(* edge and no event left that a later Add could replay.                   *)
CancelledIsQuiet ==
  \A c \in Channels :
    "Cancel" \in ch[c].mask =>
      /\ ch[c].filterUntil = 0 /\ ch[c].awaiting
      /\ \A i \in DOMAIN ch[c].edges : ch[c].edges[i] = 0

(* FilterTimersExact: the filter of a channel waits for something, or is at*)
(* rest, cancelled or not.                                                 *)
FilterTimersExact == HeldBackIffTimer /\ CancelledIsQuiet

(* NoAckCoversSubtree: when the one-hour timer is about to start, every    *)
(* channel below is NoAck and no timer of a branch below is left running.  *)
NoAckCoversSubtree ==
  Running("armNoAck") =>
    \A m \in Subtree(Head(todo).node) :
      /\ noAckUntil[m] = 0
      /\ m \in Channels => "Ack" \in ch[m].mask

(* TimedIsNoAck: between calls, a channel whose own one-hour timer runs is *)
(* NoAck, whatever timers of the groups above it started or ended and      *)
(* whatever mask changes came in between.  Only Force PVs and the restore  *)
(* of Runtime Overrides set the mask without ending the timer.             *)
TimedIsNoAck ==
  Idle => \A c \in Channels : noAckUntil[c] # 0 => "Ack" \in ch[c].mask

(* NoAckTimersCover: a one-hour timer covers what it was started for, also *)
(* when timers of groups, subgroups and channels overlap.                  *)
NoAckTimersCover == NoAckCoversSubtree /\ TimedIsNoAck

(* The SEVRPV of a channel shows it: -1 while it is disabled, and else the *)
(* severity, once the first event has been processed.                      *)
Follows(s, value) ==
  IF "Disable" \in s.mask THEN value = -1 ELSE s.initialized => value = s.severity

(* OutputsPublished: what the documents say of the outputs ("disabled      *)
(* channels publish -1", docs/qtalh-user-guide.md:436; "Changing Disable,  *)
(* or removing Cancel so that monitoring resumes, writes the configured    *)
(* $SEVRPV", docs/site/configure/masks.md:17).  Cancel breaks it: an       *)
(* enabled channel in alarm that is cancelled becomes normal without a     *)
(* write, a normal event after the Add writes nothing either, and a        *)
(* channel that is cancelled before or when it is disabled puts no -1.     *)
OutputsPublished ==
  Idle /\ Active =>
    \A c \in Channels : "Cancel" \in ch[c].mask \/ Follows(ch[c], output[c])

(* OutputsAccount: what does hold of the SEVRPV of a channel in global     *)
(* active mode, with cancelled channels too.  An alarm that is neither     *)
(* disabled nor cancelled is always out, as -1 is never left behind by an  *)
(* Enable; a write always leaves the value right; and a step that leaves a *)
(* value behind that was right is one on a channel that is then cancelled: *)
(* no event, filter, acknowledgement, Force PV or other mask change does.  *)
OutputsAccount ==
  [][Active => \A c \in Channels :
       /\ ch'[c].mask \cap {"Cancel", "Disable"} = {} /\ ch'[c].severity # 0
          => Follows(ch'[c], output'[c])
       /\ \/ Follows(ch'[c], output'[c])
          \/ /\ output'[c] = output[c]
             /\ Follows(ch[c], output[c]) => "Cancel" \in ch'[c].mask]_vars

(* GlobalLatch: in global mode the acknowledgement shown for a channel is  *)
(* the IOC's, or ERROR while a communication error is unacknowledged: no   *)
(* order of outages, acknowledgements, masks and monitor events hides one  *)
(* behind the other.                                                       *)
GlobalLatch ==
  Global => \A c \in Channels :
              ch[c].unack = IF ch[c].commUnack THEN Error ELSE ch[c].iocUnack

(* RequestsEndWithObservation: every step that breaks off the observation  *)
(* of a channel (Cancel, reload, an outage that so far only the filter has *)
(* seen), and every processed ERROR, forgets the acknowledgement request,  *)
(* so that no clear from before the break is taken for its answer.         *)
RequestsEndWithObservation ==
  [][\A c \in Channels :
       (~ch[c].awaiting /\ ch'[c].awaiting) \/ ch'[c].observed = Error
       => c \notin requested']_vars

(* EventsKeepLatches: in local mode an event, a filter or a count lets no  *)
(* outstanding acknowledgement drop unless NoAckT allows it; only the      *)
(* operator, a mask or a reload does.                                      *)
EventsKeepLatches ==
  [][~Global /\ (HandleEvent \/ CountEdge \/ DispatchTimer) =>
       \A c \in Channels : "AckT" \in ch[c].mask \/ ch'[c].unack >= ch[c].unack]_vars

(* NewSoundEndsSilenceCurrent: whenever a step raises the audible severity *)
(* of the facility, Silence Current is off afterwards; a new threshold     *)
(* (setBeep) is the one exception.                                         *)
NewSoundEndsSilenceCurrent ==
  [][/\ grp'[Root].shown.beep > grp[Root].shown.beep
     /\ grp'[Root].shown.beep >= BeepSeverity
     /\ UNCHANGED threshold
     => ~silence'.current]_vars

(* HeldAlarmSurfaces: an alarm held back by the filter is shown after a    *)
(* while, unless the condition clears, or the channel is cancelled.        *)
HeldAlarmSurfaces ==
  \A c \in Channels :
    (ch[c].pending.severity # 0 /\ ch[c].severity = 0 /\ ch[c].filterUntil # 0)
      ~> (ch[c].severity # 0 \/ ch[c].pending.severity = 0 \/ "Cancel" \in ch[c].mask)

(* TimersEnd: a timed NoAck and a shelf do not last for ever.              *)
TimersEnd ==
  /\ \A n \in Nodes : noAckUntil[n] # 0 ~> noAckUntil[n] = 0
  /\ \A c \in Channels : ch[c].shelf # 0 ~> ch[c].shelf = 0

(* TimersServed: what waits for a timer does not wait for ever.            *)
TimersServed == HeldAlarmSurfaces /\ TimersEnd
=============================================================================
