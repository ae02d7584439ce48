----------------------------- MODULE AlarmState -----------------------------
(***************************************************************************)
(* The state one alarm node carries (struct State of qtalh/core/engine.h)  *)
(* and the pure functions of engine.cc on it: what a channel contributes   *)
(* to the groups above it, how a group's tally moves when one channel      *)
(* changes, and what a monitor event does to a channel.                    *)
(***************************************************************************)
EXTENDS AlarmTree

CONSTANTS
  Global,         \* EngineOptions::global: acknowledgement belongs to the IOC
  Passive,        \* EngineOptions::passive: nothing is written
  FilterSeconds,  \* per channel, State::filterSeconds (0: no ALARMCOUNTFILTER)
  FilterCount     \* per channel, State::filterCount

Error    == 4                     \* ErrorSeverity
Severity == 0..Error
Raised   == 1..Error
MaskBits == {"Cancel", "Disable", "Ack", "AckT", "Log"}
Mask     == SUBSET MaskBits
Active   == Global /\ ~Passive    \* outputs and IOC acknowledgements are written

ASSUME OptionTyping ==
  /\ Global \in BOOLEAN
  /\ Passive \in BOOLEAN
  /\ FilterSeconds \in [Channels -> Nat]
  /\ FilterCount \in [Channels -> Nat \cup {-1}]

(* A monitor event; ackt is -1 when the source has no ACKT field.          *)
Event == [status : Nat, severity : Severity, acks : Severity, ackt : -1..1]
NoEvent == [status |-> 0, severity |-> 0, acks |-> 0, ackt |-> 1]

ChannelState ==
  [severity : Severity, status : Nat, unack : Severity,
   observed : Severity,      \* observedSeverity, what the monitor last said
   iocUnack : Severity,      \* the acknowledgement the IOC reports
   commUnack : BOOLEAN,      \* communicationUnack
   mask : Mask,
   shelf : Nat,              \* Shelf::until, 0 when not shelved
   initialized : BOOLEAN,
   awaiting : BOOLEAN,       \* awaitingObservation
   pending : Event,
   filterUntil : Nat,
   edges : Seq(Nat), edgeIndex : Nat]   \* the count filter's ring

(* A bug: no alarm at all is reported as -1.                               *)
HighestOrNone(counts) ==
  LET seen == {i \in Raised : counts[i] > 0}
  IN  IF seen = {} THEN -1 ELSE CHOOSE i \in seen : \A j \in seen : i >= j

(* highest: the largest severity with a non-zero count.                    *)
Highest(counts) ==
  LET seen == {i \in Raised : counts[i] > 0}
  IN  IF seen = {} THEN 0 ELSE CHOOSE i \in seen : \A j \in seen : i >= j

Suppressed(s)     == "Disable" \in s.mask \/ "Cancel" \in s.mask
Effective(s)      == IF Suppressed(s) THEN 0 ELSE s.severity
Unacknowledged(s) == IF Suppressed(s) \/ "Ack" \in s.mask THEN 0 ELSE s.unack
Beep(s, t)        == IF Unacknowledged(s) >= t THEN Unacknowledged(s) ELSE 0

(***************************************************************************)
(* What channel c in state s adds to ancestor g, th being the BEEPSEVR     *)
(* threshold of every node.  A beep counts in g only if it passes the      *)
(* threshold of every group below g on the way up.  A shelved channel is   *)
(* absent from the operator's view: -1 is a severity no counter has.       *)
(***************************************************************************)
Contribution(c, s, g, th) ==
  LET b == Beep(s, th[c])
  IN  [severity |-> Effective(s),
       unack    |-> Unacknowledged(s),
       beep     |-> IF \A h \in Between(c, g) : b >= th[h] THEN b ELSE 0]

Absent == [severity |-> -1, unack |-> 0, beep |-> 0]

Presented(c, s, g, th) ==
  IF s.shelf = 0 THEN Contribution(c, s, g, th) ELSE Absent

(* The beep that reaches the loudspeaker test of updatePresentation: it    *)
(* has passed the threshold of every ancestor.                             *)
AudibleBeep(c, s, th) ==
  LET b == Beep(s, th[c])
  IN  IF s.shelf = 0 /\ \A h \in Ancestors[c] : b >= th[h] THEN b ELSE 0

(***************************************************************************)
(* A group's summary of the channels below it, kept once for automation    *)
(* (State::counts ...) and once for the operator (Presentation).  Counter  *)
(* 0 of unackCounts and beepCounts is never used by the code.              *)
(***************************************************************************)
Tally ==
  [counts : [Severity -> Int], unackCounts : [Raised -> Int],
   beepCounts : [Raised -> Int],
   severity : Severity, unack : Severity, beep : Severity]

GroupState ==
  [all : Tally, shown : Tally, shelved : Int,
   maskCounts : [MaskBits -> Int], initialized : BOOLEAN]

(* One leaf moved from value "from" to value "to".                         *)
Shift(counts, from, to) ==
  [k \in DOMAIN counts |->
     counts[k] - (IF k = from THEN 1 ELSE 0) + (IF k = to THEN 1 ELSE 0)]

(* The maxima the code derives from the counters of a group whose own      *)
(* threshold is t.                                                         *)
Summary(counts, unackCounts, beepCounts, t) ==
  [counts |-> counts, unackCounts |-> unackCounts, beepCounts |-> beepCounts,
   severity |-> Highest(counts),
   unack |-> Highest(unackCounts),
   beep |-> IF Highest(beepCounts) < t THEN 0 ELSE Highest(beepCounts)]

Move(tally, from, to, t) ==
  Summary(Shift(tally.counts, from.severity, to.severity),
          Shift(tally.unackCounts, from.unack, to.unack),
          Shift(tally.beepCounts, from.beep, to.beep), t)

(* The same summary counted afresh: leaf[c] is what c adds to the group.   *)
HowMany(S, leaf, k) == Cardinality({c \in S : leaf[c] = k})

Recount(S, leaf, t) ==
  Summary([k \in Severity |-> HowMany(S, [c \in S |-> leaf[c].severity], k)],
          [k \in Raised |-> HowMany(S, [c \in S |-> leaf[c].unack], k)],
          [k \in Raised |-> HowMany(S, [c \in S |-> leaf[c].beep], k)], t)

RecountAll(g, states, th) ==
  Recount(Below(g), [c \in Below(g) |-> Contribution(c, states[c], g, th)], th[g])

RecountShown(g, states, th) ==
  Recount(Below(g), [c \in Below(g) |-> Presented(c, states[c], g, th)], th[g])

RecountMask(g, states) ==
  [b \in MaskBits |-> Cardinality({c \in Below(g) : b \in states[c].mask})]

RecountShelved(g, states) == Cardinality({c \in Below(g) : states[c].shelf # 0})

(***************************************************************************)
(* Engine::propagate and Engine::updatePresentation on the groups above c, *)
(* whose state goes from "before" to "after".                              *)
(***************************************************************************)
SeverityEvent(before, after) ==
  \/ Effective(before) # Effective(after)
  \/ ~before.initialized /\ after.initialized /\ ~Suppressed(after)

(* A bug: the shelf of the earlier state is forgotten.                     *)
UpdateUnshelved(grp, c, before, after, th) ==
  [g \in Groups |->
     IF g \notin Ancestors[c] THEN grp[g]
     ELSE [grp[g] EXCEPT
             !.shown = Move(@, Contribution(c, before, g, th), Presented(c, after, g, th), th[g]),
             !.shelved = @ + (IF after.shelf # 0 THEN 1 ELSE 0)
                           - (IF before.shelf # 0 THEN 1 ELSE 0)]]

UpdatePresentation(grp, c, before, after, th) ==
  [g \in Groups |->
     IF g \notin Ancestors[c] THEN grp[g]
     ELSE [grp[g] EXCEPT
             !.shown = Move(@, Presented(c, before, g, th), Presented(c, after, g, th), th[g]),
             !.shelved = @ + (IF after.shelf # 0 THEN 1 ELSE 0)
                           - (IF before.shelf # 0 THEN 1 ELSE 0)]]

(* A bug: a mask bit that goes is still counted.                           *)
PropagateMaskGains(grp, c, before, after, th) ==
  LET shown == UpdatePresentation(grp, c, before, after, th)
  IN  [g \in Groups |->
         IF g \notin Ancestors[c] THEN grp[g]
         ELSE [shown[g] EXCEPT
                 !.all = Move(@, Contribution(c, before, g, th),
                                 Contribution(c, after, g, th), th[g]),
                 !.maskCounts = [b \in MaskBits |->
                    @[b] + (IF b \in after.mask \ before.mask THEN 1 ELSE 0)],
                 !.initialized = @ \/ SeverityEvent(before, after)]]

Propagate(grp, c, before, after, th) ==
  LET shown == UpdatePresentation(grp, c, before, after, th)
  IN  [g \in Groups |->
         IF g \notin Ancestors[c] THEN grp[g]
         ELSE [shown[g] EXCEPT
                 !.all = Move(@, Contribution(c, before, g, th),
                                 Contribution(c, after, g, th), th[g]),
                 !.maskCounts = [b \in MaskBits |->
                    @[b] + (IF b \in after.mask THEN 1 ELSE 0)
                         - (IF b \in before.mask THEN 1 ELSE 0)],
                 !.initialized = @ \/ SeverityEvent(before, after)]]

(***************************************************************************)
(* Engine::process on the channel: the alarm state after event e is let    *)
(* through.  "seen" is the severity the monitor reported, which differs    *)
(* from e.severity while a recovery is held back.                          *)
(***************************************************************************)
IsTransition(s, e) ==
  ~s.initialized \/ s.status # e.status \/ s.severity # e.severity

(* A bug: a recovery clears the local latch.                               *)
ProcessedUnlatching(s, e, seen) ==
  [s EXCEPT !.observed = seen, !.awaiting = FALSE, !.initialized = TRUE,
            !.status = e.status, !.severity = e.severity,
            !.unack = IF s.mask \cap {"Disable", "Ack"} = {} THEN e.severity ELSE @]

Processed(s, e, seen) ==
  LET mask == IF Global /\ e.ackt = 0 THEN s.mask \cup {"AckT"}
              ELSE IF Global /\ e.ackt = 1 THEN s.mask \ {"AckT"}
              ELSE s.mask
      comm == IF seen = Error
              THEN s.commUnack \/ ~s.initialized \/ s.observed # Error \/ s.status # e.status
              ELSE s.commUnack /\ "AckT" \notin mask
      acks == IF seen = Error THEN s.iocUnack ELSE e.acks
      latches == /\ IsTransition(s, e)
                 /\ mask \cap {"Disable", "Ack"} = {}
                 /\ e.severity >= s.unack \/ "AckT" \in mask
  IN  [s EXCEPT
         !.observed = seen, !.awaiting = FALSE, !.initialized = TRUE,
         !.status = e.status, !.severity = e.severity, !.mask = mask,
         !.commUnack = IF Global THEN comm ELSE @,
         !.iocUnack = IF Global THEN acks ELSE @,
         !.unack = CASE Global /\ comm     -> Error
                     [] Global /\ ~comm    -> acks
                     [] ~Global /\ latches -> e.severity
                     [] OTHER              -> @]

(* A channel's SEVRPV is put on a severity transition of an enabled one.   *)
PutsSeverity(before, after) ==
  /\ Active
  /\ "Disable" \notin after.mask
  /\ ~before.initialized \/ before.severity # after.severity
=============================================================================
