-------------------------------- MODULE AckValue --------------------------------
(***************************************************************************)
(* The ACKPV action of one channel in global active mode (submitAckValue   *)
(* and retryAckValue in qtalh/core/engine.cc): each accepted               *)
(* acknowledgement writes a value to another PV.  A refused write is       *)
(* counted and written only when the operator retries it from the table of *)
(* Runtime Overrides, which may show an action that is no longer pending.  *)
(***************************************************************************)
EXTENDS Integers

CONSTANTS
  Directives,    \* texts of the ACKPV directive of the channel
  MaxAcks        \* bound on the acknowledgements

VARIABLES
  directive,   \* the option ACKPV of the channel
  removed,     \* Cancel in the mask of the channel
  action,      \* pendingAckValueActions: id, count and directive, or NoAction
  nextAction,  \* nextAckValueAction
  listed,      \* the action the table shows
  ledger       \* history: per directive, acknowledgements and what became of them

vars == <<directive, removed, action, nextAction, listed, ledger>>

NoAction == [id |-> 0, count |-> 0]
Pending  == action.count > 0

Total == [d \in Directives |-> [asked |-> 0, written |-> 0, dropped |-> 0]]

Init ==
  /\ directive \in Directives /\ removed = FALSE
  /\ action = NoAction /\ listed = NoAction
  /\ nextAction = 0
  /\ ledger = [of |-> Total, acks |-> 0]

(* The actions of the pending entry are given up.                          *)
Dropped(totals) ==
  IF Pending THEN [totals EXCEPT ![action.directive].dropped = @ + action.count] ELSE totals

(* One write of the directive that is configured now was accepted.         *)
Written(totals) == [totals EXCEPT ![directive].written = @ + 1]

Joins == Pending /\ action.directive = directive

(* A bug: a pending action takes over the failures of another directive.   *)
RefusedJoined ==
  IF Pending THEN [action EXCEPT !.count = @ + 1]
  ELSE [id |-> nextAction + 1, count |-> 1, directive |-> directive]

(* A refused write joins the entry of its directive or replaces another's. *)
Refused ==
  IF Joins THEN [action EXCEPT !.count = @ + 1]
  ELSE [id |-> nextAction + 1, count |-> 1, directive |-> directive]

(* acknowledge, or the end of a transient when it is enabled again.        *)
Acknowledge(ok) ==
  LET asked  == [ledger.of EXCEPT ![directive].asked = @ + 1]
      given  == IF ok THEN Written(asked)
                ELSE IF Joins THEN asked ELSE Dropped(asked)
  IN  /\ ~removed /\ ledger.acks < MaxAcks
      /\ action' = IF ok THEN action ELSE Refused
      /\ nextAction' = IF ok \/ Joins THEN nextAction ELSE nextAction + 1
      /\ ledger' = [of |-> given, acks |-> ledger.acks + 1]
      /\ UNCHANGED <<directive, removed, listed>>

(* The action to retry belongs to another time.                            *)
Obsolete == directive # action.directive \/ removed

Retry(ok) ==
  /\ Pending /\ listed.id = action.id
  /\ action' = IF Obsolete \/ (ok /\ action.count = 1) THEN NoAction
               ELSE IF ok THEN [action EXCEPT !.count = @ - 1] ELSE action
  /\ ledger' = [ledger EXCEPT !.of =
       IF Obsolete THEN Dropped(@)
       ELSE IF ok THEN Written(@) ELSE @]
  /\ UNCHANGED <<directive, removed, nextAction, listed>>

Refresh ==
  /\ listed' = action
  /\ UNCHANGED <<directive, removed, action, nextAction, ledger>>

Cancel ==
  /\ ~removed /\ removed' = TRUE
  /\ action' = NoAction
  /\ ledger' = [ledger EXCEPT !.of = Dropped(@)]
  /\ UNCHANGED <<directive, nextAction, listed>>

Add ==
  /\ removed /\ removed' = FALSE
  /\ UNCHANGED <<directive, action, nextAction, listed, ledger>>

SetOption ==
  /\ directive' \in Directives
  /\ UNCHANGED <<removed, action, nextAction, listed, ledger>>

Next ==
  \/ \E ok \in BOOLEAN : Acknowledge(ok) \/ Retry(ok)
  \/ Refresh \/ Cancel \/ Add \/ SetOption

Spec == Init /\ [][Next]_vars
-----------------------------------------------------------------------------
(* Every accepted acknowledgement writes the value configured at that time *)
(* at most once: it was written, it is pending under that directive or it  *)
(* was discarded; and a retry repeats the action the operator was shown.   *)
RetriesAccounted ==
  /\ \A d \in Directives :
       ledger.of[d].asked = ledger.of[d].written + ledger.of[d].dropped
                              + (IF Pending /\ action.directive = d THEN action.count ELSE 0)
  /\ Pending /\ listed.id = action.id => listed.directive = action.directive
=============================================================================
