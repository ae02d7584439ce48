------------------------------ MODULE AckTransient ------------------------------
(***************************************************************************)
(* The transient setting ACKT of one IOC record and the channels that show *)
(* it as their NoAckT bit T, in global mode (applyMask, retryForceWrites   *)
(* and process in qtalh/core/engine.cc).                                   *)
(*                                                                         *)
(* Several rows of the tree may name one record ("rec" and "rec.VAL").     *)
(* Each has a monitor of its own, so they learn a change at different      *)
(* times, while a write through any of them sets the record they share.    *)
(* The record, libca and other clients are modelled as the engine uses     *)
(* them.                                                                   *)
(***************************************************************************)
EXTENDS Integers, Sequences

CONSTANTS
  Rows,            \* channels of one record
  MaxRequests,     \* bound on the mask requests
  MaxOthers,       \* bound on the changes by other clients
  MaxBreaks        \* bound on the lost connections

VARIABLES
  ioc,      \* the record: its bit, the connection, writes on their way
  feed,     \* feed[r]: values posted to the monitor of row r
  row,      \* row[r]: the mask bit T, whether one was observed, Cancel
  ackt,     \* acceptedAckT, observedRecordAckT and pendingForceAckT of the record
  readOnly, \* options.passive
  history   \* what was asked for, and whether rows disagreed on it

vars == <<ioc, feed, row, ackt, readOnly, history>>

None == -1
Bits == {0, 1}
NoForce == [value |-> None, request |-> 0]

Init ==
  /\ \E b \in Bits :
       /\ ioc = [bit |-> b, online |-> TRUE, puts |-> <<>>, others |-> 0, breaks |-> 0]
       /\ feed = [r \in Rows |-> <<b>>]
       /\ history = [wanted |-> b, others |-> FALSE, reversed |-> FALSE, misled |-> FALSE]
  /\ \E configured \in [Rows -> Bits] :
       row = [r \in Rows |-> [mask |-> configured[r], observed |-> FALSE, cancelled |-> FALSE]]
  /\ ackt = [accepted |-> None, confirmedBy |-> {}, observed |-> None,
             force |-> NoForce, requests |-> 0]
  /\ readOnly \in BOOLEAN

TypeOK ==
  /\ ioc.bit \in Bits /\ ioc.puts \in Seq(Bits)
  /\ feed \in [Rows -> Seq(Bits)]
  /\ row \in [Rows -> [mask : Bits, observed : BOOLEAN, cancelled : BOOLEAN]]
  /\ ackt.accepted \in Bits \union {None} /\ ackt.observed \in Bits \union {None}
  /\ ackt.confirmedBy \subseteq Rows
-----------------------------------------------------------------------------
(***************************************************************************)
(* The record and its connection.                                          *)
(***************************************************************************)
Monitored(r) == ioc.online /\ ~row[r].cancelled

(* A record posts ACKT only when it changes.                               *)
Posted(b) ==
  feed' = [r \in Rows |-> IF Monitored(r) /\ b # ioc.bit THEN Append(feed[r], b) ELSE feed[r]]

Apply ==
  /\ ioc.puts # <<>>
  /\ Posted(Head(ioc.puts))
  /\ ioc' = [ioc EXCEPT !.bit = Head(ioc.puts), !.puts = Tail(@)]
  /\ UNCHANGED <<row, ackt, readOnly, history>>

OtherClient ==
  /\ ioc.others < MaxOthers
  /\ Posted(1 - ioc.bit)
  /\ ioc' = [ioc EXCEPT !.bit = 1 - @, !.others = @ + 1]
  /\ history' = [history EXCEPT !.others = TRUE]
  /\ UNCHANGED <<row, ackt, readOnly>>

(* Writes on their way are lost with the connection.                       *)
Break ==
  /\ ioc.online /\ ioc.breaks < MaxBreaks
  /\ ioc' = [ioc EXCEPT !.online = FALSE, !.puts = <<>>, !.breaks = @ + 1]
  /\ feed' = [r \in Rows |-> <<>>]
  /\ history' = [history EXCEPT !.others = @ \/ ioc.puts # <<>>]
  /\ UNCHANGED <<row, ackt, readOnly>>

(* CA sends the current state first on every new connection.               *)
Reconnect ==
  /\ ~ioc.online
  /\ ioc' = [ioc EXCEPT !.online = TRUE]
  /\ feed' = [r \in Rows |-> IF row[r].cancelled THEN <<>> ELSE <<ioc.bit>>]
  /\ UNCHANGED <<row, ackt, readOnly, history>>
-----------------------------------------------------------------------------
(***************************************************************************)
(* The engine.                                                             *)
(***************************************************************************)
Or(value, otherwise) == IF value # None THEN value ELSE otherwise

Accepted(r) == Or(ackt.accepted, Or(ackt.observed, row[r].mask))
Observed(r) == Or(ackt.observed, Accepted(r))

(* A bug: the row's own bit decides.                                      *)
ChangesOfRow(r, t, kind) == t # row[r].mask

(* Only a Force PV or a request that names NoAckT consults the record.     *)
Changes(r, t, kind) ==
  IF kind = "carried" THEN t # row[r].mask
  ELSE \/ t # Accepted(r) \/ t # Observed(r)
       \/ kind = "force" /\ ~row[r].observed

Quiet == ioc.puts = <<>> /\ \A r \in Rows : feed[r] = <<>>

(* Everything was delivered: the rows agree and one of them is monitored.  *)
Agreed ==
  /\ Quiet /\ ioc.online
  /\ \A r, s \in Rows : row[r].mask = row[s].mask
  /\ \E r \in Rows : Monitored(r)

Submitted(record, t) ==
  [record EXCEPT !.accepted = t, !.confirmedBy = {}, !.observed = None]

(* A put that takes back one whose effect is not known yet.                *)
Wanted(t) ==
  [history EXCEPT !.wanted = t,
                  !.reversed = @ \/ (~Quiet /\ ackt.accepted \notin {None, t})]

Disputed == history.others \/ history.reversed

(* A passive display leaves ACKT alone, and a refused write changes none.  *)
Shown(r, t, refused) == IF readOnly \/ refused THEN row[r].mask ELSE t

(* applyMask with bit t and Cancel c; a put is refused unless ok.  A newer  *)
(* request supersedes the deferred one.  A refused bit is kept as it was.  *)
Request(r, t, kind, c, ok) ==
  LET changes == ~readOnly /\ Changes(r, t, kind)
      put     == changes /\ ok
      newer   == [ackt EXCEPT !.requests = @ + 1, !.force = NoForce]
      defer   == changes /\ ~ok /\ kind = "force"
      knows   == kind = "force" \/ ackt.accepted # None \/ ackt.observed # None
  IN  /\ ackt.requests < MaxRequests
      /\ ok => ioc.online /\ changes
      /\ kind = "carried" \/ c = row[r].cancelled
      /\ ackt' = IF readOnly THEN ackt
                 ELSE IF put THEN Submitted(newer, t)
                 ELSE IF defer THEN [newer EXCEPT !.force = [value   |-> t,
                                                             row     |-> r,
                                                             request |-> newer.requests]]
                 ELSE newer
      /\ row' = [row EXCEPT ![r].mask = Shown(r, t, changes /\ ~ok),
                            ![r].cancelled = c]
      /\ ioc' = IF put THEN [ioc EXCEPT !.puts = Append(@, t)] ELSE ioc
      /\ feed' = [feed EXCEPT ![r] = IF c \/ ~ioc.online THEN <<>>
                                     ELSE IF row[r].cancelled THEN <<ioc.bit>> ELSE @]
      /\ history' = IF put THEN Wanted(t)
                    ELSE IF readOnly \/ changes \/ kind = "carried" THEN history
                    ELSE [history EXCEPT !.wanted = IF knows THEN t ELSE @,
                                         !.misled = @ \/ (Disputed /\ ~Agreed)]
      /\ UNCHANGED readOnly

RequestAny ==
  \E r \in Rows, t \in Bits, kind \in {"named", "force", "carried"}, c, ok \in BOOLEAN :
    Request(r, t, kind, c, ok)

(* tick: a deferred force is written once the record accepts it.           *)
RetryForce ==
  LET force == ackt.force
  IN  /\ force # NoForce /\ ioc.online
      /\ ackt' = Submitted([ackt EXCEPT !.force = NoForce], force.value)
      /\ row' = [row EXCEPT ![force.row].mask = force.value]
      /\ ioc' = [ioc EXCEPT !.puts = Append(@, force.value)]
      /\ history' = IF force.request = ackt.requests
                    THEN Wanted(force.value) ELSE history
      /\ UNCHANGED <<feed, readOnly>>

(* The Force PV was edited or disabled.                                    *)
DiscardForce ==
  /\ ackt.force # NoForce
  /\ ackt' = [ackt EXCEPT !.force = NoForce]
  /\ UNCHANGED <<ioc, feed, row, readOnly, history>>

(* Once a row has confirmed the accepted request, a different value from   *)
(* it is a later change.                                                   *)
Confirmed(r, b) ==
  CASE ackt.accepted = b         -> [ackt EXCEPT !.confirmedBy = @ \union {r}]
    [] ackt.accepted # b /\ r \in ackt.confirmedBy
                                 -> [ackt EXCEPT !.accepted = None, !.confirmedBy = {}]
    [] OTHER                     -> ackt

Deliver(r) ==
  /\ feed[r] # <<>>
  /\ feed' = [feed EXCEPT ![r] = Tail(@)]
  /\ row' = [row EXCEPT ![r].mask = Head(feed[r]), ![r].observed = TRUE]
  /\ ackt' = [Confirmed(r, Head(feed[r])) EXCEPT !.observed = Head(feed[r])]
  /\ UNCHANGED <<ioc, readOnly, history>>

Next ==
  \/ Apply \/ OtherClient \/ Break \/ Reconnect
  \/ RequestAny \/ RetryForce \/ DiscardForce
  \/ \E r \in Rows : Deliver(r)

Spec == Init /\ [][Next]_vars
-----------------------------------------------------------------------------
(***************************************************************************)
(* Properties.                                                             *)
(***************************************************************************)

Result == IF ioc.puts = <<>> THEN ioc.bit ELSE ioc.puts[Len(ioc.puts)]

(* As long as nobody else sets ACKT and no write is lost, the record ends  *)
(* up with the newest request: neither a row that has not caught up nor an *)
(* older deferred force may make the engine leave out or repeat a write.   *)
(* Excepted are requests that were left out while the rows disagreed, or   *)
(* all were cancelled, after a write was taken back before it was seen.    *)
NewestRequestWins ==
  ~history.others /\ ~history.misled => Result = history.wanted

(* Once everything is delivered each monitored row shows the bit of the    *)
(* record, however writes were refused, deferred, lost or made by others,  *)
(* and in passive mode too.  Excepted are requests that were left out      *)
(* while the rows disagreed, after a change by another client or a write   *)
(* that was taken back before it was seen.                                 *)
RowsSettle ==
  Quiet /\ ioc.online /\ ~history.misled =>
    \A r \in Rows : ~row[r].cancelled => row[r].mask = ioc.bit

(* RowsFollowRequests: the record follows the newest request, and the rows *)
(* follow the record.                                                      *)
RowsFollowRequests == NewestRequestWins /\ RowsSettle

(* NewestRequestWins without its exception: it does not hold.  Switched    *)
(* on, off and on again within a round trip, an observation from before    *)
(* the first write passes for the confirmation of the second, and that of  *)
(* the first for a later change: the third request is left out.            *)
NewestRequestAlwaysWins ==
  ~history.others => Result = history.wanted
=============================================================================
