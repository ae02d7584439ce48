---------------------------- MODULE PvAccessProofs ----------------------------
(***************************************************************************)
(* Proof that the stream of the pvAccess adapter keeps the promise of      *)
(* PvService and leaves neither direction behind, for every set of         *)
(* observers, size of the inbox and number of observations, outages,       *)
(* writes and overflows.                                                   *)
(***************************************************************************)
EXTENDS PvAccess, SequenceTheorems, TLAPS

(* What is assumed of the constants: severities are numbers, and 0 stands  *)
(* for no write.                                                           *)
Numbers == (\A a \in Alarms : a[1] \in Nat) /\ Severities \subseteq Nat \ {0}

AnyAlarm == Alarms \cup {<<0, 0>>}
Events   == [kind : {"value"}, number : Nat, alarm : AnyAlarm, acks : Nat, ackt : BOOLEAN]
Heard    == Events \cup {Nothing, Outage}
Signals  == [kind : {"connected", "disconnected", "failed", "putReady", "putDone"},
             id : Nat, serial : Nat, ok : BOOLEAN]
Samples  == [kind : {"data"}, id : Nat, serial : Nat, ok : BOOLEAN,
             number : Nat, alarm : Alarms]
Updates  == Signals \cup Samples

Servers ==
  [up : BOOLEAN, fresh : BOOLEAN, setup : BOOLEAN, writing : Nat, posted : Nat,
   failed : BOOLEAN, applied : Nat, outages : Nat]
Inboxes ==
  [updates : Seq(Updates), overflow : BOOLEAN, scheduled : BOOLEAN,
   batch : Seq(Updates), draining : BOOLEAN]
Pvs ==
  [id : Nat, created : BOOLEAN, connected : BOOLEAN, cancelled : BOOLEAN, monitor : Nat,
   subscriptions : Nat, haveLast : BOOLEAN, deadline : BOOLEAN, restarting : BOOLEAN,
   alarm : BOOLEAN, prepared : BOOLEAN]
Writings ==
  [serial : Nat, operations : Nat, ready : BOOLEAN, sending : Nat, queued : Nat,
   pending : Nat, wanted : Nat, refused : BOOLEAN]
Records ==
  [alarm : AnyAlarm, acks : Nat, ackt : BOOLEAN, changed : BOOLEAN, acked : BOOLEAN]
Views ==
  [last : Heard, observers : [Owners -> [live : BOOLEAN, delivered : BOOLEAN, replay : BOOLEAN]],
   told : [Owners -> Heard], fed : {Nothing, Outage} \cup [kind : {"value"}, number : Nat],
   seen : Nat, gap : Nat]

Types ==
  /\ server \in Servers /\ inbox \in Inboxes /\ pv \in Pvs
  /\ writes \in Writings /\ record \in Records /\ view \in Views

(* The updates that were not handled, those that are drained first.        *)
Q == inbox.batch \o inbox.updates
D == 1..Len(Q)

IsData(k)  == Q[k].kind = "data"
Current(k) == Q[k].kind \in {"data", "failed"} /\ Q[k].serial = pv.monitor
Link(k)    == Q[k].kind \in {"connected", "disconnected"} /\ Q[k].id = pv.id

Drains ==
  /\ ~inbox.draining => inbox.batch = <<>>
  /\ inbox.draining \/ inbox.overflow => inbox.scheduled
  /\ ~inbox.scheduled \/ inbox.overflow => inbox.updates = <<>>

(* A subscription exists while the alarm is watched and the channel is     *)
(* made, and only then are there observers.                                *)
Attached ==
  /\ pv.restarting <=> ~pv.created
  /\ ~pv.created => ~server.up /\ ~pv.connected
  /\ pv.monitor # 0 <=> Alarmed /\ pv.created
  /\ pv.monitor <= pv.subscriptions
  /\ pv.connected => ~pv.deadline
  /\ \A o \in Owners : view.observers[o].live => Alarmed
  /\ pv.alarm => ~pv.prepared

(* The marks of the promise, and what is kept for a change of the record.  *)
Marks ==
  /\ view.seen <= server.posted /\ view.gap <= server.posted
  /\ pv.haveLast =>
       /\ Alarmed /\ pv.connected
       /\ view.last \in Events /\ view.last.number = view.seen /\ view.seen > view.gap

(* An observation of this subscription is newer than all that was told.    *)
Queued ==
  \A k \in D :
    /\ Q[k].id <= pv.id /\ (Q[k].id = pv.id => pv.created)
    /\ Q[k].kind \in {"data", "failed"} =>
         Q[k].serial # 0 /\ Q[k].serial <= pv.subscriptions /\ (Current(k) => Q[k].id = pv.id)
    /\ IsData(k) =>
         /\ Q[k].number <= server.posted
         /\ Current(k) => Q[k].number > view.gap /\ Q[k].number > view.seen

Ordered ==
  \A i, j \in D : IsData(i) /\ IsData(j) /\ i < j => Q[i].number < Q[j].number

PromiseInv == Types /\ Drains /\ Attached /\ Marks /\ Queued /\ Ordered

LEMMA InitKept == Init => PromiseInv /\ Promise!Init
<1> SUFFICES ASSUME Init PROVE PromiseInv /\ Promise!Init
  OBVIOUS
<1>1. PICK prepared \in BOOLEAN :
        pv = [id |-> 1, created |-> TRUE, connected |-> FALSE, cancelled |-> FALSE,
              monitor |-> 0, subscriptions |-> 0, haveLast |-> FALSE, deadline |-> TRUE,
              restarting |-> FALSE, alarm |-> FALSE, prepared |-> prepared]
        /\ writes = [serial |-> IF prepared THEN 1 ELSE 0,
                     operations |-> IF prepared THEN 1 ELSE 0, ready |-> FALSE,
                     sending |-> 0, queued |-> 0, pending |-> 0, wanted |-> 0,
                     refused |-> FALSE]
  BY DEF Init
<1>2. /\ inbox = [updates |-> <<>>, overflow |-> FALSE, scheduled |-> FALSE,
                  batch |-> <<>>, draining |-> FALSE]
      /\ server = [up |-> FALSE, fresh |-> FALSE, setup |-> FALSE, writing |-> 0,
                   posted |-> 0, failed |-> FALSE, applied |-> 0, outages |-> 0]
      /\ record = [alarm |-> <<0, 0>>, acks |-> 0, ackt |-> TRUE, changed |-> FALSE,
                   acked |-> FALSE]
      /\ view = [last |-> Nothing, observers |-> [o \in Owners |-> Nobody],
                 told |-> [o \in Owners |-> Nothing], fed |-> Nothing, seen |-> 0, gap |-> 0]
  BY DEF Init
<1>3. Types
  <2>1. <<0, 0>> \in AnyAlarm /\ Nothing \in Heard
    BY DEF AnyAlarm, Heard
  <2>2. pv \in Pvs /\ writes \in Writings
    BY <1>1 DEF Pvs, Writings
  <2>3. server \in Servers /\ inbox \in Inboxes
    BY <1>2 DEF Servers, Inboxes
  <2>4. record \in Records
    BY <1>2, <2>1 DEF Records
  <2>5. view \in Views
    BY <1>2, <2>1 DEF Views, Nobody
  <2> QED BY <2>2, <2>3, <2>4, <2>5 DEF Types
<1>4. Q = <<>> /\ Len(Q) = 0
  BY <1>2 DEF Q
<1>5. Drains /\ Attached /\ Marks
  BY <1>1, <1>2 DEF Drains, Attached, Marks, Alarmed, Nobody
<1>6. Queued /\ Ordered
  BY <1>4 DEF Queued, Ordered, D
<1>7. Promise!Init
  BY <1>1, <1>2 DEF Promise!Init, Alarmed, Nothing, Promise!Nothing
<1> QED BY <1>3, <1>5, <1>6, <1>7 DEF PromiseInv
-----------------------------------------------------------------------------
(***************************************************************************)
(* The queue of updates: it grows at the end, loses its first, or what is  *)
(* not drained yet is dropped.                                             *)
(***************************************************************************)
Grown(u) == ~inbox.overflow /\ ~inbox'.overflow /\ Q' = Append(Q, u)
Dropped  == inbox'.overflow /\ \A k \in D' : k \in D /\ Q'[k] = Q[k]

LEMMA PostedQueue ==
  ASSUME Types, Drains, NEW u \in Updates, inbox' = Posted(u)
  PROVE  inbox' \in Inboxes /\ Drains' /\ (Grown(u) \/ Dropped)
<1>1. inbox \in Inboxes
  BY DEF Types
<1>2. CASE inbox.overflow
  <2>1. inbox' = [inbox EXCEPT !.scheduled = TRUE]
    BY <1>2 DEF Posted
  <2>2. inbox' \in Inboxes /\ Drains' /\ Q' = Q /\ inbox'.overflow
    BY <1>1, <1>2, <2>1 DEF Inboxes, Drains, Q
  <2> QED BY <2>2 DEF Dropped, D
<1>3. CASE ~inbox.overflow /\ Len(inbox.updates) < InboxLimit
  <2>1. inbox' = [inbox EXCEPT !.updates = Append(@, u), !.overflow = FALSE, !.scheduled = TRUE]
    BY <1>3 DEF Posted
  <2>2. Append(inbox.updates, u) \in Seq(Updates)
    BY <1>1 DEF Inboxes
  <2>3. inbox' \in Inboxes /\ inbox'.updates = Append(inbox.updates, u) /\ inbox'.batch = inbox.batch
        /\ ~inbox'.overflow /\ inbox'.scheduled /\ inbox'.draining = inbox.draining
    BY <1>1, <2>1, <2>2 DEF Inboxes
  <2>4. inbox.batch \o Append(inbox.updates, u) = Append(inbox.batch \o inbox.updates, u)
    BY <1>1 DEF Inboxes
  <2> QED BY <1>3, <2>3, <2>4 DEF Grown, Q, Drains
<1>4. CASE ~inbox.overflow /\ ~(Len(inbox.updates) < InboxLimit)
  <2>1. inbox' = [inbox EXCEPT !.updates = <<>>, !.overflow = TRUE, !.scheduled = TRUE]
    BY <1>4 DEF Posted
  <2>2. inbox' \in Inboxes /\ inbox'.updates = <<>> /\ inbox'.batch = inbox.batch
        /\ inbox'.overflow /\ inbox'.scheduled /\ inbox'.draining = inbox.draining
    <3>1. <<>> \in Seq(Updates)
      OBVIOUS
    <3> QED BY <1>1, <2>1, <3>1 DEF Inboxes
  <2>3. Q' = inbox.batch
    <3>1. inbox.batch \o <<>> = inbox.batch
      BY <1>1, ConcatEmptySeq DEF Inboxes
    <3> QED BY <2>2, <3>1 DEF Q
  <2>4. \A k \in 1..Len(inbox.batch) :
          k \in 1..Len(inbox.batch \o inbox.updates)
          /\ (inbox.batch \o inbox.updates)[k] = inbox.batch[k]
    BY <1>1 DEF Inboxes
  <2>5. Dropped
    BY <2>2, <2>3, <2>4 DEF Dropped, D, Q
  <2> QED BY <2>2, <2>5 DEF Drains
<1> QED BY <1>1, <1>2, <1>3, <1>4 DEF Inboxes

LEMMA QueueType ==
  ASSUME inbox \in Inboxes
  PROVE  Q \in Seq(Updates) /\ Len(Q) \in Nat /\ \A k \in D : Q[k] \in Updates
  BY DEF Inboxes, Q, D

LEMMA GrownQueue ==
  ASSUME inbox \in Inboxes, NEW u \in Updates, Grown(u)
  PROVE  /\ Len(Q)' = Len(Q) + 1 /\ Len(Q) \in Nat /\ Q'[Len(Q) + 1] = u /\ Len(Q) + 1 \in D'
         /\ \A k \in D : k \in D' /\ Q'[k] = Q[k] /\ k < Len(Q) + 1
         /\ \A k \in D' : k \in D \/ (k = Len(Q) + 1 /\ Q'[k] = u)
<1>1. Q \in Seq(Updates) /\ Len(Q) \in Nat
  BY QueueType
<1>2. Q' = Append(Q, u)
  BY DEF Grown
<1>3. Len(Q)' = Len(Q) + 1 /\ Q'[Len(Q) + 1] = u
  BY <1>1, <1>2
<1>4. \A k \in 1..Len(Q) : k \in 1..(Len(Q) + 1) /\ Q'[k] = Q[k] /\ k < Len(Q) + 1
  BY <1>1, <1>2
<1>5. \A k \in 1..(Len(Q) + 1) : k \in 1..Len(Q) \/ k = Len(Q) + 1
  BY <1>1
<1> QED BY <1>1, <1>3, <1>4, <1>5 DEF D

LEMMA TailConcat ==
  ASSUME NEW S, NEW s \in Seq(S), NEW t \in Seq(S), s # <<>>
  PROVE  /\ s \o t # <<>> /\ Head(s \o t) = Head(s)
         /\ Tail(s) \o t = Tail(s \o t)
<1>1. Tail(s) \in Seq(S) /\ Len(Tail(s)) = Len(s) - 1 /\ Len(s) \in Nat /\ Len(s) > 0
      /\ Len(t) \in Nat
  OBVIOUS
<1>2. /\ s \o t \in Seq(S) /\ Len(s \o t) = Len(s) + Len(t)
      /\ \A i \in 1..(Len(s) + Len(t)) :
           (s \o t)[i] = IF i <= Len(s) THEN s[i] ELSE t[i - Len(s)]
  BY ConcatProperties
<1>3. /\ Tail(s) \o t \in Seq(S) /\ Len(Tail(s) \o t) = Len(Tail(s)) + Len(t)
      /\ \A i \in 1..(Len(Tail(s)) + Len(t)) :
           (Tail(s) \o t)[i] = IF i <= Len(Tail(s)) THEN Tail(s)[i] ELSE t[i - Len(Tail(s))]
  BY <1>1, ConcatProperties
<1> DEFINE c == s \o t
           d == Tail(s) \o t
<1>4. c # <<>> /\ Head(c) = c[1]
  <2>1. Len(c) > 0
    BY <1>1, <1>2
  <2> HIDE DEF c
  <2> QED BY <1>2, <2>1
<1>5. c[1] = s[1] /\ s[1] = Head(s)
  BY <1>1, <1>2
<1>6. /\ Tail(c) \in Seq(S) /\ Len(Tail(c)) = Len(c) - 1
      /\ \A i \in 1..(Len(c) - 1) : Tail(c)[i] = c[i + 1]
  <2>1. c \in Seq(S)
    BY <1>2
  <2> HIDE DEF c
  <2> QED BY <1>4, <2>1
<1>7. Len(d) = Len(Tail(c))
  BY <1>1, <1>2, <1>3, <1>6
<1>8. ASSUME NEW i \in 1..Len(d) PROVE d[i] = Tail(c)[i]
  <2>1. i \in 1..(Len(s) - 1 + Len(t)) /\ i + 1 \in 1..(Len(s) + Len(t)) /\ i \in Nat
        /\ i \in 1..(Len(c) - 1)
    BY <1>1, <1>2, <1>3, <1>8
  <2>2. Tail(c)[i] = c[i + 1]
    BY <1>6, <2>1
  <2>3. CASE i <= Len(s) - 1
    <3>1. Tail(s)[i] = s[i + 1] /\ i + 1 <= Len(s)
      BY <1>1, <2>1, <2>3
    <3> QED BY <1>1, <1>2, <1>3, <2>1, <2>2, <2>3, <3>1
  <2>4. CASE ~(i <= Len(s) - 1)
    <3>1. ~(i + 1 <= Len(s)) /\ (i + 1) - Len(s) = i - (Len(s) - 1)
      BY <1>1, <2>1, <2>4
    <3> QED BY <1>1, <1>2, <1>3, <2>1, <2>2, <2>4, <3>1
  <2> QED BY <2>3, <2>4
<1>9. d = Tail(c)
  <2>1. d \in Seq(S)
    BY <1>3
  <2> HIDE DEF c, d
  <2> QED BY <1>6, <1>7, <1>8, <2>1, SeqEqual
<1> QED BY <1>4, <1>5, <1>9

LEMMA TailQueue ==
  ASSUME Types, inbox.batch # <<>>, inbox' = [inbox EXCEPT !.batch = Tail(@)]
  PROVE  /\ inbox' \in Inboxes /\ inbox'.overflow = inbox.overflow
         /\ inbox'.scheduled = inbox.scheduled /\ inbox'.draining = inbox.draining
         /\ inbox'.updates = inbox.updates
         /\ Head(inbox.batch) \in Updates /\ Q[1] = Head(inbox.batch) /\ 1 \in D
         /\ Len(Q) \in Nat /\ Len(Q)' = Len(Q) - 1
         /\ \A k \in D' : k + 1 \in D /\ Q'[k] = Q[k + 1] /\ 1 < k + 1 /\ k \in Nat
         /\ \A k \in D : k = 1 \/ (k > 1 /\ k - 1 \in D' /\ Q[k] = Q'[k - 1])
<1>1. inbox.batch \in Seq(Updates) /\ inbox.updates \in Seq(Updates)
  BY DEF Types, Inboxes
<1>2. /\ Tail(inbox.batch) \in Seq(Updates) /\ Head(inbox.batch) \in Updates
      /\ Head(inbox.batch) = inbox.batch[1] /\ Len(inbox.batch) > 0 /\ Len(inbox.batch) \in Nat
      /\ Len(Tail(inbox.batch)) = Len(inbox.batch) - 1
      /\ \A k \in 1..Len(Tail(inbox.batch)) : Tail(inbox.batch)[k] = inbox.batch[k + 1]
  BY <1>1
<1>3. /\ inbox' \in Inboxes /\ inbox'.overflow = inbox.overflow
      /\ inbox'.scheduled = inbox.scheduled /\ inbox'.draining = inbox.draining
      /\ inbox'.updates = inbox.updates /\ inbox'.batch = Tail(inbox.batch)
  BY <1>2 DEF Types, Inboxes
<1>4. Q = inbox.batch \o inbox.updates /\ Q' = Tail(inbox.batch) \o inbox.updates
  BY <1>3 DEF Q
<1>5. Q' = Tail(Q) /\ Q # <<>> /\ Q \in Seq(Updates) /\ Head(Q) = Head(inbox.batch)
  <2>1. inbox.batch \o inbox.updates \in Seq(Updates)
    BY <1>1
  <2>2. /\ inbox.batch \o inbox.updates # <<>>
        /\ Head(inbox.batch \o inbox.updates) = Head(inbox.batch)
        /\ Tail(inbox.batch) \o inbox.updates = Tail(inbox.batch \o inbox.updates)
    BY <1>1, TailConcat
  <2> QED BY <1>4, <2>1, <2>2
<1>6. /\ Len(Q) \in Nat /\ Len(Q) > 0 /\ Len(Q)' = Len(Q) - 1 /\ Q[1] = Head(Q)
      /\ \A k \in 1..(Len(Q) - 1) : Tail(Q)[k] = Q[k + 1]
  BY <1>5
<1>7. \A k \in D' : k + 1 \in D /\ Q'[k] = Q[k + 1] /\ 1 < k + 1 /\ k \in Nat
  <2>1. \A k \in 1..(Len(Q) - 1) : k + 1 \in 1..Len(Q) /\ 1 < k + 1 /\ k \in Nat
    BY <1>6
  <2> QED BY <1>5, <1>6, <2>1 DEF D
<1>8. ASSUME NEW k \in D, k # 1
      PROVE  k > 1 /\ k - 1 \in D' /\ Q[k] = Q'[k - 1]
  <2>1. k > 1 /\ k - 1 \in 1..(Len(Q) - 1) /\ (k - 1) + 1 = k
    BY <1>6, <1>8 DEF D
  <2> QED BY <1>5, <1>6, <2>1 DEF D
<1> QED BY <1>2, <1>3, <1>5, <1>6, <1>7, <1>8 DEF D
-----------------------------------------------------------------------------
(***************************************************************************)
(* What the observers are told.                                            *)
(***************************************************************************)
LEMMA DeliveredView ==
  ASSUME Types, NEW e \in Events \cup {Outage}
  PROVE  LET v == Delivered(e) IN
         /\ v \in Views /\ v.last = e
         /\ \A o \in Owners :
              /\ v.observers[o].live = view.observers[o].live
              /\ view.observers[o].live =>
                   v.observers[o].delivered /\ ~v.observers[o].replay /\ v.told[o] = e
              /\ ~view.observers[o].live =>
                   v.observers[o] = view.observers[o] /\ v.told[o] = view.told[o]
         /\ e = Outage => /\ v.fed = Outage /\ v.seen = view.seen
                          /\ v.gap = IF view.seen > view.gap THEN view.seen ELSE view.gap
         /\ e \in Events => v.fed = Value(e.number) /\ v.seen = e.number /\ v.gap = view.gap
<1> DEFINE v == Delivered(e)
           value == e.kind = "value"
           t == [o \in Owners |-> IF view.observers[o].live THEN e ELSE view.told[o]]
           f == IF value THEN Value(e.number) ELSE e
           n == IF value THEN e.number ELSE view.seen
           g == IF ~value /\ view.seen > view.gap THEN view.seen ELSE view.gap
<1>1. view \in Views
  BY DEF Types
<1>2. v = [view EXCEPT !.last = e, !.observers = Hears(e), !.told = t, !.fed = f, !.seen = n,
                       !.gap = g]
  BY <1>1 DEF Delivered, Views
<1>3. /\ e \in Events => value /\ e # Outage
      /\ e = Outage => ~value
  BY DEF Events, Outage
<1>4. Hears(e) \in [Owners -> [live : BOOLEAN, delivered : BOOLEAN, replay : BOOLEAN]]
  BY <1>1 DEF Views, Hears
<1>5. t \in [Owners -> Heard] /\ e \in Heard
  BY <1>1 DEF Views, Heard
<1>6. f \in {Nothing, Outage} \cup [kind : {"value"}, number : Nat] /\ n \in Nat /\ g \in Nat
  BY <1>1, <1>3 DEF Views, Events, Value
<1>7. \A o \in Owners :
        /\ Hears(e)[o].live = view.observers[o].live
        /\ view.observers[o].live =>
             Hears(e)[o].delivered /\ ~Hears(e)[o].replay /\ t[o] = e
        /\ ~view.observers[o].live =>
             Hears(e)[o] = view.observers[o] /\ t[o] = view.told[o]
  BY <1>1 DEF Views, Hears
<1>8. /\ e = Outage => f = Outage /\ n = view.seen
                       /\ g = IF view.seen > view.gap THEN view.seen ELSE view.gap
      /\ e \in Events => f = Value(e.number) /\ n = e.number /\ g = view.gap
  BY <1>3
<1> HIDE DEF v, value, t, f, n, g
<1>9. /\ v \in Views /\ v.last = e /\ v.observers = Hears(e) /\ v.told = t /\ v.fed = f
      /\ v.seen = n /\ v.gap = g
  BY <1>1, <1>2, <1>4, <1>5, <1>6 DEF Views
<1> QED BY <1>7, <1>8, <1>9 DEF v

LEMMA EventType ==
  ASSUME NEW n \in Nat, NEW r \in Records
  PROVE  Event(n, r) \in Events /\ Event(n, r).number = n
  BY DEF Event, Events, Records

(* A step of the promise, or none.                                         *)
Tells == Promise!Next \/ UNCHANGED Promise!vars

LEMMA OutageTold ==
  ASSUME Types, Alarmed, Alarmed', server'.posted = server.posted,
         view'.fed = Outage, view'.seen = view.seen,
         view'.gap = IF view.seen > view.gap THEN view.seen ELSE view.gap
  PROVE  Tells
<1>1. Promise!Lose
  BY DEF Promise!Lose, Outage, Promise!Outage
<1> QED BY <1>1 DEF Tells, Promise!Next

LEMMA ValueTold ==
  ASSUME Types, Alarmed, Alarmed', server'.posted = server.posted,
         NEW n \in Nat, n > view.gap, n >= view.seen, n <= server.posted,
         view'.fed = Value(n), view'.seen = n, view'.gap = view.gap
  PROVE  Tells
<1>1. Promise!Tell(n)
  BY DEF Promise!Tell, Value, Promise!Value
<1>2. n \in 1..server.posted
  BY DEF Types, Servers, Views
<1> QED BY <1>1, <1>2 DEF Tells, Promise!Next

LEMMA NothingTold ==
  ASSUME Alarmed' = Alarmed, server'.posted = server.posted, view'.fed = view.fed,
         view'.seen = view.seen, view'.gap = view.gap
  PROVE  Tells
  BY DEF Tells, Promise!vars
-----------------------------------------------------------------------------
(***************************************************************************)
(* Steps that keep the subscription.                                       *)
(***************************************************************************)
(* The marks move no further than the observations up to n.                *)
Moved(n) ==
  /\ Tells
  /\ server' \in Servers /\ pv' \in Pvs /\ writes' \in Writings
  /\ record' \in Records /\ view' \in Views
  /\ server'.posted = server.posted /\ pv'.id = pv.id
  /\ pv'.created = pv.created /\ pv'.monitor = pv.monitor /\ pv'.subscriptions = pv.subscriptions
  /\ Attached' /\ Marks'
  /\ \A m \in Nat : m > view.gap /\ m > view.seen /\ m > n => m > view'.gap /\ m > view'.seen

LEMMA SameQueue ==
  ASSUME PromiseInv, Moved(0), inbox' \in Inboxes, Drains', Q' = Q
  PROVE  PromiseInv'
<1>1. Types /\ Drains /\ Attached /\ Marks /\ Queued /\ Ordered
  BY DEF PromiseInv
<1>2. Types' /\ Ordered' /\ D' = D
  BY <1>1 DEF Types, Ordered, IsData, D, Moved
<1>3. Queued'
  <2> SUFFICES ASSUME NEW k \in D
               PROVE  /\ Q[k].id <= pv.id /\ (Q[k].id = pv.id => pv.created)
                      /\ Q[k].kind \in {"data", "failed"} =>
                           /\ Q[k].serial # 0 /\ Q[k].serial <= pv.subscriptions
                           /\ Current(k) => Q[k].id = pv.id
                      /\ IsData(k) =>
                           /\ Q[k].number <= server.posted
                           /\ Current(k) => Q[k].number > view'.gap /\ Q[k].number > view'.seen
    BY <1>2 DEF Queued, Current, IsData, Moved
  <2>1. Q[k] \in Updates
    BY <1>1, QueueType DEF Types
  <2>2. IsData(k) => Q[k].number \in Nat
    BY <2>1 DEF IsData, Updates, Signals, Samples
  <2>3. IsData(k) /\ Q[k].number > 0 /\ Q[k].number > view.gap /\ Q[k].number > view.seen =>
          Q[k].number > view'.gap /\ Q[k].number > view'.seen
    BY <2>2 DEF Moved
  <2>4. IsData(k) /\ Q[k].number > view.gap => Q[k].number > 0
    BY <1>1, <2>2 DEF Types, Views
  <2> QED BY <1>1, <2>3, <2>4 DEF Queued
<1> QED BY <1>2, <1>3 DEF PromiseInv, Moved

(* The first update is handled, an observation numbered n or none.         *)
LEMMA TailKept ==
  ASSUME PromiseInv, NEW n \in Nat, Moved(n), inbox.draining, inbox.batch # <<>>,
         inbox' = [inbox EXCEPT !.batch = Tail(@)],
         n = 0 \/ (IsData(1) /\ n = Q[1].number)
  PROVE  PromiseInv'
<1>1. Types /\ Drains /\ Attached /\ Marks /\ Queued /\ Ordered
  BY DEF PromiseInv
<1>2. /\ inbox' \in Inboxes /\ inbox'.overflow = inbox.overflow
      /\ inbox'.scheduled = inbox.scheduled /\ inbox'.draining = inbox.draining
      /\ inbox'.updates = inbox.updates /\ 1 \in D
      /\ \A k \in D' : k + 1 \in D /\ Q'[k] = Q[k + 1] /\ 1 < k + 1 /\ k \in Nat
  BY <1>1, TailQueue
<1>3. Types' /\ Drains'
  BY <1>1, <1>2 DEF Types, Drains, Moved
<1>4. Ordered'
  <2> SUFFICES ASSUME NEW i \in D', NEW j \in D', Q'[i].kind = "data", Q'[j].kind = "data", i < j
               PROVE  Q'[i].number < Q'[j].number
    BY DEF Ordered, IsData
  <2>1. /\ i + 1 \in D /\ j + 1 \in D /\ i + 1 < j + 1 /\ IsData(i + 1) /\ IsData(j + 1)
        /\ Q'[i] = Q[i + 1] /\ Q'[j] = Q[j + 1]
    BY <1>2 DEF IsData
  <2> QED BY <1>1, <2>1 DEF Ordered
<1>5. Queued'
  <2> SUFFICES ASSUME NEW j \in D'
               PROVE  /\ Q'[j].id <= pv.id /\ (Q'[j].id = pv.id => pv.created)
                      /\ Q'[j].kind \in {"data", "failed"} =>
                           /\ Q'[j].serial # 0 /\ Q'[j].serial <= pv.subscriptions
                           /\ Q'[j].serial = pv.monitor => Q'[j].id = pv.id
                      /\ Q'[j].kind = "data" =>
                           /\ Q'[j].number <= server.posted
                           /\ Q'[j].serial = pv.monitor =>
                                Q'[j].number > view'.gap /\ Q'[j].number > view'.seen
    BY DEF Queued, Current, IsData, Moved
  <2>1. j + 1 \in D /\ Q'[j] = Q[j + 1] /\ 1 < j + 1
    BY <1>2
  <2>2. PICK k \in D : k = j + 1 /\ Q'[j] = Q[k] /\ 1 < k
    BY <2>1
  <2>3. Q[k] \in Updates
    BY <1>1, QueueType DEF Types
  <2>4. IsData(k) => Q[k].number \in Nat
    BY <2>3 DEF IsData, Updates, Signals, Samples
  <2>5. ASSUME IsData(k), Current(k)
        PROVE  Q[k].number > view'.gap /\ Q[k].number > view'.seen
    <3>1. Q[k].number > view.gap /\ Q[k].number > view.seen
      BY <1>1, <2>5 DEF Queued
    <3>2. Q[k].number > n
      <4>1. CASE n = 0
        BY <1>1, <2>4, <2>5, <3>1, <4>1 DEF Types, Views
      <4>2. CASE IsData(1) /\ n = Q[1].number
        BY <1>1, <1>2, <2>2, <2>5, <4>2 DEF Ordered
      <4> QED BY <4>1, <4>2
    <3> QED BY <2>4, <2>5, <3>1, <3>2 DEF Moved
  <2> QED BY <1>1, <2>2, <2>5 DEF Queued, IsData, Current
<1> QED BY <1>3, <1>4, <1>5 DEF PromiseInv, Moved

(***************************************************************************)
(* Steps that add an update, renew the subscription, or make the channel   *)
(* again.                                                                  *)
(***************************************************************************)
LEMMA PostKept ==
  ASSUME PromiseInv, NEW u \in Updates, inbox' = Posted(u),
         UNCHANGED <<pv, writes, record, view>>, server' \in Servers,
         pv.created, u.id = pv.id,
         u.kind \in {"data", "failed"} => u.serial = pv.monitor /\ pv.monitor # 0,
         IF u.kind = "data"
         THEN server'.posted = server.posted + 1 /\ u.number = server'.posted
         ELSE server'.posted = server.posted
  PROVE  PromiseInv' /\ Tells
<1>1. Types /\ Drains /\ Attached /\ Marks /\ Queued /\ Ordered
  BY DEF PromiseInv
<1>2. inbox' \in Inboxes /\ Drains' /\ (Grown(u) \/ Dropped)
  BY <1>1, PostedQueue
<1>3. Types'
  BY <1>1, <1>2 DEF Types
<1>4. server.posted \in Nat /\ server'.posted \in Nat /\ server.posted <= server'.posted
  BY <1>1 DEF Types, Servers
<1>5. Marks' /\ Attached'
  BY <1>1, <1>4 DEF Marks, Attached, Alarmed, Types, Views
<1>6. \A k \in D' : (k \in D /\ Q'[k] = Q[k]) \/ (Grown(u) /\ k = Len(Q) + 1 /\ Q'[k] = u)
  <2>1. CASE Grown(u)
    BY <1>1, <2>1, GrownQueue DEF Types
  <2>2. CASE Dropped
    BY <2>2 DEF Dropped
  <2> QED BY <1>2, <2>1, <2>2
<1>7. \A k \in D : k \in Nat /\ k < Len(Q) + 1 /\ Q[k] \in Updates /\ Len(Q) \in Nat
  BY <1>1, QueueType DEF Types, D
<1>8. Queued'
  <2> SUFFICES ASSUME NEW k \in D'
               PROVE  /\ Q'[k].id <= pv.id /\ (Q'[k].id = pv.id => pv.created)
                      /\ Q'[k].kind \in {"data", "failed"} =>
                           /\ Q'[k].serial # 0 /\ Q'[k].serial <= pv.subscriptions
                           /\ Q'[k].serial = pv.monitor => Q'[k].id = pv.id
                      /\ Q'[k].kind = "data" =>
                           /\ Q'[k].number <= server'.posted
                           /\ Q'[k].serial = pv.monitor =>
                                Q'[k].number > view.gap /\ Q'[k].number > view.seen
    BY DEF Queued, Current, IsData
  <2>1. CASE k \in D /\ Q'[k] = Q[k]
    <3>1. IsData(k) => Q[k].number \in Nat
      BY <1>7, <2>1 DEF IsData, Updates, Signals, Samples
    <3>2. IsData(k) => Q[k].number <= server'.posted
      BY <1>1, <1>4, <2>1, <3>1 DEF Queued
    <3> QED BY <1>1, <2>1, <3>2 DEF Queued, IsData, Current
  <2>2. CASE Q'[k] = u
    <3>1. pv.id \in Nat /\ pv.id <= pv.id /\ pv.monitor <= pv.subscriptions
      BY <1>1 DEF Types, Pvs, Attached
    <3>2. u.kind = "data" => u.number > view.gap /\ u.number > view.seen /\ u.number <= server'.posted
      BY <1>1, <1>4 DEF Marks, Types, Views
    <3> QED BY <2>2, <3>1, <3>2
  <2> QED BY <1>6, <2>1, <2>2
<1>9. Ordered'
  <2> SUFFICES ASSUME NEW i \in D', NEW j \in D', Q'[i].kind = "data", Q'[j].kind = "data", i < j
               PROVE  Q'[i].number < Q'[j].number
    BY DEF Ordered, IsData
  <2>1. CASE j \in D /\ Q'[j] = Q[j]
    <3>1. i \in D /\ Q'[i] = Q[i]
      <4>1. ~(i = Len(Q) + 1)
        BY <1>7, <2>1
      <4> QED BY <1>6, <4>1
    <3> QED BY <1>1, <2>1, <3>1 DEF Ordered, IsData
  <2>2. CASE Grown(u) /\ j = Len(Q) + 1 /\ Q'[j] = u
    <3>1. i \in D /\ Q'[i] = Q[i]
      <4>1. Len(Q) \in Nat
        BY <1>1, QueueType DEF Types
      <4>2. ~(i = Len(Q) + 1)
        BY <2>2, <4>1
      <4> QED BY <1>6, <4>2
    <3>2. Q[i].number \in Nat /\ Q[i].number <= server.posted
      BY <1>1, <1>7, <3>1 DEF Queued, IsData, Updates, Signals, Samples
    <3> QED BY <1>4, <2>2, <3>1, <3>2
  <2> QED BY <1>6, <2>1, <2>2
<1>10. Tells
  <2>1. CASE u.kind = "data"
    <3>1. Promise!Observe
      BY <2>1 DEF Promise!Observe, Alarmed
    <3> QED BY <3>1 DEF Tells, Promise!Next
  <2>2. CASE u.kind # "data"
    BY <2>2, NothingTold DEF Alarmed
  <2> QED BY <2>1, <2>2
<1> QED BY <1>3, <1>2, <1>5, <1>8, <1>9, <1>10 DEF PromiseInv

(* What was posted for a subscription that ended is stale.                 *)
LEMMA RenewedKept ==
  ASSUME PromiseInv, Types', Attached', Marks', UNCHANGED inbox,
         server'.posted = server.posted, pv'.id = pv.id, pv.created => pv'.created,
         pv.subscriptions <= pv'.subscriptions,
         \/ pv'.monitor = 0 \/ pv'.monitor > pv.subscriptions
         \/ pv'.monitor = pv.monitor /\ view'.gap = view.gap /\ view'.seen = view.seen
  PROVE  PromiseInv'
<1>1. Types /\ Drains /\ Attached /\ Marks /\ Queued /\ Ordered
  BY DEF PromiseInv
<1>2. Q' = Q /\ D' = D /\ Drains' /\ Ordered'
  BY <1>1 DEF Q, D, Drains, Ordered, IsData
<1>3. Queued'
  <2> SUFFICES ASSUME NEW k \in D
               PROVE  /\ Q[k].id <= pv.id /\ (Q[k].id = pv.id => pv'.created)
                      /\ Q[k].kind \in {"data", "failed"} =>
                           /\ Q[k].serial # 0 /\ Q[k].serial <= pv'.subscriptions
                           /\ Q[k].serial = pv'.monitor => Q[k].id = pv.id
                      /\ IsData(k) =>
                           /\ Q[k].number <= server.posted
                           /\ Q[k].serial = pv'.monitor =>
                                Q[k].number > view'.gap /\ Q[k].number > view'.seen
    BY <1>2 DEF Queued, Current, IsData
  <2>1. Q[k] \in Updates
    BY <1>1, QueueType DEF Types
  <2>2. Q[k].serial \in Nat /\ pv.subscriptions \in Nat /\ pv'.subscriptions \in Nat
        /\ pv'.monitor \in Nat
    BY <1>1, <2>1 DEF Updates, Signals, Samples, Types, Pvs
  <2>3. Q[k].kind \in {"data", "failed"} =>
          /\ Q[k].serial # 0 /\ Q[k].serial <= pv.subscriptions /\ Q[k].serial <= pv'.subscriptions
          /\ Q[k].serial = pv'.monitor =>
               pv'.monitor = pv.monitor /\ view'.gap = view.gap /\ view'.seen = view.seen
    BY <1>1, <2>2 DEF Queued
  <2> QED BY <1>1, <2>3 DEF Queued, IsData, Current
<1> QED BY <1>1, <1>2, <1>3 DEF PromiseInv

LEMMA SubscribedPv ==
  ASSUME NEW p \in Pvs
  PROVE  LET q == Subscribed(p) IN
         /\ q \in Pvs /\ q.id = p.id /\ q.created = p.created /\ q.connected = p.connected
         /\ q.cancelled = p.cancelled /\ q.haveLast = p.haveLast /\ q.deadline = p.deadline
         /\ q.restarting = p.restarting /\ q.alarm = p.alarm /\ q.prepared = p.prepared
         /\ p.subscriptions <= q.subscriptions
         /\ \/ /\ p.cancelled \/ ~p.created \/ p.monitor # 0 \/ ~p.alarm
               /\ q.monitor = p.monitor /\ q.subscriptions = p.subscriptions
            \/ /\ ~p.cancelled /\ p.created /\ p.monitor = 0 /\ p.alarm
               /\ q.monitor = p.subscriptions + 1 /\ q.subscriptions = q.monitor
<1>1. CASE p.cancelled \/ ~p.created \/ p.monitor # 0 \/ ~p.alarm
  <2>1. Subscribed(p) = p
    BY <1>1 DEF Subscribed
  <2>2. p.subscriptions <= p.subscriptions
    BY DEF Pvs
  <2> QED BY <1>1, <2>1, <2>2
<1>2. CASE ~(p.cancelled \/ ~p.created \/ p.monitor # 0 \/ ~p.alarm)
  <2>1. Subscribed(p) = [p EXCEPT !.subscriptions = p.subscriptions + 1,
                                  !.monitor = p.subscriptions + 1]
    BY <1>2 DEF Subscribed, Pvs
  <2>2. p.subscriptions + 1 \in Nat /\ p.subscriptions <= p.subscriptions + 1
    BY DEF Pvs
  <2> QED BY <1>2, <2>1, <2>2 DEF Pvs
<1> QED BY <1>1, <1>2
-----------------------------------------------------------------------------
(***************************************************************************)
(* The threads of pvAccess.                                                *)
(***************************************************************************)
LEMMA UpdateType ==
  ASSUME Types, NEW k \in {"connected", "disconnected", "failed", "putReady", "putDone"},
         NEW n \in Nat, NEW ok \in BOOLEAN
  PROVE  /\ Update(k, n, ok) \in Updates
         /\ Update(k, n, ok).kind = k /\ Update(k, n, ok).id = pv.id
         /\ Update(k, n, ok).serial = n /\ Update(k, n, ok).ok = ok
  BY DEF Update, Updates, Signals, Types, Pvs

LEMMA SampleType ==
  ASSUME Types, NEW a \in Alarms
  PROVE  LET u == [kind |-> "data", id |-> pv.id, serial |-> pv.monitor, ok |-> TRUE,
                   number |-> server.posted + 1, alarm |-> a]
         IN  /\ u \in Updates /\ u.kind = "data" /\ u.id = pv.id /\ u.serial = pv.monitor
             /\ u.number = server.posted + 1
<1>1. server.posted + 1 \in Nat
  BY DEF Types, Servers
<1> QED BY <1>1 DEF Updates, Samples, Types, Pvs

LEMMA ConnectKept == PromiseInv /\ Connect => PromiseInv' /\ Tells
<1> SUFFICES ASSUME PromiseInv, Connect PROVE PromiseInv' /\ Tells
  OBVIOUS
<1>1. Types
  BY DEF PromiseInv
<1> DEFINE u == Update("connected", 0, TRUE)
<1>2. u \in Updates /\ u.kind = "connected" /\ u.id = pv.id
  BY <1>1 DEF Update, Updates, Signals, Types, Pvs
<1>3. server' \in Servers /\ server'.posted = server.posted
  BY <1>1 DEF Connect, Types, Servers
<1>4. inbox' = Posted(u) /\ pv.created /\ UNCHANGED <<pv, writes, record, view>>
  BY DEF Connect
<1> HIDE DEF u
<1> QED BY <1>2, <1>3, <1>4, PostKept

LEMMA DisconnectKept == PromiseInv /\ Disconnect => PromiseInv' /\ Tells
<1> SUFFICES ASSUME PromiseInv, Disconnect PROVE PromiseInv' /\ Tells
  OBVIOUS
<1>1. Types /\ Attached
  BY DEF PromiseInv
<1> DEFINE u == Update("disconnected", 0, TRUE)
<1>2. u \in Updates /\ u.kind = "disconnected" /\ u.id = pv.id
  BY <1>1 DEF Update, Updates, Signals, Types, Pvs
<1>3. PICK a \in CutOff(server) :
        server' = [Lost(server) EXCEPT !.outages = @ + 1, !.applied = a]
  BY DEF Disconnect
<1>4. a \in Nat /\ server.outages + 1 \in Nat
  BY <1>1 DEF CutOff, Types, Servers
<1>5. server' \in Servers /\ server'.posted = server.posted
  BY <1>1, <1>3, <1>4 DEF Lost, Types, Servers
<1>6. inbox' = Posted(u) /\ pv.created /\ UNCHANGED <<pv, writes, record, view>>
  BY <1>1 DEF Disconnect, Attached
<1> HIDE DEF u
<1> QED BY <1>2, <1>5, <1>6, PostKept

LEMMA DataKept == PromiseInv /\ Data => PromiseInv' /\ Tells
<1> SUFFICES ASSUME PromiseInv, Data PROVE PromiseInv' /\ Tells
  OBVIOUS
<1>1. Types /\ Attached
  BY DEF PromiseInv
<1>2. PICK a \in Alarms :
        inbox' = Posted([kind |-> "data", id |-> pv.id, serial |-> pv.monitor, ok |-> TRUE,
                         number |-> server.posted + 1, alarm |-> a])
  BY DEF Data
<1> DEFINE u == [kind |-> "data", id |-> pv.id, serial |-> pv.monitor, ok |-> TRUE,
                 number |-> server.posted + 1, alarm |-> a]
<1>3. server.posted + 1 \in Nat
  BY <1>1 DEF Types, Servers
<1>4. /\ u \in Updates /\ u.kind = "data" /\ u.id = pv.id /\ u.serial = pv.monitor
      /\ u.number = server.posted + 1
  BY <1>1, <1>3 DEF Updates, Samples, Types, Pvs
<1>5. server' \in Servers /\ server'.posted = server.posted + 1
  BY <1>1, <1>3 DEF Data, Types, Servers
<1>6. inbox' = Posted(u) /\ pv.created /\ pv.monitor # 0 /\ UNCHANGED <<pv, writes, record, view>>
  BY <1>1, <1>2 DEF Data, Attached
<1> HIDE DEF u
<1> QED BY <1>4, <1>5, <1>6, PostKept

LEMMA FailKept == PromiseInv /\ Fail => PromiseInv' /\ Tells
<1> SUFFICES ASSUME PromiseInv, Fail PROVE PromiseInv' /\ Tells
  OBVIOUS
<1>1. Types /\ Attached
  BY DEF PromiseInv
<1> DEFINE u == Update("failed", pv.monitor, FALSE)
<1>2. u \in Updates /\ u.kind = "failed" /\ u.id = pv.id /\ u.serial = pv.monitor
  <2>1. pv.monitor \in Nat
    BY <1>1 DEF Types, Pvs
  <2> QED BY <1>1, <2>1 DEF Update, Updates, Signals, Types, Pvs
<1>3. server' \in Servers /\ server'.posted = server.posted
  BY <1>1 DEF Fail, Types, Servers
<1>4. inbox' = Posted(u) /\ pv.created /\ pv.monitor # 0 /\ UNCHANGED <<pv, writes, record, view>>
  BY <1>1 DEF Fail, Attached
<1> HIDE DEF u
<1> QED BY <1>2, <1>3, <1>4, PostKept

LEMMA PutConnectKept == PromiseInv /\ PutConnect => PromiseInv' /\ Tells
<1> SUFFICES ASSUME PromiseInv, PutConnect PROVE PromiseInv' /\ Tells
  OBVIOUS
<1>1. Types /\ Attached
  BY DEF PromiseInv
<1>2. PICK ok \in BOOLEAN : inbox' = Posted(Update("putReady", writes.serial, ok))
  BY DEF PutConnect
<1> DEFINE u == Update("putReady", writes.serial, ok)
<1>3. u \in Updates /\ u.kind = "putReady" /\ u.id = pv.id
  <2>1. writes.serial \in Nat
    BY <1>1 DEF Types, Writings
  <2> QED BY <1>1, <2>1, UpdateType
<1>4. server' \in Servers /\ server'.posted = server.posted
  BY <1>1 DEF PutConnect, Types, Servers
<1>5. inbox' = Posted(u) /\ pv.created /\ UNCHANGED <<pv, writes, record, view>>
  BY <1>1, <1>2 DEF PutConnect, Attached
<1> HIDE DEF u
<1> QED BY <1>3, <1>4, <1>5, PostKept

LEMMA PutDoneKept == PromiseInv /\ PutDone => PromiseInv' /\ Tells
<1> SUFFICES ASSUME PromiseInv, PutDone PROVE PromiseInv' /\ Tells
  OBVIOUS
<1>1. Types /\ Attached
  BY DEF PromiseInv
<1>2. PICK ok \in BOOLEAN :
        /\ server' = [server EXCEPT !.writing = 0,
                                    !.applied = IF ok THEN server.writing ELSE @]
        /\ inbox' = Posted(Update("putDone", writes.serial, ok))
  BY DEF PutDone
<1> DEFINE u == Update("putDone", writes.serial, ok)
<1>3. u \in Updates /\ u.kind = "putDone" /\ u.id = pv.id
  <2>1. writes.serial \in Nat
    BY <1>1 DEF Types, Writings
  <2> QED BY <1>1, <2>1, UpdateType
<1>4. server' \in Servers /\ server'.posted = server.posted
  BY <1>1, <1>2 DEF Types, Servers
<1>5. inbox' = Posted(u) /\ pv.created /\ UNCHANGED <<pv, writes, record, view>>
  BY <1>1, <1>2 DEF PutDone, Attached
<1> HIDE DEF u
<1> QED BY <1>3, <1>4, <1>5, PostKept
-----------------------------------------------------------------------------
(***************************************************************************)
(* Writes and the record.                                                  *)
(***************************************************************************)
LEMMA SendMoves ==
  ASSUME Types, NEW w \in Writings, Send(w)
  PROVE  /\ server' \in Servers /\ writes' \in Writings
         /\ server'.up = server.up /\ server'.fresh = server.fresh
         /\ server'.posted = server.posted /\ server'.failed = server.failed
         /\ server'.applied = server.applied
         /\ server'.setup = (server.setup \/ (w.serial # writes.serial /\ server.up))
         /\ writes'.serial = w.serial /\ writes'.operations = w.operations
         /\ writes'.ready = w.ready /\ writes'.pending = w.pending
         /\ writes'.wanted = w.wanted /\ writes'.refused = w.refused
         /\ \/ /\ CanSend(w) /\ writes'.sending = w.queued /\ writes'.queued = 0
               /\ server'.writing = w.queued
            \/ /\ ~CanSend(w) /\ writes'.sending = w.sending /\ writes'.queued = w.queued
               /\ server'.writing = server.writing
<1> DEFINE b == server.setup \/ (w.serial # writes.serial /\ server.up)
<1>1. b \in BOOLEAN
  BY DEF Types, Servers
<1>2. CASE CanSend(w)
  <2>1. writes' = [w EXCEPT !.sending = w.queued, !.queued = 0]
    BY <1>2 DEF Send
  <2>2. server' = [server EXCEPT !.writing = w.queued, !.setup = b]
    BY <1>2 DEF Send, Types, Servers
  <2> HIDE DEF b
  <2>3. /\ server' \in Servers /\ server'.up = server.up /\ server'.fresh = server.fresh
        /\ server'.posted = server.posted /\ server'.failed = server.failed
        /\ server'.applied = server.applied /\ server'.setup = b /\ server'.writing = w.queued
    BY <1>1, <2>2 DEF Types, Servers, Writings
  <2> QED BY <1>2, <2>1, <2>3 DEF b, Writings
<1>3. CASE ~CanSend(w)
  <2>1. writes' = w
    BY <1>3 DEF Send
  <2>2. server' = [server EXCEPT !.writing = server.writing, !.setup = b]
    BY <1>3 DEF Send, Types, Servers
  <2> HIDE DEF b
  <2>3. /\ server' \in Servers /\ server'.up = server.up /\ server'.fresh = server.fresh
        /\ server'.posted = server.posted /\ server'.failed = server.failed
        /\ server'.applied = server.applied /\ server'.setup = b
        /\ server'.writing = server.writing
    BY <1>1, <2>2 DEF Types, Servers
  <2> QED BY <1>3, <2>1, <2>3 DEF b
<1> QED BY <1>2, <1>3

LEMMA EnsuredWrites ==
  ASSUME NEW w \in Writings
  PROVE  LET e == Ensured(w) IN
         /\ e \in Writings /\ e.ready = w.ready /\ e.sending = w.sending /\ e.queued = w.queued
         /\ e.pending = w.pending /\ e.wanted = w.wanted /\ e.refused = w.refused
         /\ \/ e = w
            \/ /\ pv.created /\ w.serial = 0
               /\ e.operations = w.operations + 1 /\ e.serial = w.operations + 1
<1>1. CASE ~pv.created \/ w.serial # 0
  BY <1>1 DEF Ensured
<1>2. CASE ~(~pv.created \/ w.serial # 0)
  <2>1. Ensured(w) = [w EXCEPT !.operations = w.operations + 1, !.serial = w.operations + 1]
    BY <1>2 DEF Ensured, Writings
  <2>2. w.operations + 1 \in Nat
    BY DEF Writings
  <2> QED BY <1>2, <2>1, <2>2 DEF Writings
<1> QED BY <1>1, <1>2

LEMMA StoppedWrites ==
  ASSUME NEW w \in Writings
  PROVE  LET t == Stopped(w) IN
         /\ t \in Writings /\ t.serial = 0 /\ t.operations = w.operations /\ ~t.ready
         /\ t.sending = 0 /\ t.queued = 0 /\ t.pending = w.pending /\ t.wanted = w.wanted
         /\ t.refused = w.refused
  BY DEF Stopped, Writings

(* A step that moves neither the channel nor what was told.                *)
LEMMA PlainKept ==
  ASSUME PromiseInv, UNCHANGED <<inbox, pv, view>>,
         server' \in Servers, writes' \in Writings, record' \in Records,
         server'.posted = server.posted, server'.up => server.up
  PROVE  PromiseInv' /\ Tells
<1>1. Types /\ Drains /\ Attached /\ Marks
  BY DEF PromiseInv
<1>2. Attached' /\ Marks'
  BY <1>1 DEF Attached, Marks, Alarmed
<1>3. Tells
  BY NothingTold DEF Alarmed
<1>4. Moved(0)
  BY <1>1, <1>2, <1>3 DEF Moved, Types
<1>5. inbox' \in Inboxes /\ Drains' /\ Q' = Q
  BY <1>1 DEF Types, Drains, Q
<1> QED BY <1>3, <1>4, <1>5, SameQueue

LEMMA PutMoves ==
  ASSUME Types, NEW v \in Nat, NEW w \in Writings, Put(v, w)
  PROVE  LET e == [Ensured(w) EXCEPT !.queued = v] IN
         /\ e \in Writings /\ Send(e)
         /\ e.ready = w.ready /\ e.sending = w.sending /\ e.queued = v
         /\ e.pending = w.pending /\ e.wanted = w.wanted /\ e.refused = w.refused
         /\ \/ e.serial = w.serial /\ e.operations = w.operations
            \/ /\ pv.created /\ w.serial = 0
               /\ e.operations = w.operations + 1 /\ e.serial = w.operations + 1
<1>1. LET e == Ensured(w) IN
         /\ e \in Writings /\ e.ready = w.ready /\ e.sending = w.sending /\ e.queued = w.queued
         /\ e.pending = w.pending /\ e.wanted = w.wanted /\ e.refused = w.refused
         /\ \/ e = w
            \/ /\ pv.created /\ w.serial = 0
               /\ e.operations = w.operations + 1 /\ e.serial = w.operations + 1
  BY EnsuredWrites
<1> QED BY <1>1 DEF Put, Writings

LEMMA WriteKept ==
  ASSUME Numbers, PromiseInv, NEW v \in Severities, WriteSeverity(v)
  PROVE  PromiseInv' /\ Tells
<1>1. Types /\ v \in Nat
  BY DEF PromiseInv, Numbers
<1> DEFINE w == [writes EXCEPT !.wanted = v, !.pending = v]
<1>2. w \in Writings
  BY <1>1 DEF Types, Writings
<1>3. /\ UNCHANGED <<inbox, pv, record, view>>
      /\ IF pv.connected THEN Put(v, w) ELSE writes' = w /\ UNCHANGED server
  BY DEF WriteSeverity
<1> HIDE DEF w
<1>4. /\ server' \in Servers /\ writes' \in Writings
      /\ server'.up = server.up /\ server'.posted = server.posted
  <2>1. CASE pv.connected
    <3>1. PICK e \in Writings : Send(e)
      BY <1>1, <1>2, <1>3, <2>1, PutMoves
    <3> QED BY <1>1, <3>1, SendMoves
  <2>2. CASE ~pv.connected
    BY <1>1, <1>2, <1>3, <2>2 DEF Types
  <2> QED BY <2>1, <2>2
<1> QED BY <1>1, <1>3, <1>4, PlainKept DEF Types

LEMMA AcknowledgeKept ==
  ASSUME PromiseInv, NEW s, Acknowledge(s)
  PROVE  PromiseInv' /\ Tells
<1>1. Types
  BY DEF PromiseInv
<1>2. record' \in Records
  BY <1>1 DEF Acknowledge, Types, Records
<1>3. UNCHANGED <<server, inbox, pv, writes, view>>
  BY DEF Acknowledge
<1> QED BY <1>1, <1>2, <1>3, PlainKept DEF Types

LEMMA RecordAlarm ==
  ASSUME Numbers, NEW r \in Records
  PROVE  r.alarm[1] \in Nat
<1>1. <<0, 0>>[1] = 0
  OBVIOUS
<1> QED BY <1>1 DEF Numbers, Records, AnyAlarm

LEMMA AckTransientKept ==
  ASSUME Numbers, PromiseInv, AckTransient
  PROVE  PromiseInv' /\ Tells
<1>1. Types
  BY DEF PromiseInv
<1> DEFINE a == IF record.ackt /\ record.acks > record.alarm[1] THEN record.alarm[1] ELSE record.acks
<1>2. record.alarm[1] \in Nat /\ a \in Nat
  BY <1>1, RecordAlarm DEF Types, Records
<1>3. record' = [record EXCEPT !.ackt = ~record.ackt, !.changed = TRUE, !.acks = a]
  BY <1>1 DEF AckTransient, Types, Records
<1> HIDE DEF a
<1>4. record' \in Records
  BY <1>1, <1>2, <1>3 DEF Types, Records
<1>5. UNCHANGED <<server, inbox, pv, writes, view>>
  BY DEF AckTransient
<1> QED BY <1>1, <1>4, <1>5, PlainKept DEF Types

LEMMA PutTimeoutKept ==
  ASSUME PromiseInv, PutTimeout
  PROVE  PromiseInv' /\ Tells
<1>1. Types
  BY DEF PromiseInv
<1>2. writes' \in Writings
  <2>1. writes' = [Stopped(writes) EXCEPT !.refused = TRUE]
    BY DEF PutTimeout
  <2> QED BY <1>1, <2>1, StoppedWrites DEF Types, Writings
<1>3. PICK a \in CutOff(server) : server' = [Abandon(server) EXCEPT !.applied = a]
  BY DEF PutTimeout
<1>4. server' \in Servers /\ server'.posted = server.posted /\ server'.up = server.up
  BY <1>1, <1>3 DEF CutOff, Abandon, Types, Servers
<1>5. UNCHANGED <<inbox, pv, record, view>>
  BY DEF PutTimeout
<1> QED BY <1>1, <1>2, <1>4, <1>5, PlainKept DEF Types
-----------------------------------------------------------------------------
(***************************************************************************)
(* What tells the observers something.                                     *)
(***************************************************************************)
SameSubscription ==
  /\ pv' \in Pvs /\ pv'.id = pv.id /\ pv'.created = pv.created
  /\ pv'.restarting = pv.restarting /\ pv'.monitor = pv.monitor
  /\ pv'.subscriptions = pv.subscriptions /\ pv'.alarm = pv.alarm
  /\ pv'.cancelled = pv.cancelled /\ pv'.prepared = pv.prepared

SameObservers == \A o \in Owners : view'.observers[o].live = view.observers[o].live

LEMMA AttachedKept ==
  ASSUME Attached, SameSubscription, SameObservers, server'.up => server.up,
         pv'.connected => pv.created /\ ~pv'.deadline
  PROVE  Attached' /\ Alarmed' = Alarmed
  BY DEF Attached, SameSubscription, SameObservers, Alarmed

(* Nothing is told, or that the source is lost.                            *)
Silent == view' = view
LostView == view' = IF Alarmed THEN Delivered(Outage) ELSE view

LEMMA LostMoves ==
  ASSUME Types, Marks, Alarmed' = Alarmed, server'.posted = server.posted,
         Silent \/ LostView
  PROVE  /\ Tells /\ view' \in Views /\ SameObservers
         /\ view'.seen <= server.posted /\ view'.gap <= server.posted
         /\ \A m \in Nat : m > view.gap /\ m > view.seen => m > view'.gap /\ m > view'.seen
<1>1. CASE view' = view
  <2>1. Tells
    BY <1>1, NothingTold
  <2>2. view' \in Views /\ SameObservers
    BY <1>1 DEF Types, SameObservers
  <2> QED BY <1>1, <2>1, <2>2 DEF Marks
<1>2. CASE view' # view
  <2>1. view' = Delivered(Outage) /\ Alarmed /\ Alarmed'
    BY <1>2 DEF Silent, LostView
  <2>2. /\ view' \in Views /\ view'.last = Outage
        /\ \A o \in Owners : view'.observers[o].live = view.observers[o].live
        /\ view'.fed = Outage /\ view'.seen = view.seen
        /\ view'.gap = IF view.seen > view.gap THEN view.seen ELSE view.gap
    BY <2>1, DeliveredView
  <2>3. Tells
    BY <2>1, <2>2, OutageTold
  <2> QED BY <2>2, <2>3 DEF Marks, SameObservers, Types, Views
<1> QED BY <1>1, <1>2

LEMMA PublishKept ==
  ASSUME PromiseInv, PublishRecords
  PROVE  PromiseInv' /\ Tells
<1>1. Types /\ Drains /\ Attached /\ Marks
  BY DEF PromiseInv
<1>2. /\ record' = [record EXCEPT !.changed = FALSE]
      /\ view' = IF Alarmed /\ pv.haveLast THEN Delivered(Event(view.last.number, record)) ELSE view
      /\ UNCHANGED <<server, inbox, pv, writes>>
  BY DEF PublishRecords
<1>3. record' \in Records /\ Alarmed' = Alarmed
  BY <1>1, <1>2 DEF Types, Records, Alarmed
<1>4. CASE Alarmed /\ pv.haveLast
  <2> DEFINE e == Event(view.last.number, record)
  <2>1. /\ view.last.number = view.seen /\ view.seen > view.gap /\ view.seen <= server.posted
        /\ view.seen \in Nat
    BY <1>1, <1>4 DEF Marks, Types, Views
  <2>2. e \in Events /\ e.number = view.seen
    BY <1>1, <2>1, EventType DEF Types
  <2> HIDE DEF e
  <2>3. /\ view' \in Views /\ view'.last = e
        /\ \A o \in Owners : view'.observers[o].live = view.observers[o].live
        /\ view'.fed = Value(view.seen) /\ view'.seen = view.seen /\ view'.gap = view.gap
    BY <1>1, <1>2, <1>4, <2>2, DeliveredView DEF e
  <2>4. Tells
    BY <1>1, <1>2, <1>3, <1>4, <2>1, <2>3, ValueTold DEF Types, Views
  <2>5. Attached' /\ Marks'
    BY <1>1, <1>2, <1>3, <1>4, <2>1, <2>2, <2>3 DEF Attached, Marks, Alarmed
  <2>6. Moved(0)
    BY <1>1, <1>2, <1>3, <2>3, <2>4, <2>5 DEF Moved, Types
  <2>7. inbox' \in Inboxes /\ Drains' /\ Q' = Q
    BY <1>1, <1>2 DEF Types, Drains, Q
  <2> QED BY <2>4, <2>6, <2>7, SameQueue
<1>5. CASE ~(Alarmed /\ pv.haveLast)
  BY <1>1, <1>2, <1>3, <1>5, PlainKept DEF Types
<1> QED BY <1>4, <1>5

LEMMA ConnectionTimeoutKept ==
  ASSUME PromiseInv, ConnectionTimeout
  PROVE  PromiseInv' /\ Tells
<1>1. Types /\ Drains /\ Attached /\ Marks
  BY DEF PromiseInv
<1>2. /\ pv' = [pv EXCEPT !.deadline = FALSE] /\ ~pv.cancelled /\ pv.deadline
      /\ view' = IF ~pv.connected /\ pv.alarm THEN Delivered(Outage) ELSE view
      /\ UNCHANGED <<server, inbox, writes, record>>
  BY DEF ConnectionTimeout
<1>3. /\ SameSubscription /\ pv'.connected = pv.connected /\ pv'.haveLast = pv.haveLast
      /\ ~pv'.deadline /\ Alarmed' = Alarmed /\ ~pv.connected /\ ~pv.haveLast
  BY <1>1, <1>2 DEF Types, Pvs, SameSubscription, Alarmed, Attached, Marks
<1>4. Silent \/ LostView
  BY <1>2 DEF Silent, LostView, Alarmed
<1>5. /\ Tells /\ view' \in Views /\ SameObservers
      /\ view'.seen <= server.posted /\ view'.gap <= server.posted
      /\ \A m \in Nat : m > view.gap /\ m > view.seen => m > view'.gap /\ m > view'.seen
  BY <1>1, <1>2, <1>3, <1>4, LostMoves
<1>6. Attached' /\ Marks'
  BY <1>1, <1>2, <1>3, <1>5, AttachedKept DEF Marks
<1>7. Moved(0)
  BY <1>1, <1>2, <1>3, <1>5, <1>6 DEF Moved, Types, SameSubscription
<1>8. inbox' \in Inboxes /\ Drains' /\ Q' = Q
  BY <1>1, <1>2 DEF Types, Drains, Q
<1> QED BY <1>5, <1>7, <1>8, SameQueue

LEMMA ReplayKept ==
  ASSUME PromiseInv, NEW o \in Owners, Replay(o)
  PROVE  PromiseInv' /\ Tells
<1>1. Types /\ Drains /\ Attached /\ Marks
  BY DEF PromiseInv
<1> DEFINE b == [live |-> TRUE, delivered |-> TRUE, replay |-> FALSE]
<1>2. /\ view' = [view EXCEPT !.observers[o] = b, !.told[o] = view.last]
      /\ view.observers[o].live
      /\ UNCHANGED <<server, inbox, pv, writes, record>>
  BY DEF Replay
<1>3. /\ view' \in Views /\ view'.last = view.last /\ view'.fed = view.fed
      /\ view'.seen = view.seen /\ view'.gap = view.gap
      /\ \A x \in Owners : view'.observers[x] = IF x = o THEN b ELSE view.observers[x]
  BY <1>1, <1>2 DEF Types, Views
<1>4. SameObservers
  <2>1. view.observers[o].live = TRUE /\ b.live = TRUE
    BY <1>1, <1>2 DEF Types, Views
  <2> QED BY <1>3, <2>1 DEF SameObservers
<1>5. Tells
  BY <1>2, <1>3, NothingTold DEF Alarmed
<1>6. Attached' /\ Marks'
  BY <1>1, <1>2, <1>3, <1>4 DEF Attached, Marks, Alarmed, SameObservers
<1>7. Moved(0)
  BY <1>1, <1>2, <1>3, <1>5, <1>6 DEF Moved, Types
<1>8. inbox' \in Inboxes /\ Drains' /\ Q' = Q
  BY <1>1, <1>2 DEF Types, Drains, Q
<1> QED BY <1>5, <1>7, <1>8, SameQueue

LEMMA JoinedView ==
  ASSUME Types, NEW o \in Owners, view' = [view EXCEPT !.observers[o] = Joined(o)]
  PROVE  /\ view' \in Views /\ view'.last = view.last /\ view'.fed = view.fed
         /\ view'.seen = view.seen /\ view'.gap = view.gap /\ view'.told = view.told
         /\ \A x \in Owners : view'.observers[x] = IF x = o THEN Joined(o) ELSE view.observers[x]
         /\ Joined(o) \in [live : {TRUE}, delivered : BOOLEAN, replay : BOOLEAN]
<1>1. Joined(o) \in [live : {TRUE}, delivered : BOOLEAN, replay : BOOLEAN]
  BY DEF Joined, Types, Views
<1>2. Joined(o) \in [live : BOOLEAN, delivered : BOOLEAN, replay : BOOLEAN]
  BY <1>1
<1> QED BY <1>1, <1>2 DEF Types, Views

LEMMA MonitorChannel ==
  ASSUME Types, NEW o \in Owners, Monitor(o)
  PROVE  /\ pv' \in Pvs /\ pv'.id = pv.id /\ pv'.created = pv.created
         /\ pv'.connected = pv.connected /\ ~pv'.cancelled /\ pv'.alarm
         /\ pv'.haveLast = pv.haveLast /\ pv'.deadline = (pv.deadline \/ ~pv.connected)
         /\ pv'.restarting = pv.restarting /\ pv'.prepared = pv.prepared
         /\ pv.subscriptions <= pv'.subscriptions
         /\ pv.subscriptions \in Nat /\ pv.monitor \in Nat
         /\ \/ /\ ~pv.created \/ pv.monitor # 0
               /\ pv'.monitor = pv.monitor /\ pv'.subscriptions = pv.subscriptions
            \/ /\ pv.created /\ pv.monitor = 0
               /\ pv'.monitor = pv.subscriptions + 1 /\ pv'.subscriptions = pv'.monitor
         /\ server' \in Servers /\ server'.up = server.up /\ server'.posted = server.posted
         /\ server'.setup = server.setup /\ server'.writing = server.writing
         /\ server'.applied = server.applied /\ server'.failed = server.failed
         /\ server'.fresh = (server.fresh \/ (pv'.monitor # pv.monitor /\ server.up))
<1> DEFINE p == [pv EXCEPT !.alarm = TRUE, !.cancelled = FALSE,
                           !.deadline = @ \/ ~pv.connected]
<1>1. pv' = Subscribed(p) /\ server' = Renewed(pv')
  BY DEF Monitor
<1>2. /\ p \in Pvs /\ p.alarm /\ ~p.cancelled /\ p.created = pv.created /\ p.id = pv.id
      /\ p.connected = pv.connected /\ p.monitor = pv.monitor /\ p.restarting = pv.restarting
      /\ p.subscriptions = pv.subscriptions /\ p.prepared = pv.prepared
      /\ p.haveLast = pv.haveLast /\ p.deadline = (pv.deadline \/ ~pv.connected)
      /\ pv.subscriptions \in Nat /\ pv.monitor \in Nat
  BY DEF Types, Pvs
<1> HIDE DEF p
<1>3. /\ pv' \in Pvs /\ pv'.id = p.id /\ pv'.created = p.created /\ pv'.connected = p.connected
      /\ pv'.cancelled = p.cancelled /\ pv'.haveLast = p.haveLast /\ pv'.deadline = p.deadline
      /\ pv'.restarting = p.restarting /\ pv'.alarm = p.alarm /\ pv'.prepared = p.prepared
      /\ p.subscriptions <= pv'.subscriptions
      /\ \/ /\ p.cancelled \/ ~p.created \/ p.monitor # 0 \/ ~p.alarm
            /\ pv'.monitor = p.monitor /\ pv'.subscriptions = p.subscriptions
         \/ /\ ~p.cancelled /\ p.created /\ p.monitor = 0 /\ p.alarm
            /\ pv'.monitor = p.subscriptions + 1 /\ pv'.subscriptions = pv'.monitor
  BY <1>1, <1>2, SubscribedPv
<1>4. /\ server' \in Servers /\ server'.up = server.up /\ server'.posted = server.posted
      /\ server'.setup = server.setup /\ server'.writing = server.writing
      /\ server'.applied = server.applied /\ server'.failed = server.failed
      /\ server'.fresh = (server.fresh \/ (pv'.monitor # pv.monitor /\ server.up))
  BY <1>1 DEF Renewed, Types, Servers
<1> QED BY <1>2, <1>3, <1>4

LEMMA MonitorKept ==
  ASSUME PromiseInv, NEW o \in Owners, Monitor(o)
  PROVE  PromiseInv' /\ Tells
<1>1. Types /\ Drains /\ Attached /\ Marks
  BY DEF PromiseInv
<1>2. /\ ~pv.prepared /\ view' = [view EXCEPT !.observers[o] = Joined(o)]
      /\ UNCHANGED <<inbox, writes, record>>
  BY DEF Monitor
<1>3. /\ pv' \in Pvs /\ pv'.id = pv.id /\ pv'.created = pv.created
      /\ pv'.connected = pv.connected /\ ~pv'.cancelled /\ pv'.alarm
      /\ pv'.haveLast = pv.haveLast /\ pv'.deadline = (pv.deadline \/ ~pv.connected)
      /\ pv'.restarting = pv.restarting /\ pv'.prepared = pv.prepared
      /\ pv.subscriptions <= pv'.subscriptions
      /\ pv.subscriptions \in Nat /\ pv.monitor \in Nat
      /\ \/ /\ ~pv.created \/ pv.monitor # 0
            /\ pv'.monitor = pv.monitor /\ pv'.subscriptions = pv.subscriptions
         \/ /\ pv.created /\ pv.monitor = 0
            /\ pv'.monitor = pv.subscriptions + 1 /\ pv'.subscriptions = pv'.monitor
      /\ server' \in Servers /\ server'.up = server.up /\ server'.posted = server.posted
  BY <1>1, MonitorChannel
<1>4. /\ view' \in Views /\ view'.last = view.last /\ view'.fed = view.fed
      /\ view'.seen = view.seen /\ view'.gap = view.gap
      /\ \A x \in Owners : x # o => view'.observers[x] = view.observers[x]
  BY <1>1, <1>2, JoinedView
<1>5. Alarmed'
  BY <1>3 DEF Alarmed
<1>6. Attached'
  <2>1. pv.monitor # 0 => pv.created
    BY <1>1 DEF Attached
  <2>2. pv'.monitor # 0 <=> pv'.created
    BY <1>3, <2>1
  <2>3. pv'.monitor <= pv'.subscriptions
    BY <1>1, <1>3 DEF Attached
  <2>4. pv'.connected => ~pv'.deadline
    BY <1>1, <1>3 DEF Attached
  <2> QED BY <1>1, <1>2, <1>3, <1>5, <2>2, <2>3, <2>4 DEF Attached
<1>7. Marks'
  BY <1>1, <1>3, <1>4, <1>5 DEF Marks
<1>8. Types'
  BY <1>1, <1>2, <1>3, <1>4 DEF Types
<1>9. pv'.monitor > pv.subscriptions \/ pv'.monitor = pv.monitor
  BY <1>3
<1>10. PromiseInv'
  BY <1>2, <1>3, <1>4, <1>6, <1>7, <1>8, <1>9, RenewedKept
<1>11. Tells
  <2>1. Promise!Start
    BY <1>3, <1>4, <1>5 DEF Promise!Start
  <2> QED BY <2>1 DEF Tells, Promise!Next
<1> QED BY <1>10, <1>11

LEMMA CancelKept ==
  ASSUME PromiseInv, NEW o \in Owners, Cancel(o)
  PROVE  PromiseInv' /\ Tells
<1>1. Types /\ Drains /\ Attached /\ Marks
  BY DEF PromiseInv
<1> DEFINE alone == \A x \in Owners \ {o} : ~view.observers[x].live
           left  == [view EXCEPT !.observers[o] = Nobody, !.told[o] = Nothing]
<1>2. /\ view.observers[o].live
      /\ view' = IF alone
                 THEN [left EXCEPT !.last = Nothing, !.fed = Nothing, !.gap = server.posted]
                 ELSE left
      /\ pv' = IF alone THEN [pv EXCEPT !.cancelled = TRUE, !.haveLast = FALSE, !.monitor = 0]
               ELSE pv
      /\ server' = IF alone THEN [server EXCEPT !.fresh = FALSE] ELSE server
      /\ UNCHANGED <<inbox, writes, record>>
  BY DEF Cancel
<1>3. /\ left \in Views /\ left.last = view.last /\ left.fed = view.fed
      /\ left.seen = view.seen /\ left.gap = view.gap
      /\ \A x \in Owners : left.observers[x] = IF x = o THEN Nobody ELSE view.observers[x]
  <2>1. Nobody \in [live : BOOLEAN, delivered : BOOLEAN, replay : BOOLEAN] /\ Nothing \in Heard
    BY DEF Nobody, Heard
  <2> QED BY <1>1, <2>1 DEF Types, Views
<1>4. server' \in Servers /\ server'.posted = server.posted /\ server'.up = server.up
  BY <1>1, <1>2 DEF Types, Servers
<1>5. server.posted \in Nat /\ Alarmed /\ ~Nobody.live
  BY <1>1, <1>2 DEF Types, Servers, Attached, Nobody
<1>6. CASE alone
  <2>1. view' = [left EXCEPT !.last = Nothing, !.fed = Nothing, !.gap = server.posted]
    BY <1>2, <1>6
  <2>2. pv' = [pv EXCEPT !.cancelled = TRUE, !.haveLast = FALSE, !.monitor = 0]
    BY <1>2, <1>6
  <2>3. \A x \in Owners : ~left.observers[x].live
    BY <1>3, <1>5, <1>6
  <2> HIDE DEF alone, left
  <2>4. /\ view' \in Views /\ view'.fed = Nothing /\ view'.seen = view.seen
        /\ view'.gap = server.posted /\ view'.observers = left.observers
    BY <1>3, <1>5, <2>1 DEF Views, Heard
  <2>5. /\ pv' \in Pvs /\ pv'.cancelled /\ ~pv'.haveLast /\ pv'.monitor = 0 /\ pv'.id = pv.id
        /\ pv'.created = pv.created /\ pv'.subscriptions = pv.subscriptions
        /\ pv'.restarting = pv.restarting /\ pv'.connected = pv.connected
        /\ pv'.deadline = pv.deadline /\ pv'.alarm = pv.alarm /\ pv'.prepared = pv.prepared
    BY <1>1, <2>2 DEF Types, Pvs
  <2>6. ~Alarmed' /\ 0 <= pv'.subscriptions /\ pv.subscriptions <= pv'.subscriptions
    BY <1>1, <2>5 DEF Alarmed, Types, Pvs
  <2>7. Attached'
    BY <1>1, <1>4, <2>3, <2>4, <2>5, <2>6 DEF Attached
  <2>8. Marks'
    BY <1>1, <1>4, <1>5, <2>4, <2>5 DEF Marks
  <2>9. Types'
    BY <1>1, <1>2, <1>4, <2>4, <2>5 DEF Types
  <2>10. PromiseInv'
    BY <1>2, <1>4, <2>5, <2>6, <2>7, <2>8, <2>9, RenewedKept
  <2>11. Promise!Stop
    BY <1>4, <2>4, <2>6 DEF Promise!Stop, Nothing, Promise!Nothing
  <2> QED BY <2>10, <2>11 DEF Tells, Promise!Next
<1>7. CASE ~alone
  <2>1. view' = left /\ pv' = pv /\ server' = server
    BY <1>2, <1>7
  <2> HIDE DEF alone, left
  <2>2. Attached' /\ Marks' /\ Alarmed' = Alarmed
    BY <1>1, <1>3, <1>5, <2>1 DEF Attached, Marks, Alarmed
  <2>3. Tells
    BY <1>3, <2>1, <2>2, NothingTold
  <2>4. Moved(0)
    BY <1>1, <1>2, <1>3, <2>1, <2>2, <2>3 DEF Moved, Types
  <2>5. inbox' \in Inboxes /\ Drains' /\ Q' = Q
    BY <1>1, <1>2 DEF Types, Drains, Q
  <2> QED BY <2>3, <2>4, <2>5, SameQueue
<1> QED BY <1>6, <1>7
-----------------------------------------------------------------------------
(***************************************************************************)
(* drain.                                                                  *)
(***************************************************************************)
LEMMA StillKept ==
  ASSUME PromiseInv, UNCHANGED <<server, pv, writes, record, view>>,
         inbox' \in Inboxes, Drains', Q' = Q
  PROVE  PromiseInv' /\ Tells
<1>1. Types /\ Drains /\ Attached /\ Marks
  BY DEF PromiseInv
<1>2. Attached' /\ Marks' /\ Alarmed' = Alarmed
  BY <1>1 DEF Attached, Marks, Alarmed
<1>3. Tells
  BY <1>2, NothingTold
<1>4. Moved(0)
  BY <1>1, <1>2, <1>3 DEF Moved, Types
<1> QED BY <1>3, <1>4, SameQueue

LEMMA Drained1 ==
  ASSUME Types, Drains, Drain
  PROVE  inbox' \in Inboxes /\ Drains' /\ Q' = Q /\ inbox'.overflow = inbox.overflow
<1>1. inbox' = [inbox EXCEPT !.batch = inbox.updates, !.updates = <<>>, !.draining = TRUE]
  BY DEF Drain
<1>2. <<>> \in Seq(Updates)
  OBVIOUS
<1>3. /\ inbox' \in Inboxes /\ inbox'.batch = inbox.updates /\ inbox'.updates = <<>>
      /\ inbox'.draining /\ inbox'.scheduled = inbox.scheduled
      /\ inbox'.overflow = inbox.overflow
  BY <1>1, <1>2 DEF Types, Inboxes
<1>4. inbox.batch = <<>> /\ inbox.scheduled
  BY DEF Drain, Drains
<1>5. <<>> \o inbox.updates = inbox.updates /\ inbox.updates \o <<>> = inbox.updates
  BY ConcatEmptySeq DEF Types, Inboxes
<1> QED BY <1>3, <1>4, <1>5 DEF Drains, Q

LEMMA Drained2 ==
  ASSUME Types, Drains, EndDrain
  PROVE  inbox' \in Inboxes /\ Drains' /\ Q' = Q /\ inbox'.overflow = inbox.overflow
<1> DEFINE b == inbox.updates # <<>> \/ inbox.overflow
<1>1. inbox' = [inbox EXCEPT !.draining = FALSE, !.scheduled = b]
  BY DEF EndDrain, Drained
<1>2. inbox.batch = <<>> /\ b \in BOOLEAN
  BY DEF EndDrain, Types, Inboxes
<1> HIDE DEF b
<1>3. /\ inbox' \in Inboxes /\ inbox'.batch = inbox.batch /\ inbox'.updates = inbox.updates
      /\ ~inbox'.draining /\ inbox'.scheduled = b /\ inbox'.overflow = inbox.overflow
  BY <1>1, <1>2 DEF Types, Inboxes
<1> QED BY <1>2, <1>3 DEF Drains, Q, b

LEMMA DrainKept ==
  ASSUME PromiseInv, Drain \/ EndDrain
  PROVE  PromiseInv' /\ Tells
<1>1. Types /\ Drains
  BY DEF PromiseInv
<1>2. inbox' \in Inboxes /\ Drains' /\ Q' = Q
  BY <1>1, Drained1, Drained2
<1>3. UNCHANGED <<server, pv, writes, record, view>>
  BY DEF Drain, EndDrain
<1> QED BY <1>2, <1>3, StillKept

(* The inbox after an overflow, and the channel to be made again.          *)
LEMMA Recovered ==
  ASSUME Types, Drains, Attached, RecoverInbox
  PROVE  /\ inbox' \in Inboxes /\ Drains' /\ ~inbox'.overflow
         /\ \A k \in D' : Q'[k].kind = "connected" /\ Q'[k].id = pv.id
         /\ pv' \in Pvs /\ pv'.id = pv.id + 1 /\ pv.id \in Nat
         /\ pv'.monitor = 0 /\ pv'.subscriptions = pv.subscriptions
         /\ ~pv'.created /\ ~pv'.connected /\ ~pv'.haveLast /\ pv'.restarting /\ ~pv'.deadline
         /\ pv'.alarm = pv.alarm /\ pv'.cancelled = pv.cancelled /\ pv'.prepared = pv.prepared
         /\ server' \in Servers /\ server'.posted = server.posted /\ ~server'.up
         /\ ~server'.setup /\ server'.writing = 0 /\ server'.applied \in CutOff(server)
         /\ writes' = Stopped(writes) /\ record' = record
<1>1. PICK late \in {<<>>, <<Update("connected", 0, TRUE)>>} :
        inbox' = [inbox EXCEPT !.updates = late, !.overflow = FALSE, !.draining = TRUE]
  BY DEF RecoverInbox
<1> DEFINE u == Update("connected", 0, TRUE)
<1>2. u \in Updates /\ u.kind = "connected" /\ u.id = pv.id
  BY DEF Update, Updates, Signals, Types, Pvs
<1> HIDE DEF u
<1>3. /\ late \in Seq(Updates)
      /\ \A k \in 1..Len(late) : late[k] = u
  <2>1. <<>> \in Seq(Updates) /\ Len(<<>>) = 0
    OBVIOUS
  <2>2. <<u>> \in Seq(Updates) /\ Len(<<u>>) = 1 /\ <<u>>[1] = u
    BY <1>2
  <2>3. late = <<>> \/ late = <<u>>
    BY <1>1 DEF u
  <2>4. CASE late = <<>>
    <3>1. Len(late) = 0
      BY <2>1, <2>4
    <3> QED BY <2>1, <2>4, <3>1
  <2>5. CASE late = <<u>>
    <3>1. Len(late) = 1 /\ late[1] = u
      BY <2>2, <2>5
    <3>2. \A k \in 1..Len(late) : k = 1
      BY <3>1
    <3> QED BY <2>2, <2>5, <3>1, <3>2
  <2> QED BY <2>3, <2>4, <2>5
<1>4. /\ inbox' \in Inboxes /\ inbox'.updates = late /\ inbox'.batch = inbox.batch
      /\ inbox'.draining /\ ~inbox'.overflow /\ inbox'.scheduled = inbox.scheduled
  BY <1>1, <1>3 DEF Types, Inboxes
<1>5. inbox.batch = <<>> /\ inbox.scheduled
  BY DEF RecoverInbox, Drains
<1>6. Q' = late
  <2>1. <<>> \o late = late
    BY <1>3, ConcatEmptySeq
  <2> QED BY <1>4, <1>5, <2>1 DEF Q
<1>7. \A k \in D' : Q'[k].kind = "connected" /\ Q'[k].id = pv.id
  BY <1>2, <1>3, <1>6 DEF D
<1>8. Drains'
  BY <1>4, <1>5 DEF Drains
<1>9. pv' = [pv EXCEPT !.connected = FALSE, !.haveLast = FALSE, !.id = @ + 1, !.created = FALSE,
                       !.monitor = 0, !.deadline = FALSE, !.restarting = TRUE]
  BY DEF RecoverInbox
<1>10. pv.id + 1 \in Nat /\ pv.id \in Nat
  BY DEF Types, Pvs
<1>11. /\ pv' \in Pvs /\ pv'.id = pv.id + 1
       /\ pv'.monitor = 0 /\ pv'.subscriptions = pv.subscriptions
       /\ ~pv'.created /\ ~pv'.connected /\ ~pv'.haveLast /\ pv'.restarting /\ ~pv'.deadline
       /\ pv'.alarm = pv.alarm /\ pv'.cancelled = pv.cancelled /\ pv'.prepared = pv.prepared
  BY <1>9, <1>10 DEF Types, Pvs
<1>12. PICK a \in CutOff(server) : server' = [Lost(server) EXCEPT !.applied = a]
  BY DEF RecoverInbox
<1>13. /\ server' \in Servers /\ server'.posted = server.posted /\ ~server'.up
       /\ ~server'.setup /\ server'.writing = 0 /\ server'.applied = a
  BY <1>12 DEF CutOff, Lost, Types, Servers
<1>14. writes' = Stopped(writes) /\ record' = record
  BY DEF RecoverInbox
<1> QED BY <1>4, <1>7, <1>8, <1>10, <1>11, <1>12, <1>13, <1>14

LEMMA RecoveredView ==
  ASSUME Types, Marks, RecoverInbox, Alarmed' = Alarmed, server'.posted = server.posted
  PROVE  LET v == IF Alarmed THEN Delivered(Outage) ELSE view IN
         /\ v \in Views /\ view' = [v EXCEPT !.last = Nothing]
         /\ view' \in Views /\ view'.last = Nothing /\ view'.observers = v.observers
         /\ view'.told = v.told /\ view'.fed = v.fed /\ view'.seen = v.seen /\ view'.gap = v.gap
         /\ Tells /\ SameObservers /\ v.seen <= server.posted /\ v.gap <= server.posted
<1> DEFINE v == IF Alarmed THEN Delivered(Outage) ELSE view
<1>1. view' = [v EXCEPT !.last = Nothing]
  BY DEF RecoverInbox
<1>2. CASE ~Alarmed
  <2>1. v = view
    BY <1>2
  <2> HIDE DEF v
  <2>2. /\ view' \in Views /\ view'.last = Nothing /\ view'.observers = v.observers
        /\ view'.told = v.told /\ view'.fed = v.fed /\ view'.seen = v.seen /\ view'.gap = v.gap
    BY <1>1, <2>1 DEF Types, Views, Heard
  <2>3. Tells
    BY <2>1, <2>2, NothingTold
  <2> QED BY <1>1, <2>1, <2>2, <2>3 DEF Types, SameObservers, Marks, v
<1>3. CASE Alarmed
  <2>1. v = Delivered(Outage)
    BY <1>3
  <2>2. /\ v \in Views /\ v.last = Outage
        /\ \A o \in Owners : v.observers[o].live = view.observers[o].live
        /\ v.fed = Outage /\ v.seen = view.seen
        /\ v.gap = IF view.seen > view.gap THEN view.seen ELSE view.gap
    BY <2>1, DeliveredView
  <2> HIDE DEF v
  <2>3. /\ view' \in Views /\ view'.last = Nothing /\ view'.observers = v.observers
        /\ view'.told = v.told /\ view'.fed = v.fed /\ view'.seen = v.seen /\ view'.gap = v.gap
    BY <1>1, <2>2 DEF Views, Heard
  <2>4. Tells
    BY <1>3, <2>2, <2>3, OutageTold
  <2>5. v.seen <= server.posted /\ v.gap <= server.posted
    BY <2>2 DEF Marks
  <2> QED BY <1>1, <2>2, <2>3, <2>4, <2>5 DEF SameObservers, v
<1> QED BY <1>2, <1>3

LEMMA RecoverKept ==
  ASSUME PromiseInv, RecoverInbox
  PROVE  PromiseInv' /\ Tells
<1>1. Types /\ Drains /\ Attached /\ Marks /\ Queued /\ Ordered
  BY DEF PromiseInv
<1>2. /\ inbox' \in Inboxes /\ Drains' /\ ~inbox'.overflow
      /\ \A k \in D' : Q'[k].kind = "connected" /\ Q'[k].id = pv.id
      /\ pv' \in Pvs /\ pv'.id = pv.id + 1 /\ pv.id \in Nat
      /\ pv'.monitor = 0 /\ pv'.subscriptions = pv.subscriptions
      /\ ~pv'.created /\ ~pv'.connected /\ ~pv'.haveLast /\ pv'.restarting /\ ~pv'.deadline
      /\ pv'.alarm = pv.alarm /\ pv'.cancelled = pv.cancelled /\ pv'.prepared = pv.prepared
      /\ server' \in Servers /\ server'.posted = server.posted /\ ~server'.up
      /\ writes' = Stopped(writes) /\ record' = record
  BY <1>1, Recovered
<1>3. Alarmed' = Alarmed
  BY <1>2 DEF Alarmed
<1>4. /\ view' \in Views /\ Tells /\ SameObservers
      /\ view'.seen <= server.posted /\ view'.gap <= server.posted
  BY <1>1, <1>2, <1>3, RecoveredView
<1>5. writes' \in Writings
  BY <1>1, <1>2, StoppedWrites DEF Types
<1>6. Types'
  BY <1>1, <1>2, <1>4, <1>5 DEF Types
<1>7. Marks'
  BY <1>2, <1>4 DEF Marks
<1>8. Attached'
  <2>1. 0 <= pv'.subscriptions
    BY <1>2 DEF Pvs
  <2> QED BY <1>1, <1>2, <1>3, <1>4, <2>1 DEF Attached, SameObservers
<1>9. Queued'
  <2> SUFFICES ASSUME NEW k \in D'
               PROVE  /\ Q'[k].id <= pv'.id /\ Q'[k].id # pv'.id
                      /\ Q'[k].kind \notin {"data", "failed"}
    BY DEF Queued, IsData
  <2> QED BY <1>2
<1>10. Ordered'
  BY <1>2 DEF Ordered, IsData
<1> QED BY <1>2, <1>4, <1>6, <1>7, <1>8, <1>9, <1>10 DEF PromiseInv

LEMMA ResumeKept ==
  ASSUME PromiseInv, ResumeChannels
  PROVE  PromiseInv' /\ Tells
<1>1. Types /\ Drains /\ Attached /\ Marks
  BY DEF PromiseInv
<1> DEFINE p == [pv EXCEPT !.restarting = FALSE, !.created = TRUE, !.deadline = TRUE]
<1>2. /\ pv.restarting /\ pv' = Subscribed(p) /\ UNCHANGED <<server, inbox, writes, record, view>>
  BY DEF ResumeChannels
<1>3. /\ p \in Pvs /\ p.alarm = pv.alarm /\ p.cancelled = pv.cancelled /\ p.created /\ p.id = pv.id
      /\ p.connected = pv.connected /\ p.monitor = pv.monitor /\ ~p.restarting
      /\ p.subscriptions = pv.subscriptions /\ p.prepared = pv.prepared
      /\ p.haveLast = pv.haveLast /\ p.deadline
  BY <1>1 DEF Types, Pvs
<1> HIDE DEF p
<1>4. /\ pv' \in Pvs /\ pv'.id = p.id /\ pv'.created = p.created /\ pv'.connected = p.connected
      /\ pv'.cancelled = p.cancelled /\ pv'.haveLast = p.haveLast /\ pv'.deadline = p.deadline
      /\ pv'.restarting = p.restarting /\ pv'.alarm = p.alarm /\ pv'.prepared = p.prepared
      /\ p.subscriptions <= pv'.subscriptions
      /\ \/ /\ p.cancelled \/ ~p.created \/ p.monitor # 0 \/ ~p.alarm
            /\ pv'.monitor = p.monitor /\ pv'.subscriptions = p.subscriptions
         \/ /\ ~p.cancelled /\ p.created /\ p.monitor = 0 /\ p.alarm
            /\ pv'.monitor = p.subscriptions + 1 /\ pv'.subscriptions = pv'.monitor
  BY <1>2, <1>3, SubscribedPv
<1>5. Alarmed' = Alarmed /\ ~pv.connected /\ pv.monitor = 0 /\ ~pv.created
      /\ p.subscriptions \in Nat
  BY <1>1, <1>2, <1>3, <1>4 DEF Alarmed, Attached, Pvs
<1>6. Attached'
  <2>1. pv'.monitor # 0 <=> Alarmed
    BY <1>3, <1>4, <1>5 DEF Alarmed
  <2>2. pv'.monitor <= pv'.subscriptions
    BY <1>3, <1>4, <1>5
  <2> QED BY <1>1, <1>2, <1>3, <1>4, <1>5, <2>1, <2>2 DEF Attached
<1>7. Marks'
  BY <1>1, <1>2, <1>3, <1>4, <1>5 DEF Marks
<1>8. Types'
  BY <1>1, <1>2, <1>4 DEF Types
<1>9. pv'.monitor > pv.subscriptions \/ pv'.monitor = pv.monitor
  BY <1>3, <1>4, <1>5
<1>10. PromiseInv'
  BY <1>2, <1>3, <1>4, <1>5, <1>6, <1>7, <1>8, <1>9, RenewedKept
<1>11. Tells
  BY <1>2, <1>5, NothingTold
<1> QED BY <1>10, <1>11
-----------------------------------------------------------------------------
(***************************************************************************)
(* Handling an update.                                                     *)
(***************************************************************************)
LEMMA StillMoves ==
  ASSUME PromiseInv, UNCHANGED <<pv, record, view>>, writes' \in Writings,
         server' \in Servers, server'.posted = server.posted, server'.up = server.up
  PROVE  Moved(0)
<1>1. Types /\ Attached /\ Marks
  BY DEF PromiseInv
<1>2. Attached' /\ Marks' /\ Alarmed' = Alarmed
  BY <1>1 DEF Attached, Marks, Alarmed
<1>3. Tells
  BY <1>2, NothingTold
<1> QED BY <1>1, <1>2, <1>3 DEF Moved, Types

(* A write to the channel while it is handled moves nothing else.          *)
LEMMA SentMoves ==
  ASSUME PromiseInv, NEW w \in Writings, Send(w), UNCHANGED <<pv, record, view>>
  PROVE  Moved(0)
<1>1. Types /\ Attached /\ Marks
  BY DEF PromiseInv
<1>2. /\ server' \in Servers /\ writes' \in Writings
      /\ server'.up = server.up /\ server'.posted = server.posted
  BY <1>1, SendMoves
<1>3. Attached' /\ Marks' /\ Alarmed' = Alarmed
  BY <1>1, <1>2 DEF Attached, Marks, Alarmed
<1>4. Tells
  BY <1>2, <1>3, NothingTold
<1> QED BY <1>1, <1>2, <1>3, <1>4 DEF Moved, Types

LEMMA ConnectedMoves ==
  ASSUME PromiseInv, Connected, pv.created
  PROVE  /\ Moved(0) /\ SameSubscription /\ pv'.connected /\ ~pv'.deadline
         /\ pv'.haveLast = pv.haveLast
<1>1. Types /\ Attached /\ Marks
  BY DEF PromiseInv
<1> DEFINE w == IF pv.prepared THEN Ensured(writes) ELSE writes
           f == [w EXCEPT !.refused = FALSE]
<1>2. f \in Writings /\ f.pending \in Nat /\ w.pending \in Nat
  BY <1>1, EnsuredWrites DEF Types, Writings
<1>3. /\ pv' = [pv EXCEPT !.connected = TRUE, !.deadline = FALSE]
      /\ IF w.pending # 0 THEN Put(w.pending, f) ELSE Send(f)
      /\ UNCHANGED <<record, view>>
  BY DEF Connected
<1> HIDE DEF w, f
<1>4. PICK e \in Writings : Send(e)
  <2>1. CASE w.pending # 0
    BY <1>1, <1>2, <1>3, <2>1, PutMoves
  <2>2. CASE w.pending = 0
    BY <1>2, <1>3, <2>2
  <2> QED BY <2>1, <2>2
<1>5. /\ server' \in Servers /\ writes' \in Writings
      /\ server'.up = server.up /\ server'.posted = server.posted
  BY <1>1, <1>4, SendMoves
<1>6. SameSubscription /\ pv'.connected /\ ~pv'.deadline /\ pv'.haveLast = pv.haveLast
  BY <1>1, <1>3 DEF Types, Pvs, SameSubscription
<1>7. SameObservers
  BY <1>3 DEF SameObservers
<1>8. Attached' /\ Alarmed' = Alarmed
  BY <1>1, <1>5, <1>6, <1>7, AttachedKept
<1>9. Marks' /\ Tells
  BY <1>1, <1>3, <1>5, <1>6, <1>8, NothingTold DEF Marks
<1> QED BY <1>1, <1>3, <1>5, <1>6, <1>8, <1>9 DEF Moved, Types, SameSubscription

LEMMA ConnectedServer ==
  ASSUME Types, Connected
  PROVE  /\ server'.up = server.up /\ server'.fresh = server.fresh
         /\ server'.failed = server.failed /\ server'.posted = server.posted
<1> DEFINE w == IF pv.prepared THEN Ensured(writes) ELSE writes
           f == [w EXCEPT !.refused = FALSE]
<1>1. f \in Writings /\ w.pending \in Nat
  BY EnsuredWrites DEF Types, Writings
<1>2. IF w.pending # 0 THEN Put(w.pending, f) ELSE Send(f)
  BY DEF Connected
<1> HIDE DEF w, f
<1>3. PICK e \in Writings : Send(e)
  BY <1>1, <1>2, PutMoves
<1> QED BY <1>3, SendMoves

(* The source is lost: the outage is told if somebody watches.             *)
LEMMA LostKept ==
  ASSUME PromiseInv, LostView, UNCHANGED record, writes' \in Writings,
         pv' = [pv EXCEPT !.haveLast = FALSE]
         \/ pv' = [pv EXCEPT !.connected = FALSE, !.haveLast = FALSE],
         server' \in Servers, server'.posted = server.posted, server'.up = server.up
  PROVE  Moved(0) /\ SameSubscription /\ ~pv'.haveLast /\ Alarmed' = Alarmed
<1>1. Types /\ Attached /\ Marks
  BY DEF PromiseInv
<1>2. /\ SameSubscription /\ ~pv'.haveLast /\ pv'.deadline = pv.deadline
      /\ pv'.connected => pv.connected
  <2>1. CASE pv' = [pv EXCEPT !.haveLast = FALSE]
    BY <1>1, <2>1 DEF Types, Pvs, SameSubscription
  <2>2. CASE pv' = [pv EXCEPT !.connected = FALSE, !.haveLast = FALSE]
    BY <1>1, <2>2 DEF Types, Pvs, SameSubscription
  <2> QED BY <2>1, <2>2
<1>3. Alarmed' = Alarmed
  BY <1>2 DEF SameSubscription, Alarmed
<1>4. /\ Tells /\ view' \in Views /\ SameObservers
      /\ view'.seen <= server.posted /\ view'.gap <= server.posted
      /\ \A m \in Nat : m > view.gap /\ m > view.seen => m > view'.gap /\ m > view'.seen
  BY <1>1, <1>3, LostMoves
<1>5. Attached' /\ Marks'
  BY <1>1, <1>2, <1>4, AttachedKept DEF Attached, Marks
<1> QED BY <1>1, <1>2, <1>3, <1>4, <1>5 DEF Moved, Types, SameSubscription

LEMMA RaisedRecord ==
  ASSUME Numbers, NEW r \in Records, NEW a \in Alarms
  PROVE  /\ Raised(r, a) \in Records /\ Raised(r, a).changed = r.changed
         /\ Raised(r, a).alarm = a
<1>1. CASE r.alarm = a
  BY <1>1 DEF Raised
<1>2. CASE r.alarm # a
  <2> DEFINE n == IF ~r.ackt \/ a[1] >= r.acks THEN a[1] ELSE r.acks
  <2>1. n \in Nat /\ a \in AnyAlarm
    BY DEF Numbers, Records, AnyAlarm
  <2>2. Raised(r, a) = [r EXCEPT !.alarm = a, !.acks = n, !.acked = FALSE]
    BY <1>2 DEF Raised, Records
  <2> HIDE DEF n
  <2> QED BY <2>1, <2>2 DEF Records
<1> QED BY <1>1, <1>2

(* An observation is told.                                                 *)
LEMMA SampleMoves ==
  ASSUME Numbers, PromiseInv, NEW u \in Samples, 1 \in D, Q[1] = u,
         u.serial = pv.monitor, Sample(u), UNCHANGED <<server, writes>>
  PROVE  /\ Moved(u.number) /\ SameSubscription
         /\ pv'.connected = pv.connected /\ pv'.deadline = pv.deadline
         /\ IF pv.cancelled \/ ~pv.connected THEN UNCHANGED <<pv, record, view>>
            ELSE /\ pv'.haveLast /\ record' = Raised(record, u.alarm)
                 /\ view' = Delivered(Event(u.number, record')) /\ Alarmed
<1>1. Types /\ Attached /\ Marks /\ Queued
  BY DEF PromiseInv
<1>2. u.number \in Nat /\ u.alarm \in Alarms /\ IsData(1)
  BY DEF Samples, IsData
<1>3. CASE pv.cancelled \/ ~pv.connected
  <2>1. UNCHANGED <<pv, record, view>>
    BY <1>3 DEF Sample
  <2>2. Attached' /\ Marks' /\ Alarmed' = Alarmed
    BY <1>1, <2>1 DEF Attached, Marks, Alarmed
  <2>3. Tells
    BY <2>1, <2>2, NothingTold
  <2>4. Moved(u.number)
    BY <1>1, <1>2, <2>1, <2>2, <2>3 DEF Moved, Types
  <2>5. SameSubscription
    BY <1>1, <2>1 DEF SameSubscription, Types
  <2> QED BY <1>3, <2>1, <2>4, <2>5
<1>4. CASE ~(pv.cancelled \/ ~pv.connected)
  <2> DEFINE r == Raised(record, u.alarm)
             e == Event(u.number, r)
  <2>1. record' = r /\ pv' = [pv EXCEPT !.haveLast = TRUE] /\ view' = Delivered(e)
    BY <1>4 DEF Sample
  <2>2. r \in Records
    BY <1>1, <1>2, RaisedRecord DEF Types
  <2> HIDE DEF r
  <2>3. e \in Events /\ e.number = u.number
    BY <1>2, <2>2, EventType
  <2> HIDE DEF e
  <2>4. /\ view' \in Views /\ view'.last = e
        /\ \A o \in Owners : view'.observers[o].live = view.observers[o].live
        /\ view'.fed = Value(u.number) /\ view'.seen = u.number /\ view'.gap = view.gap
    BY <1>1, <2>1, <2>3, DeliveredView
  <2>5. /\ SameSubscription /\ pv'.connected = pv.connected /\ pv'.haveLast
        /\ pv'.deadline = pv.deadline
    BY <1>1, <2>1 DEF Types, Pvs, SameSubscription
  <2>6. SameObservers
    BY <2>4 DEF SameObservers
  <2>7. Attached' /\ Alarmed' = Alarmed
    BY <1>1, <1>4, <2>5, <2>6, AttachedKept DEF Attached
  <2>8. /\ u.number <= server.posted /\ u.number > view.gap /\ u.number > view.seen
    BY <1>1, <1>2 DEF Queued, Current, IsData
  <2>9. u.serial # 0
    BY <1>1, <1>2 DEF Queued, IsData
  <2>10. Alarmed
    BY <1>1, <2>9 DEF Attached
  <2>11. Tells
    BY <1>1, <1>2, <2>4, <2>7, <2>8, <2>10, ValueTold DEF Types, Views
  <2>12. Marks'
    BY <1>1, <1>4, <2>3, <2>4, <2>5, <2>7, <2>8, <2>10 DEF Marks
  <2>13. Moved(u.number)
    BY <1>1, <1>2, <2>1, <2>2, <2>4, <2>5, <2>7, <2>8, <2>11, <2>12 DEF Moved, Types, SameSubscription
  <2>14. view' = Delivered(Event(u.number, record'))
    BY <2>1 DEF e
  <2>15. record' = Raised(record, u.alarm)
    BY <2>1 DEF r
  <2> QED BY <1>4, <2>5, <2>10, <2>13, <2>14, <2>15
<1> QED BY <1>3, <1>4

(* What an update that is not stale does to the channel.                   *)
LEMMA AnsweredWrites ==
  ASSUME Types, NEW ok \in BOOLEAN
  PROVE  LET p == IF ok /\ writes.sending = writes.pending THEN 0 ELSE writes.pending
             w == [writes EXCEPT !.sending = 0, !.refused = ~ok, !.pending = p]
         IN  /\ w \in Writings /\ (Answered(ok) => Send(w))
             /\ w.serial = writes.serial /\ w.operations = writes.operations
             /\ w.ready = writes.ready /\ w.sending = 0 /\ w.queued = writes.queued
             /\ w.pending = p /\ w.wanted = writes.wanted /\ w.refused = ~ok
  BY DEF Answered, Types, Writings

LEMMA ReadyWrites ==
  ASSUME Types
  PROVE  LET w == [writes EXCEPT !.ready = TRUE] IN
         /\ w \in Writings /\ (PutReady(TRUE) => Send(w))
         /\ w.serial = writes.serial /\ w.operations = writes.operations
         /\ w.ready /\ w.sending = writes.sending /\ w.queued = writes.queued
         /\ w.pending = writes.pending /\ w.wanted = writes.wanted
         /\ w.refused = writes.refused
  BY DEF PutReady, Types, Writings

(* What is done with an update, but for the queue it leaves.               *)
LEMMA ApplyMoves ==
  ASSUME Numbers, PromiseInv, NEW u \in Updates, 1 \in D, Q[1] = u, ~Stale(u), Apply(u)
  PROVE  \E n \in Nat : Moved(n) /\ (n = 0 \/ (IsData(1) /\ n = Q[1].number))
<1>1. Types /\ Attached /\ Queued
  BY DEF PromiseInv
<1>2. u.id = pv.id /\ pv.created
  BY <1>1 DEF Stale, Queued
<1>3. CASE u.kind = "connected" /\ Connected
  BY <1>2, <1>3, ConnectedMoves
<1>4. CASE u.kind = "disconnected" /\ Disconnected
  <2>1. PICK a \in CutOff(server) : server' = [Abandon(server) EXCEPT !.applied = a]
    BY <1>4 DEF Disconnected
  <2>2. a \in Nat
    BY <1>1 DEF CutOff, Types, Servers
  <2>3. server' \in Servers /\ server'.posted = server.posted /\ server'.up = server.up
    BY <1>1, <2>1, <2>2 DEF Abandon, Types, Servers
  <2>4. /\ pv' = [pv EXCEPT !.connected = FALSE, !.haveLast = FALSE]
        /\ writes' = Stopped(writes) /\ LostView /\ UNCHANGED record
    BY <1>4 DEF Disconnected, Gap, LostView
  <2>5. writes' \in Writings
    BY <1>1, <2>4, StoppedWrites DEF Types
  <2> QED BY <2>3, <2>4, <2>5, LostKept
<1>5. CASE u.kind = "data" /\ Sample(u) /\ UNCHANGED <<server, writes>>
  <2>1. u \in Samples /\ u.number \in Nat /\ IsData(1) /\ Q[1].number = u.number
    BY <1>5 DEF Updates, Signals, Samples, IsData
  <2>2. u.serial = pv.monitor
    BY <1>5 DEF Stale
  <2>3. Moved(u.number)
    BY <1>5, <2>1, <2>2, SampleMoves
  <2> QED BY <2>1, <2>3
<1>6. CASE u.kind = "failed" /\ MonitorFailed /\ UNCHANGED <<server, writes>>
  <2>1. pv' = [pv EXCEPT !.haveLast = FALSE] /\ LostView /\ UNCHANGED record
    BY <1>6 DEF MonitorFailed, LostView
  <2>2. /\ writes' \in Writings /\ server' \in Servers
        /\ server'.posted = server.posted /\ server'.up = server.up
    BY <1>1, <1>6 DEF Types
  <2> QED BY <2>1, <2>2, LostKept
<1>7. CASE u.kind = "putReady" /\ PutReady(u.ok) /\ UNCHANGED <<pv, record, view>>
  <2>1. CASE u.ok
    <3>1. PICK w \in Writings : Send(w)
      <4>1. PutReady(TRUE)
        BY <1>7, <2>1 DEF PutReady
      <4> QED BY <1>1, <4>1, ReadyWrites
    <3> QED BY <1>7, <3>1, SentMoves
  <2>2. CASE ~u.ok
    <3>1. writes' = [Stopped(writes) EXCEPT !.refused = TRUE] /\ server' = Abandon(server)
      BY <1>7, <2>2 DEF PutReady
    <3>2. /\ writes' \in Writings /\ server' \in Servers
          /\ server'.posted = server.posted /\ server'.up = server.up
      BY <1>1, <3>1 DEF Stopped, Abandon, Types, Writings, Servers
    <3>3. UNCHANGED <<pv, record, view>>
      BY <1>7
    <3> QED BY <3>2, <3>3, StillMoves
  <2> QED BY <2>1, <2>2
<1>8. CASE u.kind = "putDone" /\ Answered(u.ok) /\ UNCHANGED <<pv, record, view>>
  <2>1. u.ok \in BOOLEAN
    BY DEF Updates, Signals, Samples
  <2>2. PICK w \in Writings : Send(w)
    BY <1>1, <1>8, <2>1, AnsweredWrites
  <2> QED BY <1>8, <2>2, SentMoves
<1> QED BY <1>3, <1>4, <1>5, <1>6, <1>7, <1>8 DEF Apply

LEMMA HandleKept ==
  ASSUME Numbers, PromiseInv, Handle
  PROVE  PromiseInv' /\ Tells
<1>1. Types /\ Attached /\ Marks
  BY DEF PromiseInv
<1>2. inbox.draining /\ inbox.batch # <<>> /\ inbox' = [inbox EXCEPT !.batch = Tail(@)]
  BY DEF Handle
<1> DEFINE u == Head(inbox.batch)
<1>3. u \in Updates /\ Q[1] = u /\ 1 \in D
  BY <1>1, <1>2, TailQueue
<1>4. PICK n \in Nat : Moved(n) /\ (n = 0 \/ (IsData(1) /\ n = Q[1].number))
  <2>1. CASE Stale(u)
    <3>1. UNCHANGED <<server, pv, writes, record, view>>
      BY <2>1 DEF Handle
    <3>2. Moved(0)
      BY <1>1, <3>1, StillMoves DEF Types
    <3> QED BY <3>2
  <2>2. CASE ~Stale(u)
    <3>1. Apply(u)
      BY <2>2 DEF Handle
    <3> HIDE DEF u
    <3> QED BY <1>3, <2>2, <3>1, ApplyMoves
  <2> QED BY <2>1, <2>2
<1>5. PromiseInv'
  BY <1>2, <1>4, TailKept
<1>6. Tells
  BY <1>4 DEF Moved
<1> QED BY <1>5, <1>6
-----------------------------------------------------------------------------
LEMMA PromiseStep ==
  ASSUME Numbers, PromiseInv, [Next]_vars
  PROVE  PromiseInv' /\ Tells
<1>1. CASE UNCHANGED vars
  <2>1. UNCHANGED <<server, pv, writes, record, view>> /\ inbox' = inbox
    BY <1>1 DEF vars
  <2>2. inbox' \in Inboxes /\ Drains' /\ Q' = Q
    BY <2>1 DEF PromiseInv, Types, Drains, Q
  <2> QED BY <2>1, <2>2, StillKept
<1>2. CASE Connect \/ Disconnect \/ Data \/ Fail \/ PutConnect \/ PutDone
  BY <1>2, ConnectKept, DisconnectKept, DataKept, FailKept, PutConnectKept, PutDoneKept
<1>3. CASE Drain \/ EndDrain
  BY <1>3, DrainKept
<1>4. CASE RecoverInbox
  BY <1>4, RecoverKept
<1>5. CASE ResumeChannels
  BY <1>5, ResumeKept
<1>6. CASE Handle
  BY <1>6, HandleKept
<1>7. CASE PublishRecords
  BY <1>7, PublishKept
<1>8. CASE PutTimeout
  BY <1>8, PutTimeoutKept
<1>9. CASE ConnectionTimeout
  BY <1>9, ConnectionTimeoutKept
<1>10. CASE AckTransient
  BY <1>10, AckTransientKept
<1>11. ASSUME NEW o \in Owners, Monitor(o) \/ Cancel(o) \/ Replay(o)
       PROVE  PromiseInv' /\ Tells
  BY <1>11, MonitorKept, CancelKept, ReplayKept
<1>12. ASSUME NEW s \in Severities, WriteSeverity(s)
       PROVE  PromiseInv' /\ Tells
  BY <1>12, WriteKept
<1>13. ASSUME NEW s \in Severities, Acknowledge(s)
       PROVE  PromiseInv' /\ Tells
  BY <1>13, AcknowledgeKept
<1> QED BY <1>1, <1>2, <1>3, <1>4, <1>5, <1>6, <1>7, <1>8, <1>9, <1>10, <1>11, <1>12, <1>13 DEF Next

(* The stream that observers share keeps the promise of PvService: whatever *)
(* the inbox drops and however often the channel is made again, no         *)
(* observation is told late, twice across a gap or after the last observer *)
(* left.                                                                   *)
THEOREM StreamKeepsPromise ==
  ASSUME Numbers
  PROVE  Spec => ImplementsService
<1>1. Init => PromiseInv /\ Promise!Init
  BY InitKept
<1>2. PromiseInv /\ [Next]_vars => PromiseInv' /\ [Promise!Next]_(Promise!vars)
  BY PromiseStep DEF Tells
<1> QED BY <1>1, <1>2, PTL DEF Spec, ImplementsService, Promise!Spec
-----------------------------------------------------------------------------
(***************************************************************************)
(* Nothing is left behind.                                                 *)
(***************************************************************************)
IsPut(k)  == Q[k].kind \in {"putReady", "putDone"}
IsDone(k) == Q[k].kind = "putDone" /\ Q[k].serial = writes.serial

(* An operation has at most one answer on its way, and none while the      *)
(* server still writes.                                                    *)
Operations ==
  /\ server.setup \/ writes.ready \/ writes.sending # 0 => writes.serial # 0
  /\ writes.serial <= writes.operations
  /\ server.writing # 0 => server.writing = writes.sending
  /\ \A k \in D : IsPut(k) => Q[k].serial # 0 /\ Q[k].serial <= writes.operations
  /\ \A k \in D : IsDone(k) =>
       writes.sending # 0 /\ server.writing = 0 /\ (Q[k].ok => server.applied = writes.sending)
  /\ \A i, j \in D : IsDone(i) /\ IsDone(j) => i = j

(* Only the newest severity is kept, and it is on its way or was refused.  *)
SevereWith(w, applied, connected) ==
  /\ w.queued \in {0, w.wanted} /\ w.pending \in {0, w.wanted}
  /\ w.pending = 0 => applied = w.wanted /\ w.sending \in {0, w.wanted}
  /\ ~connected => w.sending = 0 /\ w.queued = 0
  /\ connected /\ w.pending # 0 => w.sending # 0 \/ w.queued # 0 \/ w.refused
  /\ w.pending # 0 /\ w.sending \notin {0, w.pending} => w.queued # 0

Severe == SevereWith(writes, server.applied, pv.connected)

(* The last report of the connection that waits tells how it is.           *)
Linked ==
  ~inbox.overflow =>
    \/ \E k \in D : /\ Link(k) /\ (Q[k].kind = "connected" <=> server.up)
                    /\ \A j \in D : j > k => ~Link(j)
    \/ (\A j \in D : ~Link(j)) /\ pv.connected = server.up

Reports(k) ==
  /\ Current(k)
  /\ IF server.failed THEN Q[k].kind = "failed"
     ELSE Q[k].kind = "data" /\ Q[k].number = server.posted

Shown ==
  IF server.failed THEN view.last = Outage /\ ~pv.haveLast
  ELSE pv.haveLast /\ view.seen = server.posted

(* The newest observation waits as the last that matters, or was told.     *)
NewestShown ==
  ~inbox.overflow /\ server.up /\ pv.monitor # 0 /\ ~server.fresh =>
    \/ \E k \in D : Reports(k) /\ \A j \in D : j > k => ~Link(j) /\ ~Current(j)
    \/ (\A j \in D : ~Link(j) /\ ~Current(j)) /\ Shown

(* A lost connection was told, or its deadline is still to come.           *)
LossKnown ==
  /\ ~pv.connected => view.last \in {Nothing, Outage}
  /\ ~Alarmed => view.last = Nothing
  /\ ~pv.connected /\ Alarmed =>
       \/ pv.restarting \/ pv.deadline
       \/ \A o \in Owners : view.observers[o].live => view.told[o] = Outage

(* An observer has heard what was told last, or is to be told later.       *)
Told ==
  \A o \in Owners :
    LET b == view.observers[o] IN
    /\ b.live /\ b.delivered /\ view.last # Nothing => view.told[o] = view.last
    /\ b.live /\ ~b.delivered /\ ~b.replay => view.last = Nothing
    /\ b.replay => view.last # Nothing /\ ~b.delivered /\ b.live

Published == pv.haveLast /\ ~record.changed => view.last = Event(view.seen, record)

Writing == Operations /\ Severe
Telling == LossKnown /\ Told /\ Published
Flowing == Linked /\ NewestShown

SettleInv == PromiseInv /\ Writing /\ Telling /\ Flowing /\ AcksFollowAlarm

LEMMA SettleInit == Init => SettleInv
<1> SUFFICES ASSUME Init PROVE SettleInv
  OBVIOUS
<1>1. PromiseInv
  BY InitKept
<1>2. PICK prepared \in BOOLEAN :
        /\ pv = [id |-> 1, created |-> TRUE, connected |-> FALSE, cancelled |-> FALSE,
                 monitor |-> 0, subscriptions |-> 0, haveLast |-> FALSE, deadline |-> TRUE,
                 restarting |-> FALSE, alarm |-> FALSE, prepared |-> prepared]
        /\ writes = [serial |-> IF prepared THEN 1 ELSE 0,
                     operations |-> IF prepared THEN 1 ELSE 0, ready |-> FALSE,
                     sending |-> 0, queued |-> 0, pending |-> 0, wanted |-> 0,
                     refused |-> FALSE]
  BY DEF Init
<1>3. /\ inbox = [updates |-> <<>>, overflow |-> FALSE, scheduled |-> FALSE,
                  batch |-> <<>>, draining |-> FALSE]
      /\ server = [up |-> FALSE, fresh |-> FALSE, setup |-> FALSE, writing |-> 0,
                   posted |-> 0, failed |-> FALSE, applied |-> 0, outages |-> 0]
      /\ record = [alarm |-> <<0, 0>>, acks |-> 0, ackt |-> TRUE, changed |-> FALSE,
                   acked |-> FALSE]
      /\ view = [last |-> Nothing, observers |-> [o \in Owners |-> Nobody],
                 told |-> [o \in Owners |-> Nothing], fed |-> Nothing, seen |-> 0, gap |-> 0]
  BY DEF Init
<1>4. Q = <<>> /\ Len(Q) = 0
  BY <1>3 DEF Q
<1>5. Writing
  BY <1>2, <1>3, <1>4 DEF Writing, Operations, Severe, SevereWith, D
<1>6. Flowing
  BY <1>2, <1>3, <1>4 DEF Flowing, Linked, NewestShown, D
<1>7. Telling
  <2>1. view.last = Nothing /\ \A o \in Owners : view.observers[o] = Nobody
    BY <1>3
  <2>2. Told
    <3> SUFFICES ASSUME NEW o \in Owners
                 PROVE  ~view.observers[o].live /\ ~view.observers[o].replay
      BY DEF Told
    <3> QED BY <2>1 DEF Nobody
  <2>3. LossKnown /\ Published
    BY <1>2, <2>1 DEF LossKnown, Published, Alarmed
  <2> QED BY <2>2, <2>3 DEF Telling
<1>8. AcksFollowAlarm
  BY <1>3 DEF AcksFollowAlarm
<1> QED BY <1>1, <1>5, <1>6, <1>7, <1>8 DEF SettleInv
-----------------------------------------------------------------------------
(***************************************************************************)
(* The operations of a write.                                              *)
(***************************************************************************)
(* No answer was added.                                                    *)
Embedded ==
  \E c \in {0, 1} : \A k \in D' :
    Q'[k].kind \in {"putReady", "putDone"} => k + c \in D /\ Q'[k] = Q[k + c]

LEMMA PostedEmbeds ==
  ASSUME Types, NEW u \in Updates, u.kind \notin {"putReady", "putDone"}, Grown(u) \/ Dropped
  PROVE  Embedded
<1>1. \A k \in D : k + 0 = k
  BY QueueType DEF D, Types
<1>2. CASE Grown(u)
  BY <1>1, <1>2, GrownQueue DEF Embedded, Types
<1>3. CASE Dropped
  BY <1>1, <1>3 DEF Embedded, Dropped
<1> QED BY <1>2, <1>3

LEMMA SameEmbeds ==
  ASSUME Types, Q' = Q
  PROVE  Embedded
<1>1. \A k \in D : k + 0 = k
  BY QueueType DEF D, Types
<1>2. D' = D
  BY DEF D
<1> QED BY <1>1, <1>2 DEF Embedded

LEMMA TailEmbeds ==
  ASSUME Types, inbox.batch # <<>>, inbox' = [inbox EXCEPT !.batch = Tail(@)]
  PROVE  Embedded
  BY TailQueue DEF Embedded

LEMMA OperationsKept ==
  ASSUME Types, Operations, Embedded, writes' = writes,
         server'.setup => server.setup \/ writes.serial # 0,
         server'.writing = 0 \/ server'.writing = server.writing,
         server'.applied = server.applied \/ server.writing # 0
  PROVE  Operations'
<1>1. PICK c \in {0, 1} : \A k \in D' :
        Q'[k].kind \in {"putReady", "putDone"} => k + c \in D /\ Q'[k] = Q[k + c]
  BY DEF Embedded
<1>2. \A k \in D' : IsPut(k)' => Q'[k].serial # 0 /\ Q'[k].serial <= writes.operations
  BY <1>1 DEF Operations, IsPut
<1>3. \A k \in D' : IsDone(k)' =>
        writes.sending # 0 /\ server'.writing = 0 /\ (Q'[k].ok => server'.applied = writes.sending)
  BY <1>1 DEF Operations, IsDone
<1>4. \A i, j \in D' : IsDone(i)' /\ IsDone(j)' => i = j
  <2> TAKE i, j \in D'
  <2> HAVE IsDone(i)' /\ IsDone(j)'
  <2>1. i + c \in D /\ j + c \in D /\ IsDone(i + c) /\ IsDone(j + c)
    BY <1>1 DEF IsDone
  <2>2. i + c = j + c
    BY <2>1 DEF Operations
  <2> QED BY <2>2 DEF D
<1> QED BY <1>2, <1>3, <1>4 DEF Operations

LEMMA OperationsStopped ==
  ASSUME Types, Operations, Embedded, writes'.serial = 0, ~writes'.ready, writes'.sending = 0,
         writes'.operations = writes.operations, ~server'.setup, server'.writing = 0
  PROVE  Operations'
<1>1. PICK c \in {0, 1} : \A k \in D' :
        Q'[k].kind \in {"putReady", "putDone"} => k + c \in D /\ Q'[k] = Q[k + c]
  BY DEF Embedded
<1>2. \A k \in D' : IsPut(k)' => Q'[k].serial # 0 /\ Q'[k].serial <= writes'.operations
  BY <1>1 DEF Operations, IsPut
<1>3. \A k \in D' : ~IsDone(k)'
  BY <1>2 DEF IsDone, IsPut
<1>4. 0 <= writes'.operations
  BY DEF Types, Writings
<1> QED BY <1>2, <1>3, <1>4 DEF Operations

LEMMA OperationsSent ==
  ASSUME Types, Operations, Embedded, NEW w \in Writings, Send(w),
         \/ w.serial = writes.serial /\ w.operations = writes.operations
         \/ /\ writes.serial = 0 /\ w.operations = writes.operations + 1
            /\ w.serial = writes.operations + 1,
         w.ready => w.serial # 0,
         \/ w.sending = writes.sending
         \/ /\ w.sending = 0 /\ server.writing = 0
            /\ \A k \in D' : ~(Q'[k].kind = "putDone" /\ Q'[k].serial = writes.serial)
  PROVE  Operations'
<1>1. PICK c \in {0, 1} : \A k \in D' :
        Q'[k].kind \in {"putReady", "putDone"} => k + c \in D /\ Q'[k] = Q[k + c]
  BY DEF Embedded
<1>2. /\ server'.applied = server.applied
      /\ server'.setup = (server.setup \/ (w.serial # writes.serial /\ server.up))
      /\ writes'.serial = w.serial /\ writes'.operations = w.operations
      /\ writes'.ready = w.ready
      /\ \/ /\ CanSend(w) /\ writes'.sending = w.queued /\ server'.writing = w.queued
         \/ /\ ~CanSend(w) /\ writes'.sending = w.sending /\ server'.writing = server.writing
  BY SendMoves
<1>3. writes.operations \in Nat /\ writes.serial \in Nat
  BY DEF Types, Writings
<1>4. \A k \in D' : IsPut(k)' =>
        Q'[k].serial \in Nat /\ Q'[k].serial # 0 /\ Q'[k].serial <= writes.operations
  <2>1. \A k \in D : Q[k] \in Updates
    BY QueueType DEF Types
  <2>2. \A k \in D : IsPut(k) => Q[k].serial \in Nat
    BY <2>1 DEF Updates, Signals, Samples, IsPut
  <2> QED BY <1>1, <2>2 DEF Operations, IsPut
<1>5. ASSUME NEW k \in D', IsDone(k)'
      PROVE  k + c \in D /\ IsDone(k + c) /\ w.sending = writes.sending /\ w.serial = writes.serial
             /\ Q'[k] = Q[k + c]
  <2>1. Q'[k].kind = "putDone" /\ Q'[k].serial = w.serial
    BY <1>2, <1>5 DEF IsDone
  <2>2. w.serial = writes.serial
    BY <1>3, <1>4, <2>1 DEF IsPut
  <2> QED BY <1>1, <2>1, <2>2 DEF IsDone
<1>6. \A k \in D' : IsDone(k)' =>
        writes'.sending # 0 /\ server'.writing = 0 /\ (Q'[k].ok => server'.applied = writes'.sending)
  <2> SUFFICES ASSUME NEW k \in D', IsDone(k)'
               PROVE  writes'.sending # 0 /\ server'.writing = 0
                      /\ (Q'[k].ok => server'.applied = writes'.sending)
    OBVIOUS
  <2>1. writes.sending # 0 /\ server.writing = 0 /\ (Q[k + c].ok => server.applied = writes.sending)
    BY <1>5 DEF Operations
  <2>2. ~CanSend(w)
    BY <1>5, <2>1 DEF CanSend
  <2> QED BY <1>2, <1>5, <2>1, <2>2
<1>7. \A i, j \in D' : IsDone(i)' /\ IsDone(j)' => i = j
  <2> TAKE i, j \in D'
  <2> HAVE IsDone(i)' /\ IsDone(j)'
  <2>1. i + c \in D /\ j + c \in D /\ IsDone(i + c) /\ IsDone(j + c)
    BY <1>5
  <2>2. i + c = j + c
    BY <2>1 DEF Operations
  <2> QED BY <2>2 DEF D
<1>8. server'.setup \/ writes'.ready \/ writes'.sending # 0 => writes'.serial # 0
  BY <1>2, <1>3 DEF Operations, CanSend
<1>9. /\ writes'.serial <= writes'.operations
      /\ server'.writing # 0 => server'.writing = writes'.sending
  BY <1>2, <1>3 DEF Operations, CanSend
<1>10. \A k \in D' : IsPut(k)' => Q'[k].serial # 0 /\ Q'[k].serial <= writes'.operations
  <2>1. writes'.operations = writes.operations \/ writes'.operations = writes.operations + 1
    BY <1>2
  <2> QED BY <1>3, <1>4, <2>1
<1> QED BY <1>6, <1>7, <1>8, <1>9, <1>10 DEF Operations

(* What can be sent is sent, and what waits stays.                         *)
LEMMA SevereSent ==
  ASSUME Types, NEW w \in Writings, Send(w), SevereWith(w, server.applied, pv'.connected)
  PROVE  Severe'
<1>1. /\ server'.applied = server.applied /\ writes'.pending = w.pending
      /\ writes'.wanted = w.wanted /\ writes'.refused = w.refused
      /\ \/ /\ CanSend(w) /\ writes'.sending = w.queued /\ writes'.queued = 0
         \/ /\ ~CanSend(w) /\ writes'.sending = w.sending /\ writes'.queued = w.queued
  BY SendMoves
<1>2. CASE ~CanSend(w)
  BY <1>1, <1>2 DEF Severe, SevereWith
<1>3. CASE CanSend(w)
  <2>1. w.sending = 0 /\ w.queued # 0 /\ w.queued = w.wanted
    BY <1>3 DEF CanSend, SevereWith
  <2> QED BY <1>1, <1>3, <2>1 DEF Severe, SevereWith
<1> QED BY <1>2, <1>3

(* A write on its way is carried out or lost.                              *)
LEMMA CutSevere ==
  ASSUME Types, Operations, Severe, NEW a \in CutOff(server)
  PROVE  SevereWith(writes, a, pv.connected)
<1>1. a = server.applied \/ (server.writing # 0 /\ a = writes.sending)
  BY DEF CutOff, Operations
<1> QED BY <1>1 DEF Operations, Severe, SevereWith

(* Steps that leave the writes as they are.                                *)
LEMMA WritingKept ==
  ASSUME Types, Writing, Embedded, writes' = writes, pv'.connected = pv.connected,
         server'.setup => server.setup \/ writes.serial # 0,
         \/ server'.writing = server.writing /\ server'.applied = server.applied
         \/ server'.writing = 0 /\ server'.applied \in CutOff(server)
  PROVE  Writing'
<1>1. server'.applied \in CutOff(server)
  BY DEF CutOff
<1>2. server'.applied = server.applied \/ server.writing # 0
  BY <1>1 DEF CutOff
<1>3. Operations'
  BY <1>2, OperationsKept DEF Writing
<1>4. Severe'
  BY <1>1, CutSevere DEF Writing, Severe
<1> QED BY <1>3, <1>4 DEF Writing

(* Steps that release the operation.                                       *)
LEMMA WritingStopped ==
  ASSUME Types, Writing, Embedded, server'.applied \in CutOff(server),
         ~server'.setup, server'.writing = 0,
         \/ writes' = Stopped(writes) /\ ~pv'.connected
         \/ writes' = [Stopped(writes) EXCEPT !.refused = TRUE]
  PROVE  Writing'
<1>1. /\ writes'.serial = 0 /\ writes'.operations = writes.operations /\ ~writes'.ready
      /\ writes'.sending = 0 /\ writes'.queued = 0 /\ writes'.pending = writes.pending
      /\ writes'.wanted = writes.wanted
      /\ ~pv'.connected \/ writes'.refused
  <2>1. CASE writes' = Stopped(writes) /\ ~pv'.connected
    BY <2>1, StoppedWrites DEF Types
  <2>2. CASE writes' = [Stopped(writes) EXCEPT !.refused = TRUE]
    BY <2>2 DEF Stopped, Types, Writings
  <2> QED BY <2>1, <2>2
<1>2. Operations'
  BY <1>1, OperationsStopped DEF Writing
<1>3. SevereWith(writes, server'.applied, pv.connected)
  BY CutSevere DEF Writing
<1>4. Severe'
  BY <1>1, <1>3 DEF Severe, SevereWith
<1> QED BY <1>2, <1>4 DEF Writing

(* A write that is not sent yet takes the place of the one that waits.     *)
LEMMA WritingPut ==
  ASSUME Types, Writing, Embedded, NEW w \in Writings, w.queued = writes.queued,
         \/ w.serial = writes.serial /\ w.operations = writes.operations
         \/ /\ writes.serial = 0 /\ w.operations = writes.operations + 1
            /\ w.serial = writes.operations + 1,
         w.ready = writes.ready, w.sending = writes.sending,
         w.pending = w.wanted, w.wanted # 0,
         pv'.connected, Put(w.pending, w)
  PROVE  Writing'
<1> DEFINE e == [Ensured(w) EXCEPT !.queued = w.pending]
<1>1. /\ e \in Writings /\ Send(e)
      /\ e.ready = w.ready /\ e.sending = w.sending /\ e.queued = w.pending
      /\ e.pending = w.pending /\ e.wanted = w.wanted /\ e.refused = w.refused
      /\ \/ e.serial = w.serial /\ e.operations = w.operations
         \/ /\ pv.created /\ w.serial = 0
            /\ e.operations = w.operations + 1 /\ e.serial = w.operations + 1
  <2>1. w.pending \in Nat
    BY DEF Writings
  <2> QED BY <2>1, PutMoves
<1> HIDE DEF e
<1>2. writes.operations + 1 # 0 /\ writes.operations \in Nat
  BY DEF Types, Writings
<1>3. Operations'
  <2>1. e.ready => e.serial # 0
    BY <1>1, <1>2 DEF Writing, Operations
  <2>2. \/ e.serial = writes.serial /\ e.operations = writes.operations
        \/ /\ writes.serial = 0 /\ e.operations = writes.operations + 1
           /\ e.serial = writes.operations + 1
    BY <1>1, <1>2
  <2> QED BY <1>1, <2>1, <2>2, OperationsSent DEF Writing
<1>4. SevereWith(e, server.applied, pv'.connected)
  BY <1>1 DEF SevereWith
<1>5. Severe'
  BY <1>1, <1>4, SevereSent
<1> QED BY <1>3, <1>5 DEF Writing

LEMMA ThreadsWriting ==
  ASSUME SettleInv, Connect \/ Disconnect \/ Data \/ Fail \/ PutConnect
  PROVE  Writing'
<1>1. Types /\ Drains /\ Writing /\ Operations
  BY DEF SettleInv, PromiseInv, Writing
<1>2. UNCHANGED <<pv, writes>>
  BY DEF Connect, Disconnect, Data, Fail, PutConnect
<1>3. CASE Connect
  <2>1. inbox' = Posted(Update("connected", 0, TRUE))
    BY <1>3 DEF Connect
  <2>2. Embedded
    BY <1>1, <2>1, UpdateType, PostedQueue, PostedEmbeds
  <2>3. server' = [server EXCEPT !.up = TRUE, !.fresh = pv.monitor # 0, !.setup = writes.serial # 0]
    BY <1>3 DEF Connect
  <2>4. server'.writing = server.writing /\ server'.applied = server.applied
        /\ (server'.setup => writes.serial # 0)
    BY <1>1, <2>3 DEF Types, Servers
  <2> QED BY <1>1, <1>2, <2>2, <2>4, WritingKept
<1>4. CASE Disconnect
  <2>1. inbox' = Posted(Update("disconnected", 0, TRUE))
    BY <1>4 DEF Disconnect
  <2>2. Embedded
    BY <1>1, <2>1, UpdateType, PostedQueue, PostedEmbeds
  <2>3. PICK a \in CutOff(server) :
          server' = [Lost(server) EXCEPT !.outages = @ + 1, !.applied = a]
    BY <1>4 DEF Disconnect
  <2>4. server'.writing = 0 /\ server'.applied = a /\ ~server'.setup
    BY <1>1, <2>3 DEF Lost, Types, Servers
  <2> QED BY <1>1, <1>2, <2>2, <2>3, <2>4, WritingKept
<1>5. CASE Data
  <2>1. PICK u \in Updates : u.kind = "data" /\ inbox' = Posted(u)
    BY <1>1, <1>5, SampleType DEF Data
  <2>2. Embedded
    BY <1>1, <2>1, PostedQueue, PostedEmbeds
  <2>3. server'.writing = server.writing /\ server'.applied = server.applied
        /\ server'.setup = server.setup
    BY <1>1, <1>5 DEF Data, Types, Servers
  <2> QED BY <1>1, <1>2, <2>2, <2>3, WritingKept
<1>6. CASE Fail
  <2>1. inbox' = Posted(Update("failed", pv.monitor, FALSE)) /\ pv.monitor \in Nat
    BY <1>1, <1>6 DEF Fail, Types, Pvs
  <2>2. Embedded
    BY <1>1, <2>1, UpdateType, PostedQueue, PostedEmbeds
  <2>3. server'.writing = server.writing /\ server'.applied = server.applied
        /\ server'.setup = server.setup
    BY <1>1, <1>6 DEF Fail, Types, Servers
  <2> QED BY <1>1, <1>2, <2>2, <2>3, WritingKept
<1>7. CASE PutConnect
  <2>1. PICK ok \in BOOLEAN : inbox' = Posted(Update("putReady", writes.serial, ok))
    BY <1>7 DEF PutConnect
  <2> DEFINE u == Update("putReady", writes.serial, ok)
  <2>2. u \in Updates /\ u.kind = "putReady" /\ u.serial = writes.serial
        /\ writes.serial # 0 /\ writes.serial \in Nat
    <3>1. writes.serial \in Nat /\ writes.serial # 0
      BY <1>1, <1>7 DEF Types, Writings, PutConnect, Operations
    <3> QED BY <1>1, <3>1, UpdateType
  <2> HIDE DEF u
  <2>3. Grown(u) \/ Dropped
    BY <1>1, <2>1, <2>2, PostedQueue DEF u
  <2>4. /\ server'.writing = server.writing /\ server'.applied = server.applied
        /\ ~server'.setup
    BY <1>1, <1>7 DEF PutConnect, Types, Servers
  <2>5. CASE Dropped
    <3>1. Embedded
      <4>1. \A k \in D : k + 0 = k
        BY <1>1, QueueType DEF D, Types
      <4> QED BY <2>5, <4>1 DEF Dropped, Embedded
    <3> QED BY <1>1, <1>2, <2>4, <3>1, WritingKept
  <2>6. CASE Grown(u)
    <3>1. \A k \in D' : (k \in D /\ Q'[k] = Q[k]) \/ (k = Len(Q) + 1 /\ Q'[k] = u)
      BY <1>1, <2>2, <2>6, GrownQueue DEF Types
    <3>2. \A k \in D' : IsPut(k)' => Q'[k].serial # 0 /\ Q'[k].serial <= writes.operations
      BY <1>1, <2>2, <3>1 DEF Operations, IsPut
    <3>3. \A k \in D' : IsDone(k)' => k \in D /\ Q'[k] = Q[k] /\ IsDone(k)
      BY <1>2, <2>2, <3>1 DEF IsDone
    <3>4. Operations'
      BY <1>1, <1>2, <2>4, <3>2, <3>3 DEF Operations
    <3>5. Severe'
      BY <1>1, <1>2, <2>4 DEF Severe, Writing
    <3> QED BY <3>4, <3>5 DEF Writing
  <2> QED BY <2>3, <2>5, <2>6
<1> QED BY <1>3, <1>4, <1>5, <1>6, <1>7

LEMMA DoneWriting ==
  ASSUME SettleInv, PutDone
  PROVE  Writing'
<1>1. Types /\ Drains /\ Writing /\ Operations /\ Severe
  BY DEF SettleInv, PromiseInv, Writing
<1>2. PICK ok \in BOOLEAN :
        /\ server' = [server EXCEPT !.writing = 0,
                                    !.applied = IF ok THEN server.writing ELSE @]
        /\ inbox' = Posted(Update("putDone", writes.serial, ok))
  BY DEF PutDone
<1>3. UNCHANGED <<pv, writes>> /\ server.writing # 0
  BY DEF PutDone
<1> DEFINE u == Update("putDone", writes.serial, ok)
<1>4. writes.serial \in Nat /\ writes.serial # 0 /\ writes.sending # 0
      /\ server.writing = writes.sending
  BY <1>1, <1>3 DEF Types, Writings, Operations
<1>5. u \in Updates /\ u.kind = "putDone" /\ u.serial = writes.serial /\ u.ok = ok
  BY <1>1, <1>4, UpdateType
<1> HIDE DEF u
<1>6. Grown(u) \/ Dropped
  BY <1>1, <1>2, <1>5, PostedQueue DEF u
<1>7. /\ server'.writing = 0 /\ server'.setup = server.setup
      /\ server'.applied = IF ok THEN server.writing ELSE server.applied
  BY <1>1, <1>2 DEF Types, Servers
<1>8. server'.applied \in CutOff(server)
  BY <1>3, <1>7 DEF CutOff
<1>9. CASE Dropped
  <2>1. Embedded
    <3>1. \A k \in D : k + 0 = k
      BY <1>1, QueueType DEF D, Types
    <3> QED BY <1>9, <3>1 DEF Dropped, Embedded
  <2> QED BY <1>1, <1>3, <1>7, <1>8, <2>1, WritingKept
<1>10. CASE Grown(u)
  <2>1. \A k \in D' : (k \in D /\ Q'[k] = Q[k]) \/ (k = Len(Q) + 1 /\ Q'[k] = u)
    BY <1>1, <1>5, <1>10, GrownQueue DEF Types
  <2>2. \A k \in D' : IsPut(k)' => Q'[k].serial # 0 /\ Q'[k].serial <= writes.operations
    BY <1>1, <1>4, <1>5, <2>1 DEF Operations, IsPut
  <2>3. \A k \in D : ~IsDone(k)
    BY <1>1, <1>3 DEF Operations
  <2>4. \A k \in D' : IsDone(k)' => k = Len(Q) + 1 /\ Q'[k] = u
    BY <1>3, <2>1, <2>3 DEF IsDone
  <2>5. Operations'
    BY <1>1, <1>3, <1>4, <1>5, <1>7, <2>2, <2>4 DEF Operations
  <2>6. Severe'
    BY <1>1, <1>3, <1>8, CutSevere DEF Severe
  <2> QED BY <2>5, <2>6 DEF Writing
<1> QED BY <1>6, <1>9, <1>10

(* Steps of the Qt thread that leave the writes alone.                     *)
LEMMA QuietWriting ==
  ASSUME SettleInv,
         \/ Drain \/ EndDrain \/ ResumeChannels \/ PublishRecords \/ ConnectionTimeout
         \/ AckTransient \/ (\E s \in Severities : Acknowledge(s))
         \/ (\E o \in Owners : Monitor(o) \/ Cancel(o) \/ Replay(o))
  PROVE  Writing'
<1>1. Types /\ Drains /\ Writing
  BY DEF SettleInv, PromiseInv
<1>2. UNCHANGED writes /\ Q' = Q
  <2>1. CASE Drain \/ EndDrain
    BY <1>1, <2>1, Drained1, Drained2 DEF Drain, EndDrain
  <2>2. CASE ~(Drain \/ EndDrain)
    <3>1. UNCHANGED <<writes, inbox>>
      BY <2>2 DEF ResumeChannels, PublishRecords, ConnectionTimeout, AckTransient, Acknowledge,
                  Monitor, Cancel, Replay
    <3> QED BY <3>1 DEF Q
  <2> QED BY <2>1, <2>2
<1>3. Embedded
  BY <1>1, <1>2, SameEmbeds
<1>4. server'.setup = server.setup /\ server'.writing = server.writing
      /\ server'.applied = server.applied /\ pv'.connected = pv.connected
  <2>1. CASE Drain \/ EndDrain \/ PublishRecords \/ AckTransient
             \/ (\E s \in Severities : Acknowledge(s)) \/ (\E o \in Owners : Replay(o))
    BY <2>1 DEF Drain, EndDrain, PublishRecords, AckTransient, Acknowledge, Replay
  <2>2. CASE ConnectionTimeout
    BY <1>1, <2>2 DEF ConnectionTimeout, Types, Pvs
  <2>3. CASE ResumeChannels
    <3> DEFINE p == [pv EXCEPT !.restarting = FALSE, !.created = TRUE, !.deadline = TRUE]
    <3>1. p \in Pvs /\ p.connected = pv.connected
      BY <1>1 DEF Types, Pvs
    <3>2. pv' = Subscribed(p) /\ server' = server
      BY <2>3 DEF ResumeChannels
    <3> HIDE DEF p
    <3> QED BY <3>1, <3>2, SubscribedPv
  <2>4. ASSUME NEW o \in Owners, Monitor(o)
        PROVE  server'.setup = server.setup /\ server'.writing = server.writing
               /\ server'.applied = server.applied /\ pv'.connected = pv.connected
    BY <1>1, <2>4, MonitorChannel
  <2>5. ASSUME NEW o \in Owners, Cancel(o)
        PROVE  server'.setup = server.setup /\ server'.writing = server.writing
               /\ server'.applied = server.applied /\ pv'.connected = pv.connected
    <3>1. \/ server' = [server EXCEPT !.fresh = FALSE]
             /\ pv' = [pv EXCEPT !.cancelled = TRUE, !.haveLast = FALSE, !.monitor = 0]
          \/ server' = server /\ pv' = pv
      BY <2>5 DEF Cancel
    <3> QED BY <1>1, <3>1 DEF Types, Servers, Pvs
  <2> QED BY <2>1, <2>2, <2>3, <2>4, <2>5
<1> QED BY <1>1, <1>2, <1>3, <1>4, WritingKept

LEMMA PutTimeoutWriting ==
  ASSUME SettleInv, PutTimeout
  PROVE  Writing'
<1>1. Types /\ Writing
  BY DEF SettleInv, PromiseInv
<1>2. PICK a \in CutOff(server) : server' = [Abandon(server) EXCEPT !.applied = a]
  BY DEF PutTimeout
<1>3. server'.applied = a /\ ~server'.setup /\ server'.writing = 0
  BY <1>1, <1>2 DEF Abandon, Types, Servers
<1>4. Embedded
  <2>1. Q' = Q
    BY DEF PutTimeout, Q
  <2> QED BY <1>1, <2>1, SameEmbeds
<1>5. writes' = [Stopped(writes) EXCEPT !.refused = TRUE]
  BY DEF PutTimeout
<1> QED BY <1>1, <1>2, <1>3, <1>4, <1>5, WritingStopped

LEMMA RecoverWriting ==
  ASSUME SettleInv, RecoverInbox
  PROVE  Writing'
<1>1. Types /\ Drains /\ Attached /\ Writing
  BY DEF SettleInv, PromiseInv
<1>2. /\ \A k \in D' : Q'[k].kind = "connected" /\ Q'[k].id = pv.id
      /\ ~pv'.connected /\ writes' = Stopped(writes)
      /\ ~server'.setup /\ server'.writing = 0 /\ server'.applied \in CutOff(server)
  BY <1>1, Recovered
<1>3. Embedded
  BY <1>2 DEF Embedded
<1> QED BY <1>1, <1>2, <1>3, WritingStopped

LEMMA WriteWriting ==
  ASSUME Numbers, SettleInv, NEW v \in Severities, WriteSeverity(v)
  PROVE  Writing'
<1>1. Types /\ Writing /\ Operations /\ Severe /\ v \in Nat /\ v # 0
  BY DEF SettleInv, PromiseInv, Writing, Numbers
<1>2. Embedded
  <2>1. Q' = Q
    BY DEF WriteSeverity, Q
  <2> QED BY <1>1, <2>1, SameEmbeds
<1> DEFINE w == [writes EXCEPT !.wanted = v, !.pending = v]
<1>3. /\ w \in Writings /\ w.queued = writes.queued
      /\ w.serial = writes.serial /\ w.operations = writes.operations
      /\ w.ready = writes.ready /\ w.sending = writes.sending
      /\ w.pending = v /\ w.wanted = v
  BY <1>1 DEF Types, Writings
<1>4. pv' = pv /\ IF pv.connected THEN Put(v, w) ELSE writes' = w /\ UNCHANGED server
  BY DEF WriteSeverity
<1> HIDE DEF w
<1>5. CASE pv.connected
  BY <1>1, <1>2, <1>3, <1>4, <1>5, WritingPut
<1>6. CASE ~pv.connected
  <2>1. Severe'
    BY <1>1, <1>3, <1>4, <1>6 DEF Severe, SevereWith
  <2>2. D' = D /\ Q' = Q
    BY DEF WriteSeverity, Q, D
  <2>3. Operations'
    BY <1>1, <1>3, <1>4, <1>6, <2>2 DEF Operations, IsPut, IsDone
  <2> QED BY <2>1, <2>3 DEF Writing
<1> QED BY <1>5, <1>6

(* A connection sets up the operation and writes what was not confirmed.   *)
LEMMA ConnectedWriting ==
  ASSUME Types, Writing, Embedded, Connected
  PROVE  Writing'
<1> DEFINE w == IF pv.prepared THEN Ensured(writes) ELSE writes
           f == [w EXCEPT !.refused = FALSE]
<1>1. /\ w \in Writings /\ w.ready = writes.ready /\ w.sending = writes.sending
      /\ w.queued = writes.queued /\ w.pending = writes.pending /\ w.wanted = writes.wanted
      /\ \/ w.serial = writes.serial /\ w.operations = writes.operations
         \/ /\ writes.serial = 0 /\ w.operations = writes.operations + 1
            /\ w.serial = writes.operations + 1
  BY EnsuredWrites DEF Types
<1>2. pv'.connected
  BY DEF Connected, Types, Pvs
<1>3. IF w.pending # 0 THEN Put(w.pending, f) ELSE Send(f)
  BY DEF Connected
<1> HIDE DEF w
<1>4. /\ f \in Writings /\ f.ready = writes.ready /\ f.sending = writes.sending
      /\ f.queued = writes.queued /\ f.pending = writes.pending /\ f.wanted = writes.wanted
      /\ \/ f.serial = writes.serial /\ f.operations = writes.operations
         \/ /\ writes.serial = 0 /\ f.operations = writes.operations + 1
            /\ f.serial = writes.operations + 1
  BY <1>1 DEF Writings
<1>5. (w.pending # 0 => Put(f.pending, f)) /\ (w.pending = 0 => Send(f))
  BY <1>1, <1>3, <1>4
<1> HIDE DEF f
<1>6. Severe /\ Operations
  BY DEF Writing
<1>7. CASE w.pending # 0
  <2>1. f.pending = f.wanted /\ f.wanted # 0 /\ Put(f.pending, f)
    BY <1>1, <1>4, <1>5, <1>6, <1>7 DEF Severe, SevereWith
  <2> QED BY <1>2, <1>4, <2>1, WritingPut
<1>8. CASE w.pending = 0
  <2>1. Send(f)
    BY <1>5, <1>8
  <2>2. f.ready => f.serial # 0
    <3>1. writes.operations + 1 # 0
      BY DEF Types, Writings
    <3> QED BY <1>4, <1>6, <3>1 DEF Operations
  <2>3. Operations'
    BY <1>4, <1>6, <2>1, <2>2, OperationsSent
  <2>4. SevereWith(f, server.applied, pv'.connected)
    BY <1>1, <1>2, <1>4, <1>6, <1>8 DEF Severe, SevereWith
  <2>5. Severe'
    BY <1>4, <2>1, <2>4, SevereSent
  <2> QED BY <2>3, <2>5 DEF Writing
<1> QED BY <1>7, <1>8

LEMMA AnsweredWriting ==
  ASSUME Types, Writing, 1 \in D, IsDone(1), Q[1].ok \in BOOLEAN, Answered(Q[1].ok), pv' = pv,
         Embedded, \A k \in D' : k + 1 \in D /\ Q'[k] = Q[k + 1] /\ 1 < k + 1 /\ k \in Nat
  PROVE  Writing'
<1> DEFINE ok == Q[1].ok
           p == IF ok /\ writes.sending = writes.pending THEN 0 ELSE writes.pending
           w == [writes EXCEPT !.sending = 0, !.refused = ~ok, !.pending = p]
<1>1. /\ w \in Writings /\ Send(w)
      /\ w.serial = writes.serial /\ w.operations = writes.operations
      /\ w.ready = writes.ready /\ w.sending = 0 /\ w.queued = writes.queued
      /\ w.pending = p /\ w.wanted = writes.wanted /\ w.refused = ~ok
  BY AnsweredWrites
<1>2. Operations /\ Severe
  BY DEF Writing
<1>3. writes.sending # 0 /\ server.writing = 0 /\ (ok => server.applied = writes.sending)
  BY <1>2 DEF Operations
<1> HIDE DEF w, ok
<1>4. \A k \in D' : ~(Q'[k].kind = "putDone" /\ Q'[k].serial = writes.serial)
  <2> SUFFICES ASSUME NEW k \in D', Q'[k].kind = "putDone", Q'[k].serial = writes.serial
               PROVE  FALSE
    OBVIOUS
  <2>1. k + 1 \in D /\ IsDone(k + 1)
    BY DEF IsDone
  <2>2. k + 1 = 1
    BY <1>2, <2>1 DEF Operations
  <2> QED BY <2>2
<1>5. w.ready => w.serial # 0
  BY <1>1, <1>2 DEF Operations
<1>6. Operations'
  BY <1>1, <1>2, <1>3, <1>4, <1>5, OperationsSent
<1>7. SevereWith(w, server.applied, pv'.connected)
  <2>1. CASE ok /\ writes.sending = writes.pending
    BY <1>1, <1>2, <1>3, <2>1 DEF Severe, SevereWith
  <2>2. CASE ~(ok /\ writes.sending = writes.pending)
    BY <1>1, <1>2, <1>3, <2>2 DEF Severe, SevereWith
  <2> QED BY <2>1, <2>2
<1>8. Severe'
  BY <1>1, <1>7, SevereSent
<1> QED BY <1>6, <1>8 DEF Writing

LEMMA HandleWriting ==
  ASSUME Numbers, SettleInv, Handle
  PROVE  Writing'
<1>1. Types /\ Writing /\ Operations /\ Severe
  BY DEF SettleInv, PromiseInv, Writing
<1>2. inbox.batch # <<>> /\ inbox' = [inbox EXCEPT !.batch = Tail(@)]
  BY DEF Handle
<1> DEFINE u == Head(inbox.batch)
<1>3. /\ u \in Updates /\ Q[1] = u /\ 1 \in D
      /\ \A k \in D' : k + 1 \in D /\ Q'[k] = Q[k + 1] /\ 1 < k + 1 /\ k \in Nat
  BY <1>1, <1>2, TailQueue
<1>4. Embedded
  BY <1>1, <1>2, TailEmbeds
<1>5. Stale(u) => UNCHANGED <<server, pv, writes>>
  BY DEF Handle
<1>6. ~Stale(u) => Apply(u)
  BY DEF Handle
<1> HIDE DEF u
<1>7. CASE Stale(u)
  BY <1>1, <1>4, <1>5, <1>7, WritingKept
<1>8. CASE ~Stale(u) /\ u.kind = "connected" /\ Connected
  BY <1>1, <1>4, <1>8, ConnectedWriting
<1>9. CASE ~Stale(u) /\ u.kind = "disconnected" /\ Disconnected
  <2>1. PICK a \in CutOff(server) : server' = [Abandon(server) EXCEPT !.applied = a]
    BY <1>9 DEF Disconnected
  <2>2. server'.applied = a /\ ~server'.setup /\ server'.writing = 0
    BY <1>1, <2>1 DEF Abandon, Types, Servers
  <2>3. writes' = Stopped(writes) /\ ~pv'.connected
    BY <1>1, <1>9 DEF Disconnected, Gap, Types, Pvs
  <2> QED BY <1>1, <1>4, <2>1, <2>2, <2>3, WritingStopped
<1>10. CASE ~Stale(u) /\ u.kind = "data" /\ Sample(u) /\ UNCHANGED <<server, writes>>
  <2>1. pv'.connected = pv.connected
    BY <1>1, <1>10 DEF Sample, Types, Pvs
  <2> QED BY <1>1, <1>4, <1>10, <2>1, WritingKept
<1>11. CASE ~Stale(u) /\ u.kind = "failed" /\ MonitorFailed /\ UNCHANGED <<server, writes>>
  <2>1. pv'.connected = pv.connected
    BY <1>1, <1>11 DEF MonitorFailed, Types, Pvs
  <2> QED BY <1>1, <1>4, <1>11, <2>1, WritingKept
<1>12. CASE ~Stale(u) /\ u.kind = "putReady" /\ PutReady(u.ok) /\ UNCHANGED <<pv, record, view>>
  <2>1. CASE u.ok
    <3> DEFINE w == [writes EXCEPT !.ready = TRUE]
    <3>1. PutReady(TRUE)
      BY <1>12, <2>1 DEF PutReady
    <3>2. /\ w \in Writings /\ Send(w) /\ w.serial = writes.serial
          /\ w.operations = writes.operations /\ w.sending = writes.sending
          /\ w.queued = writes.queued /\ w.pending = writes.pending
          /\ w.wanted = writes.wanted /\ w.refused = writes.refused
      BY <1>1, <3>1, ReadyWrites
    <3> HIDE DEF w
    <3>3. writes.serial # 0
      BY <1>1, <1>3, <1>12 DEF Operations, IsPut, Stale
    <3>4. Operations'
      BY <1>1, <1>4, <3>2, <3>3, OperationsSent
    <3>5. SevereWith(w, server.applied, pv'.connected)
      BY <1>1, <1>12, <3>2 DEF Severe, SevereWith
    <3>6. Severe'
      BY <1>1, <3>2, <3>5, SevereSent
    <3> QED BY <3>4, <3>6 DEF Writing
  <2>2. CASE ~u.ok
    <3>1. writes' = [Stopped(writes) EXCEPT !.refused = TRUE] /\ server' = Abandon(server)
      BY <1>12, <2>2 DEF PutReady
    <3>2. server'.applied \in CutOff(server) /\ ~server'.setup /\ server'.writing = 0
      BY <1>1, <3>1 DEF Abandon, CutOff, Types, Servers
    <3> QED BY <1>1, <1>4, <3>1, <3>2, WritingStopped
  <2> QED BY <2>1, <2>2
<1>13. CASE ~Stale(u) /\ u.kind = "putDone" /\ Answered(u.ok) /\ UNCHANGED <<pv, record, view>>
  <2>1. u.ok \in BOOLEAN
    BY <1>3 DEF Updates, Signals, Samples
  <2>2. IsDone(1)
    BY <1>3, <1>13 DEF IsDone, Stale
  <2> QED BY <1>1, <1>3, <1>4, <1>13, <2>1, <2>2, AnsweredWriting
<1> QED BY <1>6, <1>7, <1>8, <1>9, <1>10, <1>11, <1>12, <1>13 DEF Apply

LEMMA WritingStep ==
  ASSUME Numbers, SettleInv, [Next]_vars
  PROVE  Writing'
<1>1. CASE UNCHANGED vars
  BY <1>1 DEF SettleInv, vars, Writing, Operations, Severe, IsPut, IsDone, Q, D
<1>2. CASE Connect \/ Disconnect \/ Data \/ Fail \/ PutConnect
  BY <1>2, ThreadsWriting
<1>3. CASE PutDone
  BY <1>3, DoneWriting
<1>4. CASE \/ Drain \/ EndDrain \/ ResumeChannels \/ PublishRecords \/ ConnectionTimeout
           \/ AckTransient \/ (\E s \in Severities : Acknowledge(s))
           \/ (\E o \in Owners : Monitor(o) \/ Cancel(o) \/ Replay(o))
  BY <1>4, QuietWriting
<1>5. CASE RecoverInbox
  BY <1>5, RecoverWriting
<1>6. CASE Handle
  BY <1>6, HandleWriting
<1>7. CASE PutTimeout
  BY <1>7, PutTimeoutWriting
<1>8. ASSUME NEW s \in Severities, WriteSeverity(s)
      PROVE  Writing'
  BY <1>8, WriteWriting
<1> QED BY <1>1, <1>2, <1>3, <1>4, <1>5, <1>6, <1>7, <1>8 DEF Next
-----------------------------------------------------------------------------
(***************************************************************************)
(* What the observers were told.                                           *)
(***************************************************************************)
LEMMA TellingKept ==
  ASSUME Telling, view' = view, Alarmed' = Alarmed,
         ~pv'.connected => ~pv.connected
                           /\ (pv.restarting \/ pv.deadline => pv'.restarting \/ pv'.deadline),
         pv'.haveLast /\ ~record'.changed => pv.haveLast /\ record' = record
  PROVE  Telling'
<1>1. Told'
  BY DEF Telling, Told
<1>2. LossKnown'
  BY DEF Telling, LossKnown
<1>3. Published'
  BY DEF Telling, Published
<1> QED BY <1>1, <1>2, <1>3 DEF Telling

LEMMA DeliveredTold ==
  ASSUME Types, Told, NEW e \in Events \cup {Outage}, view' = Delivered(e)
  PROVE  /\ Told' /\ view'.last = e
         /\ \A o \in Owners : ~view'.observers[o].replay
                              /\ (view'.observers[o].live => view'.told[o] = e)
<1>1. /\ view'.last = e
      /\ \A o \in Owners :
           /\ view'.observers[o].live = view.observers[o].live
           /\ view.observers[o].live =>
                view'.observers[o].delivered /\ ~view'.observers[o].replay /\ view'.told[o] = e
           /\ ~view.observers[o].live => view'.observers[o] = view.observers[o]
  BY DeliveredView
<1>2. \A o \in Owners : view.observers[o].replay => view.observers[o].live
  BY DEF Told
<1> QED BY <1>1, <1>2 DEF Told

(* The loss is told to everybody, or nobody watches.                       *)
LEMMA LostTelling ==
  ASSUME Types, Telling, LostView, Alarmed' = Alarmed, ~pv'.haveLast
  PROVE  Telling'
<1>1. Told /\ LossKnown
  BY DEF Telling
<1>2. Published'
  BY DEF Published
<1>3. CASE Alarmed
  <2>1. view' = Delivered(Outage)
    BY <1>3 DEF LostView
  <2>2. /\ Told' /\ view'.last = Outage
        /\ \A o \in Owners : view'.observers[o].live => view'.told[o] = Outage
    BY <1>1, <2>1, DeliveredTold
  <2>3. LossKnown'
    BY <1>3, <2>2 DEF LossKnown
  <2> QED BY <1>2, <2>2, <2>3 DEF Telling
<1>4. CASE ~Alarmed
  <2>1. view' = view
    BY <1>4 DEF LostView
  <2>2. Told'
    BY <1>1, <2>1 DEF Told
  <2>3. LossKnown'
    BY <1>1, <1>4, <2>1 DEF LossKnown
  <2> QED BY <1>2, <2>2, <2>3 DEF Telling
<1> QED BY <1>3, <1>4

LEMMA PublishTelling ==
  ASSUME SettleInv, PublishRecords
  PROVE  Telling'
<1>1. Types /\ Marks /\ Telling
  BY DEF SettleInv, PromiseInv
<1>2. pv' = pv /\ record' = [record EXCEPT !.changed = FALSE] /\ Alarmed' = Alarmed
      /\ view' = IF Alarmed /\ pv.haveLast THEN Delivered(Event(view.last.number, record)) ELSE view
  BY DEF PublishRecords, Alarmed
<1>3. CASE ~pv.haveLast
  BY <1>1, <1>2, <1>3, TellingKept
<1>4. CASE pv.haveLast
  <2>1. /\ Alarmed /\ pv.connected
        /\ view.last \in Events /\ view.last.number = view.seen
    BY <1>1, <1>4 DEF Marks
  <2> DEFINE e == Event(view.last.number, record)
  <2>2. view.last.number \in Nat
    BY <2>1 DEF Events
  <2>3. e \in Events /\ e.number = view.seen
    BY <1>1, <2>1, <2>2, EventType DEF Types
  <2>4. e = Event(view.seen, record')
    BY <1>1, <1>2, <2>1 DEF Event, Types, Records
  <2>5. view' = Delivered(e)
    BY <1>2, <1>4, <2>1
  <2> HIDE DEF e
  <2>6. Told' /\ view'.last = e
    BY <1>1, <2>3, <2>5, DeliveredTold DEF Telling
  <2>7. view'.seen = view.seen
    BY <1>1, <2>3, <2>5, DeliveredView
  <2>8. LossKnown' /\ Published'
    BY <1>2, <2>1, <2>4, <2>6, <2>7 DEF LossKnown, Published
  <2> QED BY <2>6, <2>8 DEF Telling
<1> QED BY <1>3, <1>4

LEMMA ConnectionTimeoutTelling ==
  ASSUME SettleInv, ConnectionTimeout
  PROVE  Telling'
<1>1. Types /\ Marks /\ Telling /\ Attached
  BY DEF SettleInv, PromiseInv
<1>2. /\ pv' = [pv EXCEPT !.deadline = FALSE] /\ ~pv.cancelled /\ pv.deadline
      /\ view' = IF ~pv.connected /\ pv.alarm THEN Delivered(Outage) ELSE view
  BY DEF ConnectionTimeout
<1>3. Alarmed' = Alarmed /\ ~pv.connected /\ ~pv'.haveLast
  BY <1>1, <1>2 DEF Types, Pvs, Alarmed, Attached, Marks
<1>4. LostView
  BY <1>2, <1>3 DEF LostView, Alarmed
<1> QED BY <1>1, <1>3, <1>4, LostTelling

LEMMA RecoverTelling ==
  ASSUME SettleInv, RecoverInbox
  PROVE  Telling'
<1>1. Types /\ Drains /\ Marks /\ Telling /\ Attached
  BY DEF SettleInv, PromiseInv
<1>2. /\ ~pv'.connected /\ ~pv'.haveLast /\ pv'.restarting
      /\ pv'.alarm = pv.alarm /\ pv'.cancelled = pv.cancelled /\ server'.posted = server.posted
  BY <1>1, Recovered
<1>3. Alarmed' = Alarmed
  BY <1>2 DEF Alarmed
<1> DEFINE v == IF Alarmed THEN Delivered(Outage) ELSE view
<1>4. view'.last = Nothing /\ view'.observers = v.observers
  BY <1>1, <1>2, <1>3, RecoveredView
<1>5. \A o \in Owners : ~view'.observers[o].replay
  <2>1. CASE Alarmed
    <3>1. /\ v = Delivered(Outage) /\ v.observers = Hears(Outage)
      BY <1>1, <2>1 DEF Delivered, Types, Views
    <3>2. \A o \in Owners : view.observers[o].replay => view.observers[o].live
      BY <1>1 DEF Telling, Told
    <3> QED BY <1>4, <3>1, <3>2 DEF Hears
  <2>2. CASE ~Alarmed
    BY <1>1, <1>4, <2>2 DEF Attached, Telling, Told
  <2> QED BY <2>1, <2>2
<1>6. Told'
  BY <1>4, <1>5 DEF Told
<1>7. LossKnown' /\ Published'
  BY <1>2, <1>4 DEF LossKnown, Published
<1> QED BY <1>6, <1>7 DEF Telling

LEMMA ReplayTelling ==
  ASSUME SettleInv, NEW o \in Owners, Replay(o)
  PROVE  Telling'
<1>1. Types /\ Telling
  BY DEF SettleInv, PromiseInv
<1> DEFINE b == [live |-> TRUE, delivered |-> TRUE, replay |-> FALSE]
<1>2. /\ view' = [view EXCEPT !.observers[o] = b, !.told[o] = view.last]
      /\ view.observers[o].live /\ view.observers[o].replay
      /\ UNCHANGED <<server, inbox, pv, writes, record>>
  BY DEF Replay
<1>3. /\ view'.last = view.last /\ view'.seen = view.seen
      /\ \A x \in Owners : view'.observers[x] = IF x = o THEN b ELSE view.observers[x]
      /\ \A x \in Owners : view'.told[x] = IF x = o THEN view.last ELSE view.told[x]
  BY <1>1, <1>2 DEF Types, Views
<1>4. view.last # Nothing
  BY <1>1, <1>2 DEF Telling, Told
<1>5. Told'
  <2> SUFFICES ASSUME NEW x \in Owners
               PROVE  LET c == view'.observers[x] IN
                      /\ c.live /\ c.delivered /\ view.last # Nothing => view'.told[x] = view.last
                      /\ c.live /\ ~c.delivered /\ ~c.replay => view.last = Nothing
                      /\ c.replay => view.last # Nothing /\ ~c.delivered /\ c.live
    BY <1>3 DEF Told
  <2>1. CASE x = o
    BY <1>3, <2>1
  <2>2. CASE x # o
    BY <1>1, <1>3, <2>2 DEF Telling, Told
  <2> QED BY <2>1, <2>2
<1>6. LossKnown'
  BY <1>1, <1>2, <1>3, <1>4 DEF Telling, LossKnown, Alarmed
<1>7. Published'
  BY <1>1, <1>2, <1>3 DEF Telling, Published
<1> QED BY <1>5, <1>6, <1>7 DEF Telling

LEMMA MonitorTelling ==
  ASSUME SettleInv, NEW o \in Owners, Monitor(o)
  PROVE  Telling'
<1>1. Types /\ Telling
  BY DEF SettleInv, PromiseInv
<1>2. view' = [view EXCEPT !.observers[o] = Joined(o)] /\ UNCHANGED record
  BY DEF Monitor
<1>3. /\ pv'.connected = pv.connected /\ ~pv'.cancelled /\ pv'.alarm
      /\ pv'.haveLast = pv.haveLast /\ pv'.deadline = (pv.deadline \/ ~pv.connected)
  BY <1>1, MonitorChannel
<1>4. /\ view'.last = view.last /\ view'.seen = view.seen /\ view'.told = view.told
      /\ \A x \in Owners : view'.observers[x] = IF x = o THEN Joined(o) ELSE view.observers[x]
  BY <1>1, <1>2, JoinedView
<1>5. Told'
  <2> SUFFICES ASSUME NEW x \in Owners
               PROVE  LET c == view'.observers[x] IN
                      /\ c.live /\ c.delivered /\ view.last # Nothing => view.told[x] = view.last
                      /\ c.live /\ ~c.delivered /\ ~c.replay => view.last = Nothing
                      /\ c.replay => view.last # Nothing /\ ~c.delivered /\ c.live
    BY <1>4 DEF Told
  <2>1. CASE x = o
    <3> DEFINE heard == view.observers[o].live /\ view.observers[o].delivered
    <3>1. view'.observers[x] = [live |-> TRUE, delivered |-> heard,
                                replay |-> ~heard /\ view.last # Nothing]
      BY <1>4, <2>1 DEF Joined
    <3>2. heard /\ view.last # Nothing => view.told[x] = view.last
      BY <1>1, <2>1 DEF Telling, Told
    <3>3. heard \in BOOLEAN /\ (~heard /\ view.last # Nothing) \in BOOLEAN
      OBVIOUS
    <3> HIDE DEF heard
    <3> DEFINE late == ~heard /\ view.last # Nothing
    <3>4. /\ view'.observers[x].live /\ view'.observers[x].delivered = heard
          /\ view'.observers[x].replay = late
      BY <3>1
    <3> QED BY <3>2, <3>3, <3>4
  <2>2. CASE x # o
    BY <1>1, <1>4, <2>2 DEF Telling, Told
  <2> QED BY <2>1, <2>2
<1>6. LossKnown'
  BY <1>1, <1>3, <1>4 DEF Telling, LossKnown, Alarmed
<1>7. Published'
  BY <1>1, <1>2, <1>3, <1>4 DEF Telling, Published
<1> QED BY <1>5, <1>6, <1>7 DEF Telling

LEMMA CancelTelling ==
  ASSUME SettleInv, NEW o \in Owners, Cancel(o)
  PROVE  Telling'
<1>1. Types /\ Telling /\ Told /\ LossKnown
  BY DEF SettleInv, PromiseInv, Telling
<1> DEFINE alone == \A x \in Owners \ {o} : ~view.observers[x].live
           left  == [view EXCEPT !.observers[o] = Nobody, !.told[o] = Nothing]
<1>2. /\ view' = IF alone
                 THEN [left EXCEPT !.last = Nothing, !.fed = Nothing, !.gap = server.posted]
                 ELSE left
      /\ pv' = IF alone THEN [pv EXCEPT !.cancelled = TRUE, !.haveLast = FALSE, !.monitor = 0]
               ELSE pv
      /\ UNCHANGED record
  BY DEF Cancel
<1>3. /\ left \in Views /\ left.last = view.last /\ left.seen = view.seen
      /\ \A x \in Owners : left.observers[x] = IF x = o THEN Nobody ELSE view.observers[x]
      /\ \A x \in Owners \ {o} : left.told[x] = view.told[x]
  <2>1. Nobody \in [live : BOOLEAN, delivered : BOOLEAN, replay : BOOLEAN] /\ Nothing \in Heard
    BY DEF Nobody, Heard
  <2> QED BY <1>1, <2>1 DEF Types, Views
<1>4. ~Nobody.live /\ ~Nobody.replay
  BY DEF Nobody
<1>5. CASE alone
  <2>1. view' = [left EXCEPT !.last = Nothing, !.fed = Nothing, !.gap = server.posted]
    BY <1>2, <1>5
  <2>2. pv' = [pv EXCEPT !.cancelled = TRUE, !.haveLast = FALSE, !.monitor = 0]
    BY <1>2, <1>5
  <2>3. \A x \in Owners : ~left.observers[x].live /\ ~left.observers[x].replay
    BY <1>1, <1>3, <1>4, <1>5 DEF Told
  <2> HIDE DEF alone, left
  <2>4. view'.last = Nothing /\ view'.observers = left.observers
    BY <1>3, <2>1 DEF Views
  <2>5. ~pv'.haveLast /\ ~Alarmed'
    BY <1>1, <2>2 DEF Types, Pvs, Alarmed
  <2>6. Told'
    BY <2>3, <2>4 DEF Told
  <2>7. LossKnown' /\ Published'
    BY <2>4, <2>5 DEF LossKnown, Published
  <2> QED BY <2>6, <2>7 DEF Telling
<1>6. CASE ~alone
  <2>1. view' = left /\ pv' = pv /\ Alarmed' = Alarmed
    BY <1>2, <1>6 DEF Alarmed
  <2> HIDE DEF alone, left
  <2>2. Told'
    <3> SUFFICES ASSUME NEW x \in Owners
                 PROVE  LET c == left.observers[x] IN
                        /\ c.live /\ c.delivered /\ view.last # Nothing => left.told[x] = view.last
                        /\ c.live /\ ~c.delivered /\ ~c.replay => view.last = Nothing
                        /\ c.replay => view.last # Nothing /\ ~c.delivered /\ c.live
      BY <1>3, <2>1 DEF Told
    <3>1. CASE x = o
      BY <1>3, <1>4, <3>1
    <3>2. CASE x # o
      BY <1>1, <1>3, <3>2 DEF Told
    <3> QED BY <3>1, <3>2
  <2>3. LossKnown'
    BY <1>1, <1>3, <1>4, <2>1 DEF LossKnown
  <2>4. Published'
    BY <1>1, <1>2, <1>3, <2>1 DEF Telling, Published
  <2> QED BY <2>2, <2>3, <2>4 DEF Telling
<1> QED BY <1>5, <1>6

LEMMA HandleTelling ==
  ASSUME Numbers, SettleInv, Handle
  PROVE  Telling'
<1>1. PromiseInv /\ Types /\ Marks /\ Telling /\ Attached /\ Queued
  BY DEF SettleInv, PromiseInv
<1>2. inbox.batch # <<>> /\ inbox' = [inbox EXCEPT !.batch = Tail(@)]
  BY DEF Handle
<1> DEFINE u == Head(inbox.batch)
<1>3. u \in Updates /\ Q[1] = u /\ 1 \in D
  BY <1>1, <1>2, TailQueue
<1>4. Stale(u) => UNCHANGED <<server, pv, writes, record, view>>
  BY DEF Handle
<1>5. ~Stale(u) => Apply(u)
  BY DEF Handle
<1> HIDE DEF u
<1>6. CASE Stale(u)
  BY <1>1, <1>4, <1>6, TellingKept DEF Alarmed
<1>7. CASE ~Stale(u) /\ u.kind = "connected" /\ Connected
  <2>1. /\ view' = view /\ record' = record /\ pv'.connected /\ pv'.haveLast = pv.haveLast
        /\ pv'.alarm = pv.alarm /\ pv'.cancelled = pv.cancelled
    BY <1>1, <1>7 DEF Connected, Types, Pvs
  <2> QED BY <1>1, <2>1, TellingKept DEF Alarmed
<1>8. CASE ~Stale(u) /\ u.kind = "disconnected" /\ Disconnected
  <2>1. /\ LostView /\ ~pv'.haveLast /\ pv'.alarm = pv.alarm /\ pv'.cancelled = pv.cancelled
    BY <1>1, <1>8 DEF Disconnected, Gap, LostView, Types, Pvs
  <2> QED BY <1>1, <2>1, LostTelling DEF Alarmed
<1>9. CASE ~Stale(u) /\ u.kind = "data" /\ Sample(u) /\ UNCHANGED <<server, writes>>
  <2>1. u \in Samples
    BY <1>3, <1>9 DEF Updates, Signals, Samples
  <2>2. u.serial = pv.monitor
    BY <1>9 DEF Stale
  <2>3. /\ SameSubscription /\ pv'.connected = pv.connected
        /\ IF pv.cancelled \/ ~pv.connected THEN UNCHANGED <<pv, record, view>>
           ELSE /\ pv'.haveLast /\ record' = Raised(record, u.alarm)
                /\ view' = Delivered(Event(u.number, record')) /\ Alarmed
    BY <1>1, <1>3, <1>9, <2>1, <2>2, SampleMoves
  <2>4. CASE pv.cancelled \/ ~pv.connected
    BY <1>1, <2>3, <2>4, TellingKept DEF Alarmed
  <2>5. CASE ~(pv.cancelled \/ ~pv.connected)
    <3> DEFINE e == Event(u.number, record')
    <3>1. record' \in Records /\ u.number \in Nat
      BY <1>1, <2>1, <2>3, <2>5, RaisedRecord DEF Types, Samples
    <3>2. e \in Events /\ e.number = u.number
      BY <3>1, EventType
    <3>3. view' = Delivered(e)
      BY <2>3, <2>5
    <3> HIDE DEF e
    <3>4. Told' /\ view'.last = e
      BY <1>1, <3>2, <3>3, DeliveredTold DEF Telling
    <3>5. view'.seen = u.number
      BY <1>1, <3>2, <3>3, DeliveredView
    <3>6. Published'
      BY <3>4, <3>5 DEF Published, e
    <3>7. LossKnown'
      BY <2>3, <2>5 DEF LossKnown, SameSubscription, Alarmed
    <3> QED BY <3>4, <3>6, <3>7 DEF Telling
  <2> QED BY <2>4, <2>5
<1>10. CASE ~Stale(u) /\ u.kind = "failed" /\ MonitorFailed /\ UNCHANGED <<server, writes>>
  <2>1. /\ LostView /\ ~pv'.haveLast /\ pv'.alarm = pv.alarm /\ pv'.cancelled = pv.cancelled
    BY <1>1, <1>10 DEF MonitorFailed, LostView, Types, Pvs
  <2> QED BY <1>1, <2>1, LostTelling DEF Alarmed
<1>11. CASE u.kind \in {"putReady", "putDone"} /\ UNCHANGED <<pv, record, view>>
  BY <1>1, <1>11, TellingKept DEF Alarmed
<1> QED BY <1>5, <1>6, <1>7, <1>8, <1>9, <1>10, <1>11 DEF Apply

LEMMA TellingStep ==
  ASSUME Numbers, SettleInv, [Next]_vars
  PROVE  Telling'
<1>1. Types /\ Telling
  BY DEF SettleInv, PromiseInv
<1>2. CASE \/ UNCHANGED vars \/ Connect \/ Disconnect \/ Data \/ Fail \/ PutConnect \/ PutDone
           \/ Drain \/ EndDrain \/ PutTimeout \/ (\E s \in Severities : WriteSeverity(s))
  <2>1. UNCHANGED <<pv, record, view>>
    BY <1>2 DEF vars, Connect, Disconnect, Data, Fail, PutConnect, PutDone, Drain, EndDrain,
                PutTimeout, WriteSeverity
  <2> QED BY <1>1, <2>1, TellingKept DEF Alarmed
<1>3. CASE AckTransient \/ (\E s \in Severities : Acknowledge(s))
  <2>1. UNCHANGED <<pv, view>> /\ record'.changed
    BY <1>1, <1>3 DEF AckTransient, Acknowledge, Types, Records
  <2> QED BY <1>1, <2>1, TellingKept DEF Alarmed
<1>4. CASE ResumeChannels
  <2> DEFINE p == [pv EXCEPT !.restarting = FALSE, !.created = TRUE, !.deadline = TRUE]
  <2>1. /\ p \in Pvs /\ p.connected = pv.connected /\ p.deadline /\ p.haveLast = pv.haveLast
        /\ p.alarm = pv.alarm /\ p.cancelled = pv.cancelled
    BY <1>1 DEF Types, Pvs
  <2>2. pv' = Subscribed(p) /\ UNCHANGED <<record, view>>
    BY <1>4 DEF ResumeChannels
  <2> HIDE DEF p
  <2>3. /\ pv'.connected = pv.connected /\ pv'.deadline /\ pv'.haveLast = pv.haveLast
        /\ pv'.alarm = pv.alarm /\ pv'.cancelled = pv.cancelled
    BY <2>1, <2>2, SubscribedPv
  <2> QED BY <1>1, <2>2, <2>3, TellingKept DEF Alarmed
<1>5. CASE PublishRecords
  BY <1>5, PublishTelling
<1>6. CASE ConnectionTimeout
  BY <1>6, ConnectionTimeoutTelling
<1>7. CASE RecoverInbox
  BY <1>7, RecoverTelling
<1>8. CASE Handle
  BY <1>8, HandleTelling
<1>9. ASSUME NEW o \in Owners, Monitor(o) \/ Cancel(o) \/ Replay(o)
      PROVE  Telling'
  BY <1>9, MonitorTelling, CancelTelling, ReplayTelling
<1> QED BY <1>2, <1>3, <1>4, <1>5, <1>6, <1>7, <1>8, <1>9 DEF Next

LEMMA AcksStep ==
  ASSUME Numbers, SettleInv, [Next]_vars
  PROVE  AcksFollowAlarm'
<1>1. PromiseInv /\ Types /\ AcksFollowAlarm
  BY DEF SettleInv, PromiseInv
<1>2. record \in Records /\ record.alarm[1] \in Nat /\ record.acks \in Nat
      /\ record.ackt \in BOOLEAN /\ record.acked \in BOOLEAN
  BY <1>1, RecordAlarm DEF Types, Records
<1>3. CASE UNCHANGED record
  BY <1>1, <1>3 DEF AcksFollowAlarm
<1>4. CASE PublishRecords
  <2>1. record'.acks = record.acks /\ record'.alarm = record.alarm
        /\ record'.ackt = record.ackt /\ record'.acked = record.acked
    BY <1>2, <1>4 DEF PublishRecords, Records
  <2> QED BY <1>1, <2>1 DEF AcksFollowAlarm
<1>5. ASSUME NEW s \in Severities, Acknowledge(s)
      PROVE  AcksFollowAlarm'
  <2>1. record'.acks = 0 /\ record'.alarm = record.alarm /\ record'.acked
    BY <1>2, <1>5 DEF Acknowledge, Records
  <2> QED BY <1>2, <2>1 DEF AcksFollowAlarm
<1>6. CASE AckTransient
  <2> DEFINE n == IF record.ackt /\ record.acks > record.alarm[1] THEN record.alarm[1] ELSE record.acks
  <2>1. record' = [record EXCEPT !.ackt = ~record.ackt, !.changed = TRUE, !.acks = n]
    BY <1>2, <1>6 DEF AckTransient, Records
  <2> HIDE DEF n
  <2>2. record'.acks = n /\ record'.alarm = record.alarm /\ record'.ackt = ~record.ackt
        /\ record'.acked = record.acked
    BY <1>2, <2>1 DEF Records
  <2> QED BY <1>1, <1>2, <2>2 DEF AcksFollowAlarm, n
<1>7. ASSUME NEW a \in Alarms, record' = Raised(record, a)
      PROVE  AcksFollowAlarm'
  <2>1. CASE record.alarm = a
    BY <1>1, <1>7, <2>1 DEF Raised, AcksFollowAlarm
  <2>2. CASE record.alarm # a
    <3> DEFINE n == IF ~record.ackt \/ a[1] >= record.acks THEN a[1] ELSE record.acks
    <3>1. record' = [record EXCEPT !.alarm = a, !.acks = n, !.acked = FALSE]
      BY <1>2, <1>7, <2>2 DEF Raised, Records
    <3> HIDE DEF n
    <3>2. record'.acks = n /\ record'.alarm = a /\ record'.ackt = record.ackt
      BY <1>2, <3>1 DEF Records
    <3>3. a[1] \in Nat
      BY DEF Numbers
    <3>4. n >= a[1] /\ (~record.ackt => n <= a[1])
      BY <1>2, <3>3 DEF n
    <3> QED BY <3>2, <3>4 DEF AcksFollowAlarm
  <2> QED BY <2>1, <2>2
<1>8. CASE Handle
  <2> DEFINE u == Head(inbox.batch)
  <2>1. inbox.batch # <<>> /\ inbox' = [inbox EXCEPT !.batch = Tail(@)]
    BY <1>8 DEF Handle
  <2>2. u \in Updates
    BY <1>1, <2>1, TailQueue
  <2>3. (Stale(u) /\ record' = record) \/ Apply(u)
    BY <1>8 DEF Handle
  <2> HIDE DEF u
  <2>4. CASE u.kind = "data" /\ Sample(u)
    <3>1. u.alarm \in Alarms
      BY <2>2, <2>4 DEF Updates, Signals, Samples
    <3>2. record' = record \/ record' = Raised(record, u.alarm)
      BY <2>4 DEF Sample
    <3> QED BY <1>3, <1>7, <3>1, <3>2
  <2> QED BY <1>3, <2>3, <2>4 DEF Apply, Connected, Disconnected, Gap, MonitorFailed
<1>9. CASE \/ UNCHANGED vars \/ Connect \/ Disconnect \/ Data \/ Fail \/ PutConnect \/ PutDone
           \/ Drain \/ EndDrain \/ PutTimeout \/ (\E s \in Severities : WriteSeverity(s))
           \/ RecoverInbox \/ ResumeChannels \/ ConnectionTimeout
           \/ (\E o \in Owners : Monitor(o) \/ Cancel(o) \/ Replay(o))
  <2>1. UNCHANGED record
    BY <1>9 DEF vars, Connect, Disconnect, Data, Fail, PutConnect, PutDone, Drain, EndDrain,
                PutTimeout, WriteSeverity, RecoverInbox, ResumeChannels, ConnectionTimeout,
                Monitor, Cancel, Replay
  <2> QED BY <1>3, <2>1
<1> QED BY <1>4, <1>5, <1>6, <1>8, <1>9 DEF Next
-----------------------------------------------------------------------------
(***************************************************************************)
(* What is on its way to the observers.                                    *)
(***************************************************************************)
(* There is nothing that has to be shown.                                  *)
Blind == ~server.up \/ pv.monitor = 0 \/ server.fresh

LEMMA StillFlow ==
  ASSUME Flowing, Q' = Q, inbox'.overflow = inbox.overflow, pv'.id = pv.id,
         pv'.connected = pv.connected, server'.up = server.up,
         \/ Blind'
         \/ /\ pv'.monitor = pv.monitor /\ server'.fresh = server.fresh
            /\ server'.failed = server.failed /\ server'.posted = server.posted
            /\ Shown => Shown'
  PROVE  Flowing'
<1>1. D' = D /\ \A k \in D : Link(k)' <=> Link(k)
  BY DEF D, Link
<1>2. Linked'
  BY <1>1 DEF Flowing, Linked
<1>3. CASE Blind'
  <2>1. NewestShown'
    BY <1>3 DEF NewestShown, Blind
  <2> QED BY <1>2, <2>1 DEF Flowing
<1>4. CASE /\ pv'.monitor = pv.monitor /\ server'.fresh = server.fresh
           /\ server'.failed = server.failed /\ server'.posted = server.posted
           /\ Shown => Shown'
  <2>1. \A k \in D : (Current(k)' <=> Current(k)) /\ (Reports(k)' <=> Reports(k))
    BY <1>4 DEF Current, Reports
  <2>2. NewestShown'
    BY <1>1, <1>4, <2>1 DEF Flowing, NewestShown
  <2> QED BY <1>2, <2>2 DEF Flowing
<1> QED BY <1>3, <1>4

(* A report of the connection is the last, any other leaves it.            *)
LEMMA PostLinked ==
  ASSUME Types, Linked, NEW u \in Updates, Grown(u), pv' = pv,
         \/ /\ u.kind \in {"connected", "disconnected"} /\ u.id = pv.id
            /\ u.kind = "connected" <=> server'.up
         \/ u.kind \notin {"connected", "disconnected"} /\ server'.up = server.up
  PROVE  Linked'
<1>1. PICK n \in D' :
        /\ Q'[n] = u /\ ~inbox.overflow
        /\ \A k \in D : k \in D' /\ Q'[k] = Q[k] /\ k < n
        /\ \A k \in D' : k \in D \/ (k = n /\ Q'[k] = u)
  BY GrownQueue DEF Types, Grown
<1>2. \A k \in D : Link(k)' <=> Link(k)
  BY <1>1 DEF Link
<1>3. n \in Nat /\ \A k \in D' : k = n \/ k < n
  BY <1>1 DEF D
<1>4. CASE /\ u.kind \in {"connected", "disconnected"} /\ u.id = pv.id
           /\ u.kind = "connected" <=> server'.up
  <2>1. Link(n)' /\ (Q'[n].kind = "connected" <=> server'.up)
    BY <1>1, <1>4 DEF Link
  <2>2. \A j \in D' : ~(j > n)
    BY <1>3 DEF D
  <2> QED BY <1>1, <2>1, <2>2 DEF Linked
<1>5. CASE u.kind \notin {"connected", "disconnected"} /\ server'.up = server.up
  <2>1. \A j \in D' : Link(j)' => j \in D /\ Link(j)
    BY <1>1, <1>2, <1>5 DEF Link
  <2>2. CASE \E k \in D : /\ Link(k) /\ (Q[k].kind = "connected" <=> server.up)
                          /\ \A j \in D : j > k => ~Link(j)
    <3>1. PICK k \in D : /\ Link(k) /\ (Q[k].kind = "connected" <=> server.up)
                         /\ \A j \in D : j > k => ~Link(j)
      BY <2>2
    <3>2. k \in D' /\ Link(k)' /\ (Q'[k].kind = "connected" <=> server'.up)
      BY <1>1, <1>2, <1>5, <3>1
    <3>3. \A j \in D' : j > k => ~Link(j)'
      BY <2>1, <3>1
    <3> QED BY <3>2, <3>3 DEF Linked
  <2>3. CASE (\A j \in D : ~Link(j)) /\ pv.connected = server.up
    BY <1>5, <2>1, <2>3 DEF Linked
  <2> QED BY <1>1, <2>2, <2>3 DEF Linked
<1> QED BY <1>4, <1>5

(* The newest observation is posted as the last, an answer leaves it.      *)
LEMMA PostNewest ==
  ASSUME Types, NewestShown, NEW u \in Updates, Grown(u), pv' = pv, view' = view,
         \/ Blind'
         \/ /\ u.serial = pv.monitor
            /\ IF server'.failed THEN u.kind = "failed"
               ELSE u.kind = "data" /\ u.number = server'.posted
         \/ /\ u.kind \in {"putReady", "putDone"} /\ server'.up = server.up
            /\ server'.fresh = server.fresh /\ server'.failed = server.failed
            /\ server'.posted = server.posted
  PROVE  NewestShown'
<1>1. PICK n \in D' :
        /\ Q'[n] = u /\ ~inbox.overflow
        /\ \A k \in D : k \in D' /\ Q'[k] = Q[k] /\ k < n
        /\ \A k \in D' : k \in D \/ (k = n /\ Q'[k] = u)
  BY GrownQueue DEF Types, Grown
<1>2. \A k \in D : (Link(k)' <=> Link(k)) /\ (Current(k)' <=> Current(k))
  BY <1>1 DEF Link, Current
<1>3. n \in Nat /\ \A k \in D' : k = n \/ k < n
  BY <1>1 DEF D
<1>4. CASE Blind'
  BY <1>4 DEF NewestShown, Blind
<1>5. CASE /\ u.serial = pv.monitor
           /\ IF server'.failed THEN u.kind = "failed"
              ELSE u.kind = "data" /\ u.number = server'.posted
  <2>1. Reports(n)'
    BY <1>1, <1>5 DEF Reports, Current
  <2>2. \A j \in D' : ~(j > n)
    BY <1>3 DEF D
  <2> QED BY <1>1, <2>1, <2>2 DEF NewestShown
<1>6. CASE /\ u.kind \in {"putReady", "putDone"} /\ server'.up = server.up
           /\ server'.fresh = server.fresh /\ server'.failed = server.failed
           /\ server'.posted = server.posted
  <2>1. \A j \in D' : Link(j)' \/ Current(j)' => j \in D /\ (Link(j) \/ Current(j))
    BY <1>1, <1>2, <1>6 DEF Link, Current
  <2>2. \A k \in D : Reports(k)' <=> Reports(k)
    BY <1>1, <1>2, <1>6 DEF Reports
  <2> SUFFICES ASSUME ~Blind'
               PROVE  \/ \E k \in D' : Reports(k)' /\ \A j \in D' : j > k => ~Link(j)' /\ ~Current(j)'
                      \/ (\A j \in D' : ~Link(j)' /\ ~Current(j)') /\ Shown'
    BY DEF NewestShown, Blind
  <2>3. CASE \E k \in D : Reports(k) /\ \A j \in D : j > k => ~Link(j) /\ ~Current(j)
    <3>1. PICK k \in D : Reports(k) /\ \A j \in D : j > k => ~Link(j) /\ ~Current(j)
      BY <2>3
    <3>2. k \in D' /\ Reports(k)'
      BY <1>1, <2>2, <3>1
    <3>3. \A j \in D' : j > k => ~Link(j)' /\ ~Current(j)'
      BY <2>1, <3>1
    <3> QED BY <3>2, <3>3
  <2>4. CASE (\A j \in D : ~Link(j) /\ ~Current(j)) /\ Shown
    BY <1>6, <2>1, <2>4 DEF Shown
  <2> QED BY <1>1, <1>6, <2>3, <2>4 DEF NewestShown, Blind
<1> QED BY <1>4, <1>5, <1>6

(* A report of the connection is handled, or another update.               *)
LEMMA TailLinked ==
  ASSUME Types, Linked, inbox.batch # <<>>, inbox' = [inbox EXCEPT !.batch = Tail(@)],
         pv'.id = pv.id, server'.up = server.up,
         IF Link(1) THEN pv'.connected = (Q[1].kind = "connected")
         ELSE pv'.connected = pv.connected
  PROVE  Linked'
<1>1. /\ inbox'.overflow = inbox.overflow /\ 1 \in D
      /\ \A k \in D' : k + 1 \in D /\ Q'[k] = Q[k + 1] /\ 1 < k + 1 /\ k \in Nat
      /\ \A k \in D : k = 1 \/ (k > 1 /\ k - 1 \in D' /\ Q[k] = Q'[k - 1])
  BY TailQueue
<1>2. \A j \in D' : Link(j)' => Link(j + 1)
  BY <1>1 DEF Link
<1>3. CASE inbox.overflow
  BY <1>1, <1>3 DEF Linked
<1>4. CASE /\ ~inbox.overflow
           /\ \E k \in D : /\ Link(k) /\ (Q[k].kind = "connected" <=> server.up)
                           /\ \A j \in D : j > k => ~Link(j)
  <2>1. PICK k \in D : /\ Link(k) /\ (Q[k].kind = "connected" <=> server.up)
                       /\ \A j \in D : j > k => ~Link(j)
    BY <1>4
  <2>2. CASE k = 1
    <3>1. \A j \in D' : ~Link(j)'
      BY <1>1, <1>2, <2>1, <2>2
    <3>2. pv'.connected = server'.up
      <4>1. server.up \in BOOLEAN /\ pv'.connected = (Q[1].kind = "connected")
            /\ (Q[1].kind = "connected") = server.up
        BY <2>1, <2>2 DEF Types, Servers
      <4> QED BY <4>1
    <3> QED BY <3>1, <3>2 DEF Linked
  <2>3. CASE k # 1
    <3>1. k > 1 /\ k - 1 \in D' /\ Q[k] = Q'[k - 1]
      BY <1>1, <2>3
    <3>2. PICK m \in D' : m = k - 1 /\ Q'[m] = Q[k]
      BY <3>1
    <3>3. Link(m)' /\ (Q'[m].kind = "connected" <=> server'.up)
      BY <2>1, <3>2 DEF Link
    <3>4. \A j \in D' : j > m => ~Link(j)'
      <4> SUFFICES ASSUME NEW j \in D', j > m, Link(j)' PROVE FALSE
        OBVIOUS
      <4>1. j \in Nat /\ j + 1 \in D /\ m \in Nat /\ k = m + 1
        <5>1. k \in Nat
          BY DEF D
        <5> QED BY <1>1, <3>2, <5>1
      <4>2. j + 1 > k
        BY <4>1
      <4> QED BY <1>2, <2>1, <4>1, <4>2
    <3> QED BY <3>3, <3>4 DEF Linked
  <2> QED BY <2>2, <2>3
<1>5. CASE (\A j \in D : ~Link(j)) /\ pv.connected = server.up
  <2>1. \A j \in D' : ~Link(j)'
    BY <1>1, <1>2, <1>5
  <2> QED BY <1>1, <1>5, <2>1 DEF Linked
<1> QED BY <1>3, <1>4, <1>5 DEF Linked

(* The newest observation is handled and shown, or another update.         *)
LEMMA TailNewest ==
  ASSUME Types, NewestShown, inbox.batch # <<>>, inbox' = [inbox EXCEPT !.batch = Tail(@)],
         pv'.id = pv.id, pv'.monitor = pv.monitor, server'.up = server.up,
         server'.fresh = server.fresh, server'.failed = server.failed,
         server'.posted = server.posted,
         Reports(1) /\ (\A j \in D : j > 1 => ~Link(j) /\ ~Current(j)) /\ ~Blind
           /\ ~inbox.overflow => Shown',
         Link(1) \/ Current(1) \/ (Shown => Shown')
  PROVE  NewestShown'
<1>1. /\ inbox'.overflow = inbox.overflow /\ 1 \in D
      /\ \A k \in D' : k + 1 \in D /\ Q'[k] = Q[k + 1] /\ 1 < k + 1 /\ k \in Nat
      /\ \A k \in D : k = 1 \/ (k > 1 /\ k - 1 \in D' /\ Q[k] = Q'[k - 1])
  BY TailQueue
<1>2. \A j \in D' : Link(j)' \/ Current(j)' => Link(j + 1) \/ Current(j + 1)
  BY <1>1 DEF Link, Current
<1> SUFFICES ASSUME ~inbox.overflow, ~Blind
             PROVE  \/ \E k \in D' : Reports(k)' /\ \A j \in D' : j > k => ~Link(j)' /\ ~Current(j)'
                    \/ (\A j \in D' : ~Link(j)' /\ ~Current(j)') /\ Shown'
  BY <1>1 DEF NewestShown, Blind
<1>3. CASE \E k \in D : Reports(k) /\ \A j \in D : j > k => ~Link(j) /\ ~Current(j)
  <2>1. PICK k \in D : Reports(k) /\ \A j \in D : j > k => ~Link(j) /\ ~Current(j)
    BY <1>3
  <2>2. CASE k = 1
    <3>1. \A j \in D' : ~Link(j)' /\ ~Current(j)'
      BY <1>1, <1>2, <2>1, <2>2
    <3> QED BY <2>1, <2>2, <3>1
  <2>3. CASE k # 1
    <3>1. k > 1 /\ k - 1 \in D' /\ Q[k] = Q'[k - 1]
      BY <1>1, <2>3
    <3>2. PICK m \in D' : m = k - 1 /\ Q'[m] = Q[k]
      BY <3>1
    <3>3. Reports(m)'
      BY <2>1, <3>2 DEF Reports, Current
    <3>4. \A j \in D' : j > m => ~Link(j)' /\ ~Current(j)'
      <4> SUFFICES ASSUME NEW j \in D', j > m, Link(j)' \/ Current(j)' PROVE FALSE
        OBVIOUS
      <4>1. j \in Nat /\ j + 1 \in D /\ m \in Nat /\ k = m + 1
        <5>1. k \in Nat
          BY DEF D
        <5> QED BY <1>1, <3>2, <5>1
      <4>2. j + 1 > k
        BY <4>1
      <4> QED BY <1>2, <2>1, <4>1, <4>2
    <3> QED BY <3>3, <3>4
  <2> QED BY <2>2, <2>3
<1>4. CASE (\A j \in D : ~Link(j) /\ ~Current(j)) /\ Shown
  <2>1. \A j \in D' : ~Link(j)' /\ ~Current(j)'
    BY <1>1, <1>2, <1>4
  <2> QED BY <1>1, <1>4, <2>1
<1> QED BY <1>3, <1>4 DEF NewestShown, Blind

LEMMA ThreadsFlow ==
  ASSUME SettleInv, Connect \/ Disconnect \/ Data \/ Fail \/ PutConnect \/ PutDone
  PROVE  Flowing'
<1>1. Types /\ Drains /\ Linked /\ NewestShown /\ Attached
  BY DEF SettleInv, PromiseInv, Flowing
<1>2. UNCHANGED <<pv, view>>
  BY DEF Connect, Disconnect, Data, Fail, PutConnect, PutDone
<1>3. ASSUME NEW u \in Updates, inbox' = Posted(u), ~Grown(u)
      PROVE  Flowing'
  <2>1. inbox'.overflow
    BY <1>1, <1>3, PostedQueue DEF Dropped
  <2> QED BY <2>1 DEF Flowing, Linked, NewestShown
<1>4. CASE Connect
  <2> DEFINE u == Update("connected", 0, TRUE)
  <2>1. u \in Updates /\ u.kind = "connected" /\ u.id = pv.id
    BY <1>1 DEF Update, Updates, Signals, Types, Pvs
  <2>2. inbox' = Posted(u) /\ server'.up /\ Blind'
    BY <1>1, <1>4 DEF Connect, Types, Servers, Blind
  <2> HIDE DEF u
  <2>3. CASE Grown(u)
    <3>1. Linked'
      BY <1>1, <1>2, <2>1, <2>2, <2>3, PostLinked
    <3>2. NewestShown'
      BY <1>1, <1>2, <2>1, <2>2, <2>3, PostNewest
    <3> QED BY <3>1, <3>2 DEF Flowing
  <2> QED BY <1>3, <2>1, <2>2, <2>3
<1>5. CASE Disconnect
  <2> DEFINE u == Update("disconnected", 0, TRUE)
  <2>1. u \in Updates /\ u.kind = "disconnected" /\ u.id = pv.id
    BY <1>1 DEF Update, Updates, Signals, Types, Pvs
  <2>2. PICK a \in CutOff(server) :
          server' = [Lost(server) EXCEPT !.outages = @ + 1, !.applied = a]
    BY <1>5 DEF Disconnect
  <2>3. ~server'.up /\ Blind'
    BY <1>1, <2>2 DEF Lost, Types, Servers, Blind
  <2>4. inbox' = Posted(u)
    BY <1>5 DEF Disconnect
  <2> HIDE DEF u
  <2>5. CASE Grown(u)
    <3>1. Linked'
      BY <1>1, <1>2, <2>1, <2>3, <2>5, PostLinked
    <3>2. NewestShown'
      BY <1>1, <1>2, <2>1, <2>3, <2>5, PostNewest
    <3> QED BY <3>1, <3>2 DEF Flowing
  <2> QED BY <1>3, <2>1, <2>4, <2>5
<1>6. CASE Data
  <2>1. PICK u \in Updates : /\ u.kind = "data" /\ inbox' = Posted(u) /\ u.serial = pv.monitor
                             /\ u.number = server.posted + 1
    BY <1>1, <1>6, SampleType DEF Data
  <2>2. server'.up = server.up /\ ~server'.failed /\ server'.posted = server.posted + 1
    BY <1>1, <1>6 DEF Data, Types, Servers
  <2>3. CASE Grown(u)
    <3>1. Linked'
      BY <1>1, <1>2, <2>1, <2>2, <2>3, PostLinked
    <3>2. NewestShown'
      BY <1>1, <1>2, <2>1, <2>2, <2>3, PostNewest
    <3> QED BY <3>1, <3>2 DEF Flowing
  <2> QED BY <1>3, <2>1, <2>3
<1>7. CASE Fail
  <2> DEFINE u == Update("failed", pv.monitor, FALSE)
  <2>1. u \in Updates /\ u.kind = "failed" /\ u.serial = pv.monitor
    <3>1. pv.monitor \in Nat
      BY <1>1 DEF Types, Pvs
    <3> QED BY <1>1, <3>1 DEF Update, Updates, Signals, Types, Pvs
  <2>2. inbox' = Posted(u) /\ server'.up = server.up /\ server'.failed
    BY <1>1, <1>7 DEF Fail, Types, Servers
  <2> HIDE DEF u
  <2>3. CASE Grown(u)
    <3>1. Linked'
      BY <1>1, <1>2, <2>1, <2>2, <2>3, PostLinked
    <3>2. NewestShown'
      BY <1>1, <1>2, <2>1, <2>2, <2>3, PostNewest
    <3> QED BY <3>1, <3>2 DEF Flowing
  <2> QED BY <1>3, <2>1, <2>2, <2>3
<1>8. CASE PutConnect \/ PutDone
  <2>1. PICK k \in {"putReady", "putDone"}, ok \in BOOLEAN :
          inbox' = Posted(Update(k, writes.serial, ok))
    BY <1>8 DEF PutConnect, PutDone
  <2> DEFINE u == Update(k, writes.serial, ok)
  <2>2. u \in Updates /\ u.kind = k
    <3>1. writes.serial \in Nat
      BY <1>1 DEF Types, Writings
    <3> QED BY <1>1, <3>1, UpdateType
  <2>3. /\ inbox' = Posted(u) /\ server'.up = server.up
        /\ server'.fresh = server.fresh /\ server'.failed = server.failed
        /\ server'.posted = server.posted
    BY <1>1, <1>8, <2>1 DEF PutConnect, PutDone, Types, Servers
  <2> HIDE DEF u
  <2>4. CASE Grown(u)
    <3>1. Linked'
      BY <1>1, <1>2, <2>2, <2>3, <2>4, PostLinked
    <3>2. NewestShown'
      BY <1>1, <1>2, <2>2, <2>3, <2>4, PostNewest
    <3> QED BY <3>1, <3>2 DEF Flowing
  <2> QED BY <1>3, <2>2, <2>3, <2>4
<1> QED BY <1>4, <1>5, <1>6, <1>7, <1>8

(* Steps of the Qt thread that leave the queue alone.                      *)
LEMMA QuietFlow ==
  ASSUME Numbers, SettleInv,
         \/ Drain \/ EndDrain \/ PutTimeout \/ AckTransient
         \/ (\E s \in Severities : WriteSeverity(s) \/ Acknowledge(s))
         \/ (\E o \in Owners : Replay(o))
  PROVE  Flowing'
<1>1. Types /\ Drains /\ Flowing
  BY DEF SettleInv, PromiseInv
<1>2. Q' = Q /\ inbox'.overflow = inbox.overflow
  <2>1. CASE Drain \/ EndDrain
    BY <1>1, <2>1, Drained1, Drained2
  <2>2. CASE ~(Drain \/ EndDrain)
    <3>1. UNCHANGED inbox
      BY <2>2 DEF PutTimeout, AckTransient, WriteSeverity, Acknowledge, Replay
    <3> QED BY <3>1 DEF Q
  <2> QED BY <2>1, <2>2
<1>3. /\ pv' = pv /\ view'.last = view.last /\ view'.seen = view.seen
  <2>1. ASSUME NEW o \in Owners, Replay(o)
        PROVE  pv' = pv /\ view'.last = view.last /\ view'.seen = view.seen
    BY <1>1, <2>1 DEF Replay, Types, Views
  <2>2. CASE ~(\E o \in Owners : Replay(o))
    BY <2>2 DEF Drain, EndDrain, PutTimeout, AckTransient, WriteSeverity, Acknowledge
  <2> QED BY <2>1, <2>2
<1>4. /\ server'.up = server.up /\ server'.fresh = server.fresh
      /\ server'.failed = server.failed /\ server'.posted = server.posted
  <2>1. CASE PutTimeout
    <3>1. PICK a \in CutOff(server) : server' = [Abandon(server) EXCEPT !.applied = a]
      BY <2>1 DEF PutTimeout
    <3> QED BY <1>1, <3>1 DEF Abandon, Types, Servers
  <2>2. ASSUME NEW s \in Severities, WriteSeverity(s)
        PROVE  /\ server'.up = server.up /\ server'.fresh = server.fresh
               /\ server'.failed = server.failed /\ server'.posted = server.posted
    <3> DEFINE w == [writes EXCEPT !.wanted = s, !.pending = s]
    <3>1. w \in Writings /\ s \in Nat
      BY <1>1 DEF Types, Writings, Numbers
    <3>2. IF pv.connected THEN Put(s, w) ELSE UNCHANGED server
      BY <2>2 DEF WriteSeverity
    <3> HIDE DEF w
    <3>3. CASE pv.connected
      <4>1. PICK e \in Writings : Send(e)
        BY <1>1, <3>1, <3>2, <3>3, PutMoves
      <4> QED BY <1>1, <4>1, SendMoves
    <3> QED BY <3>2, <3>3
  <2>3. CASE ~PutTimeout /\ ~(\E s \in Severities : WriteSeverity(s))
    <3>1. server' = server
      BY <2>3 DEF Drain, EndDrain, AckTransient, Acknowledge, Replay
    <3> QED BY <3>1
  <2> QED BY <2>1, <2>2, <2>3
<1>5. Shown => Shown'
  BY <1>3, <1>4 DEF Shown
<1> QED BY <1>1, <1>2, <1>3, <1>4, <1>5, StillFlow

LEMMA ToldFlow ==
  ASSUME SettleInv, PublishRecords \/ ConnectionTimeout
  PROVE  Flowing'
<1>1. Types /\ Marks /\ Attached /\ Flowing
  BY DEF SettleInv, PromiseInv
<1>2. UNCHANGED <<server, inbox>> /\ Q' = Q
  BY DEF PublishRecords, ConnectionTimeout, Q
<1>3. CASE PublishRecords
  <2>1. pv' = pv
    BY <1>3 DEF PublishRecords
  <2>2. Shown => Shown'
    <3>1. CASE ~pv.haveLast
      <4>1. view' = view
        BY <1>3, <3>1 DEF PublishRecords
      <4> QED BY <1>2, <2>1, <4>1 DEF Shown
    <3>2. CASE pv.haveLast
      <4>1. view.last \in Events /\ view.last.number = view.seen /\ Alarmed
        BY <1>1, <3>2 DEF Marks
      <4> DEFINE e == Event(view.last.number, record)
      <4>2. view.last.number \in Nat
        BY <4>1 DEF Events
      <4>3. e \in Events /\ e.number = view.seen
        BY <1>1, <4>1, <4>2, EventType DEF Types
      <4>4. view' = Delivered(e)
        BY <1>3, <3>2, <4>1 DEF PublishRecords
      <4> HIDE DEF e
      <4>5. view'.seen = view.seen
        BY <1>1, <4>3, <4>4, DeliveredView
      <4> QED BY <1>2, <2>1, <3>2, <4>5 DEF Shown
    <3> QED BY <3>1, <3>2
  <2> QED BY <1>1, <1>2, <2>1, <2>2, StillFlow
<1>4. CASE ConnectionTimeout
  <2>1. /\ pv' = [pv EXCEPT !.deadline = FALSE] /\ ~pv.cancelled /\ pv.deadline
        /\ view' = IF ~pv.connected /\ pv.alarm THEN Delivered(Outage) ELSE view
    BY <1>4 DEF ConnectionTimeout
  <2>2. /\ pv'.id = pv.id /\ pv'.connected = pv.connected /\ pv'.monitor = pv.monitor
        /\ pv'.haveLast = pv.haveLast /\ ~pv.haveLast
    BY <1>1, <2>1 DEF Types, Pvs, Attached, Marks
  <2>3. view'.last \in {view.last, Outage}
    BY <1>1, <2>1, DeliveredView
  <2>4. Shown => Shown'
    BY <1>2, <2>2, <2>3 DEF Shown
  <2> QED BY <1>1, <1>2, <2>2, <2>4, StillFlow
<1> QED BY <1>3, <1>4

LEMMA MonitorFlow ==
  ASSUME SettleInv, NEW o \in Owners, Monitor(o)
  PROVE  Flowing'
<1>1. Types /\ Flowing
  BY DEF SettleInv, PromiseInv
<1>2. /\ pv'.id = pv.id /\ pv'.connected = pv.connected /\ pv'.haveLast = pv.haveLast
      /\ server'.up = server.up /\ server'.posted = server.posted
      /\ server'.failed = server.failed
      /\ server'.fresh = (server.fresh \/ (pv'.monitor # pv.monitor /\ server.up))
  BY <1>1, MonitorChannel
<1>3. view' = [view EXCEPT !.observers[o] = Joined(o)] /\ UNCHANGED inbox /\ Q' = Q
  BY DEF Monitor, Q
<1>4. view'.last = view.last /\ view'.seen = view.seen
  BY <1>1, <1>3, JoinedView
<1>5. server.fresh \in BOOLEAN
  BY <1>1 DEF Types, Servers
<1>6. Blind' \/ (pv'.monitor = pv.monitor /\ server'.fresh = server.fresh)
  BY <1>2, <1>5 DEF Blind
<1>7. Shown => Shown'
  BY <1>2, <1>4 DEF Shown
<1> QED BY <1>1, <1>2, <1>3, <1>6, <1>7, StillFlow

LEMMA CancelFlow ==
  ASSUME SettleInv, NEW o \in Owners, Cancel(o)
  PROVE  Flowing'
<1>1. Types /\ Flowing
  BY DEF SettleInv, PromiseInv
<1> DEFINE alone == \A x \in Owners \ {o} : ~view.observers[x].live
           left  == [view EXCEPT !.observers[o] = Nobody, !.told[o] = Nothing]
<1>2. /\ view' = IF alone
                 THEN [left EXCEPT !.last = Nothing, !.fed = Nothing, !.gap = server.posted]
                 ELSE left
      /\ pv' = IF alone THEN [pv EXCEPT !.cancelled = TRUE, !.haveLast = FALSE, !.monitor = 0]
               ELSE pv
      /\ server' = IF alone THEN [server EXCEPT !.fresh = FALSE] ELSE server
      /\ UNCHANGED inbox /\ Q' = Q
  BY DEF Cancel, Q
<1>3. left.last = view.last /\ left.seen = view.seen
  BY <1>1 DEF Types, Views
<1> HIDE DEF alone, left
<1>4. CASE alone
  <2>1. pv'.id = pv.id /\ pv'.connected = pv.connected /\ pv'.monitor = 0 /\ server'.up = server.up
    BY <1>1, <1>2, <1>4 DEF Types, Pvs, Servers
  <2> QED BY <1>1, <1>2, <2>1, StillFlow DEF Blind
<1>5. CASE ~alone
  <2>1. pv' = pv /\ server' = server /\ view' = left
    BY <1>2, <1>5
  <2>2. Shown => Shown'
    BY <1>3, <2>1 DEF Shown
  <2> QED BY <1>1, <1>2, <2>1, <2>2, StillFlow
<1> QED BY <1>4, <1>5

LEMMA RestartFlow ==
  ASSUME SettleInv, RecoverInbox \/ ResumeChannels
  PROVE  Flowing'
<1>1. Types /\ Drains /\ Attached /\ Flowing
  BY DEF SettleInv, PromiseInv
<1>2. CASE RecoverInbox
  <2>1. /\ ~inbox'.overflow
        /\ \A k \in D' : Q'[k].kind = "connected" /\ Q'[k].id = pv.id
        /\ pv'.id = pv.id + 1 /\ pv.id \in Nat /\ ~pv'.connected
        /\ server' \in Servers /\ ~server'.up /\ pv' \in Pvs
    BY <1>1, <1>2, Recovered
  <2>2. \A k \in D' : ~Link(k)'
    BY <2>1 DEF Link
  <2>3. pv'.connected = server'.up
    BY <2>1 DEF Pvs, Servers
  <2>4. Linked'
    BY <2>2, <2>3 DEF Linked
  <2>5. NewestShown'
    BY <2>1 DEF NewestShown
  <2> QED BY <2>4, <2>5 DEF Flowing
<1>3. CASE ResumeChannels
  <2> DEFINE p == [pv EXCEPT !.restarting = FALSE, !.created = TRUE, !.deadline = TRUE]
  <2>1. p \in Pvs /\ p.connected = pv.connected /\ p.id = pv.id
    BY <1>1 DEF Types, Pvs
  <2>2. pv' = Subscribed(p) /\ UNCHANGED <<server, inbox>> /\ Q' = Q /\ pv.restarting
    BY <1>3 DEF ResumeChannels, Q
  <2> HIDE DEF p
  <2>3. pv'.connected = pv.connected /\ pv'.id = pv.id
    BY <2>1, <2>2, SubscribedPv
  <2>4. Blind'
    BY <1>1, <2>2 DEF Attached, Blind
  <2> QED BY <1>1, <2>2, <2>3, <2>4, StillFlow
<1> QED BY <1>2, <1>3

(* The observation that arrives last is shown if nothing is lost after it. *)
LEMMA SampleShown ==
  ASSUME Numbers, SettleInv, NEW u \in Samples, 1 \in D, Q[1] = u, u.serial = pv.monitor,
         Sample(u), UNCHANGED <<server, writes>>, Reports(1), ~Blind, ~inbox.overflow,
         \A j \in D : j > 1 => ~Link(j) /\ ~Current(j)
  PROVE  Shown'
<1>1. PromiseInv /\ Types /\ Attached /\ Linked
  BY DEF SettleInv, PromiseInv, Flowing
<1>2. u.kind = "data" /\ u.number \in Nat /\ u.alarm \in Alarms
  BY DEF Samples
<1>3. ~server.failed /\ u.number = server.posted
  BY <1>2 DEF Reports
<1>4. \A j \in D : ~Link(j)
  <2>1. ~Link(1)
    BY <1>2 DEF Link
  <2>2. \A j \in D : j = 1 \/ j > 1
    BY DEF D
  <2> QED BY <2>1, <2>2
<1>5. pv.connected
  BY <1>1, <1>4 DEF Linked, Blind
<1>6. ~pv.cancelled
  BY <1>1 DEF Attached, Alarmed, Blind
<1>7. /\ pv'.haveLast /\ record' = Raised(record, u.alarm)
      /\ view' = Delivered(Event(u.number, record'))
  BY <1>1, <1>5, <1>6, SampleMoves
<1>8. record' \in Records
  BY <1>1, <1>2, <1>7, RaisedRecord DEF Types
<1> DEFINE e == Event(u.number, record')
<1>9. e \in Events /\ e.number = u.number
  BY <1>2, <1>8, EventType
<1>10. view' = Delivered(e)
  BY <1>7
<1> HIDE DEF e
<1>11. view'.seen = u.number
  BY <1>1, <1>9, <1>10, DeliveredView
<1> QED BY <1>3, <1>7, <1>11 DEF Shown

LEMMA HandleFlow ==
  ASSUME Numbers, SettleInv, Handle
  PROVE  Flowing'
<1>1. PromiseInv /\ Types /\ Attached /\ Queued /\ Linked /\ NewestShown
  BY DEF SettleInv, PromiseInv, Flowing
<1>2. inbox.batch # <<>> /\ inbox' = [inbox EXCEPT !.batch = Tail(@)]
  BY DEF Handle
<1> DEFINE u == Head(inbox.batch)
<1>3. u \in Updates /\ Q[1] = u /\ 1 \in D
  BY <1>1, <1>2, TailQueue
<1>4. Stale(u) => UNCHANGED <<server, pv, writes, record, view>>
  BY DEF Handle
<1>5. ~Stale(u) => Apply(u)
  BY DEF Handle
<1> HIDE DEF u
<1>6. CASE Stale(u)
  <2>1. ~Link(1) /\ ~Current(1)
    BY <1>1, <1>3, <1>6 DEF Link, Current, Stale, Queued
  <2>2. ~Reports(1) /\ (Shown => Shown')
    BY <1>4, <1>6, <2>1 DEF Reports, Shown
  <2>3. Linked'
    BY <1>1, <1>2, <1>4, <1>6, <2>1, TailLinked
  <2>4. NewestShown'
    BY <1>1, <1>2, <1>4, <1>6, <2>2, TailNewest
  <2> QED BY <2>3, <2>4 DEF Flowing
<1>7. CASE ~Stale(u) /\ u.kind = "connected" /\ Connected
  <2>1. Link(1) /\ ~Reports(1) /\ Q[1].kind = "connected"
    BY <1>3, <1>7 DEF Link, Reports, Current, Stale
  <2>2. pv'.id = pv.id /\ pv'.monitor = pv.monitor /\ pv'.connected = TRUE
    BY <1>1, <1>7 DEF Connected, Types, Pvs
  <2>3. /\ server'.up = server.up /\ server'.fresh = server.fresh
        /\ server'.failed = server.failed /\ server'.posted = server.posted
    BY <1>1, <1>7, ConnectedServer
  <2>4. Linked'
    BY <1>1, <1>2, <2>1, <2>2, <2>3, TailLinked
  <2>5. NewestShown'
    BY <1>1, <1>2, <2>1, <2>2, <2>3, TailNewest
  <2> QED BY <2>4, <2>5 DEF Flowing
<1>8. CASE ~Stale(u) /\ u.kind = "disconnected" /\ Disconnected
  <2>1. Link(1) /\ ~Reports(1) /\ Q[1].kind # "connected"
    BY <1>3, <1>8 DEF Link, Reports, Current, Stale
  <2>2. pv'.id = pv.id /\ pv'.monitor = pv.monitor /\ pv'.connected = FALSE
    BY <1>1, <1>8 DEF Disconnected, Gap, Types, Pvs
  <2>3. PICK a \in CutOff(server) : server' = [Abandon(server) EXCEPT !.applied = a]
    BY <1>8 DEF Disconnected
  <2>4. /\ server'.up = server.up /\ server'.fresh = server.fresh
        /\ server'.failed = server.failed /\ server'.posted = server.posted
    BY <1>1, <2>3 DEF Abandon, Types, Servers
  <2>5. Linked'
    BY <1>1, <1>2, <2>1, <2>2, <2>4, TailLinked
  <2>6. NewestShown'
    BY <1>1, <1>2, <2>1, <2>2, <2>4, TailNewest
  <2> QED BY <2>5, <2>6 DEF Flowing
<1>9. CASE ~Stale(u) /\ u.kind = "data" /\ Sample(u) /\ UNCHANGED <<server, writes>>
  <2>1. u \in Samples
    BY <1>3, <1>9 DEF Updates, Signals, Samples
  <2>2. u.serial = pv.monitor
    BY <1>9 DEF Stale
  <2>3. ~Link(1) /\ Current(1)
    BY <1>3, <1>9, <2>2 DEF Link, Current
  <2>4. pv'.id = pv.id /\ pv'.monitor = pv.monitor /\ pv'.connected = pv.connected
    BY <1>1, <1>9 DEF Sample, Types, Pvs
  <2>5. Reports(1) /\ (\A j \in D : j > 1 => ~Link(j) /\ ~Current(j)) /\ ~Blind
          /\ ~inbox.overflow => Shown'
    BY <1>3, <1>9, <2>1, <2>2, SampleShown
  <2>6. Linked'
    BY <1>1, <1>2, <1>9, <2>3, <2>4, TailLinked
  <2>7. NewestShown'
    BY <1>1, <1>2, <1>9, <2>3, <2>4, <2>5, TailNewest
  <2> QED BY <2>6, <2>7 DEF Flowing
<1>10. CASE ~Stale(u) /\ u.kind = "failed" /\ MonitorFailed /\ UNCHANGED <<server, writes>>
  <2>1. ~Link(1) /\ Current(1)
    BY <1>3, <1>10 DEF Link, Current, Stale
  <2>2. pv'.id = pv.id /\ pv'.monitor = pv.monitor /\ pv'.connected = pv.connected
        /\ ~pv'.haveLast
    BY <1>1, <1>10 DEF MonitorFailed, Types, Pvs
  <2>3. ASSUME Reports(1), ~Blind
        PROVE  Shown'
    <3>1. server.failed
      BY <1>3, <1>10, <2>3 DEF Reports
    <3>2. Alarmed
      BY <1>1, <2>3 DEF Attached, Blind
    <3>3. view' = Delivered(Outage)
      BY <1>10, <3>2 DEF MonitorFailed
    <3>4. view'.last = Outage
      BY <1>1, <3>3, DeliveredView
    <3> QED BY <1>10, <2>2, <3>1, <3>4 DEF Shown
  <2>4. Linked'
    BY <1>1, <1>2, <1>10, <2>1, <2>2, TailLinked
  <2>5. NewestShown'
    BY <1>1, <1>2, <1>10, <2>1, <2>2, <2>3, TailNewest
  <2> QED BY <2>4, <2>5 DEF Flowing
<1>11. ASSUME u.kind \in {"putReady", "putDone"}, UNCHANGED <<pv, record, view>>,
              server'.up = server.up, server'.fresh = server.fresh,
              server'.failed = server.failed, server'.posted = server.posted
       PROVE  Flowing'
  <2>1. ~Link(1) /\ ~Reports(1)
    BY <1>3, <1>11 DEF Link, Reports, Current
  <2>2. Shown => Shown'
    BY <1>11 DEF Shown
  <2>3. Linked'
    BY <1>1, <1>2, <1>11, <2>1, TailLinked
  <2>4. NewestShown'
    BY <1>1, <1>2, <1>11, <2>1, <2>2, TailNewest
  <2> QED BY <2>3, <2>4 DEF Flowing
<1>12. CASE ~Stale(u) /\ u.kind = "putReady" /\ PutReady(u.ok) /\ UNCHANGED <<pv, record, view>>
  <2>1. /\ server'.up = server.up /\ server'.fresh = server.fresh
        /\ server'.failed = server.failed /\ server'.posted = server.posted
    <3>1. CASE u.ok
      <4>1. PutReady(TRUE)
        BY <1>12, <3>1 DEF PutReady
      <4>2. PICK w \in Writings : Send(w)
        BY <1>1, <4>1, ReadyWrites
      <4> QED BY <1>1, <4>2, SendMoves
    <3>2. CASE ~u.ok
      <4>1. server' = Abandon(server)
        BY <1>12, <3>2 DEF PutReady
      <4> QED BY <1>1, <4>1 DEF Abandon, Types, Servers
    <3> QED BY <3>1, <3>2
  <2> QED BY <1>11, <1>12, <2>1
<1>13. CASE ~Stale(u) /\ u.kind = "putDone" /\ Answered(u.ok) /\ UNCHANGED <<pv, record, view>>
  <2>1. u.ok \in BOOLEAN
    BY <1>3 DEF Updates, Signals, Samples
  <2>2. PICK w \in Writings : Send(w)
    BY <1>1, <1>13, <2>1, AnsweredWrites
  <2>3. /\ server'.up = server.up /\ server'.fresh = server.fresh
        /\ server'.failed = server.failed /\ server'.posted = server.posted
    BY <1>1, <2>2, SendMoves
  <2> QED BY <1>11, <1>13, <2>3
<1> QED BY <1>5, <1>6, <1>7, <1>8, <1>9, <1>10, <1>12, <1>13 DEF Apply

LEMMA FlowStep ==
  ASSUME Numbers, SettleInv, [Next]_vars
  PROVE  Flowing'
<1>1. CASE UNCHANGED vars
  <2>1. Flowing /\ UNCHANGED <<server, inbox, pv, view>> /\ Q' = Q
    BY <1>1 DEF SettleInv, vars, Q
  <2>2. Shown => Shown'
    BY <2>1 DEF Shown
  <2> QED BY <2>1, <2>2, StillFlow
<1>2. CASE Connect \/ Disconnect \/ Data \/ Fail \/ PutConnect \/ PutDone
  BY <1>2, ThreadsFlow
<1>3. CASE \/ Drain \/ EndDrain \/ PutTimeout \/ AckTransient
           \/ (\E s \in Severities : WriteSeverity(s) \/ Acknowledge(s))
           \/ (\E o \in Owners : Replay(o))
  BY <1>3, QuietFlow
<1>4. CASE PublishRecords \/ ConnectionTimeout
  BY <1>4, ToldFlow
<1>5. CASE RecoverInbox \/ ResumeChannels
  BY <1>5, RestartFlow
<1>6. CASE Handle
  BY <1>6, HandleFlow
<1>7. ASSUME NEW o \in Owners, Monitor(o) \/ Cancel(o)
      PROVE  Flowing'
  BY <1>7, MonitorFlow, CancelFlow
<1> QED BY <1>1, <1>2, <1>3, <1>4, <1>5, <1>6, <1>7 DEF Next
-----------------------------------------------------------------------------
(* Once nothing is under way nothing was left behind.                      *)
LEMMA SettleShows == SettleInv => ChannelSettles
<1> SUFFICES ASSUME SettleInv PROVE ChannelSettles
  OBVIOUS
<1>1. /\ Types /\ Drains /\ Attached /\ Severe /\ Linked /\ NewestShown
      /\ LossKnown /\ Told /\ Published /\ AcksFollowAlarm
  BY DEF SettleInv, PromiseInv, Writing, Telling, Flowing
<1>2. ASSUME Settled
      PROVE  ~inbox.overflow /\ D = {} /\ pv.connected = server.up
  <2>1. ~inbox.scheduled
    BY <1>2 DEF Settled
  <2>2. ~inbox.overflow /\ inbox.batch = <<>> /\ inbox.updates = <<>>
    BY <1>1, <2>1 DEF Drains
  <2>3. Q = <<>> /\ Len(Q) = 0
    BY <2>2 DEF Q
  <2>4. D = {}
    BY <2>3 DEF D
  <2> QED BY <1>1, <2>2, <2>4 DEF Linked
<1>3. ViewSettles
  <2> SUFFICES ASSUME Settled, NEW o \in Owners, view.observers[o].live
               PROVE  view.told[o] = IF ~server.up \/ server.failed THEN Outage
                                     ELSE Event(server.posted, record)
    BY DEF ViewSettles
  <2>1. Alarmed /\ pv.monitor # 0 /\ ~pv.restarting /\ ~pv.deadline
    BY <1>1 DEF Settled, Attached, Alarmed
  <2>2. ~view.observers[o].replay
    BY DEF Settled
  <2>3. CASE ~server.up
    BY <1>1, <1>2, <2>1, <2>3 DEF LossKnown
  <2>4. CASE server.up
    <3>1. Shown
      BY <1>1, <1>2, <2>1, <2>4 DEF NewestShown, Settled
    <3>2. view.last = IF server.failed THEN Outage ELSE Event(server.posted, record)
      BY <1>1, <3>1 DEF Shown, Published, Settled
    <3>3. view.last # Nothing
      BY <3>2 DEF Outage, Event, Nothing
    <3>4. view.told[o] = view.last
      BY <1>1, <2>2, <3>3 DEF Told
    <3> QED BY <2>4, <3>2, <3>4
  <2> QED BY <2>3, <2>4
<1>4. SeveritySettles
  <2>1. Settled /\ server.up => pv.connected
    BY <1>2
  <2> QED BY <1>1, <2>1 DEF Severe, SevereWith, SeveritySettles
<1> QED BY <1>1, <1>3, <1>4 DEF ChannelSettles

(* However updates, overflows, restarts and timers interleave: once nothing *)
(* is under way every observer knows what holds, a severity is forgotten   *)
(* only when it was confirmed, and ACKS covers the alarm.                  *)
THEOREM StreamSettles ==
  ASSUME Numbers
  PROVE  Spec => []ChannelSettles
<1>1. Init => SettleInv
  BY SettleInit
<1>2. SettleInv /\ [Next]_vars => SettleInv'
  <2> SUFFICES ASSUME SettleInv, [Next]_vars PROVE SettleInv'
    OBVIOUS
  <2>1. PromiseInv'
    BY PromiseStep DEF SettleInv
  <2>2. Writing' /\ Telling' /\ Flowing' /\ AcksFollowAlarm'
    BY WritingStep, TellingStep, FlowStep, AcksStep
  <2> QED BY <2>1, <2>2 DEF SettleInv
<1>3. SettleInv => ChannelSettles
  BY SettleShows
<1> QED BY <1>1, <1>2, <1>3, PTL DEF Spec
=============================================================================
