---------------------------- MODULE AdaptersProofs ----------------------------
(***************************************************************************)
(* Proofs about what MCAdapters puts together: the Channel Access adapter  *)
(* keeps the promise of PvService, for every number of observations,       *)
(* cancellations and queued callbacks; failed acknowledgements by value    *)
(* are accounted for; and what is proved of each part holds for the        *)
(* behaviours of the router, whatever part of it runs.                     *)
(***************************************************************************)
EXTENDS MCAdapters, TLAPS

-----------------------------------------------------------------------------
(***************************************************************************)
(* Channel Access.                                                         *)
(***************************************************************************)
Channels ==
  [alarm : BOOLEAN, cancelled : BOOLEAN, subscribed : BOOLEAN, epoch : Nat,
   last : Nat, recheck : BOOLEAN, deadline : BOOLEAN]

Updates   == [kind : {"update"}, epoch : Nat, good : BOOLEAN, number : Nat]
Callbacks == [kind : {"up", "down", "access"}] \cup Updates

Types ==
  /\ channel \in Channels
  /\ batch \in Seq(Callbacks)
  /\ link \in [up : BOOLEAN, read : BOOLEAN, write : BOOLEAN]
  /\ posted \in Nat /\ seen \in Nat /\ gap \in Nat

(* The marks of the promise, and the alarm kept for a change of access.    *)
Marks ==
  /\ seen <= posted /\ gap <= posted
  /\ channel.last # 0 =>
       channel.last > gap /\ channel.last >= seen /\ channel.last <= posted

(* Only a watched channel has a subscription, or an alarm kept; the loss   *)
(* of a connection that drops it is on its way.                            *)
Attached ==
  /\ channel.subscribed => channel.alarm /\ ~channel.cancelled
  /\ channel.cancelled => channel.last = 0
  /\ ~link.up => ~link.read
  /\ ~link.up /\ channel.last # 0 => \E i \in 1..Len(batch) : batch[i].kind = "down"
  /\ phase = "recheck" => batch = <<>>

IsUpdate(i) == i \in 1..Len(batch) /\ batch[i].kind = "update"

Fresh(n) == n > gap /\ n > seen /\ n > channel.last /\ n <= posted

FreshAfter(n) == n > gap' /\ n > seen' /\ n > channel'.last /\ n <= posted'

(* A queued event of this subscription is newer than all that was told.    *)
Queued ==
  \A i \in 1..Len(batch) : IsUpdate(i) =>
    /\ batch[i].epoch <= channel.epoch /\ batch[i].number <= posted
    /\ batch[i].epoch = channel.epoch =>
         channel.subscribed /\ (batch[i].good => Fresh(batch[i].number))

Ordered ==
  \A i, j \in 1..Len(batch) :
    IsUpdate(i) /\ IsUpdate(j) /\ batch[j].good /\ i < j => batch[i].number < batch[j].number

PromiseInv == Types /\ Marks /\ Attached /\ Queued /\ Ordered

(* A step tells the engine something, and moves the marks no further than  *)
(* the observations up to n.                                               *)
Told == Promise!Next \/ UNCHANGED Promise!vars

Moved(n) ==
  /\ Told /\ UNCHANGED posted
  /\ seen' \in Nat /\ gap' \in Nat
  /\ channel' \in Channels /\ channel'.epoch = channel.epoch
  /\ channel'.alarm = channel.alarm /\ channel'.cancelled = channel.cancelled
  /\ channel.subscribed => channel'.subscribed
  /\ channel'.subscribed => channel.alarm /\ ~channel.cancelled
  /\ Marks'
  /\ channel.cancelled => channel'.last = 0
  /\ ~link.up => channel'.last \in {0, channel.last}
  /\ \A m \in Nat : Fresh(m) /\ m > n => m > gap' /\ m > seen' /\ m > channel'.last

LEMMA InitKept == Init => PromiseInv /\ Promise!Init
<1> SUFFICES ASSUME Init PROVE PromiseInv /\ Promise!Init
  OBVIOUS
<1>1. batch = <<>> /\ Len(batch) = 0
  BY DEF Init
<1>2. Types /\ Marks /\ Attached
  BY DEF Init, Types, Marks, Attached, Channels, Offline
<1>3. Queued /\ Ordered
  BY <1>1 DEF Queued, Ordered
<1>4. Promise!Init
  BY DEF Init, Promise!Init, Watching, Nothing, Promise!Nothing
<1> QED BY <1>2, <1>3, <1>4 DEF PromiseInv

(* What the engine can be told while the channel is watched.               *)
LEMMA OutageTold ==
  ASSUME Types, Marks, Watching, Watching' = Watching, UNCHANGED posted, TellOutage
  PROVE  /\ Told /\ seen' = seen /\ gap' \in Nat
         /\ gap' <= posted
         /\ \A m \in Nat : Fresh(m) => m > gap' /\ m > seen'
<1>1. Promise!Lose
  BY DEF Promise!Lose, TellOutage, Outage, Promise!Outage
<1>2. gap' \in Nat /\ gap' <= posted
  BY DEF Types, Marks, TellOutage
<1>3. ASSUME NEW m \in Nat, Fresh(m) PROVE m > gap' /\ m > seen'
  BY <1>3 DEF Fresh, TellOutage
<1> QED BY <1>1, <1>2, <1>3 DEF Told, Promise!Next, TellOutage

LEMMA DeniedTold ==
  ASSUME Watching, Watching' = Watching, UNCHANGED posted, TellDenied
  PROVE  Told /\ seen' = seen /\ gap' = gap
<1>1. Promise!Deny
  BY DEF Promise!Deny, TellDenied, Denied, Promise!Denied
<1> QED BY <1>1 DEF Told, Promise!Next, TellDenied

LEMMA ValueTold ==
  ASSUME NEW n \in Nat, n > gap, n >= seen, n <= posted, Types,
         Watching, Watching' = Watching, UNCHANGED posted, TellValue(n)
  PROVE  Told /\ seen' = n /\ gap' = gap
<1>1. Promise!Tell(n)
  BY DEF Promise!Tell, TellValue, Value, Promise!Value
<1>2. n \in 1..posted
  BY DEF Types
<1> QED BY <1>1, <1>2 DEF Told, Promise!Next, TellValue

LEMMA NothingTold ==
  ASSUME Watching' = Watching, UNCHANGED posted, TellNothing
  PROVE  Told /\ seen' = seen /\ gap' = gap
  BY DEF Told, Promise!vars, TellNothing

(* A change of access rights, of a channel ch in which a subscription may  *)
(* have been made.                                                         *)
LEMMA RightsMove ==
  ASSUME PromiseInv, UNCHANGED posted,
         NEW ch \in Channels, ch.alarm = channel.alarm, ~channel.cancelled, ~ch.cancelled,
         ch.last = channel.last, ch.epoch = channel.epoch,
         channel.subscribed => ch.subscribed, ch.subscribed => channel.alarm,
         link.up, RightsChanged(ch)
  PROVE  Moved(0)
<1>1. Types /\ Marks /\ Attached
  BY DEF PromiseInv
<1>2. /\ channel' \in Channels
      /\ channel'.alarm = channel.alarm /\ channel'.cancelled = channel.cancelled
      /\ channel'.subscribed = ch.subscribed /\ channel'.epoch = channel.epoch
      /\ channel'.last = IF link.read THEN channel.last ELSE 0
  <2>1. channel' = [ch EXCEPT !.recheck = FALSE, !.last = IF link.read THEN @ ELSE 0]
    BY DEF RightsChanged
  <2>2. channel.cancelled \in BOOLEAN /\ ch.cancelled \in BOOLEAN /\ 0 \in Nat
    BY <1>1 DEF Types, Channels
  <2> QED BY <2>1, <2>2 DEF Channels
<1>3. Watching' = Watching /\ (Watching <=> channel.alarm)
  BY <1>2 DEF Watching
<1>4. /\ Told /\ seen' \in Nat /\ gap' \in Nat /\ Marks'
      /\ \A m \in Nat : Fresh(m) => m > gap' /\ m > seen' /\ m > channel'.last
  <2>1. CASE ~ch.alarm
    <3>1. TellNothing
      BY <2>1 DEF RightsChanged
    <3> QED BY <1>1, <1>2, <1>3, <3>1, NothingTold DEF Types, Marks, Fresh, Channels
  <2>2. CASE ch.alarm /\ ~link.read
    <3>1. TellOutage
      BY <2>2 DEF RightsChanged
    <3>2. channel'.last = 0
      BY <1>2, <2>2
    <3> QED BY <1>1, <1>3, <2>2, <3>1, <3>2, OutageTold DEF Types, Marks, Fresh
  <2>3. CASE ch.alarm /\ link.read /\ MissesWrite
    <3>1. TellDenied
      BY <2>3 DEF RightsChanged
    <3> QED BY <1>1, <1>2, <1>3, <2>3, <3>1, DeniedTold DEF Types, Marks, Fresh, Channels
  <2>4. CASE ch.alarm /\ link.read /\ ~MissesWrite /\ ch.last # 0
    <3>1. TellValue(channel.last) /\ channel'.last = channel.last
      BY <1>2, <2>4 DEF RightsChanged
    <3>2. /\ channel.last \in Nat /\ channel.last > gap
          /\ channel.last >= seen /\ channel.last <= posted
      BY <1>1, <2>4 DEF Types, Marks, Channels
    <3>3. Told /\ seen' = channel.last /\ gap' = gap
      BY <1>1, <1>3, <2>4, <3>1, <3>2, ValueTold
    <3> QED BY <1>1, <3>1, <3>2, <3>3 DEF Types, Marks, Fresh
  <2>5. CASE ch.alarm /\ link.read /\ ~MissesWrite /\ ch.last = 0
    <3>1. TellNothing
      BY <2>5 DEF RightsChanged
    <3> QED BY <1>1, <1>2, <1>3, <3>1, NothingTold DEF Types, Marks, Fresh, Channels
  <2> QED BY <2>1, <2>2, <2>3, <2>4, <2>5 DEF Channels
<1> QED BY <1>2, <1>4 DEF Moved

(* A call that leaves the queue as it is.                                  *)
LEMMA SameBatch ==
  ASSUME PromiseInv, Moved(0), UNCHANGED <<batch, link>>,
         phase' = "recheck" => batch = <<>>
  PROVE  PromiseInv'
<1>1. Types /\ Marks /\ Attached /\ Queued /\ Ordered
  BY DEF PromiseInv
<1>2. Types' /\ Marks' /\ Ordered'
  BY <1>1 DEF Types, Moved, Ordered, IsUpdate
<1>3. Attached'
  BY <1>1 DEF Attached, Moved
<1>4. Queued'
  <2> SUFFICES ASSUME NEW i \in 1..Len(batch), IsUpdate(i)
               PROVE  /\ batch[i].epoch <= channel.epoch /\ batch[i].number <= posted
                      /\ batch[i].epoch = channel.epoch =>
                           channel'.subscribed /\ (batch[i].good => FreshAfter(batch[i].number))
    BY DEF Queued, IsUpdate, Moved, Fresh, FreshAfter
  <2>1. batch[i] \in Updates
    BY <1>1 DEF IsUpdate, Types, Callbacks
  <2>2. batch[i].number \in Nat
    BY <2>1 DEF Updates
  <2>3. Fresh(batch[i].number) => FreshAfter(batch[i].number)
    BY <1>1, <2>2 DEF Moved, Fresh, FreshAfter, Types
  <2> QED BY <1>1, <2>3 DEF Queued, Moved
<1> QED BY <1>2, <1>3, <1>4 DEF PromiseInv

(* The dispatch of the first callback, after which the marks are below n:  *)
(* the number of an event of this subscription that was dispatched, or 0.  *)
LEMMA TailBatch ==
  ASSUME PromiseInv, NEW n \in Nat, Moved(n), UNCHANGED link,
         batch # <<>>, batch' = Tail(batch), phase' # "recheck",
         batch[1].kind = "down" => channel'.last = 0,
         n = 0 \/ (batch[1].kind = "update" /\ n = batch[1].number)
  PROVE  PromiseInv'
<1>1. Types /\ Marks /\ Attached /\ Queued /\ Ordered
  BY DEF PromiseInv
<1>2. /\ batch' \in Seq(Callbacks) /\ Len(batch) \in Nat /\ Len(batch) > 0
      /\ Len(batch') = Len(batch) - 1
      /\ \A i \in 1..Len(batch') : i + 1 \in 1..Len(batch) /\ batch'[i] = batch[i + 1]
  BY <1>1 DEF Types
<1>3. Types' /\ Marks'
  BY <1>1, <1>2 DEF Types, Moved
<1>4. Attached'
  <2>1. ASSUME ~link'.up, channel'.last # 0
        PROVE  \E i \in 1..Len(batch') : batch'[i].kind = "down"
    <3>1. ~link.up /\ channel.last # 0
      BY <2>1 DEF Moved
    <3>2. PICK i \in 1..Len(batch) : batch[i].kind = "down"
      BY <1>1, <3>1 DEF Attached
    <3>3. i # 1
      BY <2>1, <3>2
    <3>4. i - 1 \in 1..Len(batch')
      BY <1>2, <3>3
    <3>5. batch'[i - 1] = batch[i]
      BY <1>2, <3>4
    <3> QED BY <3>2, <3>4, <3>5
  <2> QED BY <1>1, <2>1 DEF Attached, Moved
<1>5. Ordered'
  <2> SUFFICES ASSUME NEW i \in 1..Len(batch'), NEW j \in 1..Len(batch'),
                      batch'[i].kind = "update", batch'[j].kind = "update",
                      batch'[j].good, i < j
               PROVE  batch'[i].number < batch'[j].number
    BY DEF Ordered, IsUpdate
  <2>1. /\ IsUpdate(i + 1) /\ IsUpdate(j + 1)
        /\ i + 1 \in 1..Len(batch) /\ j + 1 \in 1..Len(batch) /\ i + 1 < j + 1
        /\ batch'[i] = batch[i + 1] /\ batch'[j] = batch[j + 1]
    BY <1>2 DEF IsUpdate
  <2> QED BY <1>1, <2>1 DEF Ordered
<1>6. Queued'
  <2> SUFFICES ASSUME NEW i \in 1..Len(batch'), batch'[i].kind = "update"
               PROVE  /\ batch'[i].epoch <= channel'.epoch /\ batch'[i].number <= posted'
                      /\ batch'[i].epoch = channel'.epoch =>
                           channel'.subscribed /\ (batch'[i].good => FreshAfter(batch'[i].number))
    BY DEF Queued, IsUpdate, Fresh, FreshAfter
  <2>1. /\ i + 1 \in 1..Len(batch) /\ IsUpdate(i + 1) /\ batch'[i] = batch[i + 1]
        /\ 1 \in 1..Len(batch) /\ 1 < i + 1
    BY <1>2 DEF IsUpdate
  <2>2. batch[i + 1] \in Updates
    BY <1>1, <2>1 DEF IsUpdate, Types, Callbacks
  <2>3. batch[i + 1].number \in Nat
    BY <2>2 DEF Updates
  <2>4. ASSUME batch[i + 1].good, Fresh(batch[i + 1].number)
        PROVE  FreshAfter(batch[i + 1].number)
    <3>1. batch[i + 1].number > n
      <4>1. CASE n = 0
        BY <1>1, <2>3, <2>4, <4>1 DEF Fresh, Types
      <4>2. CASE batch[1].kind = "update" /\ n = batch[1].number
        BY <1>1, <2>1, <2>3, <2>4, <4>2 DEF Ordered, IsUpdate
      <4> QED BY <4>1, <4>2
    <3> QED BY <2>1, <2>3, <2>4, <3>1 DEF Moved, Fresh, FreshAfter
  <2> QED BY <1>1, <2>1, <2>4 DEF Queued, Moved
<1> QED BY <1>3, <1>4, <1>5, <1>6 DEF PromiseInv

(* One callback is added, which is an event only while there is a          *)
(* subscription and then newer than all others.                            *)
LEMMA LongerBatch ==
  ASSUME PromiseInv, NEW cb \in Callbacks, batch' = Append(batch, cb),
         UNCHANGED <<channel, seen, gap>>, posted' \in Nat, posted <= posted',
         phase' # "recheck",
         link' \in [up : BOOLEAN, read : BOOLEAN, write : BOOLEAN],
         ~link'.up => ~link'.read /\ (~link.up \/ cb.kind = "down"),
         cb.kind = "update" =>
           /\ channel.subscribed /\ cb.epoch = channel.epoch /\ cb.number = posted'
           /\ cb.good => posted' > posted
  PROVE  PromiseInv'
<1>1. Types /\ Marks /\ Attached /\ Queued /\ Ordered
  BY DEF PromiseInv
<1>2. /\ batch' \in Seq(Callbacks) /\ Len(batch) \in Nat
      /\ Len(batch') = Len(batch) + 1 /\ batch'[Len(batch) + 1] = cb
      /\ \A i \in 1..Len(batch) : i \in 1..Len(batch') /\ batch'[i] = batch[i]
  BY <1>1 DEF Types
<1>3. Types' /\ Marks'
  BY <1>1, <1>2 DEF Types, Marks, Channels
<1>4. Attached'
  <2>1. ASSUME ~link'.up, channel.last # 0
        PROVE  \E i \in 1..Len(batch') : batch'[i].kind = "down"
    <3>1. CASE cb.kind = "down"
      BY <1>2, <3>1
    <3>2. CASE ~link.up
      <4>1. PICK i \in 1..Len(batch) : batch[i].kind = "down"
        BY <1>1, <2>1, <3>2 DEF Attached
      <4> QED BY <1>2, <4>1
    <3> QED BY <2>1, <3>1, <3>2
  <2> QED BY <1>1, <2>1 DEF Attached
<1>5. \A i \in 1..Len(batch') : i \in 1..Len(batch) \/ (i = Len(batch) + 1 /\ batch'[i] = cb)
  BY <1>2
<1>6. \A i \in 1..Len(batch) : IsUpdate(i) =>
        batch[i].number \in Nat /\ batch[i].number <= posted
  BY <1>1 DEF Queued, Types, Callbacks, Updates, IsUpdate
<1>7. Ordered'
  <2> SUFFICES ASSUME NEW i \in 1..Len(batch'), NEW j \in 1..Len(batch'),
                      batch'[i].kind = "update", batch'[j].kind = "update",
                      batch'[j].good, i < j
               PROVE  batch'[i].number < batch'[j].number
    BY DEF Ordered, IsUpdate
  <2>1. i \in 1..Len(batch) /\ IsUpdate(i) /\ batch'[i] = batch[i]
    BY <1>2, <1>5 DEF IsUpdate
  <2>2. CASE j \in 1..Len(batch)
    <3>1. IsUpdate(j) /\ batch'[j] = batch[j]
      BY <1>2, <2>2 DEF IsUpdate
    <3> QED BY <1>1, <2>1, <2>2, <3>1 DEF Ordered
  <2>3. CASE batch'[j] = cb
    BY <1>1, <1>6, <2>1, <2>3 DEF Types
  <2> QED BY <1>5, <2>2, <2>3
<1>8. Queued'
  <2> SUFFICES ASSUME NEW i \in 1..Len(batch'), batch'[i].kind = "update"
               PROVE  /\ batch'[i].epoch <= channel.epoch /\ batch'[i].number <= posted'
                      /\ batch'[i].epoch = channel.epoch =>
                           channel.subscribed /\ (batch'[i].good => FreshAfter(batch'[i].number))
    BY DEF Queued, IsUpdate, Fresh, FreshAfter
  <2>1. CASE i \in 1..Len(batch)
    <3>1. IsUpdate(i) /\ batch'[i] = batch[i]
      BY <1>2, <2>1 DEF IsUpdate
    <3> QED BY <1>1, <1>6, <2>1, <3>1 DEF Queued, Fresh, FreshAfter, Types
  <2>2. CASE batch'[i] = cb
    BY <1>1, <2>2 DEF Types, Channels, Marks, FreshAfter
  <2> QED BY <1>5, <2>1, <2>2
<1> QED BY <1>3, <1>4, <1>7, <1>8 DEF PromiseInv

LEMMA StillMoved ==
  ASSUME PromiseInv, UNCHANGED <<channel, posted, told, seen, gap>>
  PROVE  Moved(0)
<1>1. Types /\ Marks /\ Attached
  BY DEF PromiseInv
<1>2. Told
  BY DEF Told, Promise!vars, Watching
<1>3. \A m \in Nat : Fresh(m) => m > gap /\ m > seen /\ m > channel.last
  BY DEF Fresh
<1> QED BY <1>1, <1>2, <1>3 DEF Moved, Types, Marks, Attached

(* CA and the IOC: nothing is told, and an event is an observation.        *)
LEMMA NetworkKeeps ==
  ASSUME PromiseInv, LinkUp \/ LinkDown \/ Rights \/ Update
  PROVE  PromiseInv' /\ Told
<1>1. Types /\ Marks /\ Attached
  BY DEF PromiseInv
<1>2. CASE LinkUp
  <2>1. /\ batch' = Append(batch, [kind |-> "up"]) /\ phase' = "network"
        /\ link' \in [up : BOOLEAN, read : BOOLEAN, write : BOOLEAN] /\ link'.up
        /\ UNCHANGED <<channel, posted, told, seen, gap>>
    BY <1>2 DEF LinkUp, InPoll, Queue
  <2>2. [kind |-> "up"] \in Callbacks
    BY DEF Callbacks
  <2>3. PromiseInv'
    BY <1>1, <2>1, <2>2, LongerBatch DEF Types
  <2> QED BY <2>1, <2>3, StillMoved DEF Moved
<1>3. CASE LinkDown
  <2>1. /\ batch' = Append(batch, [kind |-> "down"]) /\ phase' = "network"
        /\ link' = [up |-> FALSE, read |-> FALSE, write |-> FALSE]
        /\ UNCHANGED <<channel, posted, told, seen, gap>>
    BY <1>3 DEF LinkDown, InPoll, Queue, Offline
  <2>2. [kind |-> "down"] \in Callbacks
    BY DEF Callbacks
  <2>3. PromiseInv'
    BY <1>1, <2>1, <2>2, LongerBatch DEF Types
  <2> QED BY <2>1, <2>3, StillMoved DEF Moved
<1>4. CASE Rights
  <2>1. /\ batch' = Append(batch, [kind |-> "access"]) /\ phase' = "network"
        /\ link' \in [up : BOOLEAN, read : BOOLEAN, write : BOOLEAN] /\ link'.up
        /\ UNCHANGED <<channel, posted, told, seen, gap>>
    BY <1>1, <1>4 DEF Rights, InPoll, Queue, Types
  <2>2. [kind |-> "access"] \in Callbacks
    BY DEF Callbacks
  <2>3. PromiseInv'
    BY <1>1, <2>1, <2>2, LongerBatch DEF Types
  <2> QED BY <2>1, <2>3, StillMoved DEF Moved
<1>5. CASE Update
  <2>1. PICK good \in BOOLEAN :
          /\ posted' = IF good THEN posted + 1 ELSE posted
          /\ batch' = Append(batch, [kind |-> "update", epoch |-> channel.epoch,
                                     good |-> good, number |-> posted'])
    BY <1>5 DEF Update, Queue
  <2>2. /\ channel.subscribed /\ phase' = "network" /\ UNCHANGED link
        /\ UNCHANGED <<channel, told, seen, gap>>
    BY <1>5 DEF Update, InPoll
  <2>3. posted' \in Nat /\ posted <= posted' /\ (good => posted' > posted)
    BY <1>1, <2>1 DEF Types
  <2> DEFINE cb == [kind |-> "update", epoch |-> channel.epoch, good |-> good, number |-> posted']
  <2>4. /\ cb \in Callbacks /\ batch' = Append(batch, cb)
        /\ cb.kind = "update" /\ cb.epoch = channel.epoch /\ cb.number = posted' /\ cb.good = good
    BY <1>1, <2>1, <2>3 DEF Callbacks, Updates, Types, Channels
  <2> HIDE DEF cb
  <2>5. PromiseInv'
    BY <1>1, <2>2, <2>3, <2>4, LongerBatch DEF Types, Attached
  <2>6. Told
    BY <2>1, <2>2 DEF Told, Promise!Next, Promise!Observe, Promise!vars, Watching
  <2> QED BY <2>5, <2>6
<1> QED BY <1>2, <1>3, <1>4, <1>5

(* A queued connection.                                                    *)
LEMMA ConnectedUpMoves ==
  ASSUME PromiseInv, ~channel.cancelled, ConnectedUp, UNCHANGED posted
  PROVE  Moved(0)
<1>1. Types /\ Marks /\ Attached
  BY DEF PromiseInv
<1> DEFINE ch == Subscribe([channel EXCEPT !.deadline = FALSE])
<1>2. /\ ch \in Channels /\ ch.alarm = channel.alarm /\ ~ch.cancelled
      /\ ch.cancelled = channel.cancelled
      /\ ch.last = channel.last /\ ch.epoch = channel.epoch
      /\ channel.subscribed => ch.subscribed
      /\ ch.subscribed => channel.alarm
  BY <1>1 DEF Types, Attached, Channels, Subscribe, Connectable
<1>3. CASE link.up
  <2>1. RightsChanged(ch)
    BY <1>3 DEF ConnectedUp
  <2> HIDE DEF ch
  <2> QED BY <1>2, <1>3, <2>1, RightsMove
<1>4. CASE ~link.up
  <2>1. channel' = ch /\ TellNothing
    BY <1>4 DEF ConnectedUp
  <2> HIDE DEF ch
  <2>2. Told /\ seen' = seen /\ gap' = gap
    BY <1>2, <2>1, NothingTold DEF Watching
  <2>3. \A m \in Nat : Fresh(m) => m > gap /\ m > seen /\ m > channel.last
    BY DEF Fresh
  <2> QED BY <1>1, <1>2, <2>1, <2>2, <2>3 DEF Moved, Types, Marks
<1> QED BY <1>3, <1>4

LEMMA ConnectedDownMoves ==
  ASSUME PromiseInv, ~channel.cancelled, ConnectedDown, UNCHANGED posted
  PROVE  Moved(0) /\ channel'.last = 0
<1>1. Types /\ Marks /\ Attached
  BY DEF PromiseInv
<1>2. /\ channel' = [channel EXCEPT !.last = 0]
      /\ channel' \in Channels /\ channel'.last = 0 /\ channel'.epoch = channel.epoch
      /\ channel'.alarm = channel.alarm /\ channel'.cancelled = channel.cancelled
      /\ channel'.subscribed = channel.subscribed
  BY <1>1 DEF ConnectedDown, Types, Channels
<1>3. Watching' = Watching /\ (Watching <=> channel.alarm)
  BY <1>2 DEF Watching
<1>4. \A m \in Nat : Fresh(m) => m > gap /\ m > seen /\ m > 0
  BY <1>1 DEF Fresh, Types
<1>5. CASE channel.alarm
  <2>1. TellOutage
    BY <1>5 DEF ConnectedDown
  <2> QED BY <1>1, <1>2, <1>3, <1>4, <1>5, <2>1, OutageTold DEF Moved, Types, Marks, Attached
<1>6. CASE ~channel.alarm
  <2>1. TellNothing
    BY <1>6 DEF ConnectedDown
  <2> QED BY <1>1, <1>2, <1>3, <1>4, <2>1, NothingTold DEF Moved, Types, Marks, Attached
<1> QED BY <1>5, <1>6

(* An event of this subscription, which is the first that is queued.       *)
LEMMA UpdatedMoves ==
  ASSUME PromiseInv, ~channel.cancelled, UNCHANGED posted,
         batch # <<>>, batch[1].kind = "update", Current(batch[1]), Updated(batch[1])
  PROVE  batch[1].number \in Nat /\ Moved(batch[1].number)
<1>1. Types /\ Marks /\ Attached /\ Queued
  BY DEF PromiseInv
<1> DEFINE n == batch[1].number
<1>2. 1 \in 1..Len(batch) /\ IsUpdate(1) /\ batch[1] \in Updates
  BY <1>1 DEF Types, IsUpdate, Callbacks
<1>3. n \in Nat /\ batch[1].good \in BOOLEAN
  BY <1>2 DEF Updates
<1>4. channel.subscribed /\ (batch[1].good => Fresh(n))
  BY <1>1, <1>2 DEF Queued, Current
<1>5. /\ channel' \in Channels /\ channel'.epoch = channel.epoch
      /\ channel'.alarm = channel.alarm /\ channel'.cancelled = channel.cancelled
      /\ channel'.subscribed = channel.subscribed
      /\ channel'.last = IF batch[1].good /\ link.read THEN n ELSE 0
  <2>1. CASE ~batch[1].good
    <3>1. channel' = [channel EXCEPT !.last = 0]
      BY <2>1 DEF Updated
    <3> QED BY <1>1, <2>1, <3>1 DEF Types, Channels
  <2>2. CASE batch[1].good
    <3>1. channel' = [channel EXCEPT !.recheck = FALSE, !.last = IF link.read THEN n ELSE 0]
      BY <2>2 DEF Updated
    <3>2. (IF link.read THEN n ELSE 0) \in Nat
      BY <1>3
    <3> QED BY <1>1, <2>2, <3>1, <3>2 DEF Types, Channels
  <2> QED BY <2>1, <2>2
<1>6. Watching /\ Watching' = Watching
  BY <1>1, <1>4, <1>5 DEF Watching, Attached
<1> HIDE DEF n
<1>7. /\ Told /\ seen' \in Nat /\ gap' \in Nat /\ Marks'
      /\ \A m \in Nat : Fresh(m) /\ m > n => m > gap' /\ m > seen' /\ m > channel'.last
  <2>1. CASE TellOutage /\ (~batch[1].good \/ ~link.read)
    BY <1>1, <1>5, <1>6, <2>1, OutageTold DEF Types, Marks, Fresh
  <2>2. CASE TellDenied /\ (batch[1].good => link.read)
    <3>1. Told /\ seen' = seen /\ gap' = gap
      BY <1>6, <2>2, DeniedTold
    <3> QED BY <1>1, <1>3, <1>4, <1>5, <2>2, <3>1 DEF Types, Marks, Fresh
  <2>3. CASE TellValue(n) /\ batch[1].good /\ link.read
    <3>1. n > gap /\ n >= seen /\ n <= posted
      BY <1>1, <1>3, <1>4, <2>3 DEF Fresh, Types
    <3>2. Told /\ seen' = n /\ gap' = gap
      BY <1>1, <1>3, <1>6, <2>3, <3>1, ValueTold
    <3> QED BY <1>1, <1>3, <1>5, <2>3, <3>1, <3>2 DEF Types, Marks, Fresh
  <2> QED BY <2>1, <2>2, <2>3 DEF Updated, n
<1>8. ~link.up => channel'.last = 0
  BY <1>1, <1>5 DEF Attached
<1> QED BY <1>1, <1>3, <1>4, <1>5, <1>7, <1>8 DEF Moved, Attached, n

LEMMA DispatchKeeps ==
  ASSUME PromiseInv, Dispatch
  PROVE  PromiseInv' /\ Told
<1>1. Types /\ Marks /\ Attached
  BY DEF PromiseInv
<1>2. /\ batch # <<>> /\ batch' = Tail(batch) /\ phase' = "dispatch"
      /\ UNCHANGED <<link, posted>>
  BY DEF Dispatch, network
<1>3. Head(batch) = batch[1]
  BY <1>1, <1>2 DEF Types
<1>4. ASSUME Moved(0), batch[1].kind = "down" => channel'.last = 0
      PROVE  PromiseInv' /\ Told
  BY <1>2, <1>4, TailBatch DEF Moved
<1> DEFINE ignored == channel.cancelled \/ (batch[1].kind = "update" /\ ~Current(batch[1]))
<1>5. CASE ignored /\ UNCHANGED <<owed, channel>> /\ TellNothing
  <2>1. Moved(0)
    BY <1>2, <1>5, StillMoved DEF TellNothing
  <2>2. batch[1].kind = "down" => channel.last = 0
    BY <1>1, <1>5 DEF Attached
  <2> QED BY <1>4, <1>5, <2>1, <2>2
<1>6. CASE ~ignored /\ batch[1].kind = "up" /\ ConnectedUp
  BY <1>2, <1>4, <1>6, ConnectedUpMoves
<1>7. CASE ~ignored /\ batch[1].kind = "down" /\ ConnectedDown
  BY <1>2, <1>4, <1>7, ConnectedDownMoves
<1>8. CASE ~ignored /\ batch[1].kind = "access" /\ AccessChanged
  <2>1. Moved(0)
    <3>1. CASE link.up
      <4>1. RightsChanged(channel)
        BY <1>8, <3>1 DEF AccessChanged
      <4> QED BY <1>1, <1>2, <1>8, <3>1, <4>1, RightsMove DEF Types, Attached
    <3>2. CASE ~link.up
      <4>1. UNCHANGED channel /\ TellNothing
        BY <1>8, <3>2 DEF AccessChanged
      <4> QED BY <1>2, <4>1, StillMoved DEF TellNothing
    <3> QED BY <3>1, <3>2
  <2> QED BY <1>4, <1>8, <2>1
<1>9. CASE ~ignored /\ batch[1].kind = "update" /\ Updated(batch[1])
  <2>1. batch[1].number \in Nat /\ Moved(batch[1].number)
    BY <1>2, <1>9, UpdatedMoves
  <2> QED BY <1>2, <1>9, <2>1, TailBatch DEF Moved
<1> QED BY <1>3, <1>5, <1>6, <1>7, <1>8, <1>9 DEF Dispatch

(* The end of a poll.                                                      *)
LEMMA RecheckKeeps ==
  ASSUME PromiseInv, Recheck
  PROVE  PromiseInv' /\ Told
<1>1. Types /\ Marks /\ Attached
  BY DEF PromiseInv
<1>2. batch = <<>> /\ UNCHANGED <<batch, link, posted>>
  BY DEF Recheck, network
<1>3. Moved(0)
  <2>1. CASE channel.recheck /\ ~channel.cancelled /\ link.up
    <3>1. RightsChanged(channel)
      BY <2>1 DEF Recheck
    <3> QED BY <1>1, <1>2, <2>1, <3>1, RightsMove DEF Types, Attached
  <2>2. CASE ~(channel.recheck /\ ~channel.cancelled /\ link.up)
    <3>1. channel' = [channel EXCEPT !.recheck = FALSE] /\ TellNothing
      BY <2>2 DEF Recheck
    <3>2. /\ channel' \in Channels /\ channel'.epoch = channel.epoch
          /\ channel'.alarm = channel.alarm /\ channel'.cancelled = channel.cancelled
          /\ channel'.subscribed = channel.subscribed /\ channel'.last = channel.last
      BY <1>1, <3>1 DEF Types, Channels
    <3>3. Told /\ seen' = seen /\ gap' = gap
      BY <1>2, <3>1, <3>2, NothingTold DEF Watching
    <3>4. \A m \in Nat : Fresh(m) => m > gap /\ m > seen /\ m > channel.last
      BY DEF Fresh
    <3> QED BY <1>1, <1>2, <3>2, <3>3, <3>4 DEF Moved, Types, Marks, Attached
  <2> QED BY <2>1, <2>2
<1> QED BY <1>2, <1>3, SameBatch DEF Moved

LEMMA DeadlineKeeps ==
  ASSUME PromiseInv, Deadline
  PROVE  PromiseInv' /\ Told
<1>1. Types /\ Marks /\ Attached
  BY DEF PromiseInv
<1>2. phase = "recheck" /\ phase' = "idle" /\ UNCHANGED <<batch, link, posted>>
  BY DEF Deadline, network
<1>3. Moved(0)
  <2>1. CASE UNCHANGED channel /\ TellNothing
    BY <1>2, <2>1, StillMoved DEF TellNothing
  <2>2. CASE /\ channel.deadline /\ ~channel.cancelled
             /\ channel' = [channel EXCEPT !.deadline = FALSE]
             /\ IF link.up THEN TellNothing
                ELSE IF channel.alarm THEN TellOutage ELSE TellNothing
    <3>1. /\ channel' \in Channels /\ channel'.epoch = channel.epoch
          /\ channel'.alarm = channel.alarm /\ channel'.cancelled = channel.cancelled
          /\ channel'.subscribed = channel.subscribed /\ channel'.last = channel.last
      BY <1>1, <2>2 DEF Types, Channels
    <3>2. Watching' = Watching /\ (channel.alarm => Watching)
      BY <2>2, <3>1 DEF Watching
    <3>3. \A m \in Nat : Fresh(m) => m > gap /\ m > seen /\ m > channel.last
      BY DEF Fresh
    <3>4. CASE TellNothing
      BY <1>1, <1>2, <3>1, <3>2, <3>3, <3>4, NothingTold DEF Moved, Types, Marks, Attached
    <3>5. CASE TellOutage /\ ~link.up /\ channel.alarm
      <4>1. batch = <<>> /\ Len(batch) = 0
        BY <1>1, <1>2 DEF Attached
      <4>2. channel.last = 0
        BY <1>1, <3>5, <4>1 DEF Attached
      <4> QED BY <1>1, <1>2, <3>1, <3>2, <3>3, <3>5, <4>2, OutageTold
              DEF Moved, Types, Marks, Attached
    <3> QED BY <2>2, <3>4, <3>5
  <2> QED BY <2>1, <2>2 DEF Deadline
<1> QED BY <1>2, <1>3, SameBatch DEF Moved

(* The calls of the engine.                                                *)
LEMMA MonitorKeeps ==
  ASSUME PromiseInv, Monitor
  PROVE  PromiseInv' /\ Told
<1>1. Types /\ Marks /\ Attached /\ Queued /\ Ordered
  BY DEF PromiseInv
<1>2. /\ channel.alarm /\ channel' = Subscribe(Added(channel))
      /\ UNCHANGED <<batch, link, phase, posted, told, seen, gap>>
  BY DEF Monitor, network, TellNothing
<1>3. /\ channel' \in Channels /\ channel'.epoch = channel.epoch
      /\ channel'.alarm /\ ~channel'.cancelled
      /\ channel'.last = channel.last
      /\ channel.subscribed => channel'.subscribed
  BY <1>1, <1>2 DEF Types, Channels, Subscribe, Connectable, Added
<1>4. Types' /\ Marks' /\ Attached'
  BY <1>1, <1>2, <1>3 DEF Types, Marks, Attached
<1>5. Queued' /\ Ordered'
  BY <1>1, <1>2, <1>3 DEF Queued, Ordered, IsUpdate, Fresh
<1>6. Promise!Start
  BY <1>2, <1>3 DEF Promise!Start, Watching
<1> QED BY <1>4, <1>5, <1>6 DEF PromiseInv, Told, Promise!Next

(* No event that is queued belongs to the subscription after a cancel.     *)
LEMMA CancelKeeps ==
  ASSUME PromiseInv, Cancel
  PROVE  PromiseInv' /\ Told
<1>1. Types /\ Marks /\ Attached /\ Queued /\ Ordered
  BY DEF PromiseInv
<1>2. /\ channel' = Cancelled(channel) /\ told' = Nothing /\ gap' = posted
      /\ UNCHANGED <<batch, link, phase, posted, seen>>
  BY DEF Cancel, network
<1>3. /\ channel' \in Channels
      /\ channel'.epoch = IF channel.subscribed THEN channel.epoch + 1 ELSE channel.epoch
      /\ channel'.cancelled /\ channel'.last = 0 /\ ~channel'.subscribed
  <2>1. (IF channel.subscribed THEN channel.epoch + 1 ELSE channel.epoch) \in Nat
    BY <1>1 DEF Types, Channels
  <2> DEFINE e == IF channel.subscribed THEN channel.epoch + 1 ELSE channel.epoch
  <2>2. channel' = [channel EXCEPT !.cancelled = TRUE, !.recheck = FALSE, !.last = 0,
                                   !.subscribed = FALSE, !.epoch = e]
    BY <1>2 DEF Cancelled
  <2>3. e \in Nat /\ e = IF channel.subscribed THEN channel.epoch + 1 ELSE channel.epoch
    BY <2>1
  <2> HIDE DEF e
  <2> QED BY <1>1, <2>2, <2>3 DEF Types, Channels
<1>4. Types' /\ Marks' /\ Attached'
  BY <1>1, <1>2, <1>3 DEF Types, Marks, Attached
<1>5. Queued'
  <2> SUFFICES ASSUME NEW i \in 1..Len(batch), IsUpdate(i)
               PROVE  /\ batch[i].epoch <= channel'.epoch /\ batch[i].number <= posted
                      /\ batch[i].epoch # channel'.epoch
    BY <1>2 DEF Queued, IsUpdate
  <2>1. batch[i].epoch \in Nat /\ channel.epoch \in Nat
    BY <1>1 DEF IsUpdate, Types, Callbacks, Updates, Channels
  <2> QED BY <1>1, <1>3, <2>1 DEF Queued
<1>6. Ordered'
  BY <1>1, <1>2 DEF Ordered, IsUpdate
<1>7. Promise!Stop
  BY <1>2, <1>3 DEF Promise!Stop, Watching, Nothing, Promise!Nothing
<1> QED BY <1>4, <1>5, <1>6, <1>7 DEF PromiseInv, Told, Promise!Next

LEMMA StepKept ==
  ASSUME PromiseInv, [Next]_vars
  PROVE  PromiseInv' /\ Told
<1>1. Attached
  BY DEF PromiseInv
<1>2. ASSUME UNCHANGED <<channel, posted, told, seen, gap, batch, link>>,
             phase' # "recheck" \/ UNCHANGED phase
      PROVE  PromiseInv' /\ Told
  <2>1. Moved(0)
    BY <1>2, StillMoved
  <2> QED BY <1>1, <1>2, <2>1, SameBatch DEF Moved, Attached
<1>3. CASE Poll \/ EndNetwork
  BY <1>2, <1>3 DEF Poll, EndNetwork, network
<1>4. CASE WriteSeverity
  BY <1>2, <1>4 DEF WriteSeverity, network, TellNothing
<1>5. CASE UNCHANGED vars
  BY <1>2, <1>5 DEF vars
<1> QED BY <1>3, <1>4, <1>5, NetworkKeeps, DispatchKeeps, RecheckKeeps, DeadlineKeeps,
           MonitorKeeps, CancelKeeps DEF Next

(* For every sequence of callbacks, polls, cancellations and losses, the   *)
(* adapter tells the engine as PvService promises: in order, nothing       *)
(* queued before a cancellation, nothing twice across a loss.              *)
THEOREM AdapterKeepsPromise == Spec => CaImplementsService
<1>1. Init => PromiseInv /\ Promise!Init
  BY InitKept
<1>2. PromiseInv /\ [Next]_vars => PromiseInv' /\ [Promise!Next]_Promise!vars
  BY StepKept DEF Told
<1> QED BY <1>1, <1>2, PTL DEF Spec, CaImplementsService, Promise!Spec
-----------------------------------------------------------------------------
(***************************************************************************)
(* Neither direction of a channel is left behind.  What the engine was not *)
(* told yet is on its way: a callback that is queued, an event that CA     *)
(* owes, a check of access or a deadline.                                  *)
(***************************************************************************)
Later(i, kind) == \E j \in 1..Len(batch) : j > i /\ batch[j].kind = kind

Has(kind) == \E i \in 1..Len(batch) : batch[i].kind = kind

Announced == Has("up") \/ Has("access")

(* An event of this subscription, and the newest of them.                  *)
IsEvent(i) == IsUpdate(i) /\ batch[i].epoch = channel.epoch

IsNewest(i) == IsEvent(i) /\ \A j \in 1..Len(batch) : j > i => ~IsEvent(j)

NoEvent == \A i \in 1..Len(batch) : ~IsEvent(i)

(* The subscription can deliver, and CA owes it nothing.                   *)
Renewed == channel.subscribed /\ link.up /\ ~owed

Live == Renewed /\ link.read

Crossing ==
  \A i \in 1..Len(batch) :
    /\ batch[i].kind = "up" /\ ~link.up => Later(i, "down")
    /\ batch[i].kind = "down" /\ link.up => Later(i, "up")

LossKnown == Watching /\ ~link.up => told = Outage \/ channel.deadline \/ Has("down")

SecrecyKnown ==
  Watching /\ link.up /\ ~link.read => told = Outage \/ channel.recheck \/ Announced

DenialKnown ==
  Watching /\ link.up /\ link.read /\ MissesWrite =>
    told = Denied \/ channel.recheck \/ Announced

SubscribedSoon == Watching /\ link.up /\ ~channel.subscribed => Has("up")

(* What the newest event reports is the state of the monitor.              *)
NewestQueued ==
  Live => \A i \in 1..Len(batch) : IsNewest(i) =>
    /\ batch[i].good = ~failed
    /\ batch[i].good => batch[i].number = posted /\ posted # 0

(* The event that CA sent after a loss is queued behind it.                *)
RenewedLater ==
  Renewed => \A i \in 1..Len(batch) : batch[i].kind = "down" =>
    \E j \in 1..Len(batch) : j > i /\ IsEvent(j)

(* The newest event was dispatched: the alarm is kept and told, or was     *)
(* denied, until write access is announced.                                *)
NewestShown ==
  Live /\ NoEvent =>
    IF failed THEN told \in {Outage, Denied} /\ channel.last = 0
    ELSE /\ channel.last = posted /\ posted # 0
         /\ MissesWrite \/ told = Value(posted) \/ channel.recheck \/ Announced

Outputs ==
  /\ ~link.up => ~link.write
  /\ channel.cancelled => channel.alarm
  /\ pending = 0 => sent = wanted
  /\ pending # 0 => pending = wanted
  /\ ~channel.alarm /\ pending # 0 => putFailed \/ ~link.write \/ Announced

Emptied == phase \in {"recheck", "idle"} => batch = <<>>

Flow ==
  /\ Crossing /\ LossKnown /\ SecrecyKnown /\ DenialKnown /\ SubscribedSoon
  /\ NewestQueued /\ RenewedLater /\ NewestShown /\ Outputs /\ Emptied

SettleInv == PromiseInv /\ Flow

LEMMA SettleInit == Init => SettleInv
<1> SUFFICES ASSUME Init PROVE SettleInv
  OBVIOUS
<1>1. PromiseInv
  BY InitKept
<1>2. batch = <<>> /\ Len(batch) = 0
  BY DEF Init
<1>3. ~link.up /\ ~link.write /\ channel.deadline /\ ~channel.subscribed
      /\ ~channel.cancelled
  BY DEF Init, Offline
<1>4. Crossing /\ NewestQueued /\ RenewedLater /\ Emptied
  BY <1>2, <1>3 DEF Crossing, NewestQueued, RenewedLater, Emptied, Renewed, Live
<1>5. LossKnown /\ SecrecyKnown /\ DenialKnown /\ SubscribedSoon /\ NewestShown
  BY <1>3 DEF LossKnown, SecrecyKnown, DenialKnown, SubscribedSoon, NewestShown, Live, Renewed
<1>6. Outputs
  BY <1>3 DEF Outputs, Init
<1> QED BY <1>1, <1>4, <1>5, <1>6 DEF SettleInv, Flow

(* A settled channel has nothing queued.                                   *)
LEMMA SettledChannel == SettleInv => ChannelSettles
<1> SUFFICES ASSUME SettleInv PROVE ChannelSettles
  OBVIOUS
<1>1. Flow /\ Types /\ Attached
  BY DEF SettleInv, PromiseInv
<1>2. SeveritySettles
  <2>1. ASSUME ~channel.alarm, Settled, pending # 0
        PROVE  putFailed \/ ~link.write
    <3>1. batch = <<>> /\ Len(batch) = 0
      BY <1>1, <2>1 DEF Flow, Emptied, Settled
    <3> QED BY <1>1, <2>1, <3>1 DEF Flow, Outputs, Announced, Has
  <2> QED BY <1>1, <2>1 DEF SeveritySettles, NothingWaits, Flow, Outputs
<1>3. ViewSettles
  <2> SUFFICES ASSUME Settled, Watching
               PROVE  IF ~(link.up /\ link.read) THEN told = Outage
                      ELSE IF failed THEN told \in {Outage, Denied}
                      ELSE told = IF MissesWrite THEN Denied ELSE Value(posted)
    BY DEF ViewSettles
  <2>1. batch = <<>> /\ Len(batch) = 0
    BY <1>1 DEF Flow, Emptied, Settled
  <2>2. ~Announced /\ ~Has("down") /\ ~Has("up") /\ NoEvent
    BY <2>1 DEF Announced, Has, NoEvent
  <2>3. ~channel.deadline /\ ~channel.recheck /\ ~owed
    BY DEF Settled, Watching
  <2>4. CASE ~link.up
    BY <1>1, <2>2, <2>3, <2>4 DEF Flow, LossKnown
  <2>5. CASE link.up /\ ~link.read
    BY <1>1, <2>2, <2>3, <2>5 DEF Flow, SecrecyKnown
  <2>6. CASE link.up /\ link.read
    <3>1. Live
      BY <1>1, <2>2, <2>3, <2>6 DEF Flow, SubscribedSoon, Live, Renewed
    <3>2. MissesWrite => told = Denied
      BY <1>1, <2>2, <2>3, <2>6 DEF Flow, DenialKnown
    <3> QED BY <1>1, <2>2, <2>3, <2>6, <3>1, <3>2 DEF Flow, NewestShown
  <2> QED BY <2>4, <2>5, <2>6
<1> QED BY <1>2, <1>3 DEF ChannelSettles
(* What one more callback leaves, and the first one takes away.            *)
LEMMA LongerQueue ==
  ASSUME Types, NEW cb \in Callbacks, batch' = Append(batch, cb), UNCHANGED channel
  PROVE  /\ Len(batch) + 1 \in 1..Len(batch') /\ batch'[Len(batch) + 1] = cb
         /\ \A i \in 1..Len(batch) :
              i \in 1..Len(batch') /\ batch'[i] = batch[i] /\ i < Len(batch) + 1
         /\ \A i \in 1..Len(batch') :
              i \in 1..Len(batch) \/ (i = Len(batch) + 1 /\ batch'[i] = cb)
         /\ \A kind : Has(kind) => Has(kind)'
         /\ Has(cb.kind)'
         /\ NoEvent' => NoEvent
<1>1. /\ Len(batch') = Len(batch) + 1 /\ Len(batch) \in Nat /\ batch'[Len(batch) + 1] = cb
      /\ \A i \in 1..Len(batch) : i \in 1..Len(batch') /\ batch'[i] = batch[i]
  BY DEF Types
<1>2. Len(batch) + 1 \in 1..Len(batch')
  BY <1>1
<1>3. \A kind : Has(kind) => Has(kind)'
  BY <1>1 DEF Has
<1>4. Has(cb.kind)'
  BY <1>1, <1>2 DEF Has
<1>5. NoEvent' => NoEvent
  BY <1>1 DEF NoEvent, IsEvent, IsUpdate
<1>6. \A i \in 1..Len(batch') : i \in 1..Len(batch) \/ (i = Len(batch) + 1 /\ batch'[i] = cb)
  BY <1>1
<1> QED BY <1>1, <1>2, <1>3, <1>4, <1>5, <1>6

LEMMA ShorterQueue ==
  ASSUME Types, batch # <<>>, batch' = Tail(batch), channel'.epoch = channel.epoch
  PROVE  /\ \A i \in 1..Len(batch') : i + 1 \in 1..Len(batch) /\ batch'[i] = batch[i + 1]
         /\ \A i \in 1..Len(batch) :
              i \in Nat /\ (i # 1 => i > 1 /\ i - 1 \in 1..Len(batch') /\ batch'[i - 1] = batch[i])
         /\ 1 \in 1..Len(batch)
         /\ \A kind : Has(kind) => batch[1].kind = kind \/ Has(kind)'
         /\ Later(1, "up") => Has("up")'
         /\ Later(1, "down") => Has("down")'
         /\ NoEvent' => \A i \in 1..Len(batch) : IsEvent(i) => i = 1
<1>1. /\ Len(batch) \in Nat /\ Len(batch) > 0 /\ Len(batch') = Len(batch) - 1
      /\ \A i \in 1..Len(batch') : i + 1 \in 1..Len(batch) /\ batch'[i] = batch[i + 1]
  BY DEF Types
<1>2. ASSUME NEW i \in 1..Len(batch), i # 1
      PROVE  i > 1 /\ i - 1 \in 1..Len(batch') /\ batch'[i - 1] = batch[i]
  <2>1. i - 1 \in 1..Len(batch') /\ (i - 1) + 1 = i /\ i > 1
    BY <1>1, <1>2
  <2> QED BY <1>1, <2>1
<1>3. \A kind : Has(kind) => batch[1].kind = kind \/ Has(kind)'
  BY <1>2 DEF Has
<1>4. ASSUME NEW kind, Later(1, kind) PROVE Has(kind)'
  <2>1. PICK j \in 1..Len(batch) : j > 1 /\ batch[j].kind = kind
    BY <1>4 DEF Later
  <2>2. j # 1
    BY <2>1
  <2> QED BY <1>2, <2>1, <2>2 DEF Has
<1>5. NoEvent' => \A i \in 1..Len(batch) : IsEvent(i) => i = 1
  BY <1>2 DEF NoEvent, IsEvent, IsUpdate
<1> QED BY <1>1, <1>2, <1>3, <1>4, <1>5

(* libca and the IOC: what they change is announced.                       *)
LEMMA LinkFlow ==
  ASSUME SettleInv, LinkUp \/ LinkDown \/ Rights
  PROVE  Flow'
<1>1. Types /\ Attached /\ Flow
  BY DEF SettleInv, PromiseInv
<1>2. /\ UNCHANGED <<channel, told, pending, wanted, sent, putFailed, posted, failed>>
      /\ phase' = "network"
  BY DEF LinkUp, LinkDown, Rights, InPoll, outputs
<1>3. PICK cb \in Callbacks :
        /\ batch' = Append(batch, cb)
        /\ \/ /\ cb.kind = "up" /\ ~link.up /\ link'.up /\ owed' = channel.subscribed
           \/ /\ cb.kind = "down" /\ link.up /\ ~owed'
              /\ ~link'.up /\ ~link'.read /\ ~link'.write
           \/ /\ cb.kind = "access" /\ link.up /\ link'.up
              /\ owed' = (owed \/ (channel.subscribed /\ link'.read # link.read))
  <2>1. \A k \in {"up", "down", "access"} : [kind |-> k] \in Callbacks
    BY DEF Callbacks
  <2>2. CASE LinkUp
    <3>1. batch' = Append(batch, [kind |-> "up"])
      BY <2>2 DEF LinkUp, Queue
    <3>2. link'.up /\ ~link.up /\ owed' = channel.subscribed
      BY <2>2 DEF LinkUp
    <3> QED BY <2>1, <3>1, <3>2
  <2>3. CASE LinkDown
    <3>1. batch' = Append(batch, [kind |-> "down"])
      BY <2>3 DEF LinkDown, Queue
    <3>2. link.up /\ ~link'.up /\ ~link'.read /\ ~link'.write /\ ~owed'
      BY <2>3 DEF LinkDown, Offline
    <3> QED BY <2>1, <3>1, <3>2
  <2>4. CASE Rights
    <3>1. batch' = Append(batch, [kind |-> "access"])
      BY <2>4 DEF Rights, Queue
    <3>2. PICK r, w \in BOOLEAN : /\ link' = [link EXCEPT !.read = r, !.write = w]
                                  /\ owed' = (owed \/ (channel.subscribed /\ r # link.read))
      BY <2>4 DEF Rights
    <3>3. link.up /\ link'.up /\ link'.read = r
      BY <1>1, <2>4, <3>2 DEF Rights, Types
    <3> QED BY <2>1, <3>1, <3>2, <3>3
  <2> QED BY <2>2, <2>3, <2>4
<1>4. cb.kind # "update"
  BY <1>3
<1>5. /\ Len(batch) + 1 \in 1..Len(batch') /\ batch'[Len(batch) + 1] = cb
      /\ \A i \in 1..Len(batch) :
           i \in 1..Len(batch') /\ batch'[i] = batch[i] /\ i < Len(batch) + 1
      /\ \A i \in 1..Len(batch') :
           i \in 1..Len(batch) \/ (i = Len(batch) + 1 /\ batch'[i] = cb)
      /\ \A kind : Has(kind) => Has(kind)'
      /\ Has(cb.kind)'
      /\ NoEvent' => NoEvent
  BY <1>1, <1>2, <1>3, LongerQueue
<1>6. /\ Announced => Announced'
      /\ cb.kind \in {"up", "access"} => Announced'
  BY <1>5 DEF Announced
<1>7. Watching' = Watching /\ (MissesWrite' <=> NeedsWrite /\ ~link'.write)
  BY <1>2 DEF Watching, MissesWrite
<1>8. Crossing'
  <2> SUFFICES ASSUME NEW i \in 1..Len(batch')
               PROVE  /\ batch'[i].kind = "up" /\ ~link'.up => Later(i, "down")'
                      /\ batch'[i].kind = "down" /\ link'.up => Later(i, "up")'
    BY DEF Crossing, Later
  <2>1. ASSUME NEW kind, i \in 1..Len(batch), Later(i, kind) \/ cb.kind = kind PROVE Later(i, kind)'
    BY <1>5, <2>1 DEF Later
  <2>2. CASE i \in 1..Len(batch)
    <3>1. batch'[i] = batch[i]
      BY <1>5, <2>2
    <3> QED BY <1>1, <1>3, <2>1, <2>2, <3>1 DEF Flow, Crossing
  <2>3. CASE batch'[i] = cb
    BY <1>3, <2>3
  <2> QED BY <1>5, <2>2, <2>3
<1>9. Live' => Live
  BY <1>2, <1>3 DEF Live, Renewed
<1>10. Renewed' => Renewed /\ cb.kind = "access"
  BY <1>2, <1>3 DEF Renewed
<1>11. LossKnown' /\ SecrecyKnown' /\ DenialKnown' /\ SubscribedSoon'
  BY <1>1, <1>2, <1>3, <1>5, <1>6, <1>7
     DEF Flow, LossKnown, SecrecyKnown, DenialKnown, SubscribedSoon
<1>12. \A i \in 1..Len(batch') : IsEvent(i)' => i \in 1..Len(batch) /\ IsEvent(i)
  BY <1>2, <1>4, <1>5 DEF IsEvent, IsUpdate
<1>13. \A i \in 1..Len(batch) : IsEvent(i) => IsEvent(i)'
  BY <1>2, <1>5 DEF IsEvent, IsUpdate
<1>14. NewestQueued'
  <2> SUFFICES ASSUME Live', NEW i \in 1..Len(batch'), IsNewest(i)'
               PROVE  /\ batch'[i].good = ~failed'
                      /\ batch'[i].good => batch'[i].number = posted' /\ posted' # 0
    BY DEF NewestQueued
  <2>1. i \in 1..Len(batch) /\ IsEvent(i) /\ batch'[i] = batch[i]
    BY <1>5, <1>12 DEF IsNewest
  <2>2. IsNewest(i)
    BY <1>5, <1>13, <2>1 DEF IsNewest
  <2> QED BY <1>1, <1>2, <1>9, <2>1, <2>2 DEF Flow, NewestQueued
<1>15. RenewedLater'
  <2> SUFFICES ASSUME Renewed', NEW i \in 1..Len(batch'), batch'[i].kind = "down"
               PROVE  \E j \in 1..Len(batch') : j > i /\ IsEvent(j)'
    BY DEF RenewedLater
  <2>1. i \in 1..Len(batch) /\ batch[i].kind = "down"
    BY <1>5, <1>10
  <2>2. PICK j \in 1..Len(batch) : j > i /\ IsEvent(j)
    BY <1>1, <1>10, <2>1 DEF Flow, RenewedLater
  <2> QED BY <1>5, <1>13, <2>2
<1>16. NewestShown'
  <2> SUFFICES ASSUME Live', NoEvent'
               PROVE  NewestShown'
    BY DEF NewestShown
  <2>1. Live /\ NoEvent /\ Announced'
    BY <1>5, <1>6, <1>9, <1>10 DEF Live
  <2> QED BY <1>1, <1>2, <2>1 DEF Flow, NewestShown
<1>17. Outputs'
  BY <1>1, <1>2, <1>3, <1>6 DEF Flow, Outputs, Attached
<1>18. Emptied'
  BY <1>2 DEF Emptied
<1> QED BY <1>8, <1>11, <1>14, <1>15, <1>16, <1>17, <1>18 DEF Flow

(* An event is queued: the newest.                                         *)
LEMMA UpdateFlow ==
  ASSUME SettleInv, Update
  PROVE  Flow'
<1>1. Types /\ Attached /\ Flow
  BY DEF SettleInv, PromiseInv
<1>2. /\ UNCHANGED <<link, channel, told, pending, wanted, sent, putFailed>>
      /\ phase' = "network" /\ ~owed' /\ channel.subscribed
  BY DEF Update, InPoll, outputs
<1>3. PICK cb \in Callbacks :
        /\ batch' = Append(batch, cb)
        /\ cb.kind = "update" /\ cb.epoch = channel.epoch
        /\ failed' = ~cb.good
        /\ cb.good => cb.number = posted' /\ posted' # 0
  <2>1. PICK good \in BOOLEAN :
          /\ posted' = IF good THEN posted + 1 ELSE posted
          /\ failed' = ~good
          /\ batch' = Append(batch, [kind |-> "update", epoch |-> channel.epoch,
                                     good |-> good, number |-> posted'])
    BY DEF Update, Queue
  <2>2. posted' \in Nat /\ (good => posted' # 0)
    BY <1>1, <2>1 DEF Types
  <2>3. [kind |-> "update", epoch |-> channel.epoch, good |-> good, number |-> posted'] \in Callbacks
    BY <1>1, <2>2 DEF Callbacks, Updates, Types, Channels
  <2> QED BY <2>1, <2>2, <2>3
<1>4. /\ Len(batch) + 1 \in 1..Len(batch') /\ batch'[Len(batch) + 1] = cb
      /\ \A i \in 1..Len(batch) :
           i \in 1..Len(batch') /\ batch'[i] = batch[i] /\ i < Len(batch) + 1
      /\ \A i \in 1..Len(batch') :
           i \in 1..Len(batch) \/ (i = Len(batch) + 1 /\ batch'[i] = cb)
      /\ \A kind : Has(kind) => Has(kind)'
  BY <1>1, <1>2, <1>3, LongerQueue
<1>5. PICK k \in 1..Len(batch') :
        /\ batch'[k] = cb
        /\ \A i \in 1..Len(batch) : i < k
        /\ \A i \in 1..Len(batch') : i \in 1..Len(batch) \/ i = k
  BY <1>4
<1>6. Announced => Announced'
  BY <1>4 DEF Announced
<1>7. Watching' = Watching /\ MissesWrite' = MissesWrite
  BY <1>2 DEF Watching, MissesWrite
<1>8. Crossing'
  <2> SUFFICES ASSUME NEW i \in 1..Len(batch')
               PROVE  /\ batch'[i].kind = "up" /\ ~link'.up => Later(i, "down")'
                      /\ batch'[i].kind = "down" /\ link'.up => Later(i, "up")'
    BY DEF Crossing, Later
  <2>1. ASSUME NEW kind, i \in 1..Len(batch), Later(i, kind) PROVE Later(i, kind)'
    BY <1>4, <2>1 DEF Later
  <2>2. CASE i \in 1..Len(batch)
    <3>1. batch'[i] = batch[i]
      BY <1>4, <2>2
    <3> QED BY <1>1, <1>2, <2>1, <2>2, <3>1 DEF Flow, Crossing
  <2>3. CASE batch'[i] = cb
    BY <1>3, <2>3
  <2> QED BY <1>4, <2>2, <2>3
<1>9. LossKnown' /\ SecrecyKnown' /\ DenialKnown' /\ SubscribedSoon'
  BY <1>1, <1>2, <1>4, <1>6, <1>7
     DEF Flow, LossKnown, SecrecyKnown, DenialKnown, SubscribedSoon
<1>10. IsEvent(k)'
  BY <1>2, <1>3, <1>5 DEF IsEvent, IsUpdate
<1>11. NewestQueued'
  <2>1. ASSUME NEW i \in 1..Len(batch'), IsNewest(i)' PROVE batch'[i] = cb
    <3>1. ~(k > i)
      BY <1>10, <2>1 DEF IsNewest
    <3> QED BY <1>5, <3>1
  <2>2. failed' = ~cb.good /\ cb.good \in BOOLEAN
    BY <1>3 DEF Callbacks, Updates
  <2> QED BY <1>3, <2>1, <2>2 DEF NewestQueued
<1>12. RenewedLater'
  <2> SUFFICES ASSUME NEW i \in 1..Len(batch'), batch'[i].kind = "down"
               PROVE  \E j \in 1..Len(batch') : j > i /\ IsEvent(j)'
    BY DEF RenewedLater
  <2>1. i \in 1..Len(batch)
    BY <1>3, <1>4
  <2> QED BY <1>5, <1>10, <2>1
<1>13. NewestShown'
  BY <1>10 DEF NewestShown, NoEvent
<1>14. Outputs' /\ Emptied'
  BY <1>1, <1>2, <1>6 DEF Flow, Outputs, Emptied
<1> QED BY <1>8, <1>9, <1>11, <1>12, <1>13, <1>14 DEF Flow
-----------------------------------------------------------------------------
(***************************************************************************)
(* The dispatch of the first callback.                                     *)
(***************************************************************************)
(* An event of a subscription that was cancelled changes nothing.          *)
Ignored == batch[1].kind = "update" /\ UNCHANGED <<told, channel>>

(* A severity is kept until it is sent, and a callback that announces      *)
(* write access to a mere output tries it again.                           *)
Kept ==
  /\ pending' = 0 => sent' = wanted'
  /\ pending' # 0 => pending' = wanted'
  /\ \/ channel.alarm \/ pending' = 0 \/ putFailed' \/ ~link.write
     \/ UNCHANGED <<pending, putFailed>> /\ batch[1].kind \notin {"up", "access"}

(* What a callback does to a channel: a loss and a denial are told, and    *)
(* the newest event, or what is kept of it, when it can be.                *)
Heard ==
  /\ phase' = "dispatch" /\ UNCHANGED <<link, posted, failed>>
  /\ channel'.alarm = channel.alarm /\ channel'.cancelled = channel.cancelled
  /\ channel'.epoch = channel.epoch
  /\ Renewed' => Renewed
  /\ Watching /\ link.up /\ (channel.subscribed \/ batch[1].kind = "up") => channel'.subscribed
  /\ Watching /\ ~link.up =>
       \/ told' = Outage
       \/ told' = told /\ batch[1].kind # "down"
          /\ (channel'.deadline = channel.deadline \/ batch[1].kind = "up")
  /\ Watching /\ link.up /\ ~link.read => told' = Outage \/ Ignored
  /\ Watching /\ link.up /\ link.read /\ MissesWrite =>
       told' = Denied \/ Ignored \/ batch[1].kind = "down"
  /\ Live /\ Live' /\ IsEvent(1) =>
       IF batch[1].good
       THEN channel'.last = batch[1].number /\ (MissesWrite \/ told' = Value(batch[1].number))
       ELSE channel'.last = 0 /\ told' \in {Outage, Denied}
  /\ Live /\ Live' /\ ~IsEvent(1) /\ batch[1].kind # "down" =>
       /\ channel'.last = channel.last
       /\ \/ Ignored
          \/ MissesWrite /\ told' = Denied
          \/ ~MissesWrite /\ told' = IF channel.last # 0 THEN Value(channel.last) ELSE told
  /\ Kept

LEMMA TailFlow ==
  ASSUME SettleInv, batch # <<>>, batch' = Tail(batch), Heard
  PROVE  Flow'
<1>1. Types /\ Attached /\ Flow
  BY DEF SettleInv, PromiseInv
<1>2. /\ UNCHANGED <<link, posted, failed>> /\ phase' = "dispatch"
      /\ channel'.alarm = channel.alarm /\ channel'.cancelled = channel.cancelled
      /\ channel'.epoch = channel.epoch
      /\ Renewed' => Renewed
  BY DEF Heard
<1>3. /\ \A i \in 1..Len(batch') : i + 1 \in 1..Len(batch) /\ batch'[i] = batch[i + 1]
      /\ \A i \in 1..Len(batch) :
           i \in Nat /\ (i # 1 => i > 1 /\ i - 1 \in 1..Len(batch') /\ batch'[i - 1] = batch[i])
      /\ 1 \in 1..Len(batch)
      /\ \A kind : Has(kind) => batch[1].kind = kind \/ Has(kind)'
      /\ Later(1, "up") => Has("up")'
      /\ Later(1, "down") => Has("down")'
      /\ NoEvent' => \A i \in 1..Len(batch) : IsEvent(i) => i = 1
  BY <1>1, <1>2, ShorterQueue
<1>4. Watching' = Watching /\ MissesWrite' = MissesWrite /\ (Live' => Live)
  BY <1>2 DEF Watching, MissesWrite, Live
<1>5. /\ batch[1].kind = "up" /\ ~link.up => Has("down")'
      /\ batch[1].kind = "down" /\ link.up => Has("up")'
      /\ Announced => batch[1].kind \in {"up", "access"} \/ Announced'
      /\ Has("up")' => Announced'
  BY <1>1, <1>3 DEF Flow, Crossing, Announced
<1>6. Crossing'
  <2> SUFFICES ASSUME NEW i \in 1..Len(batch')
               PROVE  /\ batch'[i].kind = "up" /\ ~link'.up => Later(i, "down")'
                      /\ batch'[i].kind = "down" /\ link'.up => Later(i, "up")'
    BY DEF Crossing, Later
  <2>1. ASSUME NEW kind, Later(i + 1, kind) PROVE Later(i, kind)'
    <3>1. PICK j \in 1..Len(batch) : j > i + 1 /\ batch[j].kind = kind
      BY <2>1 DEF Later
    <3>2. j # 1 /\ j - 1 > i
      BY <3>1
    <3> QED BY <1>3, <3>1, <3>2 DEF Later
  <2> QED BY <1>1, <1>2, <1>3, <2>1 DEF Flow, Crossing
<1>7. LossKnown'
  <2> SUFFICES ASSUME Watching, ~link.up PROVE told' = Outage \/ channel'.deadline \/ Has("down")'
    BY <1>2, <1>4 DEF LossKnown
  <2> QED BY <1>1, <1>3, <1>5 DEF Heard, Flow, LossKnown
<1>8. SecrecyKnown'
  <2> SUFFICES ASSUME Watching, link.up, ~link.read
               PROVE  told' = Outage \/ channel'.recheck \/ Announced'
    BY <1>2, <1>4 DEF SecrecyKnown
  <2> QED BY <1>1, <1>5 DEF Heard, Flow, SecrecyKnown, Ignored
<1>9. DenialKnown'
  <2> SUFFICES ASSUME Watching, link.up, link.read, MissesWrite
               PROVE  told' = Denied \/ channel'.recheck \/ Announced'
    BY <1>2, <1>4 DEF DenialKnown
  <2> QED BY <1>1, <1>5 DEF Heard, Flow, DenialKnown, Ignored
<1>10. SubscribedSoon'
  BY <1>1, <1>2, <1>3, <1>4 DEF Heard, Flow, SubscribedSoon
<1>11. \A i \in 1..Len(batch') : IsEvent(i)' <=> IsEvent(i + 1)
  BY <1>2, <1>3 DEF IsEvent, IsUpdate
<1>12. NewestQueued'
  <2> SUFFICES ASSUME Live', NEW i \in 1..Len(batch'), IsNewest(i)'
               PROVE  /\ batch'[i].good = ~failed'
                      /\ batch'[i].good => batch'[i].number = posted' /\ posted' # 0
    BY DEF NewestQueued
  <2>1. IsEvent(i + 1)
    BY <1>11 DEF IsNewest
  <2>2. ASSUME NEW j \in 1..Len(batch), j > i + 1 PROVE ~IsEvent(j)
    <3>1. j # 1 /\ j - 1 > i /\ (j - 1) + 1 = j
      BY <2>2
    <3>2. j - 1 \in 1..Len(batch')
      BY <1>3, <3>1
    <3>3. ~IsEvent(j - 1)'
      BY <3>1, <3>2 DEF IsNewest
    <3> QED BY <1>11, <3>1, <3>2, <3>3
  <2>3. IsNewest(i + 1)
    BY <2>1, <2>2 DEF IsNewest
  <2> QED BY <1>1, <1>2, <1>3, <1>4, <2>3 DEF Flow, NewestQueued
<1>13. RenewedLater'
  <2> SUFFICES ASSUME Renewed', NEW i \in 1..Len(batch'), batch'[i].kind = "down"
               PROVE  \E j \in 1..Len(batch') : j > i /\ IsEvent(j)'
    BY DEF RenewedLater
  <2>1. PICK j \in 1..Len(batch) : j > i + 1 /\ IsEvent(j)
    BY <1>1, <1>2, <1>3 DEF Flow, RenewedLater
  <2>2. j # 1 /\ j - 1 > i /\ (j - 1) + 1 = j
    BY <2>1
  <2> QED BY <1>3, <1>11, <2>1, <2>2
<1>14. NewestShown'
  <2> SUFFICES ASSUME Live', NoEvent'
               PROVE  IF failed THEN told' \in {Outage, Denied} /\ channel'.last = 0
                      ELSE /\ channel'.last = posted /\ posted # 0
                           /\ \/ MissesWrite \/ told' = Value(posted)
                              \/ channel'.recheck \/ Announced'
    BY <1>2, <1>4 DEF NewestShown
  <2>1. Live /\ Renewed
    BY <1>4 DEF Live
  <2>2. batch[1].kind # "down"
    <3> SUFFICES ASSUME batch[1].kind = "down" PROVE FALSE
      OBVIOUS
    <3>1. PICK j \in 1..Len(batch) : j > 1 /\ IsEvent(j)
      BY <1>1, <1>3, <2>1 DEF Flow, RenewedLater
    <3> QED BY <1>3, <3>1
  <2>3. CASE IsEvent(1)
    <3>1. IsNewest(1)
      BY <1>3, <2>3 DEF IsNewest
    <3>2. batch[1].good = ~failed /\ (batch[1].good => batch[1].number = posted /\ posted # 0)
      BY <1>1, <1>3, <2>1, <3>1 DEF Flow, NewestQueued
    <3> QED BY <2>1, <2>3, <3>2 DEF Heard
  <2>4. CASE ~IsEvent(1)
    <3>1. NoEvent
      BY <1>3, <2>4 DEF NoEvent
    <3>2. IF failed THEN told \in {Outage, Denied} /\ channel.last = 0
          ELSE /\ channel.last = posted /\ posted # 0
               /\ MissesWrite \/ told = Value(posted) \/ channel.recheck \/ Announced
      BY <1>1, <2>1, <3>1 DEF Flow, NewestShown
    <3> QED BY <1>5, <2>1, <2>2, <2>4, <3>2 DEF Heard, Ignored
  <2> QED BY <2>3, <2>4
<1>15. Outputs'
  <2>1. Kept /\ (~link'.up => ~link'.write) /\ (channel'.cancelled => channel'.alarm)
    BY <1>1, <1>2 DEF Heard, Flow, Outputs
  <2>2. ~channel.alarm /\ pending' # 0 => putFailed' \/ ~link.write \/ Announced'
    BY <1>1, <1>5, <2>1 DEF Kept, Flow, Outputs
  <2> QED BY <1>2, <2>1, <2>2 DEF Kept, Outputs
<1>16. Emptied'
  BY <1>2 DEF Emptied
<1> QED BY <1>6, <1>7, <1>8, <1>9, <1>10, <1>12, <1>13, <1>14, <1>15, <1>16 DEF Flow

(* What a change of access does to a channel ch that may have become       *)
(* subscribed.                                                             *)
LEMMA RightsHeard ==
  ASSUME Flow, link.up, NEW ch \in Channels, RightsChanged(ch), UNCHANGED wanted
  PROVE  /\ channel'.recheck = FALSE
         /\ channel'.last = IF link.read THEN ch.last ELSE 0
         /\ channel'.alarm = ch.alarm /\ channel'.cancelled = ch.cancelled
         /\ channel'.epoch = ch.epoch /\ channel'.subscribed = ch.subscribed
         /\ channel'.deadline = ch.deadline
         /\ ch.alarm /\ ~link.read => told' = Outage
         /\ ch.alarm /\ link.read /\ MissesWrite => told' = Denied
         /\ ch.alarm /\ link.read /\ ~MissesWrite =>
              told' = IF ch.last # 0 THEN Value(ch.last) ELSE told
         /\ pending' = 0 => sent' = wanted'
         /\ pending' # 0 => pending' = wanted'
         /\ pending' = 0 \/ putFailed' \/ ~link.write
<1>1. channel' = [ch EXCEPT !.recheck = FALSE, !.last = IF link.read THEN @ ELSE 0]
  BY DEF RightsChanged
<1>2. /\ channel'.recheck = FALSE
      /\ channel'.last = IF link.read THEN ch.last ELSE 0
      /\ channel'.alarm = ch.alarm /\ channel'.cancelled = ch.cancelled
      /\ channel'.epoch = ch.epoch /\ channel'.subscribed = ch.subscribed
      /\ channel'.deadline = ch.deadline
  BY <1>1 DEF Channels
<1>3. /\ ch.alarm /\ ~link.read => told' = Outage
      /\ ch.alarm /\ link.read /\ MissesWrite => told' = Denied
      /\ ch.alarm /\ link.read /\ ~MissesWrite =>
           told' = IF ch.last # 0 THEN Value(ch.last) ELSE told
  BY DEF RightsChanged, TellOutage, TellDenied, TellValue, TellNothing
<1>4. Replay(ch)
  BY DEF RightsChanged
<1>5. /\ pending' = 0 => sent' = wanted'
      /\ pending' # 0 => pending' = wanted'
      /\ pending' = 0 \/ putFailed' \/ ~link.write
  BY <1>4 DEF Replay, Flow, Outputs
<1> QED BY <1>2, <1>3, <1>5
LEMMA IgnoredHeard ==
  ASSUME SettleInv, batch # <<>>, UNCHANGED <<link, posted, failed, wanted, owed, channel>>,
         phase' = "dispatch", TellNothing, NoReplay,
         channel.cancelled \/ (batch[1].kind = "update" /\ ~Current(batch[1]))
  PROVE  Heard
<1>1. Types /\ Attached /\ Flow
  BY DEF SettleInv, PromiseInv
<1>2. Kept
  BY <1>1 DEF Kept, NoReplay, Flow, Outputs
<1>3. ~Watching \/ (batch[1].kind = "update" /\ ~IsEvent(1))
  BY DEF Watching, IsEvent, Current
<1>4. told' = told /\ (batch[1].kind = "update" => Ignored) /\ (Renewed' => Renewed)
  BY DEF TellNothing, Ignored, Renewed
<1>5. Live => Watching
  BY <1>1 DEF Live, Renewed, Watching, Attached
<1> QED BY <1>1, <1>2, <1>3, <1>4, <1>5 DEF Heard

LEMMA UpHeard ==
  ASSUME SettleInv, batch # <<>>, UNCHANGED <<link, posted, failed, wanted>>,
         phase' = "dispatch", ~channel.cancelled, batch[1].kind = "up", ConnectedUp
  PROVE  Heard
<1>1. Types /\ Attached /\ Flow
  BY DEF SettleInv, PromiseInv
<1> DEFINE ch == Subscribe([channel EXCEPT !.deadline = FALSE])
<1>2. /\ ch \in Channels /\ ch.alarm = channel.alarm /\ ch.cancelled = channel.cancelled
      /\ ch.last = channel.last /\ ch.epoch = channel.epoch
      /\ ch.subscribed = (channel.subscribed \/ Connectable(channel))
  BY <1>1 DEF Types, Channels, Subscribe, Connectable
<1>3. owed' = (owed \/ Connectable(channel))
  BY DEF ConnectedUp
<1>4. Watching <=> channel.alarm
  BY DEF Watching
<1>5. ~IsEvent(1)
  BY DEF IsEvent, IsUpdate
<1>6. CASE link.up
  <2>1. RightsChanged(ch)
    BY <1>6 DEF ConnectedUp
  <2> HIDE DEF ch
  <2>2. /\ channel'.last = IF link.read THEN ch.last ELSE 0
        /\ channel'.alarm = ch.alarm /\ channel'.cancelled = ch.cancelled
        /\ channel'.epoch = ch.epoch /\ channel'.subscribed = ch.subscribed
        /\ ch.alarm /\ ~link.read => told' = Outage
        /\ ch.alarm /\ link.read /\ MissesWrite => told' = Denied
        /\ ch.alarm /\ link.read /\ ~MissesWrite =>
             told' = IF ch.last # 0 THEN Value(ch.last) ELSE told
        /\ pending' = 0 => sent' = wanted'
        /\ pending' # 0 => pending' = wanted'
        /\ pending' = 0 \/ putFailed' \/ ~link.write
    BY <1>1, <1>2, <1>6, <2>1, RightsHeard
  <2>3. Kept
    BY <2>2 DEF Kept
  <2>4. Renewed' => Renewed
    BY <1>2, <1>3, <2>2 DEF Renewed
  <2>5. Watching => channel'.subscribed
    BY <1>2, <1>6, <2>2 DEF Connectable, Watching
  <2>6. Live => channel.alarm
    BY <1>1 DEF Live, Renewed, Attached
  <2>7. Live /\ Live' =>
          /\ channel'.last = channel.last
          /\ \/ MissesWrite /\ told' = Denied
             \/ ~MissesWrite /\ told' = IF channel.last # 0 THEN Value(channel.last) ELSE told
    BY <1>2, <2>2, <2>6 DEF Live
  <2>8. Watching /\ ~link.read => told' = Outage
    BY <1>2, <1>4, <2>2
  <2>9. Watching /\ link.read /\ MissesWrite => told' = Denied
    BY <1>2, <1>4, <2>2
  <2> QED BY <1>2, <1>5, <1>6, <2>2, <2>3, <2>4, <2>5, <2>7, <2>8, <2>9 DEF Heard
<1>7. CASE ~link.up
  <2>1. channel' = ch /\ TellNothing /\ NoReplay
    BY <1>7 DEF ConnectedUp
  <2> HIDE DEF ch
  <2>2. Kept
    BY <1>1, <1>7, <2>1 DEF Kept, NoReplay, Flow, Outputs
  <2>3. ~Live /\ ~Renewed' /\ told' = told
    BY <1>7, <2>1 DEF Live, Renewed, TellNothing
  <2> QED BY <1>2, <1>7, <2>1, <2>2, <2>3 DEF Heard
<1> QED BY <1>6, <1>7

LEMMA DownHeard ==
  ASSUME SettleInv, batch # <<>>, UNCHANGED <<link, posted, failed, wanted>>,
         phase' = "dispatch", ~channel.cancelled, batch[1].kind = "down", ConnectedDown
  PROVE  Heard
<1>1. Types /\ Attached /\ Flow
  BY DEF SettleInv, PromiseInv
<1>2. /\ channel'.epoch = channel.epoch
      /\ channel'.alarm = channel.alarm /\ channel'.cancelled = channel.cancelled
      /\ channel'.subscribed = channel.subscribed /\ UNCHANGED owed
  BY <1>1 DEF ConnectedDown, Types, Channels
<1>3. Kept
  BY <1>1 DEF ConnectedDown, Kept, NoReplay, Flow, Outputs
<1>4. Watching => told' = Outage
  BY DEF Watching, ConnectedDown, TellOutage
<1>5. ~IsEvent(1) /\ (Renewed' => Renewed)
  BY <1>2 DEF IsEvent, IsUpdate, Renewed
<1> QED BY <1>2, <1>3, <1>4, <1>5 DEF Heard

LEMMA AccessHeard ==
  ASSUME SettleInv, batch # <<>>, UNCHANGED <<link, posted, failed, wanted>>,
         phase' = "dispatch", ~channel.cancelled, batch[1].kind = "access", AccessChanged
  PROVE  Heard
<1>1. Types /\ Attached /\ Flow /\ channel \in Channels
  BY DEF SettleInv, PromiseInv, Types
<1>2. (Watching <=> channel.alarm) /\ ~IsEvent(1) /\ UNCHANGED owed
  BY DEF Watching, IsEvent, IsUpdate, AccessChanged
<1>3. CASE link.up
  <2>1. RightsChanged(channel)
    BY <1>3 DEF AccessChanged
  <2>2. /\ channel'.last = IF link.read THEN channel.last ELSE 0
        /\ channel'.alarm = channel.alarm /\ channel'.cancelled = channel.cancelled
        /\ channel'.epoch = channel.epoch /\ channel'.subscribed = channel.subscribed
        /\ channel.alarm /\ ~link.read => told' = Outage
        /\ channel.alarm /\ link.read /\ MissesWrite => told' = Denied
        /\ channel.alarm /\ link.read /\ ~MissesWrite =>
             told' = IF channel.last # 0 THEN Value(channel.last) ELSE told
        /\ pending' = 0 => sent' = wanted'
        /\ pending' # 0 => pending' = wanted'
        /\ pending' = 0 \/ putFailed' \/ ~link.write
    BY <1>1, <1>3, <2>1, RightsHeard
  <2>3. Kept
    BY <2>2 DEF Kept
  <2>4. (Renewed' => Renewed) /\ (Live => link.read /\ channel.alarm)
    BY <1>1, <1>2, <2>2 DEF Renewed, Live, Attached
  <2> QED BY <1>2, <1>3, <2>2, <2>3, <2>4 DEF Heard
<1>4. CASE ~link.up
  <2>1. UNCHANGED <<channel, told>> /\ NoReplay
    BY <1>4 DEF AccessChanged, TellNothing
  <2>2. Kept
    BY <1>1, <1>4, <2>1 DEF Kept, NoReplay, Flow, Outputs
  <2>3. ~Live /\ ~Renewed'
    BY <1>4 DEF Live, Renewed
  <2> QED BY <1>1, <1>4, <2>1, <2>2, <2>3 DEF Heard
<1> QED BY <1>3, <1>4

LEMMA EventHeard ==
  ASSUME SettleInv, batch # <<>>, UNCHANGED <<link, posted, failed, wanted>>,
         phase' = "dispatch", ~channel.cancelled, batch[1].kind = "update",
         Current(batch[1]), Updated(batch[1])
  PROVE  Heard
<1>1. Types /\ Attached /\ Flow /\ Queued
  BY DEF SettleInv, PromiseInv
<1>2. 1 \in 1..Len(batch) /\ IsEvent(1)
  BY <1>1 DEF Types, IsUpdate, IsEvent, Current
<1>3. channel.subscribed /\ channel.alarm /\ Watching
  BY <1>1, <1>2 DEF Queued, IsEvent, Attached, Watching
<1>4. /\ channel'.epoch = channel.epoch
      /\ channel'.alarm = channel.alarm /\ channel'.cancelled = channel.cancelled
      /\ channel'.subscribed = channel.subscribed /\ channel'.deadline = channel.deadline
      /\ channel'.last = IF batch[1].good /\ link.read THEN batch[1].number ELSE 0
  <2>1. CASE ~batch[1].good
    <3>1. channel' = [channel EXCEPT !.last = 0]
      BY <2>1 DEF Updated
    <3> QED BY <1>1, <2>1, <3>1 DEF Types, Channels
  <2>2. CASE batch[1].good
    <3>1. channel' = [channel EXCEPT !.recheck = FALSE,
                                     !.last = IF link.read THEN batch[1].number ELSE 0]
      BY <2>2 DEF Updated
    <3> QED BY <1>1, <2>2, <3>1 DEF Types, Channels
  <2> QED BY <2>1, <2>2
<1>5. /\ ~batch[1].good =>
           told' = IF link.up /\ link.read /\ MissesWrite THEN Denied ELSE Outage
      /\ batch[1].good =>
           told' = IF ~link.read THEN Outage
                   ELSE IF MissesWrite THEN Denied ELSE Value(batch[1].number)
  BY DEF Updated, TellOutage, TellDenied, TellValue
<1>6. Kept /\ UNCHANGED owed
  BY <1>1, <1>3 DEF Updated, Kept, NoReplay, Flow, Outputs
<1>7. (~link.up => ~link.read) /\ (Renewed' => Renewed) /\ (Live => link.up /\ link.read)
  BY <1>1, <1>4, <1>6 DEF Attached, Renewed, Live
<1> QED BY <1>2, <1>3, <1>4, <1>5, <1>6, <1>7 DEF Heard

LEMMA DispatchFlow ==
  ASSUME SettleInv, Dispatch
  PROVE  Flow'
<1>1. Types
  BY DEF SettleInv, PromiseInv
<1>2. /\ batch # <<>> /\ batch' = Tail(batch) /\ phase' = "dispatch"
      /\ UNCHANGED <<link, posted, failed, wanted>>
  BY DEF Dispatch, network
<1>3. Head(batch) = batch[1]
  BY <1>1, <1>2 DEF Types
<1> DEFINE ignored == channel.cancelled \/ (batch[1].kind = "update" /\ ~Current(batch[1]))
<1>4. CASE ignored /\ UNCHANGED <<owed, channel>> /\ TellNothing /\ NoReplay
  BY <1>2, <1>4, IgnoredHeard, TailFlow
<1>5. CASE ~ignored /\ batch[1].kind = "up" /\ ConnectedUp
  BY <1>2, <1>5, UpHeard, TailFlow
<1>6. CASE ~ignored /\ batch[1].kind = "down" /\ ConnectedDown
  BY <1>2, <1>6, DownHeard, TailFlow
<1>7. CASE ~ignored /\ batch[1].kind = "access" /\ AccessChanged
  BY <1>2, <1>7, AccessHeard, TailFlow
<1>8. CASE ~ignored /\ batch[1].kind = "update" /\ Updated(batch[1])
  BY <1>2, <1>8, EventHeard, TailFlow
<1> QED BY <1>3, <1>4, <1>5, <1>6, <1>7, <1>8 DEF Dispatch
-----------------------------------------------------------------------------
(***************************************************************************)
(* The other steps leave the queue as it is.                               *)
(***************************************************************************)
LEMMA EmptyFlow ==
  ASSUME batch = <<>>, UNCHANGED batch
  PROVE  /\ ~Has("up")' /\ ~Has("down")' /\ ~Announced /\ ~Announced'
         /\ NoEvent /\ ~Has("down") /\ ~Has("up")
         /\ Crossing' /\ NewestQueued' /\ Emptied'
         /\ \A i \in 1..Len(batch') : FALSE
<1>1. Len(batch) = 0 /\ batch' = <<>> /\ Len(batch') = 0
  OBVIOUS
<1> QED BY <1>1 DEF Has, Announced, NoEvent, Crossing, NewestQueued, Emptied

LEMMA RecheckFlow ==
  ASSUME SettleInv, Recheck
  PROVE  Flow'
<1>1. Types /\ Attached /\ Flow /\ channel \in Channels
  BY DEF SettleInv, PromiseInv, Types
<1>2. batch = <<>> /\ UNCHANGED <<batch, link, posted, failed, owed, wanted>> /\ phase' = "recheck"
  BY DEF Recheck, network
<1>3. /\ ~Has("up")' /\ ~Has("down")' /\ ~Announced /\ ~Announced'
      /\ NoEvent /\ ~Has("down") /\ ~Has("up")
      /\ Crossing' /\ NewestQueued' /\ Emptied'
      /\ \A i \in 1..Len(batch') : FALSE
  BY <1>2, EmptyFlow
<1>4. RenewedLater'
  BY <1>3 DEF RenewedLater
<1>5. CASE channel.recheck /\ ~channel.cancelled /\ link.up
  <2>1. RightsChanged(channel)
    BY <1>5 DEF Recheck
  <2>2. /\ channel'.recheck = FALSE
        /\ channel'.last = IF link.read THEN channel.last ELSE 0
        /\ channel'.alarm = channel.alarm /\ channel'.cancelled = channel.cancelled
        /\ channel'.subscribed = channel.subscribed /\ channel'.deadline = channel.deadline
        /\ channel.alarm /\ ~link.read => told' = Outage
        /\ channel.alarm /\ link.read /\ MissesWrite => told' = Denied
        /\ channel.alarm /\ link.read /\ ~MissesWrite =>
             told' = IF channel.last # 0 THEN Value(channel.last) ELSE told
        /\ pending' = 0 => sent' = wanted'
        /\ pending' # 0 => pending' = wanted'
        /\ pending' = 0 \/ putFailed' \/ ~link.write
    BY <1>1, <1>2, <1>5, <2>1, RightsHeard
  <2>3. Watching' = Watching /\ MissesWrite' = MissesWrite /\ (Watching => channel.alarm)
    BY <1>2, <2>2 DEF Watching, MissesWrite
  <2>4. Live' = Live /\ (Live => Watching)
    BY <1>1, <1>2, <2>2 DEF Live, Renewed, Watching, Attached
  <2>5. LossKnown' /\ SecrecyKnown' /\ DenialKnown'
    BY <1>2, <1>5, <2>2, <2>3 DEF LossKnown, SecrecyKnown, DenialKnown
  <2>6. SubscribedSoon'
    BY <1>1, <1>2, <1>3, <2>2, <2>3 DEF Flow, SubscribedSoon
  <2>7. NewestShown'
    <3> SUFFICES ASSUME Live
                 PROVE  IF failed THEN told' \in {Outage, Denied} /\ channel'.last = 0
                        ELSE /\ channel'.last = posted /\ posted # 0
                             /\ MissesWrite \/ told' = Value(posted)
      BY <1>2, <2>3, <2>4 DEF NewestShown
    <3>1. link.read /\ channel.alarm
      BY <2>3, <2>4 DEF Live
    <3>2. IF failed THEN told \in {Outage, Denied} /\ channel.last = 0
          ELSE channel.last = posted /\ posted # 0
      BY <1>1, <1>3 DEF Flow, NewestShown
    <3> QED BY <2>2, <3>1, <3>2
  <2>8. Outputs'
    BY <1>1, <1>2, <2>2 DEF Flow, Outputs
  <2> QED BY <1>3, <1>4, <2>5, <2>6, <2>7, <2>8 DEF Flow
<1>6. CASE ~(channel.recheck /\ ~channel.cancelled /\ link.up)
  <2>1. channel' = [channel EXCEPT !.recheck = FALSE] /\ told' = told /\ NoReplay
    BY <1>6 DEF Recheck, TellNothing
  <2>2. /\ channel'.alarm = channel.alarm /\ channel'.cancelled = channel.cancelled
        /\ channel'.subscribed = channel.subscribed /\ channel'.deadline = channel.deadline
        /\ channel'.last = channel.last
    BY <1>1, <2>1 DEF Channels
  <2>3. Watching' = Watching /\ MissesWrite' = MissesWrite /\ (Watching => ~channel.cancelled)
    BY <1>2, <2>2 DEF Watching, MissesWrite
  <2>4. Live' = Live /\ (Live => link.up /\ Watching)
    BY <1>1, <1>2, <2>2 DEF Live, Renewed, Watching, Attached
  <2>5. LossKnown' /\ SecrecyKnown' /\ DenialKnown'
    BY <1>1, <1>2, <1>3, <1>6, <2>1, <2>2, <2>3
       DEF Flow, LossKnown, SecrecyKnown, DenialKnown
  <2>6. SubscribedSoon'
    BY <1>1, <1>2, <1>3, <2>2, <2>3 DEF Flow, SubscribedSoon
  <2>7. NewestShown'
    BY <1>1, <1>2, <1>3, <1>6, <2>1, <2>2, <2>3, <2>4 DEF Flow, NewestShown
  <2>8. Outputs'
    BY <1>1, <1>2, <1>3, <2>1, <2>2 DEF Flow, Outputs, NoReplay
  <2> QED BY <1>3, <1>4, <2>5, <2>6, <2>7, <2>8 DEF Flow
<1> QED BY <1>5, <1>6

(* The deadline of a connection is only over for a PV without one.         *)
LEMMA DeadlineFlow ==
  ASSUME SettleInv, Deadline
  PROVE  Flow'
<1>1. Types /\ Attached /\ Flow /\ channel \in Channels
  BY DEF SettleInv, PromiseInv, Types
<1>2. /\ batch = <<>> /\ UNCHANGED <<batch, link, posted, failed, owed, wanted>>
      /\ phase' = "idle"
  BY <1>1 DEF Deadline, network, Attached
<1>3. /\ ~Has("up")' /\ ~Has("down")' /\ ~Announced /\ ~Announced'
      /\ NoEvent /\ ~Has("down") /\ ~Has("up")
      /\ Crossing' /\ NewestQueued' /\ Emptied'
      /\ \A i \in 1..Len(batch') : FALSE
  BY <1>2, EmptyFlow
<1>4. RenewedLater'
  BY <1>3 DEF RenewedLater
<1>5. /\ channel'.alarm = channel.alarm /\ channel'.cancelled = channel.cancelled
      /\ channel'.subscribed = channel.subscribed /\ channel'.last = channel.last
      /\ channel'.recheck = channel.recheck
  BY <1>1 DEF Deadline, Channels
<1>6. /\ link.up => told' = told
      /\ Watching /\ ~link.up => told' = Outage \/ UNCHANGED <<told, channel>>
  BY DEF Deadline, TellNothing, TellOutage, Watching
<1>7. UNCHANGED <<pending, sent, putFailed>>
  BY DEF Deadline, NoReplay
<1>8. Watching' = Watching /\ MissesWrite' = MissesWrite /\ Live' = Live /\ (Live => link.up)
  BY <1>2, <1>5 DEF Watching, MissesWrite, Live, Renewed
<1>9. LossKnown' /\ SecrecyKnown' /\ DenialKnown' /\ SubscribedSoon'
  BY <1>1, <1>2, <1>3, <1>5, <1>6, <1>8
     DEF Flow, LossKnown, SecrecyKnown, DenialKnown, SubscribedSoon
<1>10. NewestShown'
  BY <1>1, <1>2, <1>3, <1>5, <1>6, <1>8 DEF Flow, NewestShown
<1>11. Outputs'
  BY <1>1, <1>2, <1>3, <1>5, <1>7 DEF Flow, Outputs
<1> QED BY <1>3, <1>4, <1>9, <1>10, <1>11 DEF Flow

(* A call of the engine with the same queue and events.                    *)
LEMMA SameQueue ==
  ASSUME Flow, UNCHANGED <<batch, link, phase>>
  PROVE  /\ Crossing' /\ Emptied' /\ (Announced' <=> Announced)
         /\ (Has("up")' <=> Has("up")) /\ (Has("down")' <=> Has("down"))
  BY DEF Flow, Crossing, Emptied, Announced, Has, Later

LEMMA MonitorFlow ==
  ASSUME SettleInv, Monitor
  PROVE  Flow'
<1>1. Types /\ Attached /\ Flow /\ channel \in Channels
  BY DEF SettleInv, PromiseInv, Types
<1>2. /\ channel.alarm /\ channel' = Subscribe(Added(channel))
      /\ owed' = (owed \/ Connectable(Added(channel)))
      /\ UNCHANGED <<batch, link, phase, posted, failed, told, pending, wanted, sent, putFailed>>
  BY DEF Monitor, network, TellNothing, outputs
<1>3. /\ channel'.epoch = channel.epoch /\ channel'.last = channel.last
      /\ channel'.alarm /\ ~channel'.cancelled
      /\ channel'.subscribed = (channel.subscribed \/ link.up)
      /\ channel'.recheck = (channel.recheck \/ channel.cancelled)
      /\ channel'.deadline = (channel.deadline \/ ~link.up)
      /\ owed' = (owed \/ (link.up /\ ~channel.subscribed))
  BY <1>1, <1>2 DEF Channels, Subscribe, Connectable, Added
<1>4. /\ Crossing' /\ Emptied' /\ (Announced' <=> Announced)
      /\ (Has("up")' <=> Has("up")) /\ (Has("down")' <=> Has("down"))
  BY <1>1, <1>2, SameQueue
<1>5. /\ MissesWrite' = MissesWrite /\ (Watching <=> ~channel.cancelled)
      /\ Renewed' => Renewed
  BY <1>2, <1>3 DEF Watching, MissesWrite, Renewed
<1>6. LossKnown' /\ SecrecyKnown' /\ DenialKnown' /\ SubscribedSoon'
  BY <1>1, <1>2, <1>3, <1>4, <1>5
     DEF Flow, LossKnown, SecrecyKnown, DenialKnown, SubscribedSoon
<1>7. /\ \A i : IsEvent(i)' <=> IsEvent(i)
      /\ \A i : IsNewest(i)' <=> IsNewest(i)
      /\ NoEvent' <=> NoEvent
  BY <1>2, <1>3 DEF IsEvent, IsUpdate, IsNewest, NoEvent
<1>8. Live' => Live
  BY <1>2, <1>5 DEF Live
<1>9. NewestQueued' /\ RenewedLater'
  BY <1>1, <1>2, <1>5, <1>7, <1>8 DEF Flow, NewestQueued, RenewedLater
<1>10. NewestShown'
  BY <1>1, <1>2, <1>3, <1>4, <1>5, <1>7, <1>8 DEF Flow, NewestShown
<1>11. Outputs'
  BY <1>1, <1>2, <1>3, <1>4 DEF Flow, Outputs
<1> QED BY <1>4, <1>6, <1>9, <1>10, <1>11 DEF Flow

LEMMA CancelFlow ==
  ASSUME SettleInv, Cancel
  PROVE  Flow'
<1>1. Types /\ Attached /\ Flow /\ channel \in Channels
  BY DEF SettleInv, PromiseInv, Types
<1>2. /\ channel.alarm /\ channel' = Cancelled(channel)
      /\ UNCHANGED <<batch, link, phase, posted, failed, pending, wanted, sent, putFailed>>
  BY DEF Cancel, network, outputs
<1>3. channel'.alarm /\ channel'.cancelled /\ ~channel'.subscribed
  BY <1>1, <1>2 DEF Channels, Cancelled
<1>4. /\ Crossing' /\ Emptied' /\ (Announced' <=> Announced)
      /\ (Has("up")' <=> Has("up")) /\ (Has("down")' <=> Has("down"))
  BY <1>1, <1>2, SameQueue
<1>5. ~Watching' /\ ~Renewed' /\ ~Live'
  BY <1>3 DEF Watching, Live, Renewed
<1>6. LossKnown' /\ SecrecyKnown' /\ DenialKnown' /\ SubscribedSoon'
  BY <1>5 DEF LossKnown, SecrecyKnown, DenialKnown, SubscribedSoon
<1>7. NewestQueued' /\ RenewedLater' /\ NewestShown'
  BY <1>5 DEF NewestQueued, RenewedLater, NewestShown
<1>8. Outputs'
  BY <1>1, <1>2, <1>3, <1>4 DEF Flow, Outputs
<1> QED BY <1>4, <1>6, <1>7, <1>8 DEF Flow

(* A severity, and the steps that only move poll on.                       *)
Wrote ==
  \/ UNCHANGED <<pending, sent, wanted, putFailed>>
  \/ \E v \in Severities : wanted' = v /\ Put(v, channel)

LEMMA StillFlow ==
  ASSUME SettleInv, UNCHANGED <<batch, link, posted, failed, owed, channel, told>>,
         phase' \in {"recheck", "idle"} => UNCHANGED phase, Wrote
  PROVE  Flow'
<1>1. Types /\ Attached /\ Flow
  BY DEF SettleInv, PromiseInv
<1>2. /\ Announced' <=> Announced
      /\ Has("up")' <=> Has("up")
      /\ Has("down")' <=> Has("down")
  BY DEF Announced, Has
<1>3. Watching' = Watching /\ MissesWrite' = MissesWrite /\ Renewed' = Renewed /\ Live' = Live
  BY DEF Watching, MissesWrite, Live, Renewed
<1>4. Crossing' /\ Emptied'
  BY <1>1 DEF Flow, Crossing, Later, Emptied
<1>5. LossKnown' /\ SecrecyKnown' /\ DenialKnown' /\ SubscribedSoon'
  BY <1>1, <1>2, <1>3 DEF Flow, LossKnown, SecrecyKnown, DenialKnown, SubscribedSoon
<1>6. NewestQueued' /\ RenewedLater' /\ NewestShown'
  BY <1>1, <1>2, <1>3
     DEF Flow, NewestQueued, RenewedLater, NewestShown, IsNewest, IsEvent, IsUpdate, NoEvent
<1>7. Outputs'
  <2>1. CASE UNCHANGED <<pending, sent, wanted, putFailed>>
    BY <1>1, <1>2, <2>1 DEF Flow, Outputs
  <2>2. ASSUME NEW v \in Severities, wanted' = v, Put(v, channel)
        PROVE  Outputs'
    <3>1. v # 0
      BY <2>2, SeverityAssumption
    <3>2. pending' = 0 => sent' = wanted'
      BY <2>2, <3>1 DEF Put
    <3>3. pending' # 0 => pending' = wanted'
      BY <2>2 DEF Put
    <3>4. ~channel.alarm /\ pending' # 0 => putFailed' \/ ~link.write
      BY <1>1, <2>2 DEF Put, Flow, Outputs
    <3> QED BY <1>1, <3>2, <3>3, <3>4 DEF Flow, Outputs
  <2> QED BY <2>1, <2>2 DEF Wrote
<1> QED BY <1>4, <1>5, <1>6, <1>7 DEF Flow

LEMMA SettleKept ==
  ASSUME SettleInv, [Next]_vars
  PROVE  SettleInv'
<1>1. PromiseInv'
  BY StepKept DEF SettleInv
<1>2. ASSUME Flow' PROVE SettleInv'
  BY <1>1, <1>2 DEF SettleInv
<1>3. ASSUME UNCHANGED <<batch, link, posted, failed, owed, channel, told>>,
             phase' \in {"recheck", "idle"} => UNCHANGED phase, Wrote
      PROVE  SettleInv'
  BY <1>2, <1>3, StillFlow
<1>4. CASE Poll \/ EndNetwork
  BY <1>3, <1>4 DEF Poll, EndNetwork, network, outputs, Wrote
<1>5. CASE WriteSeverity
  <2>1. UNCHANGED <<phase, batch, link, posted, failed, owed, channel, told>>
    BY <1>5 DEF WriteSeverity, network, TellNothing
  <2>2. Wrote
    BY <1>5 DEF WriteSeverity, Wrote
  <2> QED BY <1>3, <2>1, <2>2
<1>6. CASE UNCHANGED vars
  BY <1>3, <1>6 DEF vars, Wrote
<1>7. CASE LinkUp \/ LinkDown \/ Rights
  BY <1>2, <1>7, LinkFlow
<1>8. CASE Update \/ Dispatch
  BY <1>2, <1>8, UpdateFlow, DispatchFlow
<1>9. CASE Recheck \/ Deadline \/ Monitor \/ Cancel
  BY <1>2, <1>9, RecheckFlow, DeadlineFlow, MonitorFlow, CancelFlow
<1> QED BY <1>4, <1>5, <1>6, <1>7, <1>8, <1>9 DEF Next

(* Whatever order callbacks, cancellations, polls and losses come in: once *)
(* nothing is under way the engine has been told what holds, and a         *)
(* severity that CA did not take is kept, the newest only.                 *)
THEOREM NoDirectionLeftBehind == Spec => []ChannelSettles
<1>1. Init => SettleInv
  BY SettleInit
<1>2. SettleInv /\ [Next]_vars => SettleInv'
  BY SettleKept
<1>3. SettleInv => ChannelSettles
  BY SettledChannel
<1> QED BY <1>1, <1>2, <1>3, PTL DEF Spec

-----------------------------------------------------------------------------
(***************************************************************************)
(* Acknowledgement by value.                                               *)
(***************************************************************************)
(* What is proved of AckValue, for every set of directives and every number *)
(* of acknowledgements.                                                    *)
AckCount  == [asked : Nat, written : Nat, dropped : Nat]
AckAction == [id : {0}, count : {0}] \cup [id : Nat, count : Nat, directive : Directives]

AckTypes ==
  /\ directive \in Directives
  /\ action \in AckAction /\ listed \in AckAction
  /\ nextAction \in Nat
  /\ ledger \in [of : [Directives -> AckCount], acks : Nat]

(* An action that is no longer listed as it is has a newer number.         *)
AckNumbered ==
  /\ AckPv!Pending => action.directive \in Directives
  /\ action.id <= nextAction /\ listed.id <= nextAction

(* What is still pending of the acknowledgements under a directive.        *)
Held(d) == IF AckPv!Pending /\ action.directive = d THEN action.count ELSE 0

AccountInv == AckTypes /\ AckNumbered /\ AckPv!RetriesAccounted

LEMMA AccountInit == AckPv!Init => AccountInv
  BY DEF AckPv!Init, AccountInv, AckTypes, AckNumbered, AckPv!RetriesAccounted, AckAction, AckCount,
         AckPv!NoAction, AckPv!Total, AckPv!Pending

LEMMA PendingAction ==
  ASSUME AckTypes, AckPv!Pending
  PROVE  action \in [id : Nat, count : Nat, directive : Directives] /\ action.count > 0
<1>1. action.count > 0
  BY DEF AckPv!Pending
<1>2. action \notin [id : {0}, count : {0}]
  BY <1>1
<1> QED BY <1>1, <1>2 DEF AckTypes, AckAction

(* The totals of one directive after its pending action was given up.      *)
LEMMA DroppedTotals ==
  ASSUME NEW totals \in [Directives -> AckCount], AckTypes, AckNumbered
  PROVE  /\ AckPv!Dropped(totals) \in [Directives -> AckCount]
         /\ \A d \in Directives :
              /\ AckPv!Dropped(totals)[d].asked = totals[d].asked
              /\ AckPv!Dropped(totals)[d].written = totals[d].written
              /\ AckPv!Dropped(totals)[d].dropped =
                   totals[d].dropped + Held(d)
<1>1. CASE ~AckPv!Pending
  BY <1>1 DEF AckPv!Dropped, AckCount, Held
<1>2. CASE AckPv!Pending
  <2>1. action.directive \in Directives /\ action.count \in Nat
    BY <1>2 DEF AckNumbered, AckTypes, AckAction, AckPv!Pending
  <2> QED BY <1>2, <2>1 DEF AckPv!Dropped, AckCount, Held
<1> QED BY <1>1, <1>2

(* The invariant restated with Held.                                       *)
LEMMA AckBalance ==
  AckPv!RetriesAccounted <=>
    /\ \A d \in Directives :
         ledger.of[d].asked = ledger.of[d].written + ledger.of[d].dropped + Held(d)
    /\ AckPv!Pending /\ listed.id = action.id => listed.directive = action.directive
  BY DEF AckPv!RetriesAccounted, Held

LEMMA HeldNat ==
  ASSUME AckTypes, NEW d \in Directives
  PROVE  /\ Held(d) \in Nat
         /\ ledger.of[d].asked \in Nat /\ ledger.of[d].written \in Nat
         /\ ledger.of[d].dropped \in Nat
<1>1. Held(d) \in Nat
  <2>1. action.count \in Nat
    BY DEF AckTypes, AckAction
  <2> QED BY <2>1 DEF Held
<1>2. ledger.of[d] \in AckCount
  BY DEF AckTypes
<1> QED BY <1>1, <1>2 DEF AckCount

LEMMA AcknowledgeKeeps ==
  ASSUME AccountInv, NEW ok \in BOOLEAN, AckPv!Acknowledge(ok)
  PROVE  AccountInv'
<1> DEFINE asked == [ledger.of EXCEPT ![directive].asked = @ + 1]
<1>1. AckTypes /\ AckNumbered /\ AckPv!RetriesAccounted
  BY DEF AccountInv
<1>2. /\ asked \in [Directives -> AckCount]
      /\ \A d \in Directives :
           /\ asked[d].asked = ledger.of[d].asked + (IF d = directive THEN 1 ELSE 0)
           /\ asked[d].written = ledger.of[d].written
           /\ asked[d].dropped = ledger.of[d].dropped
  BY <1>1 DEF AckTypes, AckCount
<1>3. /\ \A d \in Directives :
           ledger.of[d].asked = ledger.of[d].written + ledger.of[d].dropped + Held(d)
      /\ AckPv!Pending /\ listed.id = action.id => listed.directive = action.directive
  BY <1>1, AckBalance
<1>4. CASE ok
  <2>1. /\ ledger' = [of |-> AckPv!Written(asked), acks |-> ledger.acks + 1]
        /\ UNCHANGED <<action, nextAction, directive, listed>>
    BY <1>4 DEF AckPv!Acknowledge, asked
  <2> HIDE DEF asked
  <2>2. /\ ledger'.of \in [Directives -> AckCount] /\ ledger' \in [of : [Directives -> AckCount], acks : Nat]
        /\ \A d \in Directives :
             /\ ledger'.of[d].asked = asked[d].asked
             /\ ledger'.of[d].written = asked[d].written + (IF d = directive THEN 1 ELSE 0)
             /\ ledger'.of[d].dropped = asked[d].dropped
    BY <1>1, <1>2, <2>1 DEF AckTypes, AckCount, AckPv!Written
  <2>3. AckTypes' /\ AckNumbered'
    BY <1>1, <2>1, <2>2 DEF AckTypes, AckNumbered, AckPv!Pending
  <2>4. ASSUME NEW d \in Directives
        PROVE  ledger'.of[d].asked = ledger'.of[d].written + ledger'.of[d].dropped + Held(d)'
    <3>1. Held(d)' = Held(d)
      BY <2>1 DEF Held, AckPv!Pending
    <3>2. /\ Held(d) \in Nat /\ ledger.of[d].asked \in Nat
          /\ ledger.of[d].written \in Nat /\ ledger.of[d].dropped \in Nat
      BY <1>1, HeldNat
    <3>3. ledger.of[d].asked = ledger.of[d].written + ledger.of[d].dropped + Held(d)
      BY <1>3
    <3>4. CASE d = directive
      <4>1. /\ ledger'.of[d].asked = ledger.of[d].asked + 1
            /\ ledger'.of[d].written = ledger.of[d].written + 1
            /\ ledger'.of[d].dropped = ledger.of[d].dropped
        BY <1>2, <2>2, <3>4
      <4> QED BY <3>1, <3>2, <3>3, <4>1
    <3>5. CASE d # directive
      <4>1. /\ ledger'.of[d].asked = ledger.of[d].asked
            /\ ledger'.of[d].written = ledger.of[d].written
            /\ ledger'.of[d].dropped = ledger.of[d].dropped
        BY <1>2, <2>2, <3>2, <3>5
      <4> QED BY <3>1, <3>3, <4>1
    <3> QED BY <3>4, <3>5
  <2>5. AckPv!Pending' /\ listed'.id = action'.id => listed'.directive = action'.directive
    BY <1>3, <2>1 DEF AckPv!Pending
  <2> QED BY <2>3, <2>4, <2>5, AckBalance DEF AccountInv, AckPv!RetriesAccounted, Held
<1>5. CASE ~ok /\ AckPv!Joins
  <2>1. ledger' = [of |-> asked, acks |-> ledger.acks + 1]
    BY <1>5 DEF AckPv!Acknowledge, asked
  <2>2. /\ action' = [action EXCEPT !.count = @ + 1]
        /\ UNCHANGED <<nextAction, directive, listed>>
    BY <1>5 DEF AckPv!Acknowledge, AckPv!Refused
  <2> HIDE DEF asked
  <2>3. /\ action \in [id : Nat, count : Nat, directive : Directives]
        /\ AckPv!Pending /\ action.directive = directive /\ action.count > 0
    BY <1>1, <1>5, PendingAction DEF AckPv!Joins
  <2>4. /\ action'.count = action.count + 1 /\ action'.directive = directive
        /\ action'.id = action.id /\ AckPv!Pending'
    BY <2>2, <2>3 DEF AckPv!Pending
  <2>5. AckTypes' /\ AckNumbered'
    BY <1>1, <1>2, <2>1, <2>2, <2>3, <2>4 DEF AckTypes, AckNumbered, AckAction
  <2>6. ASSUME NEW d \in Directives
        PROVE  ledger'.of[d].asked = ledger'.of[d].written + ledger'.of[d].dropped + Held(d)'
    <3>1. Held(d)' = Held(d) + (IF d = directive THEN 1 ELSE 0)
      BY <2>3, <2>4 DEF Held
    <3>2. ledger'.of[d] = asked[d]
      BY <2>1
    <3> QED BY <1>1, <1>2, <1>3, <3>1, <3>2, HeldNat
  <2>7. AckPv!Pending' /\ listed'.id = action'.id => listed'.directive = action'.directive
    BY <1>3, <2>2, <2>3, <2>4
  <2> QED BY <2>5, <2>6, <2>7 DEF AccountInv, AckPv!RetriesAccounted, Held
<1>6. CASE ~ok /\ ~AckPv!Joins
  <2>1. ledger' = [of |-> AckPv!Dropped(asked), acks |-> ledger.acks + 1]
    BY <1>6 DEF AckPv!Acknowledge, asked
  <2>2. /\ action' = [id |-> nextAction + 1, count |-> 1, directive |-> directive]
        /\ nextAction' = nextAction + 1
        /\ UNCHANGED <<directive, listed>>
    BY <1>6 DEF AckPv!Acknowledge, AckPv!Refused
  <2> HIDE DEF asked
  <2>3. /\ AckPv!Dropped(asked) \in [Directives -> AckCount]
        /\ \A d \in Directives :
             /\ AckPv!Dropped(asked)[d].asked = asked[d].asked
             /\ AckPv!Dropped(asked)[d].written = asked[d].written
             /\ AckPv!Dropped(asked)[d].dropped = asked[d].dropped + Held(d)
    BY <1>1, <1>2, DroppedTotals
  <2>4. AckTypes' /\ AckNumbered' /\ AckPv!Pending'
    BY <1>1, <1>2, <2>1, <2>2, <2>3 DEF AckTypes, AckNumbered, AckPv!Pending, AckAction
  <2>5. listed'.id # action'.id
    BY <1>1, <2>2 DEF AckTypes, AckAction, AckNumbered
  <2>6. ASSUME NEW d \in Directives
        PROVE  ledger'.of[d].asked = ledger'.of[d].written + ledger'.of[d].dropped + Held(d)'
    <3>1. Held(d)' = IF d = directive THEN 1 ELSE 0
      BY <2>2, <2>4 DEF Held
    <3>2. ledger'.of[d] = AckPv!Dropped(asked)[d]
      BY <2>1
    <3> QED BY <1>1, <1>2, <1>3, <2>3, <3>1, <3>2, HeldNat
  <2> QED BY <2>4, <2>5, <2>6 DEF AccountInv, AckPv!RetriesAccounted, Held
<1> QED BY <1>4, <1>5, <1>6

LEMMA RetryKeeps ==
  ASSUME AccountInv, NEW ok \in BOOLEAN, AckPv!Retry(ok)
  PROVE  AccountInv'
<1>1. AckTypes /\ AckNumbered /\ AckPv!RetriesAccounted
  BY DEF AccountInv
<1>2. /\ AckPv!Pending /\ action \in [id : Nat, count : Nat, directive : Directives]
      /\ action.count > 0
  BY <1>1, PendingAction DEF AckPv!Retry
<1>3. UNCHANGED <<directive, nextAction, listed>>
  BY DEF AckPv!Retry
<1>4. /\ \A d \in Directives :
           ledger.of[d].asked = ledger.of[d].written + ledger.of[d].dropped + Held(d)
      /\ AckPv!Pending /\ listed.id = action.id => listed.directive = action.directive
  BY <1>1, AckBalance
<1>5. CASE AckPv!Obsolete
  <2>1. action' = AckPv!NoAction /\ ledger' = [ledger EXCEPT !.of = AckPv!Dropped(@)]
    BY <1>5 DEF AckPv!Retry
  <2>2. /\ AckPv!Dropped(ledger.of) \in [Directives -> AckCount]
        /\ \A d \in Directives :
             /\ AckPv!Dropped(ledger.of)[d].asked = ledger.of[d].asked
             /\ AckPv!Dropped(ledger.of)[d].written = ledger.of[d].written
             /\ AckPv!Dropped(ledger.of)[d].dropped = ledger.of[d].dropped + Held(d)
    BY <1>1, DroppedTotals DEF AckTypes
  <2>3. AckTypes' /\ AckNumbered' /\ ~AckPv!Pending'
    BY <1>1, <1>3, <2>1, <2>2 DEF AckTypes, AckNumbered, AckPv!Pending, AckAction, AckPv!NoAction
  <2>4. ASSUME NEW d \in Directives
        PROVE  ledger'.of[d].asked = ledger'.of[d].written + ledger'.of[d].dropped + Held(d)'
    <3>1. Held(d)' = 0
      BY <2>3 DEF Held
    <3>2. ledger'.of[d] = AckPv!Dropped(ledger.of)[d]
      BY <1>1, <2>1 DEF AckTypes
    <3> QED BY <1>1, <1>4, <2>2, <3>1, <3>2, HeldNat
  <2> QED BY <2>3, <2>4 DEF AccountInv, AckPv!RetriesAccounted, Held
<1>6. CASE ~AckPv!Obsolete /\ ok
  <2>1. /\ action.count = 1 => action' = AckPv!NoAction
        /\ action.count # 1 => action' = [action EXCEPT !.count = @ - 1]
        /\ ledger' = [ledger EXCEPT !.of = AckPv!Written(@)]
    <3>1. action' = IF action.count = 1 THEN AckPv!NoAction ELSE [action EXCEPT !.count = @ - 1]
      BY <1>6, Zenon DEF AckPv!Retry
    <3>2. ledger' = [ledger EXCEPT !.of = AckPv!Written(@)]
      BY <1>6, Zenon DEF AckPv!Retry
    <3> QED BY <3>1, <3>2
  <2>2. action.directive = directive /\ directive \in Directives
    BY <1>1, <1>6 DEF AckPv!Obsolete, AckTypes
  <2>3. /\ action' \in AckAction /\ action'.id <= nextAction
        /\ AckPv!Pending' => action'.directive = directive /\ action'.id = action.id
        /\ \A d \in Directives : Held(d)' = Held(d) - (IF d = directive THEN 1 ELSE 0)
    <3>1. CASE action.count = 1
      BY <1>1, <1>2, <2>1, <2>2, <3>1 DEF AckAction, AckPv!NoAction, AckPv!Pending, Held, AckTypes
    <3>2. CASE action.count # 1
      <4>1. /\ action' = [action EXCEPT !.count = @ - 1]
            /\ action'.id = action.id /\ action'.directive = directive
            /\ action'.count = action.count - 1 /\ action.count \in Nat /\ action.count > 1
        BY <1>2, <2>1, <2>2, <3>2
      <4>2. action' \in [id : Nat, count : Nat, directive : Directives]
        BY <1>2, <4>1
      <4> QED BY <1>1, <1>2, <2>2, <4>1, <4>2 DEF AckAction, AckPv!Pending, Held, AckNumbered
    <3> QED BY <3>1, <3>2
  <2>4. ledger.of \in [Directives -> AckCount] /\ ledger \in [of : [Directives -> AckCount], acks : Nat]
    BY <1>1 DEF AckTypes
  <2>5. ledger'.of = AckPv!Written(ledger.of) /\ ledger'.acks = ledger.acks
    BY <2>1, <2>4
  <2>6. /\ ledger'.of \in [Directives -> AckCount]
        /\ \A d \in Directives :
             /\ ledger'.of[d].asked = ledger.of[d].asked
             /\ ledger'.of[d].written = ledger.of[d].written + (IF d = directive THEN 1 ELSE 0)
             /\ ledger'.of[d].dropped = ledger.of[d].dropped
    BY <2>2, <2>4, <2>5 DEF AckCount, AckPv!Written
  <2>7. ledger' \in [of : [Directives -> AckCount], acks : Nat]
    BY <2>1, <2>4, <2>5, <2>6
  <2>8. AckTypes' /\ AckNumbered'
    BY <1>1, <1>3, <2>2, <2>3, <2>7 DEF AckTypes, AckNumbered
  <2>9. ASSUME NEW d \in Directives
        PROVE  ledger'.of[d].asked = ledger'.of[d].written + ledger'.of[d].dropped + Held(d)'
    <3>1. /\ Held(d) \in Nat /\ ledger.of[d].asked \in Nat
          /\ ledger.of[d].written \in Nat /\ ledger.of[d].dropped \in Nat
      BY <1>1, HeldNat
    <3>2. ledger.of[d].asked = ledger.of[d].written + ledger.of[d].dropped + Held(d)
      BY <1>4
    <3>3. CASE d = directive
      BY <2>3, <2>6, <3>1, <3>2, <3>3
    <3>4. CASE d # directive
      <4>1. Held(d)' = Held(d) /\ ledger'.of[d].written = ledger.of[d].written
        BY <2>3, <2>6, <3>1, <3>4
      <4> QED BY <2>6, <3>2, <4>1
    <3> QED BY <3>3, <3>4
  <2>10. AckPv!Pending' /\ listed'.id = action'.id => listed'.directive = action'.directive
    BY <1>2, <1>3, <1>4, <2>2, <2>3
  <2> QED BY <2>8, <2>9, <2>10 DEF AccountInv, AckPv!RetriesAccounted, Held
<1>7. CASE ~AckPv!Obsolete /\ ~ok
  <2>1. action' = action /\ ledger' = ledger
    BY <1>1, <1>7 DEF AckPv!Retry, AckTypes
  <2> QED BY <1>1, <1>3, <2>1 DEF AccountInv, AckTypes, AckNumbered, AckPv!RetriesAccounted, AckPv!Pending
<1> QED BY <1>5, <1>6, <1>7

LEMMA AckCancelKeeps ==
  ASSUME AccountInv, AckPv!Cancel
  PROVE  AccountInv'
<1>1. AckTypes /\ AckNumbered /\ AckPv!RetriesAccounted
  BY DEF AccountInv
<1>2. /\ action' = AckPv!NoAction /\ ledger' = [ledger EXCEPT !.of = AckPv!Dropped(@)]
      /\ UNCHANGED <<directive, nextAction, listed>>
  BY DEF AckPv!Cancel
<1>3. /\ AckPv!Dropped(ledger.of) \in [Directives -> AckCount]
      /\ \A d \in Directives :
           /\ AckPv!Dropped(ledger.of)[d].asked = ledger.of[d].asked
           /\ AckPv!Dropped(ledger.of)[d].written = ledger.of[d].written
           /\ AckPv!Dropped(ledger.of)[d].dropped = ledger.of[d].dropped + Held(d)
  BY <1>1, DroppedTotals DEF AckTypes
<1>4. AckTypes' /\ AckNumbered' /\ ~AckPv!Pending'
  BY <1>1, <1>2, <1>3 DEF AckTypes, AckNumbered, AckPv!Pending, AckAction, AckPv!NoAction
<1>5. ASSUME NEW d \in Directives
      PROVE  ledger'.of[d].asked = ledger'.of[d].written + ledger'.of[d].dropped + Held(d)'
  <2>1. Held(d)' = 0
    BY <1>4 DEF Held
  <2>2. ledger'.of[d] = AckPv!Dropped(ledger.of)[d]
    BY <1>1, <1>2 DEF AckTypes
  <2>3. ledger.of[d].asked = ledger.of[d].written + ledger.of[d].dropped + Held(d)
    BY <1>1, AckBalance
  <2> QED BY <1>1, <1>3, <2>1, <2>2, <2>3, HeldNat
<1> QED BY <1>4, <1>5 DEF AccountInv, AckPv!RetriesAccounted, Held

LEMMA AccountKept == AccountInv /\ [AckPv!Next]_(AckPv!vars) => AccountInv'
<1> SUFFICES ASSUME AccountInv, [AckPv!Next]_(AckPv!vars) PROVE AccountInv'
  OBVIOUS
<1> USE DEF AccountInv, AckTypes, AckNumbered, AckPv!RetriesAccounted, AckPv!Pending
<1>1. ASSUME NEW ok \in BOOLEAN, AckPv!Acknowledge(ok) PROVE AccountInv'
  BY <1>1, AcknowledgeKeeps
<1>2. ASSUME NEW ok \in BOOLEAN, AckPv!Retry(ok) PROVE AccountInv'
  BY <1>2, RetryKeeps
<1>3. CASE AckPv!Refresh
  BY <1>3 DEF AckPv!Refresh
<1>4. CASE AckPv!Cancel
  BY <1>4, AckCancelKeeps
<1>5. CASE AckPv!Add
  BY <1>5 DEF AckPv!Add
<1>6. CASE AckPv!SetOption
  BY <1>6 DEF AckPv!SetOption
<1>7. CASE UNCHANGED AckPv!vars
  BY <1>7 DEF AckPv!vars
<1> QED BY <1>1, <1>2, <1>3, <1>4, <1>5, <1>6, <1>7 DEF AckPv!Next

(* Every accepted acknowledgement was written once, is pending under its   *)
(* directive or was discarded, and a retry repeats the action that the     *)
(* operator was shown (submitAckValue, retryAckValue).                     *)
THEOREM RetriesExact == AckPv!Spec => []AckPv!RetriesAccounted
<1>1. AccountInv => AckPv!RetriesAccounted
  BY DEF AccountInv
<1> QED BY <1>1, AccountInit, AccountKept, PTL DEF AckPv!Spec

-----------------------------------------------------------------------------
(***************************************************************************)
(* The router.                                                             *)
(***************************************************************************)
routerVars == <<part, vars, pvaVars, acktVars, ackValueVars>>

LEMMA PvaNumbers == Pva!Numbers
  BY AlarmsAssumption, SeverityAssumption DEF Pva!Numbers

LEMMA PvaRuns == RouterSpec => Pva!Spec
<1>1. RouterInit => Pva!Init
  BY DEF RouterInit
<1>2. [RouterNext]_routerVars => [Pva!Next]_(Pva!vars)
  BY DEF RouterNext, routerVars, pvaVars, Pva!vars
<1> QED BY <1>1, <1>2, PTL DEF RouterSpec, Pva!Spec, routerVars

(* The stream of a pvAccess channel keeps the promise of PvService: no     *)
(* observation is told late, twice across a gap or after the last observer *)
(* left, whatever the inbox of PvAccess drops.                             *)
THEOREM PvaStreamKeepsPromise == RouterSpec => PvaImplementsService
<1>1. Pva!Spec => Pva!ImplementsService
  BY PvaNumbers, Pva!StreamKeepsPromise
<1> QED BY <1>1, PvaRuns DEF PvaImplementsService

(* Once nothing is under way every observer of a pvAccess channel has been *)
(* told what holds, no severity was forgotten, and ACKS covers the alarm.  *)
THEOREM PvaStreamSettles == RouterSpec => []PvaChannelSettles
<1>1. Pva!Spec => []Pva!ChannelSettles
  BY PvaNumbers, Pva!StreamSettles
<1> QED BY <1>1, PvaRuns, PTL DEF PvaChannelSettles

(* The rows of one record agree with the newest request for its ACKT.      *)
THEOREM RouterFollows == RouterSpec => []RowsFollowRequests
<1>1. RouterInit => Transient!Init
  BY DEF RouterInit
<1>2. [RouterNext]_routerVars => [Transient!Next]_(Transient!vars)
  BY DEF RouterNext, routerVars, acktVars, Transient!vars
<1>3. Transient!Spec => []Transient!RowsFollowRequests
  BY Transient!RowsFollowNewestRequest
<1> QED BY <1>1, <1>2, <1>3, PTL DEF RouterSpec, routerVars, Transient!Spec, RowsFollowRequests

(* Every accepted acknowledgement was written once with the value that was *)
(* configured, is pending under that directive or was discarded; a retry   *)
(* repeats the action the operator was shown.                              *)
THEOREM RouterRetries == RouterSpec => []RetriesAccounted
<1>1. RouterInit => AckPv!Init
  BY DEF RouterInit
<1>2. [RouterNext]_routerVars => [AckPv!Next]_(AckPv!vars)
  BY DEF RouterNext, routerVars, ackValueVars, AckPv!vars
<1>3. AckPv!Spec => []AckPv!RetriesAccounted
  BY RetriesExact
<1> QED BY <1>1, <1>2, <1>3, PTL DEF RouterSpec, routerVars, AckPv!Spec, RetriesAccounted
=============================================================================
