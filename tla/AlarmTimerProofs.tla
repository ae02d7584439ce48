--------------------------- MODULE AlarmTimerProofs ---------------------------
(***************************************************************************)
(* Theorems about the timers of the alarm engine for any tree, any options *)
(* and any inputs: filters and their deadlines, the dispatch of what is    *)
(* due, acknowledgement requests, what a step may do to a latch and to     *)
(* Silence Current, one-hour NoAck, and the outputs of channels.           *)
(***************************************************************************)
EXTENDS AlarmEngineProofs

(***************************************************************************)
(* The invariant.  The filter of a channel is steady when a cancelled      *)
(* channel is quiet, and its timer runs exactly while its shown state and  *)
(* its latest event differ.                                                *)
(***************************************************************************)
Quiet(s) ==
  "Cancel" \in s.mask =>
    /\ s.filterUntil = 0 /\ s.awaiting
    /\ \A i \in DOMAIN s.edges : s.edges[i] = 0

HeldBack(s) == (s.pending.severity = 0) # (s.severity = 0)

Unseen(s) == s.awaiting /\ s.pending.severity = 0

Held(c, s) ==
  /\ FilterSeconds[c] = 0 => s.filterUntil = 0
  /\ ~s.initialized => /\ s.status = 0 /\ s.severity \in {0, Error}
                       /\ s.severity # 0 => s.filterUntil = 0
  /\ s.initialized /\ ~Unseen(s) => (s.filterUntil # 0 <=> HeldBack(s))

Steady(c, s) == Quiet(s) /\ Held(c, s)

Filters == \A c \in Channels : Steady(c, ch[c])

(* No acknowledgement is asked for while the monitor reports ERROR.        *)
Asked == \A c \in requested : ch[c].observed # Error

(* The order of the tasks: a dispatch ends with one "shelves" task, right  *)
(* after its timers; an event waits behind the deadlines or the dispatch;  *)
(* the count filter follows its event at once.                             *)
Ordered(s, d) ==
  /\ d <=> \E i \in 1..Len(s) : s[i].op = "shelves"
  /\ \A i, j \in 1..Len(s) : s[i].op = "shelves" /\ s[j].op = "shelves" => i = j
  /\ \A i \in 1..Len(s) : s[i].op = "timers" => i < Len(s) /\ s[i + 1].op = "shelves"
  /\ \A i \in 2..Len(s) : s[i].op = "event" => s[i - 1].op \in {"deadlines", "shelves"}
  /\ \A i \in 2..Len(s) : s[i].op # "edge"

(* A running dispatch still has every timer that has expired.              *)
Pending(s, d, expired) ==
  /\ \A i \in 1..Len(s) : s[i].op = "timers" => expired \subseteq s[i].due
  /\ d => expired = {} \/ \E i \in 1..Len(s) : s[i].op = "timers"

EdgeReady ==
  Running("edge") =>
    /\ "Cancel" \notin ch[Head(todo).node].mask
    /\ ch[Head(todo).node].pending = Head(todo).event

Dispatch ==
  /\ Ordered(todo, dispatching) /\ Pending(todo, dispatching, ExpiredTimers)
  /\ EdgeReady /\ DeadlinesCovered /\ NothingOverdueAtEvent

TInv == IInv /\ Filters /\ Asked /\ Dispatch

(***************************************************************************)
(* The agenda.                                                             *)
(***************************************************************************)
PlainOps == {"mask", "noAck", "armNoAck", "acknowledge", "shelve", "unshelve",
             "retry", "endSilence"}

Plain(s) == \A i \in 1..Len(s) : s[i].op \in PlainOps

(* What may be put before an agenda r.                                     *)
Fits(s, r) ==
  s # << >> /\ r # << >> =>
    /\ r[1].op # "edge"
    /\ r[1].op = "event" => s[Len(s)].op \in {"deadlines", "shelves"}

LEMMA Popped ==
  ASSUME NEW s \in Seq(Task), s # << >>
  PROVE  /\ Tail(s) \in Seq(Task) /\ Len(s) \in Nat \ {0} /\ Len(Tail(s)) = Len(s) - 1
         /\ \A i \in 1..Len(s) - 1 : Tail(s)[i] = s[i + 1]
         /\ Head(s) = s[1]
  OBVIOUS

LEMMA PoppedOrder ==
  ASSUME NEW s \in Seq(Task), s # << >>, NEW d, Ordered(s, d), Head(s).op # "shelves"
  PROVE  /\ Ordered(Tail(s), d)
         /\ Tail(s) # << >> => /\ Tail(s)[1].op # "edge"
                               /\ Tail(s)[1].op = "event" => Head(s).op = "deadlines"
<1> DEFINE r == Tail(s)
<1>1. /\ r \in Seq(Task) /\ Len(s) \in Nat \ {0} /\ Len(r) = Len(s) - 1
      /\ \A i \in 1..Len(r) : r[i] = s[i + 1]
      /\ Head(s) = s[1]
  BY Popped
<1> HIDE DEF r
<1>2. d <=> \E i \in 1..Len(r) : r[i].op = "shelves"
  <2>1. ASSUME NEW i \in 1..Len(s), s[i].op = "shelves"
        PROVE  i - 1 \in 1..Len(r) /\ r[i - 1].op = "shelves"
    BY <1>1, <2>1
  <2>2. ASSUME NEW i \in 1..Len(r), r[i].op = "shelves"
        PROVE  i + 1 \in 1..Len(s) /\ s[i + 1].op = "shelves"
    BY <1>1, <2>2
  <2> QED  BY <2>1, <2>2 DEF Ordered
<1>3. \A i, j \in 1..Len(r) : r[i].op = "shelves" /\ r[j].op = "shelves" => i = j
  <2> SUFFICES ASSUME NEW i \in 1..Len(r), NEW j \in 1..Len(r),
                      r[i].op = "shelves", r[j].op = "shelves"
               PROVE  i = j
    OBVIOUS
  <2>1. /\ i + 1 \in 1..Len(s) /\ s[i + 1].op = "shelves"
        /\ j + 1 \in 1..Len(s) /\ s[j + 1].op = "shelves"
    BY <1>1
  <2>2. i + 1 = j + 1
    BY <2>1 DEF Ordered
  <2> QED  BY <2>2
<1>4. \A i \in 1..Len(r) : r[i].op = "timers" => i < Len(r) /\ r[i + 1].op = "shelves"
  BY <1>1 DEF Ordered
<1>5. \A i \in 2..Len(r) : r[i].op = "event" => r[i - 1].op \in {"deadlines", "shelves"}
  BY <1>1 DEF Ordered
<1>6. \A i \in 2..Len(r) : r[i].op # "edge"
  BY <1>1 DEF Ordered
<1>7. Ordered(r, d)
  BY <1>2, <1>3, <1>4, <1>5, <1>6 DEF Ordered
<1>8. ASSUME r # << >>
      PROVE  r[1].op # "edge" /\ (r[1].op = "event" => Head(s).op = "deadlines")
  <2>1. 2 \in 2..Len(s) /\ r[1] = s[2] /\ s[2 - 1] = Head(s)
    BY <1>1, <1>8
  <2> QED  BY <2>1 DEF Ordered
<1> QED  BY <1>7, <1>8 DEF r

LEMMA Joined ==
  ASSUME NEW s \in Seq(Task), NEW r \in Seq(Task), NEW d,
         Ordered(s, FALSE), Ordered(r, d), Fits(s, r)
  PROVE  Ordered(s \o r, d)
<1> DEFINE t == s \o r
           n == Len(s)
<1>1. /\ t \in Seq(Task) /\ n \in Nat /\ Len(r) \in Nat /\ Len(t) = n + Len(r)
      /\ \A i \in 1..n : t[i] = s[i]
      /\ \A i \in 1..Len(r) : t[i + n] = r[i]
      /\ \A i \in 1..Len(t) : i > n => i - n \in 1..Len(r) /\ t[i] = r[i - n]
      /\ \A i \in 1..n : i \in 1..Len(t)
      /\ \A i \in 1..Len(r) : i + n \in 1..Len(t)
  <2>1. /\ t \in Seq(Task) /\ Len(t) = n + Len(r)
        /\ \A i \in 1..n + Len(r) : t[i] = IF i <= n THEN s[i] ELSE r[i - n]
    BY ConcatProperties
  <2>2. n \in Nat /\ Len(r) \in Nat
    OBVIOUS
  <2> HIDE DEF t, n
  <2> QED  BY <2>1, <2>2
<1> HIDE DEF t
<1>2. \A i \in 1..Len(t) : t[i].op \in {"shelves", "timers"} => i > n
  <2>1. \A i \in 1..n : s[i].op # "shelves"
    BY DEF Ordered
  <2>2. \A i \in 1..n : s[i].op # "timers"
    <3>1. \A i \in 1..n : i < n => i + 1 \in 1..n
      BY <1>1
    <3> QED  BY <2>1, <3>1 DEF Ordered
  <2>3. ASSUME NEW i \in 1..Len(t), ~(i > n)  PROVE i \in 1..n /\ t[i] = s[i]
    BY <1>1, <2>3
  <2> QED  BY <2>1, <2>2, <2>3
<1>3. d <=> \E i \in 1..Len(t) : t[i].op = "shelves"
  <2>1. ASSUME NEW i \in 1..Len(t), t[i].op = "shelves"
        PROVE  i - n \in 1..Len(r) /\ r[i - n].op = "shelves"
    BY <1>1, <1>2, <2>1
  <2>2. ASSUME NEW i \in 1..Len(r), r[i].op = "shelves"
        PROVE  i + n \in 1..Len(t) /\ t[i + n].op = "shelves"
    BY <1>1, <2>2
  <2> QED  BY <2>1, <2>2 DEF Ordered
<1>4. \A i, j \in 1..Len(t) : t[i].op = "shelves" /\ t[j].op = "shelves" => i = j
  <2> SUFFICES ASSUME NEW i \in 1..Len(t), NEW j \in 1..Len(t),
                      t[i].op = "shelves", t[j].op = "shelves"
               PROVE  i = j
    OBVIOUS
  <2>1. /\ i - n \in 1..Len(r) /\ r[i - n].op = "shelves"
        /\ j - n \in 1..Len(r) /\ r[j - n].op = "shelves"
    BY <1>1, <1>2
  <2>2. i - n = j - n
    BY <2>1 DEF Ordered
  <2> QED  BY <1>1, <2>2
<1>5. \A i \in 1..Len(t) : t[i].op = "timers" => i < Len(t) /\ t[i + 1].op = "shelves"
  <2> SUFFICES ASSUME NEW i \in 1..Len(t), t[i].op = "timers"
               PROVE  i < Len(t) /\ t[i + 1].op = "shelves"
    OBVIOUS
  <2>1. i - n \in 1..Len(r) /\ r[i - n].op = "timers"
    BY <1>1, <1>2
  <2>2. i - n < Len(r) /\ r[i - n + 1].op = "shelves"
    BY <2>1 DEF Ordered
  <2>3. i - n + 1 \in 1..Len(r) /\ (i - n + 1) + n = i + 1
    BY <1>1, <2>1, <2>2
  <2> QED  BY <1>1, <2>2, <2>3
<1>6. \A i \in 2..Len(t) : t[i].op = "event" => t[i - 1].op \in {"deadlines", "shelves"}
  <2> SUFFICES ASSUME NEW i \in 2..Len(t), t[i].op = "event"
               PROVE  t[i - 1].op \in {"deadlines", "shelves"}
    OBVIOUS
  <2>1. CASE i <= n
    <3>1. i \in 2..n /\ i \in 1..n /\ i - 1 \in 1..n
      BY <1>1, <2>1
    <3> QED  BY <1>1, <3>1 DEF Ordered
  <2>2. CASE i = n + 1
    <3>1. 1 \in 1..Len(r) /\ t[i] = r[1] /\ s # << >> /\ r # << >> /\ t[i - 1] = s[n]
      BY <1>1, <2>2
    <3> QED  BY <3>1 DEF Fits
  <2>3. CASE i > n + 1
    <3>1. i - n \in 2..Len(r) /\ i - n - 1 \in 1..Len(r) /\ (i - n - 1) + n = i - 1
      BY <1>1, <2>3
    <3>2. t[i] = r[i - n] /\ t[i - 1] = r[i - n - 1]
      BY <1>1, <2>3, <3>1
    <3> QED  BY <3>1, <3>2 DEF Ordered
  <2> QED  BY <1>1, <2>1, <2>2, <2>3
<1>7. \A i \in 2..Len(t) : t[i].op # "edge"
  <2> SUFFICES ASSUME NEW i \in 2..Len(t)
               PROVE  t[i].op # "edge"
    OBVIOUS
  <2>1. CASE i <= n
    <3>1. i \in 2..n /\ i \in 1..n
      BY <1>1, <2>1
    <3> QED  BY <1>1, <3>1 DEF Ordered
  <2>2. CASE i = n + 1
    <3>1. 1 \in 1..Len(r) /\ t[i] = r[1] /\ s # << >> /\ r # << >>
      BY <1>1, <2>2
    <3> QED  BY <3>1 DEF Fits
  <2>3. CASE i > n + 1
    <3>1. i - n \in 2..Len(r)
      BY <1>1, <2>3
    <3>2. t[i] = r[i - n]
      BY <1>1, <2>3
    <3> QED  BY <3>1, <3>2 DEF Ordered
  <2> QED  BY <1>1, <2>1, <2>2, <2>3
<1> QED  BY <1>3, <1>4, <1>5, <1>6, <1>7 DEF Ordered, t

LEMMA PlainOrder ==
  ASSUME NEW s \in Seq(Task), Plain(s)
  PROVE  Ordered(s, FALSE)
<1>1. \A i \in 1..Len(s) : s[i].op \notin {"shelves", "timers", "event", "edge"}
  BY DEF Plain, PlainOps
<1>2. \A i \in 2..Len(s) : i \in 1..Len(s)
  OBVIOUS
<1> QED  BY <1>1, <1>2 DEF Ordered

LEMMA PendingChanges ==
  ASSUME NEW s \in Seq(Task), NEW d, NEW x, Pending(s, d, x)
  PROVE  /\ \A y \in SUBSET x : Pending(s, d, y)
         /\ s # << >> /\ Head(s).op # "timers" => Pending(Tail(s), d, x)
<1>1. \A y \in SUBSET x : Pending(s, d, y)
  BY DEF Pending
<1>2. ASSUME s # << >>, Head(s).op # "timers"
      PROVE  Pending(Tail(s), d, x)
  <2>1. /\ Len(s) \in Nat \ {0} /\ Len(Tail(s)) = Len(s) - 1
        /\ \A i \in 1..Len(s) - 1 : Tail(s)[i] = s[i + 1]
        /\ Head(s) = s[1]
    BY <1>2, Popped
  <2>2. \A i \in 1..Len(Tail(s)) : Tail(s)[i].op = "timers" => x \subseteq Tail(s)[i].due
    <3> SUFFICES ASSUME NEW i \in 1..Len(Tail(s)), Tail(s)[i].op = "timers"
                 PROVE  x \subseteq Tail(s)[i].due
      OBVIOUS
    <3>1. i + 1 \in 1..Len(s) /\ Tail(s)[i] = s[i + 1]
      BY <2>1
    <3> QED  BY <3>1 DEF Pending
  <2>3. ASSUME NEW i \in 1..Len(s), s[i].op = "timers"
        PROVE  i - 1 \in 1..Len(Tail(s)) /\ Tail(s)[i - 1].op = "timers"
    <3>1. i # 1
      BY <1>2, <2>1, <2>3
    <3>2. i - 1 \in 1..Len(s) - 1 /\ (i - 1) + 1 = i
      BY <2>1, <2>3, <3>1
    <3> QED  BY <2>1, <2>3, <3>2
  <2> QED  BY <2>2, <2>3 DEF Pending
<1> QED  BY <1>1, <1>2

LEMMA PendingJoined ==
  ASSUME NEW s \in Seq(Task), NEW r \in Seq(Task), NEW d, NEW x,
         \A i \in 1..Len(s) : s[i].op # "timers", Pending(r, d, x)
  PROVE  Pending(s \o r, d, x)
<1> DEFINE t == s \o r
           n == Len(s)
<1>1. /\ Len(t) = n + Len(r) /\ n \in Nat /\ Len(r) \in Nat
      /\ \A i \in 1..n + Len(r) : t[i] = IF i <= n THEN s[i] ELSE r[i - n]
  BY ConcatProperties
<1> HIDE DEF t
<1>2. \A i \in 1..Len(t) : t[i].op = "timers" => x \subseteq t[i].due
  <2> SUFFICES ASSUME NEW i \in 1..Len(t), t[i].op = "timers"
               PROVE  x \subseteq t[i].due
    OBVIOUS
  <2>1. i > n
    BY <1>1
  <2>2. i - n \in 1..Len(r) /\ t[i] = r[i - n]
    BY <1>1, <2>1
  <2> QED  BY <2>2 DEF Pending
<1>3. ASSUME NEW i \in 1..Len(r), r[i].op = "timers"
      PROVE  i + n \in 1..Len(t) /\ t[i + n].op = "timers"
  <2>1. i + n \in 1..n + Len(r) /\ ~(i + n <= n) /\ (i + n) - n = i
    BY <1>1, <1>3
  <2> QED  BY <1>1, <1>3, <2>1
<1> QED  BY <1>2, <1>3 DEF Pending, t

(***************************************************************************)
(* A gentle step: nothing starts or ends a dispatch, no clock moves, and   *)
(* whatever is armed lies ahead and is noted.                              *)
(***************************************************************************)
Advances(next, new) == new = next \/ (new # 0 /\ (next = 0 \/ new <= next))

FilterTurn(old, new) ==
  \/ new \in {0, old}
  \/ new > mono /\ nextStateDeadline' \in 1..new

Gentle ==
  /\ UNCHANGED <<dispatching, clocks>>
  /\ Advances(nextStateDeadline, nextStateDeadline')
  /\ Advances(nextShelfDeadline, nextShelfDeadline')
  /\ \A c \in Channels :
       /\ FilterTurn(ch[c].filterUntil, ch'[c].filterUntil)
       /\ ch'[c].shelf \in {0, ch[c].shelf} \/ nextShelfDeadline' \in 1..ch'[c].shelf
  /\ \A n \in Nodes : FilterTurn(noAckUntil[n], noAckUntil'[n])

LEMMA GentleCovers ==
  ASSUME IInv, IInv', DeadlinesCovered, Gentle
  PROVE  DeadlinesCovered'
<1>1. /\ nextStateDeadline \in Nat /\ nextShelfDeadline \in Nat
      /\ nextStateDeadline' \in Nat /\ nextShelfDeadline' \in Nat
      /\ noAckUntil \in [Nodes -> Nat] /\ noAckUntil' \in [Nodes -> Nat]
      /\ \A c \in Channels : ch[c].filterUntil \in Nat /\ ch[c].shelf \in Nat
      /\ \A c \in Channels : ch'[c].filterUntil \in Nat /\ ch'[c].shelf \in Nat
  BY DEF IInv, Core, Timers, ChannelState
<1>2. \A k \in Nat, m \in Nat, n \in Nat :
        Advances(k, m) /\ (n # 0 => k \in 1..n) => (n # 0 => m \in 1..n)
  BY DEF Advances
<1> SUFFICES ASSUME ~dispatching'
             PROVE  /\ \A c \in Channels :
                         /\ ch'[c].filterUntil # 0
                              => nextStateDeadline' \in 1..ch'[c].filterUntil
                         /\ ch'[c].shelf # 0 => nextShelfDeadline' \in 1..ch'[c].shelf
                    /\ \A n \in Nodes :
                         noAckUntil'[n] # 0 => nextStateDeadline' \in 1..noAckUntil'[n]
  BY DEF DeadlinesCovered
<1>3. ~dispatching
  BY DEF Gentle
<1>4. ASSUME NEW c \in Channels
      PROVE  /\ ch'[c].filterUntil # 0 => nextStateDeadline' \in 1..ch'[c].filterUntil
             /\ ch'[c].shelf # 0 => nextShelfDeadline' \in 1..ch'[c].shelf
  <2>1. /\ ch[c].filterUntil # 0 => nextStateDeadline' \in 1..ch[c].filterUntil
        /\ ch[c].shelf # 0 => nextShelfDeadline' \in 1..ch[c].shelf
    BY <1>1, <1>2, <1>3 DEF Gentle, DeadlinesCovered
  <2> QED  BY <2>1 DEF Gentle, FilterTurn
<1>5. ASSUME NEW n \in Nodes
      PROVE  noAckUntil'[n] # 0 => nextStateDeadline' \in 1..noAckUntil'[n]
  <2>1. noAckUntil[n] # 0 => nextStateDeadline' \in 1..noAckUntil[n]
    BY <1>1, <1>2, <1>3 DEF Gentle, DeadlinesCovered
  <2> QED  BY <2>1 DEF Gentle, FilterTurn
<1> QED  BY <1>4, <1>5

LEMMA GentleExpires ==
  ASSUME IInv, IInv', Filters, Gentle
  PROVE  /\ ExpiredTimers' \subseteq ExpiredTimers
         /\ \A t \in ExpiredTimers' :
              t.deadline = (IF t.filter THEN ch'[t.node].filterUntil ELSE noAckUntil'[t.node])
              /\ t.deadline # 0
<1>1. /\ mono' = mono /\ mono \in Nat
      /\ \A n \in Nodes : noAckUntil'[n] \in Nat
      /\ \A c \in Channels : ch'[c].filterUntil \in Nat
  BY DEF IInv, Core, Timers, Clocks, ChannelState, Gentle, clocks
<1>2. ASSUME NEW c \in Channels, ch'[c].filterUntil # 0, mono' >= ch'[c].filterUntil
      PROVE  /\ ch[c].filterUntil = ch'[c].filterUntil
             /\ "Cancel" \notin ch[c].mask
  <2>1. ch[c].filterUntil = ch'[c].filterUntil
    BY <1>1, <1>2 DEF Gentle, FilterTurn
  <2> QED  BY <1>2, <2>1 DEF Filters, Steady, Quiet
<1>3. ASSUME NEW n \in Nodes, noAckUntil'[n] # 0, mono' >= noAckUntil'[n]
      PROVE  noAckUntil[n] = noAckUntil'[n]
  BY <1>1, <1>3 DEF Gentle, FilterTurn
<1>4. ASSUME NEW t \in ExpiredTimers'
      PROVE  /\ t \in ExpiredTimers
             /\ t.deadline = (IF t.filter THEN ch'[t.node].filterUntil ELSE noAckUntil'[t.node])
             /\ t.deadline # 0
  <2>1. CASE \E c \in Channels :
               /\ t = [node |-> c, deadline |-> ch'[c].filterUntil, filter |-> TRUE]
               /\ ch'[c].filterUntil # 0 /\ mono' >= ch'[c].filterUntil
    <3>1. PICK c \in Channels :
            /\ t = [node |-> c, deadline |-> ch'[c].filterUntil, filter |-> TRUE]
            /\ ch'[c].filterUntil # 0 /\ mono' >= ch'[c].filterUntil
      BY <2>1
    <3>2. /\ ch[c].filterUntil = ch'[c].filterUntil /\ "Cancel" \notin ch[c].mask
          /\ mono >= ch[c].filterUntil
      BY <1>1, <1>2, <3>1
    <3>3. t = [node |-> c, deadline |-> ch[c].filterUntil, filter |-> TRUE]
      BY <3>1, <3>2
    <3>4. t \in ExpiredTimers
      BY <3>1, <3>2, <3>3 DEF ExpiredTimers
    <3> QED  BY <3>1, <3>4
  <2>2. CASE \E n \in Nodes :
               /\ t = [node |-> n, deadline |-> noAckUntil'[n], filter |-> FALSE]
               /\ noAckUntil'[n] # 0 /\ mono' >= noAckUntil'[n]
    <3>1. PICK n \in Nodes :
            /\ t = [node |-> n, deadline |-> noAckUntil'[n], filter |-> FALSE]
            /\ noAckUntil'[n] # 0 /\ mono' >= noAckUntil'[n]
      BY <2>2
    <3>2. noAckUntil[n] = noAckUntil'[n] /\ mono >= noAckUntil[n]
      BY <1>1, <1>3, <3>1
    <3>3. t = [node |-> n, deadline |-> noAckUntil[n], filter |-> FALSE]
      BY <3>1, <3>2
    <3>4. t \in ExpiredTimers
      BY <3>1, <3>2, <3>3 DEF ExpiredTimers
    <3> QED  BY <3>1, <3>4
  <2> QED  BY <2>1, <2>2 DEF ExpiredTimers
<1> QED  BY <1>4

LEMMA JoinedHead ==
  ASSUME NEW s \in Seq(Task), NEW r \in Seq(Task)
  PROVE  /\ s = << >> => s \o r = r
         /\ s # << >> => s \o r # << >> /\ Head(s \o r) = s[1]
<1>1. /\ s \o r \in Seq(Task) /\ Len(s \o r) = Len(s) + Len(r)
      /\ \A i \in 1..Len(s) + Len(r) : (s \o r)[i] = IF i <= Len(s) THEN s[i] ELSE r[i - Len(s)]
  BY ConcatProperties
<1>2. s = << >> => s \o r = r
  BY ConcatEmptySeq
<1>3. ASSUME s # << >>
      PROVE  s \o r # << >> /\ Head(s \o r) = s[1]
  <2>1. Len(s) \in Nat \ {0} /\ Len(r) \in Nat
    BY <1>3
  <2>2. 1 \in 1..Len(s) + Len(r) /\ 1 <= Len(s) /\ Len(s \o r) # 0
    BY <1>1, <2>1
  <2> QED  BY <1>1, <2>2
<1> QED  BY <1>2, <1>3

LEMMA DispatchJoined ==
  ASSUME TInv, IInv', Gentle, NEW new \in Seq(Task), NEW r \in Seq(Task),
         Ordered(new, FALSE), Ordered(r, dispatching), Fits(new, r),
         Pending(r, dispatching, ExpiredTimers) \/ Pending(r, dispatching, ExpiredTimers'),
         todo' = new \o r, EdgeReady', NothingOverdueAtEvent'
  PROVE  Dispatch'
<1>1. dispatching' = dispatching
  BY DEF Gentle
<1>2. Ordered(todo', dispatching')
  BY <1>1, Joined
<1>3. \A i \in 1..Len(new) : new[i].op # "timers"
  <2>1. \A i \in 1..Len(new) : new[i].op # "shelves"
    BY DEF Ordered
  <2>2. \A i \in 1..Len(new) : i < Len(new) => i + 1 \in 1..Len(new)
    OBVIOUS
  <2> QED  BY <2>1, <2>2 DEF Ordered
<1>4. ExpiredTimers' \subseteq ExpiredTimers
  BY GentleExpires DEF TInv
<1>5. Pending(r, dispatching, ExpiredTimers')
  BY <1>4, PendingChanges
<1>6. Pending(todo', dispatching', ExpiredTimers')
  BY <1>1, <1>3, <1>5, PendingJoined
<1>7. DeadlinesCovered'
  BY GentleCovers DEF TInv, Dispatch
<1> QED  BY <1>2, <1>6, <1>7 DEF Dispatch

LEMMA DispatchPlain ==
  ASSUME TInv, IInv', Gentle, NEW op \in PlainOps, Running(op),
         NEW new \in Seq(Task), Plain(new), todo' = new \o Rest \/ todo' = new \o todo
  PROVE  Dispatch'
<1>1. /\ todo \in Seq(Task) /\ todo # << >> /\ Head(todo).op \in PlainOps
      /\ Rest \in Seq(Task) /\ Head(todo) = todo[1] /\ Rest = Tail(todo)
  BY HeadTask, Popped DEF TInv, IInv, Agenda, Running, Rest
<1>2. /\ Ordered(todo, dispatching) /\ Ordered(Rest, dispatching)
      /\ Rest # << >> => Rest[1].op \notin {"edge", "event"}
  BY <1>1, PoppedOrder DEF TInv, Dispatch, PlainOps
<1>3. /\ Pending(todo, dispatching, ExpiredTimers)
      /\ Pending(Rest, dispatching, ExpiredTimers)
  BY <1>1, PendingChanges DEF TInv, Dispatch, PlainOps
<1>4. PICK r \in {Rest, todo} : todo' = new \o r
  OBVIOUS
<1>5. /\ r \in Seq(Task) /\ Ordered(r, dispatching) /\ Pending(r, dispatching, ExpiredTimers)
      /\ r # << >> => r[1].op \notin {"edge", "event"}
  BY <1>1, <1>2, <1>3 DEF PlainOps
<1>6. Ordered(new, FALSE) /\ Fits(new, r)
  BY <1>5, PlainOrder DEF Fits
<1>7. todo' # << >> => Head(todo').op \notin {"edge", "event"}
  <2>1. CASE new = << >>
    <3>1. todo' = r
      BY <1>4, <1>5, <2>1, JoinedHead
    <3> QED  BY <1>5, <3>1
  <2>2. CASE new # << >>
    <3>1. Head(todo') = new[1] /\ 1 \in 1..Len(new)
      BY <1>4, <1>5, <2>2, JoinedHead
    <3> QED  BY <3>1 DEF Plain, PlainOps
  <2> QED  BY <2>1, <2>2
<1>8. EdgeReady' /\ NothingOverdueAtEvent'
  BY <1>7 DEF EdgeReady, NothingOverdueAtEvent, Running
<1> QED  BY <1>4, <1>5, <1>6, <1>8, DispatchJoined

LEMMA DispatchCall ==
  ASSUME TInv, IInv', Gentle, CanCallBack, NEW new \in Seq(Task),
         Ordered(new, FALSE), new # << >> => new[1].op \notin {"edge", "event"},
         todo' = new \o todo
  PROVE  Dispatch'
<1>1. todo \in Seq(Task)
  BY DEF TInv, IInv, Agenda
<1>2. todo # << >> => todo[1].op \notin {"edge", "event"}
  BY <1>1 DEF CanCallBack, Idle, Running
<1>3. Fits(new, todo)
  BY <1>2 DEF Fits
<1>4. todo' # << >> => Head(todo').op \notin {"edge", "event"}
  <2>1. CASE new = << >>
    BY <1>1, <1>2, <2>1, JoinedHead
  <2>2. CASE new # << >>
    BY <1>1, <2>2, JoinedHead
  <2> QED  BY <2>1, <2>2
<1>5. EdgeReady' /\ NothingOverdueAtEvent'
  BY <1>4 DEF EdgeReady, NothingOverdueAtEvent, Running
<1> QED  BY <1>1, <1>3, <1>5, DispatchJoined DEF TInv, Dispatch

(***************************************************************************)
(* What a step does to the filter of the one channel it changes.           *)
(***************************************************************************)
SameFilter(s, t) ==
  /\ s.filterUntil = t.filterUntil /\ s.edges = t.edges /\ s.awaiting = t.awaiting
  /\ s.initialized = t.initialized /\ s.status = t.status /\ s.severity = t.severity
  /\ s.pending = t.pending /\ ("Cancel" \in s.mask <=> "Cancel" \in t.mask)

LEMMA SameFilterSteady ==
  ASSUME NEW c, NEW s, NEW t, SameFilter(s, t), Steady(c, s)
  PROVE  Steady(c, t)
  BY DEF SameFilter, Steady, Quiet, Held, Unseen, HeldBack

LEMMA ProcessedFields ==
  ASSUME NEW s \in ChannelState, NEW e, NEW seen, NEW t, t = Processed(s, e, seen)
  PROVE  /\ t.observed = seen /\ ~t.awaiting /\ t.initialized
         /\ t.status = e.status /\ t.severity = e.severity
         /\ t.filterUntil = s.filterUntil /\ t.edges = s.edges /\ t.pending = s.pending
         /\ t.shelf = s.shelf
         /\ t.mask \ {"AckT"} = s.mask \ {"AckT"}
  BY DEF Processed, ChannelState

LEMMA ProcessedSteady ==
  ASSUME NEW c, NEW s \in ChannelState, NEW e, NEW seen,
         "Cancel" \notin s.mask,
         FilterSeconds[c] = 0 => s.filterUntil = 0,
         s.filterUntil # 0 <=> (s.pending.severity = 0) # (e.severity = 0)
  PROVE  Steady(c, Processed(s, e, seen))
<1> DEFINE t == Processed(s, e, seen)
<1>1. /\ t.initialized /\ ~t.awaiting /\ t.severity = e.severity
      /\ t.filterUntil = s.filterUntil /\ t.pending = s.pending
      /\ t.mask \ {"AckT"} = s.mask \ {"AckT"}
  <2> HIDE DEF t
  <2>1. t = Processed(s, e, seen)
    BY DEF t
  <2> QED  BY <2>1, ProcessedFields
<1> HIDE DEF t
<1>2. "Cancel" \notin t.mask
  BY <1>1
<1> QED  BY <1>1, <1>2 DEF Steady, Quiet, Held, Unseen, HeldBack, t

LEMMA OneChannel ==
  ASSUME IInv, Filters, Asked, NEW c \in Channels, NEW s, Steady(c, s),
         ch' = [ch EXCEPT ![c] = s],
         requested' \subseteq requested \cup {c}, c \in requested' => s.observed # Error
  PROVE  Filters' /\ Asked'
<1>1. ch'[c] = s /\ \A d \in Channels \ {c} : ch'[d] = ch[d]
  BY DEF IInv, Core
<1>2. Filters'
  BY <1>1 DEF Filters
<1>3. requested \subseteq Channels
  BY DEF IInv, Requests
<1>4. Asked'
  BY <1>1, <1>3 DEF Asked
<1> QED  BY <1>2, <1>4

(* A channel whose shelf stays and whose filter turns, alone or not at all.*)
LEMMA GentleChannel ==
  ASSUME IInv, NEW c \in Channels, NEW s,
         ch' = [ch EXCEPT ![c] = s] \/ UNCHANGED ch,
         s.shelf = ch[c].shelf, FilterTurn(ch[c].filterUntil, s.filterUntil),
         UNCHANGED <<noAckUntil, nextShelfDeadline, dispatching, clocks>>,
         Advances(nextStateDeadline, nextStateDeadline')
  PROVE  Gentle
<1>1. \A d \in Channels : ch'[d] = ch[d] \/ (d = c /\ ch'[d] = s)
  BY DEF IInv, Core
<1>2. \A d \in Channels :
        /\ FilterTurn(ch[d].filterUntil, ch'[d].filterUntil)
        /\ ch'[d].shelf \in {0, ch[d].shelf}
  BY <1>1 DEF FilterTurn
<1> QED  BY <1>2 DEF Gentle, Advances, FilterTurn

LEMMA GentleStill ==
  ASSUME UNCHANGED <<ch, nextStateDeadline, nextShelfDeadline, dispatching, clocks>>,
         \A n \in Nodes : noAckUntil'[n] \in {0, noAckUntil[n]}
  PROVE  Gentle
  BY DEF Gentle, Advances, FilterTurn

LEMMA StillChannels ==
  ASSUME Filters, Asked, UNCHANGED ch, requested' \subseteq requested
  PROVE  Filters' /\ Asked'
  BY DEF Filters, Asked

LEMMA ProcessTurn ==
  ASSUME IInv, Filters, Asked, NEW c \in Channels, NEW s \in ChannelState, NEW e, NEW seen,
         Process(c, s, e, seen), seen = Error => e.severity = Error,
         "Cancel" \notin s.mask, FilterSeconds[c] = 0 => s.filterUntil = 0,
         s.filterUntil # 0 <=> (s.pending.severity = 0) # (e.severity = 0),
         s.shelf = ch[c].shelf, FilterTurn(ch[c].filterUntil, s.filterUntil),
         UNCHANGED <<noAckUntil, nextShelfDeadline, dispatching, clocks>>,
         Advances(nextStateDeadline, nextStateDeadline')
  PROVE  /\ Filters' /\ Asked' /\ Gentle
         /\ ch'[c].pending = s.pending /\ "Cancel" \notin ch'[c].mask
         /\ ch'[c].filterUntil = s.filterUntil
<1> DEFINE t == Processed(s, e, seen)
<1>1. /\ ch' = [ch EXCEPT ![c] = t]
      /\ requested' = IF t.unack = 0 \/ t.severity = Error THEN requested \ {c} ELSE requested
  BY DEF Process, Commit
<1>2. Steady(c, t)
  BY ProcessedSteady
<1>3. /\ t.observed = seen /\ t.severity = e.severity /\ t.filterUntil = s.filterUntil
      /\ t.pending = s.pending /\ t.shelf = s.shelf /\ t.mask \ {"AckT"} = s.mask \ {"AckT"}
  <2> HIDE DEF t
  <2>1. t = Processed(s, e, seen)
    BY DEF t
  <2> QED  BY <2>1, ProcessedFields
<1> HIDE DEF t
<1>4. requested' \subseteq requested \cup {c} /\ (c \in requested' => t.observed # Error)
  BY <1>1, <1>3
<1>5. Filters' /\ Asked'
  BY <1>1, <1>2, <1>4, OneChannel
<1>6. Gentle
  BY <1>1, <1>3, GentleChannel
<1>7. ch'[c] = t
  BY <1>1 DEF IInv, Core
<1>8. "Cancel" \notin t.mask
  BY <1>3
<1> QED  BY <1>3, <1>5, <1>6, <1>7, <1>8

LEMMA ArrivedFields ==
  ASSUME IInv, NEW c \in Channels, NEW e, NEW a, a = Arrived(c, e)
  PROVE  /\ a.pending = e /\ a.mask = ch[c].mask /\ a.shelf = ch[c].shelf
         /\ a.filterUntil = ch[c].filterUntil /\ a.edges = ch[c].edges
         /\ a.initialized = ch[c].initialized /\ a.status = ch[c].status
         /\ a.severity = ch[c].severity /\ a.observed = ch[c].observed
         /\ a.awaiting <=> (ch[c].awaiting \/ LosesCoverage(c, e))
<1>1. ch[c] \in ChannelState
  BY DEF IInv, Core
<1>2. a = [ch[c] EXCEPT !.pending = e, !.awaiting = ch[c].awaiting \/ LosesCoverage(c, e)]
  BY DEF Arrived
<1> QED  BY <1>1, <1>2 DEF ChannelState

(* The timer of a filter that is armed, for a channel that has a filter.   *)
LEMMA Armed ==
  ASSUME IInv, NEW c \in Channels, NEW s, s \in ChannelState,
         s.filterUntil = ch[c].filterUntil,
         FilterSeconds[c] # 0, NEW t, t = ArmFilter(c, s),
         nextStateDeadline' = Note(nextStateDeadline, t.filterUntil)
  PROVE  /\ t.filterUntil # 0 /\ FilterTurn(ch[c].filterUntil, t.filterUntil)
         /\ t.pending = s.pending /\ t.mask = s.mask /\ t.shelf = s.shelf
         /\ t.awaiting = s.awaiting /\ t.initialized = s.initialized
         /\ t.status = s.status /\ t.severity = s.severity /\ t.observed = s.observed
         /\ Advances(nextStateDeadline, nextStateDeadline')
<1>1. /\ mono \in Nat /\ FilterSeconds[c] \in Nat /\ nextStateDeadline \in Nat
      /\ s.filterUntil \in Nat
  BY OptionTyping DEF IInv, Clocks, Timers, ChannelState
<1> DEFINE d == IF s.filterUntil = 0 THEN mono + FilterSeconds[c] ELSE s.filterUntil
<1>2. t = [s EXCEPT !.filterUntil = d]
  BY DEF ArmFilter
<1>3. d \in Nat /\ d # 0 /\ (d = ch[c].filterUntil \/ d > mono)
  BY <1>1
<1> HIDE DEF d
<1>4. /\ t.filterUntil = d /\ t.pending = s.pending /\ t.mask = s.mask /\ t.shelf = s.shelf
      /\ t.awaiting = s.awaiting /\ t.initialized = s.initialized
      /\ t.status = s.status /\ t.severity = s.severity /\ t.observed = s.observed
  BY <1>2 DEF ChannelState
<1>5. nextStateDeadline' \in 1..d /\ Advances(nextStateDeadline, nextStateDeadline')
  BY <1>1, <1>3, <1>4 DEF Note, Advances
<1> QED  BY <1>3, <1>4, <1>5 DEF FilterTurn

LEMMA DispatchEvent ==
  ASSUME TInv, IInv', Gentle, NEW c \in Channels, NEW e \in Event,
         NEW op \in {"event", "edge"}, Running(op),
         \/ todo' = Rest
         \/ /\ todo' = << [op |-> "edge", node |-> c, event |-> e] >> \o Rest
            /\ FilterCount[c] > 0
            /\ ch'[c].pending = e /\ "Cancel" \notin ch'[c].mask
  PROVE  Dispatch'
<1> DEFINE edge == [op |-> "edge", node |-> c, event |-> e]
<1>1. /\ todo \in Seq(Task) /\ todo # << >> /\ Head(todo).op \in {"event", "edge"}
      /\ Rest \in Seq(Task) /\ Head(todo) = todo[1] /\ Rest = Tail(todo)
  BY HeadTask, Popped DEF TInv, IInv, Agenda, Running, Rest
<1>2. /\ Ordered(Rest, dispatching)
      /\ Rest # << >> => Rest[1].op \notin {"edge", "event"}
  BY <1>1, PoppedOrder DEF TInv, Dispatch
<1>3. Pending(Rest, dispatching, ExpiredTimers)
  BY <1>1, PendingChanges DEF TInv, Dispatch
<1>4. CASE todo' = Rest
  <2>1. todo' = << >> \o Rest
    BY <1>1, <1>4, ConcatEmptySeq
  <2>2. Ordered(<< >>, FALSE) /\ Fits(<< >>, Rest) /\ << >> \in Seq(Task)
    BY DEF Ordered, Fits
  <2>3. EdgeReady' /\ NothingOverdueAtEvent'
    BY <1>1, <1>2, <1>4 DEF EdgeReady, NothingOverdueAtEvent, Running
  <2> QED  BY <1>1, <1>2, <1>3, <2>1, <2>2, <2>3, DispatchJoined
<1>5. CASE /\ todo' = <<edge>> \o Rest
           /\ FilterCount[c] > 0
           /\ ch'[c].pending = e /\ "Cancel" \notin ch'[c].mask
  <2>1. edge \in Task /\ <<edge>> \in Seq(Task)
    BY <1>5, NewTasks DEF Counted
  <2>2. Ordered(<<edge>>, FALSE) /\ Fits(<<edge>>, Rest)
    BY <1>2 DEF Ordered, Fits
  <2>3. Head(todo') = edge
    BY <1>1, <1>5, <2>1, JoinedHead
  <2>4. EdgeReady' /\ NothingOverdueAtEvent'
    BY <1>5, <2>3 DEF EdgeReady, NothingOverdueAtEvent, Running
  <2> QED  BY <1>1, <1>2, <1>3, <1>5, <2>1, <2>2, <2>4, DispatchJoined
<1> QED  BY <1>4, <1>5

LEMMA EventTurns ==
  ASSUME TInv, HandleEvent
  PROVE  Filters' /\ Asked' /\ Dispatch'
<1> DEFINE c == Head(todo).node
           e == Head(todo).event
           a == Arrived(c, e)
<1>1. /\ Head(todo) \in Task /\ Head(todo).op = "event" /\ Running("event")
      /\ IInv /\ IInv' /\ Filters /\ Asked
      /\ UNCHANGED <<noAckUntil, nextShelfDeadline, dispatching, clocks>>
  <2>1. IInv /\ Filters /\ Asked
    BY DEF TInv
  <2>2. IInv'
    BY <2>1, EventKeeps
  <2> QED  BY <2>1, <2>2, HeadTask DEF HandleEvent, IInv
<1>2. c \in Channels /\ e \in Event /\ e.severity \in Nat
  BY <1>1, TaskFields DEF Event, Severity, Error
<1> HIDE DEF c, e
<1>3. /\ ch[c] \in ChannelState /\ Steady(c, ch[c])
      /\ a \in ChannelState /\ ArmFilter(c, a) \in ChannelState
  BY <1>1, <1>2, ArrivedSound DEF IInv, Core, Filters, Sound
<1>4. /\ a.pending = e /\ a.mask = ch[c].mask /\ a.shelf = ch[c].shelf
      /\ a.filterUntil = ch[c].filterUntil /\ a.edges = ch[c].edges
      /\ a.initialized = ch[c].initialized /\ a.status = ch[c].status
      /\ a.severity = ch[c].severity /\ a.observed = ch[c].observed
      /\ a.awaiting <=> (ch[c].awaiting \/ LosesCoverage(c, e))
  <2> HIDE DEF a
  <2>1. a = Arrived(c, e)
    BY DEF a
  <2> QED  BY <1>1, <1>2, <2>1, ArrivedFields
<1>5. FilterTurn(ch[c].filterUntil, ch[c].filterUntil) /\ FilterTurn(ch[c].filterUntil, 0)
      /\ (UNCHANGED nextStateDeadline => Advances(nextStateDeadline, nextStateDeadline'))
  BY DEF FilterTurn, Advances
<1>6. ASSUME ThenCount(c, e), Gentle, ch'[c].pending = e, "Cancel" \notin ch'[c].mask
      PROVE  Dispatch'
  <2>1. \/ todo' = Rest
        \/ /\ todo' = << [op |-> "edge", node |-> c, event |-> e] >> \o Rest
           /\ FilterCount[c] > 0
    BY <1>6 DEF ThenCount
  <2> QED  BY <1>1, <1>2, <1>6, <2>1, DispatchEvent
<1> DEFINE Kept == Filters' /\ Asked' /\ Dispatch'
<1>7. ASSUME IgnoreCancelled(c, e)  PROVE Kept
  <2>1. UNCHANGED <<ch, nextStateDeadline, requested>> /\ todo' = Rest
    BY <1>7 DEF IgnoreCancelled, channelVars
  <2>2. Gentle
    BY <1>1, <2>1, GentleStill
  <2>3. Filters' /\ Asked'
    BY <1>1, <2>1, StillChannels
  <2> QED  BY <1>1, <1>2, <2>1, <2>2, <2>3, DispatchEvent
<1>8. ASSUME PassUnfiltered(c, e)  PROVE Kept
  <2>1. /\ "Cancel" \notin ch[c].mask /\ Process(c, a, e, e.severity) /\ todo' = Rest
        /\ UNCHANGED nextStateDeadline /\ Bypasses(c)
    BY <1>8 DEF PassUnfiltered
  <2>2. ch[c].filterUntil = 0
    BY <1>3, <2>1 DEF Bypasses, Steady, Held, Error
  <2> HIDE DEF a
  <2>3. Filters' /\ Asked' /\ Gentle
    BY <1>1, <1>2, <1>3, <1>4, <1>5, <2>1, <2>2, ProcessTurn
  <2> QED  BY <1>1, <1>2, <2>1, <2>3, DispatchEvent
<1>9. ASSUME Filtered(c)  PROVE "Cancel" \notin ch[c].mask /\ FilterSeconds[c] # 0
  BY <1>9 DEF Filtered, Bypasses
<1>10. ASSUME StaysNormal(c, e)  PROVE Kept
  <2> DEFINE s == [a EXCEPT !.filterUntil = 0]
             t == [s EXCEPT !.observed = 0, !.awaiting = FALSE]
  <2>1. /\ Filtered(c) /\ ch[c].severity = 0 /\ e.severity = 0
        /\ ThenCount(c, e) /\ UNCHANGED nextStateDeadline
    BY <1>10 DEF StaysNormal
  <2>2. /\ s \in ChannelState /\ s.filterUntil = 0 /\ s.pending = e /\ s.mask = ch[c].mask
        /\ s.shelf = ch[c].shelf /\ s.severity = ch[c].severity /\ s.status = ch[c].status
        /\ s.initialized = ch[c].initialized
    <3> HIDE DEF a
    <3> QED  BY <1>3, <1>4 DEF ChannelState
  <2>3. CASE Process(c, s, e, 0)
    <3> HIDE DEF s
    <3>1. Filters' /\ Asked' /\ Gentle /\ ch'[c].pending = e /\ "Cancel" \notin ch'[c].mask
      BY <1>1, <1>2, <1>5, <1>9, <2>1, <2>2, <2>3, ProcessTurn DEF Error
    <3> QED  BY <1>6, <2>1, <3>1
  <2>4. CASE ch' = [ch EXCEPT ![c] = t] /\ UNCHANGED requested
    <3>1. /\ t.filterUntil = 0 /\ t.pending = e /\ t.mask = ch[c].mask
          /\ t.shelf = ch[c].shelf /\ t.severity = 0 /\ t.status = ch[c].status
          /\ t.initialized = ch[c].initialized /\ ~t.awaiting /\ t.observed = 0
      <4> HIDE DEF s
      <4> QED  BY <2>1, <2>2 DEF ChannelState
    <3> HIDE DEF t
    <3>2. Steady(c, t)
      BY <1>3, <1>9, <2>1, <3>1 DEF Steady, Quiet, Held, Unseen, HeldBack
    <3>3. Filters' /\ Asked'
      <4>1. requested' \subseteq requested \cup {c} /\ (c \in requested' => t.observed # Error)
        BY <2>4, <3>1 DEF Error
      <4> QED  BY <1>1, <1>2, <2>4, <3>2, <4>1, OneChannel
    <3>4. Gentle
      BY <1>1, <1>2, <1>5, <2>1, <2>4, <3>1, GentleChannel
    <3>5. ch'[c] = t
      BY <1>1, <1>2, <2>4 DEF IInv, Core
    <3>6. ch'[c].pending = e /\ "Cancel" \notin ch'[c].mask
      BY <1>9, <2>1, <3>1, <3>5
    <3> QED  BY <1>6, <2>1, <3>3, <3>4, <3>6
  <2> QED  BY <1>10, <2>3, <2>4 DEF StaysNormal
<1>11. ASSUME StaysInAlarm(c, e)  PROVE Kept
  <2> DEFINE s == [a EXCEPT !.filterUntil = 0]
  <2>1. /\ Filtered(c) /\ ch[c].severity # 0 /\ e.severity # 0
        /\ ThenCount(c, e) /\ UNCHANGED nextStateDeadline
        /\ Process(c, s, e, e.severity)
    BY <1>11 DEF StaysInAlarm
  <2>2. /\ s \in ChannelState /\ s.filterUntil = 0 /\ s.pending = e /\ s.mask = ch[c].mask
        /\ s.shelf = ch[c].shelf
    <3> HIDE DEF a
    <3> QED  BY <1>3, <1>4 DEF ChannelState
  <2> HIDE DEF s
  <2>3. Filters' /\ Asked' /\ Gentle /\ ch'[c].pending = e /\ "Cancel" \notin ch'[c].mask
    BY <1>1, <1>2, <1>5, <1>9, <2>1, <2>2, ProcessTurn
  <2> QED  BY <1>6, <2>1, <2>3
<1>12. ASSUME HoldAlarm(c, e)  PROVE Kept
  <2> DEFINE s == ArmFilter(c, a)
  <2>1. /\ Filtered(c) /\ ch[c].severity = 0 /\ e.severity # 0
        /\ ch' = [ch EXCEPT ![c] = s]
        /\ requested' = IF LosesCoverage(c, e) THEN requested \ {c} ELSE requested
        /\ nextStateDeadline' = Note(nextStateDeadline, s.filterUntil)
        /\ ThenCount(c, e)
    BY <1>12 DEF HoldAlarm
  <2> HIDE DEF a
  <2>2. s = ArmFilter(c, a)
    OBVIOUS
  <2> HIDE DEF s
  <2>3. /\ s.filterUntil # 0 /\ FilterTurn(ch[c].filterUntil, s.filterUntil)
        /\ s.pending = e /\ s.mask = ch[c].mask /\ s.shelf = ch[c].shelf
        /\ s.initialized = ch[c].initialized /\ s.observed = ch[c].observed
        /\ s.status = ch[c].status /\ s.severity = 0
        /\ Advances(nextStateDeadline, nextStateDeadline')
    BY <1>1, <1>2, <1>3, <1>4, <1>9, <2>1, <2>2, Armed
  <2>4. Steady(c, s)
    BY <1>3, <1>9, <2>1, <2>3 DEF Steady, Quiet, Held, Unseen, HeldBack
  <2>5. requested' \subseteq requested \cup {c} /\ (c \in requested' => s.observed # Error)
    BY <1>1, <2>1, <2>3 DEF Asked
  <2>6. Filters' /\ Asked'
    BY <1>1, <1>2, <2>1, <2>4, <2>5, OneChannel
  <2>7. Gentle
    BY <1>1, <1>2, <2>1, <2>3, GentleChannel
  <2>8. ch'[c] = s
    BY <1>1, <1>2, <2>1 DEF IInv, Core
  <2>9. ch'[c].pending = e /\ "Cancel" \notin ch'[c].mask
    BY <1>9, <2>1, <2>3, <2>8
  <2> QED  BY <1>6, <2>1, <2>6, <2>7, <2>9
<1>13. ASSUME HoldRecovery(c, e)  PROVE Kept
  <2> DEFINE held == [e EXCEPT !.status = ch[c].status, !.severity = ch[c].severity]
             s == ArmFilter(c, a)
             r == FilterReset(a)
  <2>1. Filtered(c) /\ ch[c].severity # 0 /\ e.severity = 0 /\ ThenCount(c, e)
    BY <1>13 DEF HoldRecovery
  <2>2. CASE Process(c, r, e, 0) /\ UNCHANGED nextStateDeadline
    <3>1. /\ r \in ChannelState /\ r.filterUntil = 0 /\ r.pending = e
          /\ r.mask = ch[c].mask /\ r.shelf = ch[c].shelf
      <4>1. r \in ChannelState
        BY <1>1, <1>2, ArrivedSound, FilterChanges DEF Sound
      <4> HIDE DEF a
      <4> QED  BY <1>3, <1>4, <4>1 DEF FilterReset, ChannelState
    <3> HIDE DEF r
    <3>2. Filters' /\ Asked' /\ Gentle /\ ch'[c].pending = e /\ "Cancel" \notin ch'[c].mask
      BY <1>1, <1>2, <1>5, <1>9, <2>1, <2>2, <3>1, ProcessTurn DEF Error
    <3> QED  BY <1>6, <2>1, <3>2
  <2>3. CASE Process(c, s, held, 0) /\ nextStateDeadline' = Note(nextStateDeadline, s.filterUntil)
    <3> HIDE DEF a
    <3>1. s = ArmFilter(c, a) /\ s \in ChannelState
      BY <1>3
    <3>2. held.severity = ch[c].severity
      BY <1>2 DEF Event
    <3> HIDE DEF s, held
    <3>3. /\ s.filterUntil # 0 /\ FilterTurn(ch[c].filterUntil, s.filterUntil)
          /\ s.pending = e /\ s.mask = ch[c].mask /\ s.shelf = ch[c].shelf
          /\ Advances(nextStateDeadline, nextStateDeadline')
      BY <1>1, <1>2, <1>3, <1>4, <1>9, <2>1, <2>3, <3>1, Armed
    <3>4. Filters' /\ Asked' /\ Gentle /\ ch'[c].pending = e /\ "Cancel" \notin ch'[c].mask
      BY <1>1, <1>2, <1>9, <2>1, <2>3, <3>1, <3>2, <3>3, ProcessTurn DEF Error
    <3> QED  BY <1>6, <2>1, <3>4
  <2> QED  BY <1>13, <2>2, <2>3 DEF HoldRecovery
<1> QED  BY <1>7, <1>8, <1>10, <1>11, <1>12, <1>13 DEF HandleEvent, c, e

LEMMA EdgeTurns ==
  ASSUME TInv, CountEdge
  PROVE  Filters' /\ Asked' /\ Dispatch'
<1> DEFINE c == Head(todo).node
           e == Head(todo).event
           s == ch[c]
           old == s.edges[s.edgeIndex + 1]
<1>1. IInv /\ IInv' /\ Filters /\ Asked
  BY EdgeKeeps DEF TInv
<1>2. /\ Head(todo) \in Task /\ Head(todo).op = "edge" /\ Running("edge")
      /\ todo' = Rest
      /\ UNCHANGED <<noAckUntil, nextStateDeadline, nextShelfDeadline, dispatching, clocks>>
  BY <1>1, HeadTask DEF CountEdge, IInv, timerVars
<1>3. c \in Channels /\ e \in Event /\ "Cancel" \notin s.mask /\ s.pending = e
  BY <1>2, TaskFields DEF Counted, TInv, Dispatch, EdgeReady
<1> HIDE DEF c, e
<1>4. s \in ChannelState /\ Steady(c, s) /\ Sound(c, s)
  BY <1>1, <1>3 DEF IInv, Core, Filters
<1>5. /\ FilterTurn(ch[c].filterUntil, ch[c].filterUntil) /\ FilterTurn(ch[c].filterUntil, 0)
      /\ Advances(nextStateDeadline, nextStateDeadline')
  BY <1>2 DEF FilterTurn, Advances
<1>6. ASSUME Process(c, FilterReset(s), e, e.severity)
      PROVE  Filters' /\ Asked' /\ Gentle
  <2> DEFINE r == FilterReset(s)
  <2>1. /\ r \in ChannelState /\ r.filterUntil = 0 /\ r.pending = e
        /\ r.mask = s.mask /\ r.shelf = s.shelf
    <3>1. r \in ChannelState
      BY <1>3, <1>4, FilterChanges DEF Sound
    <3> QED  BY <1>3, <1>4, <3>1 DEF FilterReset, ChannelState
  <2>2. Process(c, r, e, e.severity)
    BY <1>6
  <2> HIDE DEF r
  <2> QED  BY <1>1, <1>2, <1>3, <1>5, <2>1, <2>2, ProcessTurn
<1>7. ASSUME ch' = [ch EXCEPT ![c].edges[s.edgeIndex + 1] = mono,
                              ![c].edgeIndex = (s.edgeIndex + 1) % Len(s.edges)],
             UNCHANGED requested
      PROVE  Filters' /\ Asked' /\ Gentle
  <2> DEFINE t == [s EXCEPT !.edges = [s.edges EXCEPT ![s.edgeIndex + 1] = mono],
                            !.edgeIndex = (s.edgeIndex + 1) % Len(s.edges)]
  <2>1. ch' = [ch EXCEPT ![c] = t]
    BY <1>1, <1>3, <1>4, <1>7 DEF IInv, Core, ChannelState
  <2>2. /\ t.filterUntil = s.filterUntil /\ t.awaiting = s.awaiting
        /\ t.initialized = s.initialized /\ t.status = s.status /\ t.severity = s.severity
        /\ t.pending = s.pending /\ t.mask = s.mask /\ t.shelf = s.shelf
        /\ t.observed = s.observed
    BY <1>4 DEF ChannelState
  <2> HIDE DEF t
  <2>3. Steady(c, t)
    BY <1>3, <1>4, <2>2 DEF Steady, Quiet, Held, Unseen, HeldBack
  <2>4. requested' \subseteq requested \cup {c} /\ (c \in requested' => t.observed # Error)
    BY <1>1, <1>7, <2>2 DEF Asked
  <2>5. Filters' /\ Asked'
    BY <1>1, <1>3, <2>1, <2>3, <2>4, OneChannel
  <2>6. Gentle
    BY <1>1, <1>2, <1>3, <1>5, <2>1, <2>2, GentleChannel
  <2> QED  BY <2>5, <2>6
<1>8. Filters' /\ Asked' /\ Gentle
  BY <1>6, <1>7 DEF CountEdge, c, e
<1>9. Dispatch'
  BY <1>1, <1>2, <1>3, <1>8, DispatchEvent
<1> QED  BY <1>8, <1>9

(***************************************************************************)
(* The dispatch of what is due.                                            *)
(***************************************************************************)
LEMMA Reheaded ==
  ASSUME NEW s \in Seq(Task), s # << >>, NEW t \in Task, t.op = Head(s).op,
         NEW r, r = <<t>> \o Tail(s)
  PROVE  /\ r \in Seq(Task) /\ Len(r) = Len(s)
         /\ \A i \in 1..Len(s) : r[i] = IF i = 1 THEN t ELSE s[i]
         /\ \A d : Ordered(s, d) => Ordered(r, d)
<1>1. /\ Tail(s) \in Seq(Task) /\ Len(s) \in Nat \ {0} /\ Len(Tail(s)) = Len(s) - 1
      /\ \A i \in 1..Len(s) - 1 : Tail(s)[i] = s[i + 1]
      /\ Head(s) = s[1]
  BY Popped
<1>2. <<t>> \in Seq(Task) /\ Len(<<t>>) = 1 /\ <<t>>[1] = t
  OBVIOUS
<1>3. /\ r \in Seq(Task) /\ Len(r) = 1 + Len(Tail(s))
      /\ \A i \in 1..1 + Len(Tail(s)) : r[i] = IF i <= 1 THEN <<t>>[i] ELSE Tail(s)[i - 1]
  BY <1>1, <1>2, ConcatProperties
<1>4. Len(r) = Len(s)
  BY <1>1, <1>3
<1>5. ASSUME NEW i \in 1..Len(s)  PROVE r[i] = IF i = 1 THEN t ELSE s[i]
  <2>1. CASE i = 1
    BY <1>1, <1>2, <1>3, <2>1
  <2>2. CASE i # 1
    <3>1. i - 1 \in 1..Len(s) - 1 /\ i \in 1..1 + Len(Tail(s)) /\ ~(i <= 1) /\ (i - 1) + 1 = i
      BY <1>1, <2>2
    <3> QED  BY <1>1, <1>3, <2>2, <3>1
  <2> QED  BY <2>1, <2>2
<1>6. \A i \in 1..Len(s) : r[i].op = s[i].op
  BY <1>1, <1>5
<1>7. ASSUME NEW d, Ordered(s, d)  PROVE Ordered(r, d)
  <2>1. \A i \in 2..Len(s) : i \in 1..Len(s) /\ i - 1 \in 1..Len(s)
    BY <1>1
  <2>2. \A i \in 1..Len(s) : i < Len(s) => i + 1 \in 1..Len(s)
    BY <1>1
  <2>3. \A i \in 1..Len(s) : s[i].op = "timers" => i < Len(s) /\ s[i + 1].op = "shelves"
    BY <1>7 DEF Ordered
  <2>4. \A i \in 1..Len(s) : r[i].op = "timers" => i < Len(s) /\ r[i + 1].op = "shelves"
    BY <1>6, <2>2, <2>3
  <2>5. \A i \in 2..Len(s) : r[i].op = "event" => r[i - 1].op \in {"deadlines", "shelves"}
    BY <1>6, <1>7, <2>1 DEF Ordered
  <2> QED  BY <1>4, <1>6, <1>7, <2>1, <2>4, <2>5 DEF Ordered
<1> QED  BY <1>3, <1>4, <1>5, <1>7

(* There is one set of timers, at the head.                                *)
LEMMA OnlyTimers ==
  ASSUME NEW s \in Seq(Task), NEW d, Ordered(s, d), s # << >>,
         NEW i \in 1..Len(s), s[i].op = "timers"
  PROVE  /\ Head(s).op = "timers" => i = 1
         /\ Head(s).op # "shelves"
         /\ d
<1>1. i + 1 \in 1..Len(s) /\ s[i + 1].op = "shelves" /\ Head(s) = s[1] /\ 1 \in 1..Len(s)
      /\ Len(s) \in Nat
  <2>1. Len(s) \in Nat \ {0} /\ Head(s) = s[1]
    BY Popped
  <2>2. i < Len(s) /\ s[i + 1].op = "shelves"
    BY DEF Ordered
  <2> QED  BY <2>1, <2>2
<1>2. ASSUME Head(s).op = "timers"  PROVE i = 1
  <2>1. 1 < Len(s) /\ s[1 + 1].op = "shelves"
    BY <1>1, <1>2 DEF Ordered
  <2>2. 1 + 1 \in 1..Len(s)
    BY <1>1, <2>1
  <2>3. 1 + 1 = i + 1
    BY <1>1, <2>1, <2>2 DEF Ordered
  <2> QED  BY <2>3
<1>3. Head(s).op # "shelves"
  <2> SUFFICES ASSUME Head(s).op = "shelves"  PROVE FALSE
    OBVIOUS
  <2>1. 1 = i + 1
    BY <1>1 DEF Ordered
  <2> QED  BY <2>1
<1>4. d
  BY <1>1 DEF Ordered
<1> QED  BY <1>2, <1>3, <1>4

(* A dispatch that starts before the agenda r.                             *)
LEMMA Started ==
  ASSUME NEW r \in Seq(Task), Ordered(r, FALSE), r # << >> => r[1].op # "edge",
         NEW t \in Task, t.op = "timers", NEW u \in Task, u.op = "shelves",
         NEW q, q = <<t, u>> \o r
  PROVE  /\ Ordered(q, TRUE) /\ Pending(q, TRUE, t.due)
         /\ q # << >> /\ Head(q) = t
<1>1. <<t, u>> \in Seq(Task) /\ Len(<<t, u>>) = 2 /\ <<t, u>>[1] = t /\ <<t, u>>[2] = u
  OBVIOUS
<1>2. /\ q \in Seq(Task) /\ Len(q) = 2 + Len(r) /\ Len(r) \in Nat
      /\ \A i \in 1..2 + Len(r) : q[i] = IF i <= 2 THEN <<t, u>>[i] ELSE r[i - 2]
  BY <1>1, ConcatProperties
<1>3. q[1] = t /\ q[2] = u /\ 1 \in 1..Len(q) /\ 2 \in 1..Len(q)
  BY <1>1, <1>2
<1>4. \A i \in 1..Len(q) : i \in {1, 2} \/ (i \in 3..Len(q) /\ i - 2 \in 1..Len(r) /\ q[i] = r[i - 2])
  BY <1>2
<1>5. \A i \in 1..Len(r) : r[i].op # "shelves"
  BY DEF Ordered
<1>6. \A i \in 1..Len(r) : r[i].op # "timers"
  <2>1. \A i \in 1..Len(r) : i < Len(r) => i + 1 \in 1..Len(r)
    BY <1>2
  <2> QED  BY <1>5, <2>1 DEF Ordered
<1>7. \A i \in 1..Len(q) : /\ q[i].op = "shelves" <=> i = 2
                           /\ q[i].op = "timers" <=> i = 1
  BY <1>3, <1>4, <1>5, <1>6
<1>8. \A i \in 2..Len(q) : q[i].op = "event" => q[i - 1].op \in {"deadlines", "shelves"}
  <2> SUFFICES ASSUME NEW i \in 2..Len(q), q[i].op = "event"
               PROVE  q[i - 1].op \in {"deadlines", "shelves"}
    OBVIOUS
  <2>1. i \in 3..Len(q) /\ i - 2 \in 1..Len(r) /\ q[i] = r[i - 2]
    BY <1>2, <1>3, <1>4
  <2>2. CASE i = 3
    BY <1>3, <2>2
  <2>3. CASE i # 3
    <3>1. /\ i - 1 \in 1..Len(q) /\ i - 1 \notin {1, 2} /\ (i - 1) - 2 = (i - 2) - 1
          /\ i - 2 \in 2..Len(r)
      BY <1>2, <2>1, <2>3
    <3>2. q[i - 1] = r[(i - 2) - 1]
      BY <1>4, <3>1
    <3> QED  BY <2>1, <3>1, <3>2 DEF Ordered
  <2> QED  BY <2>2, <2>3
<1>9. \A i \in 2..Len(q) : q[i].op # "edge"
  <2> SUFFICES ASSUME NEW i \in 2..Len(q)  PROVE q[i].op # "edge"
    OBVIOUS
  <2>1. CASE i = 2
    BY <1>3, <2>1
  <2>2. CASE i # 2
    <3>1. i - 2 \in 1..Len(r) /\ q[i] = r[i - 2] /\ (i - 2 = 1 \/ i - 2 \in 2..Len(r))
      BY <1>2, <1>4, <2>2
    <3>2. r # << >>
      BY <3>1
    <3> QED  BY <3>1, <3>2 DEF Ordered
  <2> QED  BY <2>1, <2>2
<1>10. Ordered(q, TRUE)
  <2>1. 1 < Len(q) /\ q[1 + 1].op = "shelves"
    BY <1>2, <1>3
  <2> QED  BY <1>3, <1>7, <1>8, <1>9, <2>1 DEF Ordered
<1>11. Pending(q, TRUE, t.due)
  BY <1>3, <1>7 DEF Pending
<1>12. q # << >> /\ Head(q) = t
  BY <1>2, <1>3
<1> QED  BY <1>10, <1>11, <1>12

LEMMA DeadlineTurns ==
  ASSUME TInv, ScanDeadlines
  PROVE  Filters' /\ Asked' /\ Dispatch'
<1>1. /\ IInv /\ IInv' /\ Filters /\ Asked /\ DeadlinesCovered
      /\ UNCHANGED <<ch, noAckUntil, requested, clocks>>
  BY DeadlinesKeep DEF TInv, Dispatch, ScanDeadlines
<1>2. Filters' /\ Asked'
  BY <1>1, StillChannels
<1>3. /\ todo \in Seq(Task) /\ todo # << >> /\ Head(todo).op = "deadlines"
      /\ Rest \in Seq(Task) /\ Head(todo) = todo[1] /\ Rest = Tail(todo)
  BY <1>1, HeadTask, Popped DEF IInv, Agenda, Running, Rest, ScanDeadlines
<1>4. Ordered(Rest, dispatching) /\ (Rest # << >> => Rest[1].op # "edge")
  BY <1>3, PoppedOrder DEF TInv, Dispatch
<1>5. Pending(Rest, dispatching, ExpiredTimers)
  BY <1>3, PendingChanges DEF TInv, Dispatch
<1>6. CASE /\ DeadlineDue /\ ~dispatching /\ dispatching' = TRUE
           /\ todo' = << [op |-> "timers", due |-> ExpiredTimers], [op |-> "shelves"] >> \o Rest
  <2> DEFINE t == [op |-> "timers", due |-> ExpiredTimers]
             u == [op |-> "shelves"]
  <2>1. t \in Task /\ u \in Task /\ t.op = "timers" /\ u.op = "shelves" /\ t.due = ExpiredTimers
    BY <1>1, ExpiredTimersType, NewTasks
  <2> HIDE DEF t, u
  <2>2. todo' = <<t, u>> \o Rest
    BY <1>6 DEF t, u
  <2>3. /\ Ordered(todo', TRUE) /\ Pending(todo', TRUE, ExpiredTimers)
        /\ todo' # << >> /\ Head(todo') = t
    <3>1. Ordered(Rest, FALSE)
      <4>1. dispatching = FALSE
        BY <1>1, <1>6 DEF IInv, Timers
      <4> QED  BY <1>4, <4>1
    <3> QED  BY <1>3, <1>4, <2>1, <2>2, <3>1, Started
  <2>4. ExpiredTimers' = ExpiredTimers
    BY <1>1 DEF ExpiredTimers, clocks
  <2>5. EdgeReady' /\ DeadlinesCovered' /\ NothingOverdueAtEvent'
    BY <1>6, <2>1, <2>3 DEF EdgeReady, DeadlinesCovered, NothingOverdueAtEvent, Running
  <2> QED  BY <1>2, <1>6, <2>3, <2>4, <2>5 DEF Dispatch
<1>7. CASE /\ ~DeadlineDue \/ dispatching
           /\ todo' = Rest
           /\ UNCHANGED <<nextStateDeadline, nextShelfDeadline, dispatching>>
  <2>1. Gentle
    BY <1>1, <1>7, GentleStill
  <2>2. EdgeReady'
    BY <1>4, <1>7, <1>3 DEF EdgeReady, Running
  <2>3. NothingOverdueAtEvent'
    <3> SUFFICES ASSUME ~dispatching
                 PROVE  /\ \A c \in Channels : /\ ch[c].filterUntil = 0 \/ ch[c].filterUntil > mono
                                               /\ ch[c].shelf = 0 \/ ch[c].shelf > wall
                        /\ \A n \in Nodes : noAckUntil[n] = 0 \/ noAckUntil[n] > mono
      BY <1>1, <1>7 DEF NothingOverdueAtEvent, clocks
    <3>1. /\ nextStateDeadline \in Nat /\ nextShelfDeadline \in Nat /\ mono \in Nat /\ wall \in Nat
          /\ noAckUntil \in [Nodes -> Nat]
          /\ \A c \in Channels : ch[c].filterUntil \in Nat /\ ch[c].shelf \in Nat
      BY <1>1 DEF IInv, Core, Timers, Clocks, ChannelState
    <3>2. /\ ~(nextStateDeadline # 0 /\ mono >= nextStateDeadline)
          /\ ~(nextShelfDeadline # 0 /\ wall >= nextShelfDeadline)
      BY <1>7 DEF DeadlineDue
    <3> QED  BY <1>1, <3>1, <3>2 DEF DeadlinesCovered
  <2>4. /\ << >> \in Seq(Task) /\ Ordered(<< >>, FALSE) /\ Fits(<< >>, Rest)
        /\ todo' = << >> \o Rest
    BY <1>3, <1>7, ConcatEmptySeq DEF Ordered, Fits
  <2> QED  BY <1>1, <1>2, <1>3, <1>4, <1>5, <2>1, <2>2, <2>3, <2>4, DispatchJoined
<1> QED  BY <1>6, <1>7 DEF ScanDeadlines

LEMMA DispatchNext ==
  ASSUME TInv, IInv', Gentle, Running("timers"), NEW t, t \notin ExpiredTimers',
         NEW next \in Task, next.op = "timers", next.due = Head(todo).due \ {t},
         NEW new \in Seq(Task), Plain(new),
         todo' = new \o (<<next>> \o Rest)
  PROVE  Dispatch'
<1> DEFINE r == <<next>> \o Rest
<1>1. /\ todo \in Seq(Task) /\ todo # << >> /\ Head(todo).op = "timers" /\ Head(todo) \in Task
      /\ Rest = Tail(todo) /\ Head(todo) = todo[1] /\ 1 \in 1..Len(todo)
      /\ Rest \in Seq(Task) /\ IInv
  BY HeadTask, Popped DEF TInv, IInv, Agenda, Running, Rest
<1>2. next.op = "timers" /\ next.due = Head(todo).due \ {t}
  OBVIOUS
<1>3. /\ r \in Seq(Task) /\ Len(r) = Len(todo) /\ Ordered(r, dispatching)
      /\ \A i \in 1..Len(todo) : r[i] = IF i = 1 THEN next ELSE todo[i]
  <2>1. Ordered(todo, dispatching)
    BY DEF TInv, Dispatch
  <2>2. r = <<next>> \o Tail(todo)
    BY <1>1
  <2> HIDE DEF r
  <2>3. /\ r \in Seq(Task) /\ Len(r) = Len(todo)
        /\ \A i \in 1..Len(todo) : r[i] = IF i = 1 THEN next ELSE todo[i]
        /\ \A d : Ordered(todo, d) => Ordered(r, d)
    <3>1. next.op = Head(todo).op
      BY <1>1, <1>2
    <3>2. todo \in Seq(Task) /\ todo # << >>
      BY <1>1
    <3>3. \A i \in 1..Len(todo) : r[i] = IF i = 1 THEN next ELSE todo[i]
      BY ONLY <2>2, <3>1, <3>2, next \in Task, Reheaded
    <3>4. r \in Seq(Task) /\ Len(r) = Len(todo) /\ \A d : Ordered(todo, d) => Ordered(r, d)
      BY ONLY <2>2, <3>1, <3>2, next \in Task, Reheaded
    <3> QED  BY <3>3, <3>4
  <2> QED  BY <2>1, <2>3
<1> HIDE DEF r
<1>4. Pending(r, dispatching, ExpiredTimers')
  <2>1. ExpiredTimers' \subseteq ExpiredTimers
    BY GentleExpires DEF TInv
  <2>2. ExpiredTimers \subseteq Head(todo).due
    BY <1>1 DEF TInv, Dispatch, Pending
  <2>3. \A i \in 1..Len(todo) : todo[i].op = "timers" => i = 1
    BY <1>1, OnlyTimers DEF TInv, Dispatch
  <2> QED  BY <1>1, <1>2, <1>3, <2>1, <2>2, <2>3 DEF Pending
<1>5. r # << >> /\ r[1] = next /\ Head(r) = next
  <2>1. Len(r) \in Nat \ {0} /\ r \in Seq(Task) /\ r[1] = next
    BY <1>1, <1>3, Popped
  <2>2. r # << >>
    BY <2>1
  <2> QED  BY <2>1, <2>2, Popped
<1>6. Ordered(new, FALSE) /\ Fits(new, r)
  BY <1>2, <1>5, PlainOrder DEF Fits
<1>7. todo' = new \o r
  BY DEF r
<1>8. todo' # << >> /\ Head(todo').op \notin {"edge", "event"}
  <2>1. CASE new = << >>
    <3>1. todo' = r
      BY <1>3, <1>7, <2>1, JoinedHead
    <3> QED  BY <1>2, <1>5, <3>1
  <2>2. CASE new # << >>
    <3>1. todo' # << >> /\ Head(todo') = new[1] /\ 1 \in 1..Len(new)
      BY <1>3, <1>7, <2>2, JoinedHead
    <3> QED  BY <3>1 DEF Plain, PlainOps
  <2> QED  BY <2>1, <2>2
<1>9. EdgeReady' /\ NothingOverdueAtEvent'
  BY <1>8 DEF EdgeReady, NothingOverdueAtEvent, Running
<1> QED  BY <1>3, <1>4, <1>6, <1>7, <1>9, DispatchJoined

LEMMA WhichTimer ==
  ASSUME NEW t \in ExpiredTimers
  PROVE  /\ t.filter => /\ t.node \in Channels /\ "Cancel" \notin ch[t.node].mask
                        /\ ch[t.node].filterUntil # 0
         /\ ~t.filter => t.node \in Nodes
  BY DEF ExpiredTimers

LEMMA TwoThenRest ==
  ASSUME NEW a \in Task, NEW b \in Task, NEW r \in Seq(Task)
  PROVE  <<a, b>> \o r = <<a>> \o (<<b>> \o r)
<1>1. <<a>> \in Seq(Task) /\ <<b>> \in Seq(Task)
  OBVIOUS
<1>2. <<a>> \o (<<b>> \o r) = (<<a>> \o <<b>>) \o r
  BY <1>1, ConcatAssociative
<1>3. <<a>> \o <<b>> = <<a, b>>
  <2>1. /\ <<a>> \o <<b>> \in Seq(Task) /\ Len(<<a>> \o <<b>>) = 2
        /\ (<<a>> \o <<b>>)[1] = a /\ (<<a>> \o <<b>>)[2] = b
    BY <1>1, ConcatProperties
  <2>2. <<a, b>> \in Seq(Task) /\ Len(<<a, b>>) = 2 /\ <<a, b>>[1] = a /\ <<a, b>>[2] = b
    OBVIOUS
  <2>3. \A i \in 1..2 : (<<a>> \o <<b>>)[i] = <<a, b>>[i]
    BY <2>1, <2>2
  <2> QED  BY <2>1, <2>2, <2>3, SeqEqual
<1> QED  BY <1>2, <1>3

LEMMA TimerTurns ==
  ASSUME TInv, DispatchTimer
  PROVE  Filters' /\ Asked' /\ Dispatch'
<1> DEFINE due == Head(todo).due
           t == FirstOf(due)
           next == [Head(todo) EXCEPT !.due = @ \ {t}]
<1>1. /\ Head(todo) \in Task /\ Running("timers") /\ Head(todo).op = "timers"
      /\ Rest \in Seq(Task) /\ IInv /\ IInv' /\ Filters /\ Asked
      /\ UNCHANGED <<nextStateDeadline, nextShelfDeadline, dispatching, clocks>>
  <2>1. IInv /\ IInv' /\ Filters /\ Asked
    BY TimerKeeps DEF TInv
  <2> QED  BY <2>1, HeadTask DEF DispatchTimer, IInv
<1>2. next \in Task /\ next.op = "timers" /\ next.due = Head(todo).due \ {t}
  <2>1. next \in Task
    BY <1>1, TaskChanges
  <2>2. Head(todo).op = "timers" /\ Head(todo) \in Task
    BY <1>1
  <2> QED  BY <2>1, <2>2 DEF Task
<1> HIDE DEF next, t
<1>3. ASSUME Gentle, t \notin ExpiredTimers', todo' = <<next>> \o Rest
      PROVE  Dispatch'
  <2>1. <<next>> \o Rest \in Seq(Task)
    BY <1>1, <1>2, Push
  <2>2. /\ << >> \in Seq(Task) /\ Plain(<< >>)
        /\ todo' = << >> \o (<<next>> \o Rest)
    BY <1>3, <2>1, ConcatEmptySeq DEF Plain
  <2> QED  BY <1>1, <1>2, <1>3, <2>2, DispatchNext
<1> DEFINE Kept == Filters' /\ Asked' /\ Dispatch'
<1>4. ASSUME FilterExpires(t)  PROVE Kept
  <2> DEFINE c == t.node
             s == FilterReset(ch[c])
  <2>1. /\ t.filter /\ t \in ExpiredTimers /\ todo' = <<next>> \o Rest
        /\ Process(c, s, s.pending, s.pending.severity)
        /\ UNCHANGED noAckUntil
    BY <1>4 DEF FilterExpires, next
  <2>2. c \in Channels /\ "Cancel" \notin ch[c].mask
    BY <2>1, WhichTimer
  <2> HIDE DEF c
  <2>3. ch[c] \in ChannelState /\ s \in ChannelState
    BY <1>1, <2>2, FilterChanges DEF IInv, Core, Sound
  <2>4. s.filterUntil = 0 /\ s.mask = ch[c].mask /\ s.shelf = ch[c].shelf
    BY <2>3 DEF FilterReset, ChannelState
  <2>5. FilterTurn(ch[c].filterUntil, 0) /\ Advances(nextStateDeadline, nextStateDeadline')
    BY <1>1 DEF FilterTurn, Advances
  <2> HIDE DEF s
  <2>6. Filters' /\ Asked' /\ Gentle /\ ch'[c].filterUntil = 0
    BY <1>1, <2>1, <2>2, <2>3, <2>4, <2>5, ProcessTurn
  <2>7. t \notin ExpiredTimers'
    <3> SUFFICES ASSUME t \in ExpiredTimers'  PROVE FALSE
      OBVIOUS
    <3>1. t.deadline = (IF t.filter THEN ch'[t.node].filterUntil ELSE noAckUntil'[t.node])
          /\ t.deadline # 0
      BY <1>1, <2>6, GentleExpires
    <3> QED  BY <2>1, <2>6, <3>1 DEF c
  <2> QED  BY <1>3, <2>1, <2>6, <2>7
<1>5. ASSUME NoAckExpires(t)  PROVE Kept
  <2> DEFINE a == [op |-> "noAck", node |-> t.node, top |-> t.node, on |-> FALSE]
  <2>1. /\ ~t.filter /\ t \in ExpiredTimers /\ todo' = <<a, next>> \o Rest
        /\ noAckUntil' = [noAckUntil EXCEPT ![t.node] = 0]
        /\ UNCHANGED <<ch, requested>>
    BY <1>5 DEF NoAckExpires, next, channelVars
  <2>2. t.node \in Nodes
    BY <2>1, WhichTimer
  <2>3. a \in Task /\ a.op = "noAck"
    BY <2>2, NewTasks
  <2>4. noAckUntil \in [Nodes -> Nat]
    BY <1>1 DEF IInv, Timers
  <2>5. Gentle
    BY <1>1, <2>1, <2>4, GentleStill
  <2>6. Filters' /\ Asked'
    BY <1>1, <2>1, StillChannels
  <2>7. t \notin ExpiredTimers'
    <3> SUFFICES ASSUME t \in ExpiredTimers'  PROVE FALSE
      OBVIOUS
    <3>1. t.deadline = (IF t.filter THEN ch'[t.node].filterUntil ELSE noAckUntil'[t.node])
          /\ t.deadline # 0
      BY <1>1, <2>5, GentleExpires
    <3> QED  BY <2>1, <2>2, <2>4, <3>1
  <2> HIDE DEF a
  <2>8. todo' = <<a>> \o (<<next>> \o Rest)
    BY <1>1, <1>2, <2>1, <2>3, TwoThenRest
  <2>9. <<a>> \in Seq(Task) /\ Plain(<<a>>)
    BY <2>3 DEF Plain, PlainOps
  <2> QED  BY <1>1, <1>2, <2>5, <2>6, <2>7, <2>8, <2>9, DispatchNext
<1>6. ASSUME DropStaleTimer(t)  PROVE Kept
  <2>1. /\ t \notin ExpiredTimers /\ todo' = <<next>> \o Rest
        /\ UNCHANGED <<ch, noAckUntil, requested>>
    BY <1>6 DEF DropStaleTimer, next, channelVars
  <2>2. Gentle
    BY <1>1, <2>1, GentleStill
  <2>3. t \notin ExpiredTimers'
    BY <1>1, <2>1, <2>2, GentleExpires
  <2>4. Filters' /\ Asked'
    BY <1>1, <2>1, StillChannels
  <2> QED  BY <1>3, <2>1, <2>2, <2>3, <2>4
<1>7. ASSUME due = {}, todo' = Rest, UNCHANGED <<channelVars, noAckUntil, requested>>
      PROVE  Kept
  <2>1. UNCHANGED <<ch, noAckUntil, requested>>
    BY <1>7 DEF channelVars
  <2>2. Filters' /\ Asked' /\ Gentle
    BY <1>1, <2>1, StillChannels, GentleStill
  <2>3. /\ todo \in Seq(Task) /\ todo # << >> /\ Head(todo) = todo[1] /\ 1 \in 1..Len(todo)
        /\ Rest = Tail(todo)
    BY <1>1, Popped DEF IInv, Agenda, Running, Rest
  <2>4. ExpiredTimers = {}
    BY <1>1, <1>7, <2>3 DEF TInv, Dispatch, Pending
  <2>5. Pending(Rest, dispatching, ExpiredTimers)
    BY <2>4 DEF Pending
  <2>6. /\ Ordered(Rest, dispatching)
        /\ Rest # << >> => Rest[1].op \notin {"edge", "event"}
    BY <1>1, <2>3, PoppedOrder DEF TInv, Dispatch
  <2>7. EdgeReady' /\ NothingOverdueAtEvent'
    BY <1>1, <1>7, <2>6 DEF EdgeReady, NothingOverdueAtEvent, Running
  <2>8. /\ << >> \in Seq(Task) /\ Ordered(<< >>, FALSE) /\ Fits(<< >>, Rest)
        /\ todo' = << >> \o Rest
    BY <1>1, <1>7, ConcatEmptySeq DEF Ordered, Fits
  <2> QED  BY <1>1, <2>2, <2>5, <2>6, <2>7, <2>8, DispatchJoined
<1> QED  BY <1>4, <1>5, <1>6, <1>7 DEF DispatchTimer, t

(***************************************************************************)
(* Shelves.                                                                *)
(***************************************************************************)
LEMMA ShelfTurn ==
  ASSUME IInv, Filters, Asked, NEW c \in Channels, NEW until, CommitShelf(c, until),
         UNCHANGED <<noAckUntil, requested, nextStateDeadline, dispatching, clocks>>,
         Advances(nextShelfDeadline, nextShelfDeadline'),
         until = 0 \/ nextShelfDeadline' \in 1..until
  PROVE  Filters' /\ Asked' /\ Gentle
<1> DEFINE s == [ch[c] EXCEPT !.shelf = until]
<1>1. ch' = [ch EXCEPT ![c] = s]
  BY DEF CommitShelf
<1>2. /\ SameFilter(ch[c], s) /\ s.observed = ch[c].observed /\ s.shelf = until
      /\ s.filterUntil = ch[c].filterUntil
  <2>1. ch[c] \in ChannelState
    BY DEF IInv, Core
  <2> QED  BY <2>1 DEF SameFilter, ChannelState
<1> HIDE DEF s
<1>3. Steady(c, s)
  BY <1>2, SameFilterSteady DEF Filters
<1>4. Filters' /\ Asked'
  <2>1. requested' \subseteq requested \cup {c} /\ (c \in requested' => s.observed # Error)
    BY <1>2 DEF Asked
  <2> QED  BY <1>1, <1>3, <2>1, OneChannel
<1>5. \A d \in Channels : ch'[d] = ch[d] \/ (d = c /\ ch'[d] = s)
  BY <1>1 DEF IInv, Core
<1>6. Gentle
  BY <1>2, <1>5 DEF Gentle, Advances, FilterTurn
<1> QED  BY <1>4, <1>6

LEMMA EarliestLow ==
  ASSUME NEW S \in SUBSET Nat, NEW x \in S, x # 0
  PROVE  Earliest(S) \in 1..x
<1>1. S \ {0} \in SUBSET Nat /\ S \ {0} # {}
  OBVIOUS
<1>2. \E d \in S \ {0} : \A e \in S \ {0} : d <= e
  BY <1>1, Least
<1>3. Earliest(S) = CHOOSE d \in S \ {0} : \A e \in S \ {0} : d <= e
  BY <1>1 DEF Earliest
<1>4. Earliest(S) \in S \ {0} /\ \A e \in S \ {0} : Earliest(S) <= e
  BY <1>2, <1>3
<1>5. Earliest(S) \in Nat /\ Earliest(S) # 0 /\ Earliest(S) <= x /\ x \in Nat
  BY <1>4
<1> QED  BY <1>5

(* The end of a dispatch.                                                  *)
LEMMA Finished ==
  ASSUME NEW s \in Seq(Task), s # << >>, NEW d, Ordered(s, d), Head(s).op = "shelves"
  PROVE  /\ Ordered(Tail(s), FALSE) /\ d
         /\ \A i \in 1..Len(s) : s[i].op # "timers"
         /\ Tail(s) # << >> => Tail(s)[1].op # "edge"
<1> DEFINE r == Tail(s)
<1>1. /\ r \in Seq(Task) /\ Len(s) \in Nat \ {0} /\ Len(r) = Len(s) - 1
      /\ \A i \in 1..Len(r) : r[i] = s[i + 1]
      /\ Head(s) = s[1]
  BY Popped
<1>2. 1 \in 1..Len(s) /\ s[1].op = "shelves"
  BY <1>1
<1> HIDE DEF r
<1>3. \A i \in 1..Len(s) : s[i].op # "timers"
  <2>1. ASSUME NEW i \in 1..Len(s), s[i].op = "timers"  PROVE Head(s).op # "shelves"
    BY <2>1, OnlyTimers
  <2> QED  BY <2>1
<1>4. \A i \in 1..Len(r) : i + 1 \in 1..Len(s) /\ i + 1 # 1
  BY <1>1
<1>5. \A i \in 1..Len(r) : r[i].op \notin {"shelves", "timers"}
  BY <1>1, <1>2, <1>3, <1>4 DEF Ordered
<1>6. \A i \in 2..Len(r) : r[i].op = "event" => r[i - 1].op \in {"deadlines", "shelves"}
  BY <1>1 DEF Ordered
<1>7. \A i \in 2..Len(r) : r[i].op # "edge"
  BY <1>1 DEF Ordered
<1>8. Ordered(r, FALSE)
  BY <1>5, <1>6, <1>7 DEF Ordered
<1>9. r # << >> => r[1].op # "edge"
  <2> SUFFICES ASSUME r # << >>  PROVE r[1].op # "edge"
    OBVIOUS
  <2>1. 2 \in 2..Len(s) /\ r[1] = s[2]
    BY <1>1
  <2> QED  BY <2>1 DEF Ordered
<1>10. d
  BY <1>2 DEF Ordered
<1> QED  BY <1>3, <1>8, <1>9, <1>10 DEF r

LEMMA ShelvesTurn ==
  ASSUME TInv, ExpireShelves
  PROVE  Filters' /\ Asked' /\ Dispatch'
<1>1. /\ IInv /\ IInv' /\ Filters /\ Asked /\ Running("shelves")
      /\ Rest \in Seq(Task) /\ Head(todo).op = "shelves"
      /\ UNCHANGED <<requested, clocks>>
  <2>1. IInv /\ IInv' /\ Filters /\ Asked
    BY ShelvesKeep DEF TInv
  <2> QED  BY <2>1, HeadTask DEF ExpireShelves, IInv
<1>2. /\ todo \in Seq(Task) /\ todo # << >> /\ Head(todo) = todo[1] /\ Rest = Tail(todo)
  BY <1>1, Popped DEF IInv, Agenda, Running, Rest
<1>3. CASE /\ EndedShelves # {}
           /\ CommitShelf(CHOOSE c \in EndedShelves :
                             \A d \in EndedShelves : Order[c] <= Order[d], 0)
           /\ UNCHANGED <<todo, timerVars>>
  <2> DEFINE first == CHOOSE c \in EndedShelves : \A d \in EndedShelves : Order[c] <= Order[d]
             places == {Order[c] : c \in EndedShelves}
  <2>1. EndedShelves \subseteq Channels
    BY DEF EndedShelves
  <2>2. places \in SUBSET Nat /\ places # {}
    BY <1>3, <2>1, TreeTyping DEF Nodes
  <2>3. \E m \in places : \A n \in places : m <= n
    <3> HIDE DEF places
    <3> QED  BY <2>2, Least
  <2>4. \E c \in EndedShelves : \A d \in EndedShelves : Order[c] <= Order[d]
    BY <2>3
  <2>5. first \in Channels
    BY <2>1, <2>4
  <2>6. /\ CommitShelf(first, 0)
        /\ UNCHANGED <<noAckUntil, nextStateDeadline, nextShelfDeadline, dispatching>>
    BY <1>3 DEF timerVars
  <2> HIDE DEF first
  <2>7. Filters' /\ Asked' /\ Gentle
    BY <1>1, <2>5, <2>6, ShelfTurn DEF Advances
  <2>8. /\ << >> \in Seq(Task) /\ Ordered(<< >>, FALSE) /\ Fits(<< >>, todo)
        /\ todo' = << >> \o todo
    BY <1>2, <1>3, ConcatEmptySeq DEF Ordered, Fits
  <2>9. EdgeReady' /\ NothingOverdueAtEvent'
    BY <1>1, <1>3 DEF EdgeReady, NothingOverdueAtEvent, Running
  <2>10. Ordered(todo, dispatching) /\ Pending(todo, dispatching, ExpiredTimers)
    BY DEF TInv, Dispatch
  <2> QED  BY <1>1, <1>2, <2>7, <2>8, <2>9, <2>10, DispatchJoined
<1>4. CASE /\ EndedShelves = {}
           /\ nextShelfDeadline' =
                 Earliest({nextShelfDeadline} \cup {ch[c].shelf : c \in Channels})
           /\ nextStateDeadline' =
                 Earliest({nextStateDeadline} \cup {noAckUntil[n] : n \in Nodes}
                   \cup {ch[c].filterUntil : c \in {x \in Channels : "Cancel" \notin ch[x].mask}})
           /\ dispatching' = FALSE
           /\ todo' = Rest
           /\ UNCHANGED <<channelVars, noAckUntil>>
  <2> DEFINE S == {nextShelfDeadline} \cup {ch[c].shelf : c \in Channels}
             T == {nextStateDeadline} \cup {noAckUntil[n] : n \in Nodes}
                    \cup {ch[c].filterUntil : c \in {x \in Channels : "Cancel" \notin ch[x].mask}}
  <2>1. UNCHANGED <<ch, noAckUntil, requested, clocks>>
    BY <1>1, <1>4 DEF channelVars
  <2>2. Filters' /\ Asked'
    BY <1>1, <2>1, StillChannels
  <2>3. /\ Ordered(Rest, FALSE) /\ dispatching
        /\ \A i \in 1..Len(todo) : todo[i].op # "timers"
        /\ Rest # << >> => Rest[1].op # "edge"
    <3>1. Ordered(todo, dispatching)
      BY DEF TInv, Dispatch
    <3>2. /\ Ordered(Tail(todo), FALSE) /\ dispatching
          /\ \A i \in 1..Len(todo) : todo[i].op # "timers"
          /\ Tail(todo) # << >> => Tail(todo)[1].op # "edge"
      BY ONLY <1>1, <1>2, <3>1, Finished
    <3> QED  BY <1>2, <3>2
  <2>4. ExpiredTimers = {}
    BY <2>3 DEF TInv, Dispatch, Pending
  <2>5. ExpiredTimers' = {}
    BY <2>1, <2>4 DEF ExpiredTimers, clocks
  <2>6. Ordered(todo', dispatching') /\ Pending(todo', dispatching', ExpiredTimers')
    BY <1>4, <2>3, <2>5 DEF Pending
  <2>7. EdgeReady'
    BY <1>1, <1>4, <2>3 DEF EdgeReady, Running
  <2>8. /\ noAckUntil \in [Nodes -> Nat] /\ nextStateDeadline \in Nat /\ nextShelfDeadline \in Nat
        /\ mono \in Nat /\ wall \in Nat
        /\ \A c \in Channels : ch[c].filterUntil \in Nat /\ ch[c].shelf \in Nat
    BY <1>1 DEF IInv, Core, Timers, Clocks, ChannelState
  <2>9. S \in SUBSET Nat /\ T \in SUBSET Nat
    BY <2>8
  <2>10. \A c \in Channels : ch[c].filterUntil # 0 => "Cancel" \notin ch[c].mask
    BY <1>1 DEF Filters, Steady, Quiet
  <2>11. ASSUME NEW c \in Channels, ch[c].filterUntil # 0
         PROVE  nextStateDeadline' \in 1..ch[c].filterUntil
    <3>1. ch[c].filterUntil \in T
      BY <2>10, <2>11
    <3> HIDE DEF T
    <3> QED  BY <1>4, <2>9, <2>11, <3>1, EarliestLow DEF T
  <2>12. ASSUME NEW n \in Nodes, noAckUntil[n] # 0
         PROVE  nextStateDeadline' \in 1..noAckUntil[n]
    <3>1. noAckUntil[n] \in T
      OBVIOUS
    <3>2. nextStateDeadline' = Earliest(T)
      BY <1>4
    <3> HIDE DEF T
    <3> QED  BY <2>9, <2>12, <3>1, <3>2, EarliestLow
  <2>13. ASSUME NEW c \in Channels, ch[c].shelf # 0
         PROVE  nextShelfDeadline' \in 1..ch[c].shelf
    <3>1. ch[c].shelf \in S
      OBVIOUS
    <3>2. nextShelfDeadline' = Earliest(S)
      BY <1>4
    <3> HIDE DEF S
    <3> QED  BY <2>9, <2>13, <3>1, <3>2, EarliestLow
  <2>14. DeadlinesCovered'
    BY <2>1, <2>11, <2>12, <2>13 DEF DeadlinesCovered
  <2>15. \A c \in Channels : /\ ch[c].filterUntil = 0 \/ ch[c].filterUntil > mono
                             /\ ch[c].shelf = 0 \/ ch[c].shelf > wall
    <3> SUFFICES ASSUME NEW c \in Channels
                 PROVE  /\ ch[c].filterUntil = 0 \/ ch[c].filterUntil > mono
                        /\ ch[c].shelf = 0 \/ ch[c].shelf > wall
      OBVIOUS
    <3>1. ~(ch[c].filterUntil # 0 /\ mono >= ch[c].filterUntil)
      BY <2>4, <2>10 DEF ExpiredTimers
    <3>2. ~(ch[c].shelf # 0 /\ wall >= ch[c].shelf)
      BY <1>4 DEF EndedShelves
    <3> QED  BY <2>8, <3>1, <3>2
  <2>16. \A n \in Nodes : noAckUntil[n] = 0 \/ noAckUntil[n] > mono
    <3> SUFFICES ASSUME NEW n \in Nodes  PROVE noAckUntil[n] = 0 \/ noAckUntil[n] > mono
      OBVIOUS
    <3>1. ~(noAckUntil[n] # 0 /\ mono >= noAckUntil[n])
      BY <2>4 DEF ExpiredTimers
    <3> QED  BY <2>8, <3>1
  <2>17. NothingOverdueAtEvent'
    BY <2>1, <2>15, <2>16 DEF NothingOverdueAtEvent, clocks
  <2> QED  BY <2>2, <2>6, <2>7, <2>14, <2>17 DEF Dispatch
<1> QED  BY <1>3, <1>4 DEF ExpireShelves

LEMMA OnChildrenPlain ==
  ASSUME NEW t \in Task, t.node \in Groups,
         t.op \in {"mask", "noAck", "acknowledge", "shelve", "unshelve"}
  PROVE  OnChildren(t) \in Seq(Task) /\ Plain(OnChildren(t))
<1> DEFINE s == OnChildren(t)
<1>1. s \in Seq(Task)
  BY OnChildrenType
<1>2. /\ DOMAIN s = 1..Len(s)
      /\ \A i \in DOMAIN s : s[i] = [t EXCEPT !.node = ChildrenOf(t.node)[i]]
  <2>1. /\ DOMAIN s = 1..Len(ChildrenOf(t.node))
        /\ \A i \in 1..Len(ChildrenOf(t.node)) : s[i] = [t EXCEPT !.node = ChildrenOf(t.node)[i]]
    BY DEF OnChildren
  <2> HIDE DEF s
  <2> QED  BY <1>1, <2>1
<1>3. \A x : [t EXCEPT !.node = x].op = t.op
  BY DEF Task
<1> HIDE DEF s
<1>4. \A i \in 1..Len(s) : s[i].op = t.op
  <2> SUFFICES ASSUME NEW i \in 1..Len(s)  PROVE s[i].op = t.op
    OBVIOUS
  <2>1. s[i] = [t EXCEPT !.node = ChildrenOf(t.node)[i]]
    BY <1>2
  <2> HIDE <1>2
  <2> QED  BY <1>3, <2>1, Zenon
<1>5. Plain(s)
  BY <1>4 DEF Plain, PlainOps
<1> QED  BY <1>1, <1>5 DEF s

LEMMA NoTasks ==
  /\ << >> \in Seq(Task) /\ Plain(<< >>)
  /\ \A r \in Seq(Task) : << >> \o r = r
<1>1. << >> \in Seq(Task) /\ Plain(<< >>)
  BY DEF Plain
<1>2. \A r \in Seq(Task) : << >> \o r = r
  BY ConcatEmptySeq
<1> QED  BY <1>1, <1>2

(* A step that leaves the agenda alone, or takes its head away.            *)
LEMMA DispatchPopped ==
  ASSUME TInv, IInv', Gentle, NEW op \in PlainOps, Running(op),
         todo' = Rest \/ todo' = todo
  PROVE  Dispatch'
<1>1. todo \in Seq(Task) /\ Rest \in Seq(Task)
  BY HeadTask DEF TInv, IInv, Agenda
<1>2. todo' = << >> \o Rest \/ todo' = << >> \o todo
  BY <1>1, NoTasks
<1> QED  BY <1>2, NoTasks, DispatchPlain

(* A channel whose alarm changes behind its filter.                        *)
LEMMA CalmTurn ==
  ASSUME IInv, Filters, Asked, NEW c \in Channels, NEW s,
         ch' = [ch EXCEPT ![c] = s], Steady(c, s),
         s.shelf = ch[c].shelf, s.filterUntil \in {0, ch[c].filterUntil},
         requested' \subseteq requested \cup {c}, c \in requested' => s.observed # Error,
         UNCHANGED <<timerVars, clocks>>
  PROVE  Filters' /\ Asked' /\ Gentle
<1>1. Filters' /\ Asked'
  BY OneChannel
<1>2. /\ FilterTurn(ch[c].filterUntil, s.filterUntil)
      /\ Advances(nextStateDeadline, nextStateDeadline')
      /\ UNCHANGED <<noAckUntil, nextShelfDeadline, dispatching, clocks>>
  BY DEF FilterTurn, Advances, timerVars
<1>3. Gentle
  BY <1>2, GentleChannel
<1> QED  BY <1>1, <1>3

(* A step that changes no channel and no timer.                            *)
LEMMA StillTurn ==
  ASSUME Filters, Asked, UNCHANGED <<ch, timerVars, clocks>>, requested' \subseteq requested
  PROVE  Filters' /\ Asked' /\ Gentle
<1>1. UNCHANGED <<ch, nextStateDeadline, nextShelfDeadline, dispatching, noAckUntil, clocks>>
  BY DEF timerVars
<1> QED  BY <1>1, StillChannels, GentleStill

LEMMA ShelveTurns ==
  ASSUME TInv, VisitShelve
  PROVE  Filters' /\ Asked' /\ Dispatch'
<1> DEFINE t == Head(todo)
           n == t.node
           old == ch[n].shelf
<1>1. /\ IInv /\ IInv' /\ Filters /\ Asked /\ Running("shelve") /\ "shelve" \in PlainOps
      /\ t \in Task /\ t.op = "shelve" /\ n \in Nodes /\ t.until \in Nat
      /\ UNCHANGED <<noAckUntil, nextStateDeadline, dispatching, requested, clocks>>
  <2>1. IInv /\ IInv' /\ Filters /\ Asked
    BY ShelveKeeps DEF TInv
  <2> QED  BY <2>1, HeadTask, TaskFields DEF VisitShelve, IInv, PlainOps
<1> HIDE DEF t
<1>2. ASSUME UNCHANGED <<channelVars, nextShelfDeadline>>
      PROVE  Filters' /\ Asked' /\ Gentle
  <2>1. UNCHANGED <<ch, timerVars, clocks>>
    BY <1>1, <1>2 DEF channelVars, timerVars
  <2> QED  BY <1>1, <2>1, StillTurn
<1> DEFINE Kept == Filters' /\ Asked' /\ Dispatch'
<1>3. ASSUME n \in Groups, todo' = OnChildren(t) \o Rest,
             UNCHANGED <<channelVars, nextShelfDeadline>>
      PROVE  Kept
  <2>1. OnChildren(t) \in Seq(Task) /\ Plain(OnChildren(t))
    BY <1>1, <1>3, OnChildrenPlain
  <2> QED  BY <1>1, <1>2, <1>3, <2>1, DispatchPlain
<1>4. ASSUME n \in Channels, CommitShelf(n, 0), UNCHANGED <<todo, nextShelfDeadline>>
      PROVE  Kept
  <2>1. Filters' /\ Asked' /\ Gentle
    BY <1>1, <1>4, ShelfTurn DEF Advances
  <2> QED  BY <1>1, <1>4, <2>1, DispatchPopped
<1>5. ASSUME todo' = Rest, UNCHANGED <<channelVars, nextShelfDeadline>>
      PROVE  Kept
  BY <1>1, <1>2, <1>5, DispatchPopped
<1>6. ASSUME n \in Channels, CommitShelf(n, t.until), todo' = Rest,
             nextShelfDeadline' = Note(nextShelfDeadline, t.until)
      PROVE  Kept
  <2>1. nextShelfDeadline \in Nat
    BY <1>1 DEF IInv, Timers
  <2>2. /\ Advances(nextShelfDeadline, nextShelfDeadline')
        /\ t.until = 0 \/ nextShelfDeadline' \in 1..t.until
    BY <1>1, <1>6, <2>1 DEF Note, Advances
  <2>3. Filters' /\ Asked' /\ Gentle
    BY <1>1, <1>6, <2>2, ShelfTurn
  <2> QED  BY <1>1, <1>6, <2>3, DispatchPopped
<1> QED  BY <1>3, <1>4, <1>5, <1>6 DEF VisitShelve, t

LEMMA UnshelveTurns ==
  ASSUME TInv, VisitUnshelve
  PROVE  Filters' /\ Asked' /\ Dispatch'
<1> DEFINE t == Head(todo)
           n == t.node
<1>1. /\ IInv /\ IInv' /\ Filters /\ Asked /\ Running("unshelve") /\ "unshelve" \in PlainOps
      /\ t \in Task /\ t.op = "unshelve" /\ n \in Nodes
      /\ UNCHANGED <<timerVars, requested, clocks>>
  <2>1. IInv /\ IInv' /\ Filters /\ Asked
    BY UnshelveKeeps DEF TInv
  <2> QED  BY <2>1, HeadTask, TaskFields DEF VisitUnshelve, IInv, PlainOps
<1> HIDE DEF t
<1>2. ASSUME UNCHANGED channelVars
      PROVE  Filters' /\ Asked' /\ Gentle
  <2>1. UNCHANGED <<ch, timerVars, clocks>>
    BY <1>1, <1>2 DEF channelVars
  <2> QED  BY <1>1, <2>1, StillTurn
<1> DEFINE Kept == Filters' /\ Asked' /\ Dispatch'
<1>3. ASSUME n \in Groups, todo' = OnChildren(t) \o Rest, UNCHANGED channelVars
      PROVE  Kept
  <2>1. OnChildren(t) \in Seq(Task) /\ Plain(OnChildren(t))
    BY <1>1, <1>3, OnChildrenPlain
  <2> QED  BY <1>1, <1>2, <1>3, <2>1, DispatchPlain
<1>4. ASSUME n \in Channels, CommitShelf(n, 0), todo' = Rest
      PROVE  Kept
  <2>1. UNCHANGED <<noAckUntil, nextStateDeadline, nextShelfDeadline, dispatching>>
    BY <1>1 DEF timerVars
  <2>2. Filters' /\ Asked' /\ Gentle
    BY <1>1, <1>4, <2>1, ShelfTurn DEF Advances
  <2> QED  BY <1>1, <1>4, <2>2, DispatchPopped
<1>5. ASSUME UNCHANGED channelVars, todo' = Rest
      PROVE  Kept
  BY <1>1, <1>2, <1>5, DispatchPopped
<1> QED  BY <1>3, <1>4, <1>5 DEF VisitUnshelve, t

(***************************************************************************)
(* Acknowledgement, NoAck and silence.                                     *)
(***************************************************************************)
LEMMA AcknowledgeTurns ==
  ASSUME TInv, VisitAcknowledge
  PROVE  Filters' /\ Asked' /\ Dispatch'
<1> DEFINE t == Head(todo)
           n == t.node
<1>1. /\ IInv /\ IInv' /\ Filters /\ Asked /\ Running("acknowledge")
      /\ "acknowledge" \in PlainOps
      /\ t \in Task /\ t.op = "acknowledge" /\ n \in Nodes
      /\ UNCHANGED <<timerVars, clocks>>
  <2>1. IInv /\ IInv' /\ Filters /\ Asked
    BY AcknowledgeKeeps DEF TInv
  <2> QED  BY <2>1, HeadTask, TaskFields DEF VisitAcknowledge, IInv, PlainOps
<1> HIDE DEF t
<1>2. ASSUME UNCHANGED <<channelVars, requested>>
      PROVE  Filters' /\ Asked' /\ Gentle
  <2>1. UNCHANGED <<ch, timerVars, clocks>> /\ requested' \subseteq requested
    BY <1>1, <1>2 DEF channelVars
  <2> QED  BY <1>1, <2>1, StillTurn
<1> DEFINE Kept == Filters' /\ Asked' /\ Dispatch'
<1>3. ASSUME n \in Groups, UNCHANGED <<channelVars, requested>>,
             todo' = (IF grp[n].all.unack # 0 THEN OnChildren(t) ELSE << >>) \o Rest
      PROVE  Kept
  <2>1. OnChildren(t) \in Seq(Task) /\ Plain(OnChildren(t))
    BY <1>1, <1>3, OnChildrenPlain
  <2>2. todo' = OnChildren(t) \o Rest \/ todo' = << >> \o Rest
    BY <1>3
  <2> QED  BY <1>1, <1>2, <1>3, <2>1, <2>2, NoTasks, DispatchPlain
<1>4. ASSUME UNCHANGED <<channelVars, requested>>, todo' = Rest
      PROVE  Kept
  BY <1>1, <1>2, <1>4, DispatchPopped
<1>5. ASSUME n \in Channels, AcknowledgeLocally(n), todo' = Rest
      PROVE  Kept
  <2> DEFINE s == [ch[n] EXCEPT !.unack = 0]
  <2>1. ch' = [ch EXCEPT ![n] = s] /\ UNCHANGED requested
    BY <1>5 DEF AcknowledgeLocally, Commit
  <2>2. SameFilter(ch[n], s) /\ s.shelf = ch[n].shelf /\ s.observed = ch[n].observed
    BY <1>1, <1>5 DEF IInv, Core, ChannelState, SameFilter
  <2> HIDE DEF s
  <2>3. Steady(n, s) /\ s.filterUntil = ch[n].filterUntil
    BY <1>1, <1>5, <2>2, SameFilterSteady DEF Filters, SameFilter
  <2>4. requested' \subseteq requested \cup {n} /\ (n \in requested' => s.observed # Error)
    BY <1>1, <2>1, <2>2 DEF Asked
  <2>5. Filters' /\ Asked' /\ Gentle
    BY <1>1, <1>5, <2>1, <2>2, <2>3, <2>4, CalmTurn
  <2> QED  BY <1>1, <1>5, <2>5, DispatchPopped
<1>6. ASSUME n \in Channels, AcknowledgeGlobally(n), todo' = Rest
      PROVE  Kept
  <2> DEFINE s == [ch[n] EXCEPT !.commUnack = FALSE,
                                !.unack = IF ch[n].commUnack THEN ch[n].iocUnack ELSE ch[n].unack]
  <2>1. /\ ch' = [ch EXCEPT ![n] = s]
        /\ \/ ch[n].observed # Error /\ requested' = requested \cup {n}
           \/ UNCHANGED requested
    BY <1>6 DEF AcknowledgeGlobally, Commit
  <2>2. SameFilter(ch[n], s) /\ s.shelf = ch[n].shelf /\ s.observed = ch[n].observed
    BY <1>1, <1>6 DEF IInv, Core, ChannelState, SameFilter
  <2> HIDE DEF s
  <2>3. Steady(n, s) /\ s.filterUntil = ch[n].filterUntil
    BY <1>1, <1>6, <2>2, SameFilterSteady DEF Filters, SameFilter
  <2>4. requested' \subseteq requested \cup {n} /\ (n \in requested' => s.observed # Error)
    BY <1>1, <2>1, <2>2 DEF Asked
  <2>5. Filters' /\ Asked' /\ Gentle
    BY <1>1, <1>6, <2>1, <2>2, <2>3, <2>4, CalmTurn
  <2> QED  BY <1>1, <1>6, <2>5, DispatchPopped
<1> QED  BY <1>3, <1>4, <1>5, <1>6 DEF VisitAcknowledge, t

LEMMA VisitNoAckTurns ==
  ASSUME TInv, VisitNoAck
  PROVE  Filters' /\ Asked' /\ Dispatch'
<1> DEFINE t == Head(todo)
           n == t.node
           on == MaskTask(n, {"Ack"}, {}, {}, FALSE)
           off == MaskTask(n, {}, {}, {"Ack"}, FALSE)
<1>1. /\ IInv /\ IInv' /\ Filters /\ Asked /\ Running("noAck") /\ "noAck" \in PlainOps
      /\ t \in Task /\ t.op = "noAck" /\ n \in Nodes
      /\ UNCHANGED <<ch, requested, nextStateDeadline, nextShelfDeadline, dispatching, clocks>>
  <2>1. IInv /\ IInv' /\ Filters /\ Asked
    BY VisitNoAckKeeps DEF TInv
  <2> QED  BY <2>1, HeadTask, TaskFields DEF VisitNoAck, IInv, PlainOps, channelVars
<1>2. noAckUntil \in [Nodes -> Nat]
  BY <1>1 DEF IInv, Timers
<1>3. \A m \in Nodes : noAckUntil'[m] \in {0, noAckUntil[m]}
  BY <1>1, <1>2 DEF VisitNoAck
<1>4. Filters' /\ Asked' /\ Gentle
  BY <1>1, <1>3, StillChannels, GentleStill
<1> DEFINE new == IF n \in Groups THEN OnChildren(t) ELSE IF t.on THEN <<on>> ELSE <<off>>
<1>5. \/ todo' = Rest
      \/ todo' = new \o Rest
  BY DEF VisitNoAck
<1>6. on \in Task /\ off \in Task /\ on.op = "mask" /\ off.op = "mask"
  <2>1. on \in Task /\ off \in Task
    BY <1>1, MaskTasks, Bits
  <2> QED  BY <2>1 DEF MaskTask
<1> HIDE DEF on, off, t
<1>7. new \in Seq(Task) /\ Plain(new)
  <2>1. CASE n \in Groups
    BY <1>1, <2>1, OnChildrenPlain
  <2>2. CASE n \notin Groups
    BY <1>6, <2>2 DEF Plain, PlainOps
  <2> QED  BY <2>1, <2>2
<1> HIDE DEF new
<1> QED  BY <1>1, <1>4, <1>5, <1>7, DispatchPlain, DispatchPopped

LEMMA ArmNoAckTurns ==
  ASSUME TInv, ArmNoAck
  PROVE  Filters' /\ Asked' /\ Dispatch'
<1> DEFINE n == Head(todo).node
           until == mono + NoAckHour
<1>1. /\ IInv /\ IInv' /\ Filters /\ Asked /\ Running("armNoAck") /\ "armNoAck" \in PlainOps
      /\ n \in Nodes /\ todo' = Rest
      /\ UNCHANGED <<ch, requested, nextShelfDeadline, dispatching, clocks>>
      /\ noAckUntil' = [noAckUntil EXCEPT ![n] = until]
      /\ nextStateDeadline' = Note(nextStateDeadline, until)
  <2>1. IInv /\ IInv' /\ Filters /\ Asked
    BY ArmNoAckKeeps DEF TInv
  <2> QED  BY <2>1, HeadTask, TaskFields DEF ArmNoAck, IInv, PlainOps, channelVars
<1> HIDE DEF n
<1>2. /\ noAckUntil \in [Nodes -> Nat] /\ nextStateDeadline \in Nat /\ mono \in Nat
      /\ NoAckHour \in Nat \ {0}
  BY <1>1, EngineAssumption DEF IInv, Timers, Clocks
<1>3. until \in Nat /\ until > mono /\ until # 0
  BY <1>2
<1> HIDE DEF until
<1>4. Advances(nextStateDeadline, nextStateDeadline') /\ nextStateDeadline' \in 1..until
  BY <1>1, <1>2, <1>3 DEF Note, Advances
<1>5. \A m \in Nodes : FilterTurn(noAckUntil[m], noAckUntil'[m])
  BY <1>1, <1>2, <1>3, <1>4 DEF FilterTurn
<1>6. Gentle
  BY <1>1, <1>4, <1>5 DEF Gentle, FilterTurn, Advances
<1>7. Filters' /\ Asked'
  BY <1>1, StillChannels
<1> QED  BY <1>1, <1>6, <1>7, DispatchPopped

LEMMA SilenceTurns ==
  ASSUME TInv, EndSilenceCurrent
  PROVE  Filters' /\ Asked' /\ Dispatch'
<1>1. /\ IInv' /\ Filters /\ Asked /\ Running("endSilence") /\ "endSilence" \in PlainOps
      /\ UNCHANGED <<ch, timerVars, requested, clocks>> /\ todo' = Rest
  BY SilenceKeeps DEF TInv, EndSilenceCurrent, PlainOps
<1>2. Filters' /\ Asked' /\ Gentle
  BY <1>1, StillTurn
<1> QED  BY <1>1, <1>2, DispatchPopped

(***************************************************************************)
(* Masks.                                                                  *)
(***************************************************************************)
Emptied(s) ==
  /\ s.filterUntil = 0 /\ s.awaiting /\ s.pending = NoEvent
  /\ \A i \in DOMAIN s.edges : s.edges[i] = 0

LEMMA CancelEmpties ==
  ASSUME NEW x \in ChannelState, NEW m \in Mask, NEW s, s = AfterCancel(x, m)
  PROVE  /\ s \in ChannelState
         /\ s.shelf = x.shelf /\ s.observed = x.observed /\ s.initialized = x.initialized
         /\ "Cancel" \notin m => s = x
         /\ "Cancel" \in m => /\ Emptied(s)
                              /\ s.status \in {0, x.status} /\ s.severity \in {0, x.severity}
<1> DEFINE zeros == [i \in DOMAIN x.edges |-> 0]
           r == [x EXCEPT !.filterUntil = 0, !.edgeIndex = 0, !.edges = zeros]
           quiet == [r EXCEPT !.awaiting = TRUE, !.pending = NoEvent]
           gone == [quiet EXCEPT !.severity = 0, !.status = 0, !.unack = 0,
                                 !.iocUnack = 0, !.commUnack = FALSE]
<1>1. AfterCancel(x, m) = IF "Cancel" \notin m THEN x
                          ELSE IF x.mask \cap {"Cancel", "Disable"} # {} THEN quiet ELSE gone
  BY DEF AfterCancel, FilterReset
<1>2. NoEvent \in Event /\ 0 \in Severity /\ 0 \in Nat
  BY DEF NoEvent, Event, Severity, Error
<1>3. zeros \in Seq(Nat) /\ DOMAIN zeros = DOMAIN x.edges /\ \A i \in DOMAIN zeros : zeros[i] = 0
  <2>1. x.edges \in Seq(Nat)
    BY DEF ChannelState
  <2> QED  BY <2>1
<1> HIDE DEF zeros
<1>4. r \in ChannelState /\ r.edges = zeros /\ r.filterUntil = 0
      /\ r.shelf = x.shelf /\ r.observed = x.observed /\ r.initialized = x.initialized
      /\ r.status = x.status /\ r.severity = x.severity
  <2>1. r \in ChannelState
    BY <1>2, <1>3 DEF ChannelState
  <2>2. r.edges = zeros /\ r.filterUntil = 0
        /\ r.shelf = x.shelf /\ r.observed = x.observed /\ r.initialized = x.initialized
        /\ r.status = x.status /\ r.severity = x.severity
    BY DEF ChannelState
  <2> QED  BY <2>1, <2>2
<1> HIDE DEF r
<1>5. quiet \in ChannelState /\ quiet.edges = zeros /\ quiet.filterUntil = 0
      /\ quiet.awaiting /\ quiet.pending = NoEvent
      /\ quiet.shelf = x.shelf /\ quiet.observed = x.observed
      /\ quiet.initialized = x.initialized
      /\ quiet.status = x.status /\ quiet.severity = x.severity
  BY <1>2, <1>4 DEF ChannelState
<1> HIDE DEF quiet
<1>6. gone \in ChannelState /\ gone.edges = zeros /\ gone.filterUntil = 0
      /\ gone.awaiting /\ gone.pending = NoEvent
      /\ gone.shelf = x.shelf /\ gone.observed = x.observed
      /\ gone.initialized = x.initialized
      /\ gone.status = 0 /\ gone.severity = 0
  <2>1. gone \in ChannelState
    BY <1>2, <1>5 DEF ChannelState
  <2>2. gone.edges = zeros /\ gone.filterUntil = 0
      /\ gone.awaiting /\ gone.pending = NoEvent
      /\ gone.shelf = x.shelf /\ gone.observed = x.observed
      /\ gone.initialized = x.initialized
      /\ gone.status = 0 /\ gone.severity = 0
    BY <1>5 DEF ChannelState
  <2> QED  BY <2>1, <2>2
<1> HIDE DEF gone
<1> QED  BY <1>1, <1>3, <1>5, <1>6 DEF Emptied

LEMMA LatchOnly ==
  ASSUME NEW x \in ChannelState, NEW old, NEW m
  PROVE  \E v : AfterLatch(x, old, m) = [x EXCEPT !.unack = v]
<1>1. x = [x EXCEPT !.unack = x.unack]
  BY DEF ChannelState
<1> QED  BY <1>1 DEF AfterLatch

LEMMA MaskApplied ==
  ASSUME IInv, Filters, Asked, UNCHANGED <<timerVars, clocks>>,
         NEW c \in Channels, NEW t \in Task, t.op = "mask",
         NEW acknowledged \in BOOLEAN, NEW refused \in BOOLEAN,
         ApplyMask(c, t, acknowledged, refused)
  PROVE  /\ Filters' /\ Asked' /\ Gentle
         /\ \A d \in Channels :
              (~ch[d].awaiting /\ ch'[d].awaiting) \/ ch'[d].observed = Error
              => d \notin requested'
         /\ \A d \in Channels \ {c} : ch'[d] = ch[d]
         /\ "Ack" \in ch'[c].mask <=> "Ack" \in NewMask(c, t)
<1> DEFINE x == ch[c]
           old == x.mask
           asked == NewMask(c, t)
           calm == AfterCancel(x, asked)
           latest == AfterLatch(calm, old, asked)
           m == IF refused THEN (asked \ {"AckT"}) \cup (old \cap {"AckT"}) ELSE asked
           u == IF acknowledged THEN 0 ELSE latest.unack
           i == IF acknowledged THEN 0 ELSE latest.iocUnack
           k == latest.commUnack /\ ~acknowledged
           s == [latest EXCEPT !.mask = m, !.unack = u, !.iocUnack = i, !.commUnack = k]
<1>1. ch' = [ch EXCEPT ![c] = s]
  BY DEF ApplyMask, Commit
<1>2. requested' = IF asked \cap {"Cancel", "Disable", "Ack"} # {}
                   THEN requested \ {c} ELSE requested
  BY DEF ApplyMask
<1>3. x \in ChannelState /\ Steady(c, x) /\ ch'[c] = s
      /\ \A d \in Channels \ {c} : ch'[d] = ch[d]
  <2> HIDE DEF s
  <2> QED  BY <1>1 DEF IInv, Core, Filters
<1>4. asked \in Mask
  <2>1. t.set \in Mask
    BY TaskFields
  <2>2. ch[c].mask \in Mask
    BY <1>3 DEF ChannelState
  <2> QED  BY <2>1, <2>2, NewMaskType
<1>5. ("Cancel" \in m <=> "Cancel" \in asked) /\ ("Ack" \in m <=> "Ack" \in NewMask(c, t))
  OBVIOUS
<1> HIDE DEF x, asked, m
<1>6. /\ calm \in ChannelState
      /\ calm.shelf = x.shelf /\ calm.observed = x.observed /\ calm.initialized = x.initialized
      /\ "Cancel" \notin asked => calm = x
      /\ "Cancel" \in asked =>
           /\ Emptied(calm)
           /\ calm.status \in {0, x.status} /\ calm.severity \in {0, x.severity}
  BY <1>3, <1>4, CancelEmpties
<1> HIDE DEF calm, u, i, k
<1>7. /\ s.filterUntil = calm.filterUntil /\ s.edges = calm.edges /\ s.awaiting = calm.awaiting
      /\ s.initialized = calm.initialized /\ s.status = calm.status
      /\ s.severity = calm.severity /\ s.pending = calm.pending
      /\ s.shelf = calm.shelf /\ s.observed = calm.observed /\ s.mask = m
  <2> HIDE DEF old
  <2>1. PICK v : latest = [calm EXCEPT !.unack = v]
    BY <1>6, LatchOnly
  <2> HIDE DEF latest
  <2>2. s = [calm EXCEPT !.unack = u, !.mask = m, !.iocUnack = i, !.commUnack = k]
    BY <1>6, <2>1 DEF ChannelState
  <2> HIDE DEF s
  <2> QED  BY <1>6, <2>2 DEF ChannelState
<1> HIDE DEF latest, s, old
<1>8. Steady(c, s)
  <2>1. CASE "Cancel" \notin asked
    BY <1>3, <1>5, <1>6, <1>7, <2>1 DEF Steady, Quiet, Held, Unseen, HeldBack
  <2>2. CASE "Cancel" \in asked
    BY <1>3, <1>5, <1>6, <1>7, <2>2
       DEF Steady, Quiet, Held, Unseen, HeldBack, Emptied, NoEvent
  <2> QED  BY <2>1, <2>2
<1>9. s.shelf = x.shelf /\ s.filterUntil \in {0, x.filterUntil} /\ s.observed = x.observed
  BY <1>6, <1>7 DEF Emptied
<1>10. requested' \subseteq requested \cup {c} /\ (c \in requested' => s.observed # Error)
  BY <1>2, <1>9 DEF Asked, x
<1>11. Filters' /\ Asked' /\ Gentle
  <2>1. s.shelf = ch[c].shelf /\ s.filterUntil \in {0, ch[c].filterUntil}
    BY <1>9 DEF x
  <2> QED  BY <1>1, <1>8, <1>10, <2>1, CalmTurn
<1>12. ASSUME NEW d \in Channels, (~ch[d].awaiting /\ ch'[d].awaiting) \/ ch'[d].observed = Error
       PROVE  d \notin requested'
  <2>1. CASE ch'[d].observed = Error
    BY <1>11, <2>1 DEF Asked
  <2>2. CASE ~ch[d].awaiting /\ ch'[d].awaiting
    <3>1. d = c
      BY <1>3, <2>2
    <3>2. ~x.awaiting /\ s.awaiting
      BY <1>3, <2>2, <3>1 DEF x
    <3>3. "Cancel" \in asked
      BY <1>6, <1>7, <3>2
    <3> QED  BY <1>2, <3>1, <3>3
  <2> QED  BY <1>12, <2>1, <2>2
<1>13. "Ack" \in ch'[c].mask <=> "Ack" \in NewMask(c, t)
  BY <1>3, <1>5, <1>7
<1> QED  BY <1>3, <1>11, <1>12, <1>13

LEMMA MaskTurns ==
  ASSUME TInv, ApplyMasks
  PROVE  Filters' /\ Asked' /\ Dispatch'
<1> DEFINE t == Head(todo)
           n == t.node
<1>1. /\ IInv /\ IInv' /\ Filters /\ Asked /\ Running("mask") /\ "mask" \in PlainOps
      /\ t \in Task /\ t.op = "mask" /\ n \in Nodes
      /\ UNCHANGED <<timerVars, clocks>>
  <2>1. IInv /\ IInv' /\ Filters /\ Asked
    BY MaskKeeps DEF TInv
  <2> QED  BY <2>1, HeadTask, TaskFields DEF ApplyMasks, IInv, PlainOps
<1> HIDE DEF t
<1>2. ASSUME UNCHANGED <<channelVars, requested, pendingForce>>
      PROVE  Filters' /\ Asked' /\ Gentle
  <2>1. UNCHANGED <<ch, timerVars, clocks>> /\ requested' \subseteq requested
    BY <1>1, <1>2 DEF channelVars
  <2> QED  BY <1>1, <2>1, StillTurn
<1> DEFINE Kept == Filters' /\ Asked' /\ Dispatch'
<1>3. ASSUME n \in Groups, todo' = OnChildren(t) \o Rest,
             UNCHANGED <<channelVars, requested, pendingForce>>
      PROVE  Kept
  <2>1. OnChildren(t) \in Seq(Task) /\ Plain(OnChildren(t))
    BY <1>1, <1>3, OnChildrenPlain
  <2> QED  BY <1>1, <1>2, <1>3, <2>1, DispatchPlain
<1>4. ASSUME n \in Channels, todo' = << MaskTask(n, {}, {"Cancel"}, {}, FALSE) >> \o todo,
             UNCHANGED <<channelVars, requested, pendingForce>>
      PROVE  Kept
  <2> DEFINE a == MaskTask(n, {}, {"Cancel"}, {}, FALSE)
  <2>1. a \in Task
    BY <1>1, Bits, MaskTasks
  <2>2. a.op = "mask"
    BY DEF MaskTask
  <2> HIDE DEF a
  <2>3. <<a>> \in Seq(Task) /\ Plain(<<a>>)
    BY <2>1, <2>2 DEF Plain, PlainOps
  <2>4. todo' = <<a>> \o todo
    BY <1>4 DEF a
  <2> QED  BY <1>1, <1>2, <1>4, <2>3, <2>4, DispatchPlain
<1>5. ASSUME n \in Channels, NEW acknowledged \in BOOLEAN, NEW refused \in BOOLEAN,
             ApplyMask(n, t, acknowledged, refused), todo' = Rest
      PROVE  Kept
  <2>1. Filters' /\ Asked' /\ Gentle
    BY <1>1, <1>5, MaskApplied
  <2> QED  BY <1>1, <1>5, <2>1, DispatchPopped
<1> QED  BY <1>3, <1>4, <1>5 DEF ApplyMasks, t

LEMMA RetryTurns ==
  ASSUME TInv, RetryForce
  PROVE  Filters' /\ Asked' /\ Dispatch'
<1> DEFINE t == Head(todo)
<1>1. /\ IInv /\ IInv' /\ Filters /\ Asked /\ Running("retry") /\ "retry" \in PlainOps
      /\ t \in Task /\ t.op = "retry" /\ t.due \subseteq PendingForce
      /\ UNCHANGED <<timerVars, requested, clocks>>
  <2>1. IInv /\ IInv' /\ Filters /\ Asked
    BY RetryKeeps DEF TInv
  <2> QED  BY <2>1, HeadTask, TaskFields DEF RetryForce, IInv, PlainOps
<1> HIDE DEF t
<1>2. ASSUME UNCHANGED channelVars
      PROVE  Filters' /\ Asked' /\ Gentle
  <2>1. UNCHANGED <<ch, timerVars, clocks>>
    BY <1>1, <1>2 DEF channelVars
  <2> QED  BY <1>1, <2>1, StillTurn
<1>3. ASSUME NEW p \in t.due,
             Commit(p.channel,
                    [ch[p.channel] EXCEPT
                       !.mask = (@ \ {"AckT"}) \cup (IF p.mask THEN {"AckT"} ELSE {})],
                    Untouched, FALSE)
      PROVE  Filters' /\ Asked' /\ Gentle
  <2> DEFINE c == p.channel
             m == (ch[c].mask \ {"AckT"}) \cup (IF p.mask THEN {"AckT"} ELSE {})
             s == [ch[c] EXCEPT !.mask = m]
  <2>1. c \in Channels
    BY <1>1, <1>3 DEF PendingForce
  <2>2. ch' = [ch EXCEPT ![c] = s]
    BY <1>3 DEF Commit
  <2>3. "Cancel" \in m <=> "Cancel" \in ch[c].mask
    OBVIOUS
  <2> HIDE DEF m, c
  <2>4. SameFilter(ch[c], s) /\ s.shelf = ch[c].shelf /\ s.observed = ch[c].observed
    BY <1>1, <2>1, <2>3 DEF IInv, Core, ChannelState, SameFilter
  <2> HIDE DEF s
  <2>5. Steady(c, s) /\ s.filterUntil = ch[c].filterUntil
    BY <1>1, <2>1, <2>4, SameFilterSteady DEF Filters, SameFilter
  <2>6. requested' \subseteq requested \cup {c} /\ (c \in requested' => s.observed # Error)
    BY <1>1, <2>4 DEF Asked
  <2> QED  BY <1>1, <2>1, <2>2, <2>4, <2>5, <2>6, CalmTurn
<1>4. ASSUME NEW p \in t.due, todo' = << [t EXCEPT !.due = @ \ {p}] >> \o Rest, Gentle
      PROVE  Dispatch'
  <2> DEFINE next == [t EXCEPT !.due = @ \ {p}]
  <2>1. next \in Task
    BY <1>1, TaskChanges
  <2>2. next.op = "retry"
    BY <1>1 DEF Task
  <2> HIDE DEF next
  <2>3. <<next>> \in Seq(Task) /\ Plain(<<next>>)
    BY <2>1, <2>2 DEF Plain, PlainOps
  <2>4. todo' = <<next>> \o Rest
    BY <1>4 DEF next
  <2> QED  BY <1>1, <1>4, <2>3, <2>4, DispatchPlain
<1>5. ASSUME todo' = Rest, UNCHANGED channelVars
      PROVE  Filters' /\ Asked' /\ Dispatch'
  BY <1>1, <1>2, <1>5, DispatchPopped
<1>6. ASSUME NEW p \in t.due, todo' = << [t EXCEPT !.due = @ \ {p}] >> \o Rest,
             \/ Commit(p.channel,
                       [ch[p.channel] EXCEPT
                          !.mask = (@ \ {"AckT"}) \cup (IF p.mask THEN {"AckT"} ELSE {})],
                       Untouched, FALSE)
             \/ UNCHANGED channelVars
      PROVE  Filters' /\ Asked' /\ Dispatch'
  BY <1>2, <1>3, <1>4, <1>6
<1> QED  BY <1>5, <1>6 DEF RetryForce, t

(***************************************************************************)
(* Calls and the clocks.                                                   *)
(***************************************************************************)
LEMMA CallTurn ==
  ASSUME TInv, IInv', CanCallBack, NEW new \in Seq(Task),
         Ordered(new, FALSE), new # << >> => new[1].op \notin {"edge", "event"},
         todo' = new \o todo,
         UNCHANGED <<ch, nextStateDeadline, nextShelfDeadline, dispatching, requested, clocks>>,
         \A n \in Nodes : noAckUntil'[n] \in {0, noAckUntil[n]}
  PROVE  Filters' /\ Asked' /\ Dispatch'
<1>1. Filters' /\ Asked'
  BY StillChannels DEF TInv
<1>2. Gentle
  BY GentleStill
<1> QED  BY <1>1, <1>2, DispatchCall

(* A call that puts plain tasks on the agenda.                             *)
LEMMA PlainCall ==
  ASSUME TInv, IInv', CanCallBack, NEW new \in Seq(Task), Plain(new),
         todo' = new \o todo \/ (Idle /\ todo' = new),
         UNCHANGED <<ch, nextStateDeadline, nextShelfDeadline, dispatching, requested, clocks>>,
         \A n \in Nodes : noAckUntil'[n] \in {0, noAckUntil[n]}
  PROVE  Filters' /\ Asked' /\ Dispatch'
<1>1. Ordered(new, FALSE)
  BY PlainOrder
<1>2. new # << >> => new[1].op \notin {"edge", "event"}
  <2>1. new # << >> => 1 \in 1..Len(new)
    OBVIOUS
  <2> QED  BY <2>1 DEF Plain, PlainOps
<1>3. todo' = new \o todo
  BY ConcatEmptySeq DEF Idle
<1> QED  BY <1>1, <1>2, <1>3, CallTurn

LEMMA PlainTasks ==
  /\ << >> \in Seq(Task) /\ Plain(<< >>)
  /\ \A t \in Task : t.op \in PlainOps => <<t>> \in Seq(Task) /\ Plain(<<t>>)
  /\ \A t, u \in Task : t.op \in PlainOps /\ u.op \in PlainOps =>
        <<t, u>> \in Seq(Task) /\ Plain(<<t, u>>)
<1>1. ASSUME NEW t \in Task, t.op \in PlainOps
      PROVE  <<t>> \in Seq(Task) /\ Plain(<<t>>)
  BY <1>1 DEF Plain
<1>2. ASSUME NEW t \in Task, NEW u \in Task, t.op \in PlainOps, u.op \in PlainOps
      PROVE  <<t, u>> \in Seq(Task) /\ Plain(<<t, u>>)
  BY <1>2 DEF Plain
<1> QED  BY <1>1, <1>2, NoTasks

LEMMA OperatorMaskTurns ==
  ASSUME TInv, IInv', NEW n, NEW task \in Task, task.op = "mask", NEW cancels,
         OperatorMask(n, task, cancels)
  PROVE  Filters' /\ Asked' /\ Dispatch'
<1> DEFINE u == [op |-> "endSilence"]
<1>1. u \in Task /\ u.op \in PlainOps /\ task.op \in PlainOps
  BY NewTasks DEF PlainOps
<1>2. /\ Idle /\ todo' = <<task, u>>
      /\ noAckUntil' = (IF cancels THEN WithoutTimers(n) ELSE noAckUntil)
      /\ UNCHANGED <<ch, nextStateDeadline, nextShelfDeadline, dispatching, requested, clocks>>
  BY DEF OperatorMask, channelVars
<1> HIDE DEF u
<1>3. <<task, u>> \in Seq(Task) /\ Plain(<<task, u>>)
  BY <1>1, PlainTasks
<1>4. \A m \in Nodes : noAckUntil'[m] \in {0, noAckUntil[m]}
  BY <1>2 DEF WithoutTimers
<1>5. CanCallBack
  BY <1>2 DEF CanCallBack
<1> QED  BY <1>2, <1>3, <1>4, <1>5, PlainCall

(* A step between calls that starts none.                                  *)
LEMMA IdleTurn ==
  ASSUME TInv, Idle, UNCHANGED <<todo, dispatching>>, DeadlinesCovered'
  PROVE  Dispatch'
<1>1. todo = << >> /\ todo' = << >>
  BY DEF Idle
<1>2. Ordered(todo', dispatching')
  BY DEF TInv, Dispatch
<1>3. ~dispatching
  BY <1>1 DEF TInv, Dispatch, Ordered
<1>4. Pending(todo', dispatching', ExpiredTimers')
  BY <1>1, <1>3 DEF Pending
<1>5. EdgeReady' /\ NothingOverdueAtEvent'
  BY <1>1 DEF EdgeReady, NothingOverdueAtEvent, Running
<1> QED  BY <1>2, <1>4, <1>5 DEF Dispatch

LEMMA IdleStill ==
  ASSUME TInv, IInv', Idle, UNCHANGED <<ch, timerVars, requested, todo>>
  PROVE  Filters' /\ Asked' /\ Dispatch'
<1>1. Filters' /\ Asked'
  BY StillChannels DEF TInv
<1>2. UNCHANGED <<noAckUntil, nextStateDeadline, nextShelfDeadline, dispatching>>
  BY DEF timerVars
<1>3. DeadlinesCovered'
  BY <1>2 DEF TInv, Dispatch, DeadlinesCovered
<1> QED  BY <1>1, <1>2, <1>3, IdleTurn

LEMMA FreshSteady ==
  ASSUME NEW c \in Channels
  PROVE  /\ Steady(c, FreshChannel(c)) /\ FreshChannel(c).filterUntil = 0
<1> DEFINE ring == [i \in 1..(IF FilterCount[c] > 0 THEN 2 * FilterCount[c] ELSE 0) |-> 0]
           s == FreshChannel(c)
<1>1. \A i \in DOMAIN ring : ring[i] = 0
  OBVIOUS
<1> HIDE DEF ring
<1>2. /\ s.filterUntil = 0 /\ s.edges = ring /\ s.awaiting
      /\ ~s.initialized /\ s.status = 0 /\ s.severity \in {0, Error}
  BY DEF FreshChannel, ring
<1> HIDE DEF s
<1>3. Steady(c, s)
  BY <1>1, <1>2 DEF Steady, Quiet, Held
<1> QED  BY <1>2, <1>3 DEF s

LEMMA ReloadTurns ==
  ASSUME TInv, Reload
  PROVE  Filters' /\ Asked' /\ Dispatch'
<1>1. PICK tracked \in SUBSET Channels :
        /\ ch' = [c \in Channels |-> RestoredChannel(c, tracked)]
        /\ nextShelfDeadline' =
             Earliest({[d \in Channels |-> RestoredChannel(d, tracked)][c].shelf : c \in Channels})
  BY DEF Reload
<1>2. Idle /\ UNCHANGED <<todo, dispatching>> /\ noAckUntil' = NoTimers /\ requested' = {}
  BY DEF Reload
<1>3. IInv'
  BY ReloadKeeps DEF TInv
<1>4. ASSUME NEW c \in Channels
      PROVE  Steady(c, ch'[c]) /\ ch'[c].filterUntil = 0
  <2> DEFINE shelf == IF ch[c].shelf > wall THEN ch[c].shelf ELSE 0
             kept == /\ ~Global /\ FreshChannel(c).mask \cap {"Ack", "Disable"} = {}
                     /\ \/ ch[c].shelf # 0
                        \/ c \in tracked /\ "Cancel" \notin FreshChannel(c).mask
             unack == IF kept THEN ch[c].unack ELSE FreshChannel(c).unack
  <2>1. ch'[c] = [FreshChannel(c) EXCEPT !.shelf = shelf, !.unack = unack]
    BY <1>1 DEF RestoredChannel
  <2> HIDE DEF shelf, unack
  <2>2. SameFilter(FreshChannel(c), ch'[c])
    BY <2>1 DEF FreshChannel, SameFilter
  <2>3. Steady(c, FreshChannel(c)) /\ FreshChannel(c).filterUntil = 0
    BY FreshSteady
  <2> QED  BY <2>2, <2>3, SameFilterSteady DEF SameFilter
<1>5. Filters' /\ Asked'
  BY <1>2, <1>4 DEF Filters, Asked
<1>6. ASSUME NEW c \in Channels, ch'[c].shelf # 0
      PROVE  nextShelfDeadline' \in 1..ch'[c].shelf
  <2> DEFINE S == {ch'[d].shelf : d \in Channels}
  <2>1. S \in SUBSET Nat
    BY <1>3 DEF IInv, Core, ChannelState
  <2>2. nextShelfDeadline' = Earliest(S)
    BY <1>1
  <2>3. ch'[c].shelf \in S
    OBVIOUS
  <2> HIDE DEF S
  <2> QED  BY <1>6, <2>1, <2>2, <2>3, EarliestLow
<1>7. DeadlinesCovered'
  BY <1>2, <1>4, <1>6 DEF DeadlinesCovered, NoTimers
<1> QED  BY <1>2, <1>5, <1>7, IdleTurn

LEMMA CallTurns ==
  ASSUME TInv, Call
  PROVE  Filters' /\ Asked' /\ Dispatch'
<1> DEFINE Kept == Filters' /\ Asked' /\ Dispatch'
<1>1. IInv /\ IInv' /\ todo \in Seq(Task)
  <2>1. IInv /\ IInv'
    BY CallsKeep DEF TInv
  <2> QED  BY <2>1 DEF IInv, Agenda
<1>2. "mask" \in PlainOps /\ \A n, s, k, r, a : MaskTask(n, s, k, r, a).op = "mask"
  BY DEF PlainOps, MaskTask
<1>3. CASE \E c \in Channels, e \in Events : MonitorEvent(c, e)
  <2>1. PICK c \in Channels, e \in Events : MonitorEvent(c, e)
    BY <1>3
  <2> DEFINE t == [op |-> "event", node |-> c, event |-> e]
  <2>2. Deadlines \in Task /\ t \in Task /\ Deadlines.op = "deadlines" /\ t.op = "event"
    BY EngineAssumption, NewTasks DEF Deadlines
  <2>3. /\ CanCallBack /\ todo' = <<Deadlines, t>> \o todo
        /\ UNCHANGED <<ch, nextStateDeadline, nextShelfDeadline, dispatching, requested, clocks>>
        /\ UNCHANGED noAckUntil
    BY <2>1 DEF MonitorEvent, channelVars, timerVars
  <2> HIDE DEF t
  <2> DEFINE new == <<Deadlines, t>>
  <2>4. /\ new \in Seq(Task) /\ Len(new) = 2 /\ new[1] = Deadlines /\ new[2] = t
    BY <2>2
  <2> HIDE DEF new
  <2>5. \A i \in 1..Len(new) : i = 1 \/ i = 2
    BY <2>4
  <2>6. Ordered(new, FALSE) /\ new[1].op \notin {"edge", "event"}
    BY <2>2, <2>4, <2>5 DEF Ordered
  <2>7. todo' = new \o todo
    BY <2>3 DEF new
  <2> QED  BY <1>1, <2>3, <2>4, <2>6, <2>7, CallTurn
<1>4. CASE \E n \in Nodes, m \in MaskRequests : SetMask(n, m)
  <2>1. PICK n \in Nodes, m \in MaskRequests : SetMask(n, m)
    BY <1>4
  <2>2. MaskTask(n, m, MaskBits, {}, FALSE) \in Task
    BY EngineAssumption, Bits, MaskTasks
  <2> QED  BY <1>1, <1>2, <2>1, <2>2, OperatorMaskTurns DEF SetMask
<1>5. CASE \E n \in Nodes : ResetMask(n)
  <2>1. PICK n \in Nodes : ResetMask(n)
    BY <1>5
  <2>2. MaskTask(n, {}, {}, MaskBits, FALSE) \in Task
    BY Bits, MaskTasks
  <2> QED  BY <1>1, <1>2, <2>1, <2>2, OperatorMaskTurns DEF ResetMask
<1>6. CASE \E n \in Nodes, b \in BitRequests : ModifyMask(n, b)
  <2>1. PICK n \in Nodes, b \in BitRequests : ModifyMask(n, b)
    BY <1>6
  <2>2. {b} \in Mask /\ {} \in Mask
    BY EngineAssumption, Bits
  <2>3. /\ MaskTask(n, {b}, {}, {}, FALSE) \in Task
        /\ MaskTask(n, {}, {b}, {}, FALSE) \in Task
        /\ MaskTask(n, {}, {}, {b}, FALSE) \in Task
    BY <2>2, MaskTasks
  <2> QED  BY <1>1, <1>2, <2>1, <2>3, OperatorMaskTurns DEF ModifyMask
<1>7. CASE \E c \in RestoreTargets : RestoreMask(c)
  <2>1. PICK c \in RestoreTargets : RestoreMask(c)
    BY <1>7
  <2> DEFINE t == MaskTask(c, {}, {}, MaskBits, FALSE)
  <2>2. t \in Task /\ t.op \in PlainOps
    BY <1>2, EngineAssumption, Bits, MaskTasks DEF Nodes
  <2>3. /\ Idle /\ CanCallBack /\ todo' = <<t>>
        /\ UNCHANGED <<ch, nextStateDeadline, nextShelfDeadline, dispatching, requested, clocks>>
        /\ UNCHANGED noAckUntil
    BY <2>1 DEF RestoreMask, channelVars, timerVars, CanCallBack
  <2> HIDE DEF t
  <2>4. <<t>> \in Seq(Task) /\ Plain(<<t>>)
    BY <2>2, PlainTasks
  <2> QED  BY <1>1, <2>3, <2>4, PlainCall
<1>8. CASE \E n \in Nodes : ForceMask(n)
  <2>1. PICK n \in Nodes : ForceMask(n)
    BY <1>8
  <2>2. /\ \A m \in ForceRequests : MaskTask(n, m, MaskBits, {}, TRUE) \in Task
        /\ MaskTask(n, {}, {}, MaskBits, TRUE) \in Task
    BY EngineAssumption, Bits, MaskTasks
  <2>3. PICK t \in Task : t.op = "mask" /\ todo' = <<t>> \o todo
    BY <1>2, <2>1, <2>2 DEF ForceMask
  <2>4. /\ CanCallBack
        /\ UNCHANGED <<ch, nextStateDeadline, nextShelfDeadline, dispatching, requested, clocks>>
        /\ UNCHANGED noAckUntil
    BY <2>1 DEF ForceMask, channelVars, timerVars
  <2>5. <<t>> \in Seq(Task) /\ Plain(<<t>>)
    BY <1>2, <2>3, PlainTasks
  <2> QED  BY <1>1, <2>3, <2>4, <2>5, PlainCall
<1>9. CASE \E n \in Nodes : DiscardForce(n)
  <2>1. Idle /\ UNCHANGED <<ch, timerVars, requested, todo>>
    BY <1>9 DEF DiscardForce, channelVars
  <2> QED  BY <1>1, <2>1, IdleStill
<1>10. CASE \E n \in NoAckTargets, on \in BOOLEAN : NoAck(n, on)
  <2>1. PICK n \in NoAckTargets, on \in BOOLEAN : NoAck(n, on)
    BY <1>10
  <2> DEFINE t == [op |-> "noAck", node |-> n, top |-> n, on |-> on]
             u == [op |-> "armNoAck", node |-> n]
  <2>2. n \in Nodes
    BY EngineAssumption
  <2>3. t \in Task /\ u \in Task /\ t.op \in PlainOps /\ u.op \in PlainOps
    BY <2>2, NewTasks DEF PlainOps
  <2>4. /\ Idle /\ CanCallBack /\ noAckUntil' = [noAckUntil EXCEPT ![n] = 0]
        /\ UNCHANGED <<ch, nextStateDeadline, nextShelfDeadline, dispatching, requested, clocks>>
        /\ todo' = <<t>> \o (IF on THEN <<u>> ELSE << >>)
    BY <2>1 DEF NoAck, channelVars, CanCallBack
  <2> HIDE DEF t, u
  <2>5. todo' = <<t, u>> \/ todo' = <<t>>
    <3>1. <<t>> \o << >> = <<t>>
      BY <2>3, ConcatEmptySeq
    <3>2. <<t>> \o <<u>> = <<t, u>>
      <4>1. <<t, u>> \o << >> = <<t>> \o (<<u>> \o << >>)
        BY <2>3, NoTasks, TwoThenRest
      <4>2. <<t, u>> \in Seq(Task) /\ <<u>> \in Seq(Task)
        BY <2>3
      <4> QED  BY <4>1, <4>2, ConcatEmptySeq
    <3> QED  BY <2>4, <3>1, <3>2
  <2>6. \A m \in Nodes : noAckUntil'[m] \in {0, noAckUntil[m]}
    BY <1>1, <2>4 DEF IInv, Timers
  <2>7. /\ <<t>> \in Seq(Task) /\ Plain(<<t>>)
        /\ <<t, u>> \in Seq(Task) /\ Plain(<<t, u>>)
    BY <2>3, PlainTasks
  <2> QED  BY <1>1, <2>4, <2>5, <2>6, <2>7, PlainCall
<1>11. ASSUME NEW t \in Task, t.op \in PlainOps, Idle, todo' = <<t>>,
              UNCHANGED <<channelVars, timerVars, threshold, requested, pendingForce, clocks>>
       PROVE  Kept
  <2>1. /\ CanCallBack /\ UNCHANGED noAckUntil
        /\ UNCHANGED <<ch, nextStateDeadline, nextShelfDeadline, dispatching, requested, clocks>>
    BY <1>11 DEF channelVars, timerVars, CanCallBack
  <2>2. <<t>> \in Seq(Task) /\ Plain(<<t>>)
    BY <1>11, PlainTasks
  <2> QED  BY <1>1, <1>11, <2>1, <2>2, PlainCall
<1>12. CASE \E n \in AckTargets : Acknowledge(n)
  <2>1. PICK n \in AckTargets : Acknowledge(n)
    BY <1>12
  <2>2. [op |-> "acknowledge", node |-> n] \in Task
    BY EngineAssumption, NewTasks
  <2> QED  BY <1>11, <2>1, <2>2 DEF Acknowledge, PlainOps
<1>13. CASE \E n \in ShelveTargets, d \in ShelfDurations, r \in BOOLEAN : Shelve(n, d, r)
  <2>1. PICK n \in ShelveTargets, d \in ShelfDurations, r \in BOOLEAN : Shelve(n, d, r)
    BY <1>13
  <2>2. n \in Nodes /\ wall + d \in Nat
    BY <1>1, EngineAssumption DEF IInv, Clocks
  <2>3. [op |-> "shelve", node |-> n, until |-> wall + d, replace |-> r] \in Task
    BY <2>2, NewTasks
  <2> QED  BY <1>11, <2>1, <2>3 DEF Shelve, PlainOps
<1>14. CASE \E n \in ShelveTargets : Unshelve(n)
  <2>1. PICK n \in ShelveTargets : Unshelve(n)
    BY <1>14
  <2>2. [op |-> "unshelve", node |-> n] \in Task
    BY EngineAssumption, NewTasks
  <2> QED  BY <1>11, <2>1, <2>2 DEF Unshelve, PlainOps
<1>15. CASE \E n \in BeepTargets, v \in BeepRequests : SetBeep(n, v)
  <2>1. Idle /\ UNCHANGED <<ch, timerVars, requested, todo>>
    BY <1>15 DEF SetBeep
  <2> QED  BY <1>1, <2>1, IdleStill
<1>16. CASE SetSilence
  <2>1. Idle /\ UNCHANGED <<ch, timerVars, requested, todo>>
    BY <1>16 DEF SetSilence
  <2> QED  BY <1>1, <2>1, IdleStill
<1>17. CASE Reload
  BY <1>17, ReloadTurns
<1> QED  BY <1>3, <1>4, <1>5, <1>6, <1>7, <1>8, <1>9, <1>10, <1>12, <1>13, <1>14, <1>15,
            <1>16, <1>17 DEF Call

LEMMA TimeTurns ==
  ASSUME TInv, Tick \/ TimePasses \/ SetClock
  PROVE  Filters' /\ Asked' /\ Dispatch'
<1>1. IInv /\ IInv'
  BY TimeKeeps DEF TInv
<1>2. CASE Tick
  <2> DEFINE t == [op |-> "retry", due |-> pendingForce]
  <2>1. Deadlines \in Task /\ t \in Task /\ Deadlines.op = "deadlines" /\ t.op = "retry"
    BY <1>1, NewTasks DEF IInv, Requests, Deadlines
  <2>2. /\ Idle /\ CanCallBack /\ UNCHANGED noAckUntil
        /\ todo' = <<t>> \o <<Deadlines>> \/ todo' = << >> \o <<Deadlines>>
        /\ UNCHANGED <<ch, nextStateDeadline, nextShelfDeadline, dispatching, requested, clocks>>
    BY <1>2 DEF Tick, channelVars, timerVars, CanCallBack
  <2> HIDE DEF t
  <2>3. <<Deadlines>> \in Seq(Task) /\ <<t>> \in Seq(Task) /\ << >> \in Seq(Task)
    BY <2>1
  <2>4. Ordered(<<Deadlines>>, FALSE)
    BY <2>1 DEF Ordered
  <2>5. Plain(<<t>>) /\ Plain(<< >>)
    BY <2>1 DEF Plain, PlainOps
  <2>6. Fits(<<t>>, <<Deadlines>>) /\ Fits(<< >>, <<Deadlines>>)
    BY <2>1 DEF Fits
  <2>7. Ordered(todo', FALSE) /\ todo' \in Seq(Task)
    <3>1. Ordered(<<t>> \o <<Deadlines>>, FALSE) /\ Ordered(<< >> \o <<Deadlines>>, FALSE)
      BY <2>3, <2>4, <2>5, <2>6, PlainOrder, Joined
    <3>2. IInv'
      BY <1>1
    <3> QED  BY <2>2, <3>1, <3>2 DEF IInv, Agenda
  <2>8. todo' # << >> => todo'[1].op \notin {"edge", "event"}
    <3>1. /\ << >> \o <<Deadlines>> = <<Deadlines>>
          /\ Head(<<t>> \o <<Deadlines>>) = t
      BY <2>3, JoinedHead
    <3> QED  BY <2>1, <2>2, <2>7, <3>1
  <2>9. todo' = todo' \o todo
    BY <2>2, <2>7, ConcatEmptySeq DEF Idle
  <2> DEFINE new == todo'
  <2>10. new \in Seq(Task) /\ Ordered(new, FALSE) /\ todo' = new \o todo
         /\ (new # << >> => new[1].op \notin {"edge", "event"})
    BY <2>7, <2>8, <2>9
  <2>11. \A n \in Nodes : noAckUntil'[n] \in {0, noAckUntil[n]}
    BY <2>2
  <2> HIDE DEF new
  <2> QED  BY <1>1, <2>2, <2>10, <2>11, CallTurn
<1>3. CASE TimePasses \/ SetClock
  <2>1. Idle /\ UNCHANGED <<ch, timerVars, requested, todo>>
    BY <1>3 DEF TimePasses, SetClock, channelVars
  <2> QED  BY <1>1, <2>1, IdleStill
<1> QED  BY <1>2, <1>3

LEMMA InitiallyTimed ==
  ASSUME Init
  PROVE  TInv
<1>1. IInv
  BY Initially
<1>2. /\ ch = [c \in Channels |-> FreshChannel(c)] /\ requested = {} /\ todo = << >>
      /\ dispatching = FALSE /\ noAckUntil = NoTimers
  BY DEF Init
<1>3. Filters
  BY <1>2, FreshSteady DEF Filters
<1>4. DeadlinesCovered
  <2>1. \A c \in Channels : FreshChannel(c).filterUntil = 0 /\ FreshChannel(c).shelf = 0
    BY DEF FreshChannel
  <2> QED  BY <1>2, <2>1 DEF DeadlinesCovered, NoTimers
<1>5. Ordered(todo, dispatching) /\ Pending(todo, dispatching, ExpiredTimers)
  BY <1>2 DEF Ordered, Pending
<1> QED  BY <1>1, <1>2, <1>3, <1>4, <1>5
         DEF TInv, Asked, Dispatch, EdgeReady, NothingOverdueAtEvent, Running

LEMMA StutterTurns ==
  ASSUME TInv, UNCHANGED vars
  PROVE  TInv'
<1>1. IInv'
  BY StutterKeeps DEF TInv
<1>2. UNCHANGED <<ch, noAckUntil, nextStateDeadline, nextShelfDeadline, dispatching,
                  requested, todo, mono, wall>>
  BY DEF vars
<1>3. Filters' /\ Asked'
  BY <1>2 DEF TInv, Filters, Asked
<1>4. Dispatch'
  BY <1>2 DEF TInv, Dispatch, EdgeReady, DeadlinesCovered, NothingOverdueAtEvent, Running,
              ExpiredTimers
<1> QED  BY <1>1, <1>3, <1>4 DEF TInv

LEMMA TimersTurn ==
  ASSUME TInv, [Next]_vars
  PROVE  TInv'
<1>1. CASE Step
  <2>1. IInv'
    BY <1>1, StepsKeep DEF TInv
  <2>2. Filters' /\ Asked' /\ Dispatch'
    BY <1>1, EventTurns, EdgeTurns, DeadlineTurns, TimerTurns, ShelvesTurn, MaskTurns,
       SilenceTurns, RetryTurns, VisitNoAckTurns, ArmNoAckTurns, AcknowledgeTurns,
       ShelveTurns, UnshelveTurns
       DEF Step
  <2> QED  BY <2>1, <2>2 DEF TInv
<1>2. CASE Call
  BY <1>2, CallsKeep, CallTurns DEF TInv
<1>3. CASE Tick \/ TimePasses \/ SetClock
  BY <1>3, TimeKeeps, TimeTurns DEF TInv
<1>4. CASE UNCHANGED vars
  BY <1>4, StutterTurns
<1> QED  BY <1>1, <1>2, <1>3, <1>4 DEF Next

LEMMA TimerInvariant == Spec => []TInv
<1>1. Init => TInv
  BY InitiallyTimed
<1>2. TInv /\ [Next]_vars => TInv'
  BY TimersTurn
<1> QED  BY <1>1, <1>2, PTL DEF Spec

(***************************************************************************)
(* The theorems on timers.                                                 *)
(***************************************************************************)

(* No armed filter, one-hour timer or shelf lies before the deadline below *)
(* which processDeadlines does not look, unless the dispatch loop runs.    *)
THEOREM NoDeadlineMissed == Spec => []DeadlinesCovered
<1>1. TInv => DeadlinesCovered
  BY DEF TInv, Dispatch
<1> QED  BY <1>1, TimerInvariant, PTL

(* When a monitor event is handled outside a dispatch, everything that has *)
(* expired was dispatched before it, however the queue of the running call *)
(* and synchronous callbacks interleave.                                   *)
THEOREM EventsFindNothingOverdue == Spec => []NothingOverdueAtEvent
<1>1. TInv => NothingOverdueAtEvent
  BY DEF TInv, Dispatch
<1> QED  BY <1>1, TimerInvariant, PTL

(* Between calls a filter timer runs exactly for the channels whose shown  *)
(* state and latest event differ, and a cancelled channel has none.        *)
THEOREM FilterTimersAreExact == Spec => []FilterTimersExact
<1>1. TInv => FilterTimersExact
  <2> SUFFICES ASSUME TInv  PROVE FilterTimersExact
    OBVIOUS
  <2>1. HeldBackIffTimer
    BY DEF TInv, Filters, Steady, Held, Unseen, HeldBack, HeldBackIffTimer
  <2>2. CancelledIsQuiet
    BY DEF TInv, Filters, Steady, Quiet, CancelledIsQuiet
  <2> QED  BY <2>1, <2>2 DEF FilterTimersExact
<1> QED  BY <1>1, TimerInvariant, PTL

(***************************************************************************)
(* What one step may do.  An event, a count and a timer leave a channel as *)
(* it is but for its filter, or process it as an event of that channel.    *)
(***************************************************************************)
Observes(c, s) ==
  /\ s \in ChannelState /\ s.mask = ch[c].mask /\ s.unack = ch[c].unack
  /\ s.severity = ch[c].severity /\ s.initialized = ch[c].initialized

EventShape ==
  \/ UNCHANGED <<ch, requested, grp, silence, output>>
  \/ \E c \in Channels, s \in ChannelState, e \in Event, seen \in Severity :
       Observes(c, s) /\ Process(c, s, e, seen)
  \/ \E c \in Channels, s \in ChannelState :
       /\ Observes(c, s) /\ ch' = [ch EXCEPT ![c] = s]
       /\ s.awaiting /\ ~ch[c].awaiting => c \notin requested'
       /\ UNCHANGED <<grp, silence, output>>

LEMMA ProcessShape ==
  ASSUME NEW c \in Channels, NEW s, Observes(c, s), NEW e \in Event, NEW seen \in Severity,
         Process(c, s, e, seen)
  PROVE  EventShape
<1>1. s \in ChannelState
  BY DEF Observes
<1> QED  BY <1>1 DEF EventShape

LEMMA ResetObserves ==
  ASSUME IInv, NEW c \in Channels, NEW s, Sound(c, s), Observes(c, s)
  PROVE  Observes(c, FilterReset(s))
<1>1. FilterReset(s) \in ChannelState
  BY FilterChanges DEF Sound
<1>2. /\ FilterReset(s).mask = s.mask /\ FilterReset(s).unack = s.unack
      /\ FilterReset(s).severity = s.severity /\ FilterReset(s).initialized = s.initialized
  BY DEF FilterReset, Observes, ChannelState
<1> QED  BY <1>1, <1>2 DEF Observes

LEMMA EventShapes ==
  ASSUME IInv, HandleEvent
  PROVE  EventShape
<1> DEFINE c == Head(todo).node
           e == Head(todo).event
           a == Arrived(c, e)
           z == [a EXCEPT !.filterUntil = 0]
           f == ArmFilter(c, a)
<1>1. Head(todo) \in Task /\ Head(todo).op = "event"
  BY HeadTask DEF HandleEvent, IInv
<1>2. c \in Channels /\ e \in Event /\ e.severity \in Severity
  BY <1>1, TaskFields DEF Event
<1> HIDE DEF c, e
<1>3. ch[c] \in ChannelState /\ a \in ChannelState /\ Sound(c, a) /\ f \in ChannelState
  BY <1>2, ArrivedSound DEF IInv, Core, Sound
<1>4. Observes(c, a) /\ (a.awaiting <=> (ch[c].awaiting \/ LosesCoverage(c, e)))
  <2> HIDE DEF a
  <2>1. a = Arrived(c, e)
    BY DEF a
  <2>2. a.mask = ch[c].mask /\ (a.awaiting <=> (ch[c].awaiting \/ LosesCoverage(c, e)))
    BY <1>2, <2>1, ArrivedFields
  <2>3. /\ a.unack = ch[c].unack
        /\ a.severity = ch[c].severity /\ a.initialized = ch[c].initialized
    BY <1>3, <2>1 DEF Arrived, ChannelState
  <2> QED  BY <1>3, <2>2, <2>3 DEF Observes
<1> HIDE DEF a
<1>5. Observes(c, z) /\ Observes(c, FilterReset(a))
  <2>1. Observes(c, z)
    BY <1>3, <1>4 DEF Observes, ChannelState
  <2> QED  BY <1>2, <1>3, <1>4, <2>1, ResetObserves
<1>6. Observes(c, f) /\ f.awaiting = a.awaiting
  BY <1>3, <1>4 DEF ArmFilter, Observes, ChannelState
<1>7. CASE IgnoreCancelled(c, e)
  BY <1>7 DEF IgnoreCancelled, channelVars, EventShape
<1>8. CASE PassUnfiltered(c, e)
  BY <1>2, <1>4, <1>8, ProcessShape DEF PassUnfiltered, a
<1>9. CASE StaysInAlarm(c, e)
  BY <1>2, <1>5, <1>9, ProcessShape DEF StaysInAlarm, a
<1>10. CASE StaysNormal(c, e)
  <2> DEFINE t == [z EXCEPT !.observed = 0, !.awaiting = FALSE]
  <2>1. CASE Process(c, z, e, 0)
    BY <1>2, <1>5, <2>1, ProcessShape DEF Severity, Error
  <2>2. CASE ch' = [ch EXCEPT ![c] = t] /\ UNCHANGED <<grp, silence, output>>
    <3>1. Observes(c, t) /\ ~t.awaiting
      <4>1. /\ z \in ChannelState /\ z.mask = ch[c].mask /\ z.unack = ch[c].unack
            /\ z.severity = ch[c].severity /\ z.initialized = ch[c].initialized
        BY <1>5 DEF Observes
      <4> HIDE DEF z
      <4>2. 0 \in Severity
        BY DEF Severity, Error
      <4>3. /\ t \in ChannelState /\ t.mask = z.mask /\ t.unack = z.unack
            /\ t.severity = z.severity /\ t.initialized = z.initialized
            /\ ~t.awaiting
        BY <4>1, <4>2 DEF ChannelState
      <4> QED  BY <4>1, <4>3 DEF Observes
    <3>2. t \in ChannelState
      BY <3>1 DEF Observes
    <3> HIDE DEF t
    <3> QED  BY <1>2, <2>2, <3>1, <3>2 DEF EventShape
  <2> QED  BY <1>10, <2>1, <2>2 DEF StaysNormal, a
<1>11. CASE HoldAlarm(c, e)
  <2>1. /\ ch' = [ch EXCEPT ![c] = f] /\ UNCHANGED <<grp, silence, output>>
        /\ requested' = IF LosesCoverage(c, e) THEN requested \ {c} ELSE requested
    BY <1>11 DEF HoldAlarm, a
  <2>2. f.awaiting /\ ~ch[c].awaiting => c \notin requested'
    BY <1>4, <1>6, <2>1
  <2>3. f \in ChannelState
    BY <1>3
  <2> HIDE DEF f
  <2> QED  BY <1>2, <1>6, <2>1, <2>2, <2>3 DEF EventShape
<1>12. CASE HoldRecovery(c, e)
  <2> DEFINE held == [e EXCEPT !.status = ch[c].status, !.severity = ch[c].severity]
  <2>1. Process(c, FilterReset(a), e, 0) \/ Process(c, f, held, 0)
    BY <1>12 DEF HoldRecovery, a
  <2>2. held \in Event /\ 0 \in Severity
    <3>1. ch[c].status \in Nat /\ ch[c].severity \in Severity
      BY <1>3 DEF ChannelState
    <3>2. held \in Event
      BY <1>2, <3>1 DEF Event
    <3> QED  BY <3>2 DEF Severity, Error
  <2> HIDE DEF held, f
  <2> QED  BY <1>2, <1>5, <1>6, <2>1, <2>2, ProcessShape
<1> QED  BY <1>7, <1>8, <1>9, <1>10, <1>11, <1>12 DEF HandleEvent, c, e

LEMMA EdgeShapes ==
  ASSUME IInv, CountEdge
  PROVE  EventShape
<1> DEFINE c == Head(todo).node
           e == Head(todo).event
           s == ch[c]
           old == s.edges[s.edgeIndex + 1]
<1>1. Head(todo) \in Task /\ Head(todo).op = "edge"
  BY HeadTask DEF CountEdge, IInv
<1>2. c \in Channels /\ e \in Event /\ e.severity \in Severity
  BY <1>1, TaskFields DEF Event, Counted
<1> HIDE DEF c, e
<1>3. s \in ChannelState /\ Sound(c, s) /\ Observes(c, s)
  BY <1>2 DEF IInv, Core, Observes
<1>4. CASE Process(c, FilterReset(s), e, e.severity)
  BY <1>2, <1>3, <1>4, ResetObserves, ProcessShape
<1>5. CASE /\ ch' = [ch EXCEPT ![c].edges[s.edgeIndex + 1] = mono,
                               ![c].edgeIndex = (s.edgeIndex + 1) % Len(s.edges)]
           /\ UNCHANGED <<grp, silence, output>>
  <2> DEFINE t == [s EXCEPT !.edges = [s.edges EXCEPT ![s.edgeIndex + 1] = mono],
                            !.edgeIndex = (s.edgeIndex + 1) % Len(s.edges)]
  <2>1. ch' = [ch EXCEPT ![c] = t]
    BY <1>2, <1>3, <1>5 DEF IInv, Core, ChannelState
  <2>2. ch'[c] = t /\ ch'[c] \in ChannelState
    <3> HIDE DEF t
    <3> QED  BY <1>1, <1>2, <2>1, EdgeKeeps DEF IInv, Core
  <2>3. Observes(c, t) /\ t.awaiting = s.awaiting
    BY <1>3, <2>2 DEF Observes, ChannelState
  <2>4. t \in ChannelState
    BY <2>2
  <2> HIDE DEF t
  <2> QED  BY <1>2, <1>3, <1>5, <2>1, <2>3, <2>4 DEF EventShape
<1> QED  BY <1>4, <1>5 DEF CountEdge, c, e

LEMMA TimerShapes ==
  ASSUME IInv, DispatchTimer
  PROVE  EventShape
<1> DEFINE t == FirstOf(Head(todo).due)
<1>1. CASE FilterExpires(t)
  <2> DEFINE c == t.node
             s == FilterReset(ch[c])
  <2>1. t \in ExpiredTimers /\ t.filter /\ Process(c, s, s.pending, s.pending.severity)
    BY <1>1 DEF FilterExpires
  <2> HIDE DEF t
  <2>2. c \in Channels
    BY <2>1, WhichTimer
  <2>3. Sound(c, ch[c]) /\ ch[c] \in ChannelState
    BY <2>2 DEF IInv, Core
  <2>4. Observes(c, s)
    BY <2>2, <2>3, ResetObserves DEF Observes
  <2> HIDE DEF s, c
  <2>5. s.pending \in Event /\ s.pending.severity \in Severity
    BY <2>4 DEF Observes, ChannelState, Event
  <2> QED  BY <2>1, <2>2, <2>4, <2>5, ProcessShape
<1>2. CASE UNCHANGED <<channelVars, requested>>
  BY <1>2 DEF EventShape, channelVars
<1> HIDE DEF t
<1> QED  BY <1>1, <1>2 DEF DispatchTimer, NoAckExpires, DropStaleTimer, t

LEMMA EventShapeHolds ==
  ASSUME IInv, HandleEvent \/ CountEdge \/ DispatchTimer
  PROVE  EventShape
  BY EventShapes, EdgeShapes, TimerShapes

(* A processed event clears the latch of its channel only where NoAckT     *)
(* lets it (local mode).                                                   *)
LEMMA ProcessedLatch ==
  ASSUME ~Global, NEW s \in ChannelState, NEW e \in Event, NEW seen, NEW t,
         t = Processed(s, e, seen)
  PROVE  t.unack = s.unack \/ t.unack >= s.unack \/ "AckT" \in s.mask
<1> DEFINE latches == /\ IsTransition(s, e)
                      /\ s.mask \cap {"Disable", "Ack"} = {}
                      /\ e.severity >= s.unack \/ "AckT" \in s.mask
<1>1. t.unack = IF latches THEN e.severity ELSE s.unack
  BY DEF Processed, ChannelState
<1> QED  BY <1>1

LEMMA ShapesKeepLatches ==
  ASSUME IInv, ~Global, EventShape, NEW d \in Channels, "AckT" \notin ch[d].mask
  PROVE  ch'[d].unack >= ch[d].unack
<1>1. \A c \in Channels : ch[c] \in ChannelState /\ ch[c].unack >= ch[c].unack
  BY DEF IInv, Core, ChannelState, Severity, Error
<1>2. ch \in [Channels -> ChannelState]
  BY DEF IInv, Core
<1>3. CASE UNCHANGED ch
  BY <1>1, <1>3
<1>4. ASSUME NEW c \in Channels, NEW s \in ChannelState, NEW e \in Event, NEW seen \in Severity,
             Observes(c, s), Process(c, s, e, seen)
      PROVE  ch'[d].unack >= ch[d].unack
  <2> DEFINE t == Processed(s, e, seen)
  <2>1. ch' = [ch EXCEPT ![c] = t]
    BY <1>4 DEF Process, Commit
  <2>2. s.mask = ch[c].mask /\ s.unack = ch[c].unack
    BY <1>4 DEF Observes
  <2>3. t.unack = s.unack \/ t.unack >= s.unack \/ "AckT" \in s.mask
    <3> HIDE DEF t
    <3>1. t = Processed(s, e, seen)
      BY DEF t
    <3> QED  BY <1>4, <3>1, ProcessedLatch
  <2> HIDE DEF t
  <2>4. CASE d = c
    BY <1>1, <1>2, <2>1, <2>2, <2>3, <2>4
  <2>5. CASE d # c
    BY <1>1, <1>2, <2>1, <2>5
  <2> QED  BY <2>4, <2>5
<1>5. ASSUME NEW c \in Channels, NEW s \in ChannelState, Observes(c, s),
             ch' = [ch EXCEPT ![c] = s]
      PROVE  ch'[d].unack >= ch[d].unack
  BY <1>1, <1>2, <1>5 DEF Observes
<1> QED  BY <1>3, <1>4, <1>5 DEF EventShape

(* In local mode an event, a filter or a count lets no outstanding         *)
(* acknowledgement drop unless NoAckT allows it: the latch survives every  *)
(* order of alarms, recoveries and filter timeouts.                        *)
THEOREM EventsKeepEveryLatch == Spec => EventsKeepLatches
<1> DEFINE Keeps == ~Global /\ (HandleEvent \/ CountEdge \/ DispatchTimer) =>
                      \A c \in Channels : "AckT" \in ch[c].mask \/ ch'[c].unack >= ch[c].unack
<1>1. IInv => Keeps
  BY EventShapeHolds, ShapesKeepLatches
<1>2. Spec => [][Keeps]_vars
  <2> HIDE DEF Keeps
  <2> QED  BY <1>1, Invariant, PTL DEF Spec
<1> QED  BY <1>2 DEF EventsKeepLatches

(***************************************************************************)
(* Every step of the engine: no channel changes, or the engine is new, or  *)
(* one channel changes and what the operator hears is presented with it.   *)
(* Only a mask task touches more of a mask than its AckT bit.              *)
(***************************************************************************)
Heard(c) ==
  silence' = [silence EXCEPT !.current = @ /\ ~EndsSilence(c, ch'[c])]

KeepsMask(c, s) == Running("mask") \/ s.mask \ {"AckT"} = ch[c].mask \ {"AckT"}

Changes(c) ==
  /\ ch' = [ch EXCEPT ![c] = ch'[c]]
  /\ KeepsMask(c, ch'[c])
  /\ ~ch[c].awaiting /\ ch'[c].awaiting => c \notin requested'
  /\ UNCHANGED grp \/ Heard(c)

Renews ==
  /\ ~silence'.current /\ requested' = {}
  /\ noAckUntil' = NoTimers /\ Idle /\ todo' = << >>

StepShape ==
  \/ UNCHANGED ch
  \/ Renews
  \/ \E c \in Channels : Changes(c)

LEMMA ChangedChannel ==
  ASSUME IInv, NEW c \in Channels, NEW s, ch' = [ch EXCEPT ![c] = s], KeepsMask(c, s),
         ~ch[c].awaiting /\ s.awaiting => c \notin requested',
         \/ UNCHANGED grp
         \/ silence' = [silence EXCEPT !.current = @ /\ ~EndsSilence(c, s)]
  PROVE  StepShape
<1>1. ch'[c] = s
  BY DEF IInv, Core
<1>2. Changes(c)
  BY <1>1 DEF Changes, Heard, KeepsMask
<1> QED  BY <1>2 DEF StepShape

LEMMA CommittedChannel ==
  ASSUME IInv, NEW c \in Channels, NEW s, NEW own, NEW publish, Commit(c, s, own, publish),
         KeepsMask(c, s),
         ~ch[c].awaiting /\ s.awaiting => c \notin requested'
  PROVE  StepShape
<1>1. /\ ch' = [ch EXCEPT ![c] = s]
      /\ silence' = [silence EXCEPT !.current = @ /\ ~EndsSilence(c, s)]
  BY DEF Commit
<1> QED  BY <1>1, ChangedChannel

LEMMA ShelvedChannel ==
  ASSUME IInv, NEW c \in Channels, NEW until, CommitShelf(c, until)
  PROVE  StepShape
<1> DEFINE s == [ch[c] EXCEPT !.shelf = until]
<1>1. /\ ch' = [ch EXCEPT ![c] = s]
      /\ silence' = [silence EXCEPT !.current = @ /\ ~EndsSilence(c, s)]
  BY DEF CommitShelf
<1>2. s.awaiting = ch[c].awaiting /\ KeepsMask(c, s)
  BY DEF IInv, Core, ChannelState, KeepsMask
<1> HIDE DEF s
<1> QED  BY <1>1, <1>2, ChangedChannel

LEMMA ShapeIsStep ==
  ASSUME IInv, EventShape
  PROVE  StepShape
<1>1. CASE UNCHANGED ch
  BY <1>1 DEF StepShape
<1>2. ASSUME NEW c \in Channels, NEW s \in ChannelState, NEW e \in Event, NEW seen \in Severity,
             Observes(c, s), Process(c, s, e, seen)
      PROVE  StepShape
  <2> DEFINE t == Processed(s, e, seen)
  <2>1. ~t.awaiting /\ KeepsMask(c, t)
    <3> HIDE DEF t
    <3>1. t = Processed(s, e, seen)
      BY DEF t
    <3>2. ~t.awaiting /\ t.mask \ {"AckT"} = s.mask \ {"AckT"}
      BY <3>1, ProcessedFields
    <3> QED  BY <1>2, <3>2 DEF Observes, KeepsMask
  <2>2. \E own : Commit(c, t, own, TRUE)
    BY <1>2 DEF Process
  <2> HIDE DEF t
  <2> QED  BY <2>1, <2>2, CommittedChannel
<1>3. ASSUME NEW c \in Channels, NEW s \in ChannelState, ch' = [ch EXCEPT ![c] = s], Observes(c, s),
             s.awaiting /\ ~ch[c].awaiting => c \notin requested', UNCHANGED <<grp, silence>>
      PROVE  StepShape
  <2>1. KeepsMask(c, s)
    BY <1>3 DEF Observes, KeepsMask
  <2> QED  BY <1>3, <2>1, ChangedChannel
<1> QED  BY <1>1, <1>2, <1>3 DEF EventShape

LEMMA MaskShapes ==
  ASSUME IInv, Filters, Asked, ApplyMasks
  PROVE  StepShape
<1> DEFINE t == Head(todo)
           n == t.node
<1>1. t \in Task /\ t.op = "mask" /\ UNCHANGED <<timerVars, clocks>>
  BY HeadTask DEF ApplyMasks, IInv
<1> HIDE DEF t
<1>2. CASE UNCHANGED channelVars
  BY <1>2 DEF channelVars, StepShape
<1>3. ASSUME n \in Channels, NEW acknowledged \in BOOLEAN, NEW refused \in BOOLEAN,
             ApplyMask(n, t, acknowledged, refused)
      PROVE  StepShape
  <2>1. ~ch[n].awaiting /\ ch'[n].awaiting => n \notin requested'
    BY <1>1, <1>3, MaskApplied
  <2>2. \E s, own, publish : Commit(n, s, own, publish)
    BY <1>3 DEF ApplyMask
  <2>3. PICK s, own, publish : Commit(n, s, own, publish)
    BY <2>2
  <2>4. ch'[n] = s
    BY <1>3, <2>3 DEF Commit, IInv, Core
  <2>5. KeepsMask(n, s)
    BY <1>1 DEF KeepsMask, ApplyMasks
  <2> QED  BY <1>3, <2>1, <2>3, <2>4, <2>5, CommittedChannel
<1> QED  BY <1>2, <1>3 DEF ApplyMasks, t

LEMMA RetryShapes ==
  ASSUME IInv, RetryForce
  PROVE  StepShape
<1>1. CASE UNCHANGED channelVars
  BY <1>1 DEF channelVars, StepShape
<1>2. ASSUME NEW p \in pendingForce,
             Commit(p.channel,
                    [ch[p.channel] EXCEPT
                       !.mask = (@ \ {"AckT"}) \cup (IF p.mask THEN {"AckT"} ELSE {})],
                    Untouched, FALSE)
      PROVE  StepShape
  <2> DEFINE c == p.channel
             m == (ch[c].mask \ {"AckT"}) \cup (IF p.mask THEN {"AckT"} ELSE {})
             s == [ch[c] EXCEPT !.mask = m]
  <2>1. c \in Channels
    BY <1>2 DEF IInv, Requests, PendingForce
  <2>2. Commit(c, s, Untouched, FALSE)
    BY <1>2
  <2> HIDE DEF c
  <2>4. m \ {"AckT"} = ch[c].mask \ {"AckT"}
    OBVIOUS
  <2> HIDE DEF m
  <2>3. s.awaiting = ch[c].awaiting /\ KeepsMask(c, s)
    BY <2>1, <2>4 DEF IInv, Core, ChannelState, KeepsMask
  <2> HIDE DEF s
  <2> QED  BY <2>1, <2>2, <2>3, CommittedChannel
<1> QED  BY <1>1, <1>2 DEF RetryForce

LEMMA AcknowledgeShapes ==
  ASSUME IInv, VisitAcknowledge
  PROVE  StepShape
<1> DEFINE c == Head(todo).node
<1>1. CASE UNCHANGED channelVars
  BY <1>1 DEF channelVars, StepShape
<1>2. ASSUME c \in Channels, AcknowledgeLocally(c)
      PROVE  StepShape
  <2> DEFINE s == [ch[c] EXCEPT !.unack = 0]
  <2>1. Commit(c, s, Untouched, FALSE)
    BY <1>2 DEF AcknowledgeLocally
  <2> HIDE DEF c
  <2>2. s.awaiting = ch[c].awaiting /\ KeepsMask(c, s)
    BY <1>2 DEF IInv, Core, ChannelState, KeepsMask
  <2> HIDE DEF s
  <2> QED  BY <1>2, <2>1, <2>2, CommittedChannel
<1>3. ASSUME c \in Channels, AcknowledgeGlobally(c)
      PROVE  StepShape
  <2> DEFINE u == IF ch[c].commUnack THEN ch[c].iocUnack ELSE ch[c].unack
             s == [ch[c] EXCEPT !.commUnack = FALSE, !.unack = u]
  <2>1. Commit(c, s, Untouched, FALSE)
    <3>1. s = [ch[c] EXCEPT !.commUnack = FALSE,
                            !.unack = IF ch[c].commUnack THEN ch[c].iocUnack ELSE @]
      BY <1>3 DEF IInv, Core, ChannelState
    <3> HIDE DEF s
    <3> QED  BY <1>3, <3>1 DEF AcknowledgeGlobally
  <2> HIDE DEF c, u
  <2>2. s.awaiting = ch[c].awaiting /\ KeepsMask(c, s)
    BY <1>3 DEF IInv, Core, ChannelState, KeepsMask
  <2> HIDE DEF s
  <2> QED  BY <1>3, <2>1, <2>2, CommittedChannel
<1> QED  BY <1>1, <1>2, <1>3 DEF VisitAcknowledge

LEMMA FirstEnded ==
  ASSUME EndedShelves # {}
  PROVE  (CHOOSE c \in EndedShelves : \A d \in EndedShelves : Order[c] <= Order[d])
            \in Channels
<1> DEFINE places == {Order[c] : c \in EndedShelves}
<1>1. EndedShelves \subseteq Channels
  BY DEF EndedShelves
<1>2. places \in SUBSET Nat /\ places # {}
  BY <1>1, TreeTyping DEF Nodes
<1>3. \E m \in places : \A n \in places : m <= n
  <2> HIDE DEF places
  <2> QED  BY <1>2, Least
<1>4. \E c \in EndedShelves : \A d \in EndedShelves : Order[c] <= Order[d]
  BY <1>3
<1> QED  BY <1>1, <1>4

LEMMA ShelfShapes ==
  ASSUME IInv, VisitShelve \/ VisitUnshelve \/ ExpireShelves
  PROVE  StepShape
<1>1. CASE UNCHANGED channelVars
  BY <1>1 DEF channelVars, StepShape
<1>2. CASE \E c \in Channels, until \in Nat : CommitShelf(c, until)
  BY <1>2, ShelvedChannel
<1>3. CASE VisitShelve
  <2>1. Head(todo) \in Task /\ Head(todo).op = "shelve"
    BY <1>3, HeadTask DEF VisitShelve, IInv
  <2>2. Head(todo).until \in Nat
    BY <2>1, TaskFields
  <2> QED  BY <1>1, <1>2, <1>3, <2>2 DEF VisitShelve
<1>4. CASE VisitUnshelve
  BY <1>1, <1>2, <1>4 DEF VisitUnshelve
<1>5. CASE ExpireShelves
  <2> DEFINE c == CHOOSE x \in EndedShelves : \A d \in EndedShelves : Order[x] <= Order[d]
  <2>1. CASE EndedShelves # {} /\ CommitShelf(c, 0)
    <3>1. c \in Channels
      BY <2>1, FirstEnded
    <3> HIDE DEF c
    <3> QED  BY <1>2, <2>1, <3>1
  <2> HIDE DEF c
  <2> QED  BY <1>1, <1>5, <2>1 DEF ExpireShelves, c
<1> QED  BY <1>3, <1>4, <1>5

LEMMA ReloadShapes ==
  ASSUME Reload
  PROVE  StepShape
  BY DEF Reload, NoSilence, Idle, Renews, StepShape

LEMMA StillShapes ==
  ASSUME \/ ScanDeadlines \/ EndSilenceCurrent \/ VisitNoAck \/ ArmNoAck
         \/ Tick \/ TimePasses \/ SetClock \/ SetSilence \/ UNCHANGED vars
  PROVE  StepShape
<1>1. UNCHANGED ch
  BY DEF ScanDeadlines, EndSilenceCurrent, VisitNoAck, ArmNoAck, Tick, TimePasses, SetClock,
         SetSilence, vars, channelVars
<1> QED  BY <1>1 DEF StepShape

LEMMA CallShapes ==
  ASSUME Call
  PROVE  StepShape
<1>1. CASE Reload
  BY <1>1, ReloadShapes
<1>2. CASE UNCHANGED ch
  BY <1>2 DEF StepShape
<1>3. CASE SetSilence
  BY <1>3, StillShapes
<1> QED  BY <1>1, <1>2, <1>3
         DEF Call, MonitorEvent, SetMask, ResetMask, ModifyMask, OperatorMask, RestoreMask,
             ForceMask, DiscardForce, NoAck, Acknowledge, Shelve, Unshelve, SetBeep, channelVars

LEMMA EveryStepShape ==
  ASSUME IInv, Filters, Asked, [Next]_vars
  PROVE  StepShape
<1>1. CASE Step
  BY <1>1, EventShapeHolds, ShapeIsStep, MaskShapes, RetryShapes, AcknowledgeShapes,
     ShelfShapes, StillShapes
     DEF Step
<1>2. CASE Call
  BY <1>2, CallShapes
<1>3. CASE Tick \/ TimePasses \/ SetClock \/ UNCHANGED vars
  BY <1>3, StillShapes
<1> QED  BY <1>1, <1>2, <1>3 DEF Next

(* Whatever breaks off the observation of a channel, and every ERROR the   *)
(* monitor reports, forgets the acknowledgement request in the same step,  *)
(* so that no clear from before the break is taken for its answer.         *)
THEOREM RequestsForgotten == Spec => RequestsEndWithObservation
<1> DEFINE Forgets == \A c \in Channels :
                        (~ch[c].awaiting /\ ch'[c].awaiting) \/ ch'[c].observed = Error
                        => c \notin requested'
<1>1. ASSUME TInv, TInv', StepShape
      PROVE  Forgets
  <2> SUFFICES ASSUME NEW d \in Channels, ~ch[d].awaiting /\ ch'[d].awaiting
               PROVE  d \notin requested'
    BY <1>1 DEF TInv, Asked
  <2>1. CASE \E c \in Channels : Changes(c)
    <3>1. PICK c \in Channels : Changes(c)
      BY <2>1
    <3>2. ch \in [Channels -> ChannelState]
      BY <1>1 DEF TInv, IInv, Core
    <3>3. d = c
      BY <3>1, <3>2 DEF Changes
    <3> QED  BY <3>1, <3>3 DEF Changes
  <2> QED  BY <1>1, <2>1 DEF StepShape, Renews
<1>2. TInv /\ TInv' /\ [Next]_vars => Forgets
  BY <1>1, EveryStepShape DEF TInv
<1>3. Spec => [][Forgets]_vars
  <2> HIDE DEF Forgets
  <2> QED  BY <1>2, TimerInvariant, PTL DEF Spec
<1> QED  BY <1>3 DEF RequestsEndWithObservation

(***************************************************************************)
(* What the operator hears: the beep of the root is the loudest beep that  *)
(* passes every threshold on its way up.                                   *)
(***************************************************************************)
LEMMA RootAbove ==
  \A n \in Nodes \ {Root} : Root \in Ancestors[n]
<1> DEFINE S == {n \in Nodes \ {Root} : Root \notin Ancestors[n]}
           places == {Order[n] : n \in S}
<1> SUFFICES ASSUME S # {}  PROVE FALSE
  OBVIOUS
<1>1. places \in SUBSET Nat /\ places # {}
  <2>1. \A n \in S : Order[n] \in Nat
    BY TreeTyping
  <2> QED  BY <2>1
<1>2. PICK m \in places : \A k \in places : m <= k
  <2> HIDE DEF places
  <2> QED  BY <1>1, Least
<1>3. PICK n \in S : \A k \in S : Order[n] <= Order[k]
  BY <1>2
<1>4. PICK g \in Groups : Ancestors[n] = {g} \cup Ancestors[g] /\ Order[g] < Order[n]
  BY TreeShape
<1>5. g \in S
  BY <1>4 DEF Nodes
<1>6. Order[n] \in Nat /\ Order[g] \in Nat
  BY TreeTyping, <1>5
<1> QED  BY <1>3, <1>4, <1>5, <1>6

LEMMA HighestCounted ==
  ASSUME NEW counts
  PROVE  /\ Highest(counts) # 0 => Highest(counts) \in Raised /\ counts[Highest(counts)] > 0
         /\ \A i \in Raised : counts[i] > 0 => Highest(counts) >= i
<1> DEFINE seen == {i \in Raised : counts[i] > 0}
           top == CHOOSE i \in seen : \A j \in seen : i >= j
<1>1. CASE seen = {}
  BY <1>1 DEF Highest
<1>2. CASE seen # {}
  <2>1. seen \subseteq 1..4
    BY DEF Raised, Error
  <2>2. \E i \in seen : \A j \in seen : i >= j
    <3>1. CASE 4 \in seen  BY <3>1, <2>1
    <3>2. CASE 4 \notin seen /\ 3 \in seen  BY <3>2, <2>1
    <3>3. CASE 4 \notin seen /\ 3 \notin seen /\ 2 \in seen  BY <3>3, <2>1
    <3>4. CASE 4 \notin seen /\ 3 \notin seen /\ 2 \notin seen  BY <3>4, <2>1, <1>2
    <3> QED  BY <3>1, <3>2, <3>3, <3>4
  <2>3. top \in seen /\ \A j \in seen : top >= j
    BY <2>2
  <2>4. Highest(counts) = top
    BY <1>2 DEF Highest
  <2> HIDE DEF top
  <2> QED  BY <2>3, <2>4
<1> QED  BY <1>1, <1>2

LEMMA SomeCounted ==
  ASSUME NEW S, IsFiniteSet(S), NEW leaf, NEW k
  PROVE  HowMany(S, leaf, k) > 0 <=> \E c \in S : leaf[c] = k
<1> DEFINE T == {c \in S : leaf[c] = k}
<1>1. IsFiniteSet(T)
  BY FS_Subset
<1>2. Cardinality(T) \in Nat /\ (Cardinality(T) = 0 <=> T = {})
  BY <1>1, FS_EmptySet, FS_CardinalityType
<1> QED  BY <1>2 DEF HowMany

(* The beep of a channel that reaches the root's counters.                 *)
Reaching(states, d) == Presented(d, states[d], Root, threshold).beep

LEMMA RootBeep ==
  ASSUME NEW states, threshold \in [Nodes -> Severity],
         NEW b, b = RecountShown(Root, states, threshold).beep
  PROVE  /\ b # 0 => /\ b \in Raised /\ b >= threshold[Root]
                     /\ \E d \in Below(Root) : Reaching(states, d) = b
         /\ \A d \in Below(Root) :
              Reaching(states, d) \in Raised /\ Reaching(states, d) >= threshold[Root]
              => b >= Reaching(states, d)
<1> DEFINE leaf == [d \in Below(Root) |-> Presented(d, states[d], Root, threshold)]
           beeps == [d \in Below(Root) |-> leaf[d].beep]
           counts == [k \in Raised |-> HowMany(Below(Root), beeps, k)]
           top == Highest(counts)
<1>1. b = IF top < threshold[Root] THEN 0 ELSE top
  BY DEF RecountShown, Recount, Summary
<1>2. \A d \in Below(Root) : beeps[d] = Reaching(states, d)
  BY DEF Reaching
<1> HIDE DEF beeps
<1>3. \A k \in Raised : counts[k] > 0 <=> \E d \in Below(Root) : Reaching(states, d) = k
  <2>1. IsFiniteSet(Below(Root))
    BY BelowFinite
  <2>2. \A k \in Raised : HowMany(Below(Root), beeps, k) > 0
                            <=> \E d \in Below(Root) : beeps[d] = k
    BY <2>1, SomeCounted
  <2> QED  BY <1>2, <2>2
<1> HIDE DEF counts
<1>4. top \in Severity
  BY HighestType
<1>5. /\ top # 0 => top \in Raised /\ counts[top] > 0
      /\ \A i \in Raised : counts[i] > 0 => top >= i
  BY HighestCounted
<1> HIDE DEF top
<1>6. threshold[Root] \in Severity
  BY TreeTyping DEF Nodes
<1>7. \A i \in Raised : i \in Nat
  BY DEF Raised, Error
<1>8. ASSUME b # 0
      PROVE  /\ b \in Raised /\ b >= threshold[Root]
             /\ \E d \in Below(Root) : Reaching(states, d) = b
  <2>1. b = top /\ top >= threshold[Root]
    BY <1>1, <1>4, <1>6, <1>8 DEF Severity, Error
  <2> QED  BY <1>3, <1>5, <1>8, <2>1
<1>9. ASSUME NEW d \in Below(Root), Reaching(states, d) \in Raised,
             Reaching(states, d) >= threshold[Root]
      PROVE  b >= Reaching(states, d)
  <2>1. top >= Reaching(states, d)
    BY <1>3, <1>5, <1>9
  <2> QED  BY <1>1, <1>4, <1>6, <1>7, <1>9, <2>1 DEF Severity, Error
<1> QED  BY <1>8, <1>9

(* A beep that counts at the root passes the threshold of the root exactly *)
(* if it reaches the loudspeaker.                                          *)
LEMMA Audible ==
  ASSUME threshold \in [Nodes -> Severity], NEW d \in Below(Root), NEW s \in ChannelState,
         NEW v \in Raised, v >= threshold[Root]
  PROVE  AudibleBeep(d, s, threshold) = v
           <=> Presented(d, s, Root, threshold).beep = v
<1> DEFINE b == Beep(s, threshold[d])
<1>1. v # 0 /\ v \in Nat /\ threshold[Root] \in Nat
  <2>1. v # 0 /\ v \in Nat
    BY DEF Raised, Error
  <2>2. threshold[Root] \in Severity
    BY TreeTyping DEF Nodes
  <2> QED  BY <2>1, <2>2 DEF Severity, Error
<1>2. d \in Channels /\ Root \in Ancestors[d] /\ Ancestors[d] \subseteq Groups
  BY TreeTyping DEF Below, Nodes
<1>3. Between(d, Root) = Ancestors[d] \ {Root}
  <2>1. \A h \in Ancestors[d] : Root \in Ancestors[h] <=> h # Root
    BY <1>2, RootAbove, TreeShape DEF Nodes
  <2> QED  BY <2>1 DEF Between
<1>4. AudibleBeep(d, s, threshold)
        = IF s.shelf = 0 /\ \A h \in Ancestors[d] : b >= threshold[h] THEN b ELSE 0
  BY DEF AudibleBeep
<1>5. Presented(d, s, Root, threshold).beep
        = IF s.shelf = 0 /\ \A h \in Ancestors[d] \ {Root} : b >= threshold[h] THEN b ELSE 0
  BY <1>3 DEF Presented, Contribution, Absent
<1> HIDE DEF b
<1> QED  BY <1>1, <1>2, <1>4, <1>5

LEMMA NewSound ==
  ASSUME IInv, IInv', StepShape, UNCHANGED threshold,
         grp'[Root].shown.beep > grp[Root].shown.beep,
         grp'[Root].shown.beep >= BeepSeverity
  PROVE  ~silence'.current
<1> DEFINE b == grp[Root].shown.beep
           v == grp'[Root].shown.beep
<1>1. /\ b = RecountShown(Root, ch, threshold).beep
      /\ v = RecountShown(Root, ch', threshold).beep
  <2>1. Counts(grp, ch, threshold) /\ Root \in Groups
    BY TreeTyping DEF IInv, Core
  <2>2. Counts(grp', ch', threshold)
    <3>1. Counts(grp', ch', threshold')
      BY DEF IInv, Core, Counts
    <3> QED  BY <3>1
  <2> QED  BY <2>1, <2>2 DEF Counts
<1>2. b \in Nat /\ v \in Nat /\ v > b /\ v >= BeepSeverity
  <2>1. Root \in Groups /\ grp \in [Groups -> GroupState]
    BY TreeTyping DEF IInv, Core
  <2>2. grp' \in [Groups -> GroupState]
    BY DEF IInv, Core
  <2>3. b \in Severity /\ v \in Severity
    BY <2>1, <2>2 DEF GroupState, Tally
  <2> HIDE DEF b, v
  <2>4. v > b /\ v >= BeepSeverity
    BY DEF b, v
  <2> QED  BY <2>3, <2>4 DEF Severity, Error
<1>3. CASE UNCHANGED ch \/ UNCHANGED grp
  <2>1. v = b
    BY <1>1, <1>3
  <2> QED  BY <1>2, <2>1
<1> HIDE DEF b, v
<1>4. ASSUME NEW c \in Channels, Changes(c), Heard(c)
      PROVE  ~silence'.current
  <2>1. threshold \in [Nodes -> Severity] /\ ch \in [Channels -> ChannelState]
        /\ silence \in [current : BOOLEAN, forever : BOOLEAN, until : Nat]
    BY DEF IInv, Core
  <2>2. ch' \in [Channels -> ChannelState]
    BY DEF IInv, Core
  <2>3. /\ v \in Raised /\ v >= threshold[Root]
        /\ \E d \in Below(Root) : Reaching(ch', d) = v
    <3>1. v # 0
      BY <1>2
    <3> QED  BY <1>1, <2>1, <3>1, RootBeep
  <2>4. PICK d \in Below(Root) : Reaching(ch', d) = v
    BY <2>3
  <2>5. Reaching(ch, d) # v
    <3>1. Reaching(ch, d) \in Raised /\ Reaching(ch, d) >= threshold[Root]
            => b >= Reaching(ch, d)
      BY <1>1, <2>1, RootBeep
    <3> QED  BY <1>2, <2>3, <3>1
  <2>6. d \in Channels
    BY DEF Below
  <2>7. AudibleBeep(d, ch'[d], threshold) = v
    <3>1. Presented(d, ch'[d], Root, threshold).beep = v
      BY <2>4 DEF Reaching
    <3>2. ch'[d] \in ChannelState
      BY <2>2, <2>6
    <3> QED  BY <2>1, <2>3, <3>1, <3>2, Audible
  <2>8. AudibleBeep(d, ch[d], threshold) # v
    <3>1. Presented(d, ch[d], Root, threshold).beep # v
      BY <2>5 DEF Reaching
    <3>2. ch[d] \in ChannelState
      BY <2>1, <2>6
    <3> QED  BY <2>1, <2>3, <3>1, <3>2, Audible
  <2>9. d = c
    <3>1. ch' = [ch EXCEPT ![c] = ch'[c]]
      BY <1>4 DEF Changes
    <3>2. ch'[d] # ch[d]
      BY <2>7, <2>8
    <3> QED  BY <2>1, <2>6, <3>1, <3>2
  <2>10. EndsSilence(c, ch'[c])
    BY <1>2, <2>7, <2>8, <2>9 DEF EndsSilence
  <2> QED  BY <1>4, <2>1, <2>10 DEF Heard
<1> QED  BY <1>3, <1>4 DEF StepShape, Changes, Renews

(* Whenever a step raises the audible severity of the facility, Silence    *)
(* Current is off afterwards, whichever call, timer or event did it, and   *)
(* however many thresholds lie between the channel and the root; a new     *)
(* threshold is the one exception.                                         *)
THEOREM NewSoundIsHeard == Spec => NewSoundEndsSilenceCurrent
<1> DEFINE Heeds == /\ grp'[Root].shown.beep > grp[Root].shown.beep
                    /\ grp'[Root].shown.beep >= BeepSeverity
                    /\ UNCHANGED threshold
                    => ~silence'.current
<1>1. TInv /\ TInv' /\ [Next]_vars => Heeds
  BY EveryStepShape, NewSound DEF TInv
<1>2. Spec => [][Heeds]_vars
  <2> HIDE DEF Heeds
  <2> QED  BY <1>1, TimerInvariant, PTL DEF Spec
<1> QED  BY <1>2 DEF NewSoundEndsSilenceCurrent

(***************************************************************************)
(* The subtree of a node.                                                  *)
(***************************************************************************)
LEMMA FirstNode ==
  ASSUME NEW S \in SUBSET Nodes, S # {}
  PROVE  \E m \in S : \A n \in S : Order[m] <= Order[n]
<1> DEFINE places == {Order[n] : n \in S}
<1>1. places \in SUBSET Nat /\ places # {}
  <2>1. \A n \in S : Order[n] \in Nat
    BY TreeTyping
  <2> QED  BY <2>1
<1>2. PICK k \in places : \A i \in places : k <= i
  <2> HIDE DEF places
  <2> QED  BY <1>1, Least
<1> QED  BY <1>2

LEMMA Parent ==
  ASSUME NEW m \in Nodes, NEW g \in Ancestors[m]
  PROVE  \E p \in Groups : /\ IsChildOf(m, p) /\ Ancestors[m] = {p} \cup Ancestors[p]
                           /\ p \in Nodes /\ ~(Order[m] <= Order[p])
<1>1. m \in Nodes \ {Root}
  BY TreeShape
<1>2. PICK p \in Groups : IsChildOf(m, p) /\ Ancestors[m] = {p} \cup Ancestors[p] /\ Order[p] < Order[m]
  BY <1>1, TreeShape
<1>3. p \in Nodes /\ Order[p] \in Nat /\ Order[m] \in Nat
  BY TreeTyping DEF Nodes
<1> QED  BY <1>2, <1>3

LEMMA AncestorsAbove ==
  \A m \in Nodes : \A n \in Ancestors[m] : Ancestors[n] \subseteq Ancestors[m]
<1> DEFINE S == {m \in Nodes : \E n \in Ancestors[m] : ~(Ancestors[n] \subseteq Ancestors[m])}
<1> SUFFICES ASSUME S # {}  PROVE FALSE
  OBVIOUS
<1>1. PICK m \in S : \A i \in S : Order[m] <= Order[i]
  <2>1. S \in SUBSET Nodes
    OBVIOUS
  <2> HIDE DEF S
  <2> QED  BY <2>1, FirstNode
<1>2. PICK n \in Ancestors[m] : ~(Ancestors[n] \subseteq Ancestors[m])
  OBVIOUS
<1>3. PICK p \in Groups : /\ Ancestors[m] = {p} \cup Ancestors[p]
                          /\ p \in Nodes /\ ~(Order[m] <= Order[p])
  BY Parent
<1>4. p \notin S
  BY <1>1, <1>3
<1> QED  BY <1>2, <1>3, <1>4

LEMMA ChildBelow ==
  ASSUME NEW g \in Groups, NEW n, IsChildOf(n, g)
  PROVE  n \in Nodes /\ Subtree(n) \subseteq Subtree(g) /\ g \in Ancestors[n]
<1>1. n \in Nodes
  <2>1. DirectChannels[g] \in Seq(Nodes) /\ Subgroups[g] \in Seq(Nodes)
    BY TreeTyping DEF Nodes
  <2>2. ChildrenOf(g) \in Seq(Nodes)
    BY <2>1, ConcatProperties DEF ChildrenOf
  <2> QED  BY <2>2 DEF IsChildOf
<1>2. n # Root
  BY TreeShape
<1>3. Ancestors[n] = {g} \cup Ancestors[g]
  BY <1>1, <1>2, TreeShape
<1>4. \A m \in Nodes : n \in Ancestors[m] => g \in Ancestors[m]
  BY <1>1, <1>3, AncestorsAbove
<1> QED  BY <1>1, <1>3, <1>4 DEF Subtree

(* What is below a group is its child or below one of its children.        *)
LEMMA BelowChildren ==
  ASSUME NEW g \in Groups
  PROVE  \A m \in Nodes : g \in Ancestors[m] => \E n \in Nodes : IsChildOf(n, g) /\ m \in Subtree(n)
<1> DEFINE S == {m \in Nodes : /\ g \in Ancestors[m]
                               /\ ~\E n \in Nodes : IsChildOf(n, g) /\ m \in Subtree(n)}
<1> SUFFICES ASSUME S # {}  PROVE FALSE
  OBVIOUS
<1>1. PICK m \in S : \A i \in S : Order[m] <= Order[i]
  <2>1. S \in SUBSET Nodes
    OBVIOUS
  <2> HIDE DEF S
  <2> QED  BY <2>1, FirstNode
<1>2. PICK p \in Groups : /\ IsChildOf(m, p) /\ Ancestors[m] = {p} \cup Ancestors[p]
                          /\ p \in Nodes /\ ~(Order[m] <= Order[p])
  BY Parent
<1>3. CASE p = g
  <2>1. m \in Subtree(m)
    BY DEF Subtree
  <2> QED  BY <1>2, <1>3, <2>1
<1>4. CASE p # g
  <2>1. g \in Ancestors[p] /\ p \notin S
    BY <1>1, <1>2, <1>4
  <2>2. PICK n \in Nodes : IsChildOf(n, g) /\ p \in Subtree(n)
    BY <1>2, <2>1
  <2>3. m \in Subtree(n)
    BY <1>2, <2>2 DEF Subtree
  <2> QED  BY <2>2, <2>3
<1> QED  BY <1>3, <1>4

(***************************************************************************)
(* The agenda as the set of its tasks.                                     *)
(***************************************************************************)
Tasks(s) == {s[i] : i \in 1..Len(s)}

LEMMA TasksJoined ==
  ASSUME NEW s \in Seq(Task), NEW r \in Seq(Task)
  PROVE  s \o r \in Seq(Task) /\ Tasks(s \o r) = Tasks(s) \cup Tasks(r)
<1>1. /\ s \o r \in Seq(Task) /\ Len(s \o r) = Len(s) + Len(r)
      /\ \A i \in 1..Len(s) + Len(r) : (s \o r)[i] = IF i <= Len(s) THEN s[i] ELSE r[i - Len(s)]
  BY ConcatProperties
<1>2. Len(s) \in Nat /\ Len(r) \in Nat
  OBVIOUS
<1>3. Tasks(s \o r) \subseteq Tasks(s) \cup Tasks(r)
  <2> SUFFICES ASSUME NEW i \in 1..Len(s) + Len(r)
               PROVE  (s \o r)[i] \in Tasks(s) \cup Tasks(r)
    BY <1>1 DEF Tasks
  <2>1. CASE i <= Len(s)
    <3>1. i \in 1..Len(s)
      BY <1>2, <2>1
    <3> QED  BY <1>1, <2>1, <3>1 DEF Tasks
  <2>2. CASE ~(i <= Len(s))
    <3>1. i - Len(s) \in 1..Len(r)
      BY <1>2, <2>2
    <3> QED  BY <1>1, <2>2, <3>1 DEF Tasks
  <2> QED  BY <2>1, <2>2
<1>4. Tasks(s) \subseteq Tasks(s \o r)
  <2> SUFFICES ASSUME NEW i \in 1..Len(s)  PROVE s[i] \in Tasks(s \o r)
    BY DEF Tasks
  <2>1. i \in 1..Len(s) + Len(r) /\ i <= Len(s)
    BY <1>2
  <2>2. (s \o r)[i] = s[i]
    BY <1>1, <2>1
  <2> QED  BY <1>1, <2>1, <2>2 DEF Tasks
<1>5. Tasks(r) \subseteq Tasks(s \o r)
  <2> SUFFICES ASSUME NEW i \in 1..Len(r)  PROVE r[i] \in Tasks(s \o r)
    BY DEF Tasks
  <2>1. i + Len(s) \in 1..Len(s) + Len(r) /\ ~(i + Len(s) <= Len(s)) /\ (i + Len(s)) - Len(s) = i
    BY <1>2
  <2>2. (s \o r)[i + Len(s)] = r[i]
    BY <1>1, <2>1
  <2> QED  BY <1>1, <2>1, <2>2 DEF Tasks
<1> QED  BY <1>1, <1>3, <1>4, <1>5

LEMMA TasksPopped ==
  ASSUME NEW s \in Seq(Task), s # << >>
  PROVE  /\ Tail(s) \in Seq(Task) /\ Head(s) \in Task
         /\ Tasks(s) = {Head(s)} \cup Tasks(Tail(s))
<1> DEFINE r == Tail(s)
<1>1. /\ r \in Seq(Task) /\ Len(s) \in Nat \ {0} /\ Len(r) = Len(s) - 1
      /\ \A i \in 1..Len(s) - 1 : r[i] = s[i + 1]
      /\ Head(s) = s[1] /\ s[1] \in Task
  BY Popped
<1> HIDE DEF r
<1>2. Tasks(s) \subseteq {Head(s)} \cup Tasks(r)
  <2> SUFFICES ASSUME NEW i \in 1..Len(s)  PROVE s[i] \in {Head(s)} \cup Tasks(r)
    BY DEF Tasks
  <2>1. CASE i = 1
    BY <1>1, <2>1
  <2>2. CASE i # 1
    <3>1. i - 1 \in 1..Len(s) - 1 /\ (i - 1) + 1 = i /\ i - 1 \in 1..Len(r)
      BY <1>1, <2>2
    <3>2. r[i - 1] = s[i]
      BY <1>1, <3>1
    <3> QED  BY <3>1, <3>2 DEF Tasks
  <2> QED  BY <2>1, <2>2
<1>3. {Head(s)} \cup Tasks(r) \subseteq Tasks(s)
  <2>1. Head(s) \in Tasks(s)
    BY <1>1 DEF Tasks
  <2>2. ASSUME NEW i \in 1..Len(r)  PROVE r[i] \in Tasks(s)
    <3>1. i \in 1..Len(s) - 1 /\ i + 1 \in 1..Len(s)
      BY <1>1
    <3> QED  BY <1>1, <3>1 DEF Tasks
  <2> QED  BY <2>1, <2>2 DEF Tasks
<1> QED  BY <1>1, <1>2, <1>3 DEF r

LEMMA FewTasks ==
  /\ Tasks(<< >>) = {}
  /\ \A a \in Task : <<a>> \in Seq(Task) /\ Tasks(<<a>>) = {a}
  /\ \A a, b \in Task : <<a, b>> \in Seq(Task) /\ Tasks(<<a, b>>) = {a, b}
<1>1. Tasks(<< >>) = {}
  BY DEF Tasks
<1>2. ASSUME NEW a \in Task  PROVE <<a>> \in Seq(Task) /\ Tasks(<<a>>) = {a}
  <2>1. <<a>> \in Seq(Task) /\ Len(<<a>>) = 1 /\ <<a>>[1] = a
    OBVIOUS
  <2>2. \A i : i \in 1..1 <=> i = 1
    OBVIOUS
  <2> QED  BY <2>1, <2>2 DEF Tasks
<1>3. ASSUME NEW a \in Task, NEW b \in Task
      PROVE  <<a, b>> \in Seq(Task) /\ Tasks(<<a, b>>) = {a, b}
  <2>1. <<a, b>> \in Seq(Task) /\ Len(<<a, b>>) = 2 /\ <<a, b>>[1] = a /\ <<a, b>>[2] = b
    OBVIOUS
  <2>2. \A i : i \in 1..2 <=> i = 1 \/ i = 2
    OBVIOUS
  <2> QED  BY <2>1, <2>2 DEF Tasks
<1> QED  BY <1>1, <1>2, <1>3

LEMMA ChildTasks ==
  ASSUME NEW t \in Task, t.node \in Groups,
         t.op \in {"mask", "noAck", "acknowledge", "shelve", "unshelve"}
  PROVE  /\ OnChildren(t) \in Seq(Task)
         /\ \A u : u \in Tasks(OnChildren(t))
              <=> \E n \in Nodes : IsChildOf(n, t.node) /\ u = [t EXCEPT !.node = n]
<1> DEFINE children == ChildrenOf(t.node)
           s == OnChildren(t)
<1>1. s \in Seq(Task)
  BY OnChildrenType
<1>2. Len(children) \in Nat
  <2>1. DirectChannels[t.node] \in Seq(Nodes) /\ Subgroups[t.node] \in Seq(Nodes)
    BY TreeTyping DEF Nodes
  <2>2. children \in Seq(Nodes)
    BY <2>1, ConcatProperties DEF ChildrenOf
  <2> HIDE DEF children
  <2> QED  BY <2>2
<1>3. /\ DOMAIN s = 1..Len(children)
      /\ \A i \in 1..Len(children) : s[i] = [t EXCEPT !.node = children[i]]
  BY DEF OnChildren
<1>4. \A n : IsChildOf(n, t.node) <=> \E i \in 1..Len(children) : children[i] = n
  BY DEF IsChildOf
<1>5. \A n : IsChildOf(n, t.node) => n \in Nodes
  BY ChildBelow
<1> HIDE DEF s, children
<1>6. Len(s) = Len(children)
  BY <1>1, <1>2, <1>3
<1>7. ASSUME NEW i \in 1..Len(s)
      PROVE  \E n \in Nodes : IsChildOf(n, t.node) /\ s[i] = [t EXCEPT !.node = n]
  <2>1. IsChildOf(children[i], t.node) /\ s[i] = [t EXCEPT !.node = children[i]]
    BY <1>3, <1>4, <1>6, <1>7
  <2> QED  BY <1>5, <2>1
<1>8. ASSUME NEW n, IsChildOf(n, t.node)
      PROVE  [t EXCEPT !.node = n] \in Tasks(s)
  <2>1. PICK i \in 1..Len(children) : children[i] = n
    BY <1>4, <1>8
  <2> QED  BY <1>3, <1>6, <2>1 DEF Tasks
<1>9. \A u : u \in Tasks(s) => \E n \in Nodes : IsChildOf(n, t.node) /\ u = [t EXCEPT !.node = n]
  BY <1>7 DEF Tasks
<1> QED  BY <1>1, <1>8, <1>9 DEF s

(***************************************************************************)
(* One-hour NoAck.  The call that starts a timer visits the subtree first: *)
(* every node below is NoAck without a timer, or a task that makes it so   *)
(* is still on the agenda, and no task on the agenda undoes it.            *)
(***************************************************************************)
NoAckOps == {"mask", "noAck", "armNoAck"}

Clears(t) == t.op = "mask" /\ "Ack" \in t.clear \cup t.reset

Grants(t) == (t.op = "noAck" /\ t.on) \/ (t.op = "mask" /\ ~Clears(t))

Done(m) == noAckUntil[m] = 0 /\ (m \in Channels => "Ack" \in ch[m].mask)

Due(ts, m) ==
  \/ \E t \in ts : t.op = "noAck" /\ m \in Subtree(t.node)
  \/ noAckUntil[m] = 0 /\ \E t \in ts : t.op = "mask" /\ t.node = m /\ "Ack" \in t.set

ArmsLast(s) == \A i \in 1..Len(s) : s[i].op = "armNoAck" => i = Len(s)

Unarmed(s) == \A t \in Tasks(s) : t.op # "armNoAck"

Covered ==
  /\ ArmsLast(todo)
  /\ \A a \in Tasks(todo) :
       a.op = "armNoAck" =>
         /\ \A t \in Tasks(todo) : t = a \/ Grants(t)
         /\ \A m \in Subtree(a.node) : Done(m) \/ Due(Tasks(todo), m)

(* The steps that have no part in it.                                      *)
AckKept == \A c \in Channels : "Ack" \in ch[c].mask => "Ack" \in ch'[c].mask

TimersStop == \A n \in Nodes : noAckUntil'[n] \in {0, noAckUntil[n]}

Calm ==
  /\ AckKept /\ TimersStop
  /\ Idle \/ Head(todo).op \notin NoAckOps
  /\ \A t \in Tasks(todo') : t \in Tasks(todo) \/ t.op \notin NoAckOps

LEMMA ArmsJoined ==
  ASSUME NEW s \in Seq(Task), NEW r \in Seq(Task), Unarmed(s), ArmsLast(r)
  PROVE  ArmsLast(s \o r)
<1>1. /\ Len(s \o r) = Len(s) + Len(r) /\ Len(s) \in Nat /\ Len(r) \in Nat
      /\ \A i \in 1..Len(s) + Len(r) : (s \o r)[i] = IF i <= Len(s) THEN s[i] ELSE r[i - Len(s)]
  BY ConcatProperties
<1>2. \A i \in 1..Len(s) : s[i].op # "armNoAck"
  BY DEF Unarmed, Tasks
<1>3. \A i \in 1..Len(r) : r[i].op = "armNoAck" => i = Len(r)
  BY DEF ArmsLast
<1> SUFFICES ASSUME NEW i \in 1..Len(s) + Len(r), (s \o r)[i].op = "armNoAck"
             PROVE  i = Len(s) + Len(r)
  BY <1>1 DEF ArmsLast
<1>4. ~(i <= Len(s))
  BY <1>1, <1>2
<1>5. i - Len(s) \in 1..Len(r) /\ (s \o r)[i] = r[i - Len(s)]
  BY <1>1, <1>4
<1>6. i - Len(s) = Len(r)
  BY <1>3, <1>5
<1> QED  BY <1>1, <1>6

LEMMA ArmsPopped ==
  ASSUME NEW s \in Seq(Task), s # << >>, ArmsLast(s)
  PROVE  ArmsLast(Tail(s)) /\ (Head(s).op = "armNoAck" => Tasks(Tail(s)) = {})
<1> DEFINE r == Tail(s)
<1>1. /\ r \in Seq(Task) /\ Len(s) \in Nat \ {0} /\ Len(r) = Len(s) - 1
      /\ \A i \in 1..Len(s) - 1 : r[i] = s[i + 1]
      /\ Head(s) = s[1]
  BY Popped
<1>2. \A i \in 1..Len(s) : s[i].op = "armNoAck" => i = Len(s)
  BY DEF ArmsLast
<1> HIDE DEF r
<1>3. ArmsLast(r)
  <2> SUFFICES ASSUME NEW i \in 1..Len(r), r[i].op = "armNoAck"  PROVE i = Len(r)
    BY DEF ArmsLast
  <2>1. i + 1 \in 1..Len(s) /\ r[i] = s[i + 1]
    BY <1>1
  <2>2. i + 1 = Len(s)
    BY <1>2, <2>1
  <2> QED  BY <1>1, <2>2
<1>4. ASSUME Head(s).op = "armNoAck"  PROVE Tasks(r) = {}
  <2>1. Len(s) = 1
    BY <1>1, <1>2, <1>4
  <2>2. 1..Len(r) = {}
    BY <1>1, <2>1
  <2> QED  BY <2>2 DEF Tasks
<1> QED  BY <1>3, <1>4 DEF r

LEMMA AddedTasks ==
  ASSUME Agenda, NEW s \in Seq(Task), NEW r, r = todo \/ (todo # << >> /\ r = Rest),
         todo' = s \o r
  PROVE  /\ r \in Seq(Task) /\ Tasks(r) \subseteq Tasks(todo)
         /\ todo' \in Seq(Task) /\ Tasks(todo') = Tasks(s) \cup Tasks(r)
<1>1. r \in Seq(Task) /\ Tasks(r) \subseteq Tasks(todo)
  <2>1. CASE todo # << >> /\ r = Rest
    BY <2>1, TasksPopped DEF Agenda, Rest
  <2> QED  BY <2>1 DEF Agenda
<1> QED  BY <1>1, TasksJoined

LEMMA NotArmed ==
  ASSUME Agenda, Covered, Idle \/ Head(todo).op \notin NoAckOps
  PROVE  Unarmed(todo)
<1>1. CASE Idle
  BY <1>1, FewTasks DEF Idle, Unarmed
<1>2. CASE todo # << >> /\ Head(todo).op \notin NoAckOps
  <2>1. Head(todo) \in Tasks(todo) /\ ~Grants(Head(todo)) /\ Head(todo).op # "armNoAck"
    BY <1>2, TasksPopped DEF Agenda, Grants, NoAckOps
  <2> QED  BY <2>1 DEF Covered, Unarmed
<1> QED  BY <1>1, <1>2 DEF Idle

LEMMA UnarmedCovered ==
  ASSUME Unarmed(todo')
  PROVE  Covered'
<1>1. \A i \in 1..Len(todo') : todo'[i] \in Tasks(todo')
  BY DEF Tasks
<1>2. ArmsLast(todo')
  BY <1>1 DEF Unarmed, ArmsLast
<1> QED  BY <1>2 DEF Unarmed, Covered

LEMMA CalmCovered ==
  ASSUME Agenda, Covered, Calm
  PROVE  Covered'
<1>1. Unarmed(todo)
  BY NotArmed DEF Calm
<1>2. Unarmed(todo')
  BY <1>1 DEF Calm, Unarmed, NoAckOps
<1> QED  BY <1>2, UnarmedCovered

LEMMA CoveredTurn ==
  ASSUME Agenda, Covered, todo # << >>, Head(todo).op # "armNoAck",
         NEW s \in Seq(Task), Unarmed(s), NEW r, r = Rest \/ r = todo, todo' = s \o r,
         Grants(Head(todo)) =>
           /\ \A u \in Tasks(s) : Grants(u)
           /\ \A n \in Nodes : noAckUntil[n] = 0 => noAckUntil'[n] = 0
           /\ AckKept
           /\ \A m \in Nodes : Due({Head(todo)}, m) => Done(m)' \/ Due(Tasks(todo), m)'
  PROVE  Covered'
<1>1. /\ r \in Seq(Task) /\ Tasks(r) \subseteq Tasks(todo)
      /\ Tasks(todo') = Tasks(s) \cup Tasks(r)
  BY AddedTasks
<1>2. Tasks(todo) = {Head(todo)} \cup Tasks(Rest) /\ Tasks(Rest) \subseteq Tasks(r)
  <2>1. Tasks(todo) = {Head(todo)} \cup Tasks(Rest)
    BY TasksPopped DEF Agenda, Rest
  <2> QED  BY <2>1
<1>3. ArmsLast(todo')
  <2>1. ArmsLast(r)
    BY ArmsPopped DEF Agenda, Covered, Rest
  <2> QED  BY <1>1, <2>1, ArmsJoined
<1>4. ASSUME NEW a \in Tasks(todo'), a.op = "armNoAck"
      PROVE  /\ \A t \in Tasks(todo') : t = a \/ Grants(t)
             /\ \A m \in Subtree(a.node) : Done(m)' \/ Due(Tasks(todo), m)'
  <2>1. a \in Tasks(todo)
    BY <1>1, <1>4 DEF Unarmed
  <2>2. /\ \A t \in Tasks(todo) : t = a \/ Grants(t)
        /\ \A m \in Subtree(a.node) : Done(m) \/ Due(Tasks(todo), m)
    BY <1>4, <2>1 DEF Covered
  <2>3. Grants(Head(todo))
    BY <1>2, <1>4, <2>2
  <2>4. \A t \in Tasks(todo') : t = a \/ Grants(t)
    BY <1>1, <2>2, <2>3
  <2>5. ASSUME NEW m \in Subtree(a.node)
        PROVE  Done(m)' \/ Due(Tasks(todo), m)'
    <3>1. m \in Nodes /\ (noAckUntil[m] = 0 => noAckUntil'[m] = 0)
      BY <2>3 DEF Subtree
    <3>2. CASE Done(m)
      BY <2>3, <3>1, <3>2 DEF Done, AckKept
    <3>3. CASE Due({Head(todo)}, m)
      BY <2>3, <3>1, <3>3
    <3>4. CASE Due(Tasks(Rest), m)
      <4>1. Tasks(Rest) \subseteq Tasks(todo')
        BY <1>1, <1>2
      <4> QED  BY <3>1, <3>4, <4>1 DEF Due
    <3>5. Due(Tasks(todo), m) => Due({Head(todo)}, m) \/ Due(Tasks(Rest), m)
      BY <1>2 DEF Due
    <3> QED  BY <2>2, <2>5, <3>2, <3>3, <3>4, <3>5
  <2> QED  BY <2>4, <2>5
<1>5. \A a \in Tasks(todo') :
        a.op = "armNoAck" =>
          /\ \A t \in Tasks(todo') : t = a \/ Grants(t)
          /\ \A m \in Subtree(a.node) : Done(m)' \/ Due(Tasks(todo), m)'
  BY <1>4
<1> QED  BY <1>3, <1>5 DEF Covered

(* A mask task keeps the NoAck of a channel unless it is one that clears   *)
(* it, and applies the NoAck it sets.                                      *)
LEMMA AckApplied ==
  ASSUME IInv, Filters, Asked, UNCHANGED <<timerVars, clocks>>,
         NEW c \in Channels, NEW t \in Task, t.op = "mask",
         \E acknowledged, refused \in BOOLEAN : ApplyMask(c, t, acknowledged, refused)
  PROVE  /\ \A d \in Channels \ {c} : ch'[d] = ch[d]
         /\ ~Clears(t) => AckKept
         /\ "Ack" \in t.set => "Ack" \in ch'[c].mask
<1>1. /\ \A d \in Channels \ {c} : ch'[d] = ch[d]
      /\ "Ack" \in ch'[c].mask <=> "Ack" \in NewMask(c, t)
  <2>1. PICK acknowledged, refused \in BOOLEAN : ApplyMask(c, t, acknowledged, refused)
    OBVIOUS
  <2> QED  BY <2>1, MaskApplied
<1>2. /\ "Ack" \in t.set => "Ack" \in NewMask(c, t)
      /\ ~Clears(t) /\ "Ack" \in ch[c].mask => "Ack" \in NewMask(c, t)
  BY DEF NewMask, Clears
<1> QED  BY <1>1, <1>2 DEF AckKept

LEMMA MaskCovered ==
  ASSUME IInv, Filters, Asked, Covered, ApplyMasks
  PROVE  Covered'
<1>1. PICK t \in Task : /\ t = Head(todo) /\ t.op = "mask" /\ t.node \in Nodes
                        /\ todo # << >> /\ todo \in Seq(Task)
  <2>1. Head(todo) \in Task /\ Head(todo).op = "mask"
    BY HeadTask DEF ApplyMasks, IInv
  <2> QED  BY <2>1, TaskFields DEF ApplyMasks, Running, IInv, Agenda
<1>2. UNCHANGED <<timerVars, clocks, noAckUntil>> /\ Agenda
  BY DEF ApplyMasks, timerVars, IInv
<1>3. \A m \in Nodes : Due({t}, m) => noAckUntil[m] = 0 /\ m = t.node /\ "Ack" \in t.set
  BY <1>1 DEF Due
<1>4. CASE t.node \in Groups /\ todo' = OnChildren(t) \o Rest /\ UNCHANGED channelVars
  <2> DEFINE s == OnChildren(t)
  <2>1. /\ s \in Seq(Task)
        /\ \A u \in Tasks(s) : \E n \in Nodes : u = [t EXCEPT !.node = n]
    BY <1>1, <1>4, ChildTasks
  <2>2. \A u \in Tasks(s) : u.op = "mask" /\ u.clear = t.clear /\ u.reset = t.reset
    <3> HIDE DEF s
    <3> QED  BY <1>1, <2>1 DEF Task
  <2> HIDE DEF s
  <2>3. Unarmed(s) /\ (Grants(t) => \A u \in Tasks(s) : Grants(u))
    BY <2>2, <1>1 DEF Unarmed, Grants, Clears
  <2>4. AckKept
    BY <1>4 DEF AckKept, channelVars
  <2>5. \A m \in Nodes : Due({t}, m) => Done(m)'
    BY <1>2, <1>3, <1>4, TreeTyping DEF Done
  <2>6. todo' = s \o Rest
    BY <1>4 DEF s
  <2> QED  BY <1>1, <1>2, <2>1, <2>3, <2>4, <2>5, <2>6, CoveredTurn
<1>5. CASE /\ todo' = << MaskTask(t.node, {}, {"Cancel"}, {}, FALSE) >> \o todo
           /\ UNCHANGED channelVars
  <2> DEFINE x == MaskTask(t.node, {}, {"Cancel"}, {}, FALSE)
  <2>1. x \in Task /\ x.op = "mask" /\ Grants(x)
    <3>1. x \in Task
      BY <1>1, MaskTasks, Bits
    <3> QED  BY <3>1 DEF MaskTask, Grants, Clears
  <2> HIDE DEF x
  <2>2. <<x>> \in Seq(Task) /\ Tasks(<<x>>) = {x}
    BY <2>1, FewTasks
  <2>3. Unarmed(<<x>>) /\ \A u \in Tasks(<<x>>) : Grants(u)
    BY <2>1, <2>2 DEF Unarmed
  <2>4. todo' = <<x>> \o todo
    BY <1>5 DEF x
  <2>5. t \in Tasks(todo')
    <3>1. t \in Tasks(todo)
      BY <1>1, TasksPopped
    <3> QED  BY <1>1, <2>2, <2>4, <3>1, TasksJoined
  <2>6. \A m \in Nodes : Due({t}, m) => Due(Tasks(todo), m)'
    BY <1>1, <1>2, <1>3, <2>5 DEF Due
  <2>7. AckKept
    BY <1>5 DEF AckKept, channelVars
  <2> QED  BY <1>1, <1>2, <2>2, <2>3, <2>4, <2>6, <2>7, CoveredTurn
<1>6. CASE /\ t.node \in Channels /\ todo' = Rest
           /\ \E acknowledged, refused \in BOOLEAN : ApplyMask(t.node, t, acknowledged, refused)
  <2>1. << >> \in Seq(Task) /\ todo' = << >> \o Rest /\ Tasks(<< >>) = {} /\ Unarmed(<< >>)
    <3>1. Rest \in Seq(Task)
      BY <1>1, TasksPopped DEF Rest
    <3> QED  BY <1>6, <3>1, NoTasks, FewTasks DEF Unarmed
  <2>2. (~Clears(t) => AckKept) /\ ("Ack" \in t.set => "Ack" \in ch'[t.node].mask)
    BY <1>1, <1>2, <1>6, AckApplied
  <2>3. \A m \in Nodes : Due({t}, m) => Done(m)'
    BY <1>2, <1>3, <2>2 DEF Done
  <2>4. Grants(t) => AckKept
    BY <1>1, <2>2 DEF Grants
  <2> QED  BY <1>1, <1>2, <2>1, <2>3, <2>4, CoveredTurn
<1> QED  BY <1>1, <1>4, <1>5, <1>6 DEF ApplyMasks

LEMMA VisitNoAckCovered ==
  ASSUME IInv, Covered, VisitNoAck
  PROVE  Covered'
<1>1. PICK t \in Task : /\ t = Head(todo) /\ t.op = "noAck" /\ t.node \in Nodes
                        /\ todo # << >> /\ todo \in Seq(Task)
  <2>1. Head(todo) \in Task /\ Head(todo).op = "noAck"
    BY HeadTask DEF VisitNoAck, IInv
  <2> QED  BY <2>1, TaskFields DEF VisitNoAck, Running, IInv, Agenda
<1> DEFINE n == t.node
           on == MaskTask(n, {"Ack"}, {}, {}, FALSE)
           off == MaskTask(n, {}, {}, {"Ack"}, FALSE)
           s == IF n \in Groups THEN OnChildren(t) ELSE IF t.on THEN <<on>> ELSE <<off>>
<1>2. /\ noAckUntil \in [Nodes -> Nat] /\ Agenda /\ UNCHANGED ch
      /\ Rest \in Seq(Task) /\ AckKept
  BY <1>1, HeadTask DEF VisitNoAck, IInv, Timers, channelVars, AckKept
<1>3. \/ ~t.on /\ todo' = Rest
      \/ /\ todo' = s \o Rest
         /\ noAckUntil' = IF t.on THEN [noAckUntil EXCEPT ![n] = 0] ELSE noAckUntil
  BY <1>1 DEF VisitNoAck
<1>4. CASE ~t.on /\ todo' = Rest
  <2>1. << >> \in Seq(Task) /\ todo' = << >> \o Rest /\ Unarmed(<< >>) /\ ~Grants(t)
    BY <1>1, <1>2, <1>4, NoTasks, FewTasks DEF Unarmed, Grants
  <2> QED  BY <1>1, <1>2, <2>1, CoveredTurn
<1>5. CASE /\ todo' = s \o Rest
           /\ noAckUntil' = IF t.on THEN [noAckUntil EXCEPT ![n] = 0] ELSE noAckUntil
  <2>1. /\ on \in Task /\ off \in Task /\ on.op = "mask" /\ off.op = "mask"
        /\ on.node = n /\ "Ack" \in on.set /\ Grants(on)
    <3>1. on \in Task /\ off \in Task
      BY <1>1, MaskTasks, Bits
    <3> QED  BY <3>1 DEF MaskTask, Grants, Clears
  <2> HIDE DEF on, off
  <2>2. /\ s \in Seq(Task) /\ Unarmed(s)
        /\ t.on => /\ \A u \in Tasks(s) : Grants(u)
                   /\ n \in Groups => \A k : IsChildOf(k, n) =>
                        \E u \in Tasks(s) : u.op = "noAck" /\ u.node = k
                   /\ n \notin Groups => on \in Tasks(s)
    <3>1. CASE n \in Groups
      <4>1. /\ OnChildren(t) \in Seq(Task)
            /\ \A u : u \in Tasks(OnChildren(t))
                 <=> \E k \in Nodes : IsChildOf(k, n) /\ u = [t EXCEPT !.node = k]
        BY <1>1, <3>1, ChildTasks
      <4>2. \A k : /\ [t EXCEPT !.node = k].op = "noAck" /\ [t EXCEPT !.node = k].on = t.on
                   /\ [t EXCEPT !.node = k].node = k
        BY <1>1 DEF Task
      <4>3. \A k : IsChildOf(k, n) => k \in Nodes
        BY <3>1, ChildBelow
      <4>4. ASSUME NEW u \in Tasks(OnChildren(t))
            PROVE  u.op = "noAck" /\ u.on = t.on
        <5>1. PICK k \in Nodes : u = [t EXCEPT !.node = k]
          BY <4>1
        <5> HIDE <4>1
        <5> QED  BY <4>2, <5>1, Zenon
      <4>5. ASSUME NEW k, IsChildOf(k, n)
            PROVE  \E u \in Tasks(OnChildren(t)) : u.op = "noAck" /\ u.node = k
        <5>1. [t EXCEPT !.node = k] \in Tasks(OnChildren(t))
          BY <4>1, <4>3, <4>5
        <5> QED  BY <4>2, <5>1
      <4> QED  BY <3>1, <4>1, <4>4, <4>5 DEF Unarmed, Grants
    <3>2. CASE n \notin Groups
      BY <2>1, <3>2, FewTasks DEF Unarmed
    <3> QED  BY <3>1, <3>2
  <2> HIDE DEF s
  <2>3. Tasks(s) \subseteq Tasks(todo')
    BY <1>2, <1>5, <2>2, TasksJoined
  <2>4. \A m \in Nodes : noAckUntil[m] = 0 => noAckUntil'[m] = 0
    BY <1>2, <1>5
  <2>5. ASSUME t.on, NEW m \in Nodes, Due({t}, m)
        PROVE  Done(m)' \/ Due(Tasks(todo), m)'
    <3>1. m \in Subtree(n) /\ noAckUntil'[n] = 0
      BY <1>1, <1>2, <1>5, <2>5 DEF Due
    <3>2. CASE m = n /\ n \in Groups
      BY <3>1, <3>2, TreeTyping DEF Done
    <3>3. CASE m = n /\ n \notin Groups
      <4>1. on \in Tasks(todo')
        BY <2>2, <2>3, <2>5, <3>3
      <4> QED  BY <2>1, <3>1, <3>3, <4>1 DEF Due
    <3>4. CASE m # n
      <4>1. n \in Ancestors[m] /\ n \in Groups
        BY <3>1, <3>4, TreeTyping DEF Subtree
      <4>2. PICK k \in Nodes : IsChildOf(k, n) /\ m \in Subtree(k)
        BY <4>1, BelowChildren
      <4>3. PICK u \in Tasks(s) : u.op = "noAck" /\ u.node = k
        BY <2>2, <2>5, <4>1, <4>2
      <4>4. u \in Tasks(todo') /\ m \in Subtree(u.node)
        BY <2>3, <4>2, <4>3
      <4> QED  BY <4>3, <4>4 DEF Due
    <3> QED  BY <3>2, <3>3, <3>4
  <2>6. Grants(t) => t.on
    BY <1>1 DEF Grants
  <2> HIDE DEF n
  <2> QED  BY <1>1, <1>2, <1>5, <2>2, <2>4, <2>5, <2>6, CoveredTurn
<1> QED  BY <1>3, <1>4, <1>5

LEMMA ArmNoAckCovered ==
  ASSUME IInv, Covered, ArmNoAck
  PROVE  Covered' /\ Tasks(todo') = {}
<1>1. /\ Head(todo).op = "armNoAck" /\ todo # << >> /\ todo \in Seq(Task) /\ todo' = Tail(todo)
  BY DEF ArmNoAck, Running, IInv, Agenda, Rest
<1>2. Tasks(todo') = {}
  BY <1>1, ArmsPopped DEF Covered
<1> QED  BY <1>2, UnarmedCovered DEF Unarmed

(* Every other step leaves NoAck alone; a call puts mask tasks on an agenda*)
(* that holds no NoAck call, or starts one.                                *)
Released(t) ==
  /\ Clears(t) => \A c \in Channels : c \in Subtree(t.node) => noAckUntil[c] = 0
  /\ t.op = "noAck" /\ ~t.on => noAckUntil[t.top] = 0

MaskCall ==
  /\ UNCHANGED <<ch, output>> /\ TimersStop
  /\ Idle \/ Head(todo).op \notin NoAckOps
  /\ \E x \in Task :
       /\ x.op = "mask"
       /\ RestoreTargets = {} /\ ForceRequests = {} => Released(x)'
       /\ \A t \in Tasks(todo') : t = x \/ t \in Tasks(todo) \/ t.op \notin NoAckOps

LEMMA AckStays ==
  ASSUME IInv, StepShape, ~Running("mask"), ~Renews
  PROVE  AckKept
<1>1. ASSUME NEW c \in Channels, Changes(c)
      PROVE  AckKept
  <2>1. /\ \A d \in Channels : ch'[d] = ch[d] \/ d = c
        /\ ch'[c].mask \ {"AckT"} = ch[c].mask \ {"AckT"}
    BY <1>1 DEF Changes, KeepsMask, IInv, Core
  <2> QED  BY <2>1 DEF AckKept
<1> QED  BY <1>1 DEF StepShape, AckKept

LEMMA RunningCalm ==
  ASSUME IInv, StepShape, NEW op, Running(op), op \notin NoAckOps, TimersStop,
         NEW s \in Seq(Task), \A u \in Tasks(s) : u.op \notin NoAckOps,
         todo' = s \o Rest \/ todo' = s \o todo
  PROVE  Calm
<1>1. todo # << >> /\ Head(todo).op = op /\ Agenda
  BY DEF Running, IInv
<1>2. ~Running("mask") /\ ~Renews
  BY <1>1 DEF Running, Renews, Idle, NoAckOps
<1>3. AckKept
  BY <1>2, AckStays
<1>4. Tasks(todo') \subseteq Tasks(s) \cup Tasks(todo)
  <2>1. ASSUME NEW r, r = todo \/ r = Rest, todo' = s \o r
        PROVE  Tasks(todo') \subseteq Tasks(s) \cup Tasks(todo)
    BY <1>1, <2>1, AddedTasks
  <2> QED  BY <2>1
<1> QED  BY <1>1, <1>3, <1>4 DEF Calm

LEMMA PoppedCalm ==
  ASSUME IInv, StepShape, NEW op, Running(op), op \notin NoAckOps, TimersStop,
         todo' = Rest \/ todo' = todo
  PROVE  Calm
<1>1. Rest \in Seq(Task) /\ todo \in Seq(Task)
  BY HeadTask DEF IInv, Agenda
<1>2. << >> \in Seq(Task) /\ Tasks(<< >>) = {} /\ (todo' = << >> \o Rest \/ todo' = << >> \o todo)
  BY <1>1, NoTasks, FewTasks
<1> QED  BY <1>2, RunningCalm

LEMMA ChildrenCalm ==
  ASSUME IInv, StepShape, NEW t \in Task, t = Head(todo), t.node \in Groups,
         t.op \in {"acknowledge", "shelve", "unshelve"}, todo # << >>, TimersStop,
         todo' = OnChildren(t) \o Rest
  PROVE  Calm
<1>1. /\ OnChildren(t) \in Seq(Task)
      /\ \A u \in Tasks(OnChildren(t)) : \E n \in Nodes : u = [t EXCEPT !.node = n]
  BY ChildTasks
<1>2. \A n : [t EXCEPT !.node = n].op = t.op
  BY DEF Task
<1>3. ASSUME NEW u \in Tasks(OnChildren(t))
      PROVE  u.op = t.op
  <2>1. PICK n \in Nodes : u = [t EXCEPT !.node = n]
    BY <1>1
  <2> HIDE <1>1
  <2> QED  BY <1>2, <2>1, Zenon
<1>4. \A u \in Tasks(OnChildren(t)) : u.op \notin NoAckOps
  BY <1>3 DEF NoAckOps
<1>5. Running(t.op) /\ t.op \notin NoAckOps
  BY DEF Running, NoAckOps
<1> QED  BY <1>1, <1>4, <1>5, RunningCalm

LEMMA EventsCalm ==
  ASSUME IInv, StepShape, HandleEvent \/ CountEdge
  PROVE  Calm
<1>1. CASE CountEdge
  <2>1. Running("edge") /\ "edge" \notin NoAckOps /\ TimersStop /\ todo' = Rest
    BY <1>1 DEF CountEdge, NoAckOps, TimersStop, timerVars
  <2> QED  BY <2>1, PoppedCalm
<1>2. CASE HandleEvent
  <2> DEFINE c == Head(todo).node
             e == Head(todo).event
             x == [op |-> "edge", node |-> c, event |-> e]
  <2>1. /\ Running("event") /\ "event" \notin NoAckOps /\ TimersStop
        /\ c \in Channels /\ e \in Event
    <3>1. Head(todo) \in Task /\ Head(todo).op = "event"
      BY <1>2, HeadTask DEF HandleEvent, IInv
    <3> QED  BY <1>2, <3>1, TaskFields DEF HandleEvent, NoAckOps, TimersStop
  <2>2. todo' = Rest \/ (FilterCount[c] > 0 /\ todo' = <<x>> \o Rest)
    BY <1>2 DEF HandleEvent, IgnoreCancelled, PassUnfiltered, StaysNormal, StaysInAlarm,
                HoldAlarm, HoldRecovery, ThenCount
  <2>3. CASE FilterCount[c] > 0 /\ todo' = <<x>> \o Rest
    <3>1. x \in Task /\ x.op = "edge"
      BY <2>1, <2>3, NewTasks DEF Counted
    <3> HIDE DEF x
    <3>2. <<x>> \in Seq(Task) /\ \A u \in Tasks(<<x>>) : u.op \notin NoAckOps
      BY <3>1, FewTasks DEF NoAckOps
    <3> QED  BY <2>1, <2>3, <3>2, RunningCalm
  <2> QED  BY <2>1, <2>2, <2>3, PoppedCalm
<1> QED  BY <1>1, <1>2

LEMMA DeadlinesCalm ==
  ASSUME IInv, StepShape, ScanDeadlines \/ ExpireShelves
  PROVE  Calm
<1>1. CASE ScanDeadlines
  <2> DEFINE x == [op |-> "timers", due |-> ExpiredTimers]
             y == [op |-> "shelves"]
  <2>1. /\ Running("deadlines") /\ "deadlines" \notin NoAckOps /\ TimersStop
        /\ todo' = Rest \/ todo' = <<x, y>> \o Rest
    BY <1>1 DEF ScanDeadlines, NoAckOps, TimersStop
  <2>2. x \in Task /\ y \in Task /\ x.op = "timers" /\ y.op = "shelves"
    BY ExpiredTimersType, NewTasks DEF IInv, Core
  <2> HIDE DEF x, y
  <2>3. <<x, y>> \in Seq(Task) /\ \A u \in Tasks(<<x, y>>) : u.op \notin NoAckOps
    BY <2>2, FewTasks DEF NoAckOps
  <2> QED  BY <2>1, <2>3, PoppedCalm, RunningCalm
<1>2. CASE ExpireShelves
  <2>1. /\ Running("shelves") /\ "shelves" \notin NoAckOps /\ TimersStop
        /\ todo' = Rest \/ todo' = todo
    BY <1>2 DEF ExpireShelves, NoAckOps, TimersStop, timerVars
  <2> QED  BY <2>1, PoppedCalm
<1> QED  BY <1>1, <1>2

LEMMA ReducedCalm ==
  ASSUME IInv, StepShape, TimersStop, NEW op \in {"timers", "retry"}, Running(op),
         NEW d, d \subseteq Head(todo).due, todo' = << [Head(todo) EXCEPT !.due = d] >> \o Rest
  PROVE  Calm
<1> DEFINE x == [Head(todo) EXCEPT !.due = d]
<1>1. Head(todo) \in Task /\ Head(todo).op = op
  BY HeadTask DEF IInv
<1>2. x \in Task /\ x.op = op
  <2>1. x \in Task
    BY <1>1, TaskChanges
  <2>2. x.op = op
    BY <1>1 DEF Task
  <2> QED  BY <2>1, <2>2
<1> HIDE DEF x
<1>3. <<x>> \in Seq(Task) /\ \A u \in Tasks(<<x>>) : u.op \notin NoAckOps
  BY <1>2, FewTasks DEF NoAckOps
<1>4. op \notin NoAckOps /\ todo' = <<x>> \o Rest
  BY DEF NoAckOps, x
<1> QED  BY <1>3, <1>4, RunningCalm

LEMMA DispatchCalm ==
  ASSUME IInv, StepShape,
         \/ RetryForce
         \/ DispatchTimer /\ ~\E t \in Timeout : NoAckExpires(t)
  PROVE  Calm
<1>1. CASE RetryForce
  <2>1. /\ Running("retry") /\ "retry" \notin NoAckOps /\ TimersStop
        /\ todo' = Rest
           \/ \E p : todo' = << [Head(todo) EXCEPT !.due = @ \ {p}] >> \o Rest
    BY <1>1 DEF RetryForce, NoAckOps, TimersStop, timerVars
  <2>2. Head(todo) \in Task /\ Head(todo).op = "retry"
    BY <2>1, HeadTask DEF IInv
  <2>3. ASSUME NEW p, todo' = << [Head(todo) EXCEPT !.due = @ \ {p}] >> \o Rest
        PROVE  Calm
    <3>1. [Head(todo) EXCEPT !.due = @ \ {p}]
            = [Head(todo) EXCEPT !.due = Head(todo).due \ {p}]
      BY <2>2 DEF Task
    <3>2. todo' = << [Head(todo) EXCEPT !.due = Head(todo).due \ {p}] >> \o Rest
      BY <2>3, <3>1
    <3> QED  BY <2>1, <3>2, ReducedCalm
  <2> QED  BY <2>1, <2>3, PoppedCalm
<1>2. CASE DispatchTimer /\ ~\E t \in Timeout : NoAckExpires(t)
  <2> DEFINE f == FirstOf(Head(todo).due)
  <2>1. Running("timers") /\ "timers" \notin NoAckOps
    BY <1>2 DEF DispatchTimer, NoAckOps
  <2>2. Head(todo) \in Task /\ Head(todo).op = "timers"
    BY <2>1, HeadTask DEF IInv
  <2>3. NoAckExpires(f) => f \in Timeout
    <3>1. ExpiredTimers \subseteq Timeout
      BY ExpiredTimersType DEF IInv, Core
    <3> QED  BY <3>1 DEF NoAckExpires
  <2> HIDE DEF f
  <2>4. /\ UNCHANGED noAckUntil
        /\ todo' = Rest
           \/ \E p : todo' = << [Head(todo) EXCEPT !.due = @ \ {p}] >> \o Rest
    BY <1>2, <2>3 DEF DispatchTimer, FilterExpires, DropStaleTimer, f
  <2>5. ASSUME NEW p, todo' = << [Head(todo) EXCEPT !.due = @ \ {p}] >> \o Rest
        PROVE  Calm
    <3>1. [Head(todo) EXCEPT !.due = @ \ {p}]
            = [Head(todo) EXCEPT !.due = Head(todo).due \ {p}]
      BY <2>2 DEF Task
    <3>2. todo' = << [Head(todo) EXCEPT !.due = Head(todo).due \ {p}] >> \o Rest
      BY <2>5, <3>1
    <3> QED  BY <2>1, <2>4, <3>2, ReducedCalm DEF TimersStop
  <2> QED  BY <2>1, <2>4, <2>5, PoppedCalm DEF TimersStop
<1> QED  BY <1>1, <1>2

LEMMA VisitsCalm ==
  ASSUME IInv, StepShape,
         VisitAcknowledge \/ VisitShelve \/ VisitUnshelve \/ EndSilenceCurrent
  PROVE  Calm
<1>1. CASE EndSilenceCurrent
  <2>1. Running("endSilence") /\ "endSilence" \notin NoAckOps /\ TimersStop /\ todo' = Rest
    BY <1>1 DEF EndSilenceCurrent, NoAckOps, TimersStop, timerVars
  <2> QED  BY <2>1, PoppedCalm
<1>2. ASSUME NEW op \in {"acknowledge", "shelve", "unshelve"}, Running(op), TimersStop,
             \/ todo' = Rest \/ todo' = todo
             \/ Head(todo).node \in Groups /\ todo' = OnChildren(Head(todo)) \o Rest
      PROVE  Calm
  <2>1. op \notin NoAckOps
    BY <1>2 DEF NoAckOps
  <2>2. PICK t \in Task : t = Head(todo) /\ t.op = op /\ todo # << >>
    BY <1>2, HeadTask DEF IInv, Running
  <2>3. CASE t.node \in Groups /\ todo' = OnChildren(t) \o Rest
    BY <1>2, <2>2, <2>3, ChildrenCalm
  <2> QED  BY <1>2, <2>1, <2>2, <2>3, PoppedCalm
<1>3. CASE VisitAcknowledge
  <2>1. Running("acknowledge") /\ TimersStop /\ Rest \in Seq(Task)
    BY <1>3, HeadTask DEF VisitAcknowledge, TimersStop, timerVars, IInv
  <2>2. << >> \o Rest = Rest
    BY <2>1, NoTasks
  <2>3. \/ todo' = Rest
        \/ Head(todo).node \in Groups /\ todo' = OnChildren(Head(todo)) \o Rest
    BY <1>3, <2>2 DEF VisitAcknowledge
  <2> QED  BY <1>2, <2>1, <2>3
<1>4. CASE VisitShelve
  BY <1>2, <1>4 DEF VisitShelve, TimersStop
<1>5. CASE VisitUnshelve
  BY <1>2, <1>5 DEF VisitUnshelve, TimersStop, timerVars
<1> QED  BY <1>1, <1>3, <1>4, <1>5

LEMMA IdleCalm ==
  ASSUME Idle, UNCHANGED <<ch, noAckUntil>>, \A u \in Tasks(todo') : u.op \notin NoAckOps
  PROVE  Calm
  BY DEF Calm, AckKept, TimersStop

LEMMA OneTaskCalm ==
  ASSUME Idle, UNCHANGED <<ch, noAckUntil>>,
         todo' = todo \/ \E x \in Task : x.op \notin NoAckOps /\ todo' = <<x>>
  PROVE  Calm
<1>1. CASE todo' = todo
  BY <1>1, FewTasks, IdleCalm DEF Idle
<1>2. ASSUME NEW x \in Task, x.op \notin NoAckOps, todo' = <<x>>
      PROVE  Calm
  BY <1>2, FewTasks, IdleCalm
<1> QED  BY <1>1, <1>2

LEMMA TickCalm ==
  ASSUME IInv, Tick \/ TimePasses \/ SetClock
  PROVE  Calm
<1>1. CASE Tick
  <2> DEFINE x == [op |-> "retry", due |-> pendingForce]
  <2>1. x \in Task /\ Deadlines \in Task /\ x.op = "retry" /\ Deadlines.op = "deadlines"
    BY NewTasks DEF IInv, Requests, Deadlines
  <2> HIDE DEF x
  <2>2. /\ Idle /\ UNCHANGED <<ch, noAckUntil>>
        /\ todo' = <<x>> \o <<Deadlines>> \/ todo' = << >> \o <<Deadlines>>
    BY <1>1 DEF Tick, x, channelVars, timerVars
  <2>3. \A u \in Tasks(todo') : u = x \/ u = Deadlines
    <3>1. /\ <<x>> \in Seq(Task) /\ Tasks(<<x>>) = {x} /\ Tasks(<< >>) = {}
          /\ <<Deadlines>> \in Seq(Task) /\ Tasks(<<Deadlines>>) = {Deadlines}
          /\ << >> \in Seq(Task)
      BY <2>1, FewTasks, NoTasks
    <3>2. Tasks(<<x>> \o <<Deadlines>>) = {x} \cup {Deadlines}
      BY <3>1, TasksJoined
    <3>3. Tasks(<< >> \o <<Deadlines>>) = {Deadlines}
      BY <3>1, TasksJoined
    <3>4. Tasks(todo') = {x} \cup {Deadlines} \/ Tasks(todo') = {Deadlines}
      BY <2>2, <3>2, <3>3
    <3> QED  BY <3>4
  <2>4. \A u \in Tasks(todo') : u.op \notin NoAckOps
    BY <2>1, <2>3 DEF NoAckOps
  <2> QED  BY <2>2, <2>4, IdleCalm
<1>2. CASE TimePasses \/ SetClock
  BY <1>2, OneTaskCalm DEF TimePasses, SetClock, channelVars, timerVars
<1> QED  BY <1>1, <1>2

LEMMA PlainCallsCalm ==
  ASSUME IInv,
         \/ \E c \in Channels, e \in Events : MonitorEvent(c, e)
         \/ \E n \in Nodes : DiscardForce(n)
         \/ \E n \in AckTargets : Acknowledge(n)
         \/ \E n \in ShelveTargets, d \in ShelfDurations, r \in BOOLEAN : Shelve(n, d, r)
         \/ \E n \in ShelveTargets : Unshelve(n)
         \/ \E n \in BeepTargets, v \in BeepRequests : SetBeep(n, v)
         \/ SetSilence
  PROVE  Calm
<1>1. ASSUME NEW c \in Channels, NEW e \in Events, MonitorEvent(c, e)
      PROVE  Calm
  <2> DEFINE x == [op |-> "event", node |-> c, event |-> e]
  <2>1. x \in Task /\ Deadlines \in Task /\ x.op = "event" /\ Deadlines.op = "deadlines"
    BY NewTasks, EngineAssumption DEF Deadlines
  <2> HIDE DEF x
  <2>2. <<Deadlines, x>> \in Seq(Task) /\ \A u \in Tasks(<<Deadlines, x>>) : u.op \notin NoAckOps
    BY <2>1, FewTasks DEF NoAckOps
  <2>3. /\ todo' = <<Deadlines, x>> \o todo /\ UNCHANGED <<ch, noAckUntil>>
        /\ Idle \/ Head(todo).op \notin NoAckOps
    BY <1>1 DEF MonitorEvent, CanCallBack, Running, NoAckOps, channelVars, timerVars, x
  <2>4. Tasks(todo') = Tasks(<<Deadlines, x>>) \cup Tasks(todo)
    BY <2>2, <2>3, TasksJoined DEF IInv, Agenda
  <2> QED  BY <2>2, <2>3, <2>4 DEF Calm, AckKept, TimersStop
<1>2. ASSUME NEW n \in AckTargets, Acknowledge(n)
      PROVE  Calm
  <2> DEFINE x == [op |-> "acknowledge", node |-> n]
  <2>1. x \in Task /\ x.op \notin NoAckOps
    BY NewTasks, EngineAssumption DEF NoAckOps
  <2>2. Idle /\ UNCHANGED <<ch, noAckUntil>> /\ todo' = <<x>>
    BY <1>2 DEF Acknowledge, channelVars, timerVars
  <2> HIDE DEF x
  <2> QED  BY <2>1, <2>2, OneTaskCalm
<1>3. ASSUME NEW n \in ShelveTargets, NEW d \in ShelfDurations, NEW r \in BOOLEAN,
             Shelve(n, d, r)
      PROVE  Calm
  <2> DEFINE x == [op |-> "shelve", node |-> n, until |-> wall + d, replace |-> r]
  <2>1. wall + d \in Nat /\ n \in Nodes
    BY EngineAssumption DEF IInv, Clocks
  <2>2. x \in Task /\ x.op \notin NoAckOps
    BY <2>1, NewTasks DEF NoAckOps
  <2>3. Idle /\ UNCHANGED <<ch, noAckUntil>> /\ todo' = <<x>>
    BY <1>3 DEF Shelve, channelVars, timerVars
  <2> HIDE DEF x
  <2> QED  BY <2>2, <2>3, OneTaskCalm
<1>4. ASSUME NEW n \in ShelveTargets, Unshelve(n)
      PROVE  Calm
  <2> DEFINE x == [op |-> "unshelve", node |-> n]
  <2>1. x \in Task /\ x.op \notin NoAckOps
    BY NewTasks, EngineAssumption DEF NoAckOps
  <2>2. Idle /\ UNCHANGED <<ch, noAckUntil>> /\ todo' = <<x>>
    BY <1>4 DEF Unshelve, channelVars, timerVars
  <2> HIDE DEF x
  <2> QED  BY <2>1, <2>2, OneTaskCalm
<1>5. CASE \/ \E n \in Nodes : DiscardForce(n)
           \/ \E n \in BeepTargets, v \in BeepRequests : SetBeep(n, v)
           \/ SetSilence
  BY <1>5, OneTaskCalm DEF DiscardForce, SetBeep, SetSilence, channelVars, timerVars
<1> QED  BY <1>1, <1>2, <1>3, <1>4, <1>5

LEMMA MaskCalls ==
  ASSUME IInv,
         \/ \E n \in Nodes, m \in MaskRequests : SetMask(n, m)
         \/ \E n \in Nodes : ResetMask(n)
         \/ \E n \in Nodes, b \in BitRequests : ModifyMask(n, b)
         \/ \E c \in RestoreTargets : RestoreMask(c)
         \/ \E n \in Nodes : ForceMask(n)
  PROVE  MaskCall
<1>1. noAckUntil \in [Nodes -> Nat]
  BY DEF IInv, Timers
<1>2. ASSUME NEW n \in Nodes, NEW set \in Mask, NEW clear \in Mask, NEW reset \in Mask,
             NEW cancels \in BOOLEAN, cancels \/ "Ack" \notin clear \cup reset,
             OperatorMask(n, MaskTask(n, set, clear, reset, FALSE), cancels)
      PROVE  MaskCall
  <2> DEFINE x == MaskTask(n, set, clear, reset, FALSE)
             y == [op |-> "endSilence"]
  <2>1. x \in Task /\ x.op = "mask" /\ x.node = n /\ x.set = set /\ x.clear = clear /\ x.reset = reset
        /\ y \in Task /\ y.op = "endSilence"
    <3>1. x \in Task
      BY MaskTasks
    <3> QED  BY <3>1, NewTasks DEF MaskTask
  <2>2. /\ Idle /\ UNCHANGED <<ch, output>> /\ todo' = <<x, y>>
        /\ noAckUntil' = IF cancels THEN WithoutTimers(n) ELSE noAckUntil
    BY <1>2 DEF OperatorMask, channelVars
  <2> HIDE DEF x, y
  <2>3. TimersStop
    BY <1>1, <2>2 DEF TimersStop, WithoutTimers
  <2>4. Released(x)'
    <3>1. CASE cancels
      <4>1. \A c \in Channels : c \in Subtree(n) => noAckUntil'[c] = 0
        BY <2>2, <3>1 DEF WithoutTimers, Nodes
      <4> QED  BY <2>1, <4>1 DEF Released, Clears
    <3>2. CASE ~cancels
      BY <1>2, <2>1, <3>2 DEF Released, Clears
    <3> QED  BY <3>1, <3>2
  <2>5. \A t \in Tasks(todo') : t = x \/ t.op \notin NoAckOps
    BY <2>1, <2>2, FewTasks DEF NoAckOps
  <2> QED  BY <1>2, <2>1, <2>2, <2>3, <2>4, <2>5 DEF MaskCall
<1>3. ASSUME NEW n \in Nodes, NEW m \in MaskRequests, SetMask(n, m)
      PROVE  MaskCall
  <2>1. m \in Mask
    BY EngineAssumption
  <2> QED  BY <1>2, <1>3, <2>1, Bits DEF SetMask
<1>4. ASSUME NEW n \in Nodes, ResetMask(n)
      PROVE  MaskCall
  BY <1>2, <1>4, Bits DEF ResetMask
<1>5. ASSUME NEW n \in Nodes, NEW b \in BitRequests, ModifyMask(n, b)
      PROVE  MaskCall
  <2>1. {b} \in Mask /\ {} \in Mask /\ (b = "Ack") \in BOOLEAN
        /\ (b = "Ack" \/ "Ack" \notin {b} \cup {})
    BY EngineAssumption, Bits
  <2> QED  BY <1>2, <1>5, <2>1 DEF ModifyMask
<1>6. ASSUME RestoreTargets # {} \/ ForceRequests # {}, NEW x \in Task, x.op = "mask",
             todo' = <<x>> \o todo, UNCHANGED <<ch, output, noAckUntil>>,
             Idle \/ Head(todo).op \notin NoAckOps
      PROVE  MaskCall
  <2>1. Tasks(todo') = {x} \cup Tasks(todo)
    <3>1. <<x>> \in Seq(Task) /\ Tasks(<<x>>) = {x} /\ todo \in Seq(Task)
      BY FewTasks DEF IInv, Agenda
    <3>2. Tasks(<<x>> \o todo) = Tasks(<<x>>) \cup Tasks(todo)
      BY <3>1, TasksJoined
    <3> QED  BY <1>6, <3>1, <3>2
  <2> QED  BY <1>6, <2>1 DEF MaskCall, TimersStop
<1>7. ASSUME NEW c \in RestoreTargets, RestoreMask(c)
      PROVE  MaskCall
  <2> DEFINE x == MaskTask(c, {}, {}, MaskBits, FALSE)
  <2>1. c \in Nodes
    BY EngineAssumption DEF Nodes
  <2>2. x \in Task /\ x.op = "mask" /\ x.set = {}
    <3>1. x \in Task
      BY <2>1, MaskTasks, Bits
    <3> QED  BY <3>1 DEF MaskTask
  <2>3. /\ Idle /\ UNCHANGED <<ch, output, noAckUntil>> /\ todo' = <<x>>
    BY <1>7 DEF RestoreMask, channelVars, timerVars
  <2> HIDE DEF x
  <2>4. \A t \in Tasks(todo') : t = x
    BY <2>2, <2>3, FewTasks
  <2> QED  BY <2>2, <2>3, <2>4 DEF MaskCall, TimersStop
<1>8. ASSUME NEW n \in Nodes, ForceMask(n)
      PROVE  MaskCall
  <2>1. ASSUME NEW set \in Mask, NEW clear \in Mask, NEW reset \in Mask,
               todo' = << MaskTask(n, set, clear, reset, TRUE) >> \o todo
        PROVE  MaskCall
    <3> DEFINE x == MaskTask(n, set, clear, reset, TRUE)
    <3>1. x \in Task /\ x.op = "mask" /\ x.set = set
      <4>1. x \in Task
        BY MaskTasks
      <4> QED  BY <4>1 DEF MaskTask
    <3>2. /\ todo' = <<x>> \o todo /\ UNCHANGED <<ch, output, noAckUntil>> /\ ForceRequests # {}
          /\ Idle \/ Head(todo).op \notin NoAckOps
      BY <1>8, <2>1 DEF ForceMask, CanCallBack, Running, NoAckOps, channelVars, timerVars
    <3> HIDE DEF x
    <3> QED  BY <1>6, <2>1, <3>1, <3>2
  <2>2. ForceRequests \subseteq Mask
    BY EngineAssumption
  <2> QED  BY <1>8, <2>1, <2>2, Bits DEF ForceMask
<1> QED  BY <1>3, <1>4, <1>5, <1>7, <1>8

LEMMA MaskCallCovered ==
  ASSUME IInv, Covered, MaskCall
  PROVE  Covered'
<1>1. Unarmed(todo)
  BY NotArmed DEF MaskCall, IInv
<1>2. Unarmed(todo')
  BY <1>1 DEF MaskCall, Unarmed, NoAckOps
<1> QED  BY <1>2, UnarmedCovered

LEMMA NoAckCallCovered ==
  ASSUME NEW n \in Nodes, NEW on \in BOOLEAN, NoAck(n, on)
  PROVE  Covered'
<1> DEFINE x == [op |-> "noAck", node |-> n, top |-> n, on |-> on]
           a == [op |-> "armNoAck", node |-> n]
<1>1. x \in Task /\ a \in Task
  BY NewTasks
<1>2. todo' = <<x>> \o (IF on THEN <<a>> ELSE << >>)
  BY DEF NoAck
<1>3. /\ x.op = "noAck" /\ x.node = n /\ x.on = on
      /\ a.op = "armNoAck" /\ a.node = n
  OBVIOUS
<1> HIDE DEF x, a
<1>4. /\ <<x>> \in Seq(Task) /\ Tasks(<<x>>) = {x} /\ Unarmed(<<x>>)
      /\ <<a>> \in Seq(Task) /\ Tasks(<<a>>) = {a} /\ ArmsLast(<<a>>)
      /\ << >> \in Seq(Task) /\ Tasks(<< >>) = {}
  <2>1. Len(<<a>>) = 1 /\ \A i \in 1..1 : i = 1
    OBVIOUS
  <2>2. ArmsLast(<<a>>)
    BY <2>1 DEF ArmsLast
  <2>3. << >> \in Seq(Task)
    BY NoTasks
  <2> QED  BY <1>1, <1>3, <2>2, <2>3, FewTasks DEF Unarmed
<1>5. CASE on
  <2>1. todo' = <<x>> \o <<a>>
    BY <1>2, <1>5
  <2>2. ArmsLast(todo') /\ Tasks(todo') = {x} \cup {a}
    <3>1. ArmsLast(<<x>> \o <<a>>)
      BY <1>4, ArmsJoined
    <3>2. Tasks(<<x>> \o <<a>>) = Tasks(<<x>>) \cup Tasks(<<a>>)
      BY <1>4, TasksJoined
    <3> QED  BY <1>4, <2>1, <3>1, <3>2
  <2>3. Grants(x)
    BY <1>3, <1>5 DEF Grants
  <2>4. ASSUME NEW b \in Tasks(todo'), b.op = "armNoAck"
        PROVE  /\ \A t \in Tasks(todo') : t = b \/ Grants(t)
               /\ \A m \in Subtree(b.node) : Due(Tasks(todo), m)'
    <3>1. b = a
      BY <1>3, <2>2, <2>4
    <3>2. x \in Tasks(todo')
      BY <2>2
    <3> QED  BY <1>3, <2>2, <2>3, <3>1, <3>2 DEF Due
  <2> QED  BY <2>2, <2>4 DEF Covered
<1>6. CASE ~on
  <2>1. Tasks(todo') = {x} \cup {}
    <3>1. Tasks(<<x>> \o << >>) = Tasks(<<x>>) \cup Tasks(<< >>)
      BY <1>4, TasksJoined
    <3> QED  BY <1>2, <1>4, <1>6, <3>1
  <2> QED  BY <1>3, <2>1, UnarmedCovered DEF Unarmed
<1> QED  BY <1>5, <1>6

LEMMA ExpiryTasks ==
  ASSUME IInv, Running("timers"), NEW t \in Timeout, NoAckExpires(t)
  PROVE  \E x \in Task :
           /\ x.op = "noAck" /\ x.top = t.node
           /\ \A u \in Tasks(todo') : u = x \/ u \in Tasks(todo) \/ u.op \notin NoAckOps
<1> DEFINE x == [op |-> "noAck", node |-> t.node, top |-> t.node, on |-> FALSE]
           y == [Head(todo) EXCEPT !.due = @ \ {t}]
<1>1. Head(todo) \in Task /\ Head(todo).op = "timers" /\ Rest \in Seq(Task) /\ t.node \in Nodes
  BY HeadTask DEF IInv, Timeout
<1>2. x \in Task /\ x.op = "noAck" /\ x.top = t.node
  BY <1>1, NewTasks
<1>3. y \in Task /\ y.op = "timers"
  <2>1. y = [Head(todo) EXCEPT !.due = Head(todo).due \ {t}]
    BY <1>1 DEF Task
  <2>2. y \in Task
    <3> HIDE DEF y
    <3> QED  BY <1>1, <2>1, TaskChanges
  <2>3. y.op = Head(todo).op
    BY <1>1 DEF Task
  <2> QED  BY <1>1, <2>2, <2>3
<1>4. todo' = <<x, y>> \o Rest
  BY DEF NoAckExpires
<1> HIDE DEF x, y
<1>5. <<x, y>> \in Seq(Task) /\ Tasks(<<x, y>>) = {x, y}
  BY <1>2, <1>3, FewTasks
<1>6. Tasks(todo') = {x, y} \cup Tasks(Rest) /\ Tasks(Rest) \subseteq Tasks(todo)
  BY <1>4, <1>5, AddedTasks DEF IInv, Running
<1> QED  BY <1>2, <1>3, <1>6 DEF NoAckOps

LEMMA ExpiryCovered ==
  ASSUME IInv, Covered, Running("timers"), NEW t \in Timeout, NoAckExpires(t)
  PROVE  Covered'
<1>1. Unarmed(todo)
  BY NotArmed DEF IInv, Running, NoAckOps
<1>2. Unarmed(todo')
  BY <1>1, ExpiryTasks DEF Unarmed, NoAckOps
<1> QED  BY <1>2, UnarmedCovered

(* What one step does, seen from the one-hour timers.                      *)
NoAckKinds ==
  \/ Calm \/ MaskCall \/ Renews
  \/ ApplyMasks \/ VisitNoAck \/ ArmNoAck
  \/ Running("timers") /\ \E t \in Timeout : NoAckExpires(t)
  \/ \E n \in Nodes, on \in BOOLEAN : NoAck(n, on)
  \/ UNCHANGED vars

LEMMA EveryNoAckKind ==
  ASSUME IInv, StepShape, [Next]_vars
  PROVE  NoAckKinds
<1>1. CASE Step
  <2>1. CASE DispatchTimer
    <3>1. Running("timers")
      BY <2>1 DEF DispatchTimer
    <3> QED  BY <2>1, <3>1, DispatchCalm DEF NoAckKinds
  <2> QED  BY <1>1, <2>1, EventsCalm, DeadlinesCalm, DispatchCalm, VisitsCalm
           DEF Step, NoAckKinds
<1>2. CASE Call
  <2>1. CASE Reload
    BY <2>1 DEF Reload, NoSilence, Idle, Renews, NoAckKinds
  <2>2. CASE \E n \in NoAckTargets, on \in BOOLEAN : NoAck(n, on)
    BY <2>2, EngineAssumption DEF NoAckKinds
  <2> QED  BY <1>2, <2>1, <2>2, PlainCallsCalm, MaskCalls DEF Call, NoAckKinds
<1>3. CASE Tick \/ TimePasses \/ SetClock
  BY <1>3, TickCalm DEF NoAckKinds
<1> QED  BY <1>1, <1>2, <1>3 DEF Next, NoAckKinds

LEMMA CoveredKept ==
  ASSUME TInv, Covered, NoAckKinds
  PROVE  Covered'
<1>1. IInv /\ Filters /\ Asked /\ Agenda
  BY DEF TInv, IInv
<1>2. CASE Renews
  <2>1. Tasks(todo') = {}
    BY <1>2, FewTasks DEF Renews
  <2> QED  BY <2>1, UnarmedCovered DEF Unarmed
<1>3. CASE UNCHANGED vars
  BY <1>3 DEF vars, Covered, Done, Due
<1> QED  BY <1>1, <1>2, <1>3, CalmCovered, MaskCallCovered, MaskCovered, VisitNoAckCovered,
            ArmNoAckCovered, ExpiryCovered, NoAckCallCovered
         DEF NoAckKinds

LEMMA CoverInvariant == Spec => [](TInv /\ Covered)
<1>1. Init => Covered
  <2>1. Init => Tasks(todo) = {} /\ todo = << >>
    BY FewTasks DEF Init
  <2> QED  BY <2>1 DEF Covered, ArmsLast
<1>2. TInv /\ TInv' /\ Covered /\ [Next]_vars => Covered'
  BY EveryStepShape, EveryNoAckKind, CoveredKept DEF TInv
<1> QED  BY <1>1, <1>2, TimerInvariant, PTL DEF Spec

(* When a one-hour timer is about to start, every channel below its node   *)
(* is NoAck and no timer of a branch below is left running, however deep   *)
(* the tree is and whatever masks and timers came before.                  *)
THEOREM NoAckReachesSubtree == Spec => []NoAckCoversSubtree
<1>1. TInv /\ Covered => NoAckCoversSubtree
  <2> SUFFICES ASSUME TInv, Covered, Running("armNoAck"), NEW m \in Subtree(Head(todo).node)
               PROVE  Done(m)
    BY DEF NoAckCoversSubtree, Done
  <2>1. /\ todo \in Seq(Task) /\ todo # << >> /\ Head(todo).op = "armNoAck"
    BY DEF TInv, IInv, Agenda, Running
  <2>2. Tasks(todo) = {Head(todo)}
    <3>1. Tasks(Tail(todo)) = {}
      BY <2>1, ArmsPopped DEF Covered
    <3> QED  BY <2>1, <3>1, TasksPopped
  <2>3. Done(m) \/ Due(Tasks(todo), m)
    BY <2>1, <2>2 DEF Covered
  <2>4. ~Due(Tasks(todo), m)
    BY <2>1, <2>2 DEF Due
  <2> QED  BY <2>3, <2>4
<1> QED  BY <1>1, CoverInvariant, PTL

(***************************************************************************)
(* While its own one-hour timer runs, a channel stays NoAck: no task on    *)
(* the agenda clears the NoAck of a channel whose timer still runs.        *)
(***************************************************************************)
Timed ==
  /\ \A t \in Tasks(todo) : Released(t)
  /\ \A c \in Channels : noAckUntil[c] # 0 => "Ack" \in ch[c].mask

LEMMA ReleasedStays ==
  ASSUME IInv, TimersStop, NEW t \in Task, Released(t)
  PROVE  Released(t)'
<1>1. \A n \in Nodes : noAckUntil[n] = 0 => noAckUntil'[n] = 0
  BY DEF TimersStop
<1>2. t.op = "noAck" => t.top \in Nodes
  BY TaskFields
<1> QED  BY <1>1, <1>2 DEF Released, Clears, Nodes

LEMMA UnrelatedReleased ==
  ASSUME NEW t, t.op \notin NoAckOps
  PROVE  Released(t)'
  BY DEF Released, Clears, NoAckOps

(* A step that ends timers and clears no NoAck has only to release the     *)
(* tasks it adds.                                                          *)
LEMMA TimedTurn ==
  ASSUME IInv, IInv', Timed, AckKept, TimersStop,
         \A t \in Tasks(todo') : \/ t \in Tasks(todo) \/ t.op \notin NoAckOps
                                 \/ Released(t)'
  PROVE  Timed'
<1>1. ASSUME NEW t \in Tasks(todo')
      PROVE  Released(t)'
  <2>1. CASE t \in Tasks(todo)
    <3>1. t \in Task
      BY <2>1 DEF Tasks, IInv, Agenda
    <3> QED  BY <2>1, <3>1, ReleasedStays DEF Timed
  <2> QED  BY <1>1, <2>1, UnrelatedReleased
<1>2. ASSUME NEW c \in Channels, noAckUntil'[c] # 0
      PROVE  "Ack" \in ch'[c].mask
  <2>1. noAckUntil[c] # 0
    BY <1>2 DEF TimersStop, Nodes
  <2> QED  BY <1>2, <2>1 DEF Timed, AckKept
<1>3. \A t \in Tasks(todo') : Released(t)'
  BY <1>1
<1> QED  BY <1>2, <1>3 DEF Timed

LEMMA ChannelAlone ==
  ASSUME NEW c \in Channels
  PROVE  \A m \in Subtree(c) : m = c
  BY TreeTyping DEF Subtree

LEMMA MaskTimed ==
  ASSUME IInv, IInv', Filters, Asked, Timed, ApplyMasks
  PROVE  Timed'
<1>1. PICK t \in Task : /\ t = Head(todo) /\ t.op = "mask" /\ t.node \in Nodes
                        /\ todo # << >> /\ todo \in Seq(Task)
  <2>1. Head(todo) \in Task /\ Head(todo).op = "mask"
    BY HeadTask DEF ApplyMasks, IInv
  <2> QED  BY <2>1, TaskFields DEF ApplyMasks, Running, IInv, Agenda
<1>2. UNCHANGED <<timerVars, clocks, noAckUntil>> /\ TimersStop /\ Agenda
  BY DEF ApplyMasks, timerVars, TimersStop, IInv
<1>3. Released(t)
  <2>1. t \in Tasks(todo)
    BY <1>1, TasksPopped
  <2> QED  BY <2>1 DEF Timed
<1>4. CASE t.node \in Groups /\ todo' = OnChildren(t) \o Rest /\ UNCHANGED channelVars
  <2>1. /\ OnChildren(t) \in Seq(Task)
        /\ \A u \in Tasks(OnChildren(t)) :
             \E n \in Nodes : IsChildOf(n, t.node) /\ u = [t EXCEPT !.node = n]
    BY <1>1, <1>4, ChildTasks
  <2>2. ASSUME NEW u \in Tasks(OnChildren(t))
        PROVE  Released(u)'
    <3>1. PICK n \in Nodes : IsChildOf(n, t.node) /\ u = [t EXCEPT !.node = n]
      BY <2>1
    <3>2. u.op = "mask" /\ u.node = n /\ u.clear = t.clear /\ u.reset = t.reset
      BY <1>1, <3>1 DEF Task
    <3>3. Subtree(n) \subseteq Subtree(t.node)
      BY <1>4, <3>1, ChildBelow
    <3> QED  BY <1>1, <1>2, <1>3, <3>2, <3>3 DEF Released, Clears
  <2>3. Tasks(todo') = Tasks(OnChildren(t)) \cup Tasks(Rest) /\ Tasks(Rest) \subseteq Tasks(todo)
    BY <1>1, <1>2, <1>4, <2>1, AddedTasks
  <2>4. AckKept
    BY <1>4 DEF AckKept, channelVars
  <2> QED  BY <1>2, <2>2, <2>3, <2>4, TimedTurn
<1>5. CASE /\ todo' = << MaskTask(t.node, {}, {"Cancel"}, {}, FALSE) >> \o todo
           /\ UNCHANGED channelVars
  <2> DEFINE x == MaskTask(t.node, {}, {"Cancel"}, {}, FALSE)
  <2>1. x \in Task /\ Released(x)'
    <3>1. x \in Task
      BY <1>1, MaskTasks, Bits
    <3> QED  BY <3>1 DEF MaskTask, Released, Clears
  <2>2. todo' = <<x>> \o todo
    BY <1>5
  <2> HIDE DEF x
  <2>3. Tasks(todo') = {x} \cup Tasks(todo)
    <3>1. <<x>> \in Seq(Task) /\ Tasks(<<x>>) = {x}
      BY <2>1, FewTasks
    <3> QED  BY <1>2, <2>2, <3>1, AddedTasks
  <2>4. AckKept
    BY <1>5 DEF AckKept, channelVars
  <2> QED  BY <1>2, <2>1, <2>3, <2>4, TimedTurn
<1>6. CASE /\ t.node \in Channels /\ todo' = Rest
           /\ \E acknowledged, refused \in BOOLEAN : ApplyMask(t.node, t, acknowledged, refused)
  <2>1. Tasks(todo') \subseteq Tasks(todo)
    BY <1>1, <1>6, TasksPopped DEF Rest
  <2>2. /\ \A d \in Channels \ {t.node} : ch'[d] = ch[d]
        /\ ~Clears(t) => AckKept
    BY <1>1, <1>2, <1>6, AckApplied
  <2>3. CASE ~Clears(t)
    BY <1>2, <2>1, <2>2, <2>3, TimedTurn
  <2>4. CASE Clears(t)
    <3>1. noAckUntil[t.node] = 0
      BY <1>3, <1>6, <2>4 DEF Released, Subtree, Nodes
    <3>2. \A c \in Channels : noAckUntil'[c] # 0 => "Ack" \in ch'[c].mask
      BY <1>2, <2>2, <3>1 DEF Timed
    <3>3. ASSUME NEW u \in Tasks(todo')
          PROVE  Released(u)'
      <4>1. u \in Task /\ Released(u)
        BY <2>1 DEF Timed, Tasks, IInv, Agenda
      <4> QED  BY <1>2, <4>1, ReleasedStays
    <3> QED  BY <3>2, <3>3 DEF Timed
  <2> QED  BY <2>3, <2>4
<1> QED  BY <1>1, <1>4, <1>5, <1>6 DEF ApplyMasks

LEMMA VisitNoAckTimed ==
  ASSUME IInv, IInv', Timed, VisitNoAck
  PROVE  Timed'
<1>1. PICK t \in Task : /\ t = Head(todo) /\ t.op = "noAck" /\ t.node \in Nodes
                        /\ t.top \in Nodes /\ todo # << >> /\ todo \in Seq(Task)
  <2>1. Head(todo) \in Task /\ Head(todo).op = "noAck"
    BY HeadTask DEF VisitNoAck, IInv
  <2> QED  BY <2>1, TaskFields DEF VisitNoAck, Running, IInv, Agenda
<1> DEFINE n == t.node
           on == MaskTask(n, {"Ack"}, {}, {}, FALSE)
           off == MaskTask(n, {}, {}, {"Ack"}, FALSE)
           s == IF n \in Groups THEN OnChildren(t) ELSE IF t.on THEN <<on>> ELSE <<off>>
<1>2. /\ noAckUntil \in [Nodes -> Nat] /\ Agenda /\ AckKept
  BY DEF VisitNoAck, IInv, Timers, channelVars, AckKept
<1>3. \/ todo' = Rest /\ UNCHANGED noAckUntil
      \/ /\ todo' = s \o Rest /\ (t.on \/ n = t.top \/ noAckUntil[n] = 0)
         /\ noAckUntil' = IF t.on THEN [noAckUntil EXCEPT ![n] = 0] ELSE noAckUntil
  BY <1>1 DEF VisitNoAck
<1>4. TimersStop
  BY <1>2, <1>3 DEF TimersStop
<1>5. Released(t)
  <2>1. t \in Tasks(todo)
    BY <1>1, TasksPopped
  <2> QED  BY <2>1 DEF Timed
<1>6. CASE todo' = Rest
  <2>1. Tasks(todo') \subseteq Tasks(todo)
    BY <1>1, <1>6, TasksPopped DEF Rest
  <2> QED  BY <1>2, <1>4, <2>1, TimedTurn
<1>7. CASE todo' = s \o Rest /\ (t.on \/ n = t.top \/ noAckUntil[n] = 0)
  <2>1. t.on \/ (noAckUntil'[n] = 0 /\ noAckUntil'[t.top] = 0)
    <3>1. ~t.on => noAckUntil[t.top] = 0 /\ noAckUntil[n] = 0 /\ UNCHANGED noAckUntil
      BY <1>1, <1>3, <1>5, <1>7 DEF Released
    <3> QED  BY <3>1
  <2>2. /\ on \in Task /\ off \in Task
        /\ on.op = "mask" /\ "Ack" \notin on.clear \cup on.reset
        /\ off.op = "mask" /\ off.node = n
    <3>1. on \in Task /\ off \in Task
      BY <1>1, MaskTasks, Bits
    <3> QED  BY <3>1 DEF MaskTask
  <2>3. CASE n \in Groups
    <3>1. /\ OnChildren(t) \in Seq(Task)
          /\ \A u \in Tasks(OnChildren(t)) : \E k \in Nodes : u = [t EXCEPT !.node = k]
      BY <1>1, <2>3, ChildTasks
    <3>2. ASSUME NEW u \in Tasks(OnChildren(t))
          PROVE  Released(u)'
      <4>1. PICK k \in Nodes : u = [t EXCEPT !.node = k]
        BY <3>1
      <4>2. u.op = "noAck" /\ u.on = t.on /\ u.top = t.top
        BY <1>1, <4>1 DEF Task
      <4> QED  BY <2>1, <4>2 DEF Released, Clears
    <3>3. Tasks(todo') = Tasks(OnChildren(t)) \cup Tasks(Rest) /\ Tasks(Rest) \subseteq Tasks(todo)
      BY <1>1, <1>2, <1>7, <2>3, <3>1, AddedTasks
    <3> QED  BY <1>2, <1>4, <3>2, <3>3, TimedTurn
  <2>4. CASE n \notin Groups
    <3> DEFINE x == IF t.on THEN on ELSE off
    <3>1. x \in Task /\ todo' = <<x>> \o Rest
      BY <1>7, <2>2, <2>4
    <3>2. Released(x)'
      <4>1. CASE t.on
        BY <2>2, <4>1 DEF Released, Clears
      <4>2. CASE ~t.on
        <5>1. n \in Channels
          BY <1>1, <2>4 DEF Nodes
        <5>2. \A c \in Channels : c \in Subtree(off.node) => noAckUntil'[c] = 0
          BY <2>1, <2>2, <4>2, <5>1, ChannelAlone
        <5> QED  BY <2>2, <4>2, <5>2 DEF Released
      <4> QED  BY <4>1, <4>2
    <3> HIDE DEF x
    <3>3. Tasks(todo') = {x} \cup Tasks(Rest) /\ Tasks(Rest) \subseteq Tasks(todo)
      <4>1. <<x>> \in Seq(Task) /\ Tasks(<<x>>) = {x}
        BY <3>1, FewTasks
      <4> QED  BY <1>1, <1>2, <3>1, <4>1, AddedTasks
    <3> QED  BY <1>2, <1>4, <3>2, <3>3, TimedTurn
  <2> QED  BY <2>3, <2>4
<1> QED  BY <1>3, <1>6, <1>7

LEMMA ArmNoAckTimed ==
  ASSUME IInv, Covered, NoAckCoversSubtree, Timed, ArmNoAck
  PROVE  Timed'
<1> DEFINE n == Head(todo).node
           until == mono + NoAckHour
<1>1. Tasks(todo') = {}
  BY ArmNoAckCovered
<1>2. /\ noAckUntil' = [noAckUntil EXCEPT ![n] = until] /\ UNCHANGED ch
      /\ Running("armNoAck") /\ n \in Nodes
  <2>1. Head(todo) \in Task /\ Head(todo).op = "armNoAck"
    BY HeadTask DEF ArmNoAck, IInv
  <2> QED  BY <2>1, TaskFields DEF ArmNoAck, channelVars
<1>3. n \in Channels => "Ack" \in ch[n].mask
  BY <1>2 DEF NoAckCoversSubtree, Subtree
<1>4. noAckUntil \in [Nodes -> Nat]
  BY DEF IInv, Timers
<1> HIDE DEF n, until
<1>5. \A c \in Channels : noAckUntil'[c] # 0 => "Ack" \in ch'[c].mask
  BY <1>2, <1>3, <1>4 DEF Timed, Nodes
<1> QED  BY <1>1, <1>5 DEF Timed

LEMMA TimedKept ==
  ASSUME RestoreTargets = {}, ForceRequests = {}, TInv, IInv', Covered, NoAckCoversSubtree,
         Timed, NoAckKinds
  PROVE  Timed'
<1>1. IInv /\ Filters /\ Asked /\ noAckUntil \in [Nodes -> Nat]
  BY DEF TInv, IInv, Timers
<1>2. CASE Renews
  <2>1. Tasks(todo') = {} /\ \A n \in Nodes : noAckUntil'[n] = 0
    BY <1>2, FewTasks DEF Renews, NoTimers
  <2> QED  BY <2>1 DEF Timed, Nodes
<1>3. CASE UNCHANGED vars
  BY <1>3 DEF vars, Timed, Released
<1>4. CASE Calm
  <2>1. AckKept /\ TimersStop
        /\ \A t \in Tasks(todo') : t \in Tasks(todo) \/ t.op \notin NoAckOps
    BY <1>4 DEF Calm
  <2> QED  BY <1>1, <2>1, TimedTurn
<1>5. CASE MaskCall
  <2>1. PICK x \in Task :
          /\ Released(x)'
          /\ \A t \in Tasks(todo') : t = x \/ t \in Tasks(todo) \/ t.op \notin NoAckOps
    BY <1>5 DEF MaskCall
  <2>2. AckKept /\ TimersStop
    BY <1>5 DEF MaskCall, AckKept
  <2>3. \A t \in Tasks(todo') : t \in Tasks(todo) \/ t.op \notin NoAckOps \/ Released(t)'
    BY <2>1
  <2> QED  BY <1>1, <2>2, <2>3, TimedTurn
<1>6. ASSUME NEW t \in Timeout, Running("timers"), NoAckExpires(t)
      PROVE  Timed'
  <2>1. PICK x \in Task :
          /\ x.op = "noAck" /\ x.top = t.node
          /\ \A u \in Tasks(todo') : u = x \/ u \in Tasks(todo) \/ u.op \notin NoAckOps
    BY <1>1, <1>6, ExpiryTasks
  <2>2. /\ noAckUntil' = [noAckUntil EXCEPT ![t.node] = 0] /\ UNCHANGED ch /\ t.node \in Nodes
    BY <1>6 DEF NoAckExpires, channelVars, Timeout
  <2>3. AckKept /\ TimersStop /\ noAckUntil'[t.node] = 0
    BY <1>1, <2>2 DEF AckKept, TimersStop
  <2>4. Released(x)'
    BY <2>1, <2>3 DEF Released, Clears
  <2>5. \A u \in Tasks(todo') : u \in Tasks(todo) \/ u.op \notin NoAckOps \/ Released(u)'
    BY <2>1, <2>4
  <2> QED  BY <1>1, <2>3, <2>5, TimedTurn
<1>7. ASSUME NEW n \in Nodes, NEW on \in BOOLEAN, NoAck(n, on)
      PROVE  Timed'
  <2> DEFINE x == [op |-> "noAck", node |-> n, top |-> n, on |-> on]
             a == [op |-> "armNoAck", node |-> n]
  <2>1. /\ noAckUntil' = [noAckUntil EXCEPT ![n] = 0] /\ UNCHANGED ch
        /\ todo' = <<x>> \o (IF on THEN <<a>> ELSE << >>)
    BY <1>7 DEF NoAck, channelVars
  <2>2. AckKept /\ TimersStop /\ noAckUntil'[n] = 0
    BY <1>1, <2>1 DEF AckKept, TimersStop
  <2>3. Released(x)' /\ Released(a)' /\ x \in Task /\ a \in Task
    BY <2>2, NewTasks DEF Released, Clears
  <2> HIDE DEF x, a
  <2>4. /\ <<x>> \in Seq(Task) /\ Tasks(<<x>>) = {x}
        /\ <<a>> \in Seq(Task) /\ Tasks(<<a>>) = {a}
        /\ << >> \in Seq(Task) /\ Tasks(<< >>) = {}
    BY <2>3, FewTasks, NoTasks
  <2>5. /\ Tasks(<<x>> \o <<a>>) = {x} \cup {a}
        /\ Tasks(<<x>> \o << >>) = {x} \cup {}
    BY <2>4, TasksJoined
  <2>6. Tasks(todo') \subseteq {x, a}
    BY <2>1, <2>5
  <2> QED  BY <1>1, <2>2, <2>3, <2>6, TimedTurn
<1> QED  BY <1>1, <1>2, <1>3, <1>4, <1>5, <1>6, <1>7, MaskTimed, VisitNoAckTimed, ArmNoAckTimed
         DEF NoAckKinds

(* A one-hour timer covers what it was started for: its subtree when it    *)
(* starts, and a channel with a timer of its own until that timer ends,    *)
(* also when timers of groups, subgroups and channels overlap.  Force PVs  *)
(* and the restore of Runtime Overrides, which set a mask without ending   *)
(* the timer, are the exceptions (the run restored_noack shows the latter).*)
THEOREM NoAckTimersHold ==
  ASSUME RestoreTargets = {}, ForceRequests = {}
  PROVE  Spec => []NoAckTimersCover
<1>1. Init => Timed
  <2> SUFFICES ASSUME Init  PROVE Timed
    OBVIOUS
  <2>1. Tasks(todo) = {} /\ \A c \in Channels : noAckUntil[c] = 0
    BY FewTasks DEF Init, NoTimers, Nodes
  <2> QED  BY <2>1 DEF Timed
<1>2. /\ TInv /\ Covered /\ NoAckCoversSubtree /\ Timed
      /\ TInv' /\ [Next]_vars
      => Timed'
  BY EveryStepShape, EveryNoAckKind, TimedKept DEF TInv
<1>3. NoAckCoversSubtree /\ Timed => NoAckTimersCover
  BY DEF NoAckTimersCover, TimedIsNoAck, Timed
<1> QED  BY <1>1, <1>2, <1>3, CoverInvariant, NoAckReachesSubtree, PTL DEF Spec

(***************************************************************************)
(* SEVRPV outputs of channels.  What a channel shows at the end of a step  *)
(* is accounted for; the invariant the steps need is that an alarm which   *)
(* is neither disabled nor cancelled is out.                               *)
(***************************************************************************)
Shows(s, value) ==
  Active /\ s.mask \cap {"Cancel", "Disable"} = {} /\ s.severity # 0 => Follows(s, value)

Accounted(s, value, t, new) ==
  /\ Shows(t, new)
  /\ Active => \/ Follows(t, new)
               \/ new = value /\ (Follows(s, value) => "Cancel" \in t.mask)

Outputs == \A c \in Channels : Shows(ch[c], output[c])

OutputStep == \A c \in Channels : Accounted(ch[c], output[c], ch'[c], output'[c])

LEMMA StayAccounted ==
  ASSUME Outputs, UNCHANGED <<ch, output>>
  PROVE  OutputStep
BY DEF Outputs, OutputStep, Accounted

LEMMA ShownAlike ==
  ASSUME NEW s, NEW t, NEW value, Shows(s, value), t.mask \ {"AckT"} = s.mask \ {"AckT"},
         t.severity = s.severity, t.initialized = s.initialized
  PROVE  Accounted(s, value, t, value)
<1>1. /\ "Cancel" \in t.mask <=> "Cancel" \in s.mask
      /\ "Disable" \in t.mask <=> "Disable" \in s.mask
  OBVIOUS
<1>2. Follows(t, value) <=> Follows(s, value)
  BY <1>1 DEF Follows
<1> QED  BY <1>1, <1>2 DEF Shows, Accounted

LEMMA OneShown ==
  ASSUME IInv, Outputs, NEW c \in Channels, NEW s, NEW value,
         Accounted(ch[c], output[c], s, value),
         ch' = [ch EXCEPT ![c] = s], output'[c] = value,
         \A d \in Channels \ {c} : output'[d] = output[d]
  PROVE  OutputStep
<1>1. ch'[c] = s /\ \A d \in Channels \ {c} : ch'[d] = ch[d]
  BY DEF IInv, Core
<1>2. ASSUME NEW d \in Channels
      PROVE  Accounted(ch[d], output[d], ch'[d], output'[d])
  <2>1. CASE d = c
    BY <1>1, <2>1
  <2>2. CASE d # c
    BY <1>1, <2>2 DEF Outputs, Accounted
  <2> QED  BY <2>1, <2>2
<1> QED  BY <1>2 DEF OutputStep

LEMMA CommitShown ==
  ASSUME IInv, Outputs, NEW c \in Channels, NEW s, NEW own, NEW publish,
         Commit(c, s, own, publish),
         Accounted(ch[c], output[c], s, IF own # Untouched THEN own ELSE output[c])
  PROVE  OutputStep
<1>1. \A d \in Channels : d \in Nodes /\ d \notin Groups
  BY TreeTyping DEF Nodes
<1>2. /\ ch' = [ch EXCEPT ![c] = s]
      /\ output' = [n \in Nodes |->
                      IF n \in Groups THEN GroupOutput(c, s, publish)[n]
                      ELSE IF n = c /\ own # Untouched THEN own ELSE output[n]]
  BY DEF Commit
<1>3. \A d \in Channels : output'[d] = IF d = c /\ own # Untouched THEN own ELSE output[d]
  BY <1>1, <1>2
<1> DEFINE value == IF own # Untouched THEN own ELSE output[c]
<1>4. output'[c] = value /\ \A d \in Channels \ {c} : output'[d] = output[d]
  BY <1>3
<1>5. Accounted(ch[c], output[c], s, value)
  OBVIOUS
<1> HIDE DEF value
<1> QED  BY <1>2, <1>4, <1>5, OneShown

LEMMA QuietlyShown ==
  ASSUME IInv, Outputs, NEW c \in Channels, NEW s, NEW publish,
         Commit(c, s, Untouched, publish), s.mask \ {"AckT"} = ch[c].mask \ {"AckT"},
         s.severity = ch[c].severity, s.initialized = ch[c].initialized
  PROVE  OutputStep
<1>1. Accounted(ch[c], output[c], s, output[c])
  BY ShownAlike DEF Outputs
<1> QED  BY <1>1, CommitShown

LEMMA EventShown ==
  ASSUME IInv, Outputs, EventShape
  PROVE  OutputStep
<1>1. CASE UNCHANGED <<ch, output>>
  BY <1>1, StayAccounted
<1>2. ASSUME NEW c \in Channels, NEW s \in ChannelState, NEW e \in Event, NEW seen \in Severity,
             Observes(c, s), Process(c, s, e, seen)
      PROVE  OutputStep
  <2> DEFINE t == Processed(s, e, seen)
             own == IF PutsSeverity(ch[c], t) THEN t.severity ELSE Untouched
  <2>1. Commit(c, t, own, TRUE)
    BY <1>2 DEF Process
  <2>2. t.initialized /\ t.severity = e.severity /\ t.mask \ {"AckT"} = ch[c].mask \ {"AckT"}
    <3> HIDE DEF t
    <3>1. t = Processed(s, e, seen)
      BY DEF t
    <3> QED  BY <1>2, <3>1, ProcessedFields DEF Observes
  <2>3. /\ "Cancel" \in t.mask <=> "Cancel" \in ch[c].mask
        /\ "Disable" \in t.mask <=> "Disable" \in ch[c].mask
    BY <2>2
  <2>4. t.severity # Untouched
    BY <1>2, <2>2 DEF Event, Severity, Error, Untouched
  <2> HIDE DEF t
  <2>5. Shows(ch[c], output[c])
    BY DEF Outputs
  <2> DEFINE value == IF own # Untouched THEN own ELSE output[c]
  <2>6. Accounted(ch[c], output[c], t, value)
    <3>1. CASE "Disable" \in t.mask
      BY <2>3, <2>4, <2>5, <3>1 DEF Shows, Accounted, Follows, PutsSeverity
    <3>2. CASE "Disable" \notin t.mask /\ Active /\ own # Untouched
      BY <2>2, <2>4, <3>2 DEF Shows, Accounted, Follows
    <3>3. CASE "Disable" \notin t.mask /\ own = Untouched
      BY <2>2, <2>3, <2>4, <2>5, <3>3 DEF Shows, Accounted, Follows, PutsSeverity
    <3>4. CASE ~Active
      BY <3>4 DEF Shows, Accounted
    <3> QED  BY <3>1, <3>2, <3>3, <3>4
  <2> HIDE DEF own
  <2> QED  BY <2>1, <2>6, CommitShown
<1>3. ASSUME NEW c \in Channels, NEW s \in ChannelState, Observes(c, s),
             ch' = [ch EXCEPT ![c] = s], UNCHANGED output
      PROVE  OutputStep
  <2>1. Accounted(ch[c], output[c], s, output[c])
    BY <1>3, ShownAlike DEF Observes, Outputs
  <2> QED  BY <1>3, <2>1, OneShown
<1> QED  BY <1>1, <1>2, <1>3 DEF EventShape

LEMMA MaskShown ==
  ASSUME IInv, Outputs, NEW c \in Channels, NEW t \in Task, t.op = "mask",
         NEW acknowledged \in BOOLEAN, NEW refused \in BOOLEAN,
         ApplyMask(c, t, acknowledged, refused)
  PROVE  OutputStep
<1> DEFINE x == ch[c]
           old == x.mask
           asked == NewMask(c, t)
           calm == AfterCancel(x, asked)
           latest == AfterLatch(calm, old, asked)
           m == IF refused THEN (asked \ {"AckT"}) \cup (old \cap {"AckT"}) ELSE asked
           u == IF acknowledged THEN 0 ELSE latest.unack
           i == IF acknowledged THEN 0 ELSE latest.iocUnack
           k == latest.commUnack /\ ~acknowledged
           s == [latest EXCEPT !.mask = m, !.unack = u, !.iocUnack = i, !.commUnack = k]
           own == MaskOutput(latest, old, asked)
           publish == Restored(latest, old, asked)
<1>1. Commit(c, s, own, publish)
  BY DEF ApplyMask
<1>2. x \in ChannelState /\ Shows(x, output[c])
  BY DEF IInv, Core, Outputs
<1>3. asked \in Mask
  <2>1. t.set \in Mask
    BY TaskFields
  <2>2. ch[c].mask \in Mask
    BY <1>2 DEF ChannelState
  <2> QED  BY <2>1, <2>2, NewMaskType
<1>4. /\ "Cancel" \in m <=> "Cancel" \in asked
      /\ "Disable" \in m <=> "Disable" \in asked
  OBVIOUS
<1> HIDE DEF x, asked, m
<1>5. calm \in ChannelState /\ ("Cancel" \notin asked => calm = x)
  BY <1>2, <1>3, CancelEmpties
<1> HIDE DEF calm, u, i, k
<1>6. /\ latest.severity = calm.severity /\ latest.initialized = calm.initialized
      /\ s.severity = calm.severity /\ s.initialized = calm.initialized /\ s.mask = m
  <2> HIDE DEF old
  <2>1. PICK v : latest = [calm EXCEPT !.unack = v]
    BY <1>5, LatchOnly
  <2> HIDE DEF latest
  <2>2. s = [calm EXCEPT !.unack = u, !.mask = m, !.iocUnack = i, !.commUnack = k]
    BY <1>5, <2>1 DEF ChannelState
  <2> HIDE DEF s
  <2> QED  BY <1>5, <2>1, <2>2 DEF ChannelState
<1> HIDE DEF latest, s
<1>7. calm.severity # Untouched /\ -1 # Untouched
  BY <1>5 DEF ChannelState, Severity, Error, Untouched
<1>8. own = IF /\ Active /\ "Cancel" \notin asked
               /\ ("Disable" \in asked) # ("Disable" \in old) \/ publish
            THEN IF "Disable" \in asked THEN -1 ELSE calm.severity
            ELSE Untouched
  BY <1>6 DEF MaskOutput
<1>9. publish <=> /\ old \cap {"Disable", "Cancel"} # {} /\ asked \cap {"Disable", "Cancel"} = {}
                  /\ calm.severity > 0
  BY <1>6 DEF Restored
<1>10. calm.severity # 0 => calm.severity > 0
  BY <1>5 DEF ChannelState, Severity, Error
<1> DEFINE value == IF own # Untouched THEN own ELSE output[c]
<1> HIDE DEF own, publish
<1>11. Accounted(x, output[c], s, value)
  <2>1. CASE "Cancel" \in asked
    <3>1. value = output[c]
      BY <1>8, <2>1
    <3>2. "Cancel" \in s.mask
      BY <1>4, <1>6, <2>1
    <3> QED  BY <3>1, <3>2 DEF Accounted, Shows
  <2>2. CASE ~Active
    BY <2>2 DEF Accounted, Shows
  <2>3. CASE own # Untouched
    <3>1. Follows(s, value)
      BY <1>4, <1>6, <1>8, <2>3 DEF Follows
    <3> QED  BY <3>1 DEF Accounted, Shows
  <2>4. CASE own = Untouched /\ Active /\ "Cancel" \notin asked
    <3>1. ("Disable" \in asked <=> "Disable" \in old) /\ ~publish /\ value = output[c]
      BY <1>7, <1>8, <2>4
    <3>2. Follows(s, value) <=> Follows(x, output[c])
      BY <1>4, <1>5, <1>6, <2>4, <3>1 DEF Follows
    <3>3. ASSUME s.mask \cap {"Cancel", "Disable"} = {}, s.severity # 0
          PROVE  Follows(s, value)
      <4>1. asked \cap {"Cancel", "Disable"} = {}
        BY <1>4, <1>6, <3>3
      <4>2. old \cap {"Disable", "Cancel"} = {} /\ x.severity # 0
        BY <1>5, <1>6, <1>9, <1>10, <2>4, <3>1, <3>3, <4>1
      <4> QED  BY <1>2, <2>4, <3>2, <4>2 DEF Shows
    <3> QED  BY <3>1, <3>2, <3>3 DEF Accounted, Shows
  <2> QED  BY <2>1, <2>2, <2>3, <2>4
<1> HIDE DEF value
<1>12. Accounted(ch[c], output[c], s, IF own # Untouched THEN own ELSE output[c])
  BY <1>11 DEF value, x
<1> QED  BY <1>1, <1>12, CommitShown

LEMMA RetryShown ==
  ASSUME IInv, Outputs, RetryForce
  PROVE  OutputStep
<1>1. CASE UNCHANGED channelVars
  BY <1>1, StayAccounted DEF channelVars
<1>2. ASSUME NEW p \in pendingForce,
             Commit(p.channel,
                    [ch[p.channel] EXCEPT
                       !.mask = (@ \ {"AckT"}) \cup (IF p.mask THEN {"AckT"} ELSE {})],
                    Untouched, FALSE)
      PROVE  OutputStep
  <2> DEFINE c == p.channel
             m == (ch[c].mask \ {"AckT"}) \cup (IF p.mask THEN {"AckT"} ELSE {})
             s == [ch[c] EXCEPT !.mask = m]
  <2>1. c \in Channels
    BY <1>2 DEF IInv, Requests, PendingForce
  <2>2. Commit(c, s, Untouched, FALSE)
    BY <1>2
  <2> HIDE DEF c
  <2>3. m \ {"AckT"} = ch[c].mask \ {"AckT"}
    OBVIOUS
  <2> HIDE DEF m
  <2>4. /\ s.mask \ {"AckT"} = ch[c].mask \ {"AckT"}
        /\ s.severity = ch[c].severity /\ s.initialized = ch[c].initialized
    BY <2>1, <2>3 DEF IInv, Core, ChannelState
  <2> HIDE DEF s
  <2> QED  BY <2>1, <2>2, <2>4, QuietlyShown
<1> QED  BY <1>1, <1>2 DEF RetryForce

LEMMA AcknowledgeShown ==
  ASSUME IInv, Outputs, VisitAcknowledge
  PROVE  OutputStep
<1> DEFINE c == Head(todo).node
<1>1. CASE UNCHANGED channelVars
  BY <1>1, StayAccounted DEF channelVars
<1>2. ASSUME c \in Channels, AcknowledgeLocally(c)
      PROVE  OutputStep
  <2> DEFINE s == [ch[c] EXCEPT !.unack = 0]
  <2>1. Commit(c, s, Untouched, FALSE)
    BY <1>2 DEF AcknowledgeLocally
  <2> HIDE DEF c
  <2>2. s.mask = ch[c].mask /\ s.severity = ch[c].severity /\ s.initialized = ch[c].initialized
    BY <1>2 DEF IInv, Core, ChannelState
  <2> HIDE DEF s
  <2> QED  BY <1>2, <2>1, <2>2, QuietlyShown
<1>3. ASSUME c \in Channels, AcknowledgeGlobally(c)
      PROVE  OutputStep
  <2> DEFINE u == IF ch[c].commUnack THEN ch[c].iocUnack ELSE ch[c].unack
             s == [ch[c] EXCEPT !.commUnack = FALSE, !.unack = u]
  <2>1. Commit(c, s, Untouched, FALSE)
    <3>1. s = [ch[c] EXCEPT !.commUnack = FALSE,
                            !.unack = IF ch[c].commUnack THEN ch[c].iocUnack ELSE @]
      BY <1>3 DEF IInv, Core, ChannelState
    <3> HIDE DEF s
    <3> QED  BY <1>3, <3>1 DEF AcknowledgeGlobally
  <2> HIDE DEF c, u
  <2>2. s.mask = ch[c].mask /\ s.severity = ch[c].severity /\ s.initialized = ch[c].initialized
    BY <1>3 DEF IInv, Core, ChannelState
  <2> HIDE DEF s
  <2> QED  BY <1>3, <2>1, <2>2, QuietlyShown
<1> QED  BY <1>1, <1>2, <1>3 DEF VisitAcknowledge

LEMMA ShelfShown ==
  ASSUME IInv, Outputs, NEW c \in Channels, NEW until, CommitShelf(c, until)
  PROVE  OutputStep
<1> DEFINE s == [ch[c] EXCEPT !.shelf = until]
<1>1. ch' = [ch EXCEPT ![c] = s] /\ UNCHANGED output
  BY DEF CommitShelf
<1>2. s.mask = ch[c].mask /\ s.severity = ch[c].severity /\ s.initialized = ch[c].initialized
  BY DEF IInv, Core, ChannelState
<1> HIDE DEF s
<1>3. Accounted(ch[c], output[c], s, output[c])
  BY <1>2, ShownAlike DEF Outputs
<1> QED  BY <1>1, <1>3, OneShown

LEMMA ShelvesShown ==
  ASSUME IInv, Outputs, VisitShelve \/ VisitUnshelve \/ ExpireShelves
  PROVE  OutputStep
<1>1. CASE UNCHANGED channelVars
  BY <1>1, StayAccounted DEF channelVars
<1>2. CASE VisitShelve \/ VisitUnshelve
  BY <1>1, <1>2, ShelfShown DEF VisitShelve, VisitUnshelve
<1>3. CASE ExpireShelves
  <2> DEFINE c == CHOOSE x \in EndedShelves : \A d \in EndedShelves : Order[x] <= Order[d]
  <2>1. CASE EndedShelves # {} /\ CommitShelf(c, 0)
    <3>1. c \in Channels
      BY <2>1, FirstEnded
    <3> HIDE DEF c
    <3> QED  BY <2>1, <3>1, ShelfShown
  <2> HIDE DEF c
  <2> QED  BY <1>1, <1>3, <2>1 DEF ExpireShelves, c
<1> QED  BY <1>2, <1>3

LEMMA StartShown ==
  ASSUME NEW before, NEW states, NEW values, values = StartOutput(before), Active,
         \A c \in Channels : ~states[c].initialized /\ states[c].mask = Configured[c]
  PROVE  \A c \in Channels : Follows(states[c], values[c])
<1> SUFFICES ASSUME NEW c \in Channels
             PROVE  Follows(states[c], values[c])
  OBVIOUS
<1>1. "Disable" \in Configured[c] => values[c] = -1
  BY DEF StartOutput, Nodes
<1> QED  BY <1>1 DEF Follows

LEMMA ReloadShown ==
  ASSUME Reload
  PROVE  OutputStep
<1>1. PICK tracked \in SUBSET Channels : ch' = [c \in Channels |-> RestoredChannel(c, tracked)]
  BY DEF Reload
<1>2. \A c \in Channels : ~ch'[c].initialized /\ ch'[c].mask = Configured[c]
  BY <1>1 DEF RestoredChannel, FreshChannel
<1>3. output' = StartOutput(output)
  BY DEF Reload
<1>4. Active => \A c \in Channels : Follows(ch'[c], output'[c])
  BY <1>2, <1>3, StartShown
<1> QED  BY <1>4 DEF OutputStep, Accounted, Shows

LEMMA StillShown ==
  ASSUME Outputs,
         \/ ScanDeadlines \/ EndSilenceCurrent \/ VisitNoAck \/ ArmNoAck
         \/ Tick \/ TimePasses \/ SetClock \/ UNCHANGED vars
  PROVE  OutputStep
<1>1. UNCHANGED <<ch, output>>
  BY DEF ScanDeadlines, EndSilenceCurrent, VisitNoAck, ArmNoAck, Tick, TimePasses, SetClock,
         vars, channelVars
<1> QED  BY <1>1, StayAccounted

LEMMA CallShown ==
  ASSUME Outputs, Call
  PROVE  OutputStep
<1>1. CASE Reload
  BY <1>1, ReloadShown
<1>2. CASE UNCHANGED <<ch, output>>
  BY <1>2, StayAccounted
<1> QED  BY <1>1, <1>2
         DEF Call, MonitorEvent, SetMask, ResetMask, ModifyMask, OperatorMask, RestoreMask,
             ForceMask, DiscardForce, NoAck, Acknowledge, Shelve, Unshelve, SetBeep, SetSilence,
             channelVars

LEMMA OutputsKept ==
  ASSUME IInv, Outputs, [Next]_vars
  PROVE  OutputStep
<1>1. CASE ApplyMasks
  <2> DEFINE t == Head(todo)
             n == t.node
  <2>1. t \in Task /\ t.op = "mask"
    BY <1>1, HeadTask DEF ApplyMasks, IInv
  <2>2. CASE UNCHANGED channelVars
    BY <2>2, StayAccounted DEF channelVars
  <2>3. ASSUME n \in Channels, NEW acknowledged \in BOOLEAN, NEW refused \in BOOLEAN,
               ApplyMask(n, t, acknowledged, refused)
        PROVE  OutputStep
    <3> HIDE DEF t
    <3> QED  BY <2>1, <2>3, MaskShown
  <2> QED  BY <1>1, <2>2, <2>3 DEF ApplyMasks
<1>2. CASE Step
  BY <1>1, <1>2, EventShapeHolds, EventShown, RetryShown, AcknowledgeShown, ShelvesShown,
     StillShown
     DEF Step
<1>3. CASE Call
  BY <1>3, CallShown
<1>4. CASE Tick \/ TimePasses \/ SetClock \/ UNCHANGED vars
  BY <1>4, StillShown
<1> QED  BY <1>2, <1>3, <1>4 DEF Next

(* In global active mode an alarm that is neither disabled nor cancelled   *)
(* is out on its SEVRPV, every write leaves the value right, and only a    *)
(* step that leaves the channel cancelled leaves a value behind that was   *)
(* right: for every configuration, however events, filters, masks with     *)
(* Cancel, reloads and IOCs that refuse a write interleave.                *)
THEOREM OutputsFollow ==
  Spec => OutputsAccount
<1>1. Init => Outputs
  <2> SUFFICES ASSUME Init  PROVE Outputs
    OBVIOUS
  <2>1. \A c \in Channels : ~ch[c].initialized /\ ch[c].mask = Configured[c]
    BY DEF Init, FreshChannel
  <2>2. output = StartOutput([n \in Nodes |-> Untouched])
    BY DEF Init
  <2>3. Active => \A c \in Channels : Follows(ch[c], output[c])
    BY <2>1, <2>2, StartShown
  <2> QED  BY <2>3 DEF Outputs, Shows
<1>2. TInv /\ Outputs /\ [Next]_vars => Outputs' /\ OutputStep
  <2> SUFFICES ASSUME TInv, Outputs, [Next]_vars  PROVE Outputs' /\ OutputStep
    OBVIOUS
  <2>1. OutputStep
    BY OutputsKept DEF TInv
  <2> QED  BY <2>1 DEF OutputStep, Accounted, Outputs
<1>3. OutputStep =>
        (Active => \A c \in Channels :
           /\ ch'[c].mask \cap {"Cancel", "Disable"} = {} /\ ch'[c].severity # 0
              => Follows(ch'[c], output'[c])
           /\ \/ Follows(ch'[c], output'[c])
              \/ /\ output'[c] = output[c]
                 /\ Follows(ch[c], output[c]) => "Cancel" \in ch'[c].mask)
  BY DEF OutputStep, Accounted, Shows
<1> QED  BY <1>1, <1>2, <1>3, TimerInvariant, PTL DEF Spec, OutputsAccount
=============================================================================
