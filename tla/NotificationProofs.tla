-------------------------- MODULE NotificationProofs --------------------------
(***************************************************************************)
(* Proofs about the notification service: what the pump queues, the        *)
(* limits, the invariant of the service, and its properties as theorems of *)
(* its specification.                                                      *)
(*                                                                         *)
(* The invariant is Inv. Every step of the service submits at most one     *)
(* letter, so that the action properties follow from the invariant and     *)
(* from what is known of a letter that was just taken from the queue.      *)
(***************************************************************************)
EXTENDS NotificationPolicyProofs

-----------------------------------------------------------------------------
(***************************************************************************)
(* The pump queues what is due.                                            *)
(***************************************************************************)

(* Alarms one by one in parts of m.                                        *)
LEMMA PartsFacts ==
  ASSUME NEW n \in Nat, NEW m \in Nat \ {0}, NEW room \in Nat, n <= room * m,
         NEW parts, parts = (n + m - 1) \div m
  PROVE  /\ parts \in Nat /\ parts <= room /\ (n = 0 => parts = 0)
         /\ \A k \in 1..n : (k - 1) \div m + 1 \in 1..parts
<1>1. n + m - 1 \in Nat
  OBVIOUS
<1>2. parts \in Nat /\ m * parts <= n + m - 1 /\ n + m - 1 < m * parts + m
  <2>1. \A a \in Nat : a \div m \in Nat /\ m * (a \div m) <= a /\ a < m * (a \div m) + m
    BY SMT
  <2> QED BY <1>1, <2>1
<1>3. parts <= room
  <2> SUFFICES ASSUME room < parts PROVE FALSE
    BY <1>2
  <2>1. m * room + m <= m * parts
    BY <1>2, SMT
  <2>2. m * room = room * m /\ room * m \in Nat /\ m * parts \in Nat
    BY <1>2, SMT
  <2> QED BY ONLY <1>1, <1>2, <2>1, <2>2, n \in Nat, m \in Nat \ {0}, n <= room * m
<1>4. n = 0 => parts = 0
  <2> SUFFICES ASSUME n = 0, parts > 0 PROVE FALSE
    BY <1>2
  <2>1. m <= m * parts
    BY <1>2, SMT
  <2> QED BY <1>2, <2>1
<1>5. ASSUME NEW k \in 1..n PROVE (k - 1) \div m + 1 \in 1..parts
  <2> DEFINE d == (k - 1) \div m
  <2>1. d \in Nat /\ m * d <= k - 1
    <3>1. k - 1 \in Nat
      OBVIOUS
    <3> QED BY <3>1, SMT
  <2> HIDE DEF d
  <2>2. ASSUME parts < d + 1 PROVE FALSE
    <3>1. parts <= d
      BY <1>2, <2>1, <2>2
    <3>2. m * parts <= m * d /\ m * parts \in Nat /\ m * d \in Nat
      BY <1>2, <2>1, <3>1, SMT
    <3> QED BY <1>2, <2>1, <3>2
  <2>3. d + 1 \in 1..parts
    BY <1>2, <2>1, <2>2
  <2> QED BY <2>3 DEF d
<1> QED BY <1>2, <1>3, <1>4, <1>5

(* A new letter is about the episodes it was made of.                      *)
LEMMA EnvelopeFacts ==
  ASSUME NEW p \in Policies, NEW key \in Key, NEW ids \in SUBSET DOMAIN p.episodes,
         NEW f, f = EnvelopeOf(p, key, ids)
  PROVE  /\ f \in Letters /\ f.rule = key[1] /\ f.stage = key[2] /\ f.destination = key[3]
         /\ f.attempts = 0 /\ ~f.test
         /\ \A a \in f.alarms : a.episode \in ids /\ a.channel = p.episodes[a.episode].channel
         /\ \A id, s : Announces(f, id, s) <=> id \in ids /\ s = <<key[2], key[3]>>
<1> DEFINE A == {[episode |-> id, channel |-> p.episodes[id].channel, state |-> p.episodes[id].state] : id \in ids}
<1>1. f = [rule |-> key[1], stage |-> key[2], destination |-> key[3], alarms |-> A,
           attempts |-> 0, ready |-> 0, test |-> FALSE]
  BY DEF EnvelopeOf
<1>2. A \in SUBSET Alarms
  <2>1. \A id \in ids : id \in Nat /\ p.episodes[id].channel \in Channels /\ p.episodes[id].state \in Update
    BY EpisodeFacts DEF EpisodeRecord
  <2> QED BY <2>1 DEF Alarms
<1>3. /\ \A a \in A : a.episode \in ids /\ a.channel = p.episodes[a.episode].channel
      /\ \A id \in ids : \E a \in A : a.episode = id
  <2>1. \A a \in A : a.episode \in ids /\ a.channel = p.episodes[a.episode].channel
    OBVIOUS
  <2>2. ASSUME NEW id \in ids PROVE \E a \in A : a.episode = id
    <3> DEFINE a == [episode |-> id, channel |-> p.episodes[id].channel, state |-> p.episodes[id].state]
    <3>1. a \in A /\ a.episode = id
      OBVIOUS
    <3> HIDE DEF a, A
    <3> QED BY <3>1
  <2> QED BY <2>1, <2>2
<1> HIDE DEF A
<1>4. key[1] \in RuleIds /\ key[2] \in StageIds \cup {Resolution} /\ key[3] \in DestinationIds
  BY DEF Key
<1>5. f \in Letters
  BY <1>1, <1>2, <1>4 DEF Letters
<1>6. \A id, s : Announces(f, id, s) <=> id \in ids /\ s = <<key[2], key[3]>>
  BY <1>1, <1>3 DEF Announces
<1>7. /\ f.rule = key[1] /\ f.stage = key[2] /\ f.destination = key[3] /\ f.alarms = A
      /\ f.attempts = 0 /\ ~f.test
  BY <1>1
<1> QED BY <1>3, <1>5, <1>6, <1>7

(* The alarms of a group in parts, each in a new letter.                   *)
Splits(p, q, key, alarms, limit, n, slots) ==
  /\ Keeps(p, q) /\ q.cooldown = p.cooldown /\ DOMAIN q.episodes = DOMAIN p.episodes
  /\ n \in Nat /\ slots \in [1..n -> SUBSET DOMAIN p.episodes] /\ Len(q.queue) = Len(p.queue) + n
  /\ \A k \in DOMAIN p.queue : q.queue[k] = p.queue[k]
  /\ \A k \in 1..n : /\ q.queue[Len(p.queue) + k] = EnvelopeOf(p, key, slots[k])
                     /\ \A id \in slots[k] : \E j \in DOMAIN alarms : alarms[j] = id
  /\ \A k, l \in 1..n : \A id : id \in slots[k] /\ id \in slots[l] => k = l
  /\ \A id \in DOMAIN q.episodes :
       /\ q.episodes[id].accepted = p.episodes[id].accepted
       /\ \A s : s \in MarkedTokens(q.episodes[id]) <=>
            \/ s \in MarkedTokens(p.episodes[id])
            \/ (s = <<key[2], key[3]>> /\ \E k \in 1..n : id \in slots[k])
  /\ n = 0 \/ Len(p.queue) + n <= limit

(* enqueue: by induction over the places of the group.                     *)
LEMMA EnqueuedSplits ==
  ASSUME NEW p, Sound(p), p.enabled, NEW key \in Key, NEW limit \in Int,
         NEW alarms \in Seq(DOMAIN p.episodes), \A i, j \in DOMAIN alarms : alarms[i] = alarms[j] => i = j,
         NEW q, q = Enqueued(p, key, alarms, limit)
  PROVE  \E n, slots : Splits(p, q, key, alarms, limit, n, slots)
<1> DEFINE size  == Len(p.queue)
           room  == IF limit > size THEN limit - size ELSE 0
           fit   == IF limit > size THEN (limit - size) * MaxAlarms ELSE 0
           count == IF fit < Len(alarms) THEN fit ELSE Len(alarms)
           taken == SubSeq(alarms, 1, count)
           parts == (Len(taken) + MaxAlarms - 1) \div MaxAlarms
           part(i) == {taken[j] : j \in {k \in 1..Len(taken) : (k - 1) \div MaxAlarms = i - 1}}
           more  == [i \in 1..parts |-> EnvelopeOf(p, key, part(i))]
           slots == [i \in 1..parts |-> part(i)]
           one(id) == IF id \in ToSet(taken) THEN Marked(p.episodes[id], key) ELSE p.episodes[id]
           f     == [id \in DOMAIN p.episodes |-> one(id)]
           Q     == p.queue \o more
           b     == p.throttled \/ Len(taken) < Len(alarms)
           m     == [p EXCEPT !.episodes = f, !.throttled = b]
<1>0. p \in Policies /\ p.queue \in Seq(Letters) /\ size \in Nat /\ MaxAlarms \in Nat \ {0} /\ Len(alarms) \in Nat
  BY PolicyFacts, PolicyAssumption DEF Sound
<1>1. q = [p EXCEPT !.queue = Q, !.episodes = f, !.throttled = b]
  BY Zenon DEF Enqueued
<1>2. room \in Nat /\ fit = room * MaxAlarms /\ fit \in Nat
  <2>1. CASE limit > size
    <3>1. limit - size \in Nat
      BY <1>0, <2>1
    <3>2. (limit - size) * MaxAlarms \in Nat
      BY <1>0, <3>1, SMT
    <3> QED BY <2>1, <3>1, <3>2
  <2>2. CASE ~(limit > size)
    <3>1. room = 0 /\ fit = 0
      BY <2>2
    <3> QED BY <1>0, <3>1
  <2> QED BY <2>1, <2>2
<1>3. count \in 0..Len(alarms) /\ count <= room * MaxAlarms
  <2> HIDE DEF room, fit
  <2> QED BY <1>0, <1>2
<1> HIDE DEF fit, count
<1>4. /\ Len(taken) = count /\ DOMAIN taken = 1..count /\ taken \in Seq(DOMAIN p.episodes)
      /\ \A j \in 1..count : taken[j] = alarms[j] /\ j \in DOMAIN alarms /\ taken[j] \in DOMAIN p.episodes
  <2>1. \A j \in 1..count : j \in DOMAIN alarms /\ alarms[j] \in DOMAIN p.episodes
    BY <1>0, <1>3
  <2>2. 1..count \subseteq 1..Len(alarms)
    BY <1>0, <1>3
  <2>3. /\ taken \in Seq(DOMAIN p.episodes) /\ Len(taken) = count
        /\ \A j \in 1..count : taken[j] = alarms[j]
    <3>1. \A j \in 1..count : alarms[j] \in DOMAIN p.episodes
      BY <2>1
    <3>2. count \in Nat /\ count \in Int /\ 1 \in Int
      BY <1>0, <1>3
    <3>3. /\ taken \in Seq(DOMAIN p.episodes) /\ Len(taken) = IF 1 <= count THEN count - 1 + 1 ELSE 0
          /\ \A j \in 1..(count - 1 + 1) : taken[j] = alarms[1 + j - 1]
      <4> DEFINE S == DOMAIN p.episodes
      <4>1. \A j \in 1..count : alarms[j] \in S
        BY <3>1
      <4> HIDE DEF S
      <4>2. /\ SubSeq(alarms, 1, count) \in Seq(S)
            /\ Len(SubSeq(alarms, 1, count)) = IF 1 <= count THEN count - 1 + 1 ELSE 0
            /\ \A j \in 1..(count - 1 + 1) : SubSeq(alarms, 1, count)[j] = alarms[1 + j - 1]
        BY ONLY <3>2, <4>1, SubSeqProperties
      <4> QED BY <4>2 DEF S, taken
    <3>4. Len(taken) = count /\ count - 1 + 1 = count /\ \A j \in 1..count : 1 + j - 1 = j
      BY <3>2, <3>3
    <3> HIDE DEF taken
    <3> QED BY <3>3, <3>4
  <2> HIDE DEF taken
  <2>4. DOMAIN taken = 1..count
    BY <2>3
  <2> QED BY <2>1, <2>3, <2>4
<1> HIDE DEF taken
<1>5. /\ parts \in Nat /\ parts <= room /\ (count = 0 => parts = 0)
      /\ \A j \in 1..count : (j - 1) \div MaxAlarms + 1 \in 1..parts
  <2>1. parts = (count + MaxAlarms - 1) \div MaxAlarms
    BY <1>4
  <2>2. count \in Nat
    BY <1>0, <1>3
  <2>3. MaxAlarms \in Nat \ {0} /\ room \in Nat /\ count <= room * MaxAlarms
    BY <1>0, <1>2, <1>3
  <2> HIDE DEF parts, room
  <2> QED BY ONLY <2>1, <2>2, <2>3, PartsFacts
<1>6. parts = 0 \/ size + parts <= limit
  <2>1. CASE limit > size
    <3> HIDE DEF parts
    <3> QED BY <1>0, <1>5, <2>1
  <2>2. CASE ~(limit > size)
    <3>1. room = 0
      BY <2>2
    <3> HIDE DEF parts, room
    <3> QED BY <1>5, <3>1
  <2> QED BY <2>1, <2>2
<1> HIDE DEF parts, room
<1>7. \A i \in 1..parts : \A id : id \in part(i) <=> \E j \in 1..count : taken[j] = id /\ (j - 1) \div MaxAlarms = i - 1
  BY <1>4
<1> HIDE DEF part
<1>8. \A i \in 1..parts : part(i) \in SUBSET DOMAIN p.episodes
  BY <1>4, <1>7
<1>9. /\ slots \in [1..parts -> SUBSET DOMAIN p.episodes] /\ \A i \in 1..parts : slots[i] = part(i)
  BY <1>8
<1>10. \A k, l \in 1..parts : \A id : id \in slots[k] /\ id \in slots[l] => k = l
  <2> TAKE k, l \in 1..parts
  <2> TAKE id
  <2> HAVE id \in slots[k] /\ id \in slots[l]
  <2>1. PICK i \in 1..count : taken[i] = id /\ (i - 1) \div MaxAlarms = k - 1
    BY <1>7, <1>9
  <2>2. PICK j \in 1..count : taken[j] = id /\ (j - 1) \div MaxAlarms = l - 1
    BY <1>7, <1>9
  <2>3. i = j
    BY <1>4, <2>1, <2>2
  <2>4. k - 1 = l - 1
    BY <2>1, <2>2, <2>3
  <2> QED BY <1>5, <2>4
<1>11. \A id : id \in ToSet(taken) <=> \E k \in 1..parts : id \in slots[k]
  <2> TAKE id
  <2>1. id \in ToSet(taken) <=> \E j \in 1..count : taken[j] = id
    BY <1>4 DEF ToSet
  <2>2. ASSUME NEW j \in 1..count, taken[j] = id PROVE \E k \in 1..parts : id \in slots[k]
    <3> DEFINE k == (j - 1) \div MaxAlarms + 1
    <3>1. k \in 1..parts
      BY <1>5
    <3>2. (j - 1) \div MaxAlarms = k - 1
      <4>1. j - 1 \in Nat
        BY <1>0, <1>3
      <4>2. (j - 1) \div MaxAlarms \in Nat
        BY <1>0, <4>1, SMT
      <4> QED BY <4>2
    <3> HIDE DEF k
    <3>3. id \in slots[k]
      BY <1>7, <1>9, <2>2, <3>1, <3>2
    <3> QED BY <3>1, <3>3
  <2>3. (\E k \in 1..parts : id \in slots[k]) => \E j \in 1..count : taken[j] = id
    BY <1>7, <1>9
  <2> QED BY <2>1, <2>2, <2>3
<1>12. \A k \in 1..parts : \A id \in slots[k] : \E j \in DOMAIN alarms : alarms[j] = id
  BY <1>4, <1>7, <1>9
<1> HIDE DEF slots
<1>13. \A i \in 1..parts : EnvelopeOf(p, key, part(i)) \in Letters
  BY <1>0, <1>8, EnvelopeFacts
<1>14. more \in Seq(Letters) /\ Len(more) = parts
       /\ \A i \in 1..parts : more[i] = EnvelopeOf(p, key, slots[i])
  <2>1. more \in [1..parts -> Letters]
    BY <1>13
  <2>2. \A i \in 1..parts : more[i] = EnvelopeOf(p, key, slots[i])
    BY <1>9
  <2> HIDE DEF more
  <2> QED BY <1>5, <2>1, <2>2
<1> HIDE DEF more
<1>15. /\ Q \in Seq(Letters) /\ Len(Q) = size + parts
       /\ \A k \in 1..size : Q[k] = p.queue[k]
       /\ \A k \in 1..parts : Q[size + k] = EnvelopeOf(p, key, slots[k])
  <2>1. /\ Q \in Seq(Letters) /\ Len(Q) = size + parts
        /\ \A i \in 1..(size + parts) : Q[i] = IF i <= size THEN p.queue[i] ELSE more[i - size]
    <3>1. p.queue \in Seq(Letters) /\ more \in Seq(Letters) /\ Len(more) = parts
      BY <1>0, <1>14
    <3>2. /\ p.queue \o more \in Seq(Letters) /\ Len(p.queue \o more) = Len(p.queue) + Len(more)
          /\ \A i \in 1..(Len(p.queue) + Len(more)) :
               (p.queue \o more)[i] = IF i <= Len(p.queue) THEN p.queue[i] ELSE more[i - Len(p.queue)]
      BY ONLY <3>1, ConcatProperties
    <3> QED BY <3>1, <3>2
  <2> HIDE DEF Q
  <2>2. \A k \in 1..size : k \in 1..(size + parts) /\ k <= size
    BY <1>0, <1>5
  <2>3. \A k \in 1..parts : size + k \in 1..(size + parts) /\ ~(size + k <= size) /\ (size + k) - size = k
    BY <1>0, <1>5
  <2>4. \A k \in 1..size : Q[k] = p.queue[k]
    BY <2>1, <2>2
  <2>5. ASSUME NEW k \in 1..parts PROVE Q[size + k] = EnvelopeOf(p, key, slots[k])
    <3>1. Q[size + k] = more[(size + k) - size]
      BY <2>1, <2>3
    <3> QED BY <1>14, <2>3, <3>1
  <2> QED BY <2>1, <2>4, <2>5
<1> HIDE DEF Q
<1>16. \A id \in DOMAIN p.episodes :
         LET e == p.episodes[id]
         IN  /\ SameLife(e, one(id)) /\ one(id).accepted = e.accepted
             /\ MarkedTokens(one(id)) = IF id \in ToSet(taken) THEN MarkedTokens(e) \cup {<<key[2], key[3]>>}
                                        ELSE MarkedTokens(e)
  <2> TAKE id \in DOMAIN p.episodes
  <2>1. p.episodes[id] \in EpisodeRecord
    BY <1>0, EpisodeFacts
  <2>2. one(id) = IF id \in ToSet(taken) THEN Marked(p.episodes[id], key) ELSE p.episodes[id]
    OBVIOUS
  <2> HIDE DEF one
  <2>3. CASE id \in ToSet(taken)
    <3>1. one(id) = Marked(p.episodes[id], key)
      BY <2>2, <2>3
    <3> QED BY <2>1, <2>3, <3>1, MarkedFacts
  <2>4. CASE id \notin ToSet(taken)
    BY <2>1, <2>2, <2>4, SameLifeSelf
  <2> QED BY <2>3, <2>4
<1> HIDE DEF one
<1>17. DOMAIN f = DOMAIN p.episodes /\ f = [id \in DOMAIN p.episodes |-> f[id]]
       /\ \A id \in DOMAIN p.episodes : f[id] = one(id)
  OBVIOUS
<1> HIDE DEF f
<1>18. b \in BOOLEAN
  BY <1>0 DEF Policies
<1> HIDE DEF b
<1>19. Rewrites(p, m, f)
  <2> HIDE DEF m
  <2>1. \A id \in DOMAIN p.episodes : SameLife(p.episodes[id], f[id])
    BY <1>16, <1>17
  <2> QED BY <1>17, <1>18, <2>1, RewrittenKeeps DEF m
<1>20. q = [m EXCEPT !.queue = Q]
  BY <1>0, <1>1 DEF Policies
<1> HIDE DEF m
<1>21. Sound(m) /\ m.enabled /\ m.episodes = f /\ Keeps(p, m) /\ m.cooldown = p.cooldown
  <2>1. Keeps(p, m) /\ m.episodes = f /\ m.cooldown = p.cooldown
    BY <1>19 DEF Rewrites, SameMail
  <2> QED BY <2>1, KeepsSound DEF KeepsSoundOp, Keeps, SameRules
<1>22. Requeues(m, q, Q)
  BY <1>15, <1>20, <1>21, RequeuedKeeps
<1>23. Keeps(p, q) /\ q.queue = Q /\ q.cooldown = p.cooldown /\ q.episodes = f
  BY <1>21, <1>22, KeepsTrans DEF Requeues
<1>24. Splits(p, q, key, alarms, limit, parts, slots)
  <2>1. DOMAIN p.queue = 1..size
    BY <1>0
  <2>2. \A id \in DOMAIN q.episodes :
       /\ q.episodes[id].accepted = p.episodes[id].accepted
       /\ \A s : s \in MarkedTokens(q.episodes[id]) <=>
            \/ s \in MarkedTokens(p.episodes[id])
            \/ (s = <<key[2], key[3]>> /\ \E k \in 1..parts : id \in slots[k])
    <3> TAKE id \in DOMAIN q.episodes
    <3>1. id \in DOMAIN p.episodes /\ q.episodes[id] = one(id)
      BY <1>17, <1>23
    <3> QED BY <1>11, <1>16, <3>1
  <2> HIDE DEF size
  <2>3. Len(q.queue) = size + parts /\ \A k \in DOMAIN p.queue : q.queue[k] = p.queue[k]
    BY <1>15, <1>23, <2>1
  <2>4. \A k \in 1..parts : q.queue[size + k] = EnvelopeOf(p, key, slots[k])
    BY <1>15, <1>23
  <2> QED BY <1>5, <1>6, <1>9, <1>10, <1>12, <1>17, <1>23, <2>2, <2>3, <2>4 DEF Splits, size
<1> QED BY <1>24

(* The letters and what the episodes note of them agree.                   *)
Posted(p, D, t) == Mailed(p, D) /\ Balanced(p, D) /\ Spaced(p, t)

(* The mail does not change.                                               *)
LEMMA UntouchedPosted ==
  ASSUME NEW p \in Policies, NEW q, Keeps(p, q), SameMail(p, q), NEW D, NEW t, Posted(p, D, t),
         \A id \in DOMAIN q.episodes : MarkedTokens(q.episodes[id]) = MarkedTokens(p.episodes[id])
  PROVE  Posted(q, D, t)
<1>0. q \in Policies /\ Ages(p, q) /\ q.queue = p.queue /\ q.cooldown = p.cooldown
      /\ DOMAIN q.episodes \subseteq DOMAIN p.episodes
      /\ \A id \in DOMAIN q.episodes : q.episodes[id].active = p.episodes[id].active
  BY KeepsAges DEF Keeps, SameLife, SameMail
<1>1. Mailed(q, D)
  BY <1>0, AgesAddressed DEF Mailed, Posted
<1>2. Balanced(q, D)
  <2>1. Carriers(q, D) = Carriers(p, D) /\ \A x : LetterAt(q, D, x) = LetterAt(p, D, x)
    BY <1>0 DEF Carriers, LetterAt
  <2> QED BY <1>0, <2>1 DEF Balanced, Posted
<1>3. Spaced(q, t)
  BY <1>0 DEF Spaced, Posted
<1> QED BY <1>1, <1>2, <1>3 DEF Posted

(* Due alarms of one group.                                                *)
DueAlarms(p, key, alarms, t) ==
  \A j \in DOMAIN alarms :
    LET id == alarms[j]
    IN  /\ id \in DOMAIN p.episodes /\ p.episodes[id].rule = key[1]
        /\ <<key[2], key[3]>> \notin MarkedTokens(p.episodes[id])
        /\ key[2] # Resolution => p.cooldown[<<key[1], p.episodes[id].channel, <<key[2], key[3]>>>>] <= t

(* New letters for what is due and was not marked keep the mail in order.  *)
LEMMA SplitPosted ==
  ASSUME NEW p, Sound(p), NEW key \in Key, NEW alarms, NEW t, DueAlarms(p, key, alarms, t),
         NEW D, Posted(p, D, t), NEW limit, NEW n, NEW slots, NEW q, Splits(p, q, key, alarms, limit, n, slots)
  PROVE  Posted(q, D, t)
<1>0. /\ p \in Policies /\ q \in Policies /\ Keeps(p, q) /\ q.cooldown = p.cooldown
      /\ DOMAIN q.episodes = DOMAIN p.episodes /\ n \in Nat /\ p.queue \in Seq(Letters) /\ q.queue \in Seq(Letters)
      /\ slots \in [1..n -> SUBSET DOMAIN p.episodes] /\ Len(q.queue) = Len(p.queue) + n /\ Len(p.queue) \in Nat
      /\ \A id \in DOMAIN q.episodes : q.episodes[id].active = p.episodes[id].active
                                       /\ KeyOf(q.episodes[id]) = KeyOf(p.episodes[id])
  <2>1. p \in Policies /\ q \in Policies /\ Keeps(p, q)
    BY DEF Sound, Splits, Keeps
  <2> QED BY <2>1, PolicyFacts DEF Splits, Keeps, SameLife, KeyOf
<1>1. /\ DOMAIN p.queue = 1..Len(p.queue) /\ DOMAIN q.queue = 1..(Len(p.queue) + n)
      /\ \A k \in DOMAIN p.queue : k \in DOMAIN q.queue /\ q.queue[k] = p.queue[k]
      /\ \A k \in 1..n : Len(p.queue) + k \in DOMAIN q.queue /\ Len(p.queue) + k \notin DOMAIN p.queue
      /\ \A k \in DOMAIN q.queue : k \in DOMAIN p.queue \/ \E l \in 1..n : k = Len(p.queue) + l
  <2>1. DOMAIN p.queue = 1..Len(p.queue) /\ DOMAIN q.queue = 1..(Len(p.queue) + n)
    BY <1>0
  <2>2. \A k \in DOMAIN q.queue : k \in DOMAIN p.queue \/ \E l \in 1..n : k = Len(p.queue) + l
    <3> TAKE k \in DOMAIN q.queue
    <3>1. CASE k <= Len(p.queue)
      BY <1>0, <2>1, <3>1
    <3>2. CASE ~(k <= Len(p.queue))
      <4>1. k - Len(p.queue) \in 1..n /\ k = Len(p.queue) + (k - Len(p.queue))
        BY <1>0, <2>1, <3>2
      <4> QED BY <4>1
    <3> QED BY <3>1, <3>2
  <2> QED BY <1>0, <2>1, <2>2 DEF Splits
<1>2. ASSUME NEW k \in 1..n
      PROVE  LET f == q.queue[Len(p.queue) + k]
             IN  /\ f \in Letters /\ f.rule = key[1] /\ f.stage = key[2] /\ f.destination = key[3]
                 /\ f.attempts = 0 /\ ~f.test
                 /\ \A a \in f.alarms : a.episode \in slots[k] /\ a.channel = p.episodes[a.episode].channel
                 /\ \A id, s : Announces(f, id, s) <=> id \in slots[k] /\ s = <<key[2], key[3]>>
                 /\ \A id \in slots[k] : id \in DOMAIN p.episodes /\ \E j \in DOMAIN alarms : alarms[j] = id
  <2>1. slots[k] \in SUBSET DOMAIN p.episodes
    BY <1>0
  <2>2. q.queue[Len(p.queue) + k] = EnvelopeOf(p, key, slots[k])
    BY DEF Splits
  <2>3. \A id \in slots[k] : \E j \in DOMAIN alarms : alarms[j] = id
    BY DEF Splits
  <2> HIDE DEF Splits
  <2> QED BY <1>0, <2>1, <2>2, <2>3, EnvelopeFacts
<1> DEFINE new(k) == q.queue[Len(p.queue) + k]
<1>2a. ASSUME NEW k \in 1..n, NEW x, NEW y, Announces(new(k), x, y)
       PROVE  x \in slots[k] /\ y = <<key[2], key[3]>>
  <2>1. slots[k] \in SUBSET DOMAIN p.episodes
    BY <1>0
  <2>2. new(k) = EnvelopeOf(p, key, slots[k])
    BY DEF Splits
  <2> HIDE DEF new
  <2>3. p \in Policies
    BY <1>0
  <2>4. \A i, z : Announces(new(k), i, z) <=> i \in slots[k] /\ z = <<key[2], key[3]>>
    BY ONLY <2>1, <2>2, <2>3, key \in Key, EnvelopeFacts
  <2>5. Announces(new(k), x, y)
    BY <1>2a
  <2> QED BY ONLY <2>4, <2>5
<1> HIDE DEF new
<1>3. \A k \in 1..n : \A id \in slots[k] :
        /\ id \in DOMAIN p.episodes /\ p.episodes[id].rule = key[1]
        /\ <<key[2], key[3]>> \notin MarkedTokens(p.episodes[id])
        /\ key[2] # Resolution => p.cooldown[<<key[1], p.episodes[id].channel, <<key[2], key[3]>>>>] <= t
  BY <1>2 DEF DueAlarms
<1>4. Mailed(q, D)
  <2>0. Ages(p, q)
    BY <1>0, KeepsAges
  <2>1. \A i \in DOMAIN D : Addressed(q, D[i].envelope)
    BY <1>0, <2>0, AgesAddressed DEF Mailed, Posted
  <2>2. ASSUME NEW k \in DOMAIN q.queue
        PROVE  Addressed(q, q.queue[k]) /\ ~q.queue[k].test /\ q.queue[k].attempts < Attempts
    <3>1. CASE k \in DOMAIN p.queue
      BY <1>0, <1>1, <2>0, <3>1, AgesAddressed DEF Mailed, Posted
    <3>2. CASE k \notin DOMAIN p.queue
      <4>1. PICK l \in 1..n : k = Len(p.queue) + l
        BY <1>1, <3>2
      <4> DEFINE f == q.queue[k]
      <4>2. /\ f.rule = key[1] /\ f.attempts = 0 /\ ~f.test
            /\ \A a \in f.alarms : a.episode \in slots[l] /\ a.channel = p.episodes[a.episode].channel
        BY <1>2, <4>1
      <4> HIDE DEF f
      <4>3. q.count = p.count /\ DOMAIN p.episodes \subseteq 1..p.count
        BY <1>0 DEF Keeps, Sound, Numbered
      <4>4. Addressed(q, f)
        <5> SUFFICES ASSUME NEW a \in f.alarms
                     PROVE  a.episode \in 1..q.count /\ KeyOf(q.episodes[a.episode]) = <<f.rule, a.channel>>
          BY DEF Addressed
        <5>1. a.episode \in DOMAIN p.episodes /\ p.episodes[a.episode].rule = key[1]
              /\ a.channel = p.episodes[a.episode].channel
          BY <1>3, <4>2
        <5>2. KeyOf(q.episodes[a.episode]) = <<p.episodes[a.episode].rule, p.episodes[a.episode].channel>>
          BY <1>0, <5>1 DEF KeyOf
        <5> QED BY <4>2, <4>3, <5>1, <5>2
      <4>5. 0 < Attempts
        BY ServiceAssumption
      <4> QED BY <4>2, <4>4, <4>5 DEF f
    <3> QED BY <3>1, <3>2
  <2> QED BY <2>1, <2>2 DEF Mailed
<1>5. Spaced(q, t)
  <2> SUFFICES ASSUME NEW k \in DOMAIN q.queue, q.queue[k].attempts = 0, q.queue[k].stage # Resolution,
                      NEW a \in q.queue[k].alarms,
                      a.episode \in DOMAIN q.episodes, q.episodes[a.episode].active
               PROVE  q.cooldown[<<q.queue[k].rule, a.channel, <<q.queue[k].stage, q.queue[k].destination>>>>] <= t
    BY DEF Spaced
  <2>1. CASE k \in DOMAIN p.queue
    BY <1>0, <1>1, <2>1 DEF Spaced, Posted
  <2>2. CASE k \notin DOMAIN p.queue
    <3>1. PICK l \in 1..n : k = Len(p.queue) + l
      BY <1>1, <2>2
    <3> DEFINE f == q.queue[k]
    <3>2. /\ f.rule = key[1] /\ f.stage = key[2] /\ f.destination = key[3]
          /\ a.episode \in slots[l] /\ a.channel = p.episodes[a.episode].channel
      BY <1>2, <3>1
    <3>3. p.cooldown[<<key[1], a.channel, <<key[2], key[3]>>>>] <= t
      <4>1. f.stage # Resolution
        OBVIOUS
      <4> HIDE DEF f
      <4> QED BY <1>3, <3>2, <4>1
    <3> HIDE DEF f
    <3>4. q.cooldown[<<f.rule, a.channel, <<f.stage, f.destination>>>>] <= t
      BY <1>0, <3>2, <3>3
    <3> QED BY <3>4 DEF f
  <2> QED BY <2>1, <2>2
<1>6. Balanced(q, D)
  <2> SUFFICES ASSUME NEW id \in DOMAIN q.episodes, NEW s \in Tokens
               PROVE  /\ s \in MarkedTokens(q.episodes[id]) <=> \E x \in Carriers(q, D) : Says(q, D, x, id, s)
                      /\ \A x, y \in Carriers(q, D) : Says(q, D, x, id, s) /\ Says(q, D, y, id, s) => x = y
    BY DEF Balanced, Says
  <2>1. /\ s \in MarkedTokens(p.episodes[id]) <=> \E x \in Carriers(p, D) : Says(p, D, x, id, s)
        /\ \A x, y \in Carriers(p, D) : Says(p, D, x, id, s) /\ Says(p, D, y, id, s) => x = y
    BY <1>0 DEF Posted, Balanced, Says
  <2>2. \A x \in Carriers(p, D) : x \in Carriers(q, D) /\ Says(q, D, x, id, s) = Says(p, D, x, id, s)
    <3> TAKE x \in Carriers(p, D)
    <3>1. CASE x = <<"queue", x[2]>> /\ x[1] = "queue" /\ x[2] \in DOMAIN p.queue
      <4>1. LetterAt(p, D, x) = p.queue[x[2]] /\ LetterAt(q, D, x) = p.queue[x[2]] /\ x \in Carriers(q, D)
        BY <1>1, <3>1 DEF LetterAt, Carriers
      <4> QED BY <4>1 DEF Says
    <3>2. CASE x = <<"flight", x[2]>> /\ x[1] = "flight" /\ x[2] \in Running(D)
      <4>1. LetterAt(p, D, x) = LetterAt(q, D, x) /\ x \in Carriers(q, D)
        BY <3>2 DEF LetterAt, Carriers
      <4> QED BY <4>1 DEF Says
    <3> QED BY <3>1, <3>2, CarrierFacts DEF CarrierKinds
  <2>3. ASSUME NEW x \in Carriers(q, D), Says(q, D, x, id, s), x \notin Carriers(p, D)
        PROVE  \E k \in 1..n : x = <<"queue", Len(p.queue) + k>> /\ id \in slots[k] /\ s = <<key[2], key[3]>>
    <3>1. CASE x = <<"flight", x[2]>> /\ x[1] = "flight" /\ x[2] \in Running(D)
      BY <2>3, <3>1 DEF Carriers
    <3>2. CASE x = <<"queue", x[2]>> /\ x[1] = "queue" /\ x[2] \in DOMAIN q.queue /\ LetterAt(q, D, x) = q.queue[x[2]]
      <4>1. x[2] \notin DOMAIN p.queue
        BY <2>3, <3>2 DEF Carriers
      <4>2. PICK k \in 1..n : x[2] = Len(p.queue) + k
        BY <1>1, <3>2, <4>1
      <4>3. Announces(new(k), id, s)
        BY <2>3, <3>2, <4>2 DEF Says, new
      <4>4. id \in slots[k] /\ s = <<key[2], key[3]>>
        BY ONLY <1>2a, <4>3
      <4> QED BY <3>2, <4>2, <4>4
    <3> QED BY <3>1, <3>2, CarrierFacts DEF CarrierKinds
  <2>4. \A k \in 1..n : id \in slots[k] /\ s = <<key[2], key[3]>> =>
          \E x \in Carriers(q, D) : Says(q, D, x, id, s)
    <3> TAKE k \in 1..n
    <3> HAVE id \in slots[k] /\ s = <<key[2], key[3]>>
    <3>1. <<"queue", Len(p.queue) + k>> \in Carriers(q, D)
          /\ LetterAt(q, D, <<"queue", Len(p.queue) + k>>) = q.queue[Len(p.queue) + k]
      BY <1>1, CarrierFacts, ZenonT(60)
    <3>2. Announces(q.queue[Len(p.queue) + k], id, s)
      BY <1>2
    <3>3. Says(q, D, <<"queue", Len(p.queue) + k>>, id, s)
      BY <3>1, <3>2 DEF Says
    <3> QED BY <3>1, <3>3
  <2>5. s \in MarkedTokens(q.episodes[id]) <=>
          s \in MarkedTokens(p.episodes[id]) \/ (s = <<key[2], key[3]>> /\ \E k \in 1..n : id \in slots[k])
    BY DEF Splits
  <2>6. \A k \in 1..n : id \in slots[k] /\ s = <<key[2], key[3]>> => s \notin MarkedTokens(p.episodes[id])
    BY <1>3
  <2>7. \A k, l \in 1..n : id \in slots[k] /\ id \in slots[l] => k = l
    BY DEF Splits
  <2>8. s \in MarkedTokens(q.episodes[id]) <=> \E x \in Carriers(q, D) : Says(q, D, x, id, s)
    <3>1. ASSUME s \in MarkedTokens(q.episodes[id]) PROVE \E x \in Carriers(q, D) : Says(q, D, x, id, s)
      BY <2>1, <2>2, <2>4, <2>5, <3>1
    <3>2. ASSUME NEW x \in Carriers(q, D), Says(q, D, x, id, s) PROVE s \in MarkedTokens(q.episodes[id])
      BY <2>1, <2>2, <2>3, <2>5, <3>2
    <3> QED BY <3>1, <3>2
  <2>9. ASSUME NEW x \in Carriers(q, D), NEW y \in Carriers(q, D), Says(q, D, x, id, s), Says(q, D, y, id, s)
        PROVE  x = y
    <3>1. CASE x \in Carriers(p, D) /\ y \in Carriers(p, D)
      BY <2>1, <2>2, <2>9, <3>1
    <3>2. CASE x \in Carriers(p, D) /\ y \notin Carriers(p, D)
      BY <2>1, <2>2, <2>3, <2>6, <2>9, <3>2
    <3>3. CASE x \notin Carriers(p, D) /\ y \in Carriers(p, D)
      BY <2>1, <2>2, <2>3, <2>6, <2>9, <3>3
    <3>4. CASE x \notin Carriers(p, D) /\ y \notin Carriers(p, D)
      <4>1. PICK k \in 1..n : x = <<"queue", Len(p.queue) + k>> /\ id \in slots[k]
        BY <2>3, <2>9, <3>4
      <4>2. PICK l \in 1..n : y = <<"queue", Len(p.queue) + l>> /\ id \in slots[l]
        BY <2>3, <2>9, <3>4
      <4>3. k = l
        BY <2>7, <4>1, <4>2
      <4> QED BY <4>1, <4>2, <4>3
    <3> QED BY <3>1, <3>2, <3>3, <3>4
  <2> QED BY <2>8, <2>9
<1> QED BY <1>4, <1>5, <1>6 DEF Posted

(* What the groups of the pump have queued so far.                         *)
Pumped(p, q, D, limit, t, s) ==
  /\ Keeps(p, q) /\ q.cooldown = p.cooldown /\ DOMAIN q.episodes = DOMAIN p.episodes
  /\ Posted(q, D, t)
  /\ q.queue = p.queue \/ Len(q.queue) <= limit
  /\ \A id \in DOMAIN q.episodes :
       /\ q.episodes[id].accepted = p.episodes[id].accepted
       /\ \A tok \in MarkedTokens(q.episodes[id]) :
            \/ tok \in MarkedTokens(p.episodes[id])
            \/ \E i \in s : GroupOrder[i] = <<p.episodes[id].rule, tok[1], tok[2]>>

(* What is wanted is not queued, and its channel is not silenced.          *)
DueTokens(p, wanted, t) ==
  \A id \in DOMAIN p.episodes : \A tok \in wanted[id] :
    /\ tok \notin MarkedTokens(p.episodes[id]) /\ HasRule(p, p.episodes[id].rule)
    /\ tok[1] # Resolution => p.cooldown[<<p.episodes[id].rule, p.episodes[id].channel, tok>>] <= t

(* What Wanted returns is due.                                             *)
LEMMA WantedDue ==
  ASSUME NEW p \in Policies, NEW t \in Nat,
         NEW wanted, wanted = [id \in DOMAIN p.episodes |-> Wanted(p, p.episodes[id], t)]
  PROVE  DueTokens(p, wanted, t)
<1> SUFFICES ASSUME NEW id \in DOMAIN p.episodes, NEW tok \in Wanted(p, p.episodes[id], t)
             PROVE  /\ tok \notin MarkedTokens(p.episodes[id]) /\ HasRule(p, p.episodes[id].rule)
                    /\ tok[1] # Resolution => p.cooldown[<<p.episodes[id].rule, p.episodes[id].channel, tok>>] <= t
  BY DEF DueTokens
<1> DEFINE e == p.episodes[id]
<1>1. e.queued \in SUBSET Token /\ HasRule(p, e.rule) /\ RuleOf(p, e.rule).id = e.rule
  <2>1. e.queued \in SUBSET Token
    BY EpisodeFacts
  <2>2. HasRule(p, e.rule)
    BY DEF Wanted
  <2> QED BY <2>1, <2>2, RuleFacts
<1>2. CASE e.active
  <2>1. tok \in DueStages(p, e, t)
    BY <1>1, <1>2 DEF Wanted
  <2> HIDE DEF e
  <2>2. tok \in Token \ (e.done \cup e.queued) /\ p.cooldown[<<e.rule, e.channel, tok>>] <= t
    BY <1>1, <2>1 DEF DueStages
  <2>3. \A d : tok # <<Resolution, d>>
    BY <2>2, PolicyAssumption DEF Token
  <2>4. tok \notin MarkedTokens(e)
    BY <2>2, <2>3 DEF MarkedTokens
  <2> QED BY <1>1, <2>2, <2>4 DEF e
<1>3. CASE ~e.active
  <2>1. tok \in DueResolutions(p, e)
    BY <1>1, <1>3 DEF Wanted
  <2> HIDE DEF e
  <2>2. PICK d \in e.accepted \ (e.resolutionDone \cup e.resolutionQueued) : tok = <<Resolution, d>>
    BY <2>1 DEF DueResolutions
  <2>3. tok \notin e.queued
    BY <1>1, <2>2, PolicyAssumption DEF Token
  <2>4. \A x : tok = <<Resolution, x>> => x = d
    BY <2>2
  <2>5. tok \notin MarkedTokens(e) /\ tok[1] = Resolution
    BY <2>2, <2>3, <2>4 DEF MarkedTokens
  <2> QED BY <1>1, <2>5 DEF e
<1> QED BY <1>2, <1>3

(* The time of a batch is only a time.                                     *)
LEMMA RebatchedKeeps ==
  ASSUME NEW p, Sound(p), NEW key \in Key, NEW v \in Nat, NEW q, q = [p EXCEPT !.batch[key] = v]
  PROVE  Keeps(p, q) /\ SameMail(p, q) /\ q.episodes = p.episodes
<1>0. p \in Policies /\ p.resolvedEnded \in [Channels -> SUBSET Nat] /\ Numbered(p) /\ p.batch \in [Key -> Nat]
  BY PolicyFacts DEF Sound
<1> DEFINE B == [p.batch EXCEPT ![key] = v]
<1>1. B \in [Key -> Nat] /\ q = [p EXCEPT !.batch = B]
  BY <1>0
<1> HIDE DEF B
<1>2. q \in Policies
  BY <1>0, <1>1 DEF Policies
<1>3. /\ q.enabled = p.enabled /\ q.configuration = p.configuration /\ q.settings = p.settings
      /\ q.known = p.known /\ q.channels = p.channels /\ q.episodes = p.episodes /\ q.count = p.count
      /\ q.current = p.current /\ q.resolvedEnded = p.resolvedEnded /\ q.cooldown = p.cooldown
      /\ q.queue = p.queue
  BY <1>0, <1>1 DEF Policies
<1>4. SameRules(p, q) /\ SameSight(p, q) /\ SameMail(p, q) /\ Emptied(q)
  BY <1>3 DEF SameRules, SameSight, SameMail, Sound, Emptied
<1>5. \A c \in Channels : q.resolvedEnded[c] = p.resolvedEnded[c] \cap DOMAIN q.episodes
  BY <1>0, <1>3 DEF Numbered
<1>6. \A id \in DOMAIN q.episodes : SameLife(p.episodes[id], q.episodes[id])
  BY <1>0, <1>3, EpisodeFacts, SameLifeSelf
<1> QED BY <1>2, <1>3, <1>4, <1>5, <1>6 DEF Keeps

(* One more group is queued.                                               *)
LEMMA GroupedPumps ==
  ASSUME NEW p, Sound(p), p.enabled, NEW D, NEW limit \in Int, NEW t \in Nat,
         NEW s \in SUBSET DOMAIN GroupOrder, NEW i \in DOMAIN GroupOrder \ s,
         NEW order \in Seq(DOMAIN p.episodes), \A j, k \in DOMAIN order : order[j] = order[k] => j = k,
         NEW wanted, DueTokens(p, wanted, t),
         NEW acc, Pumped(p, acc, D, limit, t, s),
         NEW q, q = Grouped(acc, GroupOrder[i], order, limit, t, wanted)
  PROVE  Pumped(p, q, D, limit, t, s \cup {i})
<1> DEFINE key == GroupOrder[i]
           due(id) == <<key[2], key[3]>> \in wanted[id] /\ acc.episodes[id].rule = key[1]
           places == {j \in DOMAIN order : due(order[j])}
           alarms == Only(order, places)
           until  == IF acc.batch[key] = 0 THEN t + BatchDelay ELSE acc.batch[key]
<1>0. /\ Keeps(p, acc) /\ acc.cooldown = p.cooldown /\ DOMAIN acc.episodes = DOMAIN p.episodes
      /\ Posted(acc, D, t) /\ Sound(acc) /\ acc.enabled /\ acc \in Policies
      /\ \A id \in DOMAIN p.episodes : acc.episodes[id].rule = p.episodes[id].rule
                                       /\ acc.episodes[id].channel = p.episodes[id].channel
  <2>1. Keeps(p, acc) /\ acc.cooldown = p.cooldown /\ DOMAIN acc.episodes = DOMAIN p.episodes /\ Posted(acc, D, t)
    BY DEF Pumped
  <2>2. Sound(acc)
    BY <2>1, KeepsSound DEF KeepsSoundOp
  <2>3. acc.enabled /\ acc \in Policies
    BY <2>1 DEF Keeps, SameRules
  <2>4. \A id \in DOMAIN p.episodes : acc.episodes[id].rule = p.episodes[id].rule
                                       /\ acc.episodes[id].channel = p.episodes[id].channel
    BY <2>1 DEF Keeps, SameLife
  <2> QED BY <2>1, <2>2, <2>3, <2>4
<1>1. key \in Key /\ \A j \in DOMAIN GroupOrder : GroupOrder[j] = key => j = i
  <2>1. \A j, k \in DOMAIN GroupOrder : GroupOrder[j] = GroupOrder[k] => j = k
    BY PolicyAssumption
  <2>2. GroupOrder \in Seq(Key)
    BY PolicyAssumption
  <2>3. key \in Key
    BY <2>2, ElementOfSeq
  <2> QED BY <2>1, <2>3
<1> HIDE DEF key
<1>2. /\ alarms \in Seq(DOMAIN p.episodes)
      /\ \A j, k \in DOMAIN alarms : alarms[j] = alarms[k] => j = k
      /\ \A j \in DOMAIN alarms : due(alarms[j]) /\ alarms[j] \in DOMAIN p.episodes
  <2> DEFINE S == DOMAIN p.episodes
  <2>2. order \in Seq(S)
    OBVIOUS
  <2>2a. \A j \in DOMAIN order : order[j] \in S
    <3> HIDE DEF S
    <3> QED BY <2>2, ElementOfSeq
  <2>1. places \in SUBSET DOMAIN order /\ \A j \in places : due(order[j]) /\ order[j] \in DOMAIN p.episodes
    <3>1. \A j \in places : j \in DOMAIN order /\ due(order[j])
      OBVIOUS
    <3> HIDE DEF places, due
    <3> QED BY <2>2a, <3>1
  <2> HIDE DEF places, due, S
  <2>3. alarms \in Seq(S) /\ PlacesOf(alarms, order, places)
    BY ONLY <2>1, <2>2, OnlyFacts, OnlyPlaces DEF alarms
  <2>4. PICK g \in [DOMAIN alarms -> places] :
          /\ \A k \in DOMAIN alarms : alarms[k] = order[g[k]]
          /\ \A k, l \in DOMAIN alarms : g[k] = g[l] => k = l
    BY <2>3 DEF PlacesOf
  <2> HIDE DEF alarms
  <2>5. \A j \in DOMAIN alarms : g[j] \in places /\ alarms[j] = order[g[j]]
    BY <2>4
  <2>6. \A j, k \in DOMAIN alarms : alarms[j] = alarms[k] => j = k
    BY <2>1, <2>4, <2>5
  <2>7. \A j \in DOMAIN alarms : due(alarms[j]) /\ alarms[j] \in DOMAIN p.episodes
    BY <2>1, <2>5
  <2> QED BY <2>3, <2>6, <2>7 DEF S
<1>3. q = IF alarms = <<>> THEN [acc EXCEPT !.batch[key] = 0]
          ELSE IF t < until THEN [acc EXCEPT !.batch[key] = until]
          ELSE Enqueued([acc EXCEPT !.batch[key] = until], key, alarms, limit)
  BY Zenon DEF Grouped, key
<1>4. until \in Nat
  BY <1>0, <1>1, PolicyFacts, PolicyAssumption
<1> HIDE DEF until, alarms
<1>5. ASSUME NEW v \in Nat, NEW m, m = [acc EXCEPT !.batch[key] = v]
      PROVE  Pumped(p, m, D, limit, t, s) /\ Sound(m) /\ m.enabled /\ m.episodes = acc.episodes
             /\ m.cooldown = p.cooldown
  <2>1. Keeps(acc, m) /\ SameMail(acc, m) /\ m.episodes = acc.episodes
    BY <1>0, <1>1, <1>5, RebatchedKeeps
  <2>2. Keeps(p, m) /\ Sound(m) /\ m.enabled
    <3>1. Keeps(p, m)
      BY ONLY <1>0, <2>1, Sound(p), KeepsTrans
    <3>2. Sound(m)
      BY ONLY <1>0, <2>1, KeepsSound DEF KeepsSoundOp
    <3>3. m.enabled
      BY ONLY <1>0, <2>1 DEF Keeps, SameRules
    <3> QED BY <3>1, <3>2, <3>3
  <2>3. Posted(m, D, t)
    BY <1>0, <2>1, UntouchedPosted
  <2> QED BY <1>0, <2>1, <2>2, <2>3 DEF Pumped, SameMail
<1>6. ASSUME NEW m, Pumped(p, m, D, limit, t, s) PROVE Pumped(p, m, D, limit, t, s \cup {i})
  BY <1>6 DEF Pumped
<1>7. CASE alarms = <<>>
  BY <1>3, <1>5, <1>6, <1>7
<1>8. CASE alarms # <<>> /\ t < until
  BY <1>3, <1>4, <1>5, <1>6, <1>8
<1>9. CASE alarms # <<>> /\ ~(t < until)
  <2> DEFINE m == [acc EXCEPT !.batch[key] = until]
  <2>1. q = Enqueued(m, key, alarms, limit)
    BY <1>3, <1>9
  <2>2. Pumped(p, m, D, limit, t, s) /\ Sound(m) /\ m.enabled /\ m.episodes = acc.episodes
        /\ m.cooldown = p.cooldown
    BY <1>4, <1>5
  <2> HIDE DEF m
  <2>3. alarms \in Seq(DOMAIN m.episodes)
    BY <1>0, <1>2, <2>2
  <2>4. PICK n, slots : Splits(m, q, key, alarms, limit, n, slots)
    BY <1>1, <1>2, <2>1, <2>2, <2>3, EnqueuedSplits
  <2>5. DueAlarms(m, key, alarms, t)
    <3> SUFFICES ASSUME NEW j \in DOMAIN alarms
                 PROVE  LET id == alarms[j]
                        IN  /\ id \in DOMAIN m.episodes /\ m.episodes[id].rule = key[1]
                            /\ <<key[2], key[3]>> \notin MarkedTokens(m.episodes[id])
                            /\ key[2] # Resolution =>
                                 m.cooldown[<<key[1], m.episodes[id].channel, <<key[2], key[3]>>>>] <= t
      BY DEF DueAlarms
    <3> DEFINE id == alarms[j]
               tok == <<key[2], key[3]>>
    <3>1. id \in DOMAIN p.episodes /\ tok \in wanted[id] /\ acc.episodes[id].rule = key[1]
      BY <1>2
    <3> HIDE DEF id
    <3>2. /\ tok \notin MarkedTokens(p.episodes[id])
          /\ tok[1] # Resolution => p.cooldown[<<p.episodes[id].rule, p.episodes[id].channel, tok>>] <= t
      BY <3>1 DEF DueTokens
    <3>3. tok[1] = key[2] /\ tok[2] = key[3]
      OBVIOUS
    <3> HIDE DEF tok
    <3>4. p.episodes[id].rule = key[1] /\ key = <<key[1], key[2], key[3]>>
      BY <1>0, <1>1, <3>1 DEF Key
    <3>5. ASSUME tok \in MarkedTokens(m.episodes[id]) PROVE FALSE
      <4>1. PICK k \in s : GroupOrder[k] = <<p.episodes[id].rule, tok[1], tok[2]>>
        BY <1>0, <2>2, <3>1, <3>2, <3>5 DEF Pumped
      <4>2. GroupOrder[k] = key
        BY <3>3, <3>4, <4>1
      <4> QED BY <1>1, <4>2
    <3> QED BY <1>0, <2>2, <3>1, <3>2, <3>3, <3>4, <3>5 DEF id, tok
  <2>6. Posted(m, D, t)
    BY <2>2 DEF Pumped
  <2>7. Posted(q, D, t)
    BY <1>1, <2>2, <2>4, <2>5, <2>6, SplitPosted
  <2>8. /\ Keeps(m, q) /\ q.cooldown = m.cooldown /\ DOMAIN q.episodes = DOMAIN m.episodes
        /\ n \in Nat /\ Len(q.queue) = Len(m.queue) + n /\ (n = 0 \/ Len(m.queue) + n <= limit)
        /\ \A k \in DOMAIN m.queue : q.queue[k] = m.queue[k]
        /\ \A k \in 1..n : \A id \in slots[k] : \E j \in DOMAIN alarms : alarms[j] = id
        /\ \A id \in DOMAIN q.episodes :
             /\ q.episodes[id].accepted = m.episodes[id].accepted
             /\ \A tok : tok \in MarkedTokens(q.episodes[id]) <=>
                  \/ tok \in MarkedTokens(m.episodes[id])
                  \/ (tok = <<key[2], key[3]>> /\ \E k \in 1..n : id \in slots[k])
    BY <2>4 DEF Splits
  <2>9. q.queue = m.queue \/ Len(q.queue) <= limit
    <3>1. CASE n = 0
      <4>1. m.queue \in Seq(Letters) /\ q.queue \in Seq(Letters)
        BY <2>2, <2>8, PolicyFacts DEF Sound, Keeps
      <4>2. Len(q.queue) = Len(m.queue)
        BY <2>8, <3>1, <4>1
      <4>3. \A k \in 1..Len(m.queue) : q.queue[k] = m.queue[k]
        BY <2>8, <4>1
      <4> QED BY <4>1, <4>2, <4>3, SeqEqual
    <3>2. CASE n # 0
      BY <2>8, <3>2
    <3> QED BY <3>1, <3>2
  <2>10. Keeps(p, q) /\ q.cooldown = p.cooldown /\ DOMAIN q.episodes = DOMAIN p.episodes
    BY <2>2, <2>8, KeepsTrans DEF Pumped
  <2>11. q.queue = p.queue \/ Len(q.queue) <= limit
    BY <2>2, <2>9 DEF Pumped
  <2>12. ASSUME NEW id \in DOMAIN q.episodes, NEW tok \in MarkedTokens(q.episodes[id])
         PROVE  \/ tok \in MarkedTokens(p.episodes[id])
                \/ \E k \in s \cup {i} : GroupOrder[k] = <<p.episodes[id].rule, tok[1], tok[2]>>
    <3>1. CASE tok \in MarkedTokens(m.episodes[id])
      <4>1. id \in DOMAIN m.episodes
        BY <2>8
      <4>2. \/ tok \in MarkedTokens(p.episodes[id])
            \/ \E k \in s : GroupOrder[k] = <<p.episodes[id].rule, tok[1], tok[2]>>
        BY ONLY <2>2, <3>1, <4>1 DEF Pumped
      <4> QED BY <4>2
    <3>2. CASE tok = <<key[2], key[3]>> /\ \E k \in 1..n : id \in slots[k]
      <4>1. PICK j \in DOMAIN alarms : alarms[j] = id
        BY <2>8, <3>2
      <4>2. id \in DOMAIN p.episodes /\ acc.episodes[id].rule = key[1]
        BY <1>2, <4>1
      <4>3. p.episodes[id].rule = key[1] /\ key = <<key[1], key[2], key[3]>> /\ tok[1] = key[2] /\ tok[2] = key[3]
        BY <1>0, <1>1, <3>2, <4>2 DEF Key
      <4>4. GroupOrder[i] = <<p.episodes[id].rule, tok[1], tok[2]>>
        BY <4>3 DEF key
      <4> QED BY <4>4
    <3> QED BY <2>8, <3>1, <3>2
  <2>13. \A id \in DOMAIN q.episodes : q.episodes[id].accepted = p.episodes[id].accepted
    BY <2>2, <2>8 DEF Pumped
  <2> QED BY <2>7, <2>10, <2>11, <2>12, <2>13 DEF Pumped
<1> QED BY <1>7, <1>8, <1>9

(* The order of the episodes in their hash is a sequence of them.          *)
LEMMA OrderFacts ==
  ASSUME NEW p, Sound(p), NEW order \in SetToSeqs(DOMAIN p.episodes)
  PROVE  order \in Seq(DOMAIN p.episodes) /\ \A j, k \in DOMAIN order : order[j] = order[k] => j = k
<1> DEFINE S == DOMAIN p.episodes
           n == Cardinality(S)
<1>1. n \in Nat
  <2>1. p.count \in Nat /\ S \subseteq 1..p.count
    BY PolicyFacts DEF Sound, Numbered
  <2> HIDE DEF S
  <2>2. IsFiniteSet(1..p.count)
    BY <2>1, FS_Interval
  <2> QED BY <2>1, <2>2, FS_Subset, FS_CardinalityType
<1>2. order \in [1..n -> S] /\ \A i, j \in 1..n : i # j => order[i] # order[j]
  BY Zenon DEF SetToSeqs
<1> HIDE DEF S, n
<1>3. order \in Seq(S) /\ DOMAIN order = 1..n
  BY <1>1, <1>2
<1> QED BY <1>2, <1>3 DEF S

(* What a pump call has done to the policy before it takes letters.        *)
Ticks(p, q, D, limit, t) ==
  /\ Keeps(p, q) /\ q.cooldown = p.cooldown /\ Posted(q, D, t)
  /\ q.queue = p.queue \/ Len(q.queue) <= limit
  /\ \A id \in DOMAIN q.episodes : q.episodes[id].accepted = p.episodes[id].accepted

(* The fold of the pump over its groups.                                   *)
Groups(p, order, limit, t, wanted) ==
  FoldLeft(LAMBDA acc, key : Grouped(acc, key, order, limit, t, wanted), p, GroupOrder)

(* All groups are queued: by induction over the fold.                      *)
LEMMA GroupsPumped ==
  ASSUME NEW p, Sound(p), p.enabled, NEW D, NEW limit \in Int, NEW t \in Nat,
         NEW order \in Seq(DOMAIN p.episodes), \A j, k \in DOMAIN order : order[j] = order[k] => j = k,
         NEW wanted, DueTokens(p, wanted, t), Posted(p, D, t)
  PROVE  Pumped(p, Groups(p, order, limit, t, wanted), D, limit, t, DOMAIN GroupOrder)
<1> DEFINE S == DOMAIN GroupOrder
           step(i, x) == Grouped(x, GroupOrder[i], order, limit, t, wanted)
           W == [s \in SUBSET S |-> {x \in Policies : Pumped(p, x, D, limit, t, s)}]
           pick == [s \in SUBSET S |-> Max(s)]
           G == [z \in S \X Policies |-> step(z[1], z[2])]
           iter[s \in SUBSET S] == IF s = {} THEN p ELSE LET i == Max(s) IN step(i, iter[s \ {i}])
<1>1. IsFiniteSet(S) /\ S \subseteq Nat
  <2>1. Len(GroupOrder) \in Nat /\ DOMAIN GroupOrder = 1..Len(GroupOrder)
    BY PolicyAssumption
  <2> QED BY <2>1, FS_Interval
<1>2. Groups(p, order, limit, t, wanted) = iter[S]
  BY DEF Groups, FoldLeft, MapThenFoldSet
<1>0. \A s \in SUBSET S : s # {} => Max(s) \in s
  <2> SUFFICES ASSUME NEW s \in SUBSET S, s # {} PROVE Max(s) \in s
    OBVIOUS
  <2>1. s \subseteq Int /\ IsFiniteSet(s)
    BY <1>1, FS_Subset
  <2>2. \E x \in s : \A y \in s : x >= y
    BY <2>1, FiniteExtremes
  <2> QED BY <2>2 DEF Max
<1>3. p \in Policies /\ Pumped(p, p, D, limit, t, {})
  <2>1. p \in Policies /\ Numbered(p) /\ Emptied(p)
    BY DEF Sound
  <2>2. \A id \in DOMAIN p.episodes : SameLife(p.episodes[id], p.episodes[id])
    BY <2>1, EpisodeFacts, SameLifeSelf
  <2>3. \A c \in Channels : p.resolvedEnded[c] = p.resolvedEnded[c] \cap DOMAIN p.episodes
    BY <2>1 DEF Numbered
  <2>4. Keeps(p, p)
    BY <2>1, <2>2, <2>3 DEF Keeps, SameRules, SameSight
  <2> QED BY <2>1, <2>4 DEF Pumped
<1>4. ASSUME NEW s \in SUBSET S, NEW i \in s, NEW x \in W[s \ {i}]
      PROVE  step(i, x) \in W[s]
  <2>1. Pumped(p, x, D, limit, t, s \ {i})
    OBVIOUS
  <2>2. s \ {i} \in SUBSET S /\ i \in S \ (s \ {i}) /\ (s \ {i}) \cup {i} = s
    OBVIOUS
  <2> DEFINE y == step(i, x)
  <2>3. y = Grouped(x, GroupOrder[i], order, limit, t, wanted)
    OBVIOUS
  <2> HIDE DEF y, W
  <2>4. Pumped(p, y, D, limit, t, (s \ {i}) \cup {i})
    BY <2>1, <2>2, <2>3, GroupedPumps
  <2>5. y \in Policies /\ Pumped(p, y, D, limit, t, s)
    BY <2>2, <2>4 DEF Pumped, Keeps
  <2> QED BY <2>5 DEF W, y
<1> HIDE DEF step
<1>5. HasFold(S, Policies, W, p, pick, G)
  <2>1. \A s \in SUBSET S : W[s] \subseteq Policies
    OBVIOUS
  <2>2. p \in W[{}]
    BY <1>3
  <2>3. \A s \in SUBSET S : s # {} =>
          pick[s] \in s /\ \A v \in W[s \ {pick[s]}] : G[<<pick[s], v>>] \in W[s]
    <3> SUFFICES ASSUME NEW s \in SUBSET S, s # {}
                 PROVE  pick[s] \in s /\ \A v \in W[s \ {pick[s]}] : G[<<pick[s], v>>] \in W[s]
      OBVIOUS
    <3>1. pick[s] \in s
      BY <1>0
    <3> HIDE DEF pick
    <3>2. ASSUME NEW v \in W[s \ {pick[s]}] PROVE G[<<pick[s], v>>] \in W[s]
      <4>1. v \in Policies /\ pick[s] \in S /\ s \ {pick[s]} \in SUBSET S
        BY <3>1
      <4>2. G[<<pick[s], v>>] = step(pick[s], v)
        BY <4>1
      <4>3. step(pick[s], v) \in W[s]
        <5> HIDE DEF G, W
        <5> QED BY <1>4, <3>1
      <4> QED BY <4>2, <4>3
    <3> QED BY <3>1, <3>2
  <2> HIDE DEF W, G, pick
  <2>4. Foldable(S, Policies, W, p, pick, G)
    BY <1>1, <2>1, <2>2, <2>3 DEF Foldable
  <2> QED BY <2>4, FoldExists
<1>6. PICK f \in [SUBSET S -> Policies] : \A s \in SUBSET S :
        f[s] \in W[s] /\ f[s] = IF s = {} THEN p ELSE G[<<pick[s], f[s \ {pick[s]}]>>]
  BY <1>5 DEF HasFold, Folded
<1>7. \A s \in SUBSET S : f[s] = IF s = {} THEN p ELSE step(Max(s), f[s \ {Max(s)}])
  <2> TAKE s \in SUBSET S
  <2>1. CASE s = {}
    BY <1>6, <2>1
  <2>2. CASE s # {}
    <3>1. pick[s] = Max(s) /\ pick[s] \in s
      BY <1>0, <2>2
    <3> HIDE DEF pick
    <3>2. s \ {pick[s]} \in SUBSET S /\ pick[s] \in S
      BY <3>1
    <3>3. f[s \ {pick[s]}] \in Policies
      BY <3>2
    <3>4. G[<<pick[s], f[s \ {pick[s]}]>>] = step(pick[s], f[s \ {pick[s]}])
      BY <3>2, <3>3
    <3> HIDE DEF G
    <3> QED BY <1>6, <2>2, <3>1, <3>4
  <2> QED BY <2>1, <2>2
<1>8. f = [s \in SUBSET S |-> IF s = {} THEN p ELSE LET i == Max(s) IN step(i, f[s \ {i}])]
  <2> HIDE DEF W, G, pick, S
  <2> QED BY <1>7
<1>9. iter = [s \in SUBSET S |-> IF s = {} THEN p ELSE LET i == Max(s) IN step(i, iter[s \ {i}])]
  <2> HIDE DEF W, G, pick, S
  <2> QED BY <1>8, Zenon
<1>10. Inherited(S, W, pick, iter)
  <2>1. iter[{}] \in W[{}]
    <3>1. iter[{}] = p
      <4> HIDE DEF W, G, pick, iter
      <4> QED BY <1>9
    <3> HIDE DEF iter
    <3> QED BY <1>3, <3>1
  <2>2. ASSUME NEW s \in SUBSET S, s # {}
        PROVE  pick[s] \in s /\ (iter[s \ {pick[s]}] \in W[s \ {pick[s]}] => iter[s] \in W[s])
    <3>1. pick[s] = Max(s) /\ Max(s) \in s
      BY <1>0, <2>2
    <3>2. iter[s] = step(Max(s), iter[s \ {Max(s)}])
      <4> HIDE DEF W, G, pick, iter, S
      <4> QED BY <1>9, <2>2
    <3> HIDE DEF iter, W, pick
    <3>3. ASSUME iter[s \ {pick[s]}] \in W[s \ {pick[s]}]
          PROVE  iter[s] \in W[s]
      <4>1. step(pick[s], iter[s \ {pick[s]}]) \in W[s]
        <5> DEFINE x == iter[s \ {pick[s]}]
                   r == pick[s]
        <5>1. r \in s /\ x \in W[s \ {r}]
          BY <3>1, <3>3
        <5> HIDE DEF x, r
        <5>2. step(r, x) \in W[s]
          BY <1>4, <5>1
        <5> QED BY <5>2 DEF x, r
      <4> QED BY <3>1, <3>2, <4>1
    <3> QED BY <3>1, <3>3
  <2> HIDE DEF iter, W, pick
  <2> QED BY <1>1, <2>1, <2>2 DEF Inherited
<1>11. iter[S] \in W[S]
  <2> HIDE DEF iter, W, pick
  <2> QED BY <1>1, <1>10, FoldInduction
<1> HIDE DEF iter
<1> QED BY <1>2, <1>11

(* tick: the mail stays in order and the queue within its limit.           *)
LEMMA TickedTicks ==
  ASSUME NEW p, Sound(p), NEW D, NEW limit \in Int, NEW t \in Nat, Posted(p, D, t),
         NEW order \in SetToSeqs(DOMAIN p.episodes), NEW q, q = Ticked(p, order, limit, t)
  PROVE  Ticks(p, q, D, limit, t)
<1> DEFINE c == Cancelling(p)
           wanted == [id \in DOMAIN c.episodes |-> Wanted(c, c.episodes[id], t)]
           g == Groups(c, order, limit, t, wanted)
<1>1. CASE ~p.enabled
  <2>1. q = p
    BY <1>1 DEF Ticked
  <2>2. p \in Policies /\ Numbered(p) /\ Emptied(p)
    BY DEF Sound
  <2>3. \A id \in DOMAIN p.episodes : SameLife(p.episodes[id], p.episodes[id])
    BY <2>2, EpisodeFacts, SameLifeSelf
  <2>4. \A d \in Channels : p.resolvedEnded[d] = p.resolvedEnded[d] \cap DOMAIN p.episodes
    BY <2>2 DEF Numbered
  <2>5. Keeps(p, p)
    BY <2>2, <2>3, <2>4 DEF Keeps, SameRules, SameSight
  <2> QED BY <2>1, <2>5 DEF Ticks
<1>2. CASE p.enabled
  <2>1. q = Collected(g)
    BY <1>2, Zenon DEF Ticked, Groups
  <2>2. Cancels(p, c)
    BY CancellingKeeps
  <2>3. p \in Policies /\ Keeps(p, c) /\ SameMail(p, c) /\ DOMAIN c.episodes = DOMAIN p.episodes
        /\ \A id \in DOMAIN c.episodes : c.episodes[id].accepted = p.episodes[id].accepted
                                         /\ MarkedTokens(c.episodes[id]) = MarkedTokens(p.episodes[id])
    BY <2>2 DEF Cancels, MarkedTokens, Sound
  <2> HIDE DEF c
  <2>4. Sound(c) /\ c.enabled /\ c \in Policies
    BY <1>2, <2>3, KeepsSound DEF KeepsSoundOp, Keeps, SameRules
  <2>5. Posted(c, D, t)
    BY <2>3, UntouchedPosted
  <2>6. DueTokens(c, wanted, t)
    <3>1. wanted = [id \in DOMAIN c.episodes |-> Wanted(c, c.episodes[id], t)]
      OBVIOUS
    <3> HIDE DEF wanted
    <3> QED BY <2>4, <3>1, WantedDue
  <2> HIDE DEF wanted
  <2>7. order \in Seq(DOMAIN c.episodes) /\ \A j, k \in DOMAIN order : order[j] = order[k] => j = k
    BY <2>3, OrderFacts
  <2>8. Pumped(c, g, D, limit, t, DOMAIN GroupOrder)
    BY <2>4, <2>5, <2>6, <2>7, GroupsPumped
  <2> HIDE DEF g
  <2>9. /\ Keeps(c, g) /\ g.cooldown = c.cooldown /\ Posted(g, D, t)
        /\ g.queue = c.queue \/ Len(g.queue) <= limit
        /\ \A id \in DOMAIN g.episodes : g.episodes[id].accepted = c.episodes[id].accepted
    BY <2>8 DEF Pumped
  <2>10. Sound(g) /\ g \in Policies
    BY <2>4, <2>9, KeepsSound DEF KeepsSoundOp, Keeps
  <2>11. /\ Keeps(g, q) /\ SameMail(g, q) /\ DOMAIN q.episodes \subseteq DOMAIN g.episodes
         /\ \A id \in DOMAIN q.episodes : q.episodes[id] = g.episodes[id]
    BY <2>1, <2>10, CollectedKeeps DEF Collects
  <2>12. Posted(q, D, t)
    BY <2>9, <2>10, <2>11, UntouchedPosted
  <2>13. Keeps(p, q)
    <3>1. Keeps(p, g)
      BY <2>3, <2>9, KeepsTrans
    <3> QED BY <2>11, <3>1, KeepsTrans
  <2>14. q.cooldown = p.cooldown /\ q.queue = g.queue /\ c.queue = p.queue
    BY <2>3, <2>9, <2>11 DEF SameMail
  <2>15. \A id \in DOMAIN q.episodes : q.episodes[id].accepted = p.episodes[id].accepted
    <3>1. DOMAIN g.episodes \subseteq DOMAIN c.episodes
      BY <2>9 DEF Keeps
    <3> QED BY <2>3, <2>9, <2>11, <3>1
  <2> QED BY <2>9, <2>12, <2>13, <2>14, <2>15 DEF Ticks
<1>3. p.enabled \in BOOLEAN
  BY PolicyFacts DEF Sound
<1> QED BY <1>1, <1>2, <1>3

-----------------------------------------------------------------------------
(***************************************************************************)
(* Slots and limits.                                                       *)
(***************************************************************************)

(* A delivery of the service, whatever the bounds of a run.                *)
Flight == [envelope : Letters, done : BOOLEAN]

(* The running attempts that are not tests.                                *)
Plain(D) == {i \in Running(D) : ~D[i].envelope.test}

(* The counter and the limits.                                             *)
Counted(p, D, n) ==
  /\ D \in Seq(Flight) /\ n = Cardinality(Running(D)) /\ n <= MaxInFlight
  /\ Len(p.queue) + Cardinality(Plain(D)) <= QueueLimit
  /\ \A i \in DOMAIN D : D[i].envelope.attempts \in 1..Attempts

(* There are finitely many attempts.                                       *)
LEMMA RunningFacts ==
  ASSUME NEW D \in Seq(Flight)
  PROVE  /\ IsFiniteSet(Running(D)) /\ Cardinality(Running(D)) \in Nat
         /\ IsFiniteSet(Plain(D)) /\ Cardinality(Plain(D)) \in Nat
         /\ Cardinality(Plain(D)) <= Cardinality(Running(D))
<1>1. Len(D) \in Nat /\ DOMAIN D = 1..Len(D)
  OBVIOUS
<1>2. IsFiniteSet(1..Len(D))
  BY <1>1, FS_Interval
<1>3. Running(D) \in SUBSET (1..Len(D)) /\ Plain(D) \in SUBSET Running(D)
  BY <1>1 DEF Running, Plain
<1>4. IsFiniteSet(Running(D))
  BY <1>2, <1>3, FS_Subset
<1>5. IsFiniteSet(Plain(D)) /\ Cardinality(Plain(D)) <= Cardinality(Running(D))
  BY <1>3, <1>4, FS_Subset
<1> QED BY <1>4, <1>5, FS_CardinalityType

(* An attempt that leaves takes its place with it.                         *)
LEMMA DropsCounts ==
  ASSUME NEW D \in Seq(Flight), NEW E \in Seq(Flight), NEW i, NEW m, Drops(D, i, E, m)
  PROVE  /\ Cardinality(Running(E)) = Cardinality(Running(D)) - (IF i \in Running(D) THEN 1 ELSE 0)
         /\ Cardinality(Plain(E)) <= Cardinality(Plain(D)) - (IF i \in Plain(D) THEN 1 ELSE 0)
<1> DEFINE S == Running(D) \ {i}
           T == Plain(D) \ {i}
           g == [k \in Plain(E) |-> m[k]]
<1>0. /\ m \in [Running(E) -> S]
      /\ \A k, l \in Running(E) : m[k] = m[l] => k = l
      /\ \A j \in S : \E k \in Running(E) : m[k] = j
      /\ \A k \in Running(E) : E[k].envelope = D[m[k]].envelope
  BY DEF Drops
<1>1. /\ IsFiniteSet(Running(D)) /\ Cardinality(Running(D)) \in Nat
      /\ IsFiniteSet(Plain(D)) /\ Cardinality(Plain(D)) \in Nat
  BY RunningFacts
<1>2. IsFiniteSet(S) /\ Cardinality(S) = Cardinality(Running(D)) - (IF i \in Running(D) THEN 1 ELSE 0)
  BY <1>1, FS_RemoveElement
<1>3. IsFiniteSet(T) /\ Cardinality(T) = Cardinality(Plain(D)) - (IF i \in Plain(D) THEN 1 ELSE 0)
  BY <1>1, FS_RemoveElement
<1>4. Plain(E) \subseteq Running(E) /\ T \subseteq S
  BY DEF Plain
<1>5. \A k \in Plain(E) : m[k] \in T
  BY <1>0 DEF Plain
<1> HIDE DEF S, T
<1>6. m \in Injection(Running(E), S) /\ m \in Surjection(Running(E), S)
  BY <1>0 DEF Injection, IsInjective, Surjection
<1>7. Cardinality(Running(E)) = Cardinality(S)
  BY <1>2, <1>6, FS_Injection
<1>8. g \in [Plain(E) -> T]
  BY <1>5
<1>9. g \in Injection(Plain(E), T)
  BY <1>0, <1>4, <1>8 DEF Injection, IsInjective
<1>10. Cardinality(Plain(E)) <= Cardinality(T)
  <2> HIDE DEF g
  <2> QED BY <1>3, <1>9, FS_Injection
<1> QED BY <1>2, <1>3, <1>7, <1>10

(* What one more attempt adds to the counters.                             *)
Joined(D, d, E) ==
  /\ E \in Seq(Flight) /\ Len(E) = Len(D) + 1 /\ E[Len(E)] = d /\ Len(E) \in Nat
  /\ \A k \in DOMAIN D : k \in DOMAIN E /\ E[k] = D[k]
  /\ \A k \in DOMAIN E : k \in DOMAIN D \/ k = Len(E)
  /\ Len(E) \in Running(E) /\ Running(D) = Running(E) \ {Len(E)}
  /\ Cardinality(Running(E)) = Cardinality(Running(D)) + 1
  /\ Cardinality(Plain(E)) = Cardinality(Plain(D)) + (IF d.envelope.test THEN 0 ELSE 1)

(* One more attempt takes one place.                                       *)
LEMMA AppendCounts ==
  ASSUME NEW D \in Seq(Flight), NEW d \in Flight, ~d.done, NEW E, E = Append(D, d)
  PROVE  Joined(D, d, E)
<1> DEFINE n == Len(D) + 1
<1>1. /\ E \in Seq(Flight) /\ Len(E) = n /\ E[n] = d /\ n \in Nat
      /\ DOMAIN D = 1..Len(D) /\ DOMAIN E = 1..n /\ Len(D) \in Nat
      /\ \A k \in DOMAIN D : E[k] = D[k]
  BY AppendProperties
<1>2. \A k \in DOMAIN D : k \in DOMAIN E /\ k # n
  BY <1>1
<1>3. \A k \in DOMAIN E : k \in DOMAIN D \/ k = n
  BY <1>1
<1>4. n \in DOMAIN E /\ n \notin DOMAIN D
  BY <1>1
<1> HIDE DEF n
<1>5. Running(E) = Running(D) \cup {n} /\ n \notin Running(D)
  BY <1>1, <1>2, <1>3, <1>4 DEF Running
<1>6. Plain(E) = (IF d.envelope.test THEN Plain(D) ELSE Plain(D) \cup {n}) /\ n \notin Plain(D)
  BY <1>1, <1>2, <1>4, <1>5 DEF Plain, Running
<1>7. /\ IsFiniteSet(Running(D)) /\ Cardinality(Running(D)) \in Nat
      /\ IsFiniteSet(Plain(D)) /\ Cardinality(Plain(D)) \in Nat
  BY RunningFacts
<1>8. Cardinality(Running(E)) = Cardinality(Running(D)) + 1
  BY <1>5, <1>7, FS_AddElement
<1>9. Cardinality(Plain(E)) = Cardinality(Plain(D)) + (IF d.envelope.test THEN 0 ELSE 1)
  <2>1. CASE d.envelope.test
    <3>1. Plain(E) = Plain(D)
      BY ONLY <1>6, <2>1
    <3> QED BY <1>7, <2>1, <3>1
  <2>2. CASE ~d.envelope.test
    <3>1. Plain(E) = Plain(D) \cup {n}
      BY ONLY <1>6, <2>2
    <3> HIDE DEF Plain
    <3>2. Cardinality(Plain(E)) = Cardinality(Plain(D)) + 1
      BY <1>6, <1>7, <3>1, FS_AddElement
    <3> QED BY <2>2, <3>2
  <2> QED BY <2>1, <2>2
<1>10. Len(E) = n /\ Len(D) + 1 = n
  BY <1>1 DEF n
<1> QED BY <1>1, <1>2, <1>3, <1>5, <1>8, <1>9, <1>10 DEF Joined

(* What a pump call queues fits.                                           *)
LEMMA TicksCounted ==
  ASSUME NEW p, NEW D, NEW n, Counted(p, D, n), p.queue \in Seq(Letters), NEW t,
         NEW q, q.queue \in Seq(Letters), Ticks(p, q, D, QueueLimit - n, t)
  PROVE  Counted(q, D, n)
<1>1. /\ D \in Seq(Flight) /\ n = Cardinality(Running(D)) /\ n <= MaxInFlight
      /\ Len(p.queue) + Cardinality(Plain(D)) <= QueueLimit
      /\ \A i \in DOMAIN D : D[i].envelope.attempts \in 1..Attempts
  BY DEF Counted
<1>2. n \in Nat /\ Cardinality(Plain(D)) \in Nat /\ Cardinality(Plain(D)) <= n
  BY <1>1, RunningFacts
<1>3. q.queue = p.queue \/ Len(q.queue) <= QueueLimit - n
  BY DEF Ticks
<1>4. Len(q.queue) \in Nat /\ QueueLimit \in Nat
  BY ServiceAssumption
<1>5. Len(q.queue) + Cardinality(Plain(D)) <= QueueLimit
  BY <1>1, <1>2, <1>3, <1>4
<1> QED BY <1>1, <1>5 DEF Counted

-----------------------------------------------------------------------------
(***************************************************************************)
(* Edits, observations and reloads leave the mail in order.                *)
(***************************************************************************)

(* What an edit or an observation leaves of the mail.                      *)
Evolves(p, q, D, t) ==
  Sound(q) /\ Grows(p, q) /\ Posted(q, D, t) /\ Len(q.queue) <= Len(p.queue)

(* Letters left out by an edit.                                            *)
LEMMA SiftedEvolves ==
  ASSUME NEW p, Sound(p), NEW D, NEW t \in Nat, Posted(p, D, t), NEW q, Sound(q), Grows(p, q),
         NEW g, Sifts(p, q, g), \A k \in Triples : q.cooldown[k] <= p.cooldown[k],
         Len(q.queue) <= Len(p.queue)
  PROVE  Evolves(p, q, D, t)
<1>1. p \in Policies /\ q \in Policies /\ Ages(p, q) /\ Mailed(p, D) /\ Balanced(p, D) /\ Spaced(p, t)
  BY GrowsAges DEF Sound, Posted
<1>2. Mailed(q, D)
  BY <1>1, SiftedMail
<1>3. Balanced(q, D)
  BY <1>1, GrownBalanced
<1>4. Spaced(q, t)
  BY <1>1, SiftedSpaced
<1> QED BY <1>2, <1>3, <1>4 DEF Evolves, Posted

(* An edit that leaves the queue alone.                                    *)
LEMMA SameQueueEvolves ==
  ASSUME NEW p, Sound(p), NEW D, NEW t \in Nat, Posted(p, D, t), NEW q, Sound(q), Grows(p, q),
         q.queue = p.queue, \A k \in Triples : q.cooldown[k] <= p.cooldown[k]
  PROVE  Evolves(p, q, D, t)
<1> DEFINE g == [k \in DOMAIN q.queue |-> k]
<1>1. Sifts(p, q, g)
  BY DEF Sifts
<1>2. Len(q.queue) <= Len(p.queue)
  BY PolicyFacts DEF Sound
<1> HIDE DEF g
<1> QED BY <1>1, <1>2, SiftedEvolves

(* One edit after another.                                                 *)
LEMMA EvolvesTrans ==
  ASSUME NEW p, Sound(p), NEW D, NEW t, NEW q, Evolves(p, q, D, t), NEW r, Evolves(q, r, D, t)
  PROVE  Evolves(p, r, D, t)
<1>1. Sound(q) /\ Sound(r) /\ Grows(p, q) /\ Grows(q, r) /\ Posted(r, D, t)
      /\ Len(q.queue) <= Len(p.queue) /\ Len(r.queue) <= Len(q.queue)
  BY DEF Evolves
<1>2. p \in Policies /\ q \in Policies /\ r \in Policies /\ Numbered(p)
  BY <1>1 DEF Sound
<1>3. Grows(p, r)
  BY <1>1, <1>2, GrowsTrans
<1>4. Len(r.queue) <= Len(p.queue)
  <2>1. p.queue \in Seq(Letters) /\ q.queue \in Seq(Letters) /\ r.queue \in Seq(Letters)
    BY <1>2, PolicyFacts
  <2>2. Len(p.queue) \in Nat /\ Len(q.queue) \in Nat /\ Len(r.queue) \in Nat
    BY <2>1
  <2> QED BY <1>1, <2>2
<1> QED BY <1>1, <1>3, <1>4 DEF Evolves

(* Cooldowns are times.                                                    *)
LEMMA CooldownFacts ==
  ASSUME NEW p \in Policies, NEW k \in Triples PROVE p.cooldown[k] \in Nat /\ p.cooldown[k] <= p.cooldown[k]
<1>1. p.cooldown[k] \in Nat
  BY PolicyFacts
<1> QED BY <1>1

(* Channels seen again.                                                    *)
LEMMA ObservedAllEvolves ==
  ASSUME NEW p, Sound(p), NEW D, NEW t \in Nat, Posted(p, D, t), NEW state, NEW S,
         NEW q, NotesAll(p, q, S, state)
  PROVE  Evolves(p, q, D, t)
<1>1. Sound(q) /\ Grows(p, q) /\ q.queue = p.queue /\ q.cooldown = p.cooldown /\ p \in Policies
  BY DEF NotesAll, SameMail, Sound
<1>2. \A k \in Triples : q.cooldown[k] <= p.cooldown[k]
  BY <1>1, CooldownFacts
<1> QED BY <1>1, <1>2, SameQueueEvolves

(* One channel seen.                                                       *)
LEMMA ObservedEvolves ==
  ASSUME NEW p, Sound(p), NEW D, NEW t \in Nat, Posted(p, D, t), NEW c, NEW u,
         NEW q, Looks(p, q, c, u)
  PROVE  Evolves(p, q, D, t)
<1>1. Sound(q) /\ Grows(p, q) /\ q.queue = p.queue /\ q.cooldown = p.cooldown /\ p \in Policies
  BY DEF Looks, Notes, SameMail, Sound
<1>2. \A k \in Triples : q.cooldown[k] <= p.cooldown[k]
  BY <1>1, CooldownFacts
<1> QED BY <1>1, <1>2, SameQueueEvolves

(* A new engine.                                                           *)
LEMMA ReconciledEvolves ==
  ASSUME NEW p, Sound(p), NEW D, NEW t \in Nat, Posted(p, D, t), NEW S, NEW state,
         NEW q, Reconciles(p, q, S, state)
  PROVE  Evolves(p, q, D, t)
<1>1. Sound(q) /\ Grows(p, q) /\ q.queue = p.queue /\ p \in Policies
      /\ \A k \in Triples : q.cooldown[k] = IF k[2] \in S THEN p.cooldown[k] ELSE 0
  BY DEF Reconciles, Sound
<1>2. \A k \in Triples : q.cooldown[k] <= p.cooldown[k]
  BY <1>1, CooldownFacts
<1> QED BY <1>1, <1>2, SameQueueEvolves

(* The service turned on or off.                                           *)
LEMMA EnableEvolves ==
  ASSUME NEW p, Sound(p), NEW D, NEW t \in Nat, Posted(p, D, t), NEW on \in BOOLEAN,
         NEW q, Turns(p, q, on)
  PROVE  Evolves(p, q, D, t)
<1>1. Sound(q) /\ Grows(p, q) /\ q.cooldown = p.cooldown /\ p \in Policies
      /\ (q.queue = IF on THEN p.queue ELSE <<>>) /\ (~on => DOMAIN q.episodes = {})
  BY DEF Turns, Sound
<1>2. \A k \in Triples : q.cooldown[k] <= p.cooldown[k]
  BY <1>1, CooldownFacts
<1>3. CASE on
  BY <1>1, <1>2, <1>3, SameQueueEvolves
<1>4. CASE ~on
  <2>1. q.queue = <<>> /\ DOMAIN q.episodes = {} /\ DOMAIN q.queue = {} /\ Len(q.queue) = 0
    BY <1>1, <1>4
  <2>2. Sifts(p, q, <<>>)
    <3>1. <<>> \in [DOMAIN q.queue -> DOMAIN p.queue]
      BY <2>1
    <3> QED BY <2>1, <3>1 DEF Sifts
  <2>3. Len(q.queue) <= Len(p.queue)
    BY <1>1, <2>1, PolicyFacts
  <2> QED BY <1>1, <1>2, <2>2, <2>3, SiftedEvolves
<1> QED BY <1>3, <1>4

(* New settings.                                                           *)
LEMMA ConfigureEvolves ==
  ASSUME NEW p, Sound(p), NEW D, NEW t \in Nat, Posted(p, D, t), NEW s, NEW file,
         NEW q, Configures(p, q, s, file)
  PROVE  Evolves(p, q, D, t)
<1> DEFINE keep == Unchanged(p, s, file)
           places == {i \in DOMAIN p.queue : p.queue[i].rule \in keep}
<1>1. /\ Sound(q) /\ Grows(p, q) /\ p \in Policies /\ q \in Policies /\ Mailed(p, D)
      /\ q.queue = Only(p.queue, places)
      /\ \A k \in Triples : q.cooldown[k] = IF HasRule(q, k[1]) THEN p.cooldown[k] ELSE 0
      /\ \A id \in DOMAIN q.episodes : id \in DOMAIN p.episodes /\ q.episodes[id].rule \in keep
  BY DEF Configures, Sound, Posted
<1>2. \A k \in Triples : q.cooldown[k] <= p.cooldown[k]
  BY <1>1, CooldownFacts
<1>3. p.queue \in Seq(Letters) /\ q.queue \in Seq(Letters) /\ places \in SUBSET DOMAIN p.queue
  BY <1>1, PolicyFacts
<1>4. \A i \in DOMAIN p.queue : i \in places <=> p.queue[i].rule \in keep
  OBVIOUS
<1> HIDE DEF places, keep
<1>5. PICK g \in [DOMAIN q.queue -> places] :
        /\ \A k \in DOMAIN q.queue : q.queue[k] = p.queue[g[k]]
        /\ \A k, l \in DOMAIN q.queue : g[k] = g[l] => k = l
        /\ \A i \in places : \E k \in DOMAIN q.queue : g[k] = i
  <2>1. PlacesOf(q.queue, p.queue, places)
    BY <1>1, <1>3, OnlyPlaces
  <2> QED BY <2>1 DEF PlacesOf
<1>6. ASSUME NEW i \in DOMAIN p.queue, NEW id \in DOMAIN q.episodes, NEW y \in Tokens,
             Announces(p.queue[i], id, y)
      PROVE  \E k \in DOMAIN q.queue : g[k] = i
  <2>1. PICK a \in p.queue[i].alarms : a.episode = id
    BY <1>6 DEF Announces
  <2>2. id \in DOMAIN p.episodes /\ q.episodes[id].rule \in keep /\ KeyOf(q.episodes[id]) = KeyOf(p.episodes[id])
    BY <1>1 DEF Grows, GoesOn
  <2>3. KeyOf(p.episodes[id]) = <<p.queue[i].rule, a.channel>>
    BY <1>1, <2>1, <2>2 DEF Mailed, Addressed
  <2>4. q.episodes[id].rule = p.queue[i].rule
    BY <2>2, <2>3 DEF KeyOf
  <2> QED BY <1>4, <1>5, <2>2, <2>4
<1>7. Sifts(p, q, g)
  <2>1. g \in [DOMAIN q.queue -> DOMAIN p.queue]
    BY <1>3
  <2> QED BY <1>5, <1>6, <2>1 DEF Sifts
<1>8. Len(q.queue) <= Len(p.queue)
  <2> DEFINE n == Len(q.queue)
             m == Len(p.queue)
  <2>1. n \in Nat /\ m \in Nat /\ DOMAIN q.queue = 1..n /\ DOMAIN p.queue = 1..m
    BY <1>3
  <2> HIDE DEF n, m
  <2>2. g \in Injection(1..n, 1..m)
    <3>1. g \in [1..n -> places] /\ places \in SUBSET (1..m)
      BY <1>3, <1>5, <2>1
    <3>2. g \in [1..n -> 1..m]
      BY ONLY <3>1
    <3>3. \A k, l \in 1..n : g[k] = g[l] => k = l
      BY <1>5, <2>1
    <3> QED BY ONLY <3>2, <3>3 DEF Injection, IsInjective
  <2>3. IsFiniteSet(1..m) /\ Cardinality(1..n) = n /\ Cardinality(1..m) = m
    BY <2>1, FS_Interval
  <2>4. n <= m
    BY <2>2, <2>3, FS_Injection
  <2> QED BY <2>4 DEF n, m
<1> QED BY <1>1, <1>2, <1>7, <1>8, SiftedEvolves

(* What an episode notes as accepted was accepted for it.                  *)
ToldOf(p, T) == \A id \in DOMAIN p.episodes : \A d \in p.episodes[id].accepted : <<id, d>> \in T

(* The cooldowns the service was told of are in force, as long as the rule *)
(* exists.                                                                 *)
QuietedOf(p, Q) == \A k \in Triples : Q[k] <= p.cooldown[k] /\ (Q[k] # 0 => HasRule(p, k[1]))

(* The policy saw the channels of S, and saw them as they are.             *)
SeesFresh(p, S, lv) == p.known = S /\ \A c \in S : p.channels[c] = lv[c]

(* Active episodes show, and when a new engine is calm no resolution is    *)
(* due for a suppressed channel.                                           *)
Shown(p) == Showing(p) /\ (Calm => Unsuppressed(p))

(* What an edit leaves of what the service knows.                          *)
LEMMA EvolvedTold ==
  ASSUME NEW p, NEW q, NEW D, NEW t, Evolves(p, q, D, t), NEW T, ToldOf(p, T)
  PROVE  ToldOf(q, T)
  BY DEF Evolves, Grows, GoesOn, Unmarked, ToldOf

(* And of what is hushed.                                                  *)
LEMMA EvolvedSilent ==
  ASSUME NEW p, Sound(p), NEW q, NEW D, NEW t, Evolves(p, q, D, t), NEW H, Silent(p, H)
  PROVE  Silent(q, H)
<1>1. p \in Policies /\ q \in Policies /\ Ages(p, q)
  BY GrowsAges DEF Sound, Evolves
<1> QED BY <1>1, AgesSilent

(* And of the counters.                                                    *)
LEMMA EvolvedCounted ==
  ASSUME NEW p, Sound(p), NEW q, NEW D, NEW t, Evolves(p, q, D, t), NEW n, Counted(p, D, n)
  PROVE  Counted(q, D, n)
<1>1. D \in Seq(Flight) /\ Len(q.queue) <= Len(p.queue)
  BY DEF Counted, Evolves
<1>2. p.queue \in Seq(Letters) /\ q.queue \in Seq(Letters)
  BY PolicyFacts DEF Sound, Evolves
<1>3. Len(p.queue) \in Nat /\ Len(q.queue) \in Nat /\ Cardinality(Plain(D)) \in Nat /\ QueueLimit \in Nat
  BY <1>1, <1>2, RunningFacts, ServiceAssumption
<1>4. Len(p.queue) + Cardinality(Plain(D)) <= QueueLimit
  BY DEF Counted
<1>5. Len(q.queue) + Cardinality(Plain(D)) <= QueueLimit
  BY <1>1, <1>3, <1>4
<1> QED BY <1>5 DEF Counted

(* A channel that changes.                                                 *)
Notices(p, q, c, u, D, t) ==
  /\ Evolves(p, q, D, t) /\ Shown(q) /\ SameRules(p, q) /\ q.cooldown = p.cooldown
  /\ q.known = p.known \cup {c} /\ q.channels = [p.channels EXCEPT ![c] = u]

(* observe.                                                                *)
LEMMA ObservedNotices ==
  ASSUME NEW p, Sound(p), Shown(p), NEW D, NEW t \in Nat, Posted(p, D, t),
         NEW c \in Channels, NEW u \in Update, NEW q, q = Observed(p, c, u, t)
  PROVE  Notices(p, q, c, u, D, t)
<1>1. Looks(p, q, c, u)
  BY ObservedSound
<1>2. Evolves(p, q, D, t)
  BY <1>1, ObservedEvolves
<1>3. /\ SameRules(p, q) /\ q.cooldown = p.cooldown /\ (Unsuppressed(p) => Unsuppressed(q))
      /\ (Showing(p) => Showing(q)) /\ q.known = p.known \cup {c} /\ q.channels = [p.channels EXCEPT ![c] = u]
  BY <1>1 DEF Looks, Notes, SameMail
<1>4. Shown(q)
  BY <1>3 DEF Shown
<1> QED BY <1>2, <1>3, <1>4 DEF Notices

(* A policy turned on or off.                                              *)
Switches(p, q, on, D, t) ==
  /\ Evolves(p, q, D, t) /\ Shown(q) /\ q.cooldown = p.cooldown /\ q.settings = p.settings
  /\ q.configuration = p.configuration
  /\ q.enabled = on /\ q.known = p.known /\ q.channels = p.channels /\ q.count = p.count

(* setEnabled, with the mail.                                              *)
LEMMA EnableSwitches ==
  ASSUME NEW p, Sound(p), Shown(p), NEW D, NEW t \in Nat, Posted(p, D, t),
         NEW on \in BOOLEAN, NEW q, q = Enable(p, on)
  PROVE  Switches(p, q, on, D, t)
<1>1. Turns(p, q, on)
  BY EnableSound
<1>2. Evolves(p, q, D, t)
  BY <1>1, EnableEvolves
<1>3. /\ q.cooldown = p.cooldown /\ q.settings = p.settings /\ q.enabled = on /\ SameSight(p, q)
      /\ (Unsuppressed(p) => Unsuppressed(q)) /\ (Showing(p) => Showing(q)) /\ q.count = p.count
      /\ q.configuration = p.configuration
  BY <1>1 DEF Turns
<1>4. Shown(q)
  BY <1>3 DEF Shown
<1> QED BY <1>2, <1>3, <1>4 DEF Switches, SameSight

(* Channels shown again, all at once.                                      *)
ShowsAll(p, q, S, lv, D, t) ==
  /\ Evolves(p, q, D, t) /\ Shown(q) /\ SameRules(p, q) /\ q.cooldown = p.cooldown
  /\ q.known = p.known \cup S
  /\ \A c \in Channels : q.channels[c] = IF c \in S THEN lv[c] ELSE p.channels[c]

(* observe for every channel.                                              *)
LEMMA ObservedAllShows ==
  ASSUME NEW p, Sound(p), Shown(p), NEW D, NEW t \in Nat, Posted(p, D, t),
         NEW S \in SUBSET Channels, NEW lv \in [Channels -> Update], NEW q, q = ObservedAll(p, S, lv, t)
  PROVE  ShowsAll(p, q, S, lv, D, t)
<1>1. NotesAll(p, q, S, lv)
  BY ObservedAllSound
<1>2. Evolves(p, q, D, t)
  BY <1>1, ObservedAllEvolves
<1>3. /\ SameRules(p, q) /\ q.cooldown = p.cooldown /\ (Unsuppressed(p) => Unsuppressed(q))
      /\ (Showing(p) => Showing(q)) /\ q.known = p.known \cup S
      /\ \A c \in Channels : q.channels[c] = IF c \in S THEN lv[c] ELSE p.channels[c]
  BY <1>1 DEF NotesAll, SameMail
<1>4. Shown(q)
  BY <1>3 DEF Shown
<1> QED BY <1>2, <1>3, <1>4 DEF ShowsAll

(* Settings put in force.                                                  *)
Resets(p, q, s, file, D, t) ==
  /\ Evolves(p, q, D, t) /\ Shown(q) /\ q.settings = s /\ q.configuration = file
  /\ q.enabled = p.enabled /\ q.known = p.known /\ q.channels = p.channels
  /\ \A k \in Triples : q.cooldown[k] = IF HasRule(q, k[1]) THEN p.cooldown[k] ELSE 0

(* setSettings, with the mail.                                             *)
LEMMA ConfigureResets ==
  ASSUME NEW p, Sound(p), Shown(p), NEW D, NEW t \in Nat, Posted(p, D, t),
         NEW s \in NotificationSettings, NEW file \in Files, NEW q, q = Configure(p, s, file)
  PROVE  Resets(p, q, s, file, D, t)
<1>1. Configures(p, q, s, file)
  BY ConfigureSound
<1>2. Evolves(p, q, D, t)
  BY <1>1, ConfigureEvolves
<1>3. /\ q.settings = s /\ q.configuration = file /\ q.enabled = p.enabled /\ SameSight(p, q)
      /\ (Unsuppressed(p) => Unsuppressed(q)) /\ (Showing(p) => Showing(q))
      /\ \A k \in Triples : q.cooldown[k] = IF HasRule(q, k[1]) THEN p.cooldown[k] ELSE 0
  BY <1>1 DEF Configures
<1>4. Shown(q)
  BY <1>3 DEF Shown
<1> QED BY <1>2, <1>3, <1>4 DEF Resets, SameSight

(* A new engine.                                                           *)
Reloads(p, q, S, lv, D, t) ==
  /\ Evolves(p, q, D, t) /\ Shown(q) /\ SeesFresh(q, S, lv)
  /\ \A k \in Triples :
       HasRule(p, k[1]) /\ HasRule(q, k[1]) /\ k[2] \in S => q.cooldown[k] = p.cooldown[k]

(* Another file is opened with the service disabled (setConfigurationKey). *)
PausedFor(p, file) == IF file = p.configuration THEN p ELSE Enable(p, FALSE)

(* A new engine for a file, before the settings of that file are read.     *)
Reopened(p, file, S, lv) ==
  Reconciled(Configure(PausedFor(p, file), PausedFor(p, file).settings, file), S, lv)

(* A new engine with the settings of before.                               *)
Reopens(p, q, S, lv, D, t) == Reloads(p, q, S, lv, D, t) /\ q.settings = p.settings

(* A reload up to reconcile.                                               *)
LEMMA ReconciledReloads ==
  ASSUME NEW p, Sound(p), Shown(p), NEW D, NEW t \in Nat, Posted(p, D, t),
         NEW S \in SUBSET Channels, NEW lv \in [Channels -> Update], NEW file \in Files,
         lv \in [Channels -> Reloaded],
         NEW q, q = Reopened(p, file, S, lv)
  PROVE  Reopens(p, q, S, lv, D, t)
<1> DEFINE o == PausedFor(p, file)
<1>1. /\ Evolves(p, o, D, t) /\ Shown(o) /\ o.settings = p.settings /\ o.cooldown = p.cooldown
  <2>1. CASE file = p.configuration
    <3>1. o = p /\ p \in Policies
      BY <2>1 DEF Sound, PausedFor
    <3>2. Evolves(p, p, D, t)
      BY <3>1, SameQueueEvolves, GrowsSelf, CooldownFacts
    <3> QED BY <3>1, <3>2
  <2>2. CASE file # p.configuration
    <3>1. Switches(p, o, FALSE, D, t)
      <4>1. o = Enable(p, FALSE) /\ FALSE \in BOOLEAN
        BY <2>2 DEF PausedFor
      <4> QED BY <4>1, EnableSwitches
    <3> QED BY <3>1 DEF Switches
  <2> QED BY <2>1, <2>2
<1>2. Sound(o) /\ Posted(o, D, t) /\ o.settings \in NotificationSettings
  BY <1>1, PolicyFacts DEF Evolves, Sound
<1> DEFINE c == Configure(o, o.settings, file)
<1>2a. q = Reconciled(c, S, lv)
  BY DEF Reopened
<1> HIDE DEF o
<1>3. Resets(o, c, o.settings, file, D, t)
  BY <1>1, <1>2, ConfigureResets
<1> HIDE DEF c
<1>4. Sound(c) /\ Posted(c, D, t) /\ c.settings = p.settings /\ Evolves(o, c, D, t)
      /\ \A k \in Triples : c.cooldown[k] = IF HasRule(c, k[1]) THEN o.cooldown[k] ELSE 0
  BY <1>1, <1>3 DEF Resets, Evolves
<1>5. Reconciles(c, q, S, lv)
  BY <1>2a, <1>4, ReconciledSound
<1>6. /\ Showing(q) /\ SameRules(c, q) /\ q.known = S
      /\ \A x \in Channels : q.channels[x] = IF x \in S THEN lv[x] ELSE Unknown
      /\ \A k \in Triples : q.cooldown[k] = IF k[2] \in S THEN c.cooldown[k] ELSE 0
      /\ (\A x \in S : ~lv[x].suppressed) => Unsuppressed(q)
  BY <1>5 DEF Reconciles
<1>7. Evolves(p, q, D, t)
  <2>1. Evolves(c, q, D, t)
    BY <1>4, <1>5, ReconciledEvolves
  <2>2. Evolves(p, c, D, t)
    BY <1>1, <1>4, EvolvesTrans
  <2> QED BY <2>1, <2>2, EvolvesTrans
<1>8. Shown(q)
  <2>1. \A x \in S : lv[x] \in Reloaded
    OBVIOUS
  <2> QED BY <1>6, <2>1 DEF Shown, Calm
<1>9. SeesFresh(q, S, lv)
  BY <1>6 DEF SeesFresh
<1>10. \A k \in Triples :
         HasRule(p, k[1]) /\ HasRule(q, k[1]) /\ k[2] \in S => q.cooldown[k] = p.cooldown[k]
  <2>1. \A id : HasRule(c, id) = HasRule(p, id)
    BY <1>4 DEF HasRule
  <2> QED BY <1>1, <1>4, <1>6, <2>1
<1>11. q.settings = p.settings
  BY <1>4, <1>6 DEF SameRules
<1> QED BY <1>7, <1>8, <1>9, <1>10, <1>11 DEF Reloads, Reopens

(* And the settings of its file.                                           *)
LEMMA ReloadsOn ==
  ASSUME NEW p, Sound(p), NEW D, NEW t \in Nat,
         NEW S \in SUBSET Channels, NEW lv \in [Channels -> Update], NEW file \in Files,
         NEW q, Reloads(p, q, S, lv, D, t), q.settings = p.settings, NEW s \in NotificationSettings,
         NEW r, r = ObservedAll(Configure(q, s, file), S, lv, t)
  PROVE  Reloads(p, r, S, lv, D, t)
<1> DEFINE c == Configure(q, s, file)
<1>1. /\ Evolves(p, q, D, t) /\ Sound(q) /\ Posted(q, D, t) /\ Shown(q) /\ SeesFresh(q, S, lv)
      /\ \A k \in Triples :
           HasRule(p, k[1]) /\ HasRule(q, k[1]) /\ k[2] \in S => q.cooldown[k] = p.cooldown[k]
  BY DEF Reloads, Evolves
<1>2. Resets(q, c, s, file, D, t)
  BY <1>1, ConfigureResets
<1> HIDE DEF c
<1>3. /\ Evolves(q, c, D, t) /\ Sound(c) /\ Posted(c, D, t) /\ Shown(c) /\ c.known = S
      /\ \A k \in Triples : c.cooldown[k] = IF HasRule(c, k[1]) THEN q.cooldown[k] ELSE 0
  BY <1>1, <1>2 DEF Resets, Evolves, SeesFresh
<1>4. ShowsAll(c, r, S, lv, D, t)
  BY <1>3, ObservedAllShows DEF c
<1>5. /\ Evolves(c, r, D, t) /\ Shown(r) /\ SameRules(c, r) /\ r.cooldown = c.cooldown /\ r.known = S
      /\ \A x \in S : r.channels[x] = lv[x]
  BY <1>3, <1>4 DEF ShowsAll
<1>6. Evolves(p, r, D, t)
  <2>1. Evolves(p, c, D, t)
    BY <1>1, <1>3, EvolvesTrans
  <2> QED BY <1>5, <2>1, EvolvesTrans
<1>7. ASSUME NEW k \in Triples, HasRule(p, k[1]), HasRule(r, k[1]), k[2] \in S
      PROVE  r.cooldown[k] = p.cooldown[k]
  <2>1. HasRule(c, k[1])
    BY <1>5, <1>7 DEF SameRules, HasRule
  <2>2. HasRule(q, k[1])
    BY <1>7 DEF HasRule
  <2> QED BY <1>1, <1>3, <1>5, <1>7, <2>1, <2>2
<1> QED BY <1>5, <1>6, <1>7 DEF Reloads, SeesFresh

-----------------------------------------------------------------------------
(***************************************************************************)
(* The invariant of the service, and the steps that edit.                  *)
(***************************************************************************)

(* The policy knows the channels of the engine it is attached to, and      *)
(* while it is enabled it saw what they show now; without an engine        *)
(* nothing pumps.                                                          *)
Wired ==
  /\ policy.known = unique
  /\ ~attached => unique = {}
  /\ pumping => attached
  /\ policy.enabled /\ attached => \A c \in unique : policy.channels[c] = live[c]

(* The kinds of the other variables.                                       *)
Kinds ==
  /\ live \in [Channels -> Update] /\ unique \subseteq Channels
  /\ attached \in BOOLEAN /\ timerActive \in BOOLEAN /\ pumping \in BOOLEAN
  /\ now \in 0..MaxNow /\ quiet \in [Triples -> Nat] /\ policy.count <= MaxEpisodes

(* The inductive invariant of the service: the policy is sound and shows   *)
(* what is live; its letters, counters and marks agree with the            *)
(* deliveries; what was told, hushed and silenced is noted.                *)
Inv ==
  /\ Sound(policy) /\ Shown(policy) /\ Posted(policy, deliveries, now)
  /\ Counted(policy, deliveries, inFlight)
  /\ ToldOf(policy, told) /\ Silent(policy, hushed) /\ QuietedOf(policy, quiet)
  /\ Wired /\ Kinds

(* What an edit leaves to be shown.                                        *)
EditedInv ==
  /\ Sound(policy') /\ Shown(policy') /\ Posted(policy', deliveries', now')
  /\ Counted(policy', deliveries', inFlight')
  /\ ToldOf(policy', told') /\ Silent(policy', hushed)

(* The parts of the invariant after an edit.                               *)
LEMMA EditStep ==
  ASSUME Inv, Evolves(policy, policy', deliveries, now), Shown(policy'),
         UNCHANGED <<deliveries, inFlight, now, told>>
  PROVE  EditedInv
<1>1. Sound(policy) /\ Counted(policy, deliveries, inFlight) /\ ToldOf(policy, told) /\ Silent(policy, hushed)
  BY DEF Inv
<1>2. Sound(policy') /\ Posted(policy', deliveries, now)
  BY DEF Evolves
<1>3. Counted(policy', deliveries, inFlight)
  BY <1>1, EvolvedCounted
<1>4. ToldOf(policy', told)
  BY <1>1, EvolvedTold
<1>5. Silent(policy', hushed)
  BY <1>1, EvolvedSilent
<1> QED BY <1>2, <1>3, <1>4, <1>5 DEF EditedInv

(* What is hushed now is not due.                                          *)
LEMMA HushedStep ==
  ASSUME EditedInv, hushed' = hushed \cup NewlyHushed
  PROVE  Silent(policy', hushed')
<1>1. Sound(policy') /\ Shown(policy') /\ Silent(policy', hushed)
  BY DEF EditedInv
<1>2. ASSUME NEW id \in NewlyHushed
      PROVE  /\ id \in 1..policy'.count /\ id \in DOMAIN policy'.episodes
             /\ ~policy'.episodes[id].active /\ (Calm => ~policy'.episodes[id].resolved)
  <2>1. /\ id \in DOMAIN policy'.episodes /\ ~policy'.episodes[id].active
        /\ policy'.channels[policy'.episodes[id].channel].suppressed
    BY DEF NewlyHushed
  <2>2. id \in 1..policy'.count
    BY <1>1, <2>1 DEF Sound, Numbered
  <2>3. Calm => ~policy'.episodes[id].resolved
    BY <1>1, <2>1 DEF Shown, Unsuppressed
  <2> QED BY <2>1, <2>2, <2>3
<1> QED BY <1>1, <1>2 DEF Silent

(* The clock is a number.                                                  *)
LEMMA NowFacts == ASSUME Kinds PROVE now \in Nat
  BY PolicyAssumption DEF Kinds

(* An update of a channel, observed at once.                               *)
LEMMA ChannelChangesInv ==
  ASSUME Inv, NEW c \in Channels, NEW u \in Updates, ChannelChanges(c, u)
  PROVE  Inv'
<1>1. /\ attached /\ live' = [live EXCEPT ![c] = u]
      /\ policy' = IF Observing(policy) /\ c \in unique THEN Observed(policy, c, u, now) ELSE policy
      /\ policy'.count <= MaxEpisodes /\ hushed' = hushed \cup NewlyHushed
      /\ UNCHANGED <<attached, unique, deliveries, inFlight, timerActive, pumping, now, told, quiet>>
  BY DEF ChannelChanges
<1>2. u \in Update
  BY ServiceAssumption
<1>3. Sound(policy) /\ Shown(policy) /\ Posted(policy, deliveries, now) /\ Wired /\ Kinds /\ QuietedOf(policy, quiet)
  BY DEF Inv
<1>4. now \in Nat
  BY <1>3, NowFacts
<1>5. CASE Observing(policy) /\ c \in unique
  <2>1. Notices(policy, policy', c, u, deliveries, now)
    BY <1>1, <1>2, <1>3, <1>4, <1>5, ObservedNotices
  <2>2. /\ Evolves(policy, policy', deliveries, now) /\ Shown(policy') /\ SameRules(policy, policy')
        /\ policy'.cooldown = policy.cooldown /\ policy'.known = policy.known \cup {c}
        /\ policy'.channels = [policy.channels EXCEPT ![c] = u]
    BY <2>1 DEF Notices
  <2>3. EditedInv
    BY <1>1, <2>2, EditStep
  <2>4. Silent(policy', hushed')
    BY <1>1, <2>3, HushedStep
  <2>5. QuietedOf(policy', quiet')
    BY <1>1, <1>3, <2>2 DEF QuietedOf, SameRules, HasRule
  <2>6. Wired'
    <3>1. policy.channels \in [Channels -> Update] /\ live \in [Channels -> Update] /\ unique \subseteq Channels
      BY <1>3, PolicyFacts DEF Sound, Kinds
    <3>2. \A x \in unique : policy.channels[x] = live[x]
      BY <1>3, <1>5 DEF Wired, Observing
    <3>3. \A x \in unique : policy'.channels[x] = live'[x]
      BY <1>1, <2>2, <3>1, <3>2
    <3> QED BY <1>1, <1>3, <1>5, <2>2, <3>3 DEF Wired
  <2>7. Kinds'
    BY <1>1, <1>2, <1>3 DEF Kinds
  <2> QED BY <2>3, <2>4, <2>5, <2>6, <2>7 DEF Inv, EditedInv
<1>6. CASE ~(Observing(policy) /\ c \in unique)
  <2>1. policy' = policy
    BY <1>1, <1>6
  <2>2. Evolves(policy, policy', deliveries, now)
    <3>1. policy \in Policies
      BY <1>3 DEF Sound
    <3> QED BY <1>3, <1>4, <2>1, <3>1, SameQueueEvolves, GrowsSelf, CooldownFacts
  <2>3. EditedInv
    BY <1>1, <1>3, <2>1, <2>2, EditStep
  <2>4. Silent(policy', hushed')
    BY <1>1, <2>3, HushedStep
  <2>5. Wired'
    <3>1. live \in [Channels -> Update] /\ unique \subseteq Channels
      BY <1>3 DEF Kinds
    <3>2. policy.enabled => c \notin unique
      BY <1>1, <1>6 DEF Observing
    <3>3. policy.enabled => \A x \in unique : policy.channels[x] = live'[x]
      BY <1>1, <1>3, <3>1, <3>2 DEF Wired
    <3> QED BY <1>1, <1>3, <2>1, <3>3 DEF Wired
  <2>6. Kinds'
    BY <1>1, <1>2, <1>3, <2>1 DEF Kinds
  <2>7. QuietedOf(policy', quiet')
    BY <1>1, <1>3, <2>1
  <2> QED BY <2>3, <2>4, <2>5, <2>6, <2>7 DEF Inv, EditedInv
<1> QED BY <1>5, <1>6

(* Notifications are switched on.                                          *)
LEMMA SwitchOnInv ==
  ASSUME Inv, SwitchOn
  PROVE  Inv'
<1> DEFINE o == Enable(policy, TRUE)
           S == IF attached THEN unique ELSE {}
<1>1. /\ policy' = ObservedAll(o, S, live, now) /\ policy'.count <= MaxEpisodes /\ timerActive' = TRUE
      /\ UNCHANGED <<live, attached, unique, deliveries, inFlight, pumping, now, history>>
  BY DEF SwitchOn, ObserveAll
<1>2. Sound(policy) /\ Shown(policy) /\ Posted(policy, deliveries, now) /\ Wired /\ Kinds /\ QuietedOf(policy, quiet)
      /\ Silent(policy, hushed)
  BY DEF Inv
<1>3. now \in Nat
  BY <1>2, NowFacts
<1>4. /\ Evolves(policy, o, deliveries, now) /\ Shown(o) /\ o.cooldown = policy.cooldown
      /\ o.settings = policy.settings /\ o.known = policy.known
  <2>1. Switches(policy, o, TRUE, deliveries, now)
    BY <1>2, <1>3, EnableSwitches
  <2> QED BY <2>1 DEF Switches
<1> HIDE DEF o
<1>5. Sound(o) /\ Posted(o, deliveries, now)
  BY <1>4 DEF Evolves
<1>6. S \in SUBSET Channels /\ live \in [Channels -> Update] /\ (attached => S = unique) /\ S \subseteq unique
  BY <1>2 DEF Kinds
<1> HIDE DEF S
<1>7. ShowsAll(o, policy', S, live, deliveries, now)
  BY <1>1, <1>3, <1>4, <1>5, <1>6, ObservedAllShows
<1>8. /\ Evolves(o, policy', deliveries, now) /\ Shown(policy') /\ SameRules(o, policy')
      /\ policy'.cooldown = o.cooldown /\ policy'.known = o.known \cup S
      /\ \A c \in Channels : policy'.channels[c] = IF c \in S THEN live[c] ELSE o.channels[c]
  BY <1>7 DEF ShowsAll
<1>9. Evolves(policy, policy', deliveries, now)
  BY <1>2, <1>4, <1>8, EvolvesTrans
<1>10. EditedInv
  BY <1>1, <1>8, <1>9, EditStep DEF history
<1>11. QuietedOf(policy', quiet')
  <2>1. \A id : HasRule(policy', id) = HasRule(policy, id)
    BY <1>4, <1>8 DEF SameRules, HasRule
  <2> QED BY <1>1, <1>2, <1>4, <1>8, <2>1 DEF QuietedOf, history
<1>12. Wired'
  <2>1. policy'.known = unique
    BY <1>2, <1>4, <1>6, <1>8 DEF Wired
  <2>2. attached => \A c \in unique : policy'.channels[c] = live[c]
    BY <1>2, <1>6, <1>8 DEF Kinds
  <2> QED BY <1>1, <1>2, <2>1, <2>2 DEF Wired
<1>13. Kinds'
  BY <1>1, <1>2 DEF Kinds, history
<1>14. Silent(policy', hushed')
  BY <1>1, <1>10 DEF EditedInv, history
<1> QED BY <1>10, <1>11, <1>12, <1>13, <1>14 DEF Inv, EditedInv

(* Notifications are paused or switched off.                               *)
LEMMA PauseInv ==
  ASSUME Inv, Pause
  PROVE  Inv'
<1>1. /\ policy' = Enable(policy, FALSE) /\ timerActive' = TRUE
      /\ UNCHANGED <<live, attached, unique, deliveries, inFlight, pumping, now, history>>
  BY DEF Pause
<1>2. Sound(policy) /\ Shown(policy) /\ Posted(policy, deliveries, now) /\ Wired /\ Kinds /\ QuietedOf(policy, quiet)
  BY DEF Inv
<1>3. now \in Nat
  BY <1>2, NowFacts
<1>4. Switches(policy, policy', FALSE, deliveries, now)
  BY <1>1, <1>2, <1>3, EnableSwitches
<1>5. /\ Evolves(policy, policy', deliveries, now) /\ Shown(policy') /\ policy'.cooldown = policy.cooldown
      /\ policy'.settings = policy.settings /\ policy'.known = policy.known
      /\ policy'.enabled = FALSE /\ policy'.count = policy.count
  BY <1>4 DEF Switches
<1>6. EditedInv
  BY <1>1, <1>5, EditStep DEF history
<1>7. QuietedOf(policy', quiet')
  BY <1>1, <1>2, <1>5 DEF QuietedOf, HasRule, history
<1>8. Wired' /\ Kinds'
  BY <1>1, <1>2, <1>5 DEF Wired, Kinds, history
<1>9. Silent(policy', hushed')
  BY <1>1, <1>6 DEF EditedInv, history
<1> QED BY <1>6, <1>7, <1>8, <1>9 DEF Inv, EditedInv

(* The settings of the dialog are applied.                                 *)
LEMMA ApplyInv ==
  ASSUME Inv, NEW s \in SettingsChoices, Apply(s)
  PROVE  Inv'
<1> DEFINE o == Configure(policy, s, policy.configuration)
           S == IF attached THEN unique ELSE {}
<1>1. /\ policy' = ObservedAll(o, S, live, now) /\ policy'.count <= MaxEpisodes /\ timerActive' = TRUE
      /\ quiet' = Remembered
      /\ UNCHANGED <<live, attached, unique, deliveries, inFlight, pumping, now, told, hushed>>
  BY DEF Apply, ObserveAll
<1>2. Sound(policy) /\ Shown(policy) /\ Posted(policy, deliveries, now) /\ Wired /\ Kinds /\ QuietedOf(policy, quiet)
  BY DEF Inv
<1>3. now \in Nat
  BY <1>2, NowFacts
<1>4. Resets(policy, o, s, policy.configuration, deliveries, now)
  <2>1. s \in NotificationSettings /\ policy.configuration \in Files
    BY <1>2, ServiceAssumption, PolicyFacts DEF Sound
  <2> QED BY <1>2, <1>3, <2>1, ConfigureResets
<1> HIDE DEF o
<1>5. /\ Evolves(policy, o, deliveries, now) /\ Sound(o) /\ Posted(o, deliveries, now) /\ Shown(o)
      /\ o.known = policy.known
      /\ \A k \in Triples : o.cooldown[k] = IF HasRule(o, k[1]) THEN policy.cooldown[k] ELSE 0
  BY <1>4 DEF Resets, Evolves
<1>6. S \in SUBSET Channels /\ live \in [Channels -> Update] /\ (attached => S = unique) /\ S \subseteq unique
  BY <1>2 DEF Kinds
<1> HIDE DEF S
<1>7. ShowsAll(o, policy', S, live, deliveries, now)
  BY <1>1, <1>3, <1>5, <1>6, ObservedAllShows
<1>8. /\ Evolves(o, policy', deliveries, now) /\ Shown(policy') /\ SameRules(o, policy')
      /\ policy'.cooldown = o.cooldown /\ policy'.known = o.known \cup S
      /\ \A c \in Channels : policy'.channels[c] = IF c \in S THEN live[c] ELSE o.channels[c]
  BY <1>7 DEF ShowsAll
<1>9. Evolves(policy, policy', deliveries, now)
  BY <1>2, <1>5, <1>8, EvolvesTrans
<1>10. EditedInv
  BY <1>1, <1>8, <1>9, EditStep
<1>11. quiet' \in [Triples -> Nat] /\ \A k \in Triples :
          quiet'[k] = IF HasRule(policy', k[1]) /\ k[2] \in policy'.known THEN quiet[k] ELSE 0
  BY <1>1, <1>2 DEF Kinds, Remembered
<1>12. QuietedOf(policy', quiet')
  <2> SUFFICES ASSUME NEW k \in Triples
               PROVE  quiet'[k] <= policy'.cooldown[k] /\ (quiet'[k] # 0 => HasRule(policy', k[1]))
    BY DEF QuietedOf
  <2>1. policy'.cooldown[k] \in Nat
    BY <1>10, PolicyFacts DEF EditedInv, Sound
  <2>2. CASE quiet'[k] = 0
    BY <2>1, <2>2
  <2>3. CASE quiet'[k] # 0
    <3>1. HasRule(policy', k[1]) /\ quiet'[k] = quiet[k]
      BY <1>11, <2>3
    <3>2. HasRule(o, k[1])
      BY <1>8, <3>1 DEF SameRules, HasRule
    <3>3. policy'.cooldown[k] = policy.cooldown[k]
      BY <1>5, <1>8, <3>2
    <3> QED BY <1>2, <3>1, <3>3 DEF QuietedOf
  <2> QED BY <2>2, <2>3
<1>13. Wired'
  <2>1. policy'.known = unique
    BY <1>2, <1>5, <1>6, <1>8 DEF Wired
  <2>2. attached => \A c \in unique : policy'.channels[c] = live[c]
    BY <1>2, <1>6, <1>8 DEF Kinds
  <2> QED BY <1>1, <1>2, <2>1, <2>2 DEF Wired
<1>14. Kinds'
  BY <1>1, <1>2, <1>11 DEF Kinds
<1>15. Silent(policy', hushed')
  BY <1>1, <1>10 DEF EditedInv
<1> QED BY <1>10, <1>12, <1>13, <1>14, <1>15 DEF Inv, EditedInv

(* An engine is attached or detached.                                      *)
LEMMA AttachInv ==
  ASSUME Inv, Attach
  PROVE  Inv'
<1>1. PICK S \in Trees, fresh \in [Channels -> Reloaded], file \in ReloadFiles,
           s \in FileSettings \cup {policy.settings} :
        LET p == IF file = policy.configuration THEN policy ELSE Enable(policy, FALSE)
            q == Reconciled(Configure(p, p.settings, file), S, fresh)
        IN  /\ policy' = IF s \in FileSettings
                         THEN ObservedAll(Configure(q, s, file), S, fresh, now)
                         ELSE q
            /\ live' = fresh
            /\ unique' = S
  BY DEF Attach
<1> DEFINE o == IF file = policy.configuration THEN policy ELSE Enable(policy, FALSE)
           q == Reconciled(Configure(o, o.settings, file), S, fresh)
<1>2. /\ policy'.count <= MaxEpisodes /\ hushed' = hushed \cup NewlyHushed
      /\ attached' = TRUE /\ timerActive' = TRUE /\ quiet' = Remembered
      /\ UNCHANGED <<deliveries, inFlight, pumping, now, told>>
  BY DEF Attach
<1>3. Sound(policy) /\ Shown(policy) /\ Posted(policy, deliveries, now) /\ Wired /\ Kinds /\ QuietedOf(policy, quiet)
  BY DEF Inv
<1>4. now \in Nat
  BY <1>3, NowFacts
<1>5. /\ S \in SUBSET Channels /\ fresh \in [Channels -> Update] /\ file \in Files
      /\ s \in FileSettings => s \in NotificationSettings
  BY ServiceAssumption
<1>6. live' = fresh /\ unique' = S /\ policy' = IF s \in FileSettings
                         THEN ObservedAll(Configure(q, s, file), S, fresh, now)
                         ELSE q
  BY <1>1
<1>7. Reopens(policy, q, S, fresh, deliveries, now)
  <2>1. q = Reopened(policy, file, S, fresh)
    BY DEF Reopened, PausedFor
  <2>2. fresh \in [Channels -> Reloaded]
    OBVIOUS
  <2> HIDE DEF o, q
  <2> QED BY ONLY <1>3, <1>4, <1>5, <2>1, <2>2, ReconciledReloads
<1>7a. Reloads(policy, q, S, fresh, deliveries, now) /\ q.settings = policy.settings
  BY <1>7 DEF Reopens
<1> HIDE DEF o, q
<1>8. Reloads(policy, policy', S, fresh, deliveries, now)
  <2>1. CASE s \in FileSettings
    <3>1. policy' = ObservedAll(Configure(q, s, file), S, fresh, now)
      BY <1>6, <2>1
    <3> QED BY <1>3, <1>4, <1>5, <1>7a, <2>1, <3>1, ReloadsOn
  <2>2. CASE s \notin FileSettings
    BY <1>6, <1>7a, <2>2
  <2> QED BY <2>1, <2>2
<1>9. /\ Evolves(policy, policy', deliveries, now) /\ Shown(policy') /\ policy'.known = S
      /\ \A c \in S : policy'.channels[c] = fresh[c]
      /\ \A k \in Triples :
           HasRule(policy, k[1]) /\ HasRule(policy', k[1]) /\ k[2] \in S => policy'.cooldown[k] = policy.cooldown[k]
  BY <1>8 DEF Reloads, SeesFresh
<1>10. EditedInv
  BY <1>2, <1>9, EditStep
<1>11. quiet' \in [Triples -> Nat] /\ \A k \in Triples :
          quiet'[k] = IF HasRule(policy', k[1]) /\ k[2] \in policy'.known THEN quiet[k] ELSE 0
  BY <1>2, <1>3 DEF Kinds, Remembered
<1>12. QuietedOf(policy', quiet')
  <2> SUFFICES ASSUME NEW k \in Triples
               PROVE  quiet'[k] <= policy'.cooldown[k] /\ (quiet'[k] # 0 => HasRule(policy', k[1]))
    BY DEF QuietedOf
  <2>1. policy'.cooldown[k] \in Nat
    BY <1>10, PolicyFacts DEF EditedInv, Sound
  <2>2. CASE quiet'[k] = 0
    BY <2>1, <2>2
  <2>3. CASE quiet'[k] # 0
    <3>1. HasRule(policy', k[1]) /\ k[2] \in S /\ quiet'[k] = quiet[k]
      BY <1>9, <1>11, <2>3
    <3>2. HasRule(policy, k[1]) /\ quiet[k] <= policy.cooldown[k]
      BY <1>3, <2>3, <3>1 DEF QuietedOf
    <3>3. policy'.cooldown[k] = policy.cooldown[k]
      BY <1>9, <3>1, <3>2
    <3> QED BY <3>1, <3>2, <3>3
  <2> QED BY <2>2, <2>3
<1>13. Wired'
  BY <1>2, <1>3, <1>6, <1>9 DEF Wired
<1>14. Kinds'
  BY <1>2, <1>3, <1>5, <1>6, <1>11 DEF Kinds
<1>15. Silent(policy', hushed')
  BY <1>2, <1>10, HushedStep
<1> QED BY <1>10, <1>12, <1>13, <1>14, <1>15 DEF Inv, EditedInv

(* The policy goes on with the rules, the channels and the episodes it has. *)
LEMMA KeepsStep ==
  ASSUME NEW p, Sound(p), Shown(p), NEW q, Keeps(p, q), NEW H, Silent(p, H)
  PROVE  /\ Sound(q) /\ Shown(q) /\ Silent(q, H)
         /\ q.known = p.known /\ q.channels = p.channels /\ q.enabled = p.enabled /\ q.count = p.count
         /\ \A id : HasRule(q, id) = HasRule(p, id) /\ RuleOf(q, id) = RuleOf(p, id)
         /\ DOMAIN q.episodes \subseteq DOMAIN p.episodes
<1>1. SameRules(p, q) /\ SameSight(p, q) /\ q.count = p.count /\ DOMAIN q.episodes \subseteq DOMAIN p.episodes
  BY DEF Keeps
<1>2. Sound(q) /\ Shown(q)
  BY KeepsSound DEF KeepsSoundOp, Shown
<1>3. Silent(q, H)
  <2>1. p \in Policies /\ q \in Policies /\ Ages(p, q)
    BY <1>2, KeepsAges DEF Sound
  <2> QED BY <2>1, AgesSilent
<1>4. \A id : HasRule(q, id) = HasRule(p, id) /\ RuleOf(q, id) = RuleOf(p, id)
  BY <1>1, SameRulesFacts
<1> QED BY <1>1, <1>2, <1>3, <1>4 DEF SameRules, SameSight

(* The first part of a pump call: tick.                                    *)
LEMMA PumpInv ==
  ASSUME Inv, Pump
  PROVE  Inv'
<1>1. PICK order \in SetToSeqs(DOMAIN policy.episodes) :
        policy' = Ticked(policy, order, QueueLimit - inFlight, now)
  BY DEF Pump
<1>2. /\ ~NothingToPump /\ pumping' = TRUE
      /\ UNCHANGED <<live, attached, unique, deliveries, inFlight, timerActive, now, history>>
  BY DEF Pump
<1>3. /\ Sound(policy) /\ Shown(policy) /\ Posted(policy, deliveries, now) /\ Wired /\ Kinds
      /\ QuietedOf(policy, quiet) /\ ToldOf(policy, told) /\ Silent(policy, hushed)
      /\ Counted(policy, deliveries, inFlight)
  BY DEF Inv
<1>4. now \in Nat
  BY <1>3, NowFacts
<1>5. QueueLimit - inFlight \in Int
  <2>1. inFlight \in Nat
    BY <1>3, RunningFacts DEF Counted
  <2> QED BY <2>1, ServiceAssumption
<1>6. Ticks(policy, policy', deliveries, QueueLimit - inFlight, now)
  BY <1>1, <1>3, <1>4, <1>5, TickedTicks
<1>7. /\ Keeps(policy, policy') /\ policy'.cooldown = policy.cooldown /\ Posted(policy', deliveries, now)
      /\ \A id \in DOMAIN policy'.episodes : policy'.episodes[id].accepted = policy.episodes[id].accepted
  BY <1>6 DEF Ticks
<1>8. /\ Sound(policy') /\ Shown(policy') /\ Silent(policy', hushed)
      /\ policy'.known = policy.known /\ policy'.channels = policy.channels /\ policy'.enabled = policy.enabled
      /\ policy'.count = policy.count /\ \A id : HasRule(policy', id) = HasRule(policy, id)
      /\ DOMAIN policy'.episodes \subseteq DOMAIN policy.episodes
  BY <1>3, <1>7, KeepsStep
<1>9. Counted(policy', deliveries, inFlight)
  <2>1. policy.queue \in Seq(Letters) /\ policy'.queue \in Seq(Letters)
    BY <1>3, <1>8, PolicyFacts DEF Sound
  <2> QED BY <1>3, <1>6, <2>1, TicksCounted
<1>10. ToldOf(policy', told')
  BY <1>2, <1>3, <1>7, <1>8 DEF ToldOf, history
<1>11. QuietedOf(policy', quiet')
  BY <1>2, <1>3, <1>7, <1>8 DEF QuietedOf, history
<1>12. attached
  BY <1>2 DEF NothingToPump
<1>13. Wired'
  BY <1>2, <1>3, <1>8, <1>12 DEF Wired
<1>14. Kinds'
  BY <1>2, <1>3, <1>8 DEF Kinds, history
<1>15. Posted(policy', deliveries', now') /\ Counted(policy', deliveries', inFlight') /\ Silent(policy', hushed')
  BY <1>2, <1>7, <1>8, <1>9 DEF history
<1> QED BY <1>8, <1>10, <1>11, <1>13, <1>14, <1>15 DEF Inv

(* The loop of a pump call ends.                                           *)
LEMMA StopPumpInv ==
  ASSUME Inv, StopPump \/ UNCHANGED vars
  PROVE  Inv'
<1>1. /\ policy' = policy /\ live' = live /\ attached' = attached /\ unique' = unique
      /\ deliveries' = deliveries /\ inFlight' = inFlight /\ pumping' = pumping /\ now' = now
      /\ told' = told /\ hushed' = hushed /\ quiet' = quiet
      /\ timerActive' \in {timerActive, FALSE}
  BY DEF StopPump, vars, history
<1>2. /\ Sound(policy) /\ Shown(policy) /\ Posted(policy, deliveries, now) /\ Wired /\ Kinds
      /\ QuietedOf(policy, quiet) /\ ToldOf(policy, told) /\ Silent(policy, hushed)
      /\ Counted(policy, deliveries, inFlight)
  BY DEF Inv
<1>3. Wired' /\ Kinds'
  BY <1>1, <1>2 DEF Wired, Kinds
<1> QED BY <1>1, <1>2, <1>3 DEF Inv

(* The clock goes on.                                                      *)
LEMMA TimePassesInv ==
  ASSUME Inv, TimePasses
  PROVE  Inv'
<1>1. /\ now < MaxNow /\ now' = now + 1
      /\ UNCHANGED <<policy, live, attached, unique, deliveries, inFlight, timerActive, pumping, history>>
  BY DEF TimePasses
<1>2. /\ Sound(policy) /\ Shown(policy) /\ Posted(policy, deliveries, now) /\ Wired /\ Kinds
      /\ QuietedOf(policy, quiet) /\ ToldOf(policy, told) /\ Silent(policy, hushed)
      /\ Counted(policy, deliveries, inFlight)
  BY DEF Inv
<1>3. now \in Nat /\ now + 1 \in 0..MaxNow
  BY <1>1, <1>2, NowFacts, PolicyAssumption DEF Kinds
<1>4. Wired' /\ Kinds'
  BY <1>1, <1>2, <1>3 DEF Wired, Kinds, history
<1>5. Spaced(policy, now + 1)
  <2>1. Spaced(policy, now) /\ Mailed(policy, deliveries) /\ policy \in Policies
    BY <1>2 DEF Posted, Sound
  <2> SUFFICES ASSUME NEW i \in DOMAIN policy.queue, policy.queue[i].attempts = 0, policy.queue[i].stage # Resolution,
                      NEW a \in policy.queue[i].alarms,
                      a.episode \in DOMAIN policy.episodes, policy.episodes[a.episode].active
               PROVE  policy.cooldown[<<policy.queue[i].rule, a.channel,
                                        <<policy.queue[i].stage, policy.queue[i].destination>>>>] <= now + 1
    BY DEF Spaced
  <2>2. policy.cooldown[<<policy.queue[i].rule, a.channel,
                          <<policy.queue[i].stage, policy.queue[i].destination>>>>] <= now
    BY <2>1 DEF Spaced
  <2>3. policy.queue[i] \in Letters
    <3>1. policy.queue \in Seq(Letters)
      BY <2>1, PolicyFacts
    <3> QED BY <3>1, ElementOfSeq
  <2>4. a \in Alarms
    BY <2>3 DEF Letters
  <2>5. <<policy.queue[i].rule, a.channel, <<policy.queue[i].stage, policy.queue[i].destination>>>> \in Triples
    BY <2>3, <2>4 DEF Letters, Alarms, Triples, Token
  <2>6. policy.cooldown[<<policy.queue[i].rule, a.channel,
                          <<policy.queue[i].stage, policy.queue[i].destination>>>>] \in Nat
    BY <2>1, <2>5, CooldownFacts
  <2> QED BY <1>3, <2>2, <2>6
<1>6. Posted(policy, deliveries, now + 1)
  BY <1>2, <1>5 DEF Posted
<1> QED BY <1>1, <1>2, <1>4, <1>6 DEF Inv, history

-----------------------------------------------------------------------------
(***************************************************************************)
(* The end of an attempt, at the service.                                  *)
(***************************************************************************)

(* Where the envelopes of the attempts come from.                          *)
Descends(D, E) == \A k \in DOMAIN E : \E j \in DOMAIN D : E[k].envelope = D[j].envelope

(* The policy and the deliveries after an attempt ended.                   *)
Delivers(p, q, E, n, t) ==
  Keeps(p, q) /\ q.cooldown = p.cooldown /\ Posted(q, E, t) /\ Counted(q, E, n)

(* Deliveries by place.                                                    *)
LEMMA FlightFacts ==
  ASSUME NEW D \in Seq(Flight)
  PROVE  /\ \A i \in DOMAIN D : D[i] \in Flight /\ D[i].envelope \in Letters /\ D[i].done \in BOOLEAN
         /\ DOMAIN D = 1..Len(D) /\ Len(D) \in Nat
<1>1. \A i \in DOMAIN D : D[i] \in Flight
  BY ElementOfSeq
<1> QED BY <1>1 DEF Flight

(* A letter at the end of the queue.                                       *)
LEMMA AppendFacts ==
  ASSUME NEW Q \in Seq(Letters), NEW f \in Letters, NEW R, R = Append(Q, f)
  PROVE  /\ Len(R) = Len(Q) + 1 /\ R[Len(Q) + 1] = f
         /\ \A k \in DOMAIN R : (k \in DOMAIN Q /\ R[k] = Q[k]) \/ (k = Len(Q) + 1 /\ R[k] = f)
<1>1. Len(Q) \in Nat /\ DOMAIN Q = 1..Len(Q)
  OBVIOUS
<1>2. Len(R) = Len(Q) + 1 /\ DOMAIN R = 1..(Len(Q) + 1) /\ R[Len(Q) + 1] = f /\ \A k \in 1..Len(Q) : R[k] = Q[k]
  BY AppendProperties
<1>3. \A k \in 1..(Len(Q) + 1) : k \in 1..Len(Q) \/ k = Len(Q) + 1
  BY <1>1
<1> QED BY <1>1, <1>2, <1>3

(* The end of an attempt.                                                  *)
LEMMA FinishesDelivers ==
  ASSUME NEW p, Sound(p), NEW D, NEW t, Posted(p, D, t), NEW n, Counted(p, D, n),
         NEW i \in Running(D), NEW E \in Seq(Flight), NEW m, Drops(D, i, E, m), Descends(D, E),
         NEW accepted, NEW env, env = D[i].envelope, NEW q, Finishes(p, q, env, accepted)
  PROVE  Delivers(p, q, E, n - 1, t)
<1>0. /\ p \in Policies /\ Keeps(p, q) /\ q \in Policies /\ q.cooldown = p.cooldown /\ Ages(p, q)
      /\ p.queue \in Seq(Letters) /\ Len(p.queue) \in Nat
      /\ DOMAIN q.episodes \subseteq DOMAIN p.episodes
      /\ \A id \in DOMAIN q.episodes : q.episodes[id].active = p.episodes[id].active
  <2>1. p \in Policies /\ Keeps(p, q) /\ q.cooldown = p.cooldown
    BY DEF Sound, Finishes
  <2> QED BY <2>1, KeepsAges, PolicyFacts DEF Keeps, SameLife
<1>1. /\ D \in Seq(Flight) /\ n = Cardinality(Running(D)) /\ n <= MaxInFlight
      /\ Len(p.queue) + Cardinality(Plain(D)) <= QueueLimit
      /\ \A k \in DOMAIN D : D[k].envelope.attempts \in 1..Attempts
      /\ Mailed(p, D) /\ Balanced(p, D) /\ Spaced(p, t)
  BY DEF Counted, Posted
<1>2. i \in DOMAIN D /\ env \in Letters /\ Addressed(p, env) /\ env.attempts \in 1..Attempts
  BY <1>1, FlightFacts DEF Running, Mailed
<1>3. \A k \in DOMAIN E : Addressed(q, E[k].envelope) /\ E[k].envelope.attempts \in 1..Attempts
  <2> TAKE k \in DOMAIN E
  <2>1. PICK j \in DOMAIN D : E[k].envelope = D[j].envelope
    BY DEF Descends
  <2>2. Addressed(p, E[k].envelope) /\ E[k].envelope.attempts \in 1..Attempts
    BY <1>1, <2>1 DEF Mailed
  <2> QED BY <1>0, <2>2, AgesAddressed
<1>4. Balanced(q, E)
  BY <1>1, FinishedBalanced
<1>5. /\ Cardinality(Running(E)) = n - 1
      /\ Cardinality(Plain(E)) <= Cardinality(Plain(D)) - (IF i \in Plain(D) THEN 1 ELSE 0)
      /\ n \in Nat /\ Cardinality(Plain(D)) \in Nat /\ Cardinality(Plain(E)) \in Nat
  BY <1>1, DropsCounts, RunningFacts
<1>6. CASE Retires(p, q, env)
  <2>1. q.queue = p.queue
    BY <1>6 DEF Retires
  <2>2. Mailed(q, E)
    BY <1>0, <1>1, <1>3, <2>1, AgesAddressed DEF Mailed
  <2>3. Spaced(q, t)
    BY <1>0, <1>1, <2>1 DEF Spaced
  <2>4. Counted(q, E, n - 1)
    <3>1. Len(q.queue) + Cardinality(Plain(E)) <= QueueLimit
      BY <1>0, <1>1, <1>5, <2>1, ServiceAssumption
    <3>2. n - 1 <= MaxInFlight
      BY <1>1, <1>5, ServiceAssumption
    <3> QED BY <1>3, <1>5, <3>1, <3>2 DEF Counted
  <2> QED BY <1>0, <1>4, <2>2, <2>3, <2>4 DEF Delivers, Posted
<1>7. ASSUME NEW f, WaitsAgain(p, q, env, f) PROVE Delivers(p, q, E, n - 1, t)
  <2>1. /\ q.queue = Append(p.queue, f) /\ env.attempts < Attempts
        /\ f \in Letters /\ f.rule = env.rule /\ f.attempts = env.attempts /\ ~f.test /\ ~env.test
        /\ \A a \in f.alarms : \E b \in env.alarms : b.episode = a.episode /\ b.channel = a.channel
    BY <1>7 DEF WaitsAgain
  <2>2. /\ Len(q.queue) = Len(p.queue) + 1
        /\ \A k \in DOMAIN q.queue : (k \in DOMAIN p.queue /\ q.queue[k] = p.queue[k]) \/ q.queue[k] = f
    BY <1>0, <2>1, AppendFacts
  <2>3. Addressed(q, f)
    <3>1. Addressed(q, env)
      BY <1>0, <1>2, AgesAddressed
    <3> QED BY <2>1, <3>1 DEF Addressed
  <2>4. Mailed(q, E)
    BY <1>0, <1>1, <1>3, <2>1, <2>2, <2>3, AgesAddressed DEF Mailed
  <2>5. f.attempts # 0
    BY <1>2, <2>1
  <2>6. Spaced(q, t)
    BY <1>0, <1>1, <2>2, <2>5 DEF Spaced
  <2>7. Counted(q, E, n - 1)
    <3>1. i \in Plain(D)
      BY <2>1 DEF Plain
    <3>2. Len(q.queue) + Cardinality(Plain(E)) <= QueueLimit
      BY <1>0, <1>1, <1>5, <2>2, <3>1, ServiceAssumption
    <3>3. n - 1 <= MaxInFlight
      BY <1>1, <1>5, ServiceAssumption
    <3> QED BY <1>3, <1>5, <3>2, <3>3 DEF Counted
  <2> QED BY <1>0, <1>4, <2>4, <2>6, <2>7 DEF Delivers, Posted
<1> QED BY <1>6, <1>7 DEF Finishes

(* An attempt that is over leaves the list.                                *)
LEMMA ForgottenDelivers ==
  ASSUME NEW p, Sound(p), NEW D, NEW t, Posted(p, D, t), NEW n, Counted(p, D, n),
         NEW i, i \notin Running(D), NEW E \in Seq(Flight), NEW m, Drops(D, i, E, m), Descends(D, E)
  PROVE  Posted(p, E, t) /\ Counted(p, E, n)
<1>1. /\ D \in Seq(Flight) /\ n = Cardinality(Running(D)) /\ n <= MaxInFlight
      /\ Len(p.queue) + Cardinality(Plain(D)) <= QueueLimit
      /\ \A k \in DOMAIN D : D[k].envelope.attempts \in 1..Attempts
      /\ Mailed(p, D) /\ Balanced(p, D) /\ Spaced(p, t)
  BY DEF Counted, Posted
<1>2. \A k \in DOMAIN E : Addressed(p, E[k].envelope) /\ E[k].envelope.attempts \in 1..Attempts
  <2> TAKE k \in DOMAIN E
  <2>1. PICK j \in DOMAIN D : E[k].envelope = D[j].envelope
    BY DEF Descends
  <2> QED BY <1>1, <2>1 DEF Mailed
<1>3. Balanced(p, E)
  BY <1>1, FinishedBalanced
<1>4. i \notin Plain(D)
  BY DEF Plain
<1>5. /\ Cardinality(Running(E)) = n /\ Cardinality(Plain(E)) <= Cardinality(Plain(D))
      /\ Cardinality(Plain(D)) \in Nat /\ Cardinality(Plain(E)) \in Nat
  <2>1. Cardinality(Plain(D)) \in Nat /\ Cardinality(Plain(E)) \in Nat /\ n \in Nat
    BY <1>1, RunningFacts
  <2> QED BY <1>1, <1>4, <2>1, DropsCounts
<1>6. Len(p.queue) + Cardinality(Plain(E)) <= QueueLimit
  <2>1. Len(p.queue) \in Nat
    BY PolicyFacts DEF Sound
  <2> QED BY <1>1, <1>5, <2>1, ServiceAssumption
<1> QED BY <1>1, <1>2, <1>3, <1>5, <1>6 DEF Posted, Mailed, Counted

(* The policy and the deliveries go on and the rest stays.                 *)
Rests == UNCHANGED <<live, attached, unique, now, hushed>>

(* The parts of the invariant.                                             *)
LEMMA InvFacts ==
  ASSUME Inv
  PROVE  /\ Sound(policy) /\ Shown(policy) /\ Posted(policy, deliveries, now) /\ Wired /\ Kinds
         /\ QuietedOf(policy, quiet) /\ ToldOf(policy, told) /\ Silent(policy, hushed)
         /\ Counted(policy, deliveries, inFlight) /\ now \in Nat /\ policy \in Policies
  BY NowFacts DEF Inv, Sound

(* The invariant after work on the queue.                                  *)
LEMMA KeptInv ==
  ASSUME Inv, Keeps(policy, policy'), Posted(policy', deliveries', now), Counted(policy', deliveries', inFlight'),
         ToldOf(policy', told'), QuietedOf(policy', quiet'), quiet' \in [Triples -> Nat],
         Rests, timerActive' \in BOOLEAN, pumping' \in {pumping, FALSE}
  PROVE  Inv'
<1>1. /\ Sound(policy') /\ Shown(policy') /\ Silent(policy', hushed)
      /\ policy'.known = policy.known /\ policy'.channels = policy.channels /\ policy'.enabled = policy.enabled
      /\ policy'.count = policy.count
  BY InvFacts, KeepsStep
<1>2. live' = live /\ attached' = attached /\ unique' = unique /\ now' = now /\ hushed' = hushed
  BY DEF Rests
<1>3. pumping' \in BOOLEAN /\ (pumping' => pumping)
  <2>1. pumping \in BOOLEAN
    BY InvFacts DEF Kinds
  <2>2. CASE pumping' = pumping
    BY <2>1, <2>2
  <2>3. CASE pumping' = FALSE
    BY <2>3
  <2> QED BY <2>2, <2>3
<1>4. Wired'
  BY <1>1, <1>2, <1>3, InvFacts DEF Wired
<1>5. Kinds'
  BY <1>1, <1>2, <1>3, InvFacts DEF Kinds
<1> QED BY <1>1, <1>2, <1>4, <1>5 DEF Inv

(* What is told when an attempt ends.                                      *)
LEMMA FinishesTells ==
  ASSUME NEW p, NEW q, NEW env, NEW accepted, Finishes(p, q, env, accepted), NEW T, ToldOf(p, T),
         NEW U, U = IF accepted THEN T \cup Names(env) ELSE T
  PROVE  ToldOf(q, U)
<1> SUFFICES ASSUME NEW id \in DOMAIN q.episodes, NEW d \in q.episodes[id].accepted PROVE <<id, d>> \in U
  BY DEF ToldOf
<1>1. id \in DOMAIN p.episodes
  BY DEF Finishes, Keeps
<1>2. CASE d \in p.episodes[id].accepted
  BY <1>1, <1>2 DEF ToldOf
<1>3. CASE Hits(env, id) /\ accepted /\ env.stage # Resolution /\ d = env.destination
  <2>1. PICK a \in env.alarms : a.episode = id
    BY <1>3 DEF Hits
  <2>2. <<a.episode, env.destination>> \in Names(env)
    BY <1>3 DEF Hits, Names
  <2> QED BY <1>3, <2>1, <2>2
<1> QED BY <1>2, <1>3 DEF Finishes

(* finish keeps the invariant.                                             *)
LEMMA FinishInv ==
  ASSUME Inv, NEW i \in Running(deliveries), NEW accepted \in BOOLEAN, NEW retryable \in BOOLEAN,
         NEW retryAfter \in Nat, Finish(i, accepted, retryable, retryAfter),
         deliveries' \in Seq(Flight), NEW m, Drops(deliveries, i, deliveries', m), Descends(deliveries, deliveries'),
         UNCHANGED <<live, attached, unique, pumping, now, hushed, quiet>>
  PROVE  Inv'
<1> DEFINE env == deliveries[i].envelope
<1>1. /\ policy' = Finished(policy, env, accepted, retryable, retryAfter)
      /\ inFlight' = inFlight - 1 /\ timerActive' = TRUE
      /\ told' = IF accepted THEN told \cup Names(env) ELSE told
  BY DEF Finish
<1>2. env \in Letters
  BY InvFacts, FlightFacts DEF Counted, Running
<1>3. Finishes(policy, policy', env, accepted)
  BY <1>1, <1>2, InvFacts, FinishedFinishes
<1>4. Delivers(policy, policy', deliveries', inFlight - 1, now)
  BY <1>3, InvFacts, FinishesDelivers
<1>5. ToldOf(policy', told')
  BY <1>1, <1>3, InvFacts, FinishesTells
<1> HIDE DEF env
<1>6. Keeps(policy, policy') /\ policy'.cooldown = policy.cooldown
      /\ Posted(policy', deliveries', now) /\ Counted(policy', deliveries', inFlight')
  BY <1>1, <1>4 DEF Delivers
<1>7. QuietedOf(policy', quiet')
  <2>1. \A id : HasRule(policy', id) = HasRule(policy, id)
    BY <1>6, InvFacts, KeepsStep
  <2> QED BY <1>6, <2>1, InvFacts DEF QuietedOf
<1>8. quiet' \in [Triples -> Nat]
  BY InvFacts DEF Kinds
<1> QED BY <1>1, <1>5, <1>6, <1>7, <1>8, KeptInv DEF Rests

(* A removed delivery.                                                     *)
LEMMA RemovalDrops ==
  ASSUME NEW D \in Seq(Flight), NEW i, NEW E, E = Only(D, DOMAIN D \ {i})
  PROVE  E \in Seq(Flight) /\ Descends(D, E) /\ \E m : Drops(D, i, E, m)
<1>1. Thins(Flight, D, i, E)
  BY OnlyDrops
<1>2. PICK m : Drops(D, i, E, m) /\ \A k \in DOMAIN E : \E j \in DOMAIN D : E[k] = D[j]
  BY <1>1 DEF Thins
<1>3. Descends(D, E)
  BY <1>2 DEF Descends
<1> QED BY <1>1, <1>2, <1>3 DEF Thins

(* removeDelivery.                                                         *)
LEMMA RemovedFacts ==
  ASSUME Inv, NEW i, RemoveDelivery(i)
  PROVE  /\ deliveries' \in Seq(Flight) /\ Descends(deliveries, deliveries')
         /\ \E m : Drops(deliveries, i, deliveries', m)
<1>1. deliveries \in Seq(Flight)
  BY InvFacts DEF Counted
<1>2. deliveries' = Only(deliveries, DOMAIN deliveries \ {i})
  BY DEF RemoveDelivery
<1> QED BY <1>1, <1>2, RemovalDrops

(* The mailer exits, fails to start or crashes.                            *)
LEMMA MailerEndsInv ==
  ASSUME Inv, NEW i \in DOMAIN deliveries, MailerEnds(i),
         UNCHANGED <<live, attached, unique, pumping, now, hushed, quiet>>
  PROVE  Inv'
<1>1. RemoveDelivery(i)
  BY DEF MailerEnds
<1>2. deliveries' \in Seq(Flight) /\ Descends(deliveries, deliveries')
  BY <1>1, RemovedFacts
<1>3. PICK m : Drops(deliveries, i, deliveries', m)
  BY <1>1, RemovedFacts
<1>4. CASE deliveries[i].done
  <2>1. policy' = policy /\ inFlight' = inFlight /\ timerActive' = timerActive /\ told' = told
    BY <1>4 DEF MailerEnds
  <2>2. i \notin Running(deliveries)
    BY <1>4 DEF Running
  <2>3. Posted(policy, deliveries', now) /\ Counted(policy, deliveries', inFlight)
    BY <1>2, <1>3, <2>2, InvFacts, ForgottenDelivers
  <2>4. quiet' = quiet /\ live' = live /\ attached' = attached /\ unique' = unique /\ pumping' = pumping
        /\ now' = now /\ hushed' = hushed
    OBVIOUS
  <2>5. Wired' /\ Kinds'
    BY <2>1, <2>4, InvFacts DEF Wired, Kinds
  <2> QED BY <2>1, <2>3, <2>4, <2>5, InvFacts DEF Inv
<1>5. CASE ~deliveries[i].done
  <2>1. PICK outcome \in {<<TRUE, FALSE>>, <<FALSE, TRUE>>, <<FALSE, FALSE>>} :
          Finish(i, outcome[1], outcome[2], 0)
    BY <1>5 DEF MailerEnds
  <2>2. i \in Running(deliveries)
    BY <1>5 DEF Running
  <2>3. outcome[1] \in BOOLEAN /\ outcome[2] \in BOOLEAN
    <3>1. CASE outcome = <<TRUE, FALSE>>
      BY <3>1
    <3>2. CASE outcome = <<FALSE, TRUE>>
      BY <3>2
    <3>3. CASE outcome = <<FALSE, FALSE>>
      BY <3>3
    <3> QED BY <3>1, <3>2, <3>3
  <2> QED BY <1>2, <1>3, <2>1, <2>2, <2>3, FinishInv
<1> QED BY <1>4, <1>5

(* The mailer runs too long.                                               *)
LEMMA MailerTimesOutInv ==
  ASSUME Inv, NEW i \in DOMAIN deliveries, MailerTimesOut(i),
         UNCHANGED <<live, attached, unique, pumping, now, hushed, quiet>>
  PROVE  Inv'
<1>1. Finish(i, FALSE, FALSE, 0) /\ deliveries' = [deliveries EXCEPT ![i].done = TRUE]
  BY DEF MailerTimesOut
<1>2. i \in Running(deliveries)
  BY <1>1 DEF Finish, Running
<1>3. deliveries \in Seq(Flight) /\ \A k \in DOMAIN deliveries : deliveries[k] \in Flight
  BY InvFacts, FlightFacts DEF Counted
<1>4. /\ DOMAIN deliveries' = DOMAIN deliveries
      /\ \A k \in DOMAIN deliveries : k # i => deliveries'[k] = deliveries[k]
      /\ deliveries'[i] = [deliveries[i] EXCEPT !.done = TRUE]
  BY <1>1
<1>5. deliveries'[i] \in Flight /\ deliveries'[i].done = TRUE /\ deliveries'[i].envelope = deliveries[i].envelope
  BY <1>3, <1>4 DEF Flight
<1>6. deliveries' \in Seq(Flight)
  <2>1. \A k \in DOMAIN deliveries : deliveries'[k] \in Flight
    BY <1>3, <1>4, <1>5
  <2>2. DOMAIN deliveries = 1..Len(deliveries) /\ Len(deliveries) \in Nat
    BY <1>3
  <2>3. deliveries' = [k \in DOMAIN deliveries |-> deliveries'[k]]
    BY <1>1
  <2>4. deliveries' \in [1..Len(deliveries) -> Flight]
    BY <2>1, <2>2, <2>3
  <2> QED BY <2>2, <2>4, SeqDef
<1>7. Running(deliveries') = Running(deliveries) \ {i}
  BY <1>4, <1>5 DEF Running
<1>8. \A k \in DOMAIN deliveries' : deliveries'[k].envelope = deliveries[k].envelope
  BY <1>4, <1>5
<1>9. PICK m : Drops(deliveries, i, deliveries', m)
  <2>1. \A k \in Running(deliveries') : deliveries'[k].envelope = deliveries[k].envelope
    BY <1>8 DEF Running
  <2> QED BY <1>7, <2>1, SelfDrops
<1>10. Descends(deliveries, deliveries')
  BY <1>4, <1>8 DEF Descends
<1> QED BY <1>1, <1>2, <1>6, <1>9, <1>10, FinishInv

(* The reply of a webhook, or its failure.                                 *)
LEMMA WebhookEndsInv ==
  ASSUME Inv, NEW i \in DOMAIN deliveries, WebhookEnds(i),
         UNCHANGED <<live, attached, unique, pumping, now, hushed, quiet>>
  PROVE  Inv'
<1>1. RemoveDelivery(i)
  BY DEF WebhookEnds
<1>2. deliveries' \in Seq(Flight) /\ Descends(deliveries, deliveries')
  BY <1>1, RemovedFacts
<1>3. PICK m : Drops(deliveries, i, deliveries', m)
  BY <1>1, RemovedFacts
<1>4. PICK accepted \in BOOLEAN, retryable \in BOOLEAN, after \in Nat : Finish(i, accepted, retryable, after)
  BY ServiceAssumption DEF WebhookEnds
<1>5. i \in Running(deliveries)
  BY <1>4 DEF Finish, Running
<1> QED BY <1>2, <1>3, <1>4, <1>5, FinishInv

(* An attempt ends, however it was made.                                   *)
LEMMA TransportEndsInv ==
  ASSUME Inv, TransportEnds
  PROVE  Inv'
<1>1. PICK i \in 1..Len(deliveries) : MailerEnds(i) \/ MailerTimesOut(i) \/ WebhookEnds(i)
  BY DEF TransportEnds
<1>2. i \in DOMAIN deliveries
  BY InvFacts, FlightFacts DEF Counted
<1>3. UNCHANGED <<live, attached, unique, pumping, now, hushed, quiet>>
  BY DEF TransportEnds
<1> QED BY <1>1, <1>2, <1>3, MailerEndsInv, MailerTimesOutInv, WebhookEndsInv

-----------------------------------------------------------------------------
(***************************************************************************)
(* A take and its dispatch.                                                *)
(***************************************************************************)

(* The letters that wait after a take are fewer.                           *)
LEMMA TakesFewer ==
  ASSUME NEW p, NEW q, NEW m \in Nat, DOMAIN p.queue = 1..m, NEW n \in Nat, DOMAIN q.queue = 1..n,
         NEW first \in 0..m, NEW g, Takes(p, q, first, g)
  PROVE  n <= m /\ (first # 0 => n + 1 <= m)
<1>1. /\ g \in [1..n -> 1..m] /\ \A k \in 1..n : g[k] # first
      /\ \A k, l \in 1..n : g[k] = g[l] => k = l
  BY DEF Takes
<1>2. g \in Injection(1..n, (1..m) \ {first})
  <2>1. g \in [1..n -> (1..m) \ {first}]
    BY <1>1
  <2> QED BY <1>1, <2>1 DEF Injection, IsInjective
<1>3. IsFiniteSet(1..m) /\ Cardinality(1..m) = m /\ Cardinality(1..n) = n
  <2>1. IsFiniteSet(1..m) /\ Cardinality(1..m) = IF 1 > m THEN 0 ELSE m - 1 + 1
    BY FS_Interval
  <2>2. Cardinality(1..n) = IF 1 > n THEN 0 ELSE n - 1 + 1
    BY FS_Interval
  <2> QED BY <2>1, <2>2
<1>4. /\ IsFiniteSet((1..m) \ {first})
      /\ Cardinality((1..m) \ {first}) = IF first \in 1..m THEN m - 1 ELSE m
  BY <1>3, FS_RemoveElement
<1>5. n <= Cardinality((1..m) \ {first})
  BY <1>2, <1>3, <1>4, FS_Injection
<1> QED BY <1>4, <1>5

(* And they are as good as they were.                                      *)
LEMMA TakesMail ==
  ASSUME NEW p, Sound(p), NEW q, NEW D, NEW t, Mailed(p, D), Spaced(p, t),
         NEW first, NEW g, Takes(p, q, first, g)
  PROVE  Mailed(q, D) /\ Spaced(q, t)
<1>1. /\ Keeps(p, q) /\ q.cooldown = p.cooldown /\ DOMAIN q.episodes = DOMAIN p.episodes
      /\ g \in [DOMAIN q.queue -> DOMAIN p.queue]
      /\ \A k \in DOMAIN q.queue : q.queue[k] = p.queue[g[k]] \/ Trimmed(p, p.queue[g[k]], q.queue[k])
  BY DEF Takes
<1>2. p \in Policies /\ q \in Policies /\ Ages(p, q)
  <2>1. p \in Policies /\ q \in Policies
    BY <1>1 DEF Sound, Keeps
  <2> QED BY <1>1, <2>1, KeepsAges
<1>3. \A id \in DOMAIN q.episodes : q.episodes[id].active = p.episodes[id].active
  BY <1>1 DEF Keeps, SameLife
<1>4. ASSUME NEW k \in DOMAIN q.queue
      PROVE  /\ Addressed(q, q.queue[k]) /\ ~q.queue[k].test /\ q.queue[k].attempts < Attempts
             /\ q.queue[k].rule = p.queue[g[k]].rule /\ q.queue[k].stage = p.queue[g[k]].stage
             /\ q.queue[k].destination = p.queue[g[k]].destination
             /\ q.queue[k].attempts = p.queue[g[k]].attempts
             /\ \A a \in q.queue[k].alarms :
                  \E b \in p.queue[g[k]].alarms : b.episode = a.episode /\ b.channel = a.channel
  <2>1. g[k] \in DOMAIN p.queue
    BY <1>1
  <2>2. Addressed(p, p.queue[g[k]]) /\ ~p.queue[g[k]].test /\ p.queue[g[k]].attempts < Attempts
    BY <2>1 DEF Mailed
  <2>3. CASE q.queue[k] = p.queue[g[k]]
    BY <1>2, <2>2, <2>3, AgesAddressed
  <2>4. CASE Trimmed(p, p.queue[g[k]], q.queue[k])
    <3>1. Addressed(p, q.queue[k])
      BY <2>2, <2>4, TrimmedAddressed
    <3>2. Addressed(q, q.queue[k])
      BY <1>2, <3>1, AgesAddressed
    <3> QED BY <2>2, <2>4, <3>2 DEF Trimmed
  <2> QED BY <1>1, <2>3, <2>4
<1>5. Mailed(q, D)
  <2>1. \A i \in DOMAIN D : Addressed(q, D[i].envelope)
    BY <1>2, AgesAddressed DEF Mailed
  <2> QED BY <1>4, <2>1 DEF Mailed
<1>6. Spaced(q, t)
  <2> SUFFICES ASSUME NEW k \in DOMAIN q.queue, q.queue[k].attempts = 0, q.queue[k].stage # Resolution,
                      NEW a \in q.queue[k].alarms,
                      a.episode \in DOMAIN q.episodes, q.episodes[a.episode].active
               PROVE  q.cooldown[<<q.queue[k].rule, a.channel,
                                   <<q.queue[k].stage, q.queue[k].destination>>>>] <= t
    BY DEF Spaced
  <2>1. PICK b \in p.queue[g[k]].alarms : b.episode = a.episode /\ b.channel = a.channel
    BY <1>4
  <2>2. g[k] \in DOMAIN p.queue /\ b.episode \in DOMAIN p.episodes /\ p.episodes[b.episode].active
    BY <1>1, <1>3, <2>1
  <2>3. p.cooldown[<<p.queue[g[k]].rule, b.channel,
                     <<p.queue[g[k]].stage, p.queue[g[k]].destination>>>>] <= t
    BY <1>4, <2>2 DEF Spaced
  <2> QED BY <1>1, <1>4, <2>1, <2>3
<1> QED BY <1>5, <1>6

(* The alarms of an attempt are of running episodes, unless it is a test   *)
(* or a resolution.                                                        *)
Alive(p, env) ==
  ~env.test /\ env.stage # Resolution =>
    \A a \in env.alarms : a.episode \in DOMAIN p.episodes /\ p.episodes[a.episode].active

(* A started attempt leaves no first attempt behind that it silences.      *)
LEMMA PacedSpaced ==
  ASSUME NEW p, Sound(p), NEW E, NEW t \in Nat, Posted(p, E, t), NEW i \in Running(E),
         NEW env, env = E[i].envelope, env \in Letters, Alive(p, env), NEW q, Paces(p, q, env, t)
  PROVE  Spaced(q, t)
<1>1. /\ Mailed(p, E) /\ Balanced(p, E) /\ Spaced(p, t) /\ p \in Policies /\ Tracked(p)
      /\ q.queue = p.queue /\ q.episodes = p.episodes
      /\ \A k \in Triples : q.cooldown[k] = IF Silences(p, env, k) THEN t + RuleOf(p, env.rule).cooldown ELSE p.cooldown[k]
  BY DEF Posted, Sound, Paces
<1> SUFFICES ASSUME NEW k \in DOMAIN p.queue, p.queue[k].attempts = 0, p.queue[k].stage # Resolution,
                    NEW a \in p.queue[k].alarms, a.episode \in DOMAIN p.episodes, p.episodes[a.episode].active
             PROVE  q.cooldown[<<p.queue[k].rule, a.channel, <<p.queue[k].stage, p.queue[k].destination>>>>] <= t
  BY <1>1 DEF Spaced
<1> DEFINE f == p.queue[k]
           key == <<f.rule, a.channel, TokenOf(f)>>
<1>2. f \in Letters /\ a \in Alarms
  <2>1. p.queue \in Seq(Letters)
    BY <1>1, PolicyFacts
  <2>2. f \in Letters
    BY <2>1, ElementOfSeq
  <2> QED BY <2>2 DEF Letters
<1>3. TokenOf(f) \in Token /\ key \in Triples
  BY <1>2 DEF Letters, Alarms, Triples, Token, TokenOf
<1>4. p.cooldown[key] <= t
  BY <1>1 DEF Spaced, TokenOf
<1>5. ~Silences(p, env, key)
  <2> SUFFICES ASSUME Silences(p, env, key) PROVE FALSE
    OBVIOUS
  <2>1. ~env.test /\ env.stage # Resolution /\ f.rule = env.rule /\ TokenOf(f) = TokenOf(env)
    BY DEF Silences
  <2>2. PICK b \in env.alarms : b.channel = a.channel
    BY DEF Silences
  <2>3. b.episode \in DOMAIN p.episodes /\ p.episodes[b.episode].active
    BY <2>1 DEF Alive
  <2>4. KeyOf(p.episodes[b.episode]) = <<env.rule, b.channel>>
    BY <1>1, <2>3 DEF Mailed, Addressed, Running
  <2>5. KeyOf(p.episodes[a.episode]) = <<f.rule, a.channel>>
    BY <1>1 DEF Mailed, Addressed
  <2>6. b.episode = a.episode
    <3>1. p.current[KeyOf(p.episodes[b.episode])] = b.episode
      BY <1>1, <2>3 DEF Tracked
    <3>2. p.current[KeyOf(p.episodes[a.episode])] = a.episode
      BY <1>1 DEF Tracked
    <3> QED BY <2>1, <2>2, <2>4, <2>5, <3>1, <3>2
  <2>7. Announces(env, a.episode, TokenOf(f))
    BY <2>1, <2>6 DEF Announces, TokenOf
  <2>8. Announces(f, a.episode, TokenOf(f))
    <3>1. ~f.test
      BY <1>1 DEF Mailed
    <3> QED BY <3>1 DEF Announces, TokenOf
  <2>9. /\ <<"queue", k>> \in Carriers(p, E) /\ LetterAt(p, E, <<"queue", k>>) = f
        /\ <<"flight", i>> \in Carriers(p, E) /\ LetterAt(p, E, <<"flight", i>>) = env
    BY CarrierFacts
  <2>10. TokenOf(f) \in Tokens
    BY <1>3 DEF Tokens
  <2>11. <<"queue", k>> = <<"flight", i>>
    BY <1>1, <2>7, <2>8, <2>9, <2>10 DEF Balanced
  <2> QED BY <2>11
<1>6. q.cooldown[key] = p.cooldown[key]
  BY <1>1, <1>3, <1>5
<1> QED BY <1>4, <1>6 DEF TokenOf

(* And keeps the mail in order.                                            *)
LEMMA PacedPosted ==
  ASSUME NEW p, Sound(p), NEW E, NEW t \in Nat, Posted(p, E, t), NEW i \in Running(E),
         NEW env, env = E[i].envelope, env \in Letters, Alive(p, env), NEW q, Paces(p, q, env, t)
  PROVE  Posted(q, E, t)
<1>1. Mailed(p, E) /\ Balanced(p, E) /\ q.queue = p.queue /\ q.episodes = p.episodes /\ Keeps(p, q)
  BY DEF Posted, Paces
<1>2. Spaced(q, t)
  BY PacedSpaced
<1>3. q.count = p.count
  BY <1>1 DEF Keeps
<1>4. Mailed(q, E)
  BY <1>1, <1>3 DEF Mailed, Addressed
<1>5. Balanced(q, E)
  BY <1>1 DEF Balanced, Carriers, LetterAt
<1> QED BY <1>2, <1>4, <1>5 DEF Posted

(* What the start of an attempt leaves.                                    *)
Departs(p, q, env, D, n, t) ==
  /\ Keeps(p, q) /\ Posted(q, D, t) /\ Counted(q, D, n)
  /\ \A k \in Triples : q.cooldown[k] = IF Silences(p, env, k) THEN t + RuleOf(p, env.rule).cooldown ELSE p.cooldown[k]
  /\ \A id \in DOMAIN q.episodes : q.episodes[id].accepted \subseteq p.episodes[id].accepted

(* An attempt that fails at once is dropped again.                         *)
LEMMA FailsAtOnce ==
  ASSUME NEW q, Sound(q), NEW t, NEW D \in Seq(Flight), NEW d \in Flight, ~d.done, NEW E, E = Append(D, d),
         Posted(q, E, t), NEW n \in Int, NEW n1, n1 = n + 1, Counted(q, E, n1), NEW r, Finishes(q, r, d.envelope, FALSE)
  PROVE  Delivers(q, r, D, n, t)
<1>1. /\ E \in Seq(Flight) /\ E[Len(E)] = d /\ Len(E) \in Running(E) /\ Running(D) = Running(E) \ {Len(E)}
      /\ \A k \in DOMAIN D : k \in DOMAIN E /\ E[k] = D[k]
  <2>1. Joined(D, d, E)
    BY AppendCounts
  <2> QED BY <2>1 DEF Joined
<1>2. PICK m : Drops(E, Len(E), D, m)
  <2>1. \A k \in Running(D) : D[k].envelope = E[k].envelope
    BY <1>1 DEF Running
  <2> QED BY <1>1, <2>1, SelfDrops
<1>3. Descends(E, D)
  BY <1>1 DEF Descends
<1> DEFINE i == Len(E)
           env == E[i].envelope
<1>4. i \in Running(E) /\ env = d.envelope
  BY <1>1
<1>5. Drops(E, i, D, m) /\ Finishes(q, r, env, FALSE)
  BY <1>2, <1>4
<1> HIDE DEF i, env
<1>6. Delivers(q, r, D, n1 - 1, t)
  <2>1. env = E[i].envelope
    BY DEF env, i
  <2> QED BY <1>3, <1>4, <1>5, <2>1, FinishesDelivers
<1>7. n1 - 1 = n
  OBVIOUS
<1> QED BY <1>6, <1>7

(* dispatch: the attempt is noted, its transport started or failed at      *)
(* once.                                                                   *)
LEMMA DispatchDeparts ==
  ASSUME NEW p, Sound(p), now \in Nat, deliveries \in Seq(Flight), inFlight \in Nat,
         NEW envelope \in Letters, NEW env \in Letters, env = [envelope EXCEPT !.attempts = @ + 1],
         NEW E, E = Append(deliveries, [envelope |-> env, done |-> FALSE]),
         Posted(p, E, now), Counted(p, E, inFlight + 1), Alive(p, env), Dispatch(p, envelope)
  PROVE  Departs(p, policy', env, deliveries', inFlight', now)
<1> DEFINE q == Attempted(p, env, now)
           d == [envelope |-> env, done |-> FALSE]
<1>1. Paces(p, q, env, now)
  BY AttemptedKeeps
<1>2. d \in Flight /\ ~d.done /\ d.envelope = env
  BY DEF Flight
<1>3. E \in Seq(Flight) /\ Len(E) \in Running(E) /\ E[Len(E)].envelope = env
  <2>1. E = Append(deliveries, d) /\ deliveries \in Seq(Flight)
    OBVIOUS
  <2>2. E \in Seq(Flight) /\ Len(E) \in Running(E) /\ E[Len(E)] = d
    <3>1. Joined(deliveries, d, E)
      BY <1>2, <2>1, AppendCounts
    <3> QED BY <3>1 DEF Joined
  <2> QED BY <2>2
<1>4. \/ policy' = q /\ deliveries' = E /\ inFlight' = inFlight + 1
      \/ policy' = Finished(q, env, FALSE, FALSE, 0) /\ deliveries' = deliveries /\ inFlight' = inFlight
  BY DEF Dispatch
<1> HIDE DEF q, d
<1>5. Keeps(p, q) /\ q.queue = p.queue /\ q.episodes = p.episodes
      /\ \A k \in Triples : q.cooldown[k] = IF Silences(p, env, k) THEN now + RuleOf(p, env.rule).cooldown ELSE p.cooldown[k]
  BY <1>1 DEF Paces
<1>6. Posted(q, E, now)
  BY <1>1, <1>3, PacedPosted
<1>7. Counted(q, E, inFlight + 1)
  BY <1>5 DEF Counted
<1>8. CASE policy' = q /\ deliveries' = E /\ inFlight' = inFlight + 1
  BY <1>5, <1>6, <1>7, <1>8 DEF Departs
<1>9. CASE policy' = Finished(q, env, FALSE, FALSE, 0) /\ deliveries' = deliveries /\ inFlight' = inFlight
  <2>1. Sound(q)
    BY <1>5, KeepsSound DEF KeepsSoundOp
  <2>2. Finishes(q, policy', env, FALSE)
    BY <1>9, <2>1, FinishedFinishes
  <2>3. Delivers(q, policy', deliveries, inFlight, now)
    <3>1. E = Append(deliveries, d)
      BY DEF d
    <3> DEFINE n1 == inFlight + 1
    <3>2. n1 = inFlight + 1 /\ Counted(q, E, n1) /\ inFlight \in Int
      BY <1>7
    <3> HIDE DEF n1
    <3> QED BY <1>2, <1>6, <2>1, <2>2, <3>1, <3>2, FailsAtOnce
  <2>4. Keeps(q, policy') /\ policy'.cooldown = q.cooldown
        /\ Posted(policy', deliveries, now) /\ Counted(policy', deliveries, inFlight)
    BY <2>3 DEF Delivers
  <2>5. Keeps(p, policy')
    BY <1>5, <2>4, KeepsTrans
  <2>6. \A id \in DOMAIN policy'.episodes : policy'.episodes[id].accepted \subseteq p.episodes[id].accepted
    BY <1>5, <2>2 DEF Finishes
  <2> QED BY <1>5, <1>9, <2>4, <2>5, <2>6 DEF Departs
<1> QED BY <1>4, <1>8, <1>9

(* The letter that is taken.                                               *)
LEMMA TakenFacts ==
  ASSUME NEW p, Sound(p), NEW D, Mailed(p, D), NEW t, NEW first, first = FirstTakeable(p, t), first # 0,
         NEW f, f = TakenEnvelope(p, t)
  PROVE  /\ first \in 1..Len(p.queue) /\ first \in DOMAIN p.queue /\ p.queue[first] \in Letters
         /\ f \in Letters /\ Trimmed(p, p.queue[first], f) /\ Addressed(p, f)
         /\ ~f.test /\ f.attempts < Attempts /\ p.enabled
         /\ \A a \in f.alarms : Good(p, f, a.episode)
         /\ Settled(p, f)
<1>1. p \in Policies /\ p.queue \in Seq(Letters)
  BY PolicyFacts DEF Sound
<1>2. first \in 1..Len(p.queue) /\ Takeable(p, first, t) /\ DOMAIN p.queue = 1..Len(p.queue)
  BY <1>1, FirstFacts
<1>3. p.queue[first] \in Letters
  BY <1>1, <1>2, ElementOfSeq
<1> DEFINE env == p.queue[first]
<1>4. f = Revalidated(p, env)
  BY DEF TakenEnvelope
<1>5. WorthSending(p, env) /\ Settled(p, Revalidated(p, env))
  BY <1>2 DEF Takeable
<1>6. Addressed(p, env) /\ ~env.test /\ env.attempts < Attempts
  BY <1>2 DEF Mailed
<1> HIDE DEF env
<1>7. env \in Letters
  BY <1>3 DEF env
<1>8. Trimmed(p, env, f)
  BY <1>1, <1>4, <1>7, RevalidatedTrimmed
<1>9. Addressed(p, f)
  BY <1>6, <1>8, TrimmedAddressed
<1>10. p.enabled
  BY <1>1, <1>5, <1>6, <1>7, WorthFacts
<1>11. f \in Letters /\ ~f.test /\ f.attempts < Attempts /\ f.stage = env.stage /\ f.destination = env.destination
  BY <1>6, <1>8 DEF Trimmed
<1>12. \A a \in f.alarms : Good(p, f, a.episode)
  <2> TAKE a \in f.alarms
  <2>1. Good(p, env, a.episode)
    BY <1>6, <1>8, <1>10 DEF Trimmed
  <2> QED BY <1>11, <2>1 DEF Good, StillValid
<1> QED BY <1>2, <1>3, <1>4, <1>5, <1>7, <1>8, <1>9, <1>10, <1>11, <1>12 DEF env

(* The attempt at a letter is the letter with one more attempt.            *)
LEMMA AttemptFacts ==
  ASSUME NEW f \in Letters, NEW env, env = [f EXCEPT !.attempts = @ + 1]
  PROVE  /\ env \in Letters /\ env.attempts = f.attempts + 1 /\ f.attempts \in Nat
         /\ env.rule = f.rule /\ env.stage = f.stage /\ env.destination = f.destination
         /\ env.alarms = f.alarms /\ env.test = f.test
         /\ \A id, s : Announces(env, id, s) <=> Announces(f, id, s)
<1>1. /\ env \in Letters /\ env.attempts = f.attempts + 1 /\ f.attempts \in Nat
      /\ env.rule = f.rule /\ env.stage = f.stage /\ env.destination = f.destination
      /\ env.alarms = f.alarms /\ env.test = f.test
  BY DEF Letters
<1> QED BY <1>1 DEF Announces

(* One more submitted letter.                                              *)
LEMMA AppendMailed ==
  ASSUME NEW p, NEW D \in Seq(Flight), NEW d \in Flight, ~d.done, Mailed(p, D), Addressed(p, d.envelope),
         NEW E, E = Append(D, d)
  PROVE  Mailed(p, E)
<1>1. Joined(D, d, E)
  BY AppendCounts
<1>2. \A i \in DOMAIN E : Addressed(p, E[i].envelope)
  BY <1>1 DEF Joined, Mailed
<1> QED BY <1>2 DEF Mailed

(* One more attempt within the limits.                                     *)
LEMMA AppendCounted ==
  ASSUME NEW p, NEW D, NEW n, Counted(p, D, n), n < MaxInFlight, NEW d \in Flight, ~d.done,
         d.envelope.attempts \in 1..Attempts, NEW E, E = Append(D, d),
         NEW q, Len(q.queue) \in Nat, Len(p.queue) \in Nat,
         Len(q.queue) + (IF d.envelope.test THEN 0 ELSE 1) <= Len(p.queue),
         NEW n1, n1 = n + 1
  PROVE  Counted(q, E, n1)
<1>1. /\ D \in Seq(Flight) /\ n = Cardinality(Running(D))
      /\ Len(p.queue) + Cardinality(Plain(D)) <= QueueLimit
      /\ \A i \in DOMAIN D : D[i].envelope.attempts \in 1..Attempts
  BY DEF Counted
<1>2. Joined(D, d, E)
  BY <1>1, AppendCounts
<1>3. /\ E \in Seq(Flight) /\ Cardinality(Running(E)) = n1
      /\ Cardinality(Plain(E)) = Cardinality(Plain(D)) + (IF d.envelope.test THEN 0 ELSE 1)
      /\ \A i \in DOMAIN E : E[i].envelope.attempts \in 1..Attempts
  BY <1>1, <1>2 DEF Joined
<1>4. n \in Nat /\ Cardinality(Plain(D)) \in Nat
  BY <1>1, RunningFacts
<1>5. n1 <= MaxInFlight
  BY <1>4, ServiceAssumption
<1>6. Len(q.queue) + Cardinality(Plain(E)) <= QueueLimit
  <2> DEFINE x == IF d.envelope.test THEN 0 ELSE 1
  <2>1. x \in Nat /\ Len(q.queue) + x <= Len(p.queue) /\ Cardinality(Plain(E)) = Cardinality(Plain(D)) + x
    BY <1>3
  <2>2. QueueLimit \in Nat /\ Len(p.queue) + Cardinality(Plain(D)) <= QueueLimit
    BY <1>1, ServiceAssumption
  <2> DEFINE m == Len(p.queue)
             l == Len(q.queue)
             c == Cardinality(Plain(D))
  <2>3. m \in Nat /\ l \in Nat /\ c \in Nat /\ l + x <= m /\ m + c <= QueueLimit /\ Cardinality(Plain(E)) = c + x
    BY <1>4, <2>1, <2>2
  <2> HIDE DEF x, m, l, c
  <2>4. l + (c + x) <= QueueLimit
    BY ONLY <2>1, <2>2, <2>3
  <2> QED BY <2>3, <2>4 DEF l
<1> QED BY <1>3, <1>5, <1>6 DEF Counted

(* A take with its submission.                                             *)
Submits(p, q, env, E, n, t) ==
  /\ env \in Letters /\ Keeps(p, q) /\ q.cooldown = p.cooldown
  /\ \A id \in DOMAIN q.episodes : q.episodes[id].accepted = p.episodes[id].accepted
  /\ Posted(q, E, t) /\ Counted(q, E, n) /\ Alive(q, env)

(* takeNext and the attempt it leads to.                                   *)
LEMMA TakenSubmits ==
  ASSUME NEW p, Sound(p), NEW D, NEW t \in Nat, Posted(p, D, t), NEW n, Counted(p, D, n), n < MaxInFlight,
         NEW n1, n1 = n + 1, NEW first, first = FirstTakeable(p, t), first # 0,
         NEW f, f = TakenEnvelope(p, t), NEW env, env = [f EXCEPT !.attempts = @ + 1],
         NEW q, q = AfterTake(p, t), NEW d, d = [envelope |-> env, done |-> FALSE], NEW E, E = Append(D, d)
  PROVE  Submits(p, q, env, E, n1, t)
<1>1. /\ Mailed(p, D) /\ Balanced(p, D) /\ Spaced(p, t) /\ p \in Policies /\ D \in Seq(Flight)
      /\ p.queue \in Seq(Letters)
  BY PolicyFacts DEF Posted, Sound, Counted
<1>2. /\ first \in 1..Len(p.queue) /\ first \in DOMAIN p.queue /\ p.queue[first] \in Letters
      /\ f \in Letters /\ Trimmed(p, p.queue[first], f) /\ Addressed(p, f)
      /\ ~f.test /\ f.attempts < Attempts /\ p.enabled
      /\ \A a \in f.alarms : Good(p, f, a.episode)
  BY <1>1, TakenFacts
<1>3. /\ env \in Letters /\ env.attempts = f.attempts + 1 /\ f.attempts \in Nat
      /\ env.rule = f.rule /\ env.stage = f.stage /\ env.destination = f.destination
      /\ env.alarms = f.alarms /\ env.test = f.test
      /\ \A id, s : Announces(env, id, s) <=> Announces(f, id, s)
  BY <1>2, AttemptFacts
<1>4. d \in Flight /\ ~d.done /\ d.envelope = env
  BY <1>3 DEF Flight
<1>5. PICK g : Takes(p, q, first, g)
  BY <1>1, AfterTakeTakes
<1>6. /\ Keeps(p, q) /\ q.cooldown = p.cooldown /\ DOMAIN q.episodes = DOMAIN p.episodes
      /\ \A id \in DOMAIN q.episodes : q.episodes[id].accepted = p.episodes[id].accepted
  BY <1>5 DEF Takes
<1>7. Mailed(q, D) /\ Spaced(q, t)
  BY <1>1, <1>5, TakesMail
<1>8. p \in Policies /\ q \in Policies /\ Ages(p, q) /\ q.queue \in Seq(Letters)
  <2>1. q \in Policies
    BY <1>6 DEF Keeps
  <2> QED BY <1>1, <1>6, <2>1, KeepsAges, PolicyFacts
<1>9. Balanced(q, E)
  <2>1. \A id, s : Announces(d.envelope, id, s) <=> Stays(p, first, TakenLast(p, first), id, s)
    <3>1. TakenLast(p, first) = first /\ first <= first
      BY <1>2 DEF TakenLast
    <3>2. \A id, s : Announces(f, id, s) <=> Announces(p.queue[first], id, s) /\ Good(p, p.queue[first], id)
      BY <1>2 DEF Trimmed
    <3> QED BY <1>3, <1>4, <3>1, <3>2 DEF Stays
  <2>2. PICK h : CarriesOn(p, D, E, first, h)
    BY <1>1, <1>2, <1>4, <2>1, CarriesOnTaken
  <2>3. first \in 0..Len(p.queue)
    BY <1>2
  <2> QED BY <1>1, <1>5, <2>2, <2>3, TakenBalanced
<1>10. Mailed(q, E)
  <2>1. Addressed(p, env)
    BY <1>2, <1>3 DEF Addressed
  <2>2. Addressed(q, env)
    BY <1>8, <2>1, AgesAddressed
  <2> QED BY <1>1, <1>4, <1>7, <2>2, AppendMailed
<1>11. Counted(q, E, n1)
  <2>1. Len(q.queue) + 1 <= Len(p.queue) /\ Len(q.queue) \in Nat /\ Len(p.queue) \in Nat
    <3>1. /\ Len(q.queue) \in Nat /\ Len(p.queue) \in Nat
          /\ DOMAIN q.queue = 1..Len(q.queue) /\ DOMAIN p.queue = 1..Len(p.queue)
      BY <1>1, <1>8
    <3>2. first \in 0..Len(p.queue)
      BY <1>2
    <3> QED BY <1>2, <1>5, <3>1, <3>2, TakesFewer
  <2>2. d.envelope.attempts \in 1..Attempts
    <3>1. d.envelope.attempts = f.attempts + 1
      BY <1>3, <1>4
    <3>2. f.attempts + 1 \in 1..Attempts
      BY <1>2, <1>3, ServiceAssumption
    <3> QED BY <3>1, <3>2
  <2>3. (IF d.envelope.test THEN 0 ELSE 1) = 1
    BY <1>2, <1>3, <1>4
  <2> QED BY <1>4, <2>1, <2>2, <2>3, AppendCounted
<1>12. Alive(q, env)
  <2> SUFFICES ASSUME env.stage # Resolution, NEW a \in env.alarms
               PROVE  a.episode \in DOMAIN q.episodes /\ q.episodes[a.episode].active
    BY DEF Alive
  <2>1. Good(p, f, a.episode)
    BY <1>2, <1>3
  <2>2. a.episode \in DOMAIN p.episodes /\ p.episodes[a.episode].active
    BY <1>3, <2>1 DEF Good, StillValid
  <2> QED BY <1>6, <2>2 DEF Keeps, SameLife
<1> QED BY <1>3, <1>6, <1>7, <1>9, <1>10, <1>11, <1>12 DEF Submits, Posted

(* A take that finds nothing.                                              *)
LEMMA TakenNothing ==
  ASSUME NEW p, Sound(p), NEW D, NEW t \in Nat, Posted(p, D, t), NEW n, Counted(p, D, n),
         FirstTakeable(p, t) = 0, NEW q, q = AfterTake(p, t)
  PROVE  /\ Keeps(p, q) /\ q.cooldown = p.cooldown /\ Posted(q, D, t) /\ Counted(q, D, n)
         /\ \A id \in DOMAIN q.episodes : q.episodes[id].accepted = p.episodes[id].accepted
<1>1. /\ Mailed(p, D) /\ Balanced(p, D) /\ Spaced(p, t) /\ p \in Policies /\ D \in Seq(Flight)
      /\ p.queue \in Seq(Letters)
  BY PolicyFacts DEF Posted, Sound, Counted
<1>2. PICK g : Takes(p, q, 0, g)
  BY <1>1, AfterTakeTakes
<1>3. /\ Keeps(p, q) /\ q.cooldown = p.cooldown
      /\ \A id \in DOMAIN q.episodes : q.episodes[id].accepted = p.episodes[id].accepted
  BY <1>2 DEF Takes
<1>4. Mailed(q, D) /\ Spaced(q, t)
  BY <1>1, <1>2, TakesMail
<1>5. q.queue \in Seq(Letters)
  <2>1. q \in Policies
    BY <1>3 DEF Keeps
  <2> QED BY <2>1, PolicyFacts
<1>6. /\ Len(q.queue) \in Nat /\ Len(p.queue) \in Nat /\ 0 \in 0..Len(p.queue)
      /\ DOMAIN q.queue = 1..Len(q.queue) /\ DOMAIN p.queue = 1..Len(p.queue)
  BY <1>1, <1>5
<1>7. Balanced(q, D)
  <2>1. PICK h : CarriesOn(p, D, D, 0, h)
    BY CarriesOnSame
  <2> QED BY <1>1, <1>2, <1>6, <2>1, TakenBalanced
<1>8. Counted(q, D, n)
  <2>1. Len(q.queue) <= Len(p.queue)
    BY <1>2, <1>6, TakesFewer
  <2>2. Cardinality(Plain(D)) \in Nat
    BY <1>1, RunningFacts
  <2> QED BY <1>6, <2>1, <2>2, ServiceAssumption DEF Counted
<1> QED BY <1>3, <1>4, <1>7, <1>8 DEF Posted

(* A policy that keeps the rules, silences and acceptances it had.         *)
Same(p, q) ==
  /\ Keeps(p, q) /\ q.cooldown = p.cooldown
  /\ \A id \in DOMAIN q.episodes : q.episodes[id].accepted = p.episodes[id].accepted

(* A policy that is not touched.                                           *)
LEMMA SameSelf ==
  ASSUME NEW p, Sound(p)
  PROVE  Same(p, p)
<1>1. p \in Policies /\ Emptied(p) /\ Numbered(p)
  BY DEF Sound
<1>2. p.episodes \in Episodes /\ p.resolvedEnded \in [Channels -> SUBSET Nat]
  BY <1>1, PolicyFacts
<1>3. \A id \in DOMAIN p.episodes : p.episodes[id] \in EpisodeRecord
  BY <1>2 DEF Episodes
<1>4. \A c \in Channels : p.resolvedEnded[c] = p.resolvedEnded[c] \cap DOMAIN p.episodes
  BY <1>1 DEF Numbered
<1> QED BY <1>1, <1>3, <1>4 DEF Same, Keeps, SameRules, SameSight, SameLife

(* The invariant after a dispatch.                                         *)
LEMMA DepartedInv ==
  ASSUME Inv, NEW q, Same(policy, q), NEW env, Departs(q, policy', env, deliveries', inFlight', now),
         QuietedOf(policy', quiet'), quiet' \in [Triples -> Nat],
         Rests, told' = told, timerActive' \in BOOLEAN, pumping' = pumping
  PROVE  Inv'
<1>1. /\ Keeps(q, policy') /\ Posted(policy', deliveries', now) /\ Counted(policy', deliveries', inFlight')
      /\ \A id \in DOMAIN policy'.episodes : policy'.episodes[id].accepted \subseteq q.episodes[id].accepted
  BY DEF Departs
<1>2. Keeps(policy, policy')
  BY <1>1, KeepsTrans DEF Same
<1>3. ToldOf(policy', told')
  <2>1. \A id \in DOMAIN policy'.episodes :
          /\ id \in DOMAIN policy.episodes
          /\ policy'.episodes[id].accepted \subseteq policy.episodes[id].accepted
    BY <1>1 DEF Same, Keeps
  <2> QED BY <2>1, InvFacts DEF ToldOf
<1> QED BY <1>1, <1>2, <1>3, KeptInv

(* What the service notes as silenced is.                                  *)
LEMMA DepartsQuiets ==
  ASSUME Inv, NEW q, Same(policy, q), NEW f \in Letters, Addressed(policy, f),
         NEW env, env = [f EXCEPT !.attempts = @ + 1], Alive(q, env),
         Departs(q, policy', env, deliveries', inFlight', now),
         NEW Q, Q = [k \in DOMAIN quiet |->
                       IF f.attempts = 0 /\ k \in Keys(f) THEN now + RuleOf(policy, f.rule).cooldown ELSE quiet[k]]
  PROVE  QuietedOf(policy', Q) /\ Q \in [Triples -> Nat]
<1>1. /\ env \in Letters /\ env.attempts = f.attempts + 1 /\ f.attempts \in Nat
      /\ env.rule = f.rule /\ env.stage = f.stage /\ env.destination = f.destination
      /\ env.alarms = f.alarms /\ env.test = f.test
  BY AttemptFacts
<1>2. /\ quiet \in [Triples -> Nat] /\ now \in Nat /\ QuietedOf(policy, quiet) /\ policy \in Policies
      /\ policy.cooldown \in [Triples -> Nat]
  BY InvFacts, PolicyFacts DEF Kinds
<1>3. /\ Sound(q) /\ q \in Policies /\ \A id : HasRule(q, id) = HasRule(policy, id) /\ RuleOf(q, id) = RuleOf(policy, id)
  BY InvFacts, KeepsStep DEF Same, Sound
<1>4. \A id : HasRule(policy', id) = HasRule(q, id)
  BY SameRulesFacts DEF Departs, Keeps
<1>5. \A k \in Triples : policy'.cooldown[k] = IF Silences(q, env, k) THEN now + RuleOf(q, env.rule).cooldown ELSE policy.cooldown[k]
  BY DEF Departs, Same
<1>6. ASSUME NEW k \in Triples, f.attempts = 0, k \in Keys(f)
      PROVE  /\ HasRule(q, f.rule) /\ k[1] = f.rule
             /\ policy'.cooldown[k] = now + RuleOf(policy, f.rule).cooldown
             /\ RuleOf(policy, f.rule).cooldown \in Nat
  <2>1. ~f.test /\ f.stage # Resolution
    BY <1>6 DEF Keys
  <2>2. PICK a \in f.alarms : k = <<f.rule, a.channel, <<f.stage, f.destination>>>>
    BY <1>6, <2>1 DEF Keys
  <2>3. a.episode \in DOMAIN q.episodes
    BY <1>1, <2>1 DEF Alive
  <2>4. a.episode \in DOMAIN policy.episodes
    BY <2>3 DEF Same, Keeps
  <2>5. KeyOf(policy.episodes[a.episode]) = <<f.rule, a.channel>>
    BY <2>4 DEF Addressed
  <2>6. policy.episodes[a.episode].rule = f.rule
    BY <2>5 DEF KeyOf
  <2>7. HasRule(policy, f.rule)
    BY <2>4, <2>6, InvFacts DEF Sound, Ruled
  <2>8. Silences(q, env, k)
    <3>1. ~(env.attempts > 1)
      BY <1>1, <1>6
    <3>2. k[1] = f.rule /\ k[2] = a.channel /\ k[3] = <<f.stage, f.destination>>
      BY <2>2
    <3> QED BY <1>1, <1>3, <2>1, <2>7, <3>1, <3>2 DEF Silences, TokenOf
  <2> QED BY <1>1, <1>2, <1>3, <1>5, <2>2, <2>7, <2>8, RuleFacts
<1>7. ASSUME NEW k \in Triples, ~(f.attempts = 0 /\ k \in Keys(f))
      PROVE  policy'.cooldown[k] = policy.cooldown[k]
  <2>1. ~Silences(q, env, k)
    <3> SUFFICES ASSUME Silences(q, env, k) PROVE FALSE
      OBVIOUS
    <3>1. /\ ~(env.attempts > 1) /\ f.stage # Resolution /\ ~f.test
          /\ k[1] = f.rule /\ k[3] = <<f.stage, f.destination>>
      BY <1>1 DEF Silences, TokenOf
    <3>2. PICK a \in f.alarms : a.channel = k[2]
      BY <1>1 DEF Silences
    <3>3. f.attempts = 0
      BY <1>1, <3>1
    <3>4. k = <<k[1], k[2], k[3]>>
      BY DEF Triples
    <3>5. k = <<f.rule, a.channel, <<f.stage, f.destination>>>>
      BY <3>1, <3>2, <3>4
    <3>6. k \in Keys(f)
      BY <3>1, <3>5 DEF Keys
    <3> QED BY <1>7, <3>3, <3>6
  <2> QED BY <1>5, <2>1
<1>8. \A k \in Triples : Q[k] = IF f.attempts = 0 /\ k \in Keys(f) THEN now + RuleOf(policy, f.rule).cooldown ELSE quiet[k]
  BY <1>2
<1>9. \A k \in Triples : Q[k] \in Nat /\ Q[k] <= policy'.cooldown[k] /\ (Q[k] # 0 => HasRule(policy', k[1]))
  <2> TAKE k \in Triples
  <2>1. CASE f.attempts = 0 /\ k \in Keys(f)
    <3>1. Q[k] = now + RuleOf(policy, f.rule).cooldown
      BY <1>8, <2>1
    <3> QED BY <1>2, <1>4, <1>6, <2>1, <3>1
  <2>2. CASE ~(f.attempts = 0 /\ k \in Keys(f))
    <3>1. Q[k] = quiet[k]
      BY <1>8, <2>2
    <3> QED BY <1>2, <1>3, <1>4, <1>7, <2>2, <3>1 DEF QuietedOf
  <2> QED BY <2>1, <2>2
<1>10. Q \in [Triples -> Nat]
  <2>1. Q = [k \in Triples |-> Q[k]]
    BY <1>2
  <2> QED BY <1>9, <2>1
<1> QED BY <1>9, <1>10 DEF QuietedOf

(* One round of the loop of pump.                                          *)
LEMMA TakeNextInv ==
  ASSUME Inv, TakeNext
  PROVE  Inv'
<1> DEFINE q == AfterTake(policy, now)
           first == FirstTakeable(policy, now)
           f == TakenEnvelope(policy, now)
           env == [f EXCEPT !.attempts = @ + 1]
           d == [envelope |-> env, done |-> FALSE]
           E == Append(deliveries, d)
           n1 == inFlight + 1
<1>1. pumping /\ UNCHANGED <<live, attached, unique, now, told, hushed>>
  BY DEF TakeNext
<1>2. /\ Sound(policy) /\ Posted(policy, deliveries, now) /\ Mailed(policy, deliveries)
      /\ Counted(policy, deliveries, inFlight) /\ deliveries \in Seq(Flight) /\ inFlight \in Nat /\ now \in Nat
      /\ quiet \in [Triples -> Nat] /\ timerActive \in BOOLEAN
  <2>1. Counted(policy, deliveries, inFlight) /\ Posted(policy, deliveries, now) /\ Kinds
    BY InvFacts
  <2>2. deliveries \in Seq(Flight) /\ inFlight = Cardinality(Running(deliveries))
    BY <2>1 DEF Counted
  <2> QED BY <2>1, <2>2, RunningFacts, InvFacts DEF Posted, Kinds
<1>3. CASE inFlight < MaxInFlight /\ first # 0
  <2>1. /\ Dispatch(q, f) /\ pumping' = pumping
        /\ quiet' = [k \in DOMAIN quiet |->
             IF f.attempts = 0 /\ k \in Keys(f) THEN now + RuleOf(policy, f.rule).cooldown ELSE quiet[k]]
    BY <1>3 DEF TakeNext
  <2>2. f \in Letters /\ Addressed(policy, f)
    BY <1>2, <1>3, TakenFacts
  <2>3. /\ q = AfterTake(policy, now) /\ first = FirstTakeable(policy, now) /\ f = TakenEnvelope(policy, now)
        /\ env = [f EXCEPT !.attempts = @ + 1] /\ d = [envelope |-> env, done |-> FALSE]
        /\ E = Append(deliveries, d) /\ n1 = inFlight + 1
    OBVIOUS
  <2> HIDE DEF q, first, f, env, d, E, n1
  <2>4. Submits(policy, q, env, E, n1, now)
    BY <1>2, <1>3, <2>3, TakenSubmits
  <2>5. /\ env \in Letters /\ Same(policy, q) /\ Posted(q, E, now) /\ Counted(q, E, inFlight + 1) /\ Alive(q, env)
    BY <2>3, <2>4 DEF Submits, Same
  <2>6. Sound(q)
    BY <2>5, InvFacts, KeepsStep DEF Same
  <2>7. E = Append(deliveries, [envelope |-> env, done |-> FALSE])
    BY <2>3
  <2>8. Departs(q, policy', env, deliveries', inFlight', now)
    BY <1>2, <2>1, <2>2, <2>3, <2>5, <2>6, <2>7, DispatchDeparts
  <2>9. QuietedOf(policy', quiet') /\ quiet' \in [Triples -> Nat]
    BY <2>1, <2>2, <2>3, <2>5, <2>8, DepartsQuiets
  <2>10. timerActive' \in BOOLEAN
    BY <2>1 DEF Dispatch
  <2> QED BY <1>1, <2>1, <2>5, <2>8, <2>9, <2>10, DepartedInv DEF Rests
<1>4. CASE ~(inFlight < MaxInFlight /\ first # 0)
  <2>1. /\ policy' = IF inFlight < MaxInFlight THEN q ELSE policy
        /\ pumping' = FALSE
        /\ deliveries' = deliveries /\ inFlight' = inFlight /\ timerActive' = timerActive /\ quiet' = quiet
    BY <1>4 DEF TakeNext
  <2>2. /\ Same(policy, policy') /\ Posted(policy', deliveries, now) /\ Counted(policy', deliveries, inFlight)
    <3>1. CASE inFlight < MaxInFlight
      <4>1. first = 0 /\ policy' = q
        BY <1>4, <2>1, <3>1
      <4> QED BY <1>2, <4>1, TakenNothing DEF Same
    <3>2. CASE ~(inFlight < MaxInFlight)
      <4>1. policy' = policy
        BY <2>1, <3>2
      <4> QED BY <1>2, <4>1, SameSelf
    <3> QED BY <3>1, <3>2
  <2>3. ToldOf(policy', told')
    BY <1>1, <2>2, InvFacts DEF ToldOf, Same, Keeps
  <2>4. QuietedOf(policy', quiet')
    <3>1. \A id : HasRule(policy', id) = HasRule(policy, id)
      BY <2>2, SameRulesFacts DEF Same, Keeps
    <3> QED BY <2>1, <2>2, <3>1, InvFacts DEF QuietedOf, Same
  <2> HIDE DEF q, first
  <2>5. Keeps(policy, policy') /\ Posted(policy', deliveries', now) /\ Counted(policy', deliveries', inFlight')
        /\ quiet' \in [Triples -> Nat] /\ timerActive' \in BOOLEAN /\ pumping' \in {pumping, FALSE}
    BY <1>2, <2>1, <2>2 DEF Same
  <2>6. Rests
    BY <1>1 DEF Rests
  <2> QED BY <2>3, <2>4, <2>5, <2>6, KeptInv
<1> QED BY <1>3, <1>4

(* A test letter is about nothing.                                         *)
LEMMA TestFacts ==
  ASSUME NEW d \in DestinationIds, NEW f, f = TestEnvelope(d)
  PROVE  f \in Letters /\ f.test /\ f.alarms = {} /\ f.attempts = 0
<1> DEFINE r == CHOOSE x \in RuleIds : TRUE
           s == CHOOSE x \in StageIds : TRUE
<1>1. r \in RuleIds /\ s \in StageIds
  BY PolicyAssumption
<1>2. f = [rule |-> r, stage |-> s, destination |-> d, alarms |-> {}, attempts |-> 0, ready |-> 0, test |-> TRUE]
  BY DEF TestEnvelope
<1> HIDE DEF r, s
<1>3. {} \in SUBSET Alarms
  OBVIOUS
<1> QED BY <1>1, <1>2, <1>3 DEF Letters

(* sendTest.                                                               *)
LEMMA SendTestInv ==
  ASSUME Inv, NEW dest \in DestinationIds, SendTest(dest)
  PROVE  Inv'
<1> DEFINE f == TestEnvelope(dest)
           env == [f EXCEPT !.attempts = @ + 1]
           d == [envelope |-> env, done |-> FALSE]
           E == Append(deliveries, d)
           n1 == inFlight + 1
<1>1. /\ inFlight < MaxInFlight /\ Dispatch(policy, f)
      /\ UNCHANGED <<live, attached, unique, pumping, now, history>>
  BY DEF SendTest
<1>2. /\ Sound(policy) /\ Posted(policy, deliveries, now) /\ Mailed(policy, deliveries)
      /\ Balanced(policy, deliveries) /\ Spaced(policy, now)
      /\ Counted(policy, deliveries, inFlight) /\ deliveries \in Seq(Flight) /\ inFlight \in Nat /\ now \in Nat
      /\ quiet \in [Triples -> Nat]
  <2>1. Counted(policy, deliveries, inFlight) /\ Posted(policy, deliveries, now) /\ Kinds
    BY InvFacts
  <2>2. deliveries \in Seq(Flight) /\ inFlight = Cardinality(Running(deliveries))
    BY <2>1 DEF Counted
  <2> QED BY <2>1, <2>2, RunningFacts, InvFacts DEF Posted, Kinds
<1>3. f \in Letters /\ f.test /\ f.alarms = {} /\ f.attempts = 0
  BY TestFacts
<1>4. /\ env = [f EXCEPT !.attempts = @ + 1] /\ d = [envelope |-> env, done |-> FALSE]
      /\ E = Append(deliveries, d) /\ n1 = inFlight + 1
      /\ E = Append(deliveries, [envelope |-> env, done |-> FALSE])
  OBVIOUS
<1> HIDE DEF f, env, d, E, n1
<1>5. env \in Letters /\ env.test /\ env.alarms = {} /\ env.attempts = 1
  BY <1>3, <1>4, AttemptFacts
<1>6. d \in Flight /\ ~d.done /\ d.envelope = env
  BY <1>4, <1>5 DEF Flight
<1>7. Alive(policy, env) /\ Addressed(policy, env) /\ Addressed(policy, f)
  BY <1>3, <1>5 DEF Alive, Addressed
<1>8. Mailed(policy, E)
  BY <1>2, <1>4, <1>6, <1>7, AppendMailed
<1>9. Balanced(policy, E)
  <2>1. d.envelope.test
    BY <1>5, <1>6
  <2>2. Balanced(policy, Append(deliveries, d))
    BY <1>2, <1>6, <2>1, TestBalanced
  <2> QED BY <1>4, <2>2
<1>10. Counted(policy, E, n1)
  <2>1. policy.queue \in Seq(Letters)
    BY InvFacts, PolicyFacts
  <2>2. Len(policy.queue) \in Nat
    BY <2>1
  <2>3. d.envelope.attempts \in 1..Attempts
    BY <1>5, <1>6, ServiceAssumption
  <2>4. Len(policy.queue) + (IF d.envelope.test THEN 0 ELSE 1) <= Len(policy.queue)
    BY <1>5, <1>6, <2>2
  <2> QED BY <1>1, <1>2, <1>4, <1>6, <2>2, <2>3, <2>4, AppendCounted
<1>11. Posted(policy, E, now) /\ Counted(policy, E, inFlight + 1)
  BY <1>2, <1>4, <1>8, <1>9, <1>10 DEF Posted
<1>12. Departs(policy, policy', env, deliveries', inFlight', now)
  BY <1>1, <1>2, <1>3, <1>4, <1>5, <1>7, <1>11, DispatchDeparts
<1>13. QuietedOf(policy', quiet') /\ quiet' \in [Triples -> Nat]
  <2>1. quiet' = quiet
    BY <1>1 DEF history
  <2>2. \A k \in Triples : policy'.cooldown[k] = policy.cooldown[k]
    BY <1>5, <1>12 DEF Departs, Silences
  <2>3. \A id : HasRule(policy', id) = HasRule(policy, id)
    BY <1>12, SameRulesFacts DEF Departs, Keeps
  <2> QED BY <1>2, <2>1, <2>2, <2>3, InvFacts DEF QuietedOf
<1>14. timerActive' \in BOOLEAN
  BY <1>1 DEF Dispatch
<1>15. Rests /\ told' = told /\ pumping' = pumping
  BY <1>1 DEF Rests, history
<1> QED BY <1>2, <1>12, <1>13, <1>14, <1>15, SameSelf, DepartedInv

-----------------------------------------------------------------------------
(***************************************************************************)
(* The invariant holds.                                                    *)
(***************************************************************************)

(* The policy of a service that starts.                                    *)
LEMMA InitialSound ==
  /\ Sound(InitialPolicy) /\ Shown(InitialPolicy) /\ Posted(InitialPolicy, <<>>, 0)
  /\ InitialPolicy.configuration \in Files /\ InitialPolicy.count = 0 /\ DOMAIN InitialPolicy.episodes = {}
  /\ Len(InitialPolicy.queue) = 0 /\ InitialPolicy.known = {}
<1> DEFINE p == InitialPolicy
           f == CHOOSE x \in Files : TRUE
<1>0. f \in Files
  BY PolicyAssumption
<1>1. /\ p.enabled = FALSE /\ p.configuration = f /\ p.settings = NoSettings /\ p.known = {}
      /\ p.channels = [c \in Channels |-> Unknown] /\ p.episodes = <<>> /\ p.count = 0 /\ p.current = <<>>
      /\ p.resolvedEnded = [c \in Channels |-> {}] /\ p.cooldown = [k \in Triples |-> 0]
      /\ p.batch = [k \in Key |-> 0] /\ p.next = [d \in DestinationIds |-> 0]
      /\ p.queue = <<>> /\ p.throttled = FALSE
  BY DEF InitialPolicy, Triples
<1>2. NoSettings \in NotificationSettings
  <2>1. IsFiniteSet({})
    BY FS_EmptySet
  <2> QED BY <2>1 DEF NotificationSettings, NoSettings, ValidSettings
<1>3. Unknown \in Update
  BY DEF Unknown, Update
<1>4. <<>> \in Episodes /\ <<>> \in Currents /\ DOMAIN <<>> = {} /\ <<>> \in Seq(Letters) /\ Len(<<>>) = 0
  <2>1. DOMAIN <<>> = {} /\ <<>> \in Seq(Letters) /\ Len(<<>>) = 0
    OBVIOUS
  <2>2. <<>> = [x \in {} |-> x]
    BY <2>1
  <2>3. <<>> \in [{} -> EpisodeRecord] /\ <<>> \in [{} -> Nat]
    BY <2>2
  <2> QED BY <2>1, <2>3 DEF Episodes, Currents
<1>5. p \in Policies
  <2>1. /\ [c \in Channels |-> Unknown] \in [Channels -> Update]
        /\ [c \in Channels |-> {}] \in [Channels -> SUBSET Nat]
        /\ [k \in Triples |-> 0] \in [Triples -> Nat]
        /\ [k \in Key |-> 0] \in [Key -> Nat] /\ [d \in DestinationIds |-> 0] \in [DestinationIds -> Nat]
    BY <1>3
  <2>2. p = [enabled |-> FALSE, configuration |-> f, settings |-> NoSettings, known |-> {},
             channels |-> [c \in Channels |-> Unknown], episodes |-> <<>>, count |-> 0,
             current |-> <<>>, resolvedEnded |-> [c \in Channels |-> {}],
             cooldown |-> [k \in Triples |-> 0], batch |-> [k \in Key |-> 0],
             next |-> [d \in DestinationIds |-> 0], queue |-> <<>>, throttled |-> FALSE]
    BY DEF InitialPolicy, Triples
  <2> HIDE DEF p, f
  <2> QED BY <1>0, <1>2, <1>4, <2>1, <2>2 DEF Policies
<1> HIDE DEF p, f
<1>6. DOMAIN p.episodes = {} /\ DOMAIN p.current = {} /\ DOMAIN p.queue = {} /\ DOMAIN <<>> = {} /\ Len(p.queue) = 0
  BY <1>1, <1>4
<1>7. Sound(p)
  <2>1. Numbered(p)
    BY <1>1, <1>6 DEF Numbered
  <2>2. Tracked(p) /\ Ruled(p) /\ EndsNoted(p) /\ Emptied(p)
    BY <1>1, <1>6 DEF Tracked, Ruled, EndsNoted, Emptied
  <2> QED BY <1>5, <2>1, <2>2 DEF Sound
<1>8. Shown(p)
  BY <1>6 DEF Shown, Showing, Unsuppressed
<1>9. Posted(p, <<>>, 0)
  <2>1. Mailed(p, <<>>) /\ Spaced(p, 0)
    BY <1>6 DEF Mailed, Spaced
  <2>2. Balanced(p, <<>>)
    BY <1>6 DEF Balanced
  <2> QED BY <2>1, <2>2 DEF Posted
<1> QED BY <1>0, <1>1, <1>6, <1>7, <1>8, <1>9 DEF p

(* A service that starts.                                                  *)
LEMMA InitInv ==
  ASSUME Init
  PROVE  Inv
<1>1. PICK s \in SettingsChoices : policy = Configure(InitialPolicy, s, InitialPolicy.configuration)
  BY DEF Init
<1>2. /\ live = [c \in Channels |-> Unknown] /\ attached = FALSE /\ unique = {} /\ deliveries = <<>>
      /\ inFlight = 0 /\ timerActive = FALSE /\ pumping = FALSE /\ now = 0 /\ told = {} /\ hushed = {}
      /\ quiet = [k \in Triples |-> 0]
  BY DEF Init, Triples
<1>3. s \in NotificationSettings
  BY ServiceAssumption
<1>4. /\ Sound(InitialPolicy) /\ Shown(InitialPolicy) /\ Posted(InitialPolicy, <<>>, 0)
      /\ InitialPolicy.configuration \in Files /\ InitialPolicy.count = 0 /\ DOMAIN InitialPolicy.episodes = {}
      /\ Len(InitialPolicy.queue) = 0 /\ InitialPolicy.known = {}
  BY InitialSound
<1> DEFINE p == InitialPolicy
           file == p.configuration
<1>5. Sound(p) /\ Shown(p) /\ Posted(p, <<>>, 0) /\ file \in Files /\ policy = Configure(p, s, file)
      /\ p.count = 0 /\ DOMAIN p.episodes = {} /\ Len(p.queue) = 0 /\ p.known = {}
  BY <1>1, <1>4
<1> HIDE DEF p, file
<1>6. Resets(p, policy, s, file, <<>>, 0)
  BY <1>3, <1>5, ConfigureResets
<1>7. Evolves(p, policy, <<>>, 0) /\ Shown(policy) /\ policy.known = {}
  BY <1>5, <1>6 DEF Resets
<1>8. Sound(policy) /\ Posted(policy, <<>>, 0) /\ Len(policy.queue) <= 0
  BY <1>5, <1>7 DEF Evolves
<1>9. Configures(p, policy, s, file)
  BY <1>3, <1>5, ConfigureSound
<1>10. policy.count = 0
  BY <1>5, <1>9 DEF Configures
<1>11. DOMAIN policy.episodes = {}
  <2>1. DOMAIN policy.episodes \subseteq 1..0
    BY <1>8, <1>10 DEF Sound, Numbered
  <2> QED BY <2>1
<1>12. Counted(policy, <<>>, 0)
  <2>1. <<>> \in Seq(Flight) /\ DOMAIN <<>> = {}
    OBVIOUS
  <2>2. Running(<<>>) = {} /\ Plain(<<>>) = {}
    BY <2>1 DEF Running, Plain
  <2>3. Cardinality({}) = 0
    BY FS_EmptySet
  <2>4. Len(policy.queue) \in Nat
    <3>1. policy.queue \in Seq(Letters)
      BY <1>8, PolicyFacts DEF Sound
    <3> QED BY <3>1
  <2>5. Len(policy.queue) + 0 <= QueueLimit
    BY <1>8, <2>4, ServiceAssumption
  <2>6. 0 = Cardinality(Running(<<>>)) /\ 0 <= MaxInFlight
    <3>1. 0 <= MaxInFlight
      BY ServiceAssumption
    <3> QED BY <2>2, <2>3, <3>1
  <2>7. Len(policy.queue) + Cardinality(Plain(<<>>)) <= QueueLimit
    BY <2>2, <2>3, <2>5
  <2> HIDE DEF Running, Plain
  <2> QED BY <2>1, <2>6, <2>7 DEF Counted
<1>13. ToldOf(policy, told) /\ Silent(policy, hushed)
  BY <1>2, <1>11 DEF ToldOf, Silent
<1>14. QuietedOf(policy, quiet)
  <2>1. policy.cooldown \in [Triples -> Nat]
    BY <1>8, PolicyFacts DEF Sound
  <2> QED BY <1>2, <2>1 DEF QuietedOf
<1>15. Wired
  BY <1>2, <1>7 DEF Wired
<1>16. Kinds
  <2>1. Unknown \in Update
    BY DEF Unknown, Update
  <2>2. live \in [Channels -> Update] /\ quiet \in [Triples -> Nat]
    BY <1>2, <2>1
  <2>3. now \in 0..MaxNow /\ policy.count <= MaxEpisodes
    BY <1>2, <1>10, PolicyAssumption
  <2>4. attached \in BOOLEAN /\ timerActive \in BOOLEAN /\ pumping \in BOOLEAN /\ unique \subseteq Channels
    BY <1>2
  <2> QED BY <2>2, <2>3, <2>4 DEF Kinds
<1> QED BY <1>2, <1>7, <1>8, <1>12, <1>13, <1>14, <1>15, <1>16 DEF Inv

(* Every step keeps the invariant.                                         *)
LEMMA NextInv ==
  ASSUME Inv, [Next]_vars
  PROVE  Inv'
<1>1. CASE UNCHANGED vars
  BY <1>1, StopPumpInv
<1>2. CASE \E c \in Channels, u \in Updates : ChannelChanges(c, u)
  BY <1>2, ChannelChangesInv
<1>3. CASE SwitchOn
  BY <1>3, SwitchOnInv
<1>4. CASE Pause
  BY <1>4, PauseInv
<1>5. CASE Attach
  BY <1>5, AttachInv
<1>6. CASE \E s \in SettingsChoices : Apply(s)
  BY <1>6, ApplyInv
<1>7. CASE \E d \in DestinationIds : SendTest(d)
  BY <1>7, SendTestInv
<1>8. CASE Pump
  BY <1>8, PumpInv
<1>9. CASE StopPump
  BY <1>9, StopPumpInv
<1>10. CASE TakeNext
  BY <1>10, TakeNextInv
<1>11. CASE TransportEnds
  BY <1>11, TransportEndsInv
<1>12. CASE TimePasses
  BY <1>12, TimePassesInv
<1> QED BY <1>1, <1>2, <1>3, <1>4, <1>5, <1>6, <1>7, <1>8, <1>9, <1>10, <1>11, <1>12 DEF Next

(* The invariant holds in every reachable state, for all settings,         *)
(* destinations, limits and numbers of channels that the assumptions       *)
(* allow: whatever the order of updates, edits, reloads, timer ticks and   *)
(* transport results.                                                      *)
THEOREM ServiceInvariant == Spec => []Inv
<1> QED BY InitInv, NextInv, PTL DEF Spec

(* Within the bounds of a run a letter is an Envelope.                     *)
LEMMA AddressedEnvelope ==
  ASSUME NEW p, p.count \in Nat, p.count <= MaxEpisodes, NEW env \in Letters, Addressed(p, env)
  PROVE  env \in Envelope
<1>1. env.alarms \subseteq [episode : Episode, channel : Channels, state : Update]
  <2> SUFFICES ASSUME NEW a \in env.alarms PROVE a \in [episode : Episode, channel : Channels, state : Update]
    OBVIOUS
  <2>1. a \in Alarms
    BY DEF Letters
  <2>2. a.episode \in Episode
    BY PolicyAssumption DEF Addressed, Episode
  <2> QED BY <2>1, <2>2 DEF Alarms
<1> QED BY <1>1 DEF Letters, Envelope

(* The type invariant.                                                     *)
LEMMA InvTypeOK ==
  ASSUME Inv
  PROVE  TypeOK
<1>1. /\ Sound(policy) /\ Mailed(policy, deliveries) /\ Kinds /\ policy \in Policies /\ Numbered(policy)
      /\ Counted(policy, deliveries, inFlight)
  BY InvFacts DEF Posted, Sound
<1>2. /\ policy.enabled \in BOOLEAN /\ policy.configuration \in Files /\ policy.settings \in NotificationSettings
      /\ policy.known \in SUBSET Channels /\ policy.channels \in [Channels -> Update]
      /\ policy.episodes \in Episodes /\ policy.count \in Nat /\ policy.current \in Currents
      /\ policy.cooldown \in [Triples -> Nat]
      /\ policy.batch \in [Key -> Nat] /\ policy.next \in [DestinationIds -> Nat]
      /\ policy.queue \in Seq(Letters) /\ policy.throttled \in BOOLEAN
  BY <1>1, PolicyFacts
<1>3. policy.count <= MaxEpisodes
  BY <1>1 DEF Kinds
<1>4. IsPolicy(policy)
  <2>1. policy.count \in 0..MaxEpisodes
    BY <1>2, <1>3, PolicyAssumption
  <2>2. \A id \in DOMAIN policy.episodes : policy.episodes[id] \in EpisodeRecord
    BY <1>2, EpisodesFacts
  <2>3. DOMAIN policy.current \subseteq RuleIds \X Channels
    BY <1>2 DEF Currents
  <2>4. \A i \in 1..Len(policy.queue) : policy.queue[i] \in Envelope
    <3> TAKE i \in 1..Len(policy.queue)
    <3>1. i \in DOMAIN policy.queue /\ policy.queue[i] \in Letters
      BY <1>2, ElementOfSeq
    <3>2. Addressed(policy, policy.queue[i])
      BY <1>1, <3>1 DEF Mailed
    <3> QED BY <1>2, <1>3, <3>1, <3>2, AddressedEnvelope
  <2>5. policy.cooldown \in [RuleIds \X Channels \X Token -> Nat]
    BY <1>2 DEF Triples
  <2> QED BY <1>1, <1>2, <2>1, <2>2, <2>3, <2>4, <2>5 DEF IsPolicy, Numbered
<1>5. /\ deliveries \in Seq(Flight) /\ inFlight = Cardinality(Running(deliveries))
  BY <1>1 DEF Counted
<1>6. \A i \in 1..Len(deliveries) : deliveries[i] \in Delivery
  <2> TAKE i \in 1..Len(deliveries)
  <2>1. i \in DOMAIN deliveries /\ deliveries[i] \in Flight
    BY <1>5, FlightFacts
  <2>2. Addressed(policy, deliveries[i].envelope)
    BY <1>1, <2>1 DEF Mailed
  <2>3. deliveries[i].envelope \in Envelope
    BY <1>2, <1>3, <2>1, <2>2, AddressedEnvelope DEF Flight
  <2> QED BY <2>1, <2>3 DEF Delivery, Flight
<1>7. inFlight \in Nat
  BY <1>5, RunningFacts
<1> QED BY <1>1, <1>4, <1>6, <1>7 DEF TypeOK, Kinds

(* The limits.                                                             *)
LEMMA InvBounds ==
  ASSUME Inv
  PROVE  SlotsExact /\ QueueBounded /\ AttemptsBounded
<1>1. Counted(policy, deliveries, inFlight) /\ Mailed(policy, deliveries) /\ policy.queue \in Seq(Letters)
  BY InvFacts, PolicyFacts DEF Posted
<1>2. deliveries \in Seq(Flight) /\ DOMAIN deliveries = 1..Len(deliveries)
      /\ DOMAIN policy.queue = 1..Len(policy.queue)
  BY <1>1 DEF Counted
<1>3. InFlight = Running(deliveries)
  BY <1>2 DEF InFlight, Running
<1>4. {i \in InFlight : ~deliveries[i].envelope.test} = Plain(deliveries)
  BY <1>3 DEF Plain
<1>5. SlotsExact
  BY <1>1, <1>3 DEF SlotsExact, Counted
<1>6. QueueBounded
  BY <1>1, <1>4 DEF QueueBounded, Counted
<1>7. AttemptsBounded
  BY <1>1, <1>2 DEF AttemptsBounded, Mailed, Counted
<1> QED BY <1>5, <1>6, <1>7

(* inFlight counts the running attempts and stays below maxInFlight;       *)
(* letters that wait and run fit into the queue limit together; and no     *)
(* letter is attempted more often than maxAttempts (pump, dispatch,        *)
(* finish).                                                                *)
THEOREM DeliveryIsBounded == Spec => []DeliveryBounded
<1>1. ASSUME Inv PROVE DeliveryBounded
  BY <1>1, InvTypeOK, InvBounds DEF DeliveryBounded
<1> QED BY <1>1, ServiceInvariant, PTL

(* Two sets with one element between them, or none.                        *)
LEMMA OneOfTwo ==
  ASSUME NEW S, NEW T, NEW b \in BOOLEAN,
         \A i, j \in S : i = j, \A i, j \in T : i = j, ~(S # {} /\ T # {}),
         b <=> (S # {} \/ T # {})
  PROVE  Cardinality(S) + Cardinality(T) = IF b THEN 1 ELSE 0
<1>1. Cardinality({}) = 0
  BY FS_EmptySet
<1>2. \A x : Cardinality({x}) = 1
  BY FS_Singleton
<1>3. CASE S = {} /\ T = {}
  BY <1>1, <1>3
<1>4. CASE S # {}
  <2>1. PICK x : x \in S
    BY <1>4
  <2>2. S = {x} /\ T = {}
    BY <1>4, <2>1
  <2>3. Cardinality(S) = 1 /\ Cardinality(T) = 0
    BY <1>1, <1>2, <2>2
  <2> QED BY <1>4, <2>3
<1>5. CASE T # {}
  <2>1. PICK x : x \in T
    BY <1>5
  <2>2. T = {x} /\ S = {}
    BY <1>5, <2>1
  <2>3. Cardinality(T) = 1 /\ Cardinality(S) = 0
    BY <1>1, <1>2, <2>2
  <2> QED BY <1>5, <2>3
<1> QED BY <1>3, <1>4, <1>5

(* One carrier for each mark.                                              *)
LEMMA InvOneEnvelope ==
  ASSUME Inv
  PROVE  OneEnvelope
<1>1. Counted(policy, deliveries, inFlight) /\ Balanced(policy, deliveries) /\ policy.queue \in Seq(Letters)
  BY InvFacts, PolicyFacts DEF Posted
<1>2. deliveries \in Seq(Flight) /\ DOMAIN deliveries = 1..Len(deliveries)
      /\ DOMAIN policy.queue = 1..Len(policy.queue)
  BY <1>1 DEF Counted
<1>3. InFlight = Running(deliveries)
  BY <1>2 DEF InFlight, Running
<1> SUFFICES ASSUME NEW id \in DOMAIN policy.episodes, NEW t \in Token \cup ({Resolution} \X DestinationIds)
             PROVE  Cardinality({i \in 1..Len(policy.queue) : Announces(policy.queue[i], id, t)})
                    + Cardinality({i \in InFlight : Announces(deliveries[i].envelope, id, t)})
                    = IF t \in MarkedTokens(policy.episodes[id]) THEN 1 ELSE 0
  BY DEF OneEnvelope
<1> DEFINE S == {i \in 1..Len(policy.queue) : Announces(policy.queue[i], id, t)}
           T == {i \in InFlight : Announces(deliveries[i].envelope, id, t)}
           C == Carriers(policy, deliveries)
           at(x) == Announces(LetterAt(policy, deliveries, x), id, t)
           b == t \in MarkedTokens(policy.episodes[id])
<1>4. t \in Tokens
  BY DEF Tokens
<1>5. (b <=> \E x \in C : at(x)) /\ \A x, y \in C : at(x) /\ at(y) => x = y
  BY <1>1, <1>4 DEF Balanced
<1>6. \A i \in S : <<"queue", i>> \in C /\ at(<<"queue", i>>)
  BY <1>2, CarrierFacts
<1>7. \A i \in T : <<"flight", i>> \in C /\ at(<<"flight", i>>)
  <2> TAKE i \in T
  <2>1. i \in Running(deliveries) /\ Announces(deliveries[i].envelope, id, t)
    BY <1>3
  <2> HIDE DEF T
  <2>2. /\ <<"flight", i>> \in Carriers(policy, deliveries)
        /\ LetterAt(policy, deliveries, <<"flight", i>>) = deliveries[i].envelope
    BY <2>1, CarrierFacts
  <2> QED BY <2>1, <2>2
<1>8. \A x \in C : at(x) => (x[1] = "queue" /\ x[2] \in S) \/ (x[1] = "flight" /\ x[2] \in T)
  <2> TAKE x \in C
  <2>1. CarrierKinds(policy, deliveries, x)
    BY CarrierFacts
  <2> QED BY <1>2, <1>3, <2>1 DEF CarrierKinds
<1> HIDE DEF S, T, C, at, b
<1>9. \A i, j \in S : i = j
  <2> TAKE i \in S, j \in S
  <2>1. <<"queue", i>> = <<"queue", j>>
    BY <1>5, <1>6
  <2> QED BY <2>1
<1>10. \A i, j \in T : i = j
  <2> TAKE i \in T, j \in T
  <2>1. <<"flight", i>> = <<"flight", j>>
    BY <1>5, <1>7
  <2> QED BY <2>1
<1>11. ~(S # {} /\ T # {})
  <2> SUFFICES ASSUME NEW i \in S, NEW j \in T PROVE FALSE
    OBVIOUS
  <2>1. <<"queue", i>> = <<"flight", j>>
    BY <1>5, <1>6, <1>7
  <2> QED BY <2>1
<1>12. b <=> (S # {} \/ T # {})
  BY <1>5, <1>6, <1>7, <1>8
<1>13. b \in BOOLEAN
  BY DEF b
<1>14. Cardinality(S) + Cardinality(T) = IF b THEN 1 ELSE 0
  BY <1>9, <1>10, <1>11, <1>12, <1>13, OneOfTwo
<1> QED BY <1>14 DEF S, T, b

(* What an episode notes as queued is in exactly one letter, waiting or    *)
(* submitted, and no letter announces what is not noted: nothing is sent   *)
(* twice and nothing that was queued is lost (enqueue, takeNext,           *)
(* revalidate, complete).                                                  *)
THEOREM OneEnvelopeEach == Spec => []OneEnvelope
<1> QED BY InvOneEnvelope, ServiceInvariant, PTL

-----------------------------------------------------------------------------
(***************************************************************************)
(* What a step submits.                                                    *)
(***************************************************************************)

(* Removing delivers nothing.                                              *)
LEMMA RemovalShortens ==
  ASSUME NEW D \in Seq(Flight), NEW i, NEW E, E = Only(D, DOMAIN D \ {i})
  PROVE  Len(E) <= Len(D)
<1>1. DOMAIN D \ {i} \in SUBSET DOMAIN D /\ Len(D) \in Nat /\ DOMAIN D = 1..Len(D)
  OBVIOUS
<1> DEFINE places == DOMAIN D \ {i}
<1>2. E \in Seq(Flight) /\ DOMAIN E = 1..Cardinality(places) /\ Cardinality(places) \in Nat
  BY <1>1, OnlyFacts
<1>3. Len(E) = Cardinality(places)
  BY <1>2, LenProperties
<1>4. IsFiniteSet(1..Len(D)) /\ Cardinality(1..Len(D)) = IF 1 > Len(D) THEN 0 ELSE Len(D) - 1 + 1
  BY <1>1, FS_Interval, SMTT(30)
<1>5. Cardinality(1..Len(D)) = Len(D)
  BY <1>1, <1>4
<1>6. Cardinality(places) <= Cardinality(1..Len(D))
  <2>1. places \subseteq 1..Len(D)
    BY <1>1
  <2> QED BY <1>4, <2>1, FS_Subset
<1> QED BY <1>3, <1>5, <1>6

(* The end of an attempt submits nothing.                                  *)
LEMMA EndsShorten ==
  ASSUME Inv, TransportEnds
  PROVE  Len(deliveries') <= Len(deliveries)
<1>1. deliveries \in Seq(Flight)
  BY InvFacts DEF Counted
<1>2. PICK i \in 1..Len(deliveries) : MailerEnds(i) \/ MailerTimesOut(i) \/ WebhookEnds(i)
  BY DEF TransportEnds
<1>3. CASE RemoveDelivery(i)
  BY <1>1, <1>3, RemovalShortens DEF RemoveDelivery
<1>4. CASE deliveries' = [deliveries EXCEPT ![i].done = TRUE]
  <2>1. DOMAIN deliveries' = DOMAIN deliveries /\ DOMAIN deliveries = 1..Len(deliveries) /\ Len(deliveries) \in Nat
    BY <1>1, <1>4
  <2>2. deliveries' = [k \in 1..Len(deliveries) |-> deliveries'[k]]
    BY <1>4, <2>1
  <2>3. Len(deliveries') = Len(deliveries)
    BY <2>1, <2>2
  <2> QED BY <2>1, <2>3
<1> QED BY <1>2, <1>3, <1>4 DEF MailerEnds, MailerTimesOut, WebhookEnds

(* What is submitted is a test or the letter taken from the queue.         *)
TakesOut(env) ==
  /\ pumping /\ FirstTakeable(policy, now) # 0
  /\ env = [TakenEnvelope(policy, now) EXCEPT !.attempts = @ + 1]

(* What a dispatch adds is the attempt at its letter.                      *)
LEMMA LastDispatched ==
  ASSUME Inv, NEW p, NEW envelope, Dispatch(p, envelope), Len(deliveries') > Len(deliveries),
         NEW env, env = [envelope EXCEPT !.attempts = @ + 1], env \in Letters
  PROVE  Last(deliveries').envelope = env
<1> DEFINE d == [envelope |-> env, done |-> FALSE]
<1>1. deliveries \in Seq(Flight) /\ Len(deliveries) \in Nat
  BY InvFacts DEF Counted
<1>2. deliveries' = Append(deliveries, d) \/ deliveries' = deliveries
  BY DEF Dispatch
<1>3. d \in Flight /\ ~d.done /\ d.envelope = env
  BY DEF Flight
<1> HIDE DEF d
<1>4. deliveries' = Append(deliveries, d)
  BY <1>1, <1>2
<1>5. Joined(deliveries, d, deliveries')
  BY <1>1, <1>3, <1>4, AppendCounts
<1> QED BY <1>3, <1>5 DEF Joined, Last

(* A step that submits takes a letter or sends a test.                     *)
LEMMA Submission ==
  ASSUME Inv, [Next]_vars, Len(deliveries') > Len(deliveries)
  PROVE  LET env == Last(deliveries').envelope
         IN  (env.test /\ env.alarms = {}) \/ TakesOut(env)
<1> DEFINE sent == Last(deliveries').envelope
<1>0. Len(deliveries) \in Nat
  <2>1. deliveries \in Seq(Flight)
    BY InvFacts DEF Counted
  <2> QED BY <2>1
<1>1. ASSUME deliveries' = deliveries PROVE FALSE
  BY <1>0, <1>1
<1>2. CASE TransportEnds
  <2>1. Len(deliveries') <= Len(deliveries)
    BY <1>2, EndsShorten
  <2>2. Len(deliveries') \in Nat
    <3>1. deliveries' \in Seq(Flight)
      <4>1. Inv'
        BY <1>2, TransportEndsInv
      <4> QED BY <4>1 DEF Inv, Counted
    <3> QED BY <3>1
  <2> QED BY <1>0, <2>1, <2>2
<1>3. CASE TakeNext
  <2> DEFINE f == TakenEnvelope(policy, now)
             env == [f EXCEPT !.attempts = @ + 1]
             first == FirstTakeable(policy, now)
  <2>1. pumping
    BY <1>3 DEF TakeNext
  <2>2. first # 0 /\ Dispatch(AfterTake(policy, now), f)
    BY <1>1, <1>3 DEF TakeNext
  <2>3. f \in Letters
    <3>1. Sound(policy) /\ Mailed(policy, deliveries)
      BY InvFacts DEF Posted
    <3> QED BY <2>2, <3>1, TakenFacts
  <2>4. f = TakenEnvelope(policy, now) /\ env = [f EXCEPT !.attempts = @ + 1]
        /\ env = [TakenEnvelope(policy, now) EXCEPT !.attempts = @ + 1]
    OBVIOUS
  <2> HIDE DEF f, env
  <2>5. env \in Letters
    BY <2>3, <2>4, AttemptFacts
  <2>6. sent = env
    BY <2>2, <2>4, <2>5, LastDispatched
  <2> QED BY <2>1, <2>2, <2>4, <2>6 DEF TakesOut
<1>4. CASE \E d \in DestinationIds : SendTest(d)
  <2>1. PICK dest \in DestinationIds : SendTest(dest)
    BY <1>4
  <2> DEFINE f == TestEnvelope(dest)
             env == [f EXCEPT !.attempts = @ + 1]
  <2>2. Dispatch(policy, f)
    BY <2>1 DEF SendTest
  <2>3. f \in Letters /\ f.test /\ f.alarms = {}
    BY TestFacts
  <2>4. env = [f EXCEPT !.attempts = @ + 1]
    OBVIOUS
  <2> HIDE DEF f, env
  <2>5. env \in Letters /\ env.test /\ env.alarms = {}
    BY <2>3, <2>4, AttemptFacts
  <2>6. sent = env
    BY <2>2, <2>4, <2>5, LastDispatched
  <2> QED BY <2>5, <2>6
<1>5. CASE \E c \in Channels, u \in Updates : ChannelChanges(c, u)
  BY <1>1, <1>5 DEF ChannelChanges
<1>6. CASE SwitchOn \/ Pause \/ Attach \/ Pump \/ StopPump \/ TimePasses \/ UNCHANGED vars
  BY <1>1, <1>6 DEF SwitchOn, Pause, Attach, Pump, StopPump, TimePasses, vars
<1>7. CASE \E s \in SettingsChoices : Apply(s)
  BY <1>1, <1>7 DEF Apply
<1> QED BY <1>2, <1>3, <1>4, <1>5, <1>6, <1>7 DEF Next

(* What is known of a letter that is taken.                                *)
Chosen(env, f, g) ==
  /\ env.rule = f.rule /\ env.stage = f.stage /\ env.destination = f.destination
  /\ env.alarms = f.alarms /\ env.test = f.test /\ env.attempts = f.attempts + 1 /\ f.attempts \in Nat
  /\ f \in Letters /\ ~f.test /\ Trimmed(policy, g, f) /\ Addressed(policy, f) /\ Settled(policy, f)
  /\ \A a \in f.alarms : Good(policy, f, a.episode)
  /\ g \in Letters /\ \E i \in DOMAIN policy.queue : g = policy.queue[i]
  /\ policy.enabled /\ attached

(* A letter that is taken was waiting, is trimmed and holds.               *)
LEMMA TakesOutChosen ==
  ASSUME Inv, NEW env, TakesOut(env)
  PROVE  \E f, g : Chosen(env, f, g)
<1> DEFINE f == TakenEnvelope(policy, now)
           first == FirstTakeable(policy, now)
<1>1. Sound(policy) /\ Mailed(policy, deliveries) /\ Wired
  BY InvFacts DEF Posted
<1>2. /\ pumping /\ first # 0 /\ env = [f EXCEPT !.attempts = @ + 1]
  BY DEF TakesOut
<1>3. /\ first \in DOMAIN policy.queue /\ policy.queue[first] \in Letters
      /\ f \in Letters /\ Trimmed(policy, policy.queue[first], f) /\ Addressed(policy, f)
      /\ ~f.test /\ policy.enabled
      /\ \A a \in f.alarms : Good(policy, f, a.episode)
      /\ Settled(policy, f)
  BY <1>1, <1>2, TakenFacts
<1> HIDE DEF f, first
<1>4. /\ env.attempts = f.attempts + 1 /\ f.attempts \in Nat
      /\ env.rule = f.rule /\ env.stage = f.stage /\ env.destination = f.destination
      /\ env.alarms = f.alarms /\ env.test = f.test
  BY <1>2, <1>3, AttemptFacts
<1>5. attached
  BY <1>1, <1>2 DEF Wired
<1>6. Chosen(env, f, policy.queue[first])
  BY <1>3, <1>4, <1>5 DEF Chosen
<1> QED BY <1>6

(* Its alarms are live.                                                    *)
LEMMA ChosenLive ==
  ASSUME Inv, NEW env, NEW f, NEW g, Chosen(env, f, g), NEW a \in env.alarms
  PROVE  /\ live[a.channel].initialized /\ ~live[a.channel].suppressed
         /\ env.stage # Resolution => live[a.channel].unack >= RuleOf(policy, env.rule).minimum
<1>1. /\ a \in f.alarms /\ Good(policy, f, a.episode) /\ Addressed(policy, f) /\ Settled(policy, f)
      /\ f.stage = env.stage /\ f.rule = env.rule /\ policy.enabled /\ attached
  BY DEF Chosen
<1> DEFINE e == policy.episodes[a.episode]
<1>2. a.episode \in DOMAIN policy.episodes
  BY <1>1 DEF Good, StillValid
<1>3. KeyOf(e) = <<f.rule, a.channel>>
  BY <1>1, <1>2 DEF Addressed
<1>4. e.rule = f.rule /\ e.channel = a.channel
  BY <1>3 DEF KeyOf
<1>5. a.channel \in policy.known /\ policy.channels[a.channel].initialized
  BY <1>1 DEF Settled
<1>6. live[a.channel] = policy.channels[a.channel]
  BY <1>1, <1>5, InvFacts DEF Wired
<1>7. CASE env.stage = Resolution
  <2>1. ~policy.channels[e.channel].suppressed
    BY <1>1, <1>7 DEF Good, StillValid
  <2> QED BY <1>4, <1>5, <1>6, <1>7, <2>1
<1>8. CASE env.stage # Resolution
  <2>1. e.active
    BY <1>1, <1>8 DEF Good, StillValid
  <2>2. ~e.waiting
    BY <1>1, <1>2, <1>8 DEF Settled
  <2>3. Shows(policy, e)
    BY <1>2, <2>1, <2>2, InvFacts DEF Shown, Showing
  <2>4. Eligible(RuleOf(policy, e.rule), policy.channels[e.channel])
    BY <2>3 DEF Shows
  <2> QED BY <1>1, <1>4, <1>5, <1>6, <2>4 DEF Eligible
<1> QED BY <1>7, <1>8

(* An alarm that is submitted is live at that moment: its channel is       *)
(* initialized, not suppressed, and its unacknowledged severity is at      *)
(* least the minimum of the rule (revalidate, stillValid).                 *)
THEOREM AlarmsSentAreLive == Spec => OnlyLiveAlarmsSent
<1>1. ASSUME Inv, [Next]_vars
      PROVE  SubmitsOnly(LAMBDA env :
               \A a \in env.alarms :
                 /\ live[a.channel].initialized /\ ~live[a.channel].suppressed
                 /\ env.stage # Resolution => live[a.channel].unack >= RuleOf(policy, env.rule).minimum)
  <2> SUFFICES ASSUME Len(deliveries') > Len(deliveries), NEW a \in Last(deliveries').envelope.alarms
               PROVE  /\ live[a.channel].initialized /\ ~live[a.channel].suppressed
                      /\ Last(deliveries').envelope.stage # Resolution =>
                           live[a.channel].unack >= RuleOf(policy, Last(deliveries').envelope.rule).minimum
    BY DEF SubmitsOnly
  <2> DEFINE env == Last(deliveries').envelope
  <2>1. (env.test /\ env.alarms = {}) \/ TakesOut(env)
    BY <1>1, Submission
  <2>2. a \in env.alarms
    OBVIOUS
  <2> HIDE DEF env
  <2>3. TakesOut(env)
    BY <2>1, <2>2
  <2>4. PICK f, g : Chosen(env, f, g)
    BY <1>1, <2>3, TakesOutChosen
  <2>5. /\ live[a.channel].initialized /\ ~live[a.channel].suppressed
        /\ env.stage # Resolution => live[a.channel].unack >= RuleOf(policy, env.rule).minimum
    BY <1>1, <2>2, <2>4, ChosenLive
  <2> QED BY <2>5 DEF env
<1> QED BY <1>1, ServiceInvariant, PTL DEF Spec, OnlyLiveAlarmsSent

(* A resolution is only submitted to a destination that accepted an alarm  *)
(* of the same episode before.                                             *)
THEOREM ResolutionsFollow == Spec => ResolutionsFollowAlarms
<1>1. ASSUME Inv, [Next]_vars
      PROVE  SubmitsOnly(LAMBDA env :
               env.stage = Resolution => \A a \in env.alarms : <<a.episode, env.destination>> \in told)
  <2> SUFFICES ASSUME Len(deliveries') > Len(deliveries), Last(deliveries').envelope.stage = Resolution,
                      NEW a \in Last(deliveries').envelope.alarms
               PROVE  <<a.episode, Last(deliveries').envelope.destination>> \in told
    BY DEF SubmitsOnly
  <2> DEFINE env == Last(deliveries').envelope
  <2>1. (env.test /\ env.alarms = {}) \/ TakesOut(env)
    BY <1>1, Submission
  <2>2. a \in env.alarms /\ env.stage = Resolution
    OBVIOUS
  <2> HIDE DEF env
  <2>3. TakesOut(env)
    BY <2>1, <2>2
  <2>4. PICK f, g : Chosen(env, f, g)
    BY <1>1, <2>3, TakesOutChosen
  <2>5. Good(policy, f, a.episode) /\ f.stage = Resolution /\ f.destination = env.destination
    BY <2>2, <2>4 DEF Chosen
  <2>6. a.episode \in DOMAIN policy.episodes /\ f.destination \in policy.episodes[a.episode].accepted
    BY <2>5 DEF Good, StillValid
  <2>7. <<a.episode, env.destination>> \in told
    BY <1>1, <2>5, <2>6, InvFacts DEF ToldOf
  <2> QED BY <2>7 DEF env
<1> QED BY <1>1, ServiceInvariant, PTL DEF Spec, ResolutionsFollowAlarms

(* A resolution is submitted only for an episode that ended, to a          *)
(* destination that accepted its alarm, and not after the channel was      *)
(* suppressed since the end. Without the hypothesis the reload of          *)
(* reconcile, which does not look at suppression, makes it false.          *)
THEOREM ResolutionsAreDue == ASSUME Calm PROVE Spec => ResolutionsDue
<1>1. ASSUME Inv, [Next]_vars
      PROVE  SubmitsOnly(LAMBDA env :
               env.stage = Resolution => \A a \in env.alarms : a.episode \notin hushed)
  <2> SUFFICES ASSUME Len(deliveries') > Len(deliveries), Last(deliveries').envelope.stage = Resolution,
                      NEW a \in Last(deliveries').envelope.alarms
               PROVE  a.episode \notin hushed
    BY DEF SubmitsOnly
  <2> DEFINE env == Last(deliveries').envelope
  <2>1. (env.test /\ env.alarms = {}) \/ TakesOut(env)
    BY <1>1, Submission
  <2>2. a \in env.alarms /\ env.stage = Resolution
    OBVIOUS
  <2> HIDE DEF env
  <2>3. TakesOut(env)
    BY <2>1, <2>2
  <2>4. PICK f, g : Chosen(env, f, g)
    BY <1>1, <2>3, TakesOutChosen
  <2>5. Good(policy, f, a.episode) /\ f.stage = Resolution
    BY <2>2, <2>4 DEF Chosen
  <2>6. a.episode \in DOMAIN policy.episodes /\ policy.episodes[a.episode].resolved
    BY <2>5 DEF Good, StillValid
  <2> QED BY <1>1, <2>6, InvFacts DEF Silent
<1>2. Spec => SuppressionCancelsResolutions
  BY <1>1, ServiceInvariant, PTL DEF Spec, SuppressionCancelsResolutions
<1> QED BY <1>2, ResolutionsFollow DEF ResolutionsDue

(* While the cooldown that an attempt started is running, the same rule    *)
(* makes no other first attempt for the channel, stage and destination     *)
(* (markAttempted, enqueue).                                               *)
THEOREM RepeatsAreSuppressed == Spec => RepeatsSuppressed
<1>1. ASSUME Inv, [Next]_vars
      PROVE  SubmitsOnly(LAMBDA env : env.attempts = 1 => \A k \in Keys(env) : quiet[k] <= now)
  <2> SUFFICES ASSUME Len(deliveries') > Len(deliveries), Last(deliveries').envelope.attempts = 1,
                      NEW k \in Keys(Last(deliveries').envelope)
               PROVE  quiet[k] <= now
    BY DEF SubmitsOnly
  <2> DEFINE env == Last(deliveries').envelope
  <2>1. (env.test /\ env.alarms = {}) \/ TakesOut(env)
    BY <1>1, Submission
  <2>2. k \in Keys(env) /\ env.attempts = 1
    OBVIOUS
  <2> HIDE DEF env
  <2>3. ~env.test /\ env.stage # Resolution
    BY <2>2 DEF Keys
  <2>4. PICK a \in env.alarms : k = <<env.rule, a.channel, <<env.stage, env.destination>>>>
    BY <2>2, <2>3 DEF Keys
  <2>5. PICK f, g : Chosen(env, f, g)
    BY <1>1, <2>1, <2>3, TakesOutChosen
  <2>6. PICK i \in DOMAIN policy.queue : g = policy.queue[i]
    BY <2>5 DEF Chosen
  <2>7. /\ f.attempts = 0 /\ f.stage = env.stage /\ f.destination = env.destination /\ f.rule = env.rule
        /\ a \in f.alarms /\ Good(policy, f, a.episode) /\ Trimmed(policy, g, f) /\ g \in Letters
    BY <2>2, <2>5 DEF Chosen
  <2>8. /\ g.attempts = 0 /\ g.stage = env.stage /\ g.destination = env.destination /\ g.rule = env.rule
        /\ \E b \in g.alarms : b.episode = a.episode /\ b.channel = a.channel
    BY <2>7 DEF Trimmed
  <2>9. PICK b \in g.alarms : b.episode = a.episode /\ b.channel = a.channel
    BY <2>8
  <2>10. a.episode \in DOMAIN policy.episodes /\ policy.episodes[a.episode].active
    BY <2>3, <2>7 DEF Good, StillValid
  <2>11. policy.cooldown[k] <= now
    <3>1. Spaced(policy, now)
      BY <1>1, InvFacts DEF Posted
    <3> QED BY <2>3, <2>4, <2>6, <2>8, <2>9, <2>10, <3>1 DEF Spaced
  <2>12. k \in Triples
    <3>1. b \in Alarms
      BY <2>7 DEF Letters
    <3> QED BY <2>3, <2>4, <2>7, <2>8, <2>9, <3>1 DEF Letters, Alarms, Triples, Token
  <2>13. quiet[k] \in Nat /\ policy.cooldown[k] \in Nat /\ now \in Nat /\ quiet[k] <= policy.cooldown[k]
    BY <1>1, <2>12, InvFacts, PolicyFacts DEF Kinds, QuietedOf
  <2> QED BY <2>11, <2>13
<1> QED BY <1>1, ServiceInvariant, PTL DEF Spec, RepeatsSuppressed
===============================================================================
