----------------------- MODULE NotificationPolicyProofs -----------------------
(***************************************************************************)
(* Proofs about the operations of NotificationPolicy, for all settings,    *)
(* channels, limits and numbers of episodes: each keeps the policy sound   *)
(* and its letters in balance with what the episodes note as queued.       *)
(*                                                                         *)
(* A letter is an envelope that waits in the queue or is submitted. A      *)
(* policy that was edited or observed grows; one whose queue was worked on *)
(* keeps its rules and active episodes. The deliveries of the service are  *)
(* a parameter D here.                                                     *)
(***************************************************************************)
EXTENDS NotificationService, WellFoundedInduction, SequenceTheorems, FiniteSetTheorems, TLAPS

-----------------------------------------------------------------------------
(***************************************************************************)
(* The parts of the invariant.                                             *)
(***************************************************************************)

(* One alarm of a letter: the episode it is about, and what its channel    *)
(* showed.                                                                 *)
Alarms  == [episode : Nat, channel : Channels, state : Update]

(* Envelopes without the bounds of a run: of any number of attempts, due   *)
(* at any time.                                                            *)
Letters ==
  [rule : RuleIds, stage : StageIds \cup {Resolution}, destination : DestinationIds,
   alarms : SUBSET Alarms, attempts : Nat, ready : Nat, test : BOOLEAN]

(* The episodes of a policy, by number.                                    *)
Episodes == UNION {[S -> EpisodeRecord] : S \in SUBSET Nat}

(* The active episode of a rule and a channel (currentEpisodes).           *)
Currents == UNION {[S -> Nat] : S \in SUBSET (RuleIds \X Channels)}

(* What a cooldown is kept for: a rule, a channel, a stage with its        *)
(* destination.                                                            *)
Triples  == RuleIds \X Channels \X Token

(* What an episode may note as queued: a stage or its resolution, for a    *)
(* destination.                                                            *)
Tokens   == Token \cup ({Resolution} \X DestinationIds)

(* Every policy, whatever the bounds of a run.                             *)
Policies ==
  [enabled : BOOLEAN, configuration : Files, settings : NotificationSettings,
   known : SUBSET Channels, channels : [Channels -> Update], episodes : Episodes, count : Nat,
   current : Currents, resolvedEnded : [Channels -> SUBSET Nat], cooldown : [Triples -> Nat],
   batch : [Key -> Nat], next : [DestinationIds -> Nat], queue : Seq(Letters), throttled : BOOLEAN]

(* Where an active episode is found.                                       *)
KeyOf(e) == <<e.rule, e.channel>>

(* Episodes are numbered in the order in which they started.               *)
Numbered(p) ==
  /\ DOMAIN p.episodes \subseteq 1..p.count
  /\ \A c \in Channels : p.resolvedEnded[c] \subseteq DOMAIN p.episodes

(* The active episodes are those that can be found by rule and channel.    *)
Tracked(p) ==
  /\ \A k \in DOMAIN p.current :
       /\ p.current[k] \in DOMAIN p.episodes
       /\ p.episodes[p.current[k]].active /\ KeyOf(p.episodes[p.current[k]]) = k
  /\ \A id \in DOMAIN p.episodes :
       p.episodes[id].active =>
         KeyOf(p.episodes[id]) \in DOMAIN p.current /\ p.current[KeyOf(p.episodes[id])] = id

(* An episode has its rule, and while it is active the rule matches.       *)
Ruled(p) ==
  \A id \in DOMAIN p.episodes :
    LET e == p.episodes[id]
    IN  HasRule(p, e.rule) /\ (e.active => RuleOf(p, e.rule) \in Matching(p, e.channel))

(* A resolved episode has ended, and its channel notes it (resolvedEnded), *)
(* so that suppress finds it.                                              *)
EndsNoted(p) ==
  \A id \in DOMAIN p.episodes :
    LET e == p.episodes[id] IN e.resolved => ~e.active /\ id \in p.resolvedEnded[e.channel]

(* An active episode that does not wait shows in its channel.              *)
Shows(p, e) == e.channel \in p.known /\ Eligible(RuleOf(p, e.rule), p.channels[e.channel])

(* Every active episode that does not wait shows in its channel.           *)
Showing(p) ==
  \A id \in DOMAIN p.episodes :
    p.episodes[id].active /\ ~p.episodes[id].waiting => Shows(p, p.episodes[id])

(* setEnabled(false) leaves no episode and no letter.                      *)
Emptied(p) == ~p.enabled => DOMAIN p.episodes = {} /\ p.queue = <<>>

(* No resolution is due for a suppressed channel.                          *)
Unsuppressed(p) ==
  \A id \in DOMAIN p.episodes :
    p.episodes[id].resolved => ~p.channels[p.episodes[id].channel].suppressed

(* What every operation of NotificationPolicy keeps of its own state.      *)
Sound(p) ==
  p \in Policies /\ Numbered(p) /\ Tracked(p) /\ Ruled(p) /\ EndsNoted(p) /\ Emptied(p)

(* An alarm of a letter belongs to the letter's rule.                      *)
Addressed(p, env) ==
  \A a \in env.alarms :
    /\ a.episode \in 1..p.count
    /\ a.episode \in DOMAIN p.episodes => KeyOf(p.episodes[a.episode]) = <<env.rule, a.channel>>

(* The alarms of the letters that wait or are submitted belong to the      *)
(* rules of the letters; what waits is no test and has attempts left.      *)
Mailed(p, D) ==
  /\ \A i \in DOMAIN p.queue : Addressed(p, p.queue[i]) /\ ~p.queue[i].test /\ p.queue[i].attempts < Attempts
  /\ \A i \in DOMAIN D : Addressed(p, D[i].envelope)

(* The attempts whose transport has not ended.                             *)
Running(D) == {i \in DOMAIN D : ~D[i].done}

(* Where letters are, waiting or submitted.                                *)
Carriers(p, D) == ({"queue"} \X DOMAIN p.queue) \cup ({"flight"} \X Running(D))

(* The letter that a carrier holds.                                        *)
LetterAt(p, D, x) == IF x[1] = "queue" THEN p.queue[x[2]] ELSE D[x[2]].envelope

(* What an episode notes as queued is in one letter, waiting or submitted. *)
Balanced(p, D) ==
  \A id \in DOMAIN p.episodes, t \in Tokens :
    /\ t \in MarkedTokens(p.episodes[id]) <=>
         \E x \in Carriers(p, D) : Announces(LetterAt(p, D, x), id, t)
    /\ \A x, y \in Carriers(p, D) :
         Announces(LetterAt(p, D, x), id, t) /\ Announces(LetterAt(p, D, y), id, t) => x = y

(* A first attempt that waits was due when it was queued.                  *)
Spaced(p, t) ==
  \A i \in DOMAIN p.queue :
    LET env == p.queue[i]
    IN  env.attempts = 0 /\ env.stage # Resolution =>
          \A a \in env.alarms :
            a.episode \in DOMAIN p.episodes /\ p.episodes[a.episode].active =>
              p.cooldown[<<env.rule, a.channel, <<env.stage, env.destination>>>>] <= t

(* No channel of a new engine starts suppressed.                           *)
Calm == \A u \in Reloaded : ~u.suppressed

(* A set of natural numbers has a least one: what stands for induction     *)
(* below.                                                                  *)
LEMMA LeastOf ==
  ASSUME NEW T, T \subseteq Nat, T # {}
  PROVE  Min(T) \in T /\ \A m \in T : Min(T) <= m
<1>1. OpToRel(<, Nat) = {ss \in Nat \X Nat : ss[1] < ss[2]}
  BY ONLY Zenon DEF OpToRel
<1>2. PICK n \in T : \A m \in T : ~(<<m, n>> \in OpToRel(<, Nat))
  BY NatLessThanWellFounded, WFMin
<1>3. \A m \in T : n <= m
  <2> TAKE m \in T
  <2>1. <<m, n>> \in Nat \X Nat /\ <<m, n>>[1] = m /\ <<m, n>>[2] = n
    OBVIOUS
  <2>2. ~(m < n)
    BY ONLY <1>1, <1>2, <2>1, m \in T, Zenon
  <2> QED BY <2>2
<1> QED BY <1>3 DEF Min

(***************************************************************************)
(* Folds.  The function that a fold iterates exists when every step leads  *)
(* from a value allowed for the elements so far to an allowed one.         *)
(***************************************************************************)
Foldable(S, V, W, base, pick, G) ==
  /\ IsFiniteSet(S)
  /\ \A s \in SUBSET S : W[s] \subseteq V
  /\ base \in W[{}]
  /\ \A s \in SUBSET S : s # {} =>
        pick[s] \in s /\ \A v \in W[s \ {pick[s]}] : G[<<pick[s], v>>] \in W[s]

(* A fold over the subsets of S, its picks in an order of their own, is a  *)
(* function: there is an f with the values of the fold at every subset.    *)
Folded(f, S, W, base, pick, G) ==
  \A s \in SUBSET S : f[s] \in W[s] /\ f[s] = IF s = {} THEN base ELSE G[<<pick[s], f[s \ {pick[s]}]>>]

(* The function that iterates the fold exists.                             *)
HasFold(S, V, W, base, pick, G) == \E f \in [SUBSET S -> V] : Folded(f, S, W, base, pick, G)

(* By a least size of a subset at which there is none.                     *)
LEMMA FoldExists ==
  ASSUME NEW S, NEW V, NEW W, NEW base, NEW pick, NEW G, Foldable(S, V, W, base, pick, G)
  PROVE  HasFold(S, V, W, base, pick, G)
<1> DEFINE Upto(n) == {s \in SUBSET S : Cardinality(s) <= n}
           Good(f, n) ==
             /\ f \in [Upto(n) -> V]
             /\ \A s \in Upto(n) :
                  f[s] \in W[s] /\ f[s] = IF s = {} THEN base ELSE G[<<pick[s], f[s \ {pick[s]}]>>]
           T == {n \in Nat : ~\E f : Good(f, n)}
<1> USE DEF Foldable, Folded, HasFold
<1>0. \A s \in SUBSET S : IsFiniteSet(s) /\ Cardinality(s) \in Nat
  BY FS_Subset, FS_CardinalityType
<1>1. T = {}
  <2> SUFFICES ASSUME T # {} PROVE FALSE
    OBVIOUS
  <2>1. PICK n \in T : \A m \in T : n <= m
    <3>1. T \subseteq Nat
      OBVIOUS
    <3> HIDE DEF T
    <3> QED BY <3>1, LeastOf
  <2>2. n \in Nat /\ ~\E f : Good(f, n)
    BY <2>1
  <2>3. CASE n = 0
    <3>1. \A s \in Upto(0) : s = {}
      BY <1>0, FS_EmptySet
    <3>2. Good([s \in Upto(0) |-> base], 0)
      BY <3>1
    <3> QED BY <2>2, <2>3, <3>2
  <2>4. CASE n # 0
    <3>1. n - 1 \in Nat /\ n - 1 \notin T
      <4>1. n - 1 \in Nat /\ ~(n <= n - 1)
        BY <2>2, <2>4
      <4> HIDE DEF T
      <4> QED BY <2>1, <4>1
    <3>2. PICK f : Good(f, n - 1)
      BY <3>1
    <3> DEFINE g == [s \in Upto(n) |-> IF s = {} THEN base ELSE G[<<pick[s], f[s \ {pick[s]}]>>]]
    <3>3. \A s \in Upto(n - 1) : s \in Upto(n) /\ g[s] = f[s]
      BY <1>0, <2>2, <3>2
    <3>4. ASSUME NEW s \in Upto(n), s # {}
          PROVE  s \ {pick[s]} \in Upto(n - 1)
      <4>1. pick[s] \in s /\ Cardinality(s \ {pick[s]}) = Cardinality(s) - 1
        BY <1>0, <3>4, FS_RemoveElement
      <4> QED BY <1>0, <2>2, <3>4, <4>1
    <3>5. ASSUME NEW s \in Upto(n)
          PROVE  g[s] \in W[s] /\ g[s] = IF s = {} THEN base ELSE G[<<pick[s], g[s \ {pick[s]}]>>]
      <4>1. CASE s = {}
        BY <4>1
      <4>2. CASE s # {}
        <5>1. s \ {pick[s]} \in Upto(n - 1)
          BY <3>4, <4>2
        <5>2. g[s \ {pick[s]}] = f[s \ {pick[s]}] /\ f[s \ {pick[s]}] \in W[s \ {pick[s]}]
          BY <3>2, <3>3, <5>1
        <5> HIDE DEF Upto
        <5>3. g[s] = G[<<pick[s], f[s \ {pick[s]}]>>]
          BY <4>2
        <5>4. s \in SUBSET S
          BY DEF Upto
        <5> QED BY <4>2, <5>2, <5>3, <5>4
      <4> QED BY <4>1, <4>2
    <3>6. Good(g, n)
      <4>1. \A s \in Upto(n) : g[s] \in V
        BY <3>5
      <4> HIDE DEF Upto
      <4>2. g \in [Upto(n) -> V]
        BY <4>1
      <4> QED BY <3>5, <4>2
    <3> QED BY <2>2, <3>6
  <2> QED BY <2>3, <2>4
<1>2. Cardinality(S) \in Nat /\ Upto(Cardinality(S)) = SUBSET S
  BY <1>0, FS_Subset, FS_CardinalityType
<1>3. PICK f : Good(f, Cardinality(S))
  BY <1>1, <1>2
<1> QED BY <1>2, <1>3

(* What holds of the empty set and is passed on at each pick of a fold     *)
(* holds of the whole set.                                                 *)
Inherited(S, W, pick, f) ==
  /\ IsFiniteSet(S)
  /\ f[{}] \in W[{}]
  /\ \A s \in SUBSET S : s # {} =>
        pick[s] \in s /\ (f[s \ {pick[s]}] \in W[s \ {pick[s]}] => f[s] \in W[s])

(* In the same way.                                                        *)
LEMMA FoldInduction ==
  ASSUME NEW S, NEW W, NEW pick, NEW f, Inherited(S, W, pick, f)
  PROVE  f[S] \in W[S]
<1> USE DEF Inherited
<1> DEFINE T == {n \in Nat : \E s \in SUBSET S : Cardinality(s) = n /\ f[s] \notin W[s]}
<1>0. \A s \in SUBSET S : IsFiniteSet(s) /\ Cardinality(s) \in Nat
  BY FS_Subset, FS_CardinalityType
<1>1. T = {}
  <2> SUFFICES ASSUME T # {} PROVE FALSE
    OBVIOUS
  <2>1. PICK n \in T : \A m \in T : n <= m
    <3>1. T \subseteq Nat
      OBVIOUS
    <3> HIDE DEF T
    <3> QED BY <3>1, LeastOf
  <2>2. PICK s \in SUBSET S : Cardinality(s) = n /\ f[s] \notin W[s]
    BY <2>1
  <2>3. s # {} /\ pick[s] \in s /\ f[s \ {pick[s]}] \notin W[s \ {pick[s]}]
    BY <2>2
  <2>4. Cardinality(s \ {pick[s]}) = n - 1 /\ Cardinality(s \ {pick[s]}) \in Nat
    BY <1>0, <2>2, <2>3, FS_RemoveElement
  <2>5. n - 1 \in T
    BY <2>2, <2>3, <2>4
  <2> QED BY <2>1, <2>5
<1> QED BY <1>0, <1>1, FS_CardinalityType

(* The greatest and least of finitely many times are among them, as        *)
(* TrimRecords and Interval take them.                                     *)
LEMMA FiniteExtremes ==
  ASSUME NEW S, IsFiniteSet(S), S \subseteq Int, S # {}
  PROVE  /\ Max(S) \in S /\ \A y \in S : Max(S) >= y
         /\ Min(S) \in S /\ \A y \in S : Min(S) <= y
<1> DEFINE Bounded(s) == (\E x \in s : \A y \in s : x >= y) /\ (\E x \in s : \A y \in s : x <= y)
           T == {n \in Nat : \E s \in SUBSET S : s # {} /\ Cardinality(s) = n /\ ~Bounded(s)}
<1>0. \A s \in SUBSET S : IsFiniteSet(s) /\ Cardinality(s) \in Nat
  BY FS_Subset, FS_CardinalityType
<1>1. T = {}
  <2> SUFFICES ASSUME T # {} PROVE FALSE
    OBVIOUS
  <2>1. PICK n \in T : \A m \in T : n <= m
    <3>1. T \subseteq Nat
      OBVIOUS
    <3> HIDE DEF T
    <3> QED BY <3>1, LeastOf
  <2>2. PICK s \in SUBSET S : s # {} /\ Cardinality(s) = n /\ ~Bounded(s)
    BY <2>1
  <2>3. PICK x \in s : TRUE
    BY <2>2
  <2>4. Cardinality(s \ {x}) = n - 1 /\ Cardinality(s \ {x}) \in Nat
    BY <1>0, <2>2, <2>3, FS_RemoveElement
  <2>5. s \ {x} \in SUBSET S /\ x \in Int
    BY <2>2
  <2>6. s \ {x} = {} \/ Bounded(s \ {x})
    <3>1. n - 1 \notin T
      <4>1. ~(n <= n - 1)
        BY <2>1, <2>4
      <4> HIDE DEF T
      <4> QED BY <2>1, <4>1
    <3> QED BY <2>4, <2>5, <3>1
  <2>7. CASE s \ {x} = {}
    <3>1. \A y \in s : y = x
      BY <2>7
    <3> QED BY <2>2, <2>5, <3>1
  <2>8. CASE Bounded(s \ {x})
    <3>1. PICK high \in s \ {x} : \A y \in s \ {x} : high >= y
      BY <2>8
    <3>2. PICK low \in s \ {x} : \A y \in s \ {x} : low <= y
      BY <2>8
    <3>3. \A y \in s : y = x \/ (high >= y /\ low <= y)
      BY <3>1, <3>2
    <3>4. s \subseteq Int /\ high \in Int /\ low \in Int
      BY <3>1, <3>2
    <3>5. \E h \in s : \A y \in s : h >= y
      <4>1. CASE x >= high
        <5>1. \A y \in s : x >= y
          BY <2>5, <3>3, <3>4, <4>1
        <5> QED BY <5>1
      <4>2. CASE high >= x
        <5>1. \A y \in s : high >= y
          BY <2>5, <3>3, <3>4, <4>2
        <5> QED BY <5>1
      <4> QED BY <2>5, <3>4, <4>1, <4>2
    <3>6. \E l \in s : \A y \in s : l <= y
      <4>1. CASE x <= low
        <5>1. \A y \in s : x <= y
          BY <2>5, <3>3, <3>4, <4>1
        <5> QED BY <5>1
      <4>2. CASE low <= x
        <5>1. \A y \in s : low <= y
          BY <2>5, <3>3, <3>4, <4>2
        <5> QED BY <5>1
      <4> QED BY <2>5, <3>4, <4>1, <4>2
    <3> QED BY <2>2, <3>5, <3>6
  <2> QED BY <2>6, <2>7, <2>8
<1>2. Bounded(S)
  <2>1. Cardinality(S) \in Nat /\ S \in SUBSET S
    BY <1>0
  <2> QED BY <1>1, <2>1
<1> QED BY <1>2 DEF Max, Min

(* What MapThenFoldSet picks of a set.                                     *)
Member(s) == CHOOSE x \in s : TRUE

(* A set that is not empty has the member it chooses.                      *)
LEMMA MemberFacts == ASSUME NEW s, s # {} PROVE Member(s) \in s
  BY DEF Member

(* The rank of a place is the number of places up to it.                   *)
LEMMA RankCounts ==
  ASSUME NEW places, NEW i
  PROVE  Rank(places, i) = Cardinality({j \in places : j <= i})
  BY DEF Rank

(* Ranks number the places from 1 on.                                      *)
LEMMA RankFacts ==
  ASSUME NEW n \in Nat, NEW places \in SUBSET (1..n)
  PROVE  /\ Cardinality(places) \in Nat
         /\ \A i \in places : Rank(places, i) \in 1..Cardinality(places)
         /\ \A i, j \in places : Rank(places, i) = Rank(places, j) => i = j
         /\ \A k \in 1..Cardinality(places) : \E i \in places : Rank(places, i) = k
<1> DEFINE upto(i) == {j \in places : j <= i}
           rank == [i \in places |-> Rank(places, i)]
<1>1. IsFiniteSet(places) /\ Cardinality(places) \in Nat
  <2>1. IsFiniteSet(1..n)
    BY FS_Interval
  <2> QED BY <2>1, FS_Subset, FS_CardinalityType
<1>2. \A i \in places : IsFiniteSet(upto(i)) /\ Cardinality(upto(i)) \in Nat
                        /\ Cardinality(upto(i)) <= Cardinality(places)
  BY <1>1, FS_Subset, FS_CardinalityType
<1>3. ASSUME NEW i \in places PROVE Rank(places, i) \in 1..Cardinality(places)
  <2>1. i \in upto(i)
    OBVIOUS
  <2>2. Cardinality(upto(i)) # 0
    BY <1>2, <2>1, FS_EmptySet
  <2> QED BY <1>1, <1>2, <2>2, RankCounts
<1>4. ASSUME NEW i \in places, NEW j \in places, i < j
      PROVE  Rank(places, i) # Rank(places, j)
  <2>1. upto(i) \in SUBSET upto(j) /\ j \in upto(j) /\ j \notin upto(i)
    <3>1. i \in Int /\ j \in Int /\ \A l \in places : l \in Int
      OBVIOUS
    <3>2. \A l \in places : l <= i => l <= j
      BY <1>4, <3>1
    <3>3. ~(j <= i) /\ j <= j
      BY <1>4, <3>1
    <3> QED BY <3>2, <3>3
  <2>2. Cardinality(upto(j)) # Cardinality(upto(i))
    <3> HIDE DEF upto
    <3> QED BY <1>2, <2>1, FS_Subset
  <2> QED BY <2>2, RankCounts
<1>5. \A i, j \in places : Rank(places, i) = Rank(places, j) => i = j
  <2> TAKE i \in places, j \in places
  <2>1. i \in Int /\ j \in Int
    OBVIOUS
  <2> QED BY <1>4, <2>1
<1>6. rank \in Injection(places, 1..Cardinality(places))
  BY <1>3, <1>5 DEF Injection, IsInjective
<1>7. IsFiniteSet(1..Cardinality(places)) /\ Cardinality(1..Cardinality(places)) = Cardinality(places)
  BY <1>1, FS_Interval
<1>8. rank \in Surjection(places, 1..Cardinality(places))
  <2> HIDE DEF rank
  <2> QED BY <1>6, <1>7, FS_Injection
<1>9. \A k \in 1..Cardinality(places) : \E i \in places : Rank(places, i) = k
  BY <1>8 DEF Surjection
<1> QED BY <1>1, <1>3, <1>5, <1>9

(* Only keeps the elements of a sequence at the given places, each at its  *)
(* rank.                                                                   *)
LEMMA OnlyFacts ==
  ASSUME NEW T, NEW s \in Seq(T), NEW places \in SUBSET DOMAIN s,
         NEW r, r = Only(s, places)
  PROVE  /\ r \in Seq(T) /\ DOMAIN r = 1..Cardinality(places) /\ Cardinality(places) \in Nat
         /\ \A k \in DOMAIN r : \E i \in places : Rank(places, i) = k /\ r[k] = s[i]
<1>1. places \in SUBSET (1..Len(s)) /\ Len(s) \in Nat
  OBVIOUS
<1>2. /\ Cardinality(places) \in Nat
      /\ \A k \in 1..Cardinality(places) : \E i \in places : Rank(places, i) = k
  BY <1>1, RankFacts
<1>3. r = [k \in 1..Cardinality(places) |-> s[CHOOSE i \in places : Rank(places, i) = k]]
  BY DEF Only
<1>4. ASSUME NEW k \in 1..Cardinality(places)
      PROVE  \E i \in places : Rank(places, i) = k /\ r[k] = s[i]
  <2>1. (CHOOSE i \in places : Rank(places, i) = k) \in places
        /\ Rank(places, CHOOSE i \in places : Rank(places, i) = k) = k
    BY <1>2
  <2> QED BY <1>3, <2>1
<1>5. r \in Seq(T)
  <2>1. \A k \in 1..Cardinality(places) : r[k] \in T
    BY <1>1, <1>4
  <2>2. r \in [1..Cardinality(places) -> T]
    BY <1>3, <2>1
  <2> QED BY <1>2, <2>2
<1> QED BY <1>2, <1>3, <1>4, <1>5

-----------------------------------------------------------------------------
(***************************************************************************)
(* Episodes: what starting, ending and observing one does.                 *)
(***************************************************************************)

(* Two policies with the same settings.                                    *)
SameRules(p, q) ==
  q.enabled = p.enabled /\ q.configuration = p.configuration /\ q.settings = p.settings

(* Two policies that saw the same of the channels.                         *)
SameSight(p, q) == q.known = p.known /\ q.channels = p.channels

(* Two policies with the same queue and cooldowns.                         *)
SameMail(p, q)  == q.queue = p.queue /\ q.cooldown = p.cooldown

(* Episodes go on or start anew; none becomes active or due again.         *)
GoesOn(e, f) ==
  /\ KeyOf(f) = KeyOf(e) /\ f.accepted = e.accepted
  /\ f.queued = e.queued /\ f.resolutionQueued = e.resolutionQueued
  /\ f.active => e.active
  /\ f.resolved => e.active \/ e.resolved

(* An episode of which nothing was queued or accepted.                     *)
Unmarked(e) == e.queued = {} /\ e.resolutionQueued = {} /\ e.accepted = {}

(* Episodes go on, and new ones have new numbers.                          *)
Grows(p, q) ==
  /\ p.count <= q.count
  /\ \A id \in DOMAIN q.episodes :
       IF id \in DOMAIN p.episodes THEN GoesOn(p.episodes[id], q.episodes[id])
       ELSE id > p.count /\ Unmarked(q.episodes[id])

(* Functions from numbers to episodes.                                     *)
LEMMA EpisodesFacts ==
  /\ \A f \in Episodes : /\ DOMAIN f \in SUBSET Nat /\ f = [x \in DOMAIN f |-> f[x]]
                         /\ \A x \in DOMAIN f : f[x] \in EpisodeRecord
  /\ \A S \in SUBSET Nat : \A f \in [S -> EpisodeRecord] : f \in Episodes /\ DOMAIN f = S
  BY DEF Episodes

(* Functions from rules and channels to numbers.                           *)
LEMMA CurrentsFacts ==
  /\ \A f \in Currents : /\ DOMAIN f \in SUBSET (RuleIds \X Channels) /\ f = [x \in DOMAIN f |-> f[x]]
                         /\ \A x \in DOMAIN f : f[x] \in Nat
  /\ \A S \in SUBSET (RuleIds \X Channels) : \A f \in [S -> Nat] : f \in Currents /\ DOMAIN f = S
  BY DEF Currents

(* The kinds of the fields of a policy.                                    *)
LEMMA PolicyFacts ==
  ASSUME NEW p \in Policies
  PROVE  /\ p.enabled \in BOOLEAN /\ p.configuration \in Files /\ p.settings \in NotificationSettings
         /\ p.known \in SUBSET Channels /\ p.channels \in [Channels -> Update]
         /\ p.episodes \in Episodes /\ p.count \in Nat /\ p.current \in Currents
         /\ p.resolvedEnded \in [Channels -> SUBSET Nat] /\ p.cooldown \in [Triples -> Nat]
         /\ p.batch \in [Key -> Nat] /\ p.next \in [DestinationIds -> Nat]
         /\ p.queue \in Seq(Letters) /\ p.throttled \in BOOLEAN
  BY DEF Policies

(* Settings have finitely many rules, one of each name.                    *)
LEMMA SettingsFacts ==
  ASSUME NEW s \in NotificationSettings
  PROVE  /\ IsFiniteSet(s.rules) /\ s.rules \subseteq Rules
         /\ \A r, q \in s.rules : r.id = q.id => r = q
         /\ \A r \in s.rules : r.id \in RuleIds /\ r.cooldown \in Nat /\ r.minimum \in 1..4
  BY PolicyAssumption DEF NotificationSettings, ValidSettings

(* ruleById finds a rule of the settings.                                  *)
LEMMA RuleFacts ==
  ASSUME NEW p \in Policies, NEW id, HasRule(p, id)
  PROVE  /\ RuleOf(p, id) \in p.settings.rules /\ RuleOf(p, id).id = id /\ id \in RuleIds
         /\ RuleOf(p, id).cooldown \in Nat /\ RuleOf(p, id).minimum \in 1..4
<1>1. RuleOf(p, id) \in p.settings.rules /\ RuleOf(p, id).id = id
  BY DEF HasRule, RuleOf
<1> QED BY <1>1, PolicyFacts, SettingsFacts

(* A rule is found by its name.                                            *)
LEMMA RuleUnique ==
  ASSUME NEW p \in Policies, NEW r \in p.settings.rules
  PROVE  HasRule(p, r.id) /\ RuleOf(p, r.id) = r /\ r.id \in RuleIds
<1>1. HasRule(p, r.id)
  BY DEF HasRule
<1>2. RuleOf(p, r.id) \in p.settings.rules /\ RuleOf(p, r.id).id = r.id
  BY <1>1, RuleFacts
<1> QED BY <1>1, <1>2, PolicyFacts, SettingsFacts

(* What matches are rules of the settings.                                 *)
LEMMA MatchingFacts ==
  ASSUME NEW p \in Policies, NEW c
  PROVE  /\ IsFiniteSet(Matching(p, c))
         /\ \A r \in Matching(p, c) : r \in p.settings.rules /\ HasRule(p, r.id)
                                      /\ RuleOf(p, r.id) = r /\ r.id \in RuleIds
<1>1. Matching(p, c) \subseteq p.settings.rules
  BY DEF Matching
<1>2. IsFiniteSet(p.settings.rules)
  BY PolicyFacts, SettingsFacts
<1> QED BY <1>1, <1>2, FS_Subset, RuleUnique

(* The same settings find and match the same.                              *)
LEMMA SameRulesFacts ==
  ASSUME NEW p, NEW q, SameRules(p, q)
  PROVE  /\ \A id : HasRule(q, id) = HasRule(p, id) /\ RuleOf(q, id) = RuleOf(p, id)
         /\ \A c : Matching(q, c) = Matching(p, c)
  BY DEF SameRules, HasRule, RuleOf, Matching

(* One growth after another.                                               *)
LEMMA GrowsTrans ==
  ASSUME NEW p \in Policies, NEW q \in Policies, NEW r \in Policies,
         Numbered(p), Grows(p, q), Grows(q, r)
  PROVE  Grows(p, r)
<1>1. p.count \in Nat /\ q.count \in Nat /\ r.count \in Nat /\ p.count <= r.count
  BY PolicyFacts DEF Grows
<1>2. ASSUME NEW id \in DOMAIN r.episodes
      PROVE  IF id \in DOMAIN p.episodes THEN GoesOn(p.episodes[id], r.episodes[id])
             ELSE id > p.count /\ Unmarked(r.episodes[id])
  <2>1. id \in Nat
    BY PolicyFacts, EpisodesFacts
  <2>2. CASE id \in DOMAIN q.episodes
    BY <1>1, <2>1, <2>2 DEF Grows, GoesOn, Unmarked
  <2>3. CASE id \notin DOMAIN q.episodes
    <3>1. id > q.count /\ Unmarked(r.episodes[id])
      BY <2>3 DEF Grows
    <3>2. id \notin DOMAIN p.episodes
      <4>1. id > p.count
        BY <1>1, <2>1, <3>1 DEF Grows
      <4> QED BY <1>1, <2>1, <4>1 DEF Numbered
    <3> QED BY <1>1, <2>1, <3>1, <3>2 DEF Grows
  <2> QED BY <2>2, <2>3
<1> QED BY <1>1, <1>2 DEF Grows

(* Nothing happened.                                                       *)
LEMMA GrowsSelf == ASSUME NEW p \in Policies PROVE Grows(p, p)
  BY PolicyFacts DEF Grows, GoesOn

(* Two policies that differ in their episodes alone.                       *)
Rest(p, q) == SameRules(p, q) /\ SameSight(p, q) /\ SameMail(p, q)

(* One episode is written anew.                                            *)
Replaces(p, q, id, e) ==
  /\ q \in Policies /\ Rest(p, q) /\ q.count = p.count
  /\ q.current = p.current /\ q.resolvedEnded = p.resolvedEnded
  /\ DOMAIN q.episodes = DOMAIN p.episodes /\ q.episodes[id] = e
  /\ \A x \in DOMAIN p.episodes : x # id => q.episodes[x] = p.episodes[x]

(* What EXCEPT does to the episodes.                                       *)
LEMMA ReplacedEpisode ==
  ASSUME NEW p \in Policies, NEW id \in DOMAIN p.episodes, NEW e \in EpisodeRecord,
         NEW q, q = [p EXCEPT !.episodes[id] = e]
  PROVE  Replaces(p, q, id, e)
<1> DEFINE f == [p.episodes EXCEPT ![id] = e]
<1>1. p.episodes \in Episodes
  BY PolicyFacts
<1>2. f \in Episodes /\ DOMAIN f = DOMAIN p.episodes /\ f[id] = e
      /\ \A x \in DOMAIN p.episodes : x # id => f[x] = p.episodes[x]
  <2>1. f \in [DOMAIN p.episodes -> EpisodeRecord]
    BY <1>1, EpisodesFacts
  <2> QED BY <1>1, <2>1, EpisodesFacts
<1>3. q = [p EXCEPT !.episodes = f]
  OBVIOUS
<1> HIDE DEF f
<1>4. q \in Policies /\ q.episodes = f
  BY <1>2, <1>3 DEF Policies
<1>5. Rest(p, q) /\ q.count = p.count /\ q.current = p.current /\ q.resolvedEnded = p.resolvedEnded
  BY <1>3 DEF Policies, Rest, SameRules, SameSight, SameMail
<1> QED BY <1>2, <1>4, <1>5 DEF Replaces

(* One active episode ends.                                                *)
Ends(p, q, id, resolved) ==
  /\ q \in Policies /\ Rest(p, q) /\ q.count = p.count
  /\ DOMAIN q.episodes = DOMAIN p.episodes
  /\ q.episodes[id] = Ended(p.episodes[id], resolved)
  /\ \A x \in DOMAIN p.episodes : x # id => q.episodes[x] = p.episodes[x]
  /\ DOMAIN q.current = DOMAIN p.current \ {KeyOf(p.episodes[id])}
  /\ \A k \in DOMAIN q.current : q.current[k] = p.current[k]
  /\ \A c \in Channels :
       q.resolvedEnded[c] = IF c = p.episodes[id].channel /\ resolved
                            THEN p.resolvedEnded[c] \cup {id} ELSE p.resolvedEnded[c]

(* What End does to the policy.                                            *)
LEMMA EndedEpisode ==
  ASSUME NEW p \in Policies, NEW id \in DOMAIN p.episodes, NEW resolved \in BOOLEAN,
         NEW q, q = End(p, id, resolved)
  PROVE  Ends(p, q, id, resolved)
<1> DEFINE e == p.episodes[id]
           f == [p.episodes EXCEPT ![id] = Ended(e, resolved)]
           g == [p.resolvedEnded EXCEPT ![e.channel] = IF resolved THEN @ \cup {id} ELSE @]
           h == Restrict(p.current, DOMAIN p.current \ {<<e.rule, e.channel>>})
<1>1. p.episodes \in Episodes /\ p.current \in Currents /\ p.resolvedEnded \in [Channels -> SUBSET Nat]
  BY PolicyFacts
<1>2. e \in EpisodeRecord /\ id \in Nat
  BY <1>1, EpisodesFacts
<1>3. Ended(e, resolved) \in EpisodeRecord
  BY <1>2 DEF Ended, EpisodeRecord
<1>4. f \in Episodes /\ DOMAIN f = DOMAIN p.episodes /\ f[id] = Ended(e, resolved)
      /\ \A x \in DOMAIN p.episodes : x # id => f[x] = p.episodes[x]
  <2> HIDE DEF e
  <2>1. f \in [DOMAIN p.episodes -> EpisodeRecord]
    BY <1>1, <1>3, EpisodesFacts
  <2> QED BY <1>1, <2>1, EpisodesFacts
<1>5. g \in [Channels -> SUBSET Nat]
      /\ \A c \in Channels : g[c] = IF c = e.channel /\ resolved THEN p.resolvedEnded[c] \cup {id}
                                    ELSE p.resolvedEnded[c]
  <2> HIDE DEF e
  <2> QED BY <1>1, <1>2
<1>6. h \in Currents /\ DOMAIN h = DOMAIN p.current \ {KeyOf(e)} /\ \A k \in DOMAIN h : h[k] = p.current[k]
  <2> DEFINE S == DOMAIN p.current \ {KeyOf(e)}
  <2>1. h = [k \in S |-> p.current[k]]
    BY DEF Restrict, KeyOf
  <2>2. S \in SUBSET (RuleIds \X Channels) /\ \A k \in S : p.current[k] \in Nat
    BY <1>1, CurrentsFacts
  <2> HIDE DEF S, h
  <2>3. h \in [S -> Nat]
    BY <2>1, <2>2
  <2>4. h \in Currents /\ DOMAIN h = S
    BY <2>2, <2>3, CurrentsFacts
  <2>5. \A k \in S : h[k] = p.current[k]
    BY <2>1
  <2> QED BY <2>4, <2>5 DEF S
<1>7. q = [p EXCEPT !.episodes = f, !.resolvedEnded = g, !.current = h]
  BY Zenon DEF End
<1> HIDE DEF f, g, h
<1>8. q \in Policies /\ q.episodes = f /\ q.resolvedEnded = g /\ q.current = h
  BY <1>4, <1>5, <1>6, <1>7 DEF Policies
<1>9. Rest(p, q) /\ q.count = p.count
  BY <1>7 DEF Policies, Rest, SameRules, SameSight, SameMail
<1> QED BY <1>4, <1>5, <1>6, <1>8, <1>9 DEF Ends

(* One episode is added.                                                   *)
Starts(p, q, r, c) ==
  /\ q \in Policies /\ Rest(p, q) /\ q.count = p.count + 1
  /\ p.count + 1 \notin DOMAIN p.episodes
  /\ DOMAIN q.episodes = DOMAIN p.episodes \cup {p.count + 1}
  /\ \A x \in DOMAIN p.episodes : q.episodes[x] = p.episodes[x]
  /\ LET e == q.episodes[p.count + 1]
     IN  /\ KeyOf(e) = <<r.id, c>> /\ e.rule = r.id /\ e.channel = c /\ Unmarked(e)
         /\ e.active /\ ~e.resolved /\ ~e.waiting
  /\ DOMAIN q.current = DOMAIN p.current \cup {<<r.id, c>>}
  /\ q.current[<<r.id, c>>] = p.count + 1
  /\ \A k \in DOMAIN p.current : k # <<r.id, c>> => q.current[k] = p.current[k]
  /\ q.resolvedEnded = p.resolvedEnded

(* What Started does to the policy.                                        *)
LEMMA StartedEpisode ==
  ASSUME NEW p \in Policies, Numbered(p), NEW r \in p.settings.rules, NEW c \in Channels,
         NEW u \in Update, NEW t \in Nat,
         NEW q, q = Started(p, r, c, u, t)
  PROVE  Starts(p, q, r, c)
<1> DEFINE id == p.count + 1
           e == [rule |-> r.id, channel |-> c, state |-> u, started |-> t,
                 active |-> TRUE, resolved |-> FALSE, waiting |-> FALSE,
                 queued |-> {}, done |-> {}, accepted |-> {},
                 resolutionQueued |-> {}, resolutionDone |-> {}]
           f == With(p.episodes, id, e)
           h == With(p.current, <<r.id, c>>, id)
<1>1. /\ p.episodes \in Episodes /\ p.current \in Currents /\ p.count \in Nat
      /\ id \in Nat /\ id \notin DOMAIN p.episodes
  <2>1. p.episodes \in Episodes /\ p.current \in Currents /\ p.count \in Nat
    BY PolicyFacts
  <2> QED BY <2>1 DEF Numbered
<1>2. e \in EpisodeRecord /\ r.id \in RuleIds
  <2>1. r.id \in RuleIds
    BY RuleUnique
  <2> QED BY <2>1 DEF EpisodeRecord
<1>3. f \in Episodes /\ DOMAIN f = DOMAIN p.episodes \cup {id} /\ f[id] = e
      /\ \A x \in DOMAIN p.episodes : f[x] = p.episodes[x]
  <2> HIDE DEF e, id
  <2> DEFINE S == DOMAIN p.episodes \cup {id}
  <2>1. f = [y \in S |-> IF y = id THEN e ELSE p.episodes[y]]
    BY DEF With
  <2>2. S \in SUBSET Nat /\ \A y \in S : y = id \/ (y # id /\ p.episodes[y] \in EpisodeRecord)
    BY <1>1, EpisodesFacts
  <2> HIDE DEF S, f
  <2>3. f \in [S -> EpisodeRecord]
    BY <1>2, <2>1, <2>2
  <2> QED BY <1>1, <2>1, <2>2, <2>3, EpisodesFacts DEF S
<1>4. h \in Currents /\ DOMAIN h = DOMAIN p.current \cup {<<r.id, c>>} /\ h[<<r.id, c>>] = id
      /\ \A k \in DOMAIN p.current : k # <<r.id, c>> => h[k] = p.current[k]
  <2> HIDE DEF e, id
  <2> DEFINE S == DOMAIN p.current \cup {<<r.id, c>>}
  <2>1. h = [y \in S |-> IF y = <<r.id, c>> THEN id ELSE p.current[y]]
    BY DEF With
  <2>2. S \in SUBSET (RuleIds \X Channels) /\ \A y \in S : y = <<r.id, c>> \/ p.current[y] \in Nat
    BY <1>1, <1>2, CurrentsFacts
  <2> HIDE DEF S, h
  <2>3. h \in [S -> Nat]
    BY <1>1, <2>1, <2>2
  <2>4. h \in Currents /\ DOMAIN h = S
    BY <2>2, <2>3, CurrentsFacts
  <2>5. \A y \in S : h[y] = IF y = <<r.id, c>> THEN id ELSE p.current[y]
    BY <2>1
  <2> QED BY <2>4, <2>5 DEF S
<1>5. q = [p EXCEPT !.episodes = f, !.count = id, !.current = h]
  BY Zenon DEF Started
<1>6. KeyOf(e) = <<r.id, c>> /\ e.rule = r.id /\ e.channel = c /\ Unmarked(e) /\ e.active /\ ~e.resolved /\ ~e.waiting
  BY DEF KeyOf, Unmarked
<1> HIDE DEF f, h, id, e
<1>7. q \in Policies /\ q.episodes = f /\ q.count = id /\ q.current = h
  BY <1>1, <1>3, <1>4, <1>5, ZenonT(60) DEF Policies
<1>8. Rest(p, q) /\ q.resolvedEnded = p.resolvedEnded
  BY <1>5 DEF Policies, Rest, SameRules, SameSight, SameMail
<1> QED BY <1>1, <1>3, <1>4, <1>6, <1>7, <1>8 DEF id, Starts

(* What does not depend on the episodes.                                   *)
LEMMA RestFacts ==
  ASSUME NEW p, NEW q, Rest(p, q)
  PROVE  /\ q.enabled = p.enabled /\ q.configuration = p.configuration /\ q.settings = p.settings
         /\ q.known = p.known /\ q.channels = p.channels /\ q.queue = p.queue /\ q.cooldown = p.cooldown
         /\ \A id : HasRule(q, id) = HasRule(p, id) /\ RuleOf(q, id) = RuleOf(p, id)
         /\ \A c : Matching(q, c) = Matching(p, c)
         /\ \A e : Shows(q, e) = Shows(p, e)
<1>1. SameRules(p, q) /\ q.known = p.known /\ q.channels = p.channels /\ q.queue = p.queue /\ q.cooldown = p.cooldown
  BY DEF Rest, SameSight, SameMail
<1> QED BY <1>1, SameRulesFacts DEF SameRules, Shows

(* The kinds of the fields of an episode.                                  *)
LEMMA EpisodeFacts ==
  ASSUME NEW p \in Policies, NEW id \in DOMAIN p.episodes
  PROVE  /\ id \in Nat /\ p.episodes[id] \in EpisodeRecord
         /\ p.episodes[id].rule \in RuleIds /\ p.episodes[id].channel \in Channels
         /\ p.episodes[id].active \in BOOLEAN /\ p.episodes[id].resolved \in BOOLEAN
         /\ p.episodes[id].waiting \in BOOLEAN /\ p.episodes[id].started \in Nat
         /\ p.episodes[id].queued \in SUBSET Token /\ p.episodes[id].accepted \in SUBSET DestinationIds
         /\ p.episodes[id].resolutionQueued \in SUBSET DestinationIds
<1>1. p.episodes \in Episodes
  BY PolicyFacts
<1>2. id \in Nat /\ p.episodes[id] \in EpisodeRecord
  BY <1>1, EpisodesFacts
<1> QED BY <1>2 DEF EpisodeRecord

(* An observed episode stays what it was but for what it shows.            *)
Sees(p, q, id, waits) ==
  /\ Sound(q) /\ Rest(p, q) /\ Grows(p, q) /\ DOMAIN q.episodes = DOMAIN p.episodes
  /\ \A x \in DOMAIN p.episodes : x # id => q.episodes[x] = p.episodes[x]
  /\ KeyOf(q.episodes[id]) = KeyOf(p.episodes[id]) /\ q.episodes[id].rule = p.episodes[id].rule
  /\ q.episodes[id].channel = p.episodes[id].channel
  /\ q.episodes[id].active = p.episodes[id].active /\ q.episodes[id].waiting = waits
  /\ q.current = p.current
  /\ Unsuppressed(p) => Unsuppressed(q)

(* An observed episode keeps its place.                                    *)
LEMMA SeenSound ==
  ASSUME NEW p, Sound(p), p.enabled, NEW id \in DOMAIN p.episodes, NEW u \in Update, NEW waits \in BOOLEAN,
         NEW q, q = [p EXCEPT !.episodes[id] = [p.episodes[id] EXCEPT !.state = u, !.waiting = waits]]
  PROVE  Sees(p, q, id, waits)
<1> DEFINE e == [p.episodes[id] EXCEPT !.state = u, !.waiting = waits]
<1>0. p \in Policies
  BY DEF Sound
<1>1. p.episodes[id] \in EpisodeRecord
  BY <1>0, EpisodeFacts
<1>2. /\ e \in EpisodeRecord /\ e.rule = p.episodes[id].rule /\ e.channel = p.episodes[id].channel
      /\ e.active = p.episodes[id].active /\ e.resolved = p.episodes[id].resolved
      /\ e.queued = p.episodes[id].queued /\ e.resolutionQueued = p.episodes[id].resolutionQueued
      /\ e.accepted = p.episodes[id].accepted /\ e.waiting = waits
  BY <1>1 DEF EpisodeRecord
<1> HIDE DEF e
<1>3. /\ q \in Policies /\ Rest(p, q) /\ q.count = p.count
      /\ q.current = p.current /\ q.resolvedEnded = p.resolvedEnded
      /\ DOMAIN q.episodes = DOMAIN p.episodes /\ q.episodes[id] = e
      /\ \A x \in DOMAIN p.episodes : x # id => q.episodes[x] = p.episodes[x]
  <2>1. q = [p EXCEPT !.episodes[id] = e]
    BY DEF e
  <2>2. Replaces(p, q, id, e)
    BY <1>0, <1>2, <2>1, ReplacedEpisode
  <2> QED BY <2>2 DEF Replaces
<1>4. \A x \in DOMAIN p.episodes :
        LET a == p.episodes[x]
            b == q.episodes[x]
        IN  /\ b.rule = a.rule /\ b.channel = a.channel /\ b.active = a.active /\ b.resolved = a.resolved
            /\ b.queued = a.queued /\ b.resolutionQueued = a.resolutionQueued /\ b.accepted = a.accepted
  BY <1>2, <1>3
<1>5. Numbered(q) /\ Tracked(q) /\ EndsNoted(q) /\ Emptied(q)
  <2>1. Numbered(q)
    BY <1>3 DEF Sound, Numbered
  <2>2. Tracked(q)
    BY <1>3, <1>4 DEF Sound, Tracked, KeyOf
  <2>3. EndsNoted(q)
    BY <1>3, <1>4 DEF Sound, EndsNoted
  <2>4. Emptied(q)
    BY <1>3, RestFacts DEF Emptied
  <2> QED BY <2>1, <2>2, <2>3, <2>4
<1>6. Ruled(q)
  BY <1>3, <1>4, RestFacts DEF Sound, Ruled
<1>7. Grows(p, q)
  <2>1. p.count \in Nat
    BY <1>0, PolicyFacts
  <2> QED BY <1>3, <1>4, <2>1 DEF Grows, GoesOn, KeyOf
<1>8. Unsuppressed(p) => Unsuppressed(q)
  BY <1>3, <1>4, RestFacts DEF Unsuppressed
<1> QED BY <1>2, <1>3, <1>5, <1>6, <1>7, <1>8 DEF Sound, KeyOf, Sees

(* The policy after an episode ended is sound.                             *)
Closes(p, q, id) ==
  /\ Sound(q) /\ Rest(p, q) /\ Grows(p, q) /\ DOMAIN q.episodes = DOMAIN p.episodes
  /\ \A x \in DOMAIN p.episodes : x # id => q.episodes[x] = p.episodes[x]
  /\ ~q.episodes[id].active
  /\ Unsuppressed(p) => Unsuppressed(q)

(* An active episode ends.                                                 *)
LEMMA EndSound ==
  ASSUME NEW p, Sound(p), p.enabled, NEW id \in DOMAIN p.episodes, NEW resolved \in BOOLEAN,
         p.episodes[id].active,
         resolved => ~p.channels[p.episodes[id].channel].suppressed,
         NEW q, q = End(p, id, resolved)
  PROVE  Closes(p, q, id)
<1>0. p \in Policies
  BY DEF Sound
<1>1. p.episodes[id] \in EpisodeRecord /\ p.episodes[id].channel \in Channels
  BY <1>0, EpisodeFacts
<1> DEFINE e == Ended(p.episodes[id], resolved)
<1>2. /\ e.rule = p.episodes[id].rule /\ e.channel = p.episodes[id].channel
      /\ ~e.active /\ e.resolved = resolved
      /\ e.queued = p.episodes[id].queued /\ e.resolutionQueued = p.episodes[id].resolutionQueued
      /\ e.accepted = p.episodes[id].accepted
  BY <1>1 DEF Ended, EpisodeRecord
<1> HIDE DEF e
<1>3. /\ q \in Policies /\ Rest(p, q) /\ q.count = p.count
      /\ DOMAIN q.episodes = DOMAIN p.episodes
      /\ q.episodes[id] = e
      /\ \A x \in DOMAIN p.episodes : x # id => q.episodes[x] = p.episodes[x]
      /\ DOMAIN q.current = DOMAIN p.current \ {KeyOf(p.episodes[id])}
      /\ \A k \in DOMAIN q.current : q.current[k] = p.current[k]
      /\ \A c \in Channels :
           q.resolvedEnded[c] = IF c = p.episodes[id].channel /\ resolved
                                THEN p.resolvedEnded[c] \cup {id} ELSE p.resolvedEnded[c]
  <2>1. Ends(p, q, id, resolved)
    BY <1>0, EndedEpisode
  <2> QED BY <2>1 DEF Ends, e
<1>4. \A x \in DOMAIN p.episodes :
        LET a == p.episodes[x]
            b == q.episodes[x]
        IN  /\ b.rule = a.rule /\ b.channel = a.channel /\ KeyOf(b) = KeyOf(a)
            /\ b.queued = a.queued /\ b.resolutionQueued = a.resolutionQueued /\ b.accepted = a.accepted
  BY <1>2, <1>3 DEF KeyOf
<1>5. Numbered(q)
  <2>1. DOMAIN p.episodes \subseteq 1..p.count /\ \A c \in Channels : p.resolvedEnded[c] \subseteq DOMAIN p.episodes
    BY DEF Sound, Numbered
  <2>2. \A c \in Channels : q.resolvedEnded[c] \subseteq DOMAIN q.episodes
    <3> TAKE c \in Channels
    <3>1. q.resolvedEnded[c] = p.resolvedEnded[c] \/ q.resolvedEnded[c] = p.resolvedEnded[c] \cup {id}
      BY <1>3
    <3> QED BY <1>3, <2>1, <3>1
  <2> QED BY <1>3, <2>1, <2>2 DEF Numbered
<1>6. Tracked(q)
  <2>1. Tracked(p)
    BY DEF Sound
  <2>2. ASSUME NEW k \in DOMAIN q.current
        PROVE  q.current[k] \in DOMAIN q.episodes /\ q.episodes[q.current[k]].active
               /\ KeyOf(q.episodes[q.current[k]]) = k
    <3>1. k \in DOMAIN p.current /\ k # KeyOf(p.episodes[id]) /\ q.current[k] = p.current[k]
      BY <1>3
    <3>2. p.current[k] \in DOMAIN p.episodes /\ p.episodes[p.current[k]].active /\ KeyOf(p.episodes[p.current[k]]) = k
      BY <2>1, <3>1 DEF Tracked
    <3> QED BY <1>3, <1>4, <3>1, <3>2
  <2>3. ASSUME NEW x \in DOMAIN q.episodes, q.episodes[x].active
        PROVE  KeyOf(q.episodes[x]) \in DOMAIN q.current /\ q.current[KeyOf(q.episodes[x])] = x
    <3>1. x # id /\ q.episodes[x] = p.episodes[x] /\ x \in DOMAIN p.episodes
      BY <1>2, <1>3, <2>3
    <3>2. /\ KeyOf(p.episodes[x]) \in DOMAIN p.current /\ p.current[KeyOf(p.episodes[x])] = x
          /\ p.current[KeyOf(p.episodes[id])] = id
      BY <2>1, <2>3, <3>1 DEF Tracked
    <3> QED BY <1>3, <3>1, <3>2
  <2> QED BY <2>2, <2>3 DEF Tracked
<1>7. EndsNoted(q)
  <2>1. ASSUME NEW x \in DOMAIN q.episodes, q.episodes[x].resolved
        PROVE  ~q.episodes[x].active /\ x \in q.resolvedEnded[q.episodes[x].channel]
    <3>1. CASE x = id
      <4>1. q.episodes[x] = e /\ resolved /\ e.channel = p.episodes[id].channel
        BY <1>2, <1>3, <2>1, <3>1
      <4>2. q.resolvedEnded[p.episodes[id].channel] = p.resolvedEnded[p.episodes[id].channel] \cup {id}
        BY <1>1, <1>3, <4>1
      <4> QED BY <1>2, <3>1, <4>1, <4>2
    <3>2. CASE x # id
      <4>1. q.episodes[x] = p.episodes[x] /\ x \in DOMAIN p.episodes
        BY <1>3, <3>2
      <4>2. ~p.episodes[x].active /\ x \in p.resolvedEnded[p.episodes[x].channel] /\ p.episodes[x].channel \in Channels
        BY <1>0, <2>1, <4>1, EpisodeFacts DEF Sound, EndsNoted
      <4>3. p.resolvedEnded[p.episodes[x].channel] \subseteq q.resolvedEnded[p.episodes[x].channel]
        BY <1>3, <4>2
      <4> QED BY <4>1, <4>2, <4>3
    <3> QED BY <3>1, <3>2
  <2> QED BY <2>1 DEF EndsNoted
<1>8. Ruled(q)
  <2>1. \A x \in DOMAIN p.episodes : q.episodes[x].active => p.episodes[x].active
    BY <1>2, <1>3
  <2> QED BY <1>3, <1>4, <2>1, RestFacts DEF Sound, Ruled
<1>9. Grows(p, q)
  <2>1. p.count \in Nat
    BY <1>0, PolicyFacts
  <2>2. \A x \in DOMAIN p.episodes : GoesOn(p.episodes[x], q.episodes[x])
    BY <1>2, <1>3, <1>4 DEF GoesOn
  <2> QED BY <1>3, <2>1, <2>2 DEF Grows
<1>10. Unsuppressed(p) => Unsuppressed(q)
  BY <1>2, <1>3, RestFacts DEF Unsuppressed
<1>11. Emptied(q)
  BY <1>3, RestFacts DEF Emptied
<1> QED BY <1>2, <1>3, <1>5, <1>6, <1>7, <1>8, <1>9, <1>10, <1>11 DEF Sound, Closes

(* The policy after an episode started is sound.                           *)
Opens(p, q, r, c) ==
  /\ Sound(q) /\ Rest(p, q) /\ Grows(p, q) /\ DOMAIN p.episodes \subseteq DOMAIN q.episodes
  /\ \A x \in DOMAIN p.episodes : q.episodes[x] = p.episodes[x]
  /\ \A x \in DOMAIN q.episodes : x \notin DOMAIN p.episodes => KeyOf(q.episodes[x]) = <<r.id, c>>
  /\ Unsuppressed(p) => Unsuppressed(q)

(* A new episode of a rule that matches and had none.                      *)
LEMMA StartedSound ==
  ASSUME NEW p, Sound(p), p.enabled, NEW c \in Channels, NEW r \in Matching(p, c),
         <<r.id, c>> \notin DOMAIN p.current, NEW u \in Update, NEW t \in Nat,
         NEW q, q = Started(p, r, c, u, t)
  PROVE  Opens(p, q, r, c)
<1>0. p \in Policies /\ Numbered(p) /\ Tracked(p) /\ p.count \in Nat
  BY PolicyFacts DEF Sound
<1>1. r \in p.settings.rules /\ HasRule(p, r.id) /\ RuleOf(p, r.id) = r
  BY <1>0, MatchingFacts
<1> DEFINE n == p.count + 1
           key == <<r.id, c>>
<1>2. /\ q \in Policies /\ Rest(p, q) /\ q.count = n
      /\ n \notin DOMAIN p.episodes
      /\ DOMAIN q.episodes = DOMAIN p.episodes \cup {n}
      /\ \A x \in DOMAIN p.episodes : q.episodes[x] = p.episodes[x]
      /\ KeyOf(q.episodes[n]) = key /\ q.episodes[n].rule = r.id /\ q.episodes[n].channel = c
      /\ Unmarked(q.episodes[n]) /\ q.episodes[n].active /\ ~q.episodes[n].resolved /\ ~q.episodes[n].waiting
      /\ DOMAIN q.current = DOMAIN p.current \cup {key}
      /\ q.current[key] = n
      /\ \A k \in DOMAIN p.current : k # key => q.current[k] = p.current[k]
      /\ q.resolvedEnded = p.resolvedEnded
  <2>1. Starts(p, q, r, c)
    BY <1>0, <1>1, StartedEpisode
  <2> QED BY <2>1 DEF Starts
<1> HIDE DEF n, key
<1>3. Numbered(q)
  BY <1>0, <1>2 DEF Numbered, n
<1>4. Tracked(q)
  <2>1. ASSUME NEW k \in DOMAIN q.current
        PROVE  q.current[k] \in DOMAIN q.episodes /\ q.episodes[q.current[k]].active
               /\ KeyOf(q.episodes[q.current[k]]) = k
    <3>1. CASE k = key
      BY <1>2, <3>1
    <3>2. CASE k # key
      BY <1>0, <1>2, <3>2 DEF Tracked
    <3> QED BY <3>1, <3>2
  <2>2. ASSUME NEW x \in DOMAIN q.episodes, q.episodes[x].active
        PROVE  KeyOf(q.episodes[x]) \in DOMAIN q.current /\ q.current[KeyOf(q.episodes[x])] = x
    <3>1. CASE x = n
      BY <1>2, <3>1
    <3>2. CASE x # n
      <4>1. x \in DOMAIN p.episodes /\ q.episodes[x] = p.episodes[x]
        BY <1>2, <3>2
      <4>2. KeyOf(p.episodes[x]) \in DOMAIN p.current /\ p.current[KeyOf(p.episodes[x])] = x
        BY <1>0, <2>2, <4>1 DEF Tracked
      <4>3. key \notin DOMAIN p.current
        BY DEF key
      <4> QED BY <1>2, <4>1, <4>2, <4>3
    <3> QED BY <3>1, <3>2
  <2> QED BY <2>1, <2>2 DEF Tracked
<1>5. EndsNoted(q)
  BY <1>2 DEF Sound, EndsNoted
<1>6. Ruled(q)
  <2>1. HasRule(q, r.id) /\ RuleOf(q, r.id) \in Matching(q, c)
    BY <1>1, <1>2, RestFacts
  <2>2. \A x \in DOMAIN p.episodes : HasRule(q, p.episodes[x].rule)
          /\ (p.episodes[x].active => RuleOf(q, p.episodes[x].rule) \in Matching(q, p.episodes[x].channel))
    BY <1>2, RestFacts DEF Sound, Ruled
  <2> QED BY <1>2, <2>1, <2>2 DEF Ruled
<1>7. Grows(p, q)
  <2>1. \A x \in DOMAIN p.episodes : GoesOn(p.episodes[x], q.episodes[x])
    BY <1>2 DEF GoesOn
  <2>2. p.count <= n /\ n > p.count
    BY <1>0 DEF n
  <2> QED BY <1>2, <2>1, <2>2 DEF Grows
<1>8. Unsuppressed(p) => Unsuppressed(q)
  BY <1>2, RestFacts DEF Unsuppressed
<1>9. Emptied(q)
  BY <1>2, RestFacts DEF Emptied
<1> QED BY <1>2, <1>3, <1>4, <1>5, <1>6, <1>7, <1>8, <1>9 DEF Sound, key, Opens

(* The policy after one rule saw an update is sound.                       *)
Observes(p, q) ==
  /\ Sound(q) /\ Rest(p, q) /\ Grows(p, q) /\ DOMAIN p.episodes \subseteq DOMAIN q.episodes
  /\ Unsuppressed(p) => Unsuppressed(q)

(* The episode of one rule and channel shows, the others are unchanged.    *)
ShowsAt(p, q, key) ==
  \A x \in DOMAIN q.episodes :
    IF KeyOf(q.episodes[x]) = key
    THEN q.episodes[x].active /\ ~q.episodes[x].waiting => Shows(q, q.episodes[x])
    ELSE x \in DOMAIN p.episodes /\ q.episodes[x] = p.episodes[x]

(* A rule that sees an update keeps, ends or starts its episode of the     *)
(* channel.                                                                *)
LEMMA FollowedSound ==
  ASSUME NEW p, Sound(p), p.enabled, NEW c \in Channels, NEW r \in Matching(p, c),
         NEW u \in Update, p.channels[c] = u, c \in p.known, NEW t \in Nat,
         NEW q, q = Followed(p, r, c, u, t)
  PROVE  Observes(p, q) /\ ShowsAt(p, q, <<r.id, c>>)
<1> DEFINE key == <<r.id, c>>
<1>0. p \in Policies /\ Tracked(p)
  BY DEF Sound
<1>1. r \in p.settings.rules /\ RuleOf(p, r.id) = r
  BY <1>0, MatchingFacts
<1>2. CASE key \in DOMAIN p.current
  <2> DEFINE id == p.current[key]
             e == p.episodes[id]
             waits == Unobservable(u)
             seen == [p EXCEPT !.episodes[id] = [e EXCEPT !.state = u, !.waiting = waits]]
  <2>1. id \in DOMAIN p.episodes /\ e.active /\ KeyOf(e) = key
    BY <1>0, <1>2 DEF Tracked
  <2>2. e.rule = r.id /\ e.channel = c
    BY <2>1 DEF KeyOf
  <2>3. waits \in BOOLEAN
    BY DEF Unobservable
  <2>4. \A x \in DOMAIN p.episodes : KeyOf(p.episodes[x]) = key /\ p.episodes[x].active => x = id
    BY <1>0 DEF Tracked
  <2> HIDE DEF waits
  <2>5. Sees(p, seen, id, waits)
    BY <2>1, <2>3, SeenSound
  <2> HIDE DEF seen
  <2>6. /\ Sound(seen) /\ Rest(p, seen) /\ Grows(p, seen) /\ DOMAIN seen.episodes = DOMAIN p.episodes
        /\ \A x \in DOMAIN p.episodes : x # id => seen.episodes[x] = p.episodes[x]
        /\ KeyOf(seen.episodes[id]) = key /\ seen.episodes[id].rule = r.id
        /\ seen.episodes[id].channel = c
        /\ seen.episodes[id].active /\ seen.episodes[id].waiting = waits
        /\ Unsuppressed(p) => Unsuppressed(seen)
    BY <2>1, <2>2, <2>5 DEF Sees
  <2> HIDE DEF id, e
  <2>7. CASE Unobservable(u) \/ Eligible(r, u)
    <3>1. q = seen
      BY <1>2, <2>7 DEF Followed, seen, id, e, waits
    <3>2. waits \/ Shows(seen, seen.episodes[id])
      <4>1. ~waits => Eligible(RuleOf(seen, r.id), seen.channels[c]) /\ c \in seen.known
        BY <1>1, <2>6, <2>7, RestFacts DEF waits
      <4> QED BY <2>6, <4>1 DEF Shows
    <3>3. Observes(p, q)
      BY <2>6, <3>1 DEF Observes
    <3>4. ShowsAt(p, q, key)
      <4> SUFFICES ASSUME NEW x \in DOMAIN q.episodes
                   PROVE  IF KeyOf(q.episodes[x]) = key
                          THEN q.episodes[x].active /\ ~q.episodes[x].waiting => Shows(q, q.episodes[x])
                          ELSE x \in DOMAIN p.episodes /\ q.episodes[x] = p.episodes[x]
        BY DEF ShowsAt
      <4>1. CASE x = id
        BY <2>6, <3>1, <3>2, <4>1
      <4>2. CASE x # id
        BY <2>4, <2>6, <3>1, <4>2
      <4> QED BY <4>1, <4>2
    <3> QED BY <3>3, <3>4
  <2>8. CASE ~(Unobservable(u) \/ Eligible(r, u))
    <3> DEFINE b == u.available /\ ~u.suppressed /\ u.unack = 0
    <3>1. q = End(seen, id, b)
      BY <1>2, <2>8 DEF Followed, seen, id, e, waits
    <3>2. b \in BOOLEAN /\ seen.enabled /\ id \in DOMAIN seen.episodes
          /\ (b => ~seen.channels[seen.episodes[id].channel].suppressed)
      BY <2>1, <2>6, RestFacts DEF id
    <3> HIDE DEF b
    <3>3. Closes(seen, q, id)
      BY <2>6, <3>1, <3>2, EndSound
    <3>4. /\ Sound(q) /\ Rest(seen, q) /\ Grows(seen, q) /\ DOMAIN q.episodes = DOMAIN seen.episodes
          /\ \A x \in DOMAIN seen.episodes : x # id => q.episodes[x] = seen.episodes[x]
          /\ ~q.episodes[id].active
          /\ Unsuppressed(seen) => Unsuppressed(q)
      BY <3>3 DEF Closes
    <3>5. Observes(p, q)
      <4>1. seen \in Policies /\ q \in Policies /\ Numbered(p)
        BY <2>6, <3>4 DEF Sound
      <4>2. Grows(p, q)
        BY <1>0, <2>6, <3>4, <4>1, GrowsTrans
      <4>3. Rest(p, q)
        BY <2>6, <3>4 DEF Rest, SameRules, SameSight, SameMail
      <4> QED BY <2>6, <3>4, <4>2, <4>3 DEF Observes
    <3>6. KeyOf(q.episodes[id]) = key
      <4>1. GoesOn(seen.episodes[id], q.episodes[id])
        BY <3>2, <3>4 DEF Grows
      <4> QED BY <2>6, <4>1 DEF GoesOn
    <3>7. ShowsAt(p, q, key)
      <4> SUFFICES ASSUME NEW x \in DOMAIN q.episodes
                   PROVE  IF KeyOf(q.episodes[x]) = key
                          THEN q.episodes[x].active /\ ~q.episodes[x].waiting => Shows(q, q.episodes[x])
                          ELSE x \in DOMAIN p.episodes /\ q.episodes[x] = p.episodes[x]
        BY DEF ShowsAt
      <4>1. CASE x = id
        BY <3>4, <3>6, <4>1
      <4>2. CASE x # id
        BY <2>4, <2>6, <3>4, <4>2
      <4> QED BY <4>1, <4>2
    <3> QED BY <3>5, <3>7
  <2> QED BY <2>7, <2>8
<1>3. CASE key \notin DOMAIN p.current /\ Eligible(r, u) /\ ~u.communicationError
  <2>1. q = Started(p, r, c, u, t)
    BY <1>3 DEF Followed
  <2>2. Opens(p, q, r, c)
    BY <1>3, <2>1, StartedSound
  <2>3. Observes(p, q)
    BY <2>2 DEF Opens, Observes
  <2>4. ShowsAt(p, q, key)
    <3> SUFFICES ASSUME NEW x \in DOMAIN q.episodes
                 PROVE  IF KeyOf(q.episodes[x]) = key
                        THEN q.episodes[x].active /\ ~q.episodes[x].waiting => Shows(q, q.episodes[x])
                        ELSE x \in DOMAIN p.episodes /\ q.episodes[x] = p.episodes[x]
      BY DEF ShowsAt
    <3>1. CASE x \in DOMAIN p.episodes
      <4>1. q.episodes[x] = p.episodes[x]
        BY <2>2, <3>1 DEF Opens
      <4>2. p.episodes[x].active => KeyOf(p.episodes[x]) \in DOMAIN p.current
        BY <1>0, <3>1 DEF Tracked
      <4> QED BY <1>3, <3>1, <4>1, <4>2
    <3>2. CASE x \notin DOMAIN p.episodes
      <4>1. KeyOf(q.episodes[x]) = key /\ Rest(p, q)
        BY <2>2, <3>2 DEF Opens
      <4>2. q.episodes[x].rule = r.id /\ q.episodes[x].channel = c
        BY <4>1 DEF KeyOf
      <4>3. Eligible(RuleOf(q, r.id), q.channels[c]) /\ c \in q.known
        BY <1>1, <1>3, <4>1, RestFacts
      <4> QED BY <4>1, <4>2, <4>3 DEF Shows
    <3> QED BY <3>1, <3>2
  <2> QED BY <2>3, <2>4
<1>4. CASE key \notin DOMAIN p.current /\ ~(Eligible(r, u) /\ ~u.communicationError)
  <2>1. q = p
    BY <1>4 DEF Followed
  <2>2. Observes(p, q)
    BY <1>0, <2>1, GrowsSelf DEF Observes, Rest, SameRules, SameSight, SameMail
  <2>3. ShowsAt(p, q, key)
    BY <1>0, <1>4, <2>1 DEF ShowsAt, Tracked
  <2> QED BY <2>2, <2>3
<1> QED BY <1>2, <1>3, <1>4

(* A policy after a channel was observed: only the channel is seen anew.   *)
Notes(p, q, c, u) ==
  /\ Sound(q) /\ SameRules(p, q) /\ SameMail(p, q) /\ Grows(p, q)
  /\ q.known = p.known \cup {c} /\ q.channels = [p.channels EXCEPT ![c] = u]
  /\ Unsuppressed(p) => Unsuppressed(q)

-----------------------------------------------------------------------------
(***************************************************************************)
(* An observation of one channel, and of all.                              *)
(***************************************************************************)

(* Suppression takes the resolutions of a channel back.                    *)
Suppresses(p, q, c, u) ==
  /\ q \in Policies /\ SameRules(p, q) /\ SameMail(p, q) /\ q.count = p.count
  /\ q.known = p.known /\ q.channels = p.channels /\ q.current = p.current
  /\ DOMAIN q.episodes = DOMAIN p.episodes
  /\ \A id \in DOMAIN p.episodes :
       LET e == p.episodes[id]
           f == q.episodes[id]
       IN  /\ KeyOf(f) = KeyOf(e) /\ f.rule = e.rule /\ f.channel = e.channel
           /\ f.active = e.active /\ f.waiting = e.waiting
           /\ f.accepted = e.accepted /\ f.queued = e.queued /\ f.resolutionQueued = e.resolutionQueued
           /\ f.resolved => e.resolved
           /\ u.suppressed /\ ~p.channels[c].suppressed /\ id \in p.resolvedEnded[c] => f.active \/ ~f.resolved
  /\ \A d \in Channels : q.resolvedEnded[d] = p.resolvedEnded[d]
       \/ (d = c /\ u.suppressed /\ ~p.channels[c].suppressed /\ q.resolvedEnded[d] = {})

(* What Suppressing does to the policy.                                    *)
LEMMA SuppressingFacts ==
  ASSUME NEW p \in Policies, NEW c \in Channels, NEW u \in Update,
         NEW q, q = Suppressing(p, c, u)
  PROVE  Suppresses(p, q, c, u)
<1> DEFINE Falls == u.suppressed /\ ~p.channels[c].suppressed
<1>1. CASE ~Falls
  <2>1. q = p
    BY <1>1 DEF Suppressing
  <2> QED BY <1>1, <2>1 DEF Suppresses, SameRules, SameMail
<1>2. CASE Falls
  <2> DEFINE one(id) == IF id \in p.resolvedEnded[c] /\ ~p.episodes[id].active
                        THEN Unresolved(p.episodes[id]) ELSE p.episodes[id]
             f == [id \in DOMAIN p.episodes |-> one(id)]
             g == [p.resolvedEnded EXCEPT ![c] = {}]
  <2>0. p.episodes \in Episodes /\ p.resolvedEnded \in [Channels -> SUBSET Nat]
    BY PolicyFacts
  <2>1. \A id \in DOMAIN p.episodes :
          LET e == p.episodes[id]
          IN  /\ one(id) \in EpisodeRecord
              /\ KeyOf(one(id)) = KeyOf(e) /\ one(id).rule = e.rule /\ one(id).channel = e.channel
              /\ one(id).active = e.active /\ one(id).waiting = e.waiting
              /\ one(id).accepted = e.accepted /\ one(id).queued = e.queued
              /\ one(id).resolutionQueued = e.resolutionQueued
              /\ one(id).resolved => e.resolved
              /\ id \in p.resolvedEnded[c] => one(id).active \/ ~one(id).resolved
    <3> TAKE id \in DOMAIN p.episodes
    <3>1. p.episodes[id] \in EpisodeRecord
      BY EpisodeFacts
    <3> DEFINE e == p.episodes[id]
    <3> HIDE DEF e
    <3>2. Unresolved(e) = [e EXCEPT !.resolved = FALSE] /\ e \in EpisodeRecord
      BY <3>1 DEF Unresolved, e
    <3>3. one(id) = IF id \in p.resolvedEnded[c] /\ ~e.active THEN Unresolved(e) ELSE e
      BY DEF e
    <3>4. CASE id \in p.resolvedEnded[c] /\ ~e.active
      <4>1. one(id) = [e EXCEPT !.resolved = FALSE]
        BY <3>2, <3>3, <3>4
      <4> HIDE DEF one
      <4> QED BY <3>2, <4>1 DEF EpisodeRecord, KeyOf, e
    <3>5. CASE ~(id \in p.resolvedEnded[c] /\ ~e.active)
      <4>1. one(id) = e
        BY <3>3, <3>5
      <4> HIDE DEF one
      <4> QED BY <3>2, <3>5, <4>1 DEF e
    <3> QED BY <3>4, <3>5
  <2> HIDE DEF one
  <2>2. f \in Episodes /\ DOMAIN f = DOMAIN p.episodes /\ \A id \in DOMAIN p.episodes : f[id] = one(id)
    <3>1. f \in [DOMAIN p.episodes -> EpisodeRecord]
      BY <2>1
    <3> QED BY <2>0, <3>1, EpisodesFacts
  <2>3. g \in [Channels -> SUBSET Nat] /\ \A d \in Channels : g[d] = IF d = c THEN {} ELSE p.resolvedEnded[d]
    BY <2>0
  <2>4. q = [p EXCEPT !.episodes = f, !.resolvedEnded = g]
    BY <1>2 DEF Suppressing, one
  <2> HIDE DEF f, g
  <2>5. q \in Policies /\ q.episodes = f /\ q.resolvedEnded = g
    BY <2>2, <2>3, <2>4 DEF Policies
  <2>6. /\ SameRules(p, q) /\ SameMail(p, q) /\ q.count = p.count
        /\ q.known = p.known /\ q.channels = p.channels /\ q.current = p.current
    BY <2>4 DEF Policies, SameRules, SameMail
  <2> QED BY <1>2, <2>1, <2>2, <2>3, <2>5, <2>6 DEF Suppresses
<1> QED BY <1>1, <1>2

(* The channel is noted, its rules have not seen it yet.                   *)
NotesFirst(p, q, c, u) ==
  /\ Notes(p, q, c, u) /\ DOMAIN q.episodes = DOMAIN p.episodes
  /\ \A id \in DOMAIN q.episodes :
       Showing(p) /\ q.episodes[id].active /\ ~q.episodes[id].waiting =>
         Shows(q, q.episodes[id]) \/ q.episodes[id].channel = c

(* The channel is noted before the rules see it.                           *)
LEMMA NotedSound ==
  ASSUME NEW p, Sound(p), NEW c \in Channels, NEW u \in Update,
         NEW q, q = [Suppressing(p, c, u) EXCEPT !.channels[c] = u, !.known = @ \cup {c}]
  PROVE  NotesFirst(p, q, c, u)
<1> DEFINE m == Suppressing(p, c, u)
<1>0. p \in Policies
  BY DEF Sound
<1>1. Suppresses(p, m, c, u)
  BY <1>0, SuppressingFacts
<1> HIDE DEF m
<1>2. m \in Policies /\ m.channels \in [Channels -> Update] /\ m.known \in SUBSET Channels
  BY <1>1, PolicyFacts DEF Suppresses
<1>3. q = [m EXCEPT !.channels = [m.channels EXCEPT ![c] = u], !.known = m.known \cup {c}]
  BY DEF m
<1>4. q \in Policies
  <2>1. [m.channels EXCEPT ![c] = u] \in [Channels -> Update] /\ m.known \cup {c} \in SUBSET Channels
    BY <1>2
  <2> QED BY <1>2, <1>3, <2>1 DEF Policies
<1>5. /\ SameRules(m, q) /\ SameMail(m, q) /\ q.count = m.count /\ q.current = m.current
      /\ q.episodes = m.episodes /\ q.resolvedEnded = m.resolvedEnded
      /\ q.channels = [m.channels EXCEPT ![c] = u] /\ q.known = m.known \cup {c}
  BY <1>2, <1>3 DEF Policies, SameRules, SameMail
<1>6. /\ SameRules(p, q) /\ SameMail(p, q) /\ q.count = p.count /\ q.current = p.current
      /\ q.channels = [p.channels EXCEPT ![c] = u] /\ q.known = p.known \cup {c}
      /\ DOMAIN q.episodes = DOMAIN p.episodes
  BY <1>1, <1>5 DEF Suppresses, SameRules, SameMail
<1>7. \A d \in Channels : q.channels[d] = IF d = c THEN u ELSE p.channels[d]
  <2>1. p.channels \in [Channels -> Update]
    BY <1>0, PolicyFacts
  <2> QED BY <1>6, <2>1
<1>8. \A id \in DOMAIN p.episodes :
       LET e == p.episodes[id]
           f == q.episodes[id]
       IN  /\ KeyOf(f) = KeyOf(e) /\ f.rule = e.rule /\ f.channel = e.channel /\ e.channel \in Channels
           /\ f.active = e.active /\ f.waiting = e.waiting
           /\ f.accepted = e.accepted /\ f.queued = e.queued /\ f.resolutionQueued = e.resolutionQueued
           /\ f.resolved => e.resolved
           /\ u.suppressed /\ ~p.channels[c].suppressed /\ id \in p.resolvedEnded[c] => f.active \/ ~f.resolved
  BY <1>0, <1>1, <1>5, EpisodeFacts DEF Suppresses
<1>9. \A d \in Channels : q.resolvedEnded[d] = p.resolvedEnded[d]
        \/ (d = c /\ u.suppressed /\ ~p.channels[c].suppressed /\ q.resolvedEnded[d] = {})
  BY <1>1, <1>5 DEF Suppresses
<1>10. \A id : HasRule(q, id) = HasRule(p, id) /\ RuleOf(q, id) = RuleOf(p, id)
  BY <1>6, SameRulesFacts
<1>11. \A d : Matching(q, d) = Matching(p, d)
  BY <1>6, SameRulesFacts
<1>12. Numbered(q)
  BY <1>6, <1>9 DEF Sound, Numbered
<1>13. Tracked(q)
  BY <1>6, <1>8 DEF Sound, Tracked
<1>14. Ruled(q)
  <2>1. Ruled(p)
    BY DEF Sound
  <2> QED BY <1>6, <1>8, <1>10, <1>11, <2>1 DEF Ruled
<1>15. \A id \in DOMAIN p.episodes : q.episodes[id].resolved =>
          /\ ~q.episodes[id].active /\ id \in p.resolvedEnded[p.episodes[id].channel] /\ p.episodes[id].resolved
          /\ p.episodes[id].channel = c => ~(u.suppressed /\ ~p.channels[c].suppressed)
  BY <1>6, <1>8 DEF Sound, EndsNoted
<1>16. EndsNoted(q)
  BY <1>6, <1>8, <1>9, <1>15 DEF EndsNoted
<1>17. Emptied(q)
  BY <1>6 DEF Sound, Emptied, SameRules, SameMail
<1>18. Unsuppressed(p) => Unsuppressed(q)
  BY <1>6, <1>7, <1>8, <1>15 DEF Unsuppressed
<1>19. Grows(p, q)
  <2>1. p.count \in Nat
    BY <1>0, PolicyFacts
  <2> QED BY <1>6, <1>8, <2>1 DEF Grows, GoesOn
<1>20. ASSUME NEW id \in DOMAIN q.episodes, Showing(p), q.episodes[id].active, ~q.episodes[id].waiting
       PROVE  Shows(q, q.episodes[id]) \/ q.episodes[id].channel = c
  <2>1. Shows(p, p.episodes[id])
    BY <1>6, <1>8, <1>20 DEF Showing
  <2> QED BY <1>6, <1>7, <1>8, <1>10, <2>1, SMTT(30) DEF Shows
<1> QED BY <1>4, <1>6, <1>12, <1>13, <1>14, <1>16, <1>17, <1>18, <1>19, <1>20 DEF Sound, Notes, NotesFirst

(* Every active episode shows but those of a channel whose rules have not  *)
(* seen the update.                                                        *)
ShowsBut(p, c, seen) ==
  \A id \in DOMAIN p.episodes :
    p.episodes[id].active /\ ~p.episodes[id].waiting =>
      Shows(p, p.episodes[id]) \/ (p.episodes[id].channel = c /\ RuleOf(p, p.episodes[id].rule) \notin seen)

(* What holds after the rules in seen followed the update of a channel.    *)
Follows(b, x, q, c, seen) == x \in Policies /\ Observes(q, x) /\ (b => ShowsBut(x, c, seen))

(* What a rule leaves as it was.                                           *)
LEMMA ObservesFacts ==
  ASSUME NEW q, NEW x, Observes(q, x)
  PROVE  Sound(x) /\ x.enabled = q.enabled /\ x.channels = q.channels /\ x.known = q.known
         /\ \A c : Matching(x, c) = Matching(q, c)
  BY RestFacts DEF Observes

(* One rule after another.                                                 *)
LEMMA ObservesTrans ==
  ASSUME NEW p, Sound(p), NEW q, NEW r, Observes(p, q), Observes(q, r)
  PROVE  Observes(p, r)
<1>1. p \in Policies /\ q \in Policies /\ r \in Policies /\ Numbered(p)
  BY DEF Sound, Observes
<1>2. Grows(p, r)
  BY <1>1, GrowsTrans DEF Observes
<1>3. Rest(p, r)
  BY DEF Observes, Rest, SameRules, SameSight, SameMail
<1> QED BY <1>2, <1>3 DEF Observes

(* One rule after the other sees the update.                               *)
LEMMA FollowsOn ==
  ASSUME NEW q, Sound(q), q.enabled, NEW c \in Channels, NEW u \in Update, q.channels[c] = u, c \in q.known,
         NEW t \in Nat, NEW b \in BOOLEAN, NEW s, NEW r \in s, s \subseteq Matching(q, c),
         NEW x, Follows(b, x, q, c, s \ {r}),
         NEW y, y = Followed(x, r, c, u, t)
  PROVE  Follows(b, y, q, c, s)
<1>1. /\ Sound(x) /\ x.enabled /\ x.channels[c] = u /\ c \in x.known /\ r \in Matching(x, c)
      /\ Observes(q, x)
  BY ObservesFacts DEF Follows
<1>2. Observes(x, y) /\ ShowsAt(x, y, <<r.id, c>>)
  BY <1>1, FollowedSound
<1>3. Observes(q, y) /\ Sound(y)
  BY <1>1, <1>2, ObservesTrans, ObservesFacts
<1>4. y \in Policies /\ x \in Policies
  BY <1>1, <1>3 DEF Sound
<1>5. ASSUME b, NEW id \in DOMAIN y.episodes, y.episodes[id].active, ~y.episodes[id].waiting
      PROVE  Shows(y, y.episodes[id]) \/ (y.episodes[id].channel = c /\ RuleOf(y, y.episodes[id].rule) \notin s)
  <2>1. CASE KeyOf(y.episodes[id]) = <<r.id, c>>
    BY <1>2, <1>5, <2>1 DEF ShowsAt
  <2>2. CASE KeyOf(y.episodes[id]) # <<r.id, c>>
    <3>1. id \in DOMAIN x.episodes /\ y.episodes[id] = x.episodes[id]
      BY <1>2, <2>2 DEF ShowsAt
    <3>2. Shows(x, x.episodes[id]) \/ (x.episodes[id].channel = c /\ RuleOf(x, x.episodes[id].rule) \notin s \ {r})
      BY <1>5, <3>1 DEF Follows, ShowsBut
    <3>3. CASE Shows(x, x.episodes[id])
      <4>1. Rest(x, y)
        BY <1>2 DEF Observes
      <4> QED BY <3>1, <3>3, <4>1, RestFacts
    <3>4. CASE x.episodes[id].channel = c /\ RuleOf(x, x.episodes[id].rule) \notin s \ {r}
      <4>1. HasRule(x, x.episodes[id].rule)
        BY <1>1, <3>1 DEF Sound, Ruled
      <4>2. RuleOf(x, x.episodes[id].rule).id = x.episodes[id].rule
        BY <1>4, <4>1, RuleFacts
      <4>3. RuleOf(x, x.episodes[id].rule) # r
        BY <2>2, <3>1, <3>4, <4>2 DEF KeyOf
      <4>4. Rest(x, y)
        BY <1>2 DEF Observes
      <4>5. RuleOf(y, y.episodes[id].rule) = RuleOf(x, x.episodes[id].rule)
        BY <3>1, <4>4, RestFacts
      <4> QED BY <3>1, <3>4, <4>3, <4>5
    <3> QED BY <3>2, <3>3, <3>4
  <2> QED BY <2>1, <2>2
<1> QED BY <1>3, <1>4, <1>5 DEF Follows, ShowsBut

(* The fold of observe over the rules that match.                          *)
FollowAll(q, S, c, u, t) == FoldSet(LAMBDA r, x : Followed(x, r, c, u, t), q, S)

(* All rules saw the update: by induction over the fold.                   *)
LEMMA FollowedByAll ==
  ASSUME NEW q, Sound(q), q.enabled, NEW c \in Channels, NEW u \in Update, q.channels[c] = u, c \in q.known,
         NEW t \in Nat, NEW b \in BOOLEAN, b => ShowsBut(q, c, {}),
         NEW e, e = FollowAll(q, Matching(q, c), c, u, t)
  PROVE  Follows(b, e, q, c, Matching(q, c))
<1> DEFINE S == Matching(q, c)
           W == [s \in SUBSET S |-> {x \in Policies : Follows(b, x, q, c, s)}]
           pick == [s \in SUBSET S |-> Member(s)]
           G == [z \in S \X Policies |-> Followed(z[2], z[1], c, u, t)]
           iter[s \in SUBSET S] ==
             IF s = {} THEN q
             ELSE LET r == CHOOSE r \in s : TRUE IN Followed(iter[s \ {r}], r, c, u, t)
<1>1. IsFiniteSet(S)
  BY MatchingFacts DEF Sound
<1>2. e = iter[S]
  BY DEF FollowAll, FoldSet, MapThenFoldSet
<1> HIDE DEF S
<1>3. q \in Policies /\ Follows(b, q, q, c, {})
  <2>1. q \in Policies
    BY DEF Sound
  <2>2. Observes(q, q)
    BY <2>1, GrowsSelf DEF Observes, Rest, SameRules, SameSight, SameMail
  <2> QED BY <2>1, <2>2 DEF Follows
<1>4. ASSUME NEW s \in SUBSET S, NEW r \in s, NEW x \in W[s \ {r}]
      PROVE  Followed(x, r, c, u, t) \in W[s]
  <2>1. Follows(b, x, q, c, s \ {r})
    OBVIOUS
  <2> DEFINE y == Followed(x, r, c, u, t)
  <2>2. Follows(b, y, q, c, s)
    <3> HIDE DEF y
    <3>1. s \subseteq Matching(q, c)
      BY DEF S
    <3> QED BY <2>1, <3>1, FollowsOn DEF y
  <2> HIDE DEF y
  <2>3. y \in Policies
    BY <2>2 DEF Follows
  <2> QED BY <2>2, <2>3 DEF y
<1>5. HasFold(S, Policies, W, q, pick, G)
  <2>1. \A s \in SUBSET S : W[s] \subseteq Policies
    OBVIOUS
  <2>2. q \in W[{}]
    BY <1>3
  <2>3. \A s \in SUBSET S : s # {} =>
          pick[s] \in s /\ \A v \in W[s \ {pick[s]}] : G[<<pick[s], v>>] \in W[s]
    <3> SUFFICES ASSUME NEW s \in SUBSET S, s # {}
                 PROVE  pick[s] \in s /\ \A v \in W[s \ {pick[s]}] : G[<<pick[s], v>>] \in W[s]
      OBVIOUS
    <3>1. pick[s] \in s
      BY MemberFacts
    <3> HIDE DEF pick
    <3>2. ASSUME NEW v \in W[s \ {pick[s]}] PROVE G[<<pick[s], v>>] \in W[s]
      <4>1. v \in Policies /\ pick[s] \in S /\ s \ {pick[s]} \in SUBSET S
        BY <3>1
      <4>2. G[<<pick[s], v>>] = Followed(v, pick[s], c, u, t)
        BY <4>1
      <4>3. Followed(v, pick[s], c, u, t) \in W[s]
        <5> HIDE DEF G, W
        <5> QED BY <1>4, <3>1
      <4> QED BY <4>2, <4>3
    <3> QED BY <3>1, <3>2
  <2> HIDE DEF W, G, pick
  <2>4. Foldable(S, Policies, W, q, pick, G)
    BY <1>1, <2>1, <2>2, <2>3 DEF Foldable
  <2> QED BY <2>4, FoldExists
<1>6. PICK f \in [SUBSET S -> Policies] : \A s \in SUBSET S :
        f[s] \in W[s] /\ f[s] = IF s = {} THEN q ELSE G[<<pick[s], f[s \ {pick[s]}]>>]
  BY <1>5 DEF HasFold, Folded
<1>7. \A s \in SUBSET S : f[s] = IF s = {} THEN q ELSE Followed(f[s \ {Member(s)}], Member(s), c, u, t)
  <2> TAKE s \in SUBSET S
  <2>1. CASE s = {}
    BY <1>6, <2>1
  <2>2. CASE s # {}
    <3>1. pick[s] = Member(s) /\ pick[s] \in s
      BY <2>2, MemberFacts
    <3> HIDE DEF pick
    <3>2. s \ {pick[s]} \in SUBSET S /\ pick[s] \in S
      BY <3>1
    <3>3. f[s \ {pick[s]}] \in Policies
      BY <3>2
    <3>4. G[<<pick[s], f[s \ {pick[s]}]>>] = Followed(f[s \ {pick[s]}], pick[s], c, u, t)
      BY <3>2, <3>3
    <3> HIDE DEF G
    <3> QED BY <1>6, <2>2, <3>1, <3>4
  <2> QED BY <2>1, <2>2
<1>8. f = [s \in SUBSET S |->
             IF s = {} THEN q
             ELSE LET r == CHOOSE r \in s : TRUE IN Followed(f[s \ {r}], r, c, u, t)]
  <2> HIDE DEF W, G, pick
  <2> QED BY <1>7 DEF Member
<1>9. iter = [s \in SUBSET S |->
             IF s = {} THEN q
             ELSE LET r == CHOOSE r \in s : TRUE IN Followed(iter[s \ {r}], r, c, u, t)]
  <2> HIDE DEF W, G, pick
  <2> QED BY <1>8, Zenon
<1>10. Inherited(S, W, pick, iter)
  <2>1. iter[{}] \in W[{}]
    <3>1. iter[{}] = q
      <4> HIDE DEF W, G, pick, iter
      <4> QED BY <1>9
    <3> HIDE DEF iter
    <3> QED BY <1>3, <3>1
  <2>2. ASSUME NEW s \in SUBSET S, s # {}
        PROVE  pick[s] \in s /\ (iter[s \ {pick[s]}] \in W[s \ {pick[s]}] => iter[s] \in W[s])
    <3>1. pick[s] = Member(s) /\ Member(s) \in s
      BY <2>2, MemberFacts
    <3>2. iter[s] = Followed(iter[s \ {Member(s)}], Member(s), c, u, t)
      <4> HIDE DEF W, G, pick, iter
      <4> QED BY <1>9, <2>2 DEF Member
    <3> HIDE DEF iter, W, pick
    <3>3. ASSUME iter[s \ {pick[s]}] \in W[s \ {pick[s]}]
          PROVE  iter[s] \in W[s]
      <4>1. Followed(iter[s \ {pick[s]}], pick[s], c, u, t) \in W[s]
        <5> DEFINE x == iter[s \ {pick[s]}]
                   r == pick[s]
        <5>1. r \in s /\ x \in W[s \ {r}]
          BY <3>1, <3>3
        <5> HIDE DEF x, r
        <5>2. Followed(x, r, c, u, t) \in W[s]
          BY <1>4, <5>1
        <5> QED BY <5>2 DEF x, r
      <4> QED BY <3>1, <3>2, <4>1
    <3> QED BY <3>1, <3>3
  <2> HIDE DEF iter, W, pick
  <2> QED BY <1>1, <2>1, <2>2 DEF Inherited
<1>11. iter[S] \in W[S]
  <2> HIDE DEF iter, W, pick
  <2> QED BY <1>1, <1>10, FoldInduction
<1> HIDE DEF iter
<1> QED BY <1>2, <1>11 DEF S

(* An observation, and what it leaves showing.                             *)
Looks(p, q, c, u) == Notes(p, q, c, u) /\ (Showing(p) => Showing(q))

(* An observation keeps the policy sound, and its episodes show.           *)
LEMMA ObservedSound ==
  ASSUME NEW p, Sound(p), NEW c \in Channels, NEW u \in Update, NEW t \in Nat,
         NEW q, q = Observed(p, c, u, t)
  PROVE  Looks(p, q, c, u)
<1> DEFINE m == [Suppressing(p, c, u) EXCEPT !.channels[c] = u, !.known = @ \cup {c}]
<1>1. NotesFirst(p, m, c, u)
  BY NotedSound
<1>2. CASE ~p.enabled
  <2>1. q = m
    BY <1>2 DEF Observed
  <2> HIDE DEF m
  <2>2. DOMAIN q.episodes = {}
    BY <1>1, <1>2, <2>1 DEF NotesFirst, Sound, Emptied
  <2> QED BY <1>1, <2>1, <2>2 DEF NotesFirst, Looks, Showing
<1>3. CASE p.enabled
  <2>1. q = FollowAll(m, Matching(p, c), c, u, t)
    BY <1>3 DEF Observed, FollowAll
  <2> HIDE DEF m
  <2>2. Notes(p, m, c, u) /\ Sound(m) /\ SameRules(p, m) /\ SameMail(p, m) /\ Grows(p, m)
        /\ m.known = p.known \cup {c} /\ m.channels = [p.channels EXCEPT ![c] = u]
    BY <1>1 DEF NotesFirst, Notes
  <2>3. m.enabled /\ Matching(m, c) = Matching(p, c)
    <3>1. Matching(m, c) = Matching(p, c)
      BY <2>2, SameRulesFacts
    <3> QED BY <1>3, <2>2, <3>1 DEF SameRules
  <2>4. m.channels[c] = u /\ c \in m.known
    <3>1. p.channels \in [Channels -> Update]
      BY PolicyFacts DEF Sound
    <3> QED BY <2>2, <3>1
  <2>5. Showing(p) => ShowsBut(m, c, {})
    BY <1>1 DEF NotesFirst, ShowsBut
  <2> DEFINE S == Matching(p, c)
             b == Showing(p)
  <2>6. b \in BOOLEAN
    BY DEF Showing
  <2> HIDE DEF S, b
  <2>7. Follows(b, q, m, c, S)
    <3>1. q = FollowAll(m, Matching(m, c), c, u, t)
      BY <2>1, <2>3
    <3>2. b => ShowsBut(m, c, {})
      BY <2>5 DEF b
    <3>3. Follows(b, q, m, c, Matching(m, c))
      <4>1. Sound(m) /\ m.enabled
        BY <2>2, <2>3
      <4> QED BY ONLY <4>1, <2>4, <2>6, <3>1, <3>2, FollowedByAll, c \in Channels, u \in Update, t \in Nat
    <3> QED BY <2>3, <3>3 DEF S
  <2>8. Observes(m, q) /\ Sound(q) /\ Rest(m, q) /\ Grows(m, q) /\ (b => ShowsBut(q, c, S))
    BY <2>7 DEF Follows, Observes
  <2>9. Notes(p, q, c, u)
    <3>1. Grows(p, q)
      BY <2>2, <2>8, GrowsTrans DEF Sound
    <3>2. SameRules(p, q) /\ SameMail(p, q) /\ q.known = m.known /\ q.channels = m.channels
      BY <2>2, <2>8 DEF Rest, SameRules, SameSight, SameMail
    <3>3. Unsuppressed(p) => Unsuppressed(q)
      BY <2>2, <2>8 DEF Notes, Observes
    <3> QED BY <2>2, <2>8, <3>1, <3>2, <3>3 DEF Notes
  <2>10. ASSUME b PROVE Showing(q)
    <3> SUFFICES ASSUME NEW id \in DOMAIN q.episodes, q.episodes[id].active, ~q.episodes[id].waiting
                 PROVE  Shows(q, q.episodes[id])
      BY DEF Showing
    <3>1. RuleOf(q, q.episodes[id].rule) \in Matching(q, q.episodes[id].channel)
      BY <2>8 DEF Sound, Ruled
    <3>2. Matching(q, c) = S
      BY <2>3, <2>8, RestFacts DEF S
    <3> QED BY <2>8, <2>10, <3>1, <3>2 DEF ShowsBut
  <2> QED BY <2>9, <2>10 DEF Looks, b
<1> QED BY <1>2, <1>3

(* A policy after some of the channels were observed.                      *)
NotesAll(p, q, all, state) ==
  /\ Sound(q) /\ SameRules(p, q) /\ SameMail(p, q) /\ Grows(p, q)
  /\ q.known = p.known \cup all
  /\ \A c \in Channels : q.channels[c] = IF c \in all THEN state[c] ELSE p.channels[c]
  /\ Unsuppressed(p) => Unsuppressed(q)
  /\ Showing(p) => Showing(q)

(* One more channel is observed.                                           *)
LEMMA NotesOn ==
  ASSUME NEW p, Sound(p), NEW state \in [Channels -> Update], NEW t \in Nat,
         NEW s \in SUBSET Channels, NEW c \in s, NEW x, NotesAll(p, x, s \ {c}, state),
         NEW y, y = Observed(x, c, state[c], t)
  PROVE  NotesAll(p, y, s, state)
<1>1. Sound(x) /\ c \in Channels /\ state[c] \in Update
  BY DEF NotesAll
<1>2. Looks(x, y, c, state[c])
  BY <1>1, ObservedSound
<1>3. /\ Sound(y) /\ SameRules(x, y) /\ SameMail(x, y) /\ Grows(x, y)
      /\ y.known = x.known \cup {c} /\ y.channels = [x.channels EXCEPT ![c] = state[c]]
      /\ (Unsuppressed(x) => Unsuppressed(y)) /\ (Showing(x) => Showing(y))
  BY <1>2 DEF Looks, Notes
<1>4. Grows(p, y)
  BY <1>1, <1>3, GrowsTrans DEF Sound, NotesAll
<1>5. SameRules(p, y) /\ SameMail(p, y)
  BY <1>3 DEF NotesAll, SameRules, SameMail
<1>6. y.known = p.known \cup s
  BY <1>3 DEF NotesAll
<1>7. \A d \in Channels : y.channels[d] = IF d \in s THEN state[d] ELSE p.channels[d]
  <2>1. x.channels \in [Channels -> Update]
    BY <1>1, PolicyFacts DEF Sound
  <2>2. \A d \in Channels : y.channels[d] = IF d = c THEN state[c] ELSE x.channels[d]
    BY <1>1, <1>3, <2>1
  <2>3. \A d \in Channels : x.channels[d] = IF d \in s \ {c} THEN state[d] ELSE p.channels[d]
    BY DEF NotesAll
  <2> QED BY <1>1, <2>2, <2>3
<1> QED BY <1>3, <1>4, <1>5, <1>6, <1>7 DEF NotesAll

(* ObserveAll shows the policy every channel of a set.                     *)
LEMMA ObservedAllSound ==
  ASSUME NEW p, Sound(p), NEW state \in [Channels -> Update], NEW t \in Nat,
         NEW S \in SUBSET Channels, NEW e, e = ObservedAll(p, S, state, t)
  PROVE  NotesAll(p, e, S, state)
<1> DEFINE W == [s \in SUBSET S |-> {x \in Policies : NotesAll(p, x, s, state)}]
           pick == [s \in SUBSET S |-> Member(s)]
           G == [z \in S \X Policies |-> Observed(z[2], z[1], state[z[1]], t)]
           iter[s \in SUBSET S] ==
             IF s = {} THEN p
             ELSE LET c == CHOOSE c \in s : TRUE IN Observed(iter[s \ {c}], c, state[c], t)
<1>1. IsFiniteSet(S)
  BY PolicyAssumption, FS_Subset
<1>2. e = iter[S]
  BY DEF ObservedAll, FoldSet, MapThenFoldSet
<1>3. p \in Policies /\ NotesAll(p, p, {}, state)
  <2>1. p \in Policies
    BY DEF Sound
  <2> QED BY <2>1, GrowsSelf DEF NotesAll, SameRules, SameMail
<1>4. ASSUME NEW s \in SUBSET S, NEW c \in s, NEW x \in W[s \ {c}]
      PROVE  Observed(x, c, state[c], t) \in W[s]
  <2>1. NotesAll(p, x, s \ {c}, state)
    OBVIOUS
  <2> DEFINE y == Observed(x, c, state[c], t)
  <2>2. NotesAll(p, y, s, state)
    <3> HIDE DEF y
    <3>1. s \in SUBSET Channels
      OBVIOUS
    <3> QED BY <2>1, <3>1, NotesOn DEF y
  <2> HIDE DEF y
  <2>3. y \in Policies
    BY <2>2 DEF NotesAll, Sound
  <2> QED BY <2>2, <2>3 DEF y
<1>5. HasFold(S, Policies, W, p, pick, G)
  <2>1. \A s \in SUBSET S : W[s] \subseteq Policies
    OBVIOUS
  <2>2. p \in W[{}]
    BY <1>3
  <2>3. \A s \in SUBSET S : s # {} =>
          pick[s] \in s /\ \A v \in W[s \ {pick[s]}] : G[<<pick[s], v>>] \in W[s]
    <3> SUFFICES ASSUME NEW s \in SUBSET S, s # {}
                 PROVE  pick[s] \in s /\ \A v \in W[s \ {pick[s]}] : G[<<pick[s], v>>] \in W[s]
      OBVIOUS
    <3>1. pick[s] \in s
      BY MemberFacts
    <3> HIDE DEF pick
    <3>2. ASSUME NEW v \in W[s \ {pick[s]}] PROVE G[<<pick[s], v>>] \in W[s]
      <4>1. v \in Policies /\ pick[s] \in S /\ s \ {pick[s]} \in SUBSET S
        BY <3>1
      <4>2. G[<<pick[s], v>>] = Observed(v, pick[s], state[pick[s]], t)
        BY <4>1
      <4>3. Observed(v, pick[s], state[pick[s]], t) \in W[s]
        <5> HIDE DEF G, W
        <5> QED BY <1>4, <3>1
      <4> QED BY <4>2, <4>3
    <3> QED BY <3>1, <3>2
  <2> HIDE DEF W, G, pick
  <2>4. Foldable(S, Policies, W, p, pick, G)
    BY <1>1, <2>1, <2>2, <2>3 DEF Foldable
  <2> QED BY <2>4, FoldExists
<1>6. PICK f \in [SUBSET S -> Policies] : \A s \in SUBSET S :
        f[s] \in W[s] /\ f[s] = IF s = {} THEN p ELSE G[<<pick[s], f[s \ {pick[s]}]>>]
  BY <1>5 DEF HasFold, Folded
<1>7. \A s \in SUBSET S : f[s] = IF s = {} THEN p
                               ELSE Observed(f[s \ {Member(s)}], Member(s), state[Member(s)], t)
  <2> TAKE s \in SUBSET S
  <2>1. CASE s = {}
    BY <1>6, <2>1
  <2>2. CASE s # {}
    <3>1. pick[s] = Member(s) /\ pick[s] \in s
      BY <2>2, MemberFacts
    <3> HIDE DEF pick
    <3>2. s \ {pick[s]} \in SUBSET S /\ pick[s] \in S
      BY <3>1
    <3>3. f[s \ {pick[s]}] \in Policies
      BY <3>2
    <3>4. G[<<pick[s], f[s \ {pick[s]}]>>] = Observed(f[s \ {pick[s]}], pick[s], state[pick[s]], t)
      BY <3>2, <3>3
    <3> HIDE DEF G
    <3> QED BY <1>6, <2>2, <3>1, <3>4
  <2> QED BY <2>1, <2>2
<1>8. f = [s \in SUBSET S |->
             IF s = {} THEN p
             ELSE LET c == CHOOSE c \in s : TRUE IN Observed(f[s \ {c}], c, state[c], t)]
  <2> HIDE DEF W, G, pick
  <2> QED BY <1>7 DEF Member
<1>9. iter = [s \in SUBSET S |->
             IF s = {} THEN p
             ELSE LET c == CHOOSE c \in s : TRUE IN Observed(iter[s \ {c}], c, state[c], t)]
  <2> HIDE DEF W, G, pick
  <2> QED BY <1>8, Zenon
<1>10. Inherited(S, W, pick, iter)
  <2>1. iter[{}] \in W[{}]
    <3>1. iter[{}] = p
      <4> HIDE DEF W, G, pick, iter
      <4> QED BY <1>9
    <3> HIDE DEF iter
    <3> QED BY <1>3, <3>1
  <2>2. ASSUME NEW s \in SUBSET S, s # {}
        PROVE  pick[s] \in s /\ (iter[s \ {pick[s]}] \in W[s \ {pick[s]}] => iter[s] \in W[s])
    <3>1. pick[s] = Member(s) /\ Member(s) \in s
      BY <2>2, MemberFacts
    <3>2. iter[s] = Observed(iter[s \ {Member(s)}], Member(s), state[Member(s)], t)
      <4> HIDE DEF W, G, pick, iter
      <4> QED BY <1>9, <2>2 DEF Member
    <3> HIDE DEF iter, W, pick
    <3>3. ASSUME iter[s \ {pick[s]}] \in W[s \ {pick[s]}]
          PROVE  iter[s] \in W[s]
      <4>1. Observed(iter[s \ {pick[s]}], pick[s], state[pick[s]], t) \in W[s]
        <5> DEFINE x == iter[s \ {pick[s]}]
                   r == pick[s]
        <5>1. r \in s /\ x \in W[s \ {r}]
          BY <3>1, <3>3
        <5> HIDE DEF x, r
        <5>2. Observed(x, r, state[r], t) \in W[s]
          BY <1>4, <5>1
        <5> QED BY <5>2 DEF x, r
      <4> QED BY <3>1, <3>2, <4>1
    <3> QED BY <3>1, <3>3
  <2> HIDE DEF iter, W, pick
  <2> QED BY <1>1, <2>1, <2>2 DEF Inherited
<1>11. iter[S] \in W[S]
  <2> HIDE DEF iter, W, pick
  <2> QED BY <1>1, <1>10, FoldInduction
<1> HIDE DEF iter
<1> QED BY <1>2, <1>11

(* The empty function has each kind.                                       *)
LEMMA EmptyFacts ==
  /\ <<>> \in Episodes /\ DOMAIN <<>> = {} /\ <<>> \in Currents /\ <<>> \in Seq(Letters)
<1>1. <<>> = [x \in {} |-> x] /\ DOMAIN <<>> = {}
  OBVIOUS
<1>2. <<>> \in [{} -> EpisodeRecord] /\ <<>> \in [{} -> Nat]
  BY <1>1
<1>3. <<>> \in Episodes
  BY ONLY <1>2, EpisodesFacts, {} \in SUBSET Nat
<1>4. <<>> \in Currents
  BY ONLY <1>2, CurrentsFacts, {} \in SUBSET (RuleIds \X Channels)
<1>5. <<>> \in Seq(Letters)
  BY EmptySeq
<1> QED BY <1>1, <1>3, <1>4, <1>5

-----------------------------------------------------------------------------
(***************************************************************************)
(* Pausing, new settings and a new engine.                                 *)
(***************************************************************************)

(* The service is switched on, or off: then nothing is left.               *)
Turns(p, q, on) ==
  /\ Sound(q) /\ Grows(p, q) /\ SameSight(p, q) /\ q.count = p.count /\ q.cooldown = p.cooldown
  /\ q.settings = p.settings /\ q.configuration = p.configuration /\ q.enabled = on
  /\ q.queue = IF on THEN p.queue ELSE <<>>
  /\ ~on => DOMAIN q.episodes = {}
  /\ Unsuppressed(p) => Unsuppressed(q)
  /\ Showing(p) => Showing(q)

(* setEnabled.                                                             *)
LEMMA EnableSound ==
  ASSUME NEW p, Sound(p), NEW on \in BOOLEAN, NEW q, q = Enable(p, on)
  PROVE  Turns(p, q, on)
<1>0. p \in Policies /\ p.count \in Nat
  BY PolicyFacts DEF Sound
<1>1. CASE on
  <2>1. q = [p EXCEPT !.enabled = TRUE]
    BY <1>1 DEF Enable
  <2>2. q \in Policies
    BY <1>0, <2>1 DEF Policies
  <2>3. /\ q.enabled = TRUE /\ q.configuration = p.configuration /\ q.settings = p.settings
        /\ q.known = p.known /\ q.channels = p.channels /\ q.episodes = p.episodes /\ q.count = p.count
        /\ q.current = p.current /\ q.resolvedEnded = p.resolvedEnded /\ q.cooldown = p.cooldown
        /\ q.queue = p.queue
    BY <1>0, <2>1 DEF Policies
  <2>4. /\ \A id : HasRule(q, id) = HasRule(p, id) /\ RuleOf(q, id) = RuleOf(p, id)
        /\ \A c : Matching(q, c) = Matching(p, c)
    BY <2>3 DEF HasRule, RuleOf, Matching
  <2>5. Numbered(q) /\ EndsNoted(q) /\ Emptied(q) /\ Unsuppressed(p) = Unsuppressed(q)
    BY <2>3 DEF Sound, Numbered, EndsNoted, Emptied, Unsuppressed
  <2>6. Tracked(q)
    BY <2>3 DEF Sound, Tracked
  <2>7. Ruled(q)
    BY <2>3, <2>4 DEF Sound, Ruled
  <2>8. Showing(p) => Showing(q)
    BY <2>3, <2>4 DEF Showing, Shows
  <2>9. Grows(p, q)
    BY <1>0, <2>3 DEF Grows, GoesOn
  <2> QED BY <1>1, <2>2, <2>3, <2>5, <2>6, <2>7, <2>8, <2>9 DEF Turns, Sound, SameSight
<1>2. CASE ~on
  <2> DEFINE none == [c \in Channels |-> {}]
             start == [k \in Key |-> 0]
  <2>1. q = [p EXCEPT !.enabled = FALSE, !.episodes = <<>>, !.current = <<>>,
                      !.resolvedEnded = none, !.queue = <<>>, !.throttled = FALSE, !.batch = start]
    BY <1>2 DEF Enable
  <2>2. none \in [Channels -> SUBSET Nat] /\ start \in [Key -> Nat] /\ \A c \in Channels : none[c] = {}
    OBVIOUS
  <2> HIDE DEF none, start
  <2>3. q \in Policies
    BY <1>0, <2>1, <2>2, EmptyFacts DEF Policies
  <2>4. /\ q.enabled = FALSE /\ q.configuration = p.configuration /\ q.settings = p.settings
        /\ q.known = p.known /\ q.channels = p.channels /\ q.episodes = <<>> /\ q.count = p.count
        /\ q.current = <<>> /\ q.resolvedEnded = none /\ q.cooldown = p.cooldown
        /\ q.queue = <<>>
    BY <1>0, <2>1 DEF Policies
  <2>5. DOMAIN q.episodes = {} /\ DOMAIN q.current = {}
    BY <2>4, EmptyFacts
  <2>6. Numbered(q) /\ EndsNoted(q) /\ Emptied(q) /\ Unsuppressed(q)
    BY <2>2, <2>4, <2>5 DEF Numbered, EndsNoted, Emptied, Unsuppressed
  <2>7. Tracked(q) /\ Ruled(q) /\ Showing(q)
    BY <2>5 DEF Tracked, Ruled, Showing
  <2>8. Grows(p, q)
    BY <1>0, <2>4, <2>5 DEF Grows
  <2> QED BY <1>2, <2>3, <2>4, <2>5, <2>6, <2>7, <2>8 DEF Turns, Sound, SameSight
<1> QED BY <1>1, <1>2

(* Rules that did not change keep their episodes.                          *)
Configures(p, q, s, file) ==
  /\ Sound(q) /\ Grows(p, q) /\ SameSight(p, q) /\ q.count = p.count
  /\ q.settings = s /\ q.configuration = file /\ q.enabled = p.enabled
  /\ q.queue = Only(p.queue, {i \in DOMAIN p.queue : p.queue[i].rule \in Unchanged(p, s, file)})
  /\ \A k \in Triples : q.cooldown[k] = IF HasRule(q, k[1]) THEN p.cooldown[k] ELSE 0
  /\ \A id \in DOMAIN q.episodes : id \in DOMAIN p.episodes /\ q.episodes[id].rule \in Unchanged(p, s, file)
  /\ Unsuppressed(p) => Unsuppressed(q)
  /\ Showing(p) => Showing(q)

(* setSettings: the rules that changed lose their episodes and letters.    *)
LEMMA ConfigureSound ==
  ASSUME NEW p, Sound(p), NEW s \in NotificationSettings, NEW file \in Files,
         NEW q, q = Configure(p, s, file)
  PROVE  Configures(p, q, s, file)
<1> DEFINE keep == Unchanged(p, s, file)
           ids == {id \in DOMAIN p.episodes : p.episodes[id].rule \notin keep}
           f == Restrict(p.episodes, DOMAIN p.episodes \ ids)
           g == [c \in Channels |-> p.resolvedEnded[c] \ ids]
           places == {i \in DOMAIN p.queue : p.queue[i].rule \in keep}
           cd == [k \in Triples |-> IF \E r \in s.rules : r.id = k[1] THEN p.cooldown[k] ELSE 0]
           nx == [d \in DestinationIds |-> IF \E x \in s.destinations : x.id = d THEN p.next[d] ELSE 0]
           start == [k \in Key |-> 0]
           h == Restrict(p.current, {k \in DOMAIN p.current : p.current[k] \in DOMAIN f})
           letters == Only(p.queue, places)
<1>0. /\ p \in Policies /\ p.count \in Nat /\ p.episodes \in Episodes /\ p.current \in Currents
      /\ p.resolvedEnded \in [Channels -> SUBSET Nat] /\ p.queue \in Seq(Letters)
      /\ p.cooldown \in [Triples -> Nat] /\ p.next \in [DestinationIds -> Nat]
  BY PolicyFacts DEF Sound
<1>1. DOMAIN p.cooldown = Triples
  BY <1>0
<1>2. q = [p EXCEPT !.episodes = f, !.resolvedEnded = g, !.current = h, !.cooldown = cd, !.next = nx,
                    !.settings = s, !.configuration = file, !.batch = start, !.queue = letters]
  <2> DEFINE m == Forget(p, ids)
  <2>1. m = [p EXCEPT !.episodes = f, !.resolvedEnded = g]
    BY DEF Forget
  <2>2. q = [m EXCEPT
         !.current = Restrict(@, {k \in DOMAIN @ : @[k] \in DOMAIN m.episodes}),
         !.cooldown = [k \in DOMAIN @ |-> IF \E r \in s.rules : r.id = k[1] THEN @[k] ELSE 0],
         !.next = [d \in DestinationIds |-> IF \E x \in s.destinations : x.id = d THEN @[d] ELSE 0],
         !.settings = s, !.configuration = file,
         !.batch = [k \in Key |-> 0],
         !.queue = Only(@, {i \in DOMAIN @ : @[i].rule \in keep})]
    BY Zenon DEF Configure
  <2> HIDE DEF m, f, g
  <2>3. /\ m.episodes = f /\ m.current = p.current /\ m.cooldown = p.cooldown /\ m.next = p.next
        /\ m.queue = p.queue
    BY <1>0, <2>1 DEF Policies
  <2>4. q = [m EXCEPT !.current = h, !.cooldown = cd, !.next = nx,
                    !.settings = s, !.configuration = file, !.batch = start, !.queue = letters]
    BY <1>1, <2>2, <2>3, ZenonT(60)
  <2> HIDE DEF h, cd, nx, start, letters
  <2> QED BY <2>1, <2>4
<1>3. f \in Episodes /\ DOMAIN f = DOMAIN p.episodes \ ids /\ \A x \in DOMAIN f : f[x] = p.episodes[x]
  <2> DEFINE S == DOMAIN p.episodes \ ids
  <2>1. f = [x \in S |-> p.episodes[x]]
    BY DEF Restrict
  <2>2. S \in SUBSET Nat /\ \A x \in S : p.episodes[x] \in EpisodeRecord
    BY <1>0, EpisodesFacts
  <2> HIDE DEF S, f
  <2>3. f \in [S -> EpisodeRecord]
    BY <2>1, <2>2
  <2>4. f \in Episodes /\ DOMAIN f = S
    BY <2>2, <2>3, EpisodesFacts
  <2>5. \A x \in S : f[x] = p.episodes[x]
    BY <2>1
  <2> QED BY <2>4, <2>5 DEF S
<1>4. g \in [Channels -> SUBSET Nat] /\ \A c \in Channels : g[c] = p.resolvedEnded[c] \ ids
  BY <1>0
<1>5. h \in Currents /\ DOMAIN h = {k \in DOMAIN p.current : p.current[k] \in DOMAIN f}
      /\ \A k \in DOMAIN h : h[k] = p.current[k]
  <2> HIDE DEF f
  <2> DEFINE S == {k \in DOMAIN p.current : p.current[k] \in DOMAIN f}
  <2>1. h = [k \in S |-> p.current[k]]
    BY DEF Restrict
  <2>2. S \in SUBSET (RuleIds \X Channels) /\ \A k \in S : p.current[k] \in Nat
    BY <1>0, CurrentsFacts
  <2> HIDE DEF S, h
  <2>3. h \in [S -> Nat]
    BY <2>1, <2>2
  <2>4. h \in Currents /\ DOMAIN h = S
    BY <2>2, <2>3, CurrentsFacts
  <2>5. \A k \in S : h[k] = p.current[k]
    BY <2>1
  <2> QED BY <2>4, <2>5 DEF S
<1>6. letters \in Seq(Letters) /\ (p.queue = <<>> => letters = <<>>)
  <2>1. places \in SUBSET DOMAIN p.queue
    OBVIOUS
  <2> HIDE DEF places
  <2>2. letters \in Seq(Letters) /\ DOMAIN letters = 1..Cardinality(places)
    BY <1>0, <2>1, OnlyFacts
  <2>3. p.queue = <<>> => places = {}
    BY <2>1
  <2>4. Cardinality({}) = 0
    BY FS_EmptySet
  <2> HIDE DEF letters
  <2>5. ASSUME p.queue = <<>> PROVE letters = <<>>
    <3>1. Len(letters) = 0
      <4>1. DOMAIN letters = 1..0
        BY <2>2, <2>3, <2>4, <2>5
      <4>2. Len(letters) \in Nat /\ DOMAIN letters = 1..Len(letters)
        BY <2>2, LenProperties
      <4>3. ~(1 \in 1..Len(letters))
        BY ONLY <4>1, <4>2
      <4> QED BY <4>2, <4>3
    <3> QED BY <2>2, <3>1, EmptySeq
  <2> QED BY <2>2, <2>5
<1>7. cd \in [Triples -> Nat] /\ nx \in [DestinationIds -> Nat] /\ start \in [Key -> Nat]
      /\ \A k \in Triples : cd[k] = IF \E r \in s.rules : r.id = k[1] THEN p.cooldown[k] ELSE 0
  BY <1>0
<1> HIDE DEF f, g, h, cd, nx, start, letters, places, ids, keep
<1>8. q \in Policies
  <2>1. /\ p \in Policies /\ f \in Episodes /\ g \in [Channels -> SUBSET Nat] /\ h \in Currents
        /\ cd \in [Triples -> Nat] /\ nx \in [DestinationIds -> Nat] /\ start \in [Key -> Nat]
        /\ letters \in Seq(Letters)
    BY <1>0, <1>3, <1>4, <1>5, <1>6, <1>7
  <2> QED BY ONLY <1>2, <2>1, s \in NotificationSettings, file \in Files DEF Policies
<1>9. /\ q.enabled = p.enabled /\ q.configuration = file /\ q.settings = s
      /\ q.known = p.known /\ q.channels = p.channels /\ q.episodes = f /\ q.count = p.count
      /\ q.current = h /\ q.resolvedEnded = g /\ q.cooldown = cd /\ q.queue = letters
  BY <1>0, <1>2 DEF Policies
<1>10. ASSUME NEW id \in DOMAIN f
       PROVE  /\ id \in DOMAIN p.episodes /\ f[id] = p.episodes[id] /\ p.episodes[id].rule \in keep
              /\ p.episodes[id].channel \in Channels /\ p.episodes[id].active \in BOOLEAN
              /\ HasRule(q, p.episodes[id].rule)
              /\ RuleOf(q, p.episodes[id].rule) = RuleOf(p, p.episodes[id].rule)
              /\ p.episodes[id].active =>
                   RuleOf(q, p.episodes[id].rule) \in Matching(q, p.episodes[id].channel)
  <2>1. id \in DOMAIN p.episodes /\ f[id] = p.episodes[id] /\ p.episodes[id].rule \in keep
    BY <1>3 DEF ids
  <2>2. PICK x \in s.rules \cap p.settings.rules : file = p.configuration /\ x.id = p.episodes[id].rule
    BY <2>1 DEF keep, Unchanged
  <2>3. HasRule(q, x.id) /\ RuleOf(q, x.id) = x /\ HasRule(p, x.id) /\ RuleOf(p, x.id) = x
    BY <1>0, <1>8, <1>9, <2>2, RuleUnique
  <2>4. p.episodes[id].active => x \in Matching(p, p.episodes[id].channel)
    BY <2>1, <2>2, <2>3 DEF Sound, Ruled
  <2>5. x \in Matching(p, p.episodes[id].channel) => x \in Matching(q, p.episodes[id].channel)
    BY <1>9, <2>2 DEF Matching
  <2>6. p.episodes[id].channel \in Channels /\ p.episodes[id].active \in BOOLEAN
    BY <1>0, <2>1, EpisodeFacts
  <2> QED BY <2>1, <2>2, <2>3, <2>4, <2>5, <2>6
<1>11. Numbered(q)
  BY <1>3, <1>4, <1>9 DEF Sound, Numbered
<1>12. Tracked(q)
  <2>1. Tracked(p)
    BY DEF Sound
  <2>2. \A k \in DOMAIN h : h[k] \in DOMAIN f /\ f[h[k]].active /\ KeyOf(f[h[k]]) = k
    BY <1>3, <1>5, <2>1 DEF Tracked
  <2>3. ASSUME NEW id \in DOMAIN f, f[id].active
        PROVE  KeyOf(f[id]) \in DOMAIN h /\ h[KeyOf(f[id])] = id
    <3>1. id \in DOMAIN p.episodes /\ f[id] = p.episodes[id]
      BY <1>10
    <3>2. KeyOf(f[id]) \in DOMAIN p.current /\ p.current[KeyOf(f[id])] = id
      BY <2>1, <2>3, <3>1 DEF Tracked
    <3> QED BY <1>5, <3>2
  <2> QED BY <1>9, <2>2, <2>3 DEF Tracked
<1>13. Ruled(q)
  BY <1>9, <1>10 DEF Ruled
<1>14. EndsNoted(q)
  <2> SUFFICES ASSUME NEW id \in DOMAIN f, f[id].resolved
               PROVE  ~f[id].active /\ id \in g[f[id].channel]
    BY <1>9 DEF EndsNoted
  <2>1. id \in DOMAIN p.episodes /\ f[id] = p.episodes[id] /\ f[id].channel \in Channels
    BY <1>10
  <2>2. ~f[id].active /\ id \in p.resolvedEnded[f[id].channel] /\ id \notin ids
    BY <1>3, <2>1 DEF Sound, EndsNoted
  <2> QED BY <1>4, <2>1, <2>2
<1>15. Emptied(q)
  <2>1. ~p.enabled => DOMAIN p.episodes = {} /\ p.queue = <<>>
    BY DEF Sound, Emptied
  <2> QED BY <1>3, <1>6, <1>9, <2>1 DEF Emptied
<1>16. Unsuppressed(p) => Unsuppressed(q)
  BY <1>9, <1>10 DEF Unsuppressed
<1>17. Showing(p) => Showing(q)
  <2> SUFFICES ASSUME Showing(p), NEW id \in DOMAIN f, f[id].active, ~f[id].waiting PROVE Shows(q, f[id])
    BY <1>9 DEF Showing
  <2>1. id \in DOMAIN p.episodes /\ f[id] = p.episodes[id]
        /\ RuleOf(q, p.episodes[id].rule) = RuleOf(p, p.episodes[id].rule)
    BY <1>10
  <2>2. Shows(p, p.episodes[id])
    BY <2>1 DEF Showing
  <2> QED BY <1>9, <2>1, <2>2 DEF Shows
<1>18. Grows(p, q)
  BY <1>0, <1>9, <1>10 DEF Grows, GoesOn
<1>19. \A k \in Triples : q.cooldown[k] = IF HasRule(q, k[1]) THEN p.cooldown[k] ELSE 0
  BY <1>7, <1>9 DEF HasRule
<1>20. q.queue = Only(p.queue, {i \in DOMAIN p.queue : p.queue[i].rule \in Unchanged(p, s, file)})
  BY <1>9 DEF letters, places, keep
<1>21. \A id \in DOMAIN q.episodes : id \in DOMAIN p.episodes /\ q.episodes[id].rule \in Unchanged(p, s, file)
  BY <1>9, <1>10 DEF keep
<1>22. Sound(q)
  BY <1>8, <1>11, <1>12, <1>13, <1>14, <1>15 DEF Sound
<1>23. SameSight(p, q) /\ q.count = p.count /\ q.settings = s /\ q.configuration = file /\ q.enabled = p.enabled
  BY <1>9 DEF SameSight
<1> QED BY <1>16, <1>17, <1>18, <1>19, <1>20, <1>21, <1>22, <1>23 DEF Configures

(* A reload: the episodes that stay wait to be seen.                       *)
Reconciles(p, q, all, state) ==
  /\ Sound(q) /\ Showing(q) /\ Grows(p, q) /\ SameRules(p, q) /\ q.count = p.count /\ q.queue = p.queue
  /\ q.known = all
  /\ \A c \in Channels : q.channels[c] = IF c \in all THEN state[c] ELSE Unknown
  /\ \A k \in Triples : q.cooldown[k] = IF k[2] \in all THEN p.cooldown[k] ELSE 0
  /\ (\A c \in all : ~state[c].suppressed) => Unsuppressed(q)

(* reconcile.                                                              *)
LEMMA ReconciledSound ==
  ASSUME NEW p, Sound(p), NEW all \in SUBSET Channels, NEW state \in [Channels -> Update],
         NEW q, q = Reconciled(p, all, state)
  PROVE  Reconciles(p, q, all, state)
<1> DEFINE gone == {id \in DOMAIN p.episodes : p.episodes[id].channel \notin all}
           one(id) == IF id \in gone THEN Ended(p.episodes[id], FALSE)
                      ELSE IF p.episodes[id].active THEN AwaitsFresh(p.episodes[id], state) ELSE p.episodes[id]
           f == [id \in DOMAIN p.episodes |-> one(id)]
           ch == [c \in Channels |-> IF c \in all THEN state[c] ELSE Unknown]
           cd == [k \in Triples |-> IF k[2] \in all THEN p.cooldown[k] ELSE 0]
           keys == {<<p.episodes[id].rule, p.episodes[id].channel>> : id \in gone}
           h == Restrict(p.current, DOMAIN p.current \ keys)
<1>0. /\ p \in Policies /\ p.count \in Nat /\ p.episodes \in Episodes /\ p.current \in Currents
      /\ p.cooldown \in [Triples -> Nat]
  BY PolicyFacts DEF Sound
<1>1. q = [p EXCEPT !.known = all, !.channels = ch, !.cooldown = cd, !.episodes = f, !.current = h]
  <2>1. DOMAIN p.cooldown = Triples
    BY <1>0
  <2> QED BY <2>1, Zenon DEF Reconciled
<1>2. ASSUME NEW id \in DOMAIN p.episodes
      PROVE  LET e == p.episodes[id]
             IN  /\ one(id) \in EpisodeRecord
                 /\ one(id).rule = e.rule /\ one(id).channel = e.channel /\ KeyOf(one(id)) = KeyOf(e)
                 /\ e.channel \in Channels
                 /\ one(id).accepted = e.accepted /\ one(id).queued = e.queued
                 /\ one(id).resolutionQueued = e.resolutionQueued
                 /\ one(id).active => e.active /\ one(id).waiting /\ id \notin gone
                 /\ e.active /\ id \notin gone => one(id).active
                 /\ one(id).resolved => e.resolved
  <2>1. p.episodes[id] \in EpisodeRecord
    BY <1>0, EpisodeFacts
  <2> DEFINE e == p.episodes[id]
  <2>2. state[e.channel] \in Update /\ e.channel \in Channels
    BY <2>1 DEF EpisodeRecord
  <2> HIDE DEF gone
  <2>3. one(id) = IF id \in gone THEN Ended(e, FALSE) ELSE IF e.active THEN AwaitsFresh(e, state) ELSE e
    OBVIOUS
  <2> HIDE DEF e, one
  <2>4. e \in EpisodeRecord
    BY <2>1 DEF e
  <2>5. CASE id \in gone
    <3>1. one(id) = [e EXCEPT !.active = FALSE, !.resolved = FALSE]
      BY <2>3, <2>5 DEF Ended
    <3> QED BY <2>2, <2>4, <2>5, <3>1 DEF EpisodeRecord, KeyOf, e
  <2>6. CASE id \notin gone /\ e.active
    <3>1. one(id) = [e EXCEPT !.waiting = TRUE, !.state = state[e.channel]]
      BY <2>3, <2>6 DEF AwaitsFresh
    <3> QED BY <2>2, <2>4, <2>6, <3>1 DEF EpisodeRecord, KeyOf, e
  <2>7. CASE id \notin gone /\ ~e.active
    <3>1. one(id) = e
      BY <2>3, <2>7
    <3> QED BY <2>2, <2>4, <2>7, <3>1 DEF e
  <2> QED BY <2>5, <2>6, <2>7
<1> HIDE DEF one
<1>3. f \in Episodes /\ DOMAIN f = DOMAIN p.episodes /\ \A id \in DOMAIN p.episodes : f[id] = one(id)
  <2>1. f \in [DOMAIN p.episodes -> EpisodeRecord]
    BY <1>2
  <2> QED BY <1>0, <2>1, EpisodesFacts
<1>4. h \in Currents /\ DOMAIN h = DOMAIN p.current \ keys /\ \A k \in DOMAIN h : h[k] = p.current[k]
  <2> HIDE DEF keys
  <2> DEFINE S == DOMAIN p.current \ keys
  <2>1. h = [k \in S |-> p.current[k]]
    BY DEF Restrict
  <2>2. S \in SUBSET (RuleIds \X Channels) /\ \A k \in S : p.current[k] \in Nat
    BY <1>0, CurrentsFacts
  <2> HIDE DEF S, h
  <2>3. h \in [S -> Nat]
    BY <2>1, <2>2
  <2>4. h \in Currents /\ DOMAIN h = S
    BY <2>2, <2>3, CurrentsFacts
  <2>5. \A k \in S : h[k] = p.current[k]
    BY <2>1
  <2> QED BY <2>4, <2>5 DEF S
<1>5. ch \in [Channels -> Update] /\ \A c \in Channels : ch[c] = IF c \in all THEN state[c] ELSE Unknown
  <2>1. Unknown \in Update
    BY DEF Unknown, Update
  <2> QED BY <2>1
<1>6. cd \in [Triples -> Nat] /\ \A k \in Triples : cd[k] = IF k[2] \in all THEN p.cooldown[k] ELSE 0
  BY <1>0
<1>7. \A id \in gone : KeyOf(p.episodes[id]) \in keys
  BY DEF KeyOf
<1>8. \A k \in keys : k[2] \notin all
  OBVIOUS
<1> HIDE DEF f, h, cd, ch, keys
<1>9. q \in Policies
  BY <1>0, <1>1, <1>3, <1>4, <1>5, <1>6, ZenonT(60) DEF Policies
<1>10. /\ q.enabled = p.enabled /\ q.configuration = p.configuration /\ q.settings = p.settings
       /\ q.known = all /\ q.channels = ch /\ q.episodes = f /\ q.count = p.count
       /\ q.current = h /\ q.resolvedEnded = p.resolvedEnded /\ q.cooldown = cd /\ q.queue = p.queue
  BY <1>0, <1>1 DEF Policies
<1>11. SameRules(p, q)
  BY <1>10 DEF SameRules
<1>12. /\ \A id : HasRule(q, id) = HasRule(p, id) /\ RuleOf(q, id) = RuleOf(p, id)
       /\ \A c : Matching(q, c) = Matching(p, c)
  BY <1>11, SameRulesFacts
<1>13. \A id \in DOMAIN p.episodes : q.episodes[id] = one(id)
  BY <1>3, <1>10
<1>14. DOMAIN q.episodes = DOMAIN p.episodes
  BY <1>3, <1>10
<1>15. Numbered(q)
  BY <1>10, <1>14 DEF Sound, Numbered
<1>16. Tracked(q)
  <2>1. Tracked(p)
    BY DEF Sound
  <2>2. ASSUME NEW k \in DOMAIN h
        PROVE  h[k] \in DOMAIN p.episodes /\ one(h[k]).active /\ KeyOf(one(h[k])) = k
    <3>1. h[k] = p.current[k] /\ k \in DOMAIN p.current /\ k \notin keys
      BY <1>4
    <3>2. p.current[k] \in DOMAIN p.episodes /\ p.episodes[p.current[k]].active
          /\ KeyOf(p.episodes[p.current[k]]) = k
      BY <2>1, <3>1 DEF Tracked
    <3>3. p.current[k] \notin gone
      BY <1>7, <3>1, <3>2
    <3> HIDE DEF gone
    <3> QED BY <1>2, <3>1, <3>2, <3>3
  <2>3. ASSUME NEW id \in DOMAIN p.episodes, one(id).active
        PROVE  KeyOf(one(id)) \in DOMAIN h /\ h[KeyOf(one(id))] = id
    <3>1. p.episodes[id].active /\ id \notin gone /\ KeyOf(one(id)) = KeyOf(p.episodes[id])
      BY <1>2, <2>3
    <3>2. KeyOf(p.episodes[id]) \in DOMAIN p.current /\ p.current[KeyOf(p.episodes[id])] = id
      BY <2>1, <3>1 DEF Tracked
    <3>3. KeyOf(p.episodes[id]) \notin keys
      BY <1>8, <3>1 DEF KeyOf
    <3> QED BY <1>4, <3>1, <3>2, <3>3
  <2>4. \A id \in DOMAIN q.episodes : q.episodes[id] = one(id) /\ id \in DOMAIN p.episodes
    BY <1>13, <1>14
  <2> QED BY <1>10, <1>14, <2>2, <2>3, <2>4 DEF Tracked
<1>17. Ruled(q)
  <2>1. Ruled(p)
    BY DEF Sound
  <2> HIDE DEF gone
  <2> QED BY <1>2, <1>12, <1>13, <1>14, <2>1 DEF Ruled
<1>18. EndsNoted(q)
  <2> HIDE DEF gone
  <2> QED BY <1>2, <1>10, <1>13, <1>14 DEF Sound, EndsNoted
<1>19. Emptied(q) /\ Sound(q)
  <2>1. Emptied(q)
    BY <1>10, <1>14 DEF Sound, Emptied
  <2> QED BY <1>9, <1>15, <1>16, <1>17, <1>18, <2>1 DEF Sound
<1>20. Showing(q)
  <2> HIDE DEF gone
  <2> QED BY <1>2, <1>13, <1>14 DEF Showing
<1>21. Grows(p, q)
  <2> HIDE DEF gone
  <2> QED BY <1>0, <1>2, <1>10, <1>13, <1>14 DEF Grows, GoesOn
<1>22. ASSUME \A c \in all : ~state[c].suppressed PROVE Unsuppressed(q)
  <2>1. \A c \in Channels : ~ch[c].suppressed
    BY <1>5, <1>22 DEF Unknown
  <2> HIDE DEF gone
  <2>2. \A id \in DOMAIN q.episodes : q.episodes[id].channel \in Channels
    BY <1>2, <1>13, <1>14
  <2> QED BY <1>10, <2>1, <2>2 DEF Unsuppressed
<1> QED BY <1>5, <1>6, <1>10, <1>11, <1>19, <1>20, <1>21, <1>22 DEF Reconciles

-----------------------------------------------------------------------------
(***************************************************************************)
(* Work on the queue: the episodes stay, their marks change.               *)
(***************************************************************************)

(* The bookkeeping of the queue: episodes keep what they are, and ended    *)
(* ones may be dropped.                                                    *)
SameLife(e, f) ==
  /\ f \in EpisodeRecord /\ f.rule = e.rule /\ f.channel = e.channel
  /\ f.active = e.active /\ f.waiting = e.waiting /\ (f.resolved => e.resolved)

(* The queue is worked on; the rules, the channels and the active episodes *)
(* stay.                                                                   *)
Keeps(p, q) ==
  /\ q \in Policies /\ SameRules(p, q) /\ SameSight(p, q) /\ q.count = p.count /\ q.current = p.current
  /\ \A c \in Channels : q.resolvedEnded[c] = p.resolvedEnded[c] \cap DOMAIN q.episodes
  /\ DOMAIN q.episodes \subseteq DOMAIN p.episodes
  /\ \A id \in DOMAIN p.episodes : p.episodes[id].active => id \in DOMAIN q.episodes
  /\ \A id \in DOMAIN q.episodes : SameLife(p.episodes[id], q.episodes[id])
  /\ Emptied(q)

(* What Keeps carries over.                                                *)
KeepsSoundOp(p, q) ==
  Sound(q) /\ (Showing(p) => Showing(q)) /\ (Unsuppressed(p) => Unsuppressed(q))

(* Work on the queue keeps a policy sound.                                 *)
LEMMA KeepsSound ==
  ASSUME NEW p, Sound(p), NEW q, Keeps(p, q)
  PROVE  KeepsSoundOp(p, q)
<1>0. /\ q \in Policies /\ SameRules(p, q) /\ q.known = p.known /\ q.channels = p.channels
      /\ q.count = p.count /\ q.current = p.current
      /\ \A c \in Channels : q.resolvedEnded[c] = p.resolvedEnded[c] \cap DOMAIN q.episodes
      /\ DOMAIN q.episodes \subseteq DOMAIN p.episodes
      /\ \A id \in DOMAIN p.episodes : p.episodes[id].active => id \in DOMAIN q.episodes
  BY DEF Keeps, SameSight
<1>1. \A id : HasRule(q, id) = HasRule(p, id) /\ RuleOf(q, id) = RuleOf(p, id)
  BY <1>0, SameRulesFacts
<1>2. \A c : Matching(q, c) = Matching(p, c)
  BY <1>0, SameRulesFacts
<1>3. \A id \in DOMAIN q.episodes :
        LET e == p.episodes[id]
            f == q.episodes[id]
        IN  /\ id \in DOMAIN p.episodes /\ f.rule = e.rule /\ f.channel = e.channel /\ KeyOf(f) = KeyOf(e)
            /\ f.active = e.active /\ f.waiting = e.waiting /\ (f.resolved => e.resolved)
            /\ e.channel \in Channels
  <2>1. \A id \in DOMAIN p.episodes : p.episodes[id].channel \in Channels
    BY EpisodeFacts DEF Sound
  <2> QED BY <1>0, <2>1 DEF Keeps, SameLife, KeyOf
<1>4. Numbered(q)
  BY <1>0 DEF Sound, Numbered
<1>5. Tracked(q)
  BY <1>0, <1>3 DEF Sound, Tracked
<1>6. Ruled(q)
  <2>1. Ruled(p)
    BY DEF Sound
  <2> QED BY <1>1, <1>2, <1>3, <2>1 DEF Ruled
<1>7. EndsNoted(q)
  BY <1>0, <1>3 DEF Sound, EndsNoted
<1>8. Showing(p) => Showing(q)
  BY <1>0, <1>1, <1>3 DEF Showing, Shows
<1>9. Unsuppressed(p) => Unsuppressed(q)
  BY <1>0, <1>3 DEF Unsuppressed
<1>10. Emptied(q)
  BY DEF Keeps
<1> QED BY <1>0, <1>4, <1>5, <1>6, <1>7, <1>8, <1>9, <1>10 DEF KeepsSoundOp, Sound

(* One piece of work on the queue after another.                           *)
LEMMA KeepsTrans ==
  ASSUME NEW p, NEW q, NEW r, Keeps(p, q), Keeps(q, r)
  PROVE  Keeps(p, r)
<1>1. SameRules(p, r) /\ SameSight(p, r)
  BY DEF Keeps, SameRules, SameSight
<1>2. \A id \in DOMAIN r.episodes : id \in DOMAIN q.episodes /\ SameLife(p.episodes[id], r.episodes[id])
  BY DEF Keeps, SameLife
<1>3. \A id \in DOMAIN p.episodes : p.episodes[id].active => id \in DOMAIN r.episodes
  BY DEF Keeps, SameLife
<1>4. \A c \in Channels : r.resolvedEnded[c] = p.resolvedEnded[c] \cap DOMAIN r.episodes
  BY DEF Keeps
<1> QED BY <1>1, <1>2, <1>3, <1>4 DEF Keeps

-----------------------------------------------------------------------------
(***************************************************************************)
(* Letters move between their carriers.                                    *)
(***************************************************************************)

(* The places of a selection, one to one.                                  *)
PlacesOf(r, s, places) ==
  \E g \in [DOMAIN r -> places] :
    /\ \A k \in DOMAIN r : r[k] = s[g[k]]
    /\ \A k, l \in DOMAIN r : g[k] = g[l] => k = l
    /\ \A i \in places : \E k \in DOMAIN r : g[k] = i

(* A selection has the places it was made of.                              *)
LEMMA OnlyPlaces ==
  ASSUME NEW T, NEW s \in Seq(T), NEW places \in SUBSET DOMAIN s,
         NEW r, r = Only(s, places)
  PROVE  PlacesOf(r, s, places)
<1>1. /\ DOMAIN r = 1..Cardinality(places) /\ Cardinality(places) \in Nat
      /\ \A k \in DOMAIN r : \E i \in places : Rank(places, i) = k /\ r[k] = s[i]
  BY OnlyFacts
<1>2. /\ \A i \in places : Rank(places, i) \in 1..Cardinality(places)
      /\ \A i, j \in places : Rank(places, i) = Rank(places, j) => i = j
  <2>1. places \in SUBSET (1..Len(s)) /\ Len(s) \in Nat
    OBVIOUS
  <2> QED BY <2>1, RankFacts
<1> DEFINE g == [k \in DOMAIN r |-> CHOOSE i \in places : Rank(places, i) = k /\ r[k] = s[i]]
<1>3. \A k \in DOMAIN r : g[k] \in places /\ Rank(places, g[k]) = k /\ r[k] = s[g[k]]
  BY <1>1
<1>4. g \in [DOMAIN r -> places]
  BY <1>3
<1>5. \A i \in places : \E k \in DOMAIN r : g[k] = i
  <2> TAKE i \in places
  <2>1. Rank(places, i) \in DOMAIN r
    BY <1>1, <1>2
  <2> WITNESS Rank(places, i) \in DOMAIN r
  <2> HIDE DEF g
  <2> QED BY <1>2, <1>3, <2>1
<1> HIDE DEF g
<1> QED BY <1>3, <1>4, <1>5 DEF PlacesOf

(* The letter of a carrier announces a token of an episode.                *)
Says(p, D, x, id, t) == Announces(LetterAt(p, D, x), id, t)

(* A carrier is a place of the queue or a running attempt.                 *)
CarrierKinds(p, D, x) ==
  \/ x = <<"queue", x[2]>> /\ x[1] = "queue" /\ x[2] \in DOMAIN p.queue /\ LetterAt(p, D, x) = p.queue[x[2]]
  \/ x = <<"flight", x[2]>> /\ x[1] = "flight" /\ x[2] \in Running(D) /\ LetterAt(p, D, x) = D[x[2]].envelope

(* The carriers are the places of the queue and the running attempts.      *)
LEMMA CarrierFacts ==
  /\ \A p, D : \A x \in Carriers(p, D) : CarrierKinds(p, D, x)
  /\ \A p, D : \A i \in DOMAIN p.queue :
       <<"queue", i>> \in Carriers(p, D) /\ LetterAt(p, D, <<"queue", i>>) = p.queue[i]
  /\ \A p, D : \A i \in Running(D) :
       <<"flight", i>> \in Carriers(p, D) /\ LetterAt(p, D, <<"flight", i>>) = D[i].envelope
<1>1. ASSUME NEW p, NEW D, NEW x \in Carriers(p, D) PROVE CarrierKinds(p, D, x)
  BY DEF CarrierKinds, Carriers, LetterAt
<1>2. ASSUME NEW p, NEW D, NEW i \in DOMAIN p.queue
      PROVE  <<"queue", i>> \in Carriers(p, D) /\ LetterAt(p, D, <<"queue", i>>) = p.queue[i]
  BY DEF Carriers, LetterAt
<1>3. ASSUME NEW p, NEW D, NEW i \in Running(D)
      PROVE  <<"flight", i>> \in Carriers(p, D) /\ LetterAt(p, D, <<"flight", i>>) = D[i].envelope
  BY DEF Carriers, LetterAt
<1> QED BY <1>1, <1>2, <1>3

(* Letters move from carrier to carrier and lose alarms; what is no longer *)
(* announced is no longer marked.                                          *)
Transfers(p, D, q, E, g, h) ==
  /\ g \in [DOMAIN q.queue -> Carriers(p, D)] /\ h \in [Running(E) -> Carriers(p, D)]
  /\ \A k, l \in DOMAIN q.queue : g[k] = g[l] => k = l
  /\ \A i, j \in Running(E) : h[i] = h[j] => i = j
  /\ \A k \in DOMAIN q.queue, i \in Running(E) : g[k] # h[i]
  /\ \A id \in DOMAIN q.episodes, t \in Tokens :
       /\ \A k \in DOMAIN q.queue :
            Announces(q.queue[k], id, t) => id \in DOMAIN p.episodes /\ Says(p, D, g[k], id, t)
       /\ \A i \in Running(E) :
            Announces(E[i].envelope, id, t) => id \in DOMAIN p.episodes /\ Says(p, D, h[i], id, t)
       /\ t \in MarkedTokens(q.episodes[id]) <=>
            /\ id \in DOMAIN p.episodes /\ t \in MarkedTokens(p.episodes[id])
            /\ \A y \in Carriers(p, D) :
                 Says(p, D, y, id, t) =>
                   \/ \E k \in DOMAIN q.queue : g[k] = y /\ Announces(q.queue[k], id, t)
                   \/ \E i \in Running(E) : h[i] = y /\ Announces(E[i].envelope, id, t)

(* Letters that move and only lose what is unmarked stay in balance.       *)
LEMMA TransferredBalanced ==
  ASSUME NEW p, NEW D, NEW q, NEW E, NEW g, NEW h, Balanced(p, D), Transfers(p, D, q, E, g, h)
  PROVE  Balanced(q, E)
<1> SUFFICES ASSUME NEW id \in DOMAIN q.episodes, NEW t \in Tokens
             PROVE  /\ t \in MarkedTokens(q.episodes[id]) <=> \E x \in Carriers(q, E) : Says(q, E, x, id, t)
                    /\ \A x, y \in Carriers(q, E) : Says(q, E, x, id, t) /\ Says(q, E, y, id, t) => x = y
  BY DEF Balanced, Says
<1> DEFINE Old(y) == id \in DOMAIN p.episodes /\ y \in Carriers(p, D) /\ Says(p, D, y, id, t)
<1>1. /\ g \in [DOMAIN q.queue -> Carriers(p, D)] /\ h \in [Running(E) -> Carriers(p, D)]
      /\ \A k, l \in DOMAIN q.queue : g[k] = g[l] => k = l
      /\ \A i, j \in Running(E) : h[i] = h[j] => i = j
      /\ \A k \in DOMAIN q.queue, i \in Running(E) : g[k] # h[i]
      /\ \A k \in DOMAIN q.queue :
            Announces(q.queue[k], id, t) => id \in DOMAIN p.episodes /\ Says(p, D, g[k], id, t)
      /\ \A i \in Running(E) :
            Announces(E[i].envelope, id, t) => id \in DOMAIN p.episodes /\ Says(p, D, h[i], id, t)
  BY DEF Transfers
<1>2. t \in MarkedTokens(q.episodes[id]) <=>
        /\ id \in DOMAIN p.episodes /\ t \in MarkedTokens(p.episodes[id])
        /\ \A y \in Carriers(p, D) :
             Says(p, D, y, id, t) =>
               \/ \E k \in DOMAIN q.queue : g[k] = y /\ Announces(q.queue[k], id, t)
               \/ \E i \in Running(E) : h[i] = y /\ Announces(E[i].envelope, id, t)
  BY DEF Transfers
<1>3. /\ \A k \in DOMAIN q.queue : Announces(q.queue[k], id, t) => Old(g[k])
      /\ \A i \in Running(E) : Announces(E[i].envelope, id, t) => Old(h[i])
  BY <1>1
<1>4. id \in DOMAIN p.episodes =>
        /\ t \in MarkedTokens(p.episodes[id]) <=> \E x \in Carriers(p, D) : Says(p, D, x, id, t)
        /\ \A x, y \in Carriers(p, D) : Says(p, D, x, id, t) /\ Says(p, D, y, id, t) => x = y
  BY DEF Balanced, Says
<1>5. \A x, y : Old(x) /\ Old(y) => x = y
  BY <1>4
<1>6. \A y : Old(y) => t \in MarkedTokens(p.episodes[id]) /\ id \in DOMAIN p.episodes
  BY <1>4
<1>7. t \in MarkedTokens(q.episodes[id]) => \E y : Old(y)
  BY <1>2, <1>4
<1>8. \A y : Old(y) => y \in Carriers(p, D) /\ Says(p, D, y, id, t)
  OBVIOUS
<1>9. \A y \in Carriers(p, D) : Says(p, D, y, id, t) /\ id \in DOMAIN p.episodes => Old(y)
  OBVIOUS
<1> HIDE DEF Old
<1>10. \A x \in Carriers(q, E) :
         \/ x = <<"queue", x[2]>> /\ x[2] \in DOMAIN q.queue /\ Says(q, E, x, id, t) = Announces(q.queue[x[2]], id, t)
         \/ x = <<"flight", x[2]>> /\ x[2] \in Running(E) /\ Says(q, E, x, id, t) = Announces(E[x[2]].envelope, id, t)
  BY CarrierFacts DEF CarrierKinds, Says
<1>11. /\ \A k \in DOMAIN q.queue : Announces(q.queue[k], id, t) =>
            \E x \in Carriers(q, E) : Says(q, E, x, id, t)
       /\ \A i \in Running(E) : Announces(E[i].envelope, id, t) =>
            \E x \in Carriers(q, E) : Says(q, E, x, id, t)
  <2>1. ASSUME NEW k \in DOMAIN q.queue, Announces(q.queue[k], id, t)
        PROVE  \E x \in Carriers(q, E) : Says(q, E, x, id, t)
    <3>1. <<"queue", k>> \in Carriers(q, E) /\ Says(q, E, <<"queue", k>>, id, t)
      BY <2>1, CarrierFacts DEF Says
    <3> QED BY <3>1
  <2>2. ASSUME NEW i \in Running(E), Announces(E[i].envelope, id, t)
        PROVE  \E x \in Carriers(q, E) : Says(q, E, x, id, t)
    <3>1. <<"flight", i>> \in Carriers(q, E) /\ Says(q, E, <<"flight", i>>, id, t)
      BY <2>2, CarrierFacts DEF Says
    <3> QED BY <3>1
  <2> QED BY <2>1, <2>2
<1>12. ASSUME t \in MarkedTokens(q.episodes[id]) PROVE \E x \in Carriers(q, E) : Says(q, E, x, id, t)
  BY <1>2, <1>7, <1>8, <1>11, <1>12
<1>13. ASSUME NEW x \in Carriers(q, E), Says(q, E, x, id, t) PROVE t \in MarkedTokens(q.episodes[id])
  <2>1. PICK y : Old(y) /\ \/ \E k \in DOMAIN q.queue : g[k] = y /\ Announces(q.queue[k], id, t)
                           \/ \E i \in Running(E) : h[i] = y /\ Announces(E[i].envelope, id, t)
    BY <1>3, <1>10, <1>13
  <2>2. \A z \in Carriers(p, D) : Says(p, D, z, id, t) => z = y
    BY <1>5, <1>6, <1>9, <2>1
  <2> QED BY <1>2, <1>6, <2>1, <2>2
<1>14. ASSUME NEW x \in Carriers(q, E), NEW y \in Carriers(q, E), Says(q, E, x, id, t), Says(q, E, y, id, t)
       PROVE  x = y
  <2>1. CASE x = <<"queue", x[2]>> /\ x[2] \in DOMAIN q.queue /\ Announces(q.queue[x[2]], id, t)
    <3>1. CASE y = <<"queue", y[2]>> /\ y[2] \in DOMAIN q.queue /\ Announces(q.queue[y[2]], id, t)
      <4>1. x[2] = y[2]
        BY <1>1, <1>3, <1>5, <2>1, <3>1
      <4> QED BY <2>1, <3>1, <4>1
    <3>2. CASE y = <<"flight", y[2]>> /\ y[2] \in Running(E) /\ Announces(E[y[2]].envelope, id, t)
      BY <1>1, <1>3, <1>5, <2>1, <3>2
    <3> QED BY <1>10, <1>14, <3>1, <3>2
  <2>2. CASE x = <<"flight", x[2]>> /\ x[2] \in Running(E) /\ Announces(E[x[2]].envelope, id, t)
    <3>1. CASE y = <<"queue", y[2]>> /\ y[2] \in DOMAIN q.queue /\ Announces(q.queue[y[2]], id, t)
      BY <1>1, <1>3, <1>5, <2>2, <3>1
    <3>2. CASE y = <<"flight", y[2]>> /\ y[2] \in Running(E) /\ Announces(E[y[2]].envelope, id, t)
      <4>1. x[2] = y[2]
        BY <1>1, <1>3, <1>5, <2>2, <3>2
      <4> QED BY <2>2, <3>2, <4>1
    <3> QED BY <1>10, <1>14, <3>1, <3>2
  <2> QED BY <1>10, <1>14, <2>1, <2>2
<1> QED BY <1>12, <1>13, <1>14

(* Episodes are only added, with new numbers, and never come back.         *)
Ages(p, q) ==
  /\ p.count <= q.count
  /\ \A id \in DOMAIN q.episodes :
       IF id \in DOMAIN p.episodes
       THEN /\ KeyOf(q.episodes[id]) = KeyOf(p.episodes[id])
            /\ q.episodes[id].active => p.episodes[id].active
            /\ q.episodes[id].resolved => p.episodes[id].active \/ p.episodes[id].resolved
       ELSE id > p.count

(* A policy that grows ages.                                               *)
LEMMA GrowsAges == ASSUME NEW p, NEW q, Grows(p, q) PROVE Ages(p, q)
  BY DEF Grows, GoesOn, Ages

(* So does one whose queue is worked on.                                   *)
LEMMA KeepsAges == ASSUME NEW p \in Policies, NEW q, Keeps(p, q) PROVE Ages(p, q)
<1>1. p.count \in Nat
  BY PolicyFacts
<1> QED BY <1>1 DEF Keeps, SameLife, KeyOf, Ages

(* The alarms of a letter belong to its rule for ever.                     *)
LEMMA AgesAddressed ==
  ASSUME NEW p \in Policies, NEW q \in Policies, Ages(p, q), NEW env, Addressed(p, env)
  PROVE  Addressed(q, env)
<1>1. p.count \in Nat /\ q.count \in Nat /\ p.count <= q.count
  BY PolicyFacts DEF Ages
<1> SUFFICES ASSUME NEW a \in env.alarms
             PROVE  /\ a.episode \in 1..q.count
                    /\ a.episode \in DOMAIN q.episodes => KeyOf(q.episodes[a.episode]) = <<env.rule, a.channel>>
  BY DEF Addressed
<1>2. /\ a.episode \in 1..p.count
      /\ a.episode \in DOMAIN p.episodes => KeyOf(p.episodes[a.episode]) = <<env.rule, a.channel>>
  BY DEF Addressed
<1>3. a.episode \in DOMAIN q.episodes => a.episode \in DOMAIN p.episodes
  BY <1>1, <1>2 DEF Ages
<1> QED BY <1>1, <1>2, <1>3 DEF Ages

(* What was hushed stays hushed.                                           *)
Silent(p, H) ==
  /\ H \subseteq 1..p.count
  /\ \A id \in H \cap DOMAIN p.episodes :
       ~p.episodes[id].active /\ (Calm => ~p.episodes[id].resolved)

(* What is hushed is never due again.                                      *)
LEMMA AgesSilent ==
  ASSUME NEW p \in Policies, NEW q \in Policies, Ages(p, q), NEW H, Silent(p, H)
  PROVE  Silent(q, H)
<1>1. p.count \in Nat /\ q.count \in Nat /\ p.count <= q.count
  BY PolicyFacts DEF Ages
<1>2. H \subseteq 1..q.count
  BY <1>1 DEF Silent
<1>3. ASSUME NEW id \in H \cap DOMAIN q.episodes
      PROVE  ~q.episodes[id].active /\ (Calm => ~q.episodes[id].resolved)
  <2>1. id \in 1..p.count
    BY DEF Silent
  <2>2. id \in DOMAIN p.episodes
    BY <1>1, <2>1 DEF Ages
  <2> QED BY <2>2 DEF Ages, Silent
<1> QED BY <1>2, <1>3 DEF Silent

(* The letters that are left are letters there were, in new places.        *)
Sifts(p, q, g) ==
  /\ g \in [DOMAIN q.queue -> DOMAIN p.queue]
  /\ \A k \in DOMAIN q.queue : q.queue[k] = p.queue[g[k]]
  /\ \A k, l \in DOMAIN q.queue : g[k] = g[l] => k = l
  /\ \A i \in DOMAIN p.queue, id \in DOMAIN q.episodes, t \in Tokens :
       Announces(p.queue[i], id, t) => \E k \in DOMAIN q.queue : g[k] = i

(* Letters that are left are as good as they were.                         *)
LEMMA SiftedMail ==
  ASSUME NEW p \in Policies, NEW q \in Policies, Ages(p, q), NEW D, Mailed(p, D), NEW g, Sifts(p, q, g)
  PROVE  Mailed(q, D)
<1>1. \A k \in DOMAIN q.queue : g[k] \in DOMAIN p.queue /\ q.queue[k] = p.queue[g[k]]
  BY DEF Sifts
<1>2. \A k \in DOMAIN q.queue : Addressed(q, q.queue[k]) /\ ~q.queue[k].test /\ q.queue[k].attempts < Attempts
  BY <1>1, AgesAddressed DEF Mailed
<1>3. \A i \in DOMAIN D : Addressed(q, D[i].envelope)
  BY AgesAddressed DEF Mailed
<1> QED BY <1>2, <1>3 DEF Mailed

(* And as due.                                                             *)
LEMMA SiftedSpaced ==
  ASSUME NEW p \in Policies, NEW q \in Policies, Ages(p, q), NEW g, Sifts(p, q, g), NEW D, Mailed(p, D),
         NEW t \in Nat, Spaced(p, t),
         \A k \in Triples : q.cooldown[k] <= p.cooldown[k]
  PROVE  Spaced(q, t)
<1> SUFFICES ASSUME NEW i \in DOMAIN q.queue, q.queue[i].attempts = 0, q.queue[i].stage # Resolution,
                    NEW a \in q.queue[i].alarms,
                    a.episode \in DOMAIN q.episodes, q.episodes[a.episode].active
             PROVE  q.cooldown[<<q.queue[i].rule, a.channel, <<q.queue[i].stage, q.queue[i].destination>>>>] <= t
  BY DEF Spaced
<1>1. g[i] \in DOMAIN p.queue /\ q.queue[i] = p.queue[g[i]]
  BY DEF Sifts
<1>2. Addressed(p, q.queue[i])
  BY <1>1 DEF Mailed
<1>3. a.episode \in DOMAIN p.episodes /\ p.episodes[a.episode].active
  <2>1. a.episode \in 1..p.count /\ p.count \in Nat
    BY <1>2, PolicyFacts DEF Addressed
  <2> QED BY <2>1 DEF Ages
<1> DEFINE k == <<q.queue[i].rule, a.channel, <<q.queue[i].stage, q.queue[i].destination>>>>
<1>4. p.cooldown[k] <= t
  BY <1>1, <1>3 DEF Spaced
<1>5. k \in Triples
  <2>1. q.queue[i] \in Letters
    BY PolicyFacts
  <2>2. a.channel \in Channels /\ q.queue[i].rule \in RuleIds /\ q.queue[i].stage \in StageIds
        /\ q.queue[i].destination \in DestinationIds
    BY <2>1 DEF Letters, Alarms
  <2> QED BY <2>2 DEF Triples, Token
<1>6. p.cooldown[k] \in Nat /\ q.cooldown[k] \in Nat /\ q.cooldown[k] <= p.cooldown[k]
  BY <1>5, PolicyFacts
<1> QED BY <1>4, <1>6

(* And in balance with episodes that go on.                                *)
LEMMA GrownBalanced ==
  ASSUME NEW p \in Policies, NEW q \in Policies, Grows(p, q), NEW D, Mailed(p, D), Balanced(p, D), NEW g, Sifts(p, q, g)
  PROVE  Balanced(q, D)
<1> DEFINE gq == [k \in DOMAIN q.queue |-> <<"queue", g[k]>>]
           hf == [i \in Running(D) |-> <<"flight", i>>]
<1>0. /\ g \in [DOMAIN q.queue -> DOMAIN p.queue]
      /\ \A k \in DOMAIN q.queue : q.queue[k] = p.queue[g[k]]
      /\ \A k, l \in DOMAIN q.queue : g[k] = g[l] => k = l
      /\ \A i \in DOMAIN p.queue, id \in DOMAIN q.episodes, t \in Tokens :
           Announces(p.queue[i], id, t) => \E k \in DOMAIN q.queue : g[k] = i
  BY DEF Sifts
<1>1. /\ gq \in [DOMAIN q.queue -> Carriers(p, D)] /\ hf \in [Running(D) -> Carriers(p, D)]
      /\ \A k \in DOMAIN q.queue : gq[k] = <<"queue", g[k]>>
      /\ \A i \in Running(D) : hf[i] = <<"flight", i>>
  <2>1. \A k \in DOMAIN q.queue : <<"queue", g[k]>> \in Carriers(p, D)
    BY <1>0, CarrierFacts
  <2>2. \A i \in Running(D) : <<"flight", i>> \in Carriers(p, D)
    BY CarrierFacts
  <2> QED BY <2>1, <2>2
<1> HIDE DEF gq, hf
<1>2. /\ \A k, l \in DOMAIN q.queue : gq[k] = gq[l] => k = l
      /\ \A i, j \in Running(D) : hf[i] = hf[j] => i = j
      /\ \A k \in DOMAIN q.queue, i \in Running(D) : gq[k] # hf[i]
  <2>1. ASSUME NEW k \in DOMAIN q.queue, NEW l \in DOMAIN q.queue, gq[k] = gq[l] PROVE k = l
    <3>1. <<"queue", g[k]>> = <<"queue", g[l]>>
      BY <1>1, <2>1
    <3>2. g[k] = g[l]
      BY ONLY <3>1
    <3> QED BY <1>0, <3>2
  <2>2. ASSUME NEW i \in Running(D), NEW j \in Running(D), hf[i] = hf[j] PROVE i = j
    <3>1. <<"flight", i>> = <<"flight", j>>
      BY <1>1, <2>2
    <3> QED BY ONLY <3>1
  <2>3. ASSUME NEW k \in DOMAIN q.queue, NEW i \in Running(D) PROVE gq[k] # hf[i]
    BY <1>1
  <2> QED BY <2>1, <2>2, <2>3
<1>4. /\ \A k \in DOMAIN q.queue : \A id, t : Says(p, D, gq[k], id, t) = Announces(q.queue[k], id, t)
      /\ \A i \in Running(D) : \A id, t : Says(p, D, hf[i], id, t) = Announces(D[i].envelope, id, t)
  <2>1. ASSUME NEW k \in DOMAIN q.queue PROVE LetterAt(p, D, gq[k]) = q.queue[k]
    <3>1. g[k] \in DOMAIN p.queue
      BY <1>0
    <3>2. LetterAt(p, D, <<"queue", g[k]>>) = p.queue[g[k]]
      BY <3>1, CarrierFacts
    <3> QED BY <1>0, <1>1, <3>2
  <2>2. ASSUME NEW i \in Running(D) PROVE LetterAt(p, D, hf[i]) = D[i].envelope
    <3>1. hf[i] = <<"flight", i>>
      BY <1>1
    <3>2. LetterAt(p, D, <<"flight", i>>) = D[i].envelope
      BY CarrierFacts
    <3> QED BY <3>1, <3>2
  <2> QED BY <2>1, <2>2 DEF Says
<1>5. \A x \in Carriers(p, D), id \in DOMAIN q.episodes, t \in Tokens :
        Says(p, D, x, id, t) => id \in DOMAIN p.episodes
  <2> TAKE x \in Carriers(p, D), id \in DOMAIN q.episodes, t \in Tokens
  <2> HAVE Says(p, D, x, id, t)
  <2>1. Addressed(p, LetterAt(p, D, x))
    <3>1. CarrierKinds(p, D, x)
      BY CarrierFacts
    <3> QED BY <3>1 DEF CarrierKinds, Mailed, Running
  <2>2. id \in 1..p.count /\ p.count \in Nat
    BY <2>1, PolicyFacts DEF Says, Announces, Addressed
  <2> QED BY <2>2 DEF Grows
<1>6. \A id \in DOMAIN q.episodes :
        MarkedTokens(q.episodes[id]) = IF id \in DOMAIN p.episodes THEN MarkedTokens(p.episodes[id]) ELSE {}
  BY DEF Grows, GoesOn, Unmarked, MarkedTokens
<1>7. \A y \in Carriers(p, D), id \in DOMAIN q.episodes, t \in Tokens :
        Says(p, D, y, id, t) =>
          \/ (\E k \in DOMAIN q.queue : gq[k] = y /\ Announces(q.queue[k], id, t))
          \/ (\E i \in Running(D) : hf[i] = y /\ Announces(D[i].envelope, id, t))
  <2> TAKE y \in Carriers(p, D), id \in DOMAIN q.episodes, t \in Tokens
  <2> HAVE Says(p, D, y, id, t)
  <2>1. CarrierKinds(p, D, y)
    BY CarrierFacts
  <2>2. CASE y[1] = "queue"
    <3>1. y = <<"queue", y[2]>> /\ y[2] \in DOMAIN p.queue /\ Announces(p.queue[y[2]], id, t)
      BY <2>1, <2>2 DEF CarrierKinds, Says
    <3>2. PICK k \in DOMAIN q.queue : g[k] = y[2]
      BY <1>0, <3>1
    <3>3. gq[k] = y
      BY <1>1, <3>1, <3>2
    <3> QED BY <1>4, <3>3
  <2>3. CASE y[1] # "queue"
    <3>1. y = <<"flight", y[2]>> /\ y[2] \in Running(D)
      BY <2>1, <2>3 DEF CarrierKinds
    <3>2. hf[y[2]] = y
      BY <1>1, <3>1
    <3> QED BY <1>4, <3>1, <3>2
  <2> QED BY <2>2, <2>3
<1>8. Transfers(p, D, q, D, gq, hf)
  <2>1. ASSUME NEW id \in DOMAIN q.episodes, NEW t \in Tokens
        PROVE  /\ \A k \in DOMAIN q.queue :
                    Announces(q.queue[k], id, t) => id \in DOMAIN p.episodes /\ Says(p, D, gq[k], id, t)
               /\ \A i \in Running(D) :
                    Announces(D[i].envelope, id, t) => id \in DOMAIN p.episodes /\ Says(p, D, hf[i], id, t)
               /\ t \in MarkedTokens(q.episodes[id]) <=>
                    /\ id \in DOMAIN p.episodes /\ t \in MarkedTokens(p.episodes[id])
                    /\ \A y \in Carriers(p, D) :
                         Says(p, D, y, id, t) =>
                           \/ \E k \in DOMAIN q.queue : gq[k] = y /\ Announces(q.queue[k], id, t)
                           \/ \E i \in Running(D) : hf[i] = y /\ Announces(D[i].envelope, id, t)
    <3>1. \A y \in Carriers(p, D) :
            Says(p, D, y, id, t) =>
              \/ (\E k \in DOMAIN q.queue : gq[k] = y /\ Announces(q.queue[k], id, t))
              \/ (\E i \in Running(D) : hf[i] = y /\ Announces(D[i].envelope, id, t))
      BY <1>7
    <3>2. \A k \in DOMAIN q.queue : gq[k] \in Carriers(p, D)
      BY <1>1
    <3>3. \A i \in Running(D) : hf[i] \in Carriers(p, D)
      BY <1>1
    <3>4. \A k \in DOMAIN q.queue :
                    Announces(q.queue[k], id, t) => id \in DOMAIN p.episodes /\ Says(p, D, gq[k], id, t)
      BY <1>4, <1>5, <3>2, ZenonT(60)
    <3>5. \A i \in Running(D) :
                    Announces(D[i].envelope, id, t) => id \in DOMAIN p.episodes /\ Says(p, D, hf[i], id, t)
      BY <1>4, <1>5, <3>3, ZenonT(60)
    <3> QED BY <1>6, <3>1, <3>4, <3>5
  <2> QED BY <1>1, <1>2, <2>1 DEF Transfers
<1> QED BY <1>8, TransferredBalanced

(* What the episodes of a letter note as queued.                           *)
TokenOf(env) == <<env.stage, env.destination>>

-----------------------------------------------------------------------------
(***************************************************************************)
(* Each operation on the queue.                                            *)
(***************************************************************************)

(* What Released does to an episode.                                       *)
LEMMA ReleasedFacts ==
  ASSUME NEW e \in EpisodeRecord, NEW tokens, NEW f, f = Released(e, tokens)
  PROVE  SameLife(e, f) /\ f.accepted = e.accepted /\ MarkedTokens(f) = MarkedTokens(e) \ tokens
<1> DEFINE R == {d \in e.resolutionQueued : <<Resolution, d>> \notin tokens}
<1>1. f = [e EXCEPT !.queued = e.queued \ tokens, !.resolutionQueued = R]
  BY DEF Released
<1>2. e.queued \in SUBSET Token /\ e.resolutionQueued \in SUBSET DestinationIds
  BY DEF EpisodeRecord
<1>3. e.queued \ tokens \in SUBSET Token /\ R \in SUBSET DestinationIds
  BY <1>2
<1>4. \A d : d \in R <=> d \in e.resolutionQueued /\ <<Resolution, d>> \notin tokens
  OBVIOUS
<1> HIDE DEF R
<1>5. f \in EpisodeRecord
  BY <1>1, <1>3 DEF EpisodeRecord
<1>6. /\ f.queued = e.queued \ tokens /\ f.resolutionQueued = R /\ f.accepted = e.accepted
      /\ f.rule = e.rule /\ f.channel = e.channel /\ f.active = e.active /\ f.waiting = e.waiting
      /\ f.resolved = e.resolved
  BY <1>1 DEF EpisodeRecord
<1>7. MarkedTokens(f) = MarkedTokens(e) \ tokens
  BY <1>4, <1>6 DEF MarkedTokens
<1> QED BY <1>5, <1>6, <1>7 DEF SameLife

(* What Done does to an episode.                                           *)
LEMMA DoneFacts ==
  ASSUME NEW e \in EpisodeRecord, NEW env \in Letters, NEW accepted \in BOOLEAN,
         NEW f, f = Done(e, env, accepted)
  PROVE  /\ SameLife(e, f) /\ MarkedTokens(f) = MarkedTokens(e) \ {TokenOf(env)}
         /\ \A d \in f.accepted : d \in e.accepted \/ (accepted /\ env.stage # Resolution /\ d = env.destination)
<1>1. /\ env.stage \in StageIds \cup {Resolution} /\ env.destination \in DestinationIds
      /\ e.queued \in SUBSET Token /\ e.resolutionQueued \in SUBSET DestinationIds
      /\ e.resolutionDone \in SUBSET DestinationIds /\ e.done \in SUBSET Token /\ e.accepted \in SUBSET DestinationIds
  BY DEF Letters, EpisodeRecord
<1>2. CASE env.stage = Resolution
  <2> DEFINE R == e.resolutionQueued \ {env.destination}
             O == e.resolutionDone \cup {env.destination}
  <2>1. f = [e EXCEPT !.resolutionQueued = R, !.resolutionDone = O]
    BY <1>2 DEF Done
  <2>2. R \in SUBSET DestinationIds /\ O \in SUBSET DestinationIds
    BY <1>1
  <2>3. \A d : d \in R <=> d \in e.resolutionQueued /\ d # env.destination
    OBVIOUS
  <2> HIDE DEF R, O
  <2>4. f \in EpisodeRecord
    BY <2>1, <2>2 DEF EpisodeRecord
  <2>5. /\ f.queued = e.queued /\ f.resolutionQueued = R /\ f.accepted = e.accepted
        /\ f.rule = e.rule /\ f.channel = e.channel /\ f.active = e.active /\ f.waiting = e.waiting
        /\ f.resolved = e.resolved
    BY <2>1 DEF EpisodeRecord
  <2>6. <<Resolution, env.destination>> \notin e.queued
    BY <1>1, PolicyAssumption DEF Token
  <2>7. TokenOf(env) = <<Resolution, env.destination>>
    BY <1>2 DEF TokenOf
  <2>8. MarkedTokens(f) = MarkedTokens(e) \ {TokenOf(env)}
    BY <2>3, <2>5, <2>6, <2>7 DEF MarkedTokens
  <2> QED BY <2>4, <2>5, <2>8 DEF SameLife
<1>3. CASE env.stage # Resolution
  <2> DEFINE Q == e.queued \ {<<env.stage, env.destination>>}
             O == e.done \cup {<<env.stage, env.destination>>}
             A == IF accepted THEN e.accepted \cup {env.destination} ELSE e.accepted
  <2>1. f = [e EXCEPT !.queued = Q, !.done = O, !.accepted = A]
    BY <1>3 DEF Done
  <2>2. Q \in SUBSET Token /\ O \in SUBSET Token /\ A \in SUBSET DestinationIds
    BY <1>1, <1>3 DEF Token
  <2>3. \A d \in A : d \in e.accepted \/ (accepted /\ d = env.destination)
    OBVIOUS
  <2>4. \A t : t \in Q <=> t \in e.queued /\ t # TokenOf(env)
    BY DEF TokenOf
  <2> HIDE DEF Q, O, A
  <2>5. f \in EpisodeRecord
    BY <2>1, <2>2 DEF EpisodeRecord
  <2>6. /\ f.queued = Q /\ f.resolutionQueued = e.resolutionQueued /\ f.accepted = A
        /\ f.rule = e.rule /\ f.channel = e.channel /\ f.active = e.active /\ f.waiting = e.waiting
        /\ f.resolved = e.resolved
    BY <2>1 DEF EpisodeRecord
  <2>7. \A d : <<Resolution, d>> # TokenOf(env)
    BY <1>3 DEF TokenOf
  <2>8. MarkedTokens(f) = MarkedTokens(e) \ {TokenOf(env)}
    BY <2>4, <2>6, <2>7 DEF MarkedTokens
  <2> QED BY <1>3, <2>3, <2>5, <2>6, <2>8 DEF SameLife
<1> QED BY <1>2, <1>3

(* What Marked does to an episode.                                         *)
LEMMA MarkedFacts ==
  ASSUME NEW e \in EpisodeRecord, NEW key \in Key, NEW f, f = Marked(e, key)
  PROVE  SameLife(e, f) /\ f.accepted = e.accepted /\ MarkedTokens(f) = MarkedTokens(e) \cup {<<key[2], key[3]>>}
<1>1. /\ key[2] \in StageIds \cup {Resolution} /\ key[3] \in DestinationIds
      /\ e.queued \in SUBSET Token /\ e.resolutionQueued \in SUBSET DestinationIds
  BY DEF Key, EpisodeRecord
<1>2. CASE key[2] = Resolution
  <2> DEFINE R == e.resolutionQueued \cup {key[3]}
  <2>1. f = [e EXCEPT !.resolutionQueued = R]
    BY <1>2 DEF Marked
  <2>2. R \in SUBSET DestinationIds /\ \A d : d \in R <=> d \in e.resolutionQueued \/ d = key[3]
    BY <1>1
  <2> HIDE DEF R
  <2>3. f \in EpisodeRecord
    BY <2>1, <2>2 DEF EpisodeRecord
  <2>4. /\ f.queued = e.queued /\ f.resolutionQueued = R /\ f.accepted = e.accepted
        /\ f.rule = e.rule /\ f.channel = e.channel /\ f.active = e.active /\ f.waiting = e.waiting
        /\ f.resolved = e.resolved
    BY <2>1 DEF EpisodeRecord
  <2>5. MarkedTokens(f) = MarkedTokens(e) \cup {<<key[2], key[3]>>}
    BY <1>2, <2>2, <2>4 DEF MarkedTokens
  <2> QED BY <2>3, <2>4, <2>5 DEF SameLife
<1>3. CASE key[2] # Resolution
  <2> DEFINE Q == e.queued \cup {<<key[2], key[3]>>}
  <2>1. f = [e EXCEPT !.queued = Q]
    BY <1>3 DEF Marked
  <2>2. Q \in SUBSET Token
    BY <1>1, <1>3 DEF Token
  <2>3. f \in EpisodeRecord
    <3> HIDE DEF Q
    <3> QED BY <2>1, <2>2 DEF EpisodeRecord
  <2>4. /\ f.queued = Q /\ f.resolutionQueued = e.resolutionQueued /\ f.accepted = e.accepted
        /\ f.rule = e.rule /\ f.channel = e.channel /\ f.active = e.active /\ f.waiting = e.waiting
        /\ f.resolved = e.resolved
    <3> HIDE DEF Q
    <3> QED BY <2>1 DEF EpisodeRecord
  <2>5. MarkedTokens(f) = MarkedTokens(e) \cup {<<key[2], key[3]>>}
    BY <2>4 DEF MarkedTokens
  <2> QED BY <2>3, <2>4, <2>5 DEF SameLife
<1> QED BY <1>2, <1>3

(* Every episode is written anew.                                          *)
Rewrites(p, q, f) ==
  /\ Keeps(p, q) /\ q.episodes = f /\ SameMail(p, q) /\ q.next = p.next /\ q.batch = p.batch

(* Every episode is written anew and keeps its life.                       *)
LEMMA RewrittenKeeps ==
  ASSUME NEW p, Sound(p), NEW f, f = [id \in DOMAIN p.episodes |-> f[id]],
         \A id \in DOMAIN p.episodes : SameLife(p.episodes[id], f[id]),
         NEW b \in BOOLEAN,
         NEW q, q = [p EXCEPT !.episodes = f, !.throttled = b]
  PROVE  Rewrites(p, q, f)
<1>0. p \in Policies /\ p.episodes \in Episodes /\ p.resolvedEnded \in [Channels -> SUBSET Nat] /\ Numbered(p)
  BY PolicyFacts DEF Sound
<1>1. f \in Episodes /\ DOMAIN f = DOMAIN p.episodes
  <2>1. \A id \in DOMAIN p.episodes : f[id] \in EpisodeRecord
    BY DEF SameLife
  <2>2. f \in [DOMAIN p.episodes -> EpisodeRecord]
    BY <2>1
  <2> QED BY <1>0, <2>2, EpisodesFacts
<1>2. q \in Policies
  BY <1>0, <1>1 DEF Policies
<1>3. /\ q.enabled = p.enabled /\ q.configuration = p.configuration /\ q.settings = p.settings
      /\ q.known = p.known /\ q.channels = p.channels /\ q.episodes = f /\ q.count = p.count
      /\ q.current = p.current /\ q.resolvedEnded = p.resolvedEnded /\ q.cooldown = p.cooldown
      /\ q.queue = p.queue /\ q.next = p.next /\ q.batch = p.batch
  BY <1>0 DEF Policies
<1>4. SameRules(p, q) /\ SameSight(p, q) /\ SameMail(p, q)
  BY <1>3 DEF SameRules, SameSight, SameMail
<1>5. \A c \in Channels : q.resolvedEnded[c] = p.resolvedEnded[c] \cap DOMAIN q.episodes
  BY <1>0, <1>1, <1>3 DEF Numbered
<1>6. Emptied(q)
  BY <1>1, <1>3 DEF Sound, Emptied
<1> QED BY <1>1, <1>2, <1>3, <1>4, <1>5, <1>6 DEF Keeps, Rewrites

(* Some ended episodes are dropped.                                        *)
Forgets(p, q, ids) ==
  /\ Keeps(p, q) /\ SameMail(p, q) /\ DOMAIN q.episodes = DOMAIN p.episodes \ ids
  /\ \A id \in DOMAIN q.episodes : q.episodes[id] = p.episodes[id]

(* Ended episodes may be dropped.                                          *)
LEMMA ForgottenKeeps ==
  ASSUME NEW p, Sound(p), NEW ids, \A id \in DOMAIN p.episodes : id \in ids => ~p.episodes[id].active,
         NEW q, q = Forget(p, ids)
  PROVE  Forgets(p, q, ids)
<1> DEFINE f == Restrict(p.episodes, DOMAIN p.episodes \ ids)
           g == [c \in Channels |-> p.resolvedEnded[c] \ ids]
<1>0. p \in Policies /\ p.episodes \in Episodes /\ p.resolvedEnded \in [Channels -> SUBSET Nat] /\ Numbered(p)
  BY PolicyFacts DEF Sound
<1>1. f \in Episodes /\ DOMAIN f = DOMAIN p.episodes \ ids /\ \A x \in DOMAIN f : f[x] = p.episodes[x]
  <2> DEFINE S == DOMAIN p.episodes \ ids
  <2>1. f = [x \in S |-> p.episodes[x]]
    BY DEF Restrict
  <2>2. S \in SUBSET Nat /\ \A x \in S : p.episodes[x] \in EpisodeRecord
    BY <1>0, EpisodesFacts
  <2> HIDE DEF S, f
  <2>3. f \in [S -> EpisodeRecord]
    BY <2>1, <2>2
  <2>4. f \in Episodes /\ DOMAIN f = S
    BY <2>2, <2>3, EpisodesFacts
  <2>5. \A x \in S : f[x] = p.episodes[x]
    BY <2>1
  <2> QED BY <2>4, <2>5 DEF S
<1>2. g \in [Channels -> SUBSET Nat] /\ \A c \in Channels : g[c] = p.resolvedEnded[c] \ ids
  BY <1>0
<1>3. q = [p EXCEPT !.episodes = f, !.resolvedEnded = g]
  BY DEF Forget
<1> HIDE DEF f, g
<1>4. q \in Policies
  BY <1>0, <1>1, <1>2, <1>3 DEF Policies
<1>5. /\ q.enabled = p.enabled /\ q.configuration = p.configuration /\ q.settings = p.settings
      /\ q.known = p.known /\ q.channels = p.channels /\ q.episodes = f /\ q.count = p.count
      /\ q.current = p.current /\ q.resolvedEnded = g /\ q.cooldown = p.cooldown
      /\ q.queue = p.queue
  BY <1>0, <1>3 DEF Policies
<1>6. SameRules(p, q) /\ SameSight(p, q) /\ SameMail(p, q)
  BY <1>5 DEF SameRules, SameSight, SameMail
<1>7. \A c \in Channels : q.resolvedEnded[c] = p.resolvedEnded[c] \cap DOMAIN q.episodes
  BY <1>1, <1>2, <1>5, <1>0 DEF Numbered
<1>8. Emptied(q)
  BY <1>1, <1>5 DEF Sound, Emptied
<1>9. \A id \in DOMAIN f : SameLife(p.episodes[id], f[id])
  BY <1>0, <1>1, EpisodeFacts DEF SameLife
<1> QED BY <1>1, <1>4, <1>5, <1>6, <1>7, <1>8, <1>9 DEF Keeps, Forgets

(* Episodes that ended and that nothing is queued for are dropped          *)
(* (cleanup).                                                              *)
Collects(p, q) ==
  /\ Keeps(p, q) /\ SameMail(p, q) /\ DOMAIN q.episodes \subseteq DOMAIN p.episodes
  /\ \A id \in DOMAIN q.episodes : q.episodes[id] = p.episodes[id]

(* cleanup.                                                                *)
LEMMA CollectedKeeps ==
  ASSUME NEW p, Sound(p), NEW q, q = Collected(p)
  PROVE  Collects(p, q)
<1> DEFINE resolves(e) == /\ e.resolved /\ HasRule(p, e.rule) /\ RuleOf(p, e.rule).resolution
                          /\ e.accepted \ e.resolutionDone # {}
           ids == {id \in DOMAIN p.episodes :
                     LET e == p.episodes[id]
                     IN  ~e.active /\ e.queued = {} /\ e.resolutionQueued = {} /\ ~resolves(e)}
<1>1. q = Forget(p, ids)
  BY DEF Collected
<1>2. \A id \in DOMAIN p.episodes : id \in ids => ~p.episodes[id].active
  OBVIOUS
<1> HIDE DEF ids
<1>3. Forgets(p, q, ids)
  BY <1>1, <1>2, ForgottenKeeps
<1> QED BY <1>3 DEF Forgets, Collects

(* Resolutions that are no longer due are taken back.                      *)
Cancels(p, q) ==
  /\ Keeps(p, q) /\ SameMail(p, q) /\ DOMAIN q.episodes = DOMAIN p.episodes
  /\ \A id \in DOMAIN q.episodes :
       LET e == p.episodes[id]
           f == q.episodes[id]
       IN  f.accepted = e.accepted /\ f.queued = e.queued /\ f.resolutionQueued = e.resolutionQueued

(* What Unresolved does to an episode.                                     *)
LEMMA UnresolvedFacts ==
  ASSUME NEW e \in EpisodeRecord, NEW f, f = Unresolved(e)
  PROVE  SameLife(e, f) /\ f.accepted = e.accepted /\ f.queued = e.queued /\ f.resolutionQueued = e.resolutionQueued
<1>1. f = [e EXCEPT !.resolved = FALSE]
  BY DEF Unresolved
<1> QED BY <1>1 DEF EpisodeRecord, SameLife

(* An episode that is not written.                                         *)
LEMMA SameLifeSelf == ASSUME NEW e \in EpisodeRecord PROVE SameLife(e, e)
  BY DEF SameLife

(* Resolutions without a destination that accepted the alarm are taken     *)
(* back.                                                                   *)
LEMMA CancellingKeeps ==
  ASSUME NEW p, Sound(p), NEW q, q = Cancelling(p)
  PROVE  Cancels(p, q)
<1> DEFINE one(id) == IF ~p.episodes[id].active /\ p.channels[p.episodes[id].channel].suppressed
                      THEN Unresolved(p.episodes[id]) ELSE p.episodes[id]
           f == [id \in DOMAIN p.episodes |-> one(id)]
<1>1. \A id \in DOMAIN p.episodes :
        LET e == p.episodes[id]
        IN  /\ SameLife(e, one(id)) /\ one(id).accepted = e.accepted /\ one(id).queued = e.queued
            /\ one(id).resolutionQueued = e.resolutionQueued
  <2> TAKE id \in DOMAIN p.episodes
  <2>1. p.episodes[id] \in EpisodeRecord
    BY EpisodeFacts DEF Sound
  <2>2. one(id) = Unresolved(p.episodes[id]) \/ one(id) = p.episodes[id]
    OBVIOUS
  <2> HIDE DEF one
  <2> QED BY <2>1, <2>2, UnresolvedFacts, SameLifeSelf
<1>2. q = [p EXCEPT !.episodes = f, !.throttled = FALSE]
  BY Zenon DEF Cancelling
<1> HIDE DEF one
<1>3. DOMAIN f = DOMAIN p.episodes /\ f = [id \in DOMAIN p.episodes |-> f[id]]
      /\ \A id \in DOMAIN p.episodes : f[id] = one(id)
  OBVIOUS
<1> HIDE DEF f
<1>4. Rewrites(p, q, f)
  BY <1>1, <1>2, <1>3, RewrittenKeeps
<1> QED BY <1>1, <1>3, <1>4, SMTT(30) DEF Rewrites, Cancels

(* The marks of alarms that no longer hold are taken back.                 *)
Revises(p, q, envs) ==
  /\ Keeps(p, q) /\ SameMail(p, q) /\ DOMAIN q.episodes = DOMAIN p.episodes /\ q.next = p.next
  /\ \A id \in DOMAIN q.episodes :
       /\ q.episodes[id].accepted = p.episodes[id].accepted
       /\ MarkedTokens(q.episodes[id]) = MarkedTokens(p.episodes[id]) \ Stale(p, envs, id)

(* The marks of stale alarms are taken back.                               *)
LEMMA RevalidatedKeeps ==
  ASSUME NEW p, Sound(p), NEW envs, NEW q, q = RevalidatedPolicy(p, envs)
  PROVE  Revises(p, q, envs)
<1>1. CASE ~p.enabled
  <2>1. q = p /\ DOMAIN p.episodes = {} /\ Emptied(p) /\ p \in Policies /\ Numbered(p)
    BY <1>1 DEF RevalidatedPolicy, Sound, Emptied
  <2>2. p.resolvedEnded \in [Channels -> SUBSET Nat]
    BY <2>1, PolicyFacts
  <2>3. Keeps(p, p)
    BY <2>1, <2>2 DEF Keeps, SameRules, SameSight, Numbered
  <2> QED BY <2>1, <2>3 DEF Revises, SameMail
<1>2. CASE p.enabled
  <2> DEFINE one(id) == Released(p.episodes[id], Stale(p, envs, id))
             f == [id \in DOMAIN p.episodes |-> one(id)]
             b == p.throttled
  <2>1. \A id \in DOMAIN p.episodes :
          LET e == p.episodes[id]
          IN  /\ SameLife(e, one(id)) /\ one(id).accepted = e.accepted
              /\ MarkedTokens(one(id)) = MarkedTokens(e) \ Stale(p, envs, id)
    <3> TAKE id \in DOMAIN p.episodes
    <3>1. p.episodes[id] \in EpisodeRecord
      BY EpisodeFacts DEF Sound
    <3>2. one(id) = Released(p.episodes[id], Stale(p, envs, id))
      OBVIOUS
    <3> HIDE DEF one
    <3> QED BY <3>1, <3>2, ReleasedFacts
  <2>2. q = [p EXCEPT !.episodes = f]
    BY <1>2, Zenon DEF RevalidatedPolicy
  <2> HIDE DEF one
  <2>3. DOMAIN f = DOMAIN p.episodes /\ f = [id \in DOMAIN p.episodes |-> f[id]]
        /\ \A id \in DOMAIN p.episodes : f[id] = one(id)
    OBVIOUS
  <2> HIDE DEF f
  <2>4. q = [p EXCEPT !.episodes = f, !.throttled = b] /\ b \in BOOLEAN
    BY <2>2 DEF Sound, Policies
  <2> HIDE DEF b
  <2>5. Rewrites(p, q, f)
    BY <2>1, <2>3, <2>4, RewrittenKeeps
  <2> QED BY <2>1, <2>3, <2>5 DEF Rewrites, Revises
<1> QED BY <1>1, <1>2

(* A letter is about an episode.                                           *)
Hits(env, id) == ~env.test /\ \E a \in env.alarms : a.episode = id

(* The alarms of a letter are done with (complete).                        *)
Completes(p, q, env, accepted) ==
  /\ Keeps(p, q) /\ SameMail(p, q) /\ DOMAIN q.episodes \subseteq DOMAIN p.episodes
  /\ \A id \in DOMAIN q.episodes :
       LET e == p.episodes[id]
           f == q.episodes[id]
       IN  /\ MarkedTokens(f) = IF Hits(env, id) THEN MarkedTokens(e) \ {TokenOf(env)} ELSE MarkedTokens(e)
           /\ \A d \in f.accepted : d \in e.accepted
                \/ (Hits(env, id) /\ accepted /\ env.stage # Resolution /\ d = env.destination)

(* complete.                                                               *)
LEMMA CompletedKeeps ==
  ASSUME NEW p, Sound(p), NEW env \in Letters, NEW accepted \in BOOLEAN,
         NEW q, q = Completed(p, env, accepted)
  PROVE  Completes(p, q, env, accepted)
<1> DEFINE one(id) == IF Hits(env, id) THEN Done(p.episodes[id], env, accepted) ELSE p.episodes[id]
           f == [id \in DOMAIN p.episodes |-> one(id)]
           b == p.throttled
           m == [p EXCEPT !.episodes = f]
<1>1. \A id \in DOMAIN p.episodes :
        LET e == p.episodes[id]
        IN  /\ SameLife(e, one(id))
            /\ MarkedTokens(one(id)) = IF Hits(env, id) THEN MarkedTokens(e) \ {TokenOf(env)} ELSE MarkedTokens(e)
            /\ \A d \in one(id).accepted : d \in e.accepted
                 \/ (Hits(env, id) /\ accepted /\ env.stage # Resolution /\ d = env.destination)
  <2> TAKE id \in DOMAIN p.episodes
  <2>1. p.episodes[id] \in EpisodeRecord
    BY EpisodeFacts DEF Sound
  <2>2. one(id) = IF Hits(env, id) THEN Done(p.episodes[id], env, accepted) ELSE p.episodes[id]
    OBVIOUS
  <2> HIDE DEF one
  <2>3. CASE Hits(env, id)
    <3>1. one(id) = Done(p.episodes[id], env, accepted)
      BY <2>2, <2>3
    <3> QED BY <2>1, <2>3, <3>1, DoneFacts
  <2>4. CASE ~Hits(env, id)
    BY <2>1, <2>2, <2>4, SameLifeSelf
  <2> QED BY <2>3, <2>4
<1>2. q = Collected(m)
  BY DEF Completed, Hits
<1> HIDE DEF one
<1>3. DOMAIN f = DOMAIN p.episodes /\ f = [id \in DOMAIN p.episodes |-> f[id]]
      /\ \A id \in DOMAIN p.episodes : f[id] = one(id)
  OBVIOUS
<1> HIDE DEF f
<1>4. m = [p EXCEPT !.episodes = f, !.throttled = b] /\ b \in BOOLEAN
  BY DEF Sound, Policies
<1> HIDE DEF b, m
<1>5. Rewrites(p, m, f)
  BY <1>1, <1>3, <1>4, RewrittenKeeps
<1>6. Sound(m)
  BY <1>5, KeepsSound DEF Rewrites, KeepsSoundOp
<1>7. Collects(m, q)
  BY <1>2, <1>6, CollectedKeeps
<1>8. Keeps(p, q)
  BY <1>5, <1>7, KeepsTrans DEF Rewrites, Collects
<1>9. \A id \in DOMAIN q.episodes : q.episodes[id] = one(id) /\ id \in DOMAIN p.episodes
  BY <1>3, <1>5, <1>7 DEF Rewrites, Collects
<1>10. SameMail(p, q)
  BY <1>5, <1>7 DEF Rewrites, Collects, SameMail
<1> QED BY <1>1, <1>8, <1>9, <1>10 DEF Completes

(* The cooldowns that the first attempt at a letter starts.                *)
Silences(p, env, k) ==
  /\ ~(env.attempts > 1) /\ env.stage # Resolution /\ ~env.test /\ HasRule(p, env.rule)
  /\ k[1] = env.rule /\ k[3] = TokenOf(env) /\ \E a \in env.alarms : a.channel = k[2]

(* The first attempt at a letter silences what it announces                *)
(* (markAttempted).                                                        *)
Paces(p, q, env, t) ==
  /\ Keeps(p, q) /\ q.queue = p.queue /\ q.episodes = p.episodes
  /\ \A k \in Triples : q.cooldown[k] = IF Silences(p, env, k) THEN t + RuleOf(p, env.rule).cooldown ELSE p.cooldown[k]

(* markAttempted.                                                          *)
LEMMA AttemptedKeeps ==
  ASSUME NEW p, Sound(p), NEW env \in Letters, NEW t \in Nat, NEW q, q = Attempted(p, env, t)
  PROVE  Paces(p, q, env, t)
<1> DEFINE n == [p.next EXCEPT ![env.destination] = t + PacingDelay]
           quiets == ~(env.attempts > 1 \/ env.stage = Resolution \/ env.test \/ ~HasRule(p, env.rule))
           cd == IF quiets
                 THEN [k \in Triples |->
                         IF /\ k[1] = env.rule /\ k[3] = <<env.stage, env.destination>>
                            /\ \E a \in env.alarms : a.channel = k[2]
                         THEN t + RuleOf(p, env.rule).cooldown ELSE p.cooldown[k]]
                 ELSE p.cooldown
<1>0. /\ p \in Policies /\ p.next \in [DestinationIds -> Nat] /\ p.cooldown \in [Triples -> Nat]
      /\ p.resolvedEnded \in [Channels -> SUBSET Nat] /\ Numbered(p) /\ env.destination \in DestinationIds
      /\ DOMAIN p.cooldown = Triples /\ PacingDelay \in Nat
  BY PolicyFacts, PolicyAssumption DEF Sound, Letters
<1>1. n \in [DestinationIds -> Nat]
  BY <1>0
<1>2. cd \in [Triples -> Nat]
  <2>1. CASE quiets
    <3>1. RuleOf(p, env.rule).cooldown \in Nat
      BY <1>0, <2>1, RuleFacts
    <3>2. t + RuleOf(p, env.rule).cooldown \in Nat
      BY <3>1
    <3> QED BY <1>0, <2>1, <3>2
  <2>2. CASE ~quiets
    BY <1>0, <2>2
  <2> QED BY <2>1, <2>2
<1>3. \A k \in Triples : cd[k] = IF Silences(p, env, k) THEN t + RuleOf(p, env.rule).cooldown ELSE p.cooldown[k]
  BY <1>0 DEF Silences, TokenOf
<1>4. q = [p EXCEPT !.next = n, !.cooldown = cd]
  <2> DEFINE paced == [p EXCEPT !.next = n]
  <2>1. q = IF ~quiets THEN paced
            ELSE [paced EXCEPT !.cooldown = [k \in DOMAIN @ |->
                   IF /\ k[1] = env.rule /\ k[3] = <<env.stage, env.destination>>
                      /\ \E a \in env.alarms : a.channel = k[2]
                   THEN t + RuleOf(p, env.rule).cooldown ELSE @[k]]]
    BY Zenon DEF Attempted
  <2>2. paced.cooldown = p.cooldown
    BY <1>0 DEF Policies
  <2>3. CASE quiets
    BY <1>0, <2>1, <2>2, <2>3
  <2>4. CASE ~quiets
    <3>1. q = paced /\ cd = p.cooldown
      BY <2>1, <2>4
    <3> HIDE DEF cd, n, quiets
    <3> QED BY <1>0, <3>1 DEF Policies
  <2> QED BY <2>3, <2>4
<1> HIDE DEF n, cd, quiets
<1>5. q \in Policies
  BY <1>0, <1>1, <1>2, <1>4 DEF Policies
<1>6. /\ q.enabled = p.enabled /\ q.configuration = p.configuration /\ q.settings = p.settings
      /\ q.known = p.known /\ q.channels = p.channels /\ q.episodes = p.episodes /\ q.count = p.count
      /\ q.current = p.current /\ q.resolvedEnded = p.resolvedEnded /\ q.cooldown = cd
      /\ q.queue = p.queue
  BY <1>0, <1>4 DEF Policies
<1>7. SameRules(p, q) /\ SameSight(p, q) /\ Emptied(q)
  BY <1>6 DEF Sound, SameRules, SameSight, Emptied
<1>8. \A c \in Channels : q.resolvedEnded[c] = p.resolvedEnded[c] \cap DOMAIN q.episodes
  BY <1>0, <1>6 DEF Numbered
<1>9. \A id \in DOMAIN q.episodes : SameLife(p.episodes[id], q.episodes[id])
  BY <1>0, <1>6, EpisodeFacts, SameLifeSelf
<1> QED BY <1>3, <1>5, <1>6, <1>7, <1>8, <1>9 DEF Keeps, Paces

(* Whether an alarm of an envelope still holds depends on its episode.     *)
Good(p, env, id) == StillValid(p, env, [episode |-> id])

(* It does not depend on the rest of the alarm.                            *)
LEMMA GoodFacts == \A p, env, a : StillValid(p, env, a) = Good(p, env, a.episode)
  BY DEF Good, StillValid

(* What is stale was announced and no longer holds.                        *)
LEMMA StaleFacts ==
  \A p, envs, id, t :
    t \in Stale(p, envs, id) <=> \E x \in envs : Announces(x, id, t) /\ ~Good(p, x, id)
<1> TAKE p, envs, id, t
<1>1. t \in Stale(p, envs, id) <=>
        \E x \in envs : /\ ~x.test /\ t = <<x.stage, x.destination>>
                        /\ \E a \in x.alarms : a.episode = id /\ ~StillValid(p, x, a)
  BY DEF Stale
<1> QED BY <1>1, GoodFacts DEF Announces

-----------------------------------------------------------------------------
(***************************************************************************)
(* Revalidation and takes.                                                 *)
(***************************************************************************)

(* A revalidated envelope says the same of the alarms that still hold.     *)
Trimmed(p, env, f) ==
  /\ f \in Letters /\ f.rule = env.rule /\ f.stage = env.stage /\ f.destination = env.destination
  /\ f.attempts = env.attempts /\ f.ready = env.ready /\ f.test = env.test
  /\ \A a \in f.alarms : \E b \in env.alarms : b.episode = a.episode /\ b.channel = a.channel
  /\ \A id, t : Announces(f, id, t) <=> Announces(env, id, t) /\ (p.enabled => Good(p, env, id))
  /\ p.enabled /\ ~env.test => \A a \in f.alarms : Good(p, env, a.episode)

(* revalidate trims a letter.                                              *)
LEMMA RevalidatedTrimmed ==
  ASSUME NEW p \in Policies, NEW env \in Letters, NEW f, f = Revalidated(p, env)
  PROVE  Trimmed(p, env, f)
<1>1. CASE env.test \/ ~p.enabled
  BY <1>1 DEF Revalidated, Trimmed, Announces
<1>2. CASE ~env.test /\ p.enabled
  <2> DEFINE keep == {x \in env.alarms : StillValid(p, env, x)}
             now2 == {[a EXCEPT !.state = p.episodes[a.episode].state] : a \in keep}
  <2>1. f = [env EXCEPT !.alarms = now2]
    BY <1>2 DEF Revalidated
  <2>2. env.alarms \in SUBSET Alarms
    BY DEF Letters
  <2>3. \A a \in keep : a \in env.alarms /\ Good(p, env, a.episode) /\ a.episode \in DOMAIN p.episodes
    BY GoodFacts DEF StillValid
  <2>4. \A a \in env.alarms : Good(p, env, a.episode) => a \in keep
    BY GoodFacts
  <2> HIDE DEF keep
  <2>5. \A a \in keep : LET b == [a EXCEPT !.state = p.episodes[a.episode].state]
                        IN  b \in Alarms /\ b.episode = a.episode /\ b.channel = a.channel
    <3> TAKE a \in keep
    <3>1. a \in Alarms /\ p.episodes[a.episode].state \in Update
      BY <2>2, <2>3, EpisodeFacts DEF EpisodeRecord
    <3> QED BY <3>1 DEF Alarms
  <2>6. now2 \in SUBSET Alarms
    BY <2>5
  <2>7. \A b \in now2 : \E a \in keep : b.episode = a.episode /\ b.channel = a.channel
    BY <2>5
  <2>8. \A a \in keep : \E b \in now2 : b.episode = a.episode
    BY <2>5
  <2> HIDE DEF now2
  <2>9. f \in Letters /\ f.alarms = now2 /\ f.rule = env.rule /\ f.stage = env.stage /\ f.test = env.test
        /\ f.destination = env.destination /\ f.attempts = env.attempts /\ f.ready = env.ready
    BY <2>1, <2>6 DEF Letters
  <2>10. \A a \in f.alarms : \E b \in env.alarms :
            b.episode = a.episode /\ b.channel = a.channel /\ Good(p, env, a.episode)
    <3> TAKE a \in f.alarms
    <3>1. PICK b \in keep : a.episode = b.episode /\ a.channel = b.channel
      BY <2>7, <2>9
    <3> QED BY <2>3, <3>1
  <2>11. \A id, t : Announces(f, id, t) <=> Announces(env, id, t) /\ Good(p, env, id)
    <3> TAKE id, t
    <3>1. (\E a \in f.alarms : a.episode = id) <=> (\E a \in env.alarms : a.episode = id) /\ Good(p, env, id)
      <4>1. (\E a \in env.alarms : a.episode = id) /\ Good(p, env, id) => \E a \in f.alarms : a.episode = id
        BY <2>4, <2>8, <2>9
      <4>2. (\E a \in f.alarms : a.episode = id) => (\E a \in env.alarms : a.episode = id) /\ Good(p, env, id)
        BY <2>10
      <4> QED BY <4>1, <4>2
    <3> QED BY <2>9, <3>1 DEF Announces
  <2> QED BY <1>2, <2>9, <2>10, <2>11 DEF Trimmed
<1> QED BY <1>1, <1>2

(* What is left belongs to the rule of the letter.                         *)
LEMMA TrimmedAddressed ==
  ASSUME NEW p, NEW env, NEW f, Trimmed(p, env, f), NEW q, Addressed(q, env)
  PROVE  Addressed(q, f)
  BY DEF Trimmed, Addressed

(* A letter is worth sending while one of its alarms holds.                *)
LEMMA WorthFacts ==
  ASSUME NEW p \in Policies, NEW env \in Letters, ~env.test
  PROVE  WorthSending(p, env) <=> p.enabled /\ \E a \in env.alarms : Good(p, env, a.episode)
<1>1. WorthSending(p, env) <=> p.enabled /\ Revalidated(p, env).alarms # {}
  BY DEF WorthSending
<1>2. p.enabled => Revalidated(p, env).alarms =
        {[a EXCEPT !.state = p.episodes[a.episode].state] : a \in {x \in env.alarms : StillValid(p, env, x)}}
  BY DEF Revalidated, Letters
<1> QED BY <1>1, <1>2, GoodFacts

(* A new queue, and nothing else.                                          *)
Requeues(p, q, Q) ==
  /\ Keeps(p, q) /\ q.queue = Q /\ q.cooldown = p.cooldown /\ q.episodes = p.episodes
  /\ q.next = p.next /\ q.batch = p.batch

(* A new queue keeps the episodes.                                         *)
LEMMA RequeuedKeeps ==
  ASSUME NEW p, Sound(p), NEW Q \in Seq(Letters), p.enabled \/ Q = <<>>,
         NEW q, q = [p EXCEPT !.queue = Q]
  PROVE  Requeues(p, q, Q)
<1>0. p \in Policies /\ p.resolvedEnded \in [Channels -> SUBSET Nat] /\ Numbered(p)
  BY PolicyFacts DEF Sound
<1>1. q \in Policies
  BY <1>0 DEF Policies
<1>2. /\ q.enabled = p.enabled /\ q.configuration = p.configuration /\ q.settings = p.settings
      /\ q.known = p.known /\ q.channels = p.channels /\ q.episodes = p.episodes /\ q.count = p.count
      /\ q.current = p.current /\ q.resolvedEnded = p.resolvedEnded /\ q.cooldown = p.cooldown
      /\ q.queue = Q /\ q.next = p.next /\ q.batch = p.batch
  BY <1>0 DEF Policies
<1>3. SameRules(p, q) /\ SameSight(p, q)
  BY <1>2 DEF SameRules, SameSight
<1>4. \A c \in Channels : q.resolvedEnded[c] = p.resolvedEnded[c] \cap DOMAIN q.episodes
  BY <1>0, <1>2 DEF Numbered
<1>5. Emptied(q)
  BY <1>2 DEF Sound, Emptied
<1>6. \A id \in DOMAIN q.episodes : SameLife(p.episodes[id], q.episodes[id])
  BY <1>0, <1>2, EpisodeFacts, SameLifeSelf
<1> QED BY <1>1, <1>2, <1>3, <1>4, <1>5, <1>6 DEF Keeps, Requeues

(* The first letter that can be taken is a place of the queue.             *)
LEMMA FirstFacts ==
  ASSUME NEW p \in Policies, NEW t, NEW first, first = FirstTakeable(p, t)
  PROVE  /\ first \in 0..Len(p.queue) /\ Len(p.queue) \in Nat
         /\ first # 0 => Takeable(p, first, t)
<1> DEFINE is == {i \in 1..Len(p.queue) : Takeable(p, i, t)}
<1>0. Len(p.queue) \in Nat
  BY PolicyFacts
<1>1. first = IF is = {} THEN 0 ELSE Min(is)
  BY DEF FirstTakeable
<1>2. CASE is = {}
  BY <1>0, <1>1, <1>2
<1>3. CASE is # {}
  <2>1. is \in SUBSET (1..Len(p.queue)) /\ is \subseteq Int
    BY <1>0
  <2>2. IsFiniteSet(is)
    <3>1. IsFiniteSet(1..Len(p.queue))
      BY <1>0, FS_Interval
    <3> HIDE DEF is
    <3> QED BY <2>1, <3>1, FS_Subset
  <2>3. Min(is) \in is
    <3> HIDE DEF is
    <3> QED BY <1>3, <2>1, <2>2, FiniteExtremes
  <2> QED BY <1>0, <1>1, <1>3, <2>1, <2>3
<1> QED BY <1>2, <1>3

(* The last place that is looked at by a take: the one that is taken, or   *)
(* the end of the queue.                                                   *)
TakenLast(p, first) == IF first = 0 THEN Len(p.queue) ELSE first

(* What a place announces after the letters before it were revalidated.    *)
Stays(p, i, last, id, s) == Announces(p.queue[i], id, s) /\ (i <= last => Good(p, p.queue[i], id))

(* A take drops letters that nobody needs and the one it returns           *)
(* (takeNext).                                                             *)
Takes(p, q, first, g) ==
  LET last == TakenLast(p, first)
  IN
  /\ Keeps(p, q) /\ q.cooldown = p.cooldown /\ DOMAIN q.episodes = DOMAIN p.episodes
  /\ \A id \in DOMAIN q.episodes :
       /\ q.episodes[id].accepted = p.episodes[id].accepted
       /\ \A s : s \in MarkedTokens(q.episodes[id]) <=>
            /\ s \in MarkedTokens(p.episodes[id])
            /\ \A i \in DOMAIN p.queue : Announces(p.queue[i], id, s) => Stays(p, i, last, id, s)
  /\ g \in [DOMAIN q.queue -> DOMAIN p.queue]
  /\ \A k \in DOMAIN q.queue : g[k] # first
  /\ \A k, l \in DOMAIN q.queue : g[k] = g[l] => k = l
  /\ \A k \in DOMAIN q.queue : q.queue[k] = p.queue[g[k]] \/ Trimmed(p, p.queue[g[k]], q.queue[k])
  /\ \A k \in DOMAIN q.queue : \A id, s : Announces(q.queue[k], id, s) <=> Stays(p, g[k], last, id, s)
  /\ \A i \in DOMAIN p.queue : \A id, s : i # first /\ Stays(p, i, last, id, s) => \E k \in DOMAIN q.queue : g[k] = i
  /\ Len(q.queue) <= Len(p.queue) /\ (first # 0 => Len(q.queue) + 1 <= Len(p.queue))

(* takeNext, with the places that remain.                                  *)
LEMMA AfterTakeTakes ==
  ASSUME NEW p, Sound(p), NEW D, Mailed(p, D), NEW t, NEW first, first = FirstTakeable(p, t),
         NEW q, q = AfterTake(p, t)
  PROVE  \E g : Takes(p, q, first, g)
<1> DEFINE last == TakenLast(p, first)
           envs == {p.queue[i] : i \in 1..last}
           m == RevalidatedPolicy(p, envs)
           look(i) == IF i <= last THEN Revalidated(p, p.queue[i]) ELSE p.queue[i]
           seen == [i \in DOMAIN p.queue |-> look(i)]
           kept == {i \in DOMAIN p.queue : i # first /\ (i <= last => WorthSending(p, p.queue[i]))}
           Q == Only(seen, kept)
<1>0. /\ p \in Policies /\ p.queue \in Seq(Letters) /\ first \in 0..Len(p.queue) /\ Len(p.queue) \in Nat
      /\ DOMAIN p.queue = 1..Len(p.queue)
      /\ \A i \in DOMAIN p.queue : p.queue[i] \in Letters /\ ~p.queue[i].test
      /\ p.queue # <<>> => p.enabled
  <2>1. p \in Policies /\ p.queue \in Seq(Letters)
    BY PolicyFacts DEF Sound
  <2>2. first \in 0..Len(p.queue)
    BY <2>1, FirstFacts
  <2>3. \A i \in DOMAIN p.queue : p.queue[i] \in Letters /\ ~p.queue[i].test
    BY <2>1 DEF Mailed
  <2>4. p.queue # <<>> => p.enabled
    BY DEF Sound, Emptied
  <2> QED BY <2>1, <2>2, <2>3, <2>4
<1>1. q = [m EXCEPT !.queue = Q]
  BY Zenon DEF AfterTake, TakenLast
<1>2. \A i \in DOMAIN p.queue : p.enabled
  BY <1>0
<1>3. last \in 0..Len(p.queue) /\ 1..last \subseteq DOMAIN p.queue
  BY <1>0 DEF TakenLast
<1>4. Revises(p, m, envs)
  <2> HIDE DEF envs
  <2> QED BY RevalidatedKeeps
<1> HIDE DEF last
<1>5. \A id \in DOMAIN p.episodes : \A s :
        s \in Stale(p, envs, id) <=> \E i \in DOMAIN p.queue : Announces(p.queue[i], id, s) /\ ~Stays(p, i, last, id, s)
  <2> TAKE id \in DOMAIN p.episodes
  <2> TAKE s
  <2>1. s \in Stale(p, envs, id) <=> \E x \in envs : Announces(x, id, s) /\ ~Good(p, x, id)
    <3> HIDE DEF envs
    <3> QED BY StaleFacts
  <2>2. \A i \in DOMAIN p.queue : i <= last <=> i \in 1..last
    BY <1>0, <1>3
  <2> QED BY <1>3, <2>1, <2>2 DEF Stays
<1> HIDE DEF m, envs
<1>6. Sound(m) /\ m.queue = p.queue /\ m.cooldown = p.cooldown /\ m.enabled = p.enabled
  <2>1. Keeps(p, m) /\ SameMail(p, m)
    BY <1>4 DEF Revises
  <2> QED BY <2>1, KeepsSound DEF KeepsSoundOp, SameMail, Keeps, SameRules
<1>7. \A i \in DOMAIN p.queue :
        look(i) \in Letters /\ (i <= last => Trimmed(p, p.queue[i], look(i))) /\ (~(i <= last) => look(i) = p.queue[i])
  <2> TAKE i \in DOMAIN p.queue
  <2>1. p.queue[i] \in Letters
    BY <1>0
  <2>2. CASE i <= last
    <3>1. look(i) = Revalidated(p, p.queue[i])
      BY <2>2
    <3> HIDE DEF look
    <3>2. Trimmed(p, p.queue[i], look(i))
      BY <1>0, <2>1, <3>1, RevalidatedTrimmed
    <3> QED BY <2>2, <3>2 DEF Trimmed
  <2>3. CASE ~(i <= last)
    BY <2>1, <2>3
  <2> QED BY <2>2, <2>3
<1> HIDE DEF look
<1>8. seen \in Seq(Letters) /\ DOMAIN seen = DOMAIN p.queue /\ Len(seen) = Len(p.queue)
      /\ \A i \in DOMAIN p.queue : seen[i] = look(i)
  <2>1. \A i \in 1..Len(p.queue) : look(i) \in Letters
    BY <1>0, <1>7
  <2>2. seen \in [1..Len(p.queue) -> Letters]
    BY <1>0, <2>1
  <2> QED BY <1>0, <2>2
<1>9. kept \in SUBSET DOMAIN seen /\ \A i \in kept : i \in DOMAIN p.queue /\ i # first
  BY <1>8
<1>10. \A i \in DOMAIN p.queue : \A id, s : i # first /\ Stays(p, i, last, id, s) => i \in kept
  <2> SUFFICES ASSUME NEW i \in DOMAIN p.queue, NEW id, NEW s, i # first, Stays(p, i, last, id, s)
               PROVE  i <= last => WorthSending(p, p.queue[i])
    OBVIOUS
  <2> HAVE i <= last
  <2>1. Good(p, p.queue[i], id) /\ Announces(p.queue[i], id, s)
    BY DEF Stays
  <2>2. \E a \in p.queue[i].alarms : Good(p, p.queue[i], a.episode)
    BY <2>1 DEF Announces
  <2> QED BY <1>0, <1>2, <2>2, WorthFacts
<1> HIDE DEF seen, kept
<1>11. PlacesOf(Q, seen, kept) /\ Q \in Seq(Letters) /\ DOMAIN Q = 1..Cardinality(kept) /\ Cardinality(kept) \in Nat
  BY <1>8, <1>9, OnlyPlaces, OnlyFacts
<1>12. p.enabled \/ Q = <<>>
  <2>1. CASE p.queue = <<>>
    <3>1. kept = {}
      BY <1>9, <2>1
    <3>2. Cardinality(kept) = 0
      BY <3>1, FS_EmptySet
    <3> HIDE DEF Q
    <3>3. DOMAIN Q = 1..0
      BY <1>11, <3>2
    <3> QED BY <1>11, <3>3
  <2>2. CASE p.queue # <<>>
    BY <1>0, <2>2
  <2> QED BY <2>1, <2>2
<1> HIDE DEF Q
<1>13. Requeues(m, q, Q)
  BY <1>1, <1>6, <1>11, <1>12, RequeuedKeeps
<1>14. Keeps(p, q) /\ q.queue = Q /\ q.cooldown = p.cooldown /\ q.episodes = m.episodes
  <2>1. Keeps(p, m)
    BY <1>4 DEF Revises
  <2> QED BY <1>6, <1>13, <2>1, KeepsTrans DEF Requeues
<1>15. PICK g \in [DOMAIN Q -> kept] :
          /\ \A k \in DOMAIN Q : Q[k] = seen[g[k]]
          /\ \A k, l \in DOMAIN Q : g[k] = g[l] => k = l
          /\ \A i \in kept : \E k \in DOMAIN Q : g[k] = i
  BY <1>11 DEF PlacesOf
<1>16. \A k \in DOMAIN Q : g[k] \in DOMAIN p.queue /\ g[k] # first /\ Q[k] = look(g[k])
  BY <1>8, <1>9, <1>15
<1>17. g \in [DOMAIN q.queue -> DOMAIN p.queue] /\ \A k \in DOMAIN q.queue : g[k] # first
  BY <1>14, <1>15, <1>16
<1>18. \A k \in DOMAIN q.queue : q.queue[k] = p.queue[g[k]] \/ Trimmed(p, p.queue[g[k]], q.queue[k])
  BY <1>7, <1>14, <1>16
<1>19. \A k \in DOMAIN q.queue : \A id, s : Announces(q.queue[k], id, s) <=> Stays(p, g[k], last, id, s)
  <2> TAKE k \in DOMAIN q.queue
  <2> TAKE id, s
  <2>1. g[k] \in DOMAIN p.queue /\ q.queue[k] = look(g[k]) /\ p.enabled
    BY <1>2, <1>14, <1>16
  <2>2. CASE g[k] <= last
    <3>1. Trimmed(p, p.queue[g[k]], q.queue[k])
      BY <1>7, <2>1, <2>2
    <3> QED BY <2>1, <2>2, <3>1 DEF Trimmed, Stays
  <2>3. CASE ~(g[k] <= last)
    BY <1>7, <2>1, <2>3 DEF Stays
  <2> QED BY <2>2, <2>3
<1>20. \A id \in DOMAIN q.episodes :
       /\ q.episodes[id].accepted = p.episodes[id].accepted
       /\ \A s : s \in MarkedTokens(q.episodes[id]) <=>
            /\ s \in MarkedTokens(p.episodes[id])
            /\ \A i \in DOMAIN p.queue : Announces(p.queue[i], id, s) => Stays(p, i, last, id, s)
  BY <1>4, <1>5, <1>14 DEF Revises
<1>21. Len(q.queue) <= Len(p.queue) /\ (first # 0 => Len(q.queue) + 1 <= Len(p.queue))
  <2>1. Len(q.queue) = Cardinality(kept)
    BY <1>11, <1>14
  <2>2. IsFiniteSet(DOMAIN p.queue) /\ Cardinality(DOMAIN p.queue) = Len(p.queue)
    <3> DEFINE n == Len(p.queue)
    <3>1. n \in Nat /\ DOMAIN p.queue = 1..n
      BY <1>0
    <3> HIDE DEF n
    <3>2. IsFiniteSet(1..n) /\ Cardinality(1..n) = n
      BY <3>1, FS_Interval
    <3> QED BY <3>1, <3>2 DEF n
  <2>3. kept \in SUBSET DOMAIN p.queue
    BY <1>9
  <2>4. Cardinality(kept) <= Len(p.queue)
    BY <2>2, <2>3, FS_Subset
  <2>5. ASSUME first # 0 PROVE Cardinality(kept) + 1 <= Len(p.queue)
    <3>1. first \in DOMAIN p.queue /\ kept \in SUBSET (DOMAIN p.queue \ {first})
      BY <1>0, <1>9, <2>5
    <3>2. Cardinality(DOMAIN p.queue \ {first}) = Len(p.queue) - 1 /\ IsFiniteSet(DOMAIN p.queue \ {first})
      BY <2>2, <3>1, FS_RemoveElement
    <3>3. Cardinality(kept) <= Cardinality(DOMAIN p.queue \ {first})
      BY <3>1, <3>2, FS_Subset
    <3> QED BY <1>0, <1>11, <3>2, <3>3
  <2> QED BY <2>1, <2>4, <2>5
<1>22. \A i \in DOMAIN p.queue : \A id, s : i # first /\ Stays(p, i, last, id, s) => \E k \in DOMAIN q.queue : g[k] = i
  BY <1>10, <1>14, <1>15
<1>23. DOMAIN q.episodes = DOMAIN p.episodes /\ \A k, l \in DOMAIN q.queue : g[k] = g[l] => k = l
  BY <1>4, <1>14, <1>15 DEF Revises
<1> QED BY <1>14, <1>17, <1>18, <1>19, <1>20, <1>21, <1>22, <1>23 DEF Takes, last

(* Deliveries other than the taken letter run on.                          *)
CarriesOn(p, D, E, first, h) ==
  /\ h \in [Running(E) -> Carriers(p, D)]
  /\ \A i, j \in Running(E) : h[i] = h[j] => i = j
  /\ \A i \in Running(E) :
       \/ h[i][1] = "flight" /\ E[i].envelope = LetterAt(p, D, h[i])
       \/ /\ first # 0 /\ h[i] = <<"queue", first>>
          /\ \A id, s : Announces(E[i].envelope, id, s) <=> Stays(p, first, TakenLast(p, first), id, s)
  /\ \A j \in Running(D) : \E i \in Running(E) : h[i] = <<"flight", j>>
  /\ first # 0 => \E i \in Running(E) : h[i] = <<"queue", first>>

(* A take keeps the balance.                                               *)
LEMMA TakenBalanced ==
  ASSUME NEW p \in Policies, NEW q, NEW first \in 0..Len(p.queue), NEW g, Takes(p, q, first, g),
         NEW D, NEW E, Balanced(p, D), NEW h, CarriesOn(p, D, E, first, h)
  PROVE  Balanced(q, E)
<1> DEFINE last == TakenLast(p, first)
           gq == [k \in DOMAIN q.queue |-> <<"queue", g[k]>>]
<1>0. /\ DOMAIN q.episodes = DOMAIN p.episodes
      /\ \A id \in DOMAIN q.episodes : \A s : s \in MarkedTokens(q.episodes[id]) <=>
            /\ s \in MarkedTokens(p.episodes[id])
            /\ \A i \in DOMAIN p.queue : Announces(p.queue[i], id, s) => Stays(p, i, last, id, s)
      /\ g \in [DOMAIN q.queue -> DOMAIN p.queue]
      /\ \A k \in DOMAIN q.queue : g[k] # first
      /\ \A k, l \in DOMAIN q.queue : g[k] = g[l] => k = l
      /\ \A k \in DOMAIN q.queue : \A id, s : Announces(q.queue[k], id, s) <=> Stays(p, g[k], last, id, s)
      /\ \A i \in DOMAIN p.queue : \A id, s : i # first /\ Stays(p, i, last, id, s) => \E k \in DOMAIN q.queue : g[k] = i
  BY DEF Takes
<1>1. gq \in [DOMAIN q.queue -> Carriers(p, D)] /\ \A k \in DOMAIN q.queue : gq[k] = <<"queue", g[k]>>
  <2>1. \A k \in DOMAIN q.queue : <<"queue", g[k]>> \in Carriers(p, D)
    BY <1>0, CarrierFacts
  <2> QED BY <2>1
<1>2. /\ h \in [Running(E) -> Carriers(p, D)]
      /\ \A i, j \in Running(E) : h[i] = h[j] => i = j
      /\ \A i \in Running(E) :
           \/ h[i][1] = "flight" /\ E[i].envelope = LetterAt(p, D, h[i])
           \/ /\ first # 0 /\ h[i] = <<"queue", first>>
              /\ \A id, s : Announces(E[i].envelope, id, s) <=> Stays(p, first, last, id, s)
      /\ \A j \in Running(D) : \E i \in Running(E) : h[i] = <<"flight", j>>
      /\ first # 0 => \E i \in Running(E) : h[i] = <<"queue", first>>
  BY DEF CarriesOn
<1> HIDE DEF gq, last
<1>3. /\ \A k, l \in DOMAIN q.queue : gq[k] = gq[l] => k = l
      /\ \A k \in DOMAIN q.queue, i \in Running(E) : gq[k] # h[i]
  <2>1. ASSUME NEW k \in DOMAIN q.queue, NEW l \in DOMAIN q.queue, gq[k] = gq[l] PROVE k = l
    <3>1. <<"queue", g[k]>> = <<"queue", g[l]>>
      BY <1>1, <2>1
    <3>2. g[k] = g[l]
      BY ONLY <3>1
    <3> QED BY <1>0, <3>2
  <2>2. ASSUME NEW k \in DOMAIN q.queue, NEW i \in Running(E), gq[k] = h[i] PROVE FALSE
    <3>1. gq[k] = <<"queue", g[k]>> /\ g[k] # first
      BY <1>0, <1>1
    <3>2. CASE h[i][1] = "flight"
      BY <2>2, <3>1, <3>2
    <3>3. CASE h[i] = <<"queue", first>>
      <4>1. <<"queue", g[k]>> = <<"queue", first>>
        BY <2>2, <3>1, <3>3
      <4>2. g[k] = first
        BY ONLY <4>1
      <4> QED BY <3>1, <4>2
    <3> QED BY <1>2, <3>2, <3>3
  <2> QED BY <2>1, <2>2
<1>4. \A k \in DOMAIN q.queue : \A id, s :
        Says(p, D, gq[k], id, s) <=> Announces(p.queue[g[k]], id, s)
  <2> TAKE k \in DOMAIN q.queue
  <2> TAKE id, s
  <2>1. g[k] \in DOMAIN p.queue /\ gq[k] = <<"queue", g[k]>>
    BY <1>0, <1>1
  <2>2. LetterAt(p, D, <<"queue", g[k]>>) = p.queue[g[k]]
    BY <2>1, CarrierFacts
  <2> QED BY <2>1, <2>2 DEF Says
<1>5. \A i \in Running(E) : \A id, s : Announces(E[i].envelope, id, s) => Says(p, D, h[i], id, s)
  <2> TAKE i \in Running(E)
  <2> TAKE id, s
  <2> HAVE Announces(E[i].envelope, id, s)
  <2>1. CASE h[i][1] = "flight" /\ E[i].envelope = LetterAt(p, D, h[i])
    BY <2>1 DEF Says
  <2>2. CASE first # 0 /\ h[i] = <<"queue", first>> /\ Stays(p, first, last, id, s)
    <3>1. first \in DOMAIN p.queue
      <4>1. Len(p.queue) \in Nat /\ DOMAIN p.queue = 1..Len(p.queue)
        BY PolicyFacts
      <4> QED BY <2>2, <4>1
    <3>2. LetterAt(p, D, <<"queue", first>>) = p.queue[first]
      BY <3>1, CarrierFacts
    <3> QED BY <2>2, <3>2 DEF Says, Stays
  <2> QED BY <1>2, <2>1, <2>2
<1>6. ASSUME NEW id \in DOMAIN q.episodes, NEW s, NEW y \in Carriers(p, D), Says(p, D, y, id, s)
      PROVE  \/ (\E k \in DOMAIN q.queue : gq[k] = y /\ Announces(q.queue[k], id, s))
             \/ (\E i \in Running(E) : h[i] = y /\ Announces(E[i].envelope, id, s))
             \/ (\E i \in DOMAIN p.queue : y = <<"queue", i>> /\ Announces(p.queue[i], id, s) /\ ~Stays(p, i, last, id, s))
  <2>1. CASE y = <<"flight", y[2]>> /\ y[1] = "flight" /\ y[2] \in Running(D)
    <3>1. PICK i \in Running(E) : h[i] = <<"flight", y[2]>>
      BY <1>2, <2>1
    <3>2. h[i] = y /\ h[i][1] = "flight"
      BY <2>1, <3>1
    <3>3. h[i] # <<"queue", first>>
      BY <3>2
    <3>4. E[i].envelope = LetterAt(p, D, y)
      BY <1>2, <3>2, <3>3
    <3> QED BY <1>6, <3>2, <3>4 DEF Says
  <2>2. CASE y = <<"queue", y[2]>> /\ y[2] \in DOMAIN p.queue /\ LetterAt(p, D, y) = p.queue[y[2]]
    <3>1. Announces(p.queue[y[2]], id, s)
      BY <1>6, <2>2 DEF Says
    <3>2. CASE ~Stays(p, y[2], last, id, s)
      BY <2>2, <3>1, <3>2
    <3>3. CASE Stays(p, y[2], last, id, s) /\ y[2] # first
      <4>1. PICK k \in DOMAIN q.queue : g[k] = y[2]
        BY <1>0, <2>2, <3>3
      <4>2. gq[k] = y
        BY <1>1, <2>2, <4>1
      <4>3. Announces(q.queue[k], id, s)
        BY <1>0, <3>3, <4>1
      <4> QED BY <4>2, <4>3
    <3>4. CASE Stays(p, y[2], last, id, s) /\ y[2] = first
      <4>1. first # 0
        BY <2>2, <3>4, PolicyFacts
      <4>2. PICK i \in Running(E) : h[i] = <<"queue", first>>
        BY <1>2, <4>1
      <4>3. h[i][1] # "flight"
        BY <4>2
      <4>4. Announces(E[i].envelope, id, s)
        BY <1>2, <3>4, <4>3
      <4> QED BY <2>2, <3>4, <4>2, <4>4
    <3> QED BY <3>2, <3>3, <3>4
  <2> QED BY <2>1, <2>2, CarrierFacts DEF CarrierKinds
<1>7. ASSUME NEW id \in DOMAIN q.episodes, NEW s \in Tokens
      PROVE  s \in MarkedTokens(q.episodes[id]) <=>
               /\ id \in DOMAIN p.episodes /\ s \in MarkedTokens(p.episodes[id])
               /\ \A y \in Carriers(p, D) :
                    Says(p, D, y, id, s) =>
                      \/ (\E k \in DOMAIN q.queue : gq[k] = y /\ Announces(q.queue[k], id, s))
                      \/ (\E i \in Running(E) : h[i] = y /\ Announces(E[i].envelope, id, s))
  <2>1. ASSUME s \in MarkedTokens(q.episodes[id]), NEW y \in Carriers(p, D), Says(p, D, y, id, s)
        PROVE  \/ (\E k \in DOMAIN q.queue : gq[k] = y /\ Announces(q.queue[k], id, s))
               \/ (\E i \in Running(E) : h[i] = y /\ Announces(E[i].envelope, id, s))
    BY <1>0, <1>6, <2>1
  <2>2. ASSUME NEW i \in DOMAIN p.queue, Announces(p.queue[i], id, s),
               \A y \in Carriers(p, D) :
                    Says(p, D, y, id, s) =>
                      \/ (\E k \in DOMAIN q.queue : gq[k] = y /\ Announces(q.queue[k], id, s))
                      \/ (\E j \in Running(E) : h[j] = y /\ Announces(E[j].envelope, id, s))
        PROVE  Stays(p, i, last, id, s)
    <3>1. <<"queue", i>> \in Carriers(p, D) /\ Says(p, D, <<"queue", i>>, id, s)
      BY <2>2, CarrierFacts DEF Says
    <3>2. CASE \E k \in DOMAIN q.queue : gq[k] = <<"queue", i>> /\ Announces(q.queue[k], id, s)
      <4>1. PICK k \in DOMAIN q.queue : gq[k] = <<"queue", i>> /\ Announces(q.queue[k], id, s)
        BY <3>2
      <4>2. <<"queue", g[k]>> = <<"queue", i>>
        BY <1>1, <4>1
      <4>3. g[k] = i
        BY ONLY <4>2
      <4> QED BY <1>0, <4>1, <4>3
    <3>3. CASE \E j \in Running(E) : h[j] = <<"queue", i>> /\ Announces(E[j].envelope, id, s)
      <4>1. PICK j \in Running(E) : h[j] = <<"queue", i>> /\ Announces(E[j].envelope, id, s)
        BY <3>3
      <4>2. h[j][1] # "flight"
        BY <4>1
      <4>3. h[j] = <<"queue", first>> /\ Stays(p, first, last, id, s)
        BY <1>2, <4>1, <4>2
      <4>4. <<"queue", first>> = <<"queue", i>>
        BY <4>1, <4>3
      <4>5. first = i
        BY ONLY <4>4
      <4> QED BY <4>3, <4>5
    <3> QED BY <2>2, <3>1, <3>2, <3>3
  <2> QED BY <1>0, <2>1, <2>2
<1>8. Transfers(p, D, q, E, gq, h)
  <2>1. ASSUME NEW id \in DOMAIN q.episodes, NEW s \in Tokens
        PROVE  /\ \A k \in DOMAIN q.queue :
                    Announces(q.queue[k], id, s) => id \in DOMAIN p.episodes /\ Says(p, D, gq[k], id, s)
               /\ \A i \in Running(E) :
                    Announces(E[i].envelope, id, s) => id \in DOMAIN p.episodes /\ Says(p, D, h[i], id, s)
    BY <1>0, <1>4, <1>5 DEF Stays
  <2> QED BY <1>1, <1>2, <1>3, <1>7, <2>1 DEF Transfers
<1> QED BY <1>8, TransferredBalanced

(* Nothing is taken: the deliveries are as they were.                      *)
LEMMA CarriesOnSame ==
  ASSUME NEW p, NEW D
  PROVE  \E h : CarriesOn(p, D, D, 0, h)
<1> DEFINE h == [i \in Running(D) |-> <<"flight", i>>]
<1>1. \A i \in Running(D) : <<"flight", i>> \in Carriers(p, D) /\ LetterAt(p, D, <<"flight", i>>) = D[i].envelope
  BY ONLY CarrierFacts, ZenonT(60)
<1>2. \A i \in Running(D) : h[i] = <<"flight", i>>
  OBVIOUS
<1>3. h \in [Running(D) -> Carriers(p, D)]
  BY <1>1
<1> HIDE DEF h
<1>4. ASSUME NEW i \in Running(D), NEW j \in Running(D), h[i] = h[j] PROVE i = j
  <2>1. <<"flight", i>> = <<"flight", j>>
    BY <1>2, <1>4
  <2> QED BY ONLY <2>1
<1>5. \A i \in Running(D) : h[i][1] = "flight" /\ D[i].envelope = LetterAt(p, D, h[i])
  BY <1>1, <1>2
<1> QED BY <1>2, <1>3, <1>4, <1>5 DEF CarriesOn

(* The taken letter is submitted.                                          *)
LEMMA CarriesOnTaken ==
  ASSUME NEW p \in Policies, NEW T, NEW D \in Seq(T), NEW first \in 1..Len(p.queue), NEW d \in T, ~d.done,
         \A id, s : Announces(d.envelope, id, s) <=> Stays(p, first, TakenLast(p, first), id, s)
  PROVE  \E h : CarriesOn(p, D, Append(D, d), first, h)
<1> DEFINE E == Append(D, d)
           n == Len(D) + 1
           h == [i \in Running(E) |-> IF i = n THEN <<"queue", first>> ELSE <<"flight", i>>]
<1>0. /\ Len(D) \in Nat /\ DOMAIN D = 1..Len(D) /\ n \notin DOMAIN D
      /\ DOMAIN E = DOMAIN D \cup {n} /\ E[n] = d /\ \A i \in DOMAIN D : E[i] = D[i]
  <2>1. /\ Append(D, d) \in Seq(T) /\ Len(Append(D, d)) = Len(D) + 1 /\ Len(D) \in Nat
        /\ \A i \in 1..Len(D) : Append(D, d)[i] = D[i]
        /\ Append(D, d)[Len(D) + 1] = d
    BY AppendProperties
  <2> QED BY <2>1
<1> HIDE DEF E, n
<1>1. /\ \A i \in Running(E) : i # n => i \in Running(D) /\ E[i] = D[i]
      /\ \A i \in Running(D) : i # n /\ i \in Running(E)
      /\ n \in Running(E)
  BY <1>0 DEF Running
<1>2. first \in DOMAIN p.queue /\ first # 0
  <2>1. Len(p.queue) \in Nat /\ DOMAIN p.queue = 1..Len(p.queue)
    BY PolicyFacts
  <2> QED BY <2>1
<1>3. <<"queue", first>> \in Carriers(p, D)
  BY <1>2, CarrierFacts
<1>4. \A i \in Running(D) : <<"flight", i>> \in Carriers(p, D) /\ LetterAt(p, D, <<"flight", i>>) = D[i].envelope
  BY ONLY CarrierFacts, ZenonT(60)
<1>5. /\ h[n] = <<"queue", first>>
      /\ \A i \in Running(D) : h[i] = <<"flight", i>>
      /\ h \in [Running(E) -> Carriers(p, D)]
  <2>1. \A i \in Running(E) : (IF i = n THEN <<"queue", first>> ELSE <<"flight", i>>) \in Carriers(p, D)
    BY <1>1, <1>3, <1>4
  <2> QED BY <1>1, <2>1
<1> HIDE DEF h
<1>6. ASSUME NEW i \in Running(E), NEW j \in Running(E), h[i] = h[j] PROVE i = j
  <2>1. CASE i = n /\ j = n
    BY <2>1
  <2>2. CASE i # n /\ j # n
    <3>1. <<"flight", i>> = <<"flight", j>>
      BY <1>1, <1>5, <1>6, <2>2
    <3> QED BY ONLY <3>1
  <2>3. CASE i = n /\ j # n
    <3>1. <<"queue", first>> = <<"flight", j>>
      BY <1>1, <1>5, <1>6, <2>3
    <3> QED BY ONLY <3>1
  <2>4. CASE i # n /\ j = n
    <3>1. <<"queue", first>> = <<"flight", i>>
      BY <1>1, <1>5, <1>6, <2>4
    <3> QED BY ONLY <3>1
  <2> QED BY <2>1, <2>2, <2>3, <2>4
<1>7. ASSUME NEW i \in Running(E)
      PROVE  \/ h[i][1] = "flight" /\ E[i].envelope = LetterAt(p, D, h[i])
             \/ /\ first # 0 /\ h[i] = <<"queue", first>>
                /\ \A id, s : Announces(E[i].envelope, id, s) <=> Stays(p, first, TakenLast(p, first), id, s)
  <2>1. CASE i = n
    BY <1>0, <1>2, <1>5, <2>1
  <2>2. CASE i # n
    <3>1. i \in Running(D) /\ E[i] = D[i] /\ h[i] = <<"flight", i>>
      BY <1>1, <1>5, <2>2
    <3>2. h[i][1] = "flight"
      BY <3>1
    <3>3. LetterAt(p, D, h[i]) = D[i].envelope
      BY <1>4, <3>1
    <3> QED BY <3>1, <3>2, <3>3
  <2> QED BY <2>1, <2>2
<1>8. CarriesOn(p, D, E, first, h)
  BY <1>1, <1>2, <1>5, <1>6, <1>7 DEF CarriesOn
<1> QED BY <1>8 DEF E

(* The later of two times is a time.                                       *)
LEMMA LastOfTwo ==
  ASSUME NEW a \in Nat, NEW b \in Nat
  PROVE  Max({a, b}) \in Nat
<1>1. IsFiniteSet({a, b}) /\ {a, b} \subseteq Int /\ {a, b} # {}
  <2>1. IsFiniteSet({a})
    BY FS_Singleton
  <2>2. IsFiniteSet({a} \cup {b}) /\ {a} \cup {b} = {a, b}
    BY <2>1, FS_AddElement
  <2> QED BY <2>2
<1>2. Max({a, b}) \in {a, b}
  BY <1>1, FiniteExtremes
<1> QED BY <1>2

(* A letter announces its token of the episodes it is about.               *)
LEMMA HitsFacts == \A env, id, s : Announces(env, id, s) <=> Hits(env, id) /\ s = TokenOf(env)
  BY DEF Announces, Hits, TokenOf

-----------------------------------------------------------------------------
(***************************************************************************)
(* The end of an attempt.                                                  *)
(***************************************************************************)

(* A failed letter waits for its next attempt.                             *)
WaitsAgain(p, q, env, f) ==
  /\ q.queue = Append(p.queue, f) /\ p.enabled /\ env.attempts < Attempts
  /\ f \in Letters /\ f.rule = env.rule /\ f.stage = env.stage /\ f.destination = env.destination
  /\ f.attempts = env.attempts /\ ~f.test /\ ~env.test
  /\ \A a \in f.alarms : \E b \in env.alarms : b.episode = a.episode /\ b.channel = a.channel
  /\ \A id, s : Announces(f, id, s) <=> Announces(env, id, s) /\ Good(p, env, id)
  /\ \A id \in DOMAIN q.episodes : \A s :
       s \in MarkedTokens(q.episodes[id]) <=>
         s \in MarkedTokens(p.episodes[id]) /\ (Announces(env, id, s) => Good(p, env, id))

(* Or it is over.                                                          *)
Retires(p, q, env) ==
  /\ q.queue = p.queue
  /\ \A id \in DOMAIN q.episodes : \A s :
       s \in MarkedTokens(q.episodes[id]) <=>
         s \in MarkedTokens(p.episodes[id]) /\ ~Announces(env, id, s)

(* An attempt ended (finish): its letter waits again or is over.           *)
Finishes(p, q, env, accepted) ==
  /\ Keeps(p, q) /\ q.cooldown = p.cooldown
  /\ \A id \in DOMAIN q.episodes : \A d \in q.episodes[id].accepted :
       d \in p.episodes[id].accepted
         \/ (Hits(env, id) /\ accepted /\ env.stage # Resolution /\ d = env.destination)
  /\ Retires(p, q, env) \/ \E f : WaitsAgain(p, q, env, f)

(* finish.                                                                 *)
LEMMA FinishedFinishes ==
  ASSUME NEW p, Sound(p), NEW env \in Letters, NEW accepted \in BOOLEAN, NEW retryable \in BOOLEAN,
         NEW retryAfter \in Nat, now \in Nat,
         NEW q, q = Finished(p, env, accepted, retryable, retryAfter)
  PROVE  Finishes(p, q, env, accepted)
<1> DEFINE again == ~accepted /\ retryable /\ env.attempts < Attempts /\ ~env.test
           fresh == Revalidated(p, env)
           m     == RevalidatedPolicy(p, {env})
           delay == IF env.attempts = 1 THEN RetryFirst ELSE RetryLater
           f     == [fresh EXCEPT !.ready = now + Max({delay, retryAfter})]
<1>0. p \in Policies
  BY DEF Sound
<1>1. q = IF again /\ WorthSending(p, env) THEN Retried(m, f)
          ELSE Completed(IF again THEN m ELSE p, IF again THEN fresh ELSE env, accepted)
  BY Zenon DEF Finished
<1>2. CASE ~again
  <2>1. q = Completed(p, env, accepted)
    <3> HIDE DEF again
    <3> QED BY <1>1, <1>2
  <2>2. Completes(p, q, env, accepted)
    BY <2>1, CompletedKeeps
  <2>3. \A id \in DOMAIN q.episodes : \A s :
          s \in MarkedTokens(q.episodes[id]) <=> s \in MarkedTokens(p.episodes[id]) /\ ~Announces(env, id, s)
    BY <2>2, HitsFacts DEF Completes
  <2> QED BY <2>2, <2>3 DEF Completes, Finishes, Retires, SameMail
<1>3. CASE again
  <2>0. ~accepted /\ env.attempts < Attempts /\ ~env.test
    BY <1>3
  <2>1. Revises(p, m, {env})
    BY RevalidatedKeeps
  <2>2. Trimmed(p, env, fresh)
    BY <1>0, RevalidatedTrimmed
  <2>3. \A id, s : s \in Stale(p, {env}, id) <=> Announces(env, id, s) /\ ~Good(p, env, id)
    BY StaleFacts
  <2> HIDE DEF m, fresh
  <2>4. Sound(m) /\ m.queue = p.queue /\ m.cooldown = p.cooldown /\ m.enabled = p.enabled /\ Keeps(p, m)
    <3>1. Keeps(p, m) /\ SameMail(p, m)
      BY <2>1 DEF Revises
    <3> QED BY <3>1, KeepsSound DEF KeepsSoundOp, SameMail, Keeps, SameRules
  <2>5. \A id \in DOMAIN m.episodes :
          /\ m.episodes[id].accepted = p.episodes[id].accepted
          /\ \A s : s \in MarkedTokens(m.episodes[id]) <=>
               s \in MarkedTokens(p.episodes[id]) /\ (Announces(env, id, s) => Good(p, env, id))
    BY <2>1, <2>3 DEF Revises
  <2>6. CASE WorthSending(p, env)
    <3>1. q = Retried(m, f)
      <4> HIDE DEF again, f
      <4> QED BY <1>1, <1>3, <2>6
    <3>2. p.enabled
      BY <1>0, <2>0, <2>6, WorthFacts
    <3> DEFINE r == now + Max({delay, retryAfter})
    <3>3. r \in Nat
      <4>1. delay \in Nat
        BY ServiceAssumption
      <4> HIDE DEF delay
      <4>2. Max({delay, retryAfter}) \in Nat
        BY <4>1, LastOfTwo
      <4> QED BY <4>2
    <3>4. f = [fresh EXCEPT !.ready = r]
      OBVIOUS
    <3> HIDE DEF r, f
    <3>5. fresh \in Letters
      BY <2>2 DEF Trimmed
    <3>6. /\ f \in Letters /\ f.rule = fresh.rule /\ f.stage = fresh.stage /\ f.destination = fresh.destination
          /\ f.alarms = fresh.alarms /\ f.attempts = fresh.attempts /\ f.test = fresh.test
      BY <3>3, <3>4, <3>5 DEF Letters
    <3> DEFINE Q == Append(m.queue, f)
    <3>7. q = [m EXCEPT !.queue = Q]
      BY <3>1 DEF Retried
    <3>8. Q \in Seq(Letters)
      <4>1. m.queue \in Seq(Letters)
        BY <2>4, PolicyFacts DEF Sound
      <4> QED BY <3>6, <4>1, AppendProperties
    <3>8a. Q = Append(p.queue, f)
      BY <2>4
    <3> HIDE DEF Q
    <3>9. Requeues(m, q, Q)
      BY <2>4, <3>2, <3>7, <3>8, RequeuedKeeps
    <3>10. Keeps(p, q) /\ q.queue = Q /\ q.cooldown = p.cooldown /\ q.episodes = m.episodes
      BY <2>4, <3>9, KeepsTrans DEF Requeues
    <3>11. \A id, s : Announces(f, id, s) <=> Announces(env, id, s) /\ Good(p, env, id)
      BY <2>2, <3>2, <3>6 DEF Trimmed, Announces
    <3>12. /\ f.rule = env.rule /\ f.stage = env.stage /\ f.destination = env.destination
           /\ f.attempts = env.attempts /\ ~f.test
           /\ \A a \in f.alarms : \E b \in env.alarms : b.episode = a.episode /\ b.channel = a.channel
      BY <2>0, <2>2, <3>6 DEF Trimmed
    <3>13. WaitsAgain(p, q, env, f)
      BY <2>0, <2>5, <3>2, <3>6, <3>8a, <3>10, <3>11, <3>12 DEF WaitsAgain
    <3>14. \A id \in DOMAIN q.episodes : q.episodes[id].accepted = p.episodes[id].accepted
      BY <2>5, <3>10
    <3> QED BY <3>10, <3>13, <3>14 DEF Finishes
  <2>7. CASE ~WorthSending(p, env)
    <3>1. q = Completed(m, fresh, accepted)
      <4> HIDE DEF again, f
      <4> QED BY <1>1, <1>3, <2>7
    <3>2. fresh \in Letters
      BY <2>2 DEF Trimmed
    <3>3. Completes(m, q, fresh, accepted)
      BY <2>4, <3>1, <3>2, CompletedKeeps
    <3>4. Keeps(p, q) /\ q.queue = p.queue /\ q.cooldown = p.cooldown
      BY <2>4, <3>3, KeepsTrans DEF Completes, SameMail
    <3>5. \A id \in DOMAIN q.episodes : \A s :
            s \in MarkedTokens(q.episodes[id]) <=> s \in MarkedTokens(p.episodes[id]) /\ ~Announces(env, id, s)
      <4> TAKE id \in DOMAIN q.episodes
      <4> TAKE s
      <4>1. id \in DOMAIN m.episodes /\ id \in DOMAIN p.episodes
        BY <2>4, <3>3 DEF Completes, Keeps
      <4>2. p.enabled
        BY <4>1 DEF Sound, Emptied
      <4>3. \A a \in env.alarms : ~Good(p, env, a.episode)
        BY <1>0, <2>0, <2>7, <4>2, WorthFacts
      <4>4. Hits(env, id) => ~Good(p, env, id)
        BY <4>3 DEF Hits
      <4>5. ~Hits(fresh, id)
        BY <2>0, <2>2, <4>2, <4>4, HitsFacts DEF Trimmed
      <4>6. s \in MarkedTokens(q.episodes[id]) <=> s \in MarkedTokens(m.episodes[id])
        BY <3>3, <4>5 DEF Completes
      <4> QED BY <2>5, <4>1, <4>4, <4>6, HitsFacts
    <3>6. \A id \in DOMAIN q.episodes : \A d \in q.episodes[id].accepted : d \in p.episodes[id].accepted
      BY <2>0, <2>4, <2>5, <3>3 DEF Completes, Keeps
    <3> QED BY <3>4, <3>5, <3>6 DEF Finishes, Retires
  <2> QED BY <2>6, <2>7
<1> QED BY <1>2, <1>3

(* The running attempts but one, wherever they are noted now.              *)
Drops(D, i, E, m) ==
  /\ m \in [Running(E) -> Running(D) \ {i}]
  /\ \A k, l \in Running(E) : m[k] = m[l] => k = l
  /\ \A j \in Running(D) \ {i} : \E k \in Running(E) : m[k] = j
  /\ \A k \in Running(E) : E[k].envelope = D[m[k]].envelope

(* The running attempts but one, as carriers.                              *)
Flights(p, D, i, E, m, h) ==
  /\ h \in [Running(E) -> Carriers(p, D)]
  /\ \A k \in Running(E) : h[k] = <<"flight", m[k]>> /\ m[k] \in Running(D) /\ m[k] # i
  /\ \A k, l \in Running(E) : h[k] = h[l] => k = l
  /\ \A k \in Running(E) : LetterAt(p, D, h[k]) = E[k].envelope

(* The attempts that run on are carriers of before.                        *)
LEMMA DroppedFlights ==
  ASSUME NEW p, NEW D, NEW i, NEW E, NEW m, Drops(D, i, E, m)
  PROVE  \E h : Flights(p, D, i, E, m, h)
<1> DEFINE h == [k \in Running(E) |-> <<"flight", m[k]>>]
<1>0. /\ m \in [Running(E) -> Running(D) \ {i}]
      /\ \A k, l \in Running(E) : m[k] = m[l] => k = l
      /\ \A k \in Running(E) : E[k].envelope = D[m[k]].envelope
  BY DEF Drops
<1>1. \A k \in Running(E) : m[k] \in Running(D) /\ m[k] # i
  BY <1>0
<1>2. \A j \in Running(D) : <<"flight", j>> \in Carriers(p, D) /\ LetterAt(p, D, <<"flight", j>>) = D[j].envelope
  BY CarrierFacts, ZenonT(60)
<1>3. h \in [Running(E) -> Carriers(p, D)] /\ \A k \in Running(E) : h[k] = <<"flight", m[k]>>
  BY <1>1, <1>2
<1> HIDE DEF h
<1>4. ASSUME NEW k \in Running(E), NEW l \in Running(E), h[k] = h[l] PROVE k = l
  <2>1. <<"flight", m[k]>> = <<"flight", m[l]>>
    BY <1>3, <1>4
  <2>2. m[k] = m[l]
    BY ONLY <2>1
  <2> QED BY <1>0, <2>2
<1>5. ASSUME NEW k \in Running(E) PROVE LetterAt(p, D, h[k]) = E[k].envelope
  <2>1. LetterAt(p, D, <<"flight", m[k]>>) = D[m[k]].envelope
    BY <1>1, <1>2
  <2> QED BY <1>0, <1>3, <2>1
<1>6. Flights(p, D, i, E, m, h)
  BY <1>1, <1>3, <1>4, <1>5 DEF Flights
<1> QED BY <1>6

(* An attempt that is over: the entries of its alarms go with it, or its   *)
(* letter waits again.                                                     *)
LEMMA FinishedBalanced ==
  ASSUME NEW p, NEW q, Sound(p), NEW D, Balanced(p, D), NEW i, NEW E, NEW m, Drops(D, i, E, m),
         NEW env, NEW accepted, i \in Running(D) => env = D[i].envelope,
         (i \in Running(D) /\ Finishes(p, q, env, accepted)) \/ (i \notin Running(D) /\ q = p)
  PROVE  Balanced(q, E)
<1>0. p.queue \in Seq(Letters)
  BY PolicyFacts DEF Sound
<1> DEFINE more == i \in Running(D) /\ \E f : WaitsAgain(p, q, env, f)
           n    == Len(p.queue) + 1
           g == [k \in DOMAIN q.queue |-> IF k \in DOMAIN p.queue THEN <<"queue", k>> ELSE <<"flight", i>>]
<1>0a. PICK h : Flights(p, D, i, E, m, h)
  BY DroppedFlights
<1>1. /\ h \in [Running(E) -> Carriers(p, D)]
      /\ \A k \in Running(E) : h[k] = <<"flight", m[k]>> /\ m[k] \in Running(D) /\ m[k] # i
      /\ \A k, l \in Running(E) : h[k] = h[l] => k = l
      /\ \A k \in Running(E) : LetterAt(p, D, h[k]) = E[k].envelope
  BY <1>0a DEF Flights
<1>2. DOMAIN p.queue = 1..Len(p.queue) /\ Len(p.queue) \in Nat /\ n \notin DOMAIN p.queue
  BY <1>0
<1>3. /\ DOMAIN p.queue \subseteq DOMAIN q.queue /\ \A k \in DOMAIN p.queue : q.queue[k] = p.queue[k]
      /\ \A k \in DOMAIN q.queue : k \notin DOMAIN p.queue => more /\ k = n
      /\ more => n \in DOMAIN q.queue
                 /\ \A id, s : Announces(q.queue[n], id, s) <=> Announces(env, id, s) /\ Good(p, env, id)
  <2>1. CASE more
    <3>1. PICK f : WaitsAgain(p, q, env, f)
      BY <2>1
    <3>2. q.queue = Append(p.queue, f) /\ f \in Letters
      BY <3>1 DEF WaitsAgain
    <3>3. /\ Len(q.queue) = n /\ DOMAIN q.queue = 1..n /\ q.queue[n] = f
          /\ \A k \in DOMAIN p.queue : q.queue[k] = p.queue[k]
      <4>1. /\ Append(p.queue, f) \in Seq(Letters) /\ Len(Append(p.queue, f)) = Len(p.queue) + 1
            /\ \A k \in 1..Len(p.queue) : Append(p.queue, f)[k] = p.queue[k]
            /\ Append(p.queue, f)[Len(p.queue) + 1] = f
        BY <1>0, <3>2, AppendProperties
      <4> QED BY <1>2, <3>2, <4>1
    <3>4. \A id, s : Announces(f, id, s) <=> Announces(env, id, s) /\ Good(p, env, id)
      BY <3>1 DEF WaitsAgain
    <3> QED BY <1>2, <2>1, <3>3, <3>4
  <2>2. CASE ~more
    <3>1. q.queue = p.queue
      BY <2>2 DEF Finishes, Retires
    <3> QED BY <2>2, <3>1
  <2> QED BY <2>1, <2>2
<1>4. /\ DOMAIN q.episodes \subseteq DOMAIN p.episodes
      /\ \A id \in DOMAIN q.episodes : \A s : s \in MarkedTokens(q.episodes[id]) <=>
           /\ s \in MarkedTokens(p.episodes[id])
           /\ i \in Running(D) /\ Announces(env, id, s) => more /\ Good(p, env, id)
  <2>1. DOMAIN q.episodes \subseteq DOMAIN p.episodes
    BY DEF Finishes, Keeps
  <2>2. CASE more
    BY <2>1, <2>2 DEF WaitsAgain
  <2>3. CASE ~more
    <3>1. CASE i \in Running(D)
      BY <2>1, <2>3, <3>1 DEF Finishes, Retires
    <3>2. CASE i \notin Running(D)
      BY <2>1, <3>2
    <3> QED BY <3>1, <3>2
  <2> QED BY <2>1, <2>2, <2>3
<1>5. /\ \A k \in DOMAIN p.queue : <<"queue", k>> \in Carriers(p, D) /\ LetterAt(p, D, <<"queue", k>>) = p.queue[k]
      /\ i \in Running(D) => <<"flight", i>> \in Carriers(p, D) /\ LetterAt(p, D, <<"flight", i>>) = env
  BY CarrierFacts
<1>6. more => i \in Running(D)
  OBVIOUS
<1> HIDE DEF more, n
<1>7. /\ g \in [DOMAIN q.queue -> Carriers(p, D)]
      /\ \A k \in DOMAIN q.queue : g[k] = IF k \in DOMAIN p.queue THEN <<"queue", k>> ELSE <<"flight", i>>
  <2>1. \A k \in DOMAIN q.queue :
          (IF k \in DOMAIN p.queue THEN <<"queue", k>> ELSE <<"flight", i>>) \in Carriers(p, D)
    BY <1>3, <1>5, <1>6
  <2> QED BY <2>1
<1> HIDE DEF g
<1>8. ASSUME NEW k \in DOMAIN q.queue, NEW l \in DOMAIN q.queue, g[k] = g[l] PROVE k = l
  <2>1. CASE k \in DOMAIN p.queue /\ l \in DOMAIN p.queue
    <3>1. <<"queue", k>> = <<"queue", l>>
      BY <1>7, <1>8, <2>1
    <3> QED BY ONLY <3>1
  <2>2. CASE k \notin DOMAIN p.queue /\ l \notin DOMAIN p.queue
    BY <1>3, <2>2
  <2>3. CASE k \in DOMAIN p.queue /\ l \notin DOMAIN p.queue
    <3>1. g[k] = <<"queue", k>> /\ g[l] = <<"flight", i>>
      BY <1>7, <2>3
    <3>2. <<"queue", k>> = <<"flight", i>>
      BY ONLY <1>8, <3>1
    <3> QED BY ONLY <3>2
  <2>4. CASE k \notin DOMAIN p.queue /\ l \in DOMAIN p.queue
    <3>1. g[k] = <<"flight", i>> /\ g[l] = <<"queue", l>>
      BY <1>7, <2>4
    <3>2. <<"flight", i>> = <<"queue", l>>
      BY ONLY <1>8, <3>1
    <3> QED BY ONLY <3>2
  <2> QED BY <2>1, <2>2, <2>3, <2>4
<1>9. ASSUME NEW k \in DOMAIN q.queue, NEW j \in Running(E), g[k] = h[j] PROVE FALSE
  <2>1. h[j] = <<"flight", m[j]>> /\ m[j] # i
    BY <1>1
  <2>2. CASE k \in DOMAIN p.queue
    <3>1. <<"queue", k>> = <<"flight", m[j]>>
      BY <1>7, <1>9, <2>1, <2>2
    <3> QED BY ONLY <3>1
  <2>3. CASE k \notin DOMAIN p.queue
    <3>1. <<"flight", i>> = <<"flight", m[j]>>
      BY <1>7, <1>9, <2>1, <2>3
    <3>2. i = m[j]
      BY ONLY <3>1
    <3> QED BY <2>1, <3>2
  <2> QED BY <2>2, <2>3
<1>10. \A k \in DOMAIN q.queue : \A id, s : Announces(q.queue[k], id, s) => Says(p, D, g[k], id, s)
  <2> TAKE k \in DOMAIN q.queue
  <2> TAKE id, s
  <2>1. CASE k \in DOMAIN p.queue
    BY <1>3, <1>5, <1>7, <2>1 DEF Says
  <2>2. CASE k \notin DOMAIN p.queue
    BY <1>3, <1>5, <1>6, <1>7, <2>2 DEF Says
  <2> QED BY <2>1, <2>2
<1>11. \A k \in Running(E) : \A id, s : Announces(E[k].envelope, id, s) <=> Says(p, D, h[k], id, s)
  BY <1>1 DEF Says
<1>12. ASSUME NEW id \in DOMAIN q.episodes, NEW s, NEW y \in Carriers(p, D), Says(p, D, y, id, s)
       PROVE  \/ (\E k \in DOMAIN q.queue : g[k] = y /\ Announces(q.queue[k], id, s))
              \/ (\E k \in Running(E) : h[k] = y /\ Announces(E[k].envelope, id, s))
              \/ (i \in Running(D) /\ y = <<"flight", i>> /\ Announces(env, id, s) /\ ~(more /\ Good(p, env, id)))
  <2>1. CASE y = <<"queue", y[2]>> /\ y[2] \in DOMAIN p.queue /\ LetterAt(p, D, y) = p.queue[y[2]]
    <3>1. Announces(q.queue[y[2]], id, s)
      BY <1>3, <1>12, <2>1 DEF Says
    <3>2. y[2] \in DOMAIN q.queue /\ g[y[2]] = y
      BY <1>3, <1>7, <2>1
    <3> QED BY <3>1, <3>2
  <2>2. CASE y = <<"flight", y[2]>> /\ y[2] \in Running(D)
    <3>1. CASE y[2] = i
      <4>1. y = <<"flight", i>> /\ Announces(env, id, s) /\ i \in Running(D)
        BY <1>5, <1>12, <2>2, <3>1 DEF Says
      <4>2. CASE more /\ Good(p, env, id)
        <5>1. n \in DOMAIN q.queue /\ Announces(q.queue[n], id, s) /\ n \notin DOMAIN p.queue
          BY <1>2, <1>3, <4>1, <4>2
        <5>2. g[n] = y
          BY <1>7, <4>1, <5>1
        <5> QED BY <5>1, <5>2
      <4>3. CASE ~(more /\ Good(p, env, id))
        BY <4>1, <4>3
      <4> QED BY <4>2, <4>3
    <3>2. CASE y[2] # i
      <4>1. PICK k \in Running(E) : m[k] = y[2]
        BY <2>2, <3>2 DEF Drops
      <4>2. h[k] = y
        BY <1>1, <2>2, <4>1
      <4> QED BY <1>11, <1>12, <4>2
    <3> QED BY <3>1, <3>2
  <2> QED BY <2>1, <2>2, CarrierFacts DEF CarrierKinds
<1>13. ASSUME NEW id \in DOMAIN q.episodes, NEW s \in Tokens
       PROVE  s \in MarkedTokens(q.episodes[id]) <=>
                /\ id \in DOMAIN p.episodes /\ s \in MarkedTokens(p.episodes[id])
                /\ \A y \in Carriers(p, D) :
                     Says(p, D, y, id, s) =>
                       \/ (\E k \in DOMAIN q.queue : g[k] = y /\ Announces(q.queue[k], id, s))
                       \/ (\E k \in Running(E) : h[k] = y /\ Announces(E[k].envelope, id, s))
  <2>1. ASSUME s \in MarkedTokens(q.episodes[id]), NEW y \in Carriers(p, D), Says(p, D, y, id, s)
        PROVE  \/ (\E k \in DOMAIN q.queue : g[k] = y /\ Announces(q.queue[k], id, s))
               \/ (\E k \in Running(E) : h[k] = y /\ Announces(E[k].envelope, id, s))
    BY <1>4, <1>12, <2>1
  <2>2. ASSUME i \in Running(D), Announces(env, id, s),
               \A y \in Carriers(p, D) :
                     Says(p, D, y, id, s) =>
                       \/ (\E k \in DOMAIN q.queue : g[k] = y /\ Announces(q.queue[k], id, s))
                       \/ (\E k \in Running(E) : h[k] = y /\ Announces(E[k].envelope, id, s))
        PROVE  more /\ Good(p, env, id)
    <3>1. <<"flight", i>> \in Carriers(p, D) /\ Says(p, D, <<"flight", i>>, id, s)
      BY <1>5, <2>2 DEF Says
    <3>2. ASSUME NEW k \in Running(E), h[k] = <<"flight", i>> PROVE FALSE
      <4>1. <<"flight", m[k]>> = <<"flight", i>> /\ m[k] # i
        BY <1>1, <3>2
      <4> QED BY ONLY <4>1
    <3>3. PICK k \in DOMAIN q.queue : g[k] = <<"flight", i>> /\ Announces(q.queue[k], id, s)
      BY <2>2, <3>1, <3>2
    <3>4. k \notin DOMAIN p.queue
      <4> SUFFICES ASSUME k \in DOMAIN p.queue PROVE FALSE
        OBVIOUS
      <4>1. <<"queue", k>> = <<"flight", i>>
        BY <1>7, <3>3
      <4> QED BY ONLY <4>1
    <3> QED BY <1>3, <3>3, <3>4
  <2> QED BY <1>4, <2>1, <2>2
<1>14. Transfers(p, D, q, E, g, h)
  <2>1. ASSUME NEW id \in DOMAIN q.episodes, NEW s \in Tokens
        PROVE  /\ \A k \in DOMAIN q.queue :
                    Announces(q.queue[k], id, s) => id \in DOMAIN p.episodes /\ Says(p, D, g[k], id, s)
               /\ \A k \in Running(E) :
                    Announces(E[k].envelope, id, s) => id \in DOMAIN p.episodes /\ Says(p, D, h[k], id, s)
    BY <1>4, <1>10, <1>11
  <2> QED BY <1>1, <1>7, <1>8, <1>9, <1>13, <2>1 DEF Transfers
<1> QED BY <1>14, TransferredBalanced

(* One delivery is removed from the list.                                  *)
Thins(T, D, i, E) ==
  E \in Seq(T) /\ \E m : Drops(D, i, E, m) /\ \A k \in DOMAIN E : \E j \in DOMAIN D : E[k] = D[j]

(* The places of the remaining deliveries.                                 *)
LEMMA OnlyDrops ==
  ASSUME NEW T, NEW D \in Seq(T), NEW i, NEW E, E = Only(D, DOMAIN D \ {i})
  PROVE  Thins(T, D, i, E)
<1>1. DOMAIN D \ {i} \in SUBSET DOMAIN D
  OBVIOUS
<1>2. E \in Seq(T) /\ PlacesOf(E, D, DOMAIN D \ {i})
  BY <1>1, OnlyFacts, OnlyPlaces
<1>3. PICK g \in [DOMAIN E -> DOMAIN D \ {i}] :
          /\ \A k \in DOMAIN E : E[k] = D[g[k]]
          /\ \A k, l \in DOMAIN E : g[k] = g[l] => k = l
          /\ \A j \in DOMAIN D \ {i} : \E k \in DOMAIN E : g[k] = j
  BY <1>2 DEF PlacesOf
<1> DEFINE m == [k \in Running(E) |-> g[k]]
<1>4. \A k \in Running(E) : k \in DOMAIN E /\ g[k] \in Running(D) \ {i}
  BY <1>3 DEF Running
<1>5. m \in [Running(E) -> Running(D) \ {i}] /\ \A k \in Running(E) : m[k] = g[k]
  BY <1>4
<1>6. \A j \in Running(D) \ {i} : \E k \in Running(E) : m[k] = j
  <2> TAKE j \in Running(D) \ {i}
  <2>1. PICK k \in DOMAIN E : g[k] = j
    BY <1>3 DEF Running
  <2>2. k \in Running(E)
    BY <1>3, <2>1 DEF Running
  <2> QED BY <1>5, <2>1, <2>2
<1> HIDE DEF m
<1>7. Drops(D, i, E, m)
  <2>1. \A k, l \in Running(E) : m[k] = m[l] => k = l
    <3> TAKE k, l \in Running(E)
    <3> HAVE m[k] = m[l]
    <3>1. k \in DOMAIN E /\ l \in DOMAIN E /\ g[k] = g[l]
      BY <1>4, <1>5
    <3> QED BY <1>3, <3>1
  <2>2. \A k \in Running(E) : E[k] = D[m[k]]
    <3> TAKE k \in Running(E)
    <3>1. k \in DOMAIN E /\ m[k] = g[k]
      BY <1>4, <1>5
    <3> QED BY <1>3, <3>1
  <2> QED BY <1>5, <1>6, <2>1, <2>2 DEF Drops
<1> QED BY <1>2, <1>3, <1>7, ZenonT(60) DEF Thins

(* An attempt that is marked as done runs no more.                         *)
LEMMA SelfDrops ==
  ASSUME NEW D, NEW i, NEW E, Running(E) = Running(D) \ {i}, \A k \in Running(E) : E[k].envelope = D[k].envelope
  PROVE  \E m : Drops(D, i, E, m)
<1> DEFINE m == [k \in Running(E) |-> k]
<1>1. m \in [Running(E) -> Running(D) \ {i}] /\ \A k \in Running(E) : m[k] = k
  OBVIOUS
<1> HIDE DEF m
<1>2. Drops(D, i, E, m)
  BY <1>1 DEF Drops
<1> QED BY <1>2

(* A test announces nothing.                                               *)
LEMMA TestBalanced ==
  ASSUME NEW p, NEW T, NEW D \in Seq(T), NEW d \in T, d.envelope.test, ~d.done, Balanced(p, D)
  PROVE  Balanced(p, Append(D, d))
<1> DEFINE E == Append(D, d)
           n == Len(D) + 1
<1>0. /\ Len(D) \in Nat /\ DOMAIN D = 1..Len(D) /\ n \notin DOMAIN D
      /\ DOMAIN E = DOMAIN D \cup {n} /\ E[n] = d /\ \A i \in DOMAIN D : E[i] = D[i]
  <2>1. /\ Append(D, d) \in Seq(T) /\ Len(Append(D, d)) = Len(D) + 1 /\ Len(D) \in Nat
        /\ \A i \in 1..Len(D) : Append(D, d)[i] = D[i]
        /\ Append(D, d)[Len(D) + 1] = d
    BY AppendProperties
  <2> QED BY <2>1
<1> HIDE DEF E, n
<1>1. \A x \in Carriers(p, D) : x \in Carriers(p, E) /\ \A id, s : Says(p, E, x, id, s) = Says(p, D, x, id, s)
  <2> TAKE x \in Carriers(p, D)
  <2>1. CASE x = <<"queue", x[2]>> /\ x[1] = "queue" /\ x[2] \in DOMAIN p.queue
    <3>1. LetterAt(p, D, x) = p.queue[x[2]] /\ LetterAt(p, E, x) = p.queue[x[2]] /\ x \in Carriers(p, E)
      BY <2>1 DEF LetterAt, Carriers
    <3> QED BY <3>1 DEF Says
  <2>2. CASE x = <<"flight", x[2]>> /\ x[1] = "flight" /\ x[2] \in Running(D)
    <3>1. x[2] \in Running(E) /\ E[x[2]] = D[x[2]]
      BY <1>0, <2>2 DEF Running
    <3>2. LetterAt(p, D, x) = D[x[2]].envelope /\ LetterAt(p, E, x) = E[x[2]].envelope /\ x \in Carriers(p, E)
      BY <2>2, <3>1 DEF LetterAt, Carriers
    <3> QED BY <3>1, <3>2 DEF Says
  <2> QED BY <2>1, <2>2, CarrierFacts DEF CarrierKinds
<1>2. \A x \in Carriers(p, E) : x \in Carriers(p, D) \/ \A id, s : ~Says(p, E, x, id, s)
  <2> TAKE x \in Carriers(p, E)
  <2>1. CASE x = <<"queue", x[2]>> /\ x[1] = "queue" /\ x[2] \in DOMAIN p.queue
    BY <2>1 DEF Carriers
  <2>2. CASE x = <<"flight", x[2]>> /\ x[1] = "flight" /\ x[2] \in Running(E) /\ LetterAt(p, E, x) = E[x[2]].envelope
    <3>1. CASE x[2] = n
      BY <1>0, <2>2, <3>1 DEF Says, Announces
    <3>2. CASE x[2] # n
      <4>1. x[2] \in Running(D)
        BY <1>0, <2>2, <3>2 DEF Running
      <4> QED BY <2>2, <4>1, CarrierFacts
    <3> QED BY <3>1, <3>2
  <2> QED BY <2>1, <2>2, CarrierFacts DEF CarrierKinds
<1>3. Balanced(p, E)
  BY <1>1, <1>2 DEF Balanced, Says
<1> QED BY <1>3 DEF E
===============================================================================
