------------------------- MODULE AlarmEngineProofs -------------------------
(***************************************************************************)
(* Theorems about the alarm engine for any tree, any options and any       *)
(* inputs: its types, the summaries of every group, and the acknowledgement*)
(* latches.  The facts about the operators of AlarmState, that moving one  *)
(* leaf keeps a summary equal to a fresh count, come first.                *)
(***************************************************************************)
EXTENDS AlarmEngine, FiniteSetTheorems, SequenceTheorems, WellFoundedInduction, TLAPS

(***************************************************************************)
(* Types.                                                                  *)
(***************************************************************************)

(* highest returns a severity whatever the counters hold.                  *)
LEMMA HighestType ==
  ASSUME NEW counts
  PROVE  Highest(counts) \in Severity
<1> DEFINE seen == {i \in Raised : counts[i] > 0}
<1>1. CASE seen = {}
  BY <1>1 DEF Highest, Severity, Error
<1>2. CASE seen # {}
  <2>1. seen \subseteq 1..4
    BY DEF Raised, Error
  <2>2. \E i \in seen : \A j \in seen : i >= j
    <3>1. CASE 4 \in seen  BY <3>1, <2>1
    <3>2. CASE 4 \notin seen /\ 3 \in seen  BY <3>2, <2>1
    <3>3. CASE 4 \notin seen /\ 3 \notin seen /\ 2 \in seen  BY <3>3, <2>1
    <3>4. CASE seen \subseteq {1}  BY <3>4, <1>2
    <3> QED  BY <3>1, <3>2, <3>3, <3>4, <2>1
  <2>3. Highest(counts) \in seen
    BY <1>2, <2>2 DEF Highest
  <2> QED  BY <2>1, <2>3 DEF Severity, Error
<1> QED  BY <1>1, <1>2

(* A leaf is what one channel adds to a group's counters.                  *)
Leaf == [severity : -1..4, unack : Severity, beep : Severity]

LEMMA ChannelValueTypes ==
  ASSUME NEW s \in ChannelState, NEW t \in Severity
  PROVE  /\ Effective(s) \in Severity
         /\ Unacknowledged(s) \in Severity
         /\ Beep(s, t) \in Severity
  BY DEF Effective, Unacknowledged, Beep, ChannelState, Severity, Error

LEMMA LeafTypes ==
  ASSUME NEW c \in Channels, NEW s \in ChannelState, NEW g,
         NEW th \in [Nodes -> Severity]
  PROVE  /\ Contribution(c, s, g, th) \in Leaf
         /\ Presented(c, s, g, th) \in Leaf
<1>1. th[c] \in Severity
  BY DEF Nodes
<1>2. /\ Effective(s) \in Severity
      /\ Unacknowledged(s) \in Severity
      /\ Beep(s, th[c]) \in Severity
  BY <1>1, ChannelValueTypes
<1>3. Contribution(c, s, g, th) \in Leaf
  BY <1>2 DEF Contribution, Leaf, Severity, Error
<1>4. Absent \in Leaf
  BY DEF Absent, Leaf, Severity, Error
<1> QED  BY <1>3, <1>4 DEF Presented

LEMMA SummaryType ==
  ASSUME NEW counts \in [Severity -> Int], NEW unackCounts \in [Raised -> Int],
         NEW beepCounts \in [Raised -> Int], NEW t \in Severity
  PROVE  Summary(counts, unackCounts, beepCounts, t) \in Tally
<1>1. /\ Highest(counts) \in Severity
      /\ Highest(unackCounts) \in Severity
      /\ Highest(beepCounts) \in Severity
  BY HighestType
<1> QED  BY <1>1 DEF Summary, Tally, Severity, Error

LEMMA ShiftType ==
  ASSUME NEW S, NEW counts \in [S -> Int], NEW from, NEW to
  PROVE  Shift(counts, from, to) \in [S -> Int]
  BY DEF Shift

LEMMA MoveType ==
  ASSUME NEW tally \in Tally, NEW from, NEW to, NEW t \in Severity
  PROVE  Move(tally, from, to, t) \in Tally
<1>1. /\ tally.counts \in [Severity -> Int]
      /\ tally.unackCounts \in [Raised -> Int]
      /\ tally.beepCounts \in [Raised -> Int]
  BY DEF Tally
<1> QED  BY <1>1, ShiftType, SummaryType DEF Move

(***************************************************************************)
(* Counting: a finite set that changes in one element, and a summary of    *)
(* leaves of which one changes.                                            *)
(***************************************************************************)
One(b) == IF b THEN 1 ELSE 0

LEMMA CountChange ==
  ASSUME NEW A, NEW B, NEW c, IsFiniteSet(A), A \ {c} = B \ {c}
  PROVE  /\ IsFiniteSet(B)
         /\ Cardinality(A) \in Nat
         /\ Cardinality(B) = Cardinality(A) - One(c \in A) + One(c \in B)
<1>1. /\ IsFiniteSet(A \ {c})
      /\ Cardinality(A \ {c}) = Cardinality(A) - One(c \in A)
      /\ Cardinality(A) \in Nat
      /\ Cardinality(A \ {c}) \in Nat
  BY FS_RemoveElement, FS_CardinalityType DEF One
<1>2. CASE c \in B
  <2>1. B = (A \ {c}) \cup {c} /\ c \notin A \ {c}
    BY <1>2
  <2>2. IsFiniteSet(B) /\ Cardinality(B) = Cardinality(A \ {c}) + 1
    BY <2>1, <1>1, FS_AddElement
  <2> QED  BY <1>1, <1>2, <2>2 DEF One
<1>3. CASE c \notin B
  <2>1. B = A \ {c}
    BY <1>3
  <2> QED  BY <1>1, <1>3, <2>1 DEF One
<1> QED  BY <1>2, <1>3

LEMMA HowManyChange ==
  ASSUME NEW S, IsFiniteSet(S), NEW old, NEW new, NEW c \in S, NEW k,
         \A x \in S \ {c} : new[x] = old[x]
  PROVE  /\ HowMany(S, old, k) \in Nat
         /\ HowMany(S, new, k) = HowMany(S, old, k)
                - (IF k = old[c] THEN 1 ELSE 0) + (IF k = new[c] THEN 1 ELSE 0)
<1> DEFINE A == {x \in S : old[x] = k}
           B == {x \in S : new[x] = k}
<1>1. IsFiniteSet(A)
  BY FS_Subset
<1>2. A \ {c} = B \ {c}
  OBVIOUS
<1>3. (c \in A <=> k = old[c]) /\ (c \in B <=> k = new[c])
  OBVIOUS
<1> HIDE DEF A, B
<1>4. /\ Cardinality(A) \in Nat
      /\ Cardinality(B) = Cardinality(A) - One(c \in A) + One(c \in B)
  BY <1>1, <1>2, CountChange
<1> QED  BY <1>3, <1>4 DEF HowMany, One, A, B

LEMMA CountsShift ==
  ASSUME NEW S, IsFiniteSet(S), NEW K, NEW old, NEW new, NEW c \in S,
         \A x \in S \ {c} : new[x] = old[x]
  PROVE  [k \in K |-> HowMany(S, new, k)]
           = Shift([k \in K |-> HowMany(S, old, k)], old[c], new[c])
<1>1. \A k \in K : HowMany(S, new, k) = HowMany(S, old, k)
         - (IF k = old[c] THEN 1 ELSE 0) + (IF k = new[c] THEN 1 ELSE 0)
  BY HowManyChange
<1> QED  BY <1>1 DEF Shift

(* A fresh count after one leaf changed is the old count moved by it.      *)
LEMMA RecountMoves ==
  ASSUME NEW S, IsFiniteSet(S), NEW old, NEW new, NEW c \in S, NEW t,
         \A x \in S \ {c} : new[x] = old[x]
  PROVE  Recount(S, new, t) = Move(Recount(S, old, t), old[c], new[c], t)
<1>1. [k \in Severity |-> HowMany(S, [x \in S |-> new[x].severity], k)]
        = Shift([k \in Severity |-> HowMany(S, [x \in S |-> old[x].severity], k)],
                old[c].severity, new[c].severity)
  <2> DEFINE was == [x \in S |-> old[x].severity]
             is  == [x \in S |-> new[x].severity]
  <2>1. \A x \in S \ {c} : is[x] = was[x]
    OBVIOUS
  <2>2. was[c] = old[c].severity /\ is[c] = new[c].severity
    OBVIOUS
  <2> HIDE DEF was, is
  <2>3. [k \in Severity |-> HowMany(S, is, k)]
          = Shift([k \in Severity |-> HowMany(S, was, k)], was[c], is[c])
    BY <2>1, CountsShift
  <2> QED  BY <2>2, <2>3 DEF was, is
<1>2. [k \in Raised |-> HowMany(S, [x \in S |-> new[x].unack], k)]
        = Shift([k \in Raised |-> HowMany(S, [x \in S |-> old[x].unack], k)],
                old[c].unack, new[c].unack)
  <2> DEFINE was == [x \in S |-> old[x].unack]
             is  == [x \in S |-> new[x].unack]
  <2>1. \A x \in S \ {c} : is[x] = was[x]
    OBVIOUS
  <2>2. was[c] = old[c].unack /\ is[c] = new[c].unack
    OBVIOUS
  <2> HIDE DEF was, is
  <2>3. [k \in Raised |-> HowMany(S, is, k)]
          = Shift([k \in Raised |-> HowMany(S, was, k)], was[c], is[c])
    BY <2>1, CountsShift
  <2> QED  BY <2>2, <2>3 DEF was, is
<1>3. [k \in Raised |-> HowMany(S, [x \in S |-> new[x].beep], k)]
        = Shift([k \in Raised |-> HowMany(S, [x \in S |-> old[x].beep], k)],
                old[c].beep, new[c].beep)
  <2> DEFINE was == [x \in S |-> old[x].beep]
             is  == [x \in S |-> new[x].beep]
  <2>1. \A x \in S \ {c} : is[x] = was[x]
    OBVIOUS
  <2>2. was[c] = old[c].beep /\ is[c] = new[c].beep
    OBVIOUS
  <2> HIDE DEF was, is
  <2>3. [k \in Raised |-> HowMany(S, is, k)]
          = Shift([k \in Raised |-> HowMany(S, was, k)], was[c], is[c])
    BY <2>1, CountsShift
  <2> QED  BY <2>2, <2>3 DEF was, is
<1> QED  BY <1>1, <1>2, <1>3 DEF Recount, Summary, Move

(***************************************************************************)
(* The summaries of one group, counted afresh.                             *)
(***************************************************************************)
LEMMA BelowFinite ==
  ASSUME NEW g
  PROVE  IsFiniteSet(Below(g)) /\ Below(g) \subseteq Channels
<1>1. IsFiniteSet(Channels)
  BY TreeTyping
<1> QED  BY <1>1, FS_Subset DEF Below

LEMMA RecountType ==
  ASSUME NEW S, IsFiniteSet(S), NEW leaf, NEW t \in Severity
  PROVE  Recount(S, leaf, t) \in Tally
<1>1. \A f, k : HowMany(S, f, k) \in Int
  <2> SUFFICES ASSUME NEW f, NEW k PROVE HowMany(S, f, k) \in Int
    OBVIOUS
  <2>1. IsFiniteSet({x \in S : f[x] = k})
    BY FS_Subset
  <2> QED  BY <2>1, FS_CardinalityType DEF HowMany
<1>2. /\ [k \in Severity |-> HowMany(S, [x \in S |-> leaf[x].severity], k)] \in [Severity -> Int]
      /\ [k \in Raised |-> HowMany(S, [x \in S |-> leaf[x].unack], k)] \in [Raised -> Int]
      /\ [k \in Raised |-> HowMany(S, [x \in S |-> leaf[x].beep], k)] \in [Raised -> Int]
  BY <1>1
<1> QED  BY <1>2, SummaryType DEF Recount

LEMMA RecountAllType ==
  ASSUME NEW g \in Groups, NEW states, NEW th \in [Nodes -> Severity]
  PROVE  /\ RecountAll(g, states, th) \in Tally
         /\ RecountShown(g, states, th) \in Tally
         /\ RecountShelved(g, states) \in Int
         /\ RecountMask(g, states) \in [MaskBits -> Int]
<1>1. IsFiniteSet(Below(g)) /\ th[g] \in Severity
  BY BelowFinite DEF Nodes
<1>2. /\ RecountAll(g, states, th) \in Tally
      /\ RecountShown(g, states, th) \in Tally
  BY <1>1, RecountType DEF RecountAll, RecountShown
<1>3. RecountShelved(g, states) \in Int
  <2>1. IsFiniteSet({x \in Below(g) : states[x].shelf # 0})
    BY <1>1, FS_Subset
  <2> QED  BY <2>1, FS_CardinalityType DEF RecountShelved
<1>4. \A b \in MaskBits : Cardinality({x \in Below(g) : b \in states[x].mask}) \in Int
  <2> SUFFICES ASSUME NEW b \in MaskBits
               PROVE  Cardinality({x \in Below(g) : b \in states[x].mask}) \in Int
    OBVIOUS
  <2>1. IsFiniteSet({x \in Below(g) : b \in states[x].mask})
    BY <1>1, FS_Subset
  <2> QED  BY <2>1, FS_CardinalityType
<1> QED  BY <1>2, <1>3, <1>4 DEF RecountMask

(***************************************************************************)
(* One channel changes: what a fresh count of each group becomes.          *)
(***************************************************************************)
Changed(new, states, c, s) == new = [states EXCEPT ![c] = s]

LEMMA RecountElsewhere ==
  ASSUME NEW g \in Groups, NEW c \in Channels, g \notin Ancestors[c],
         NEW states \in [Channels -> ChannelState], NEW s,
         NEW new, Changed(new, states, c, s),
         NEW th \in [Nodes -> Severity]
  PROVE  /\ RecountAll(g, new, th) = RecountAll(g, states, th)
         /\ RecountShown(g, new, th) = RecountShown(g, states, th)
         /\ RecountShelved(g, new) = RecountShelved(g, states)
         /\ RecountMask(g, new) = RecountMask(g, states)
<1>1. \A x \in Below(g) : new[x] = states[x]
  BY DEF Below, Changed
<1>2. RecountAll(g, new, th) = RecountAll(g, states, th)
  <2>1. [x \in Below(g) |-> Contribution(x, new[x], g, th)]
          = [x \in Below(g) |-> Contribution(x, states[x], g, th)]
    BY <1>1
  <2> QED  BY <2>1 DEF RecountAll
<1>3. RecountShown(g, new, th) = RecountShown(g, states, th)
  <2>1. [x \in Below(g) |-> Presented(x, new[x], g, th)]
          = [x \in Below(g) |-> Presented(x, states[x], g, th)]
    BY <1>1
  <2> QED  BY <2>1 DEF RecountShown
<1>4. RecountShelved(g, new) = RecountShelved(g, states)
  <2>1. {x \in Below(g) : new[x].shelf # 0} = {x \in Below(g) : states[x].shelf # 0}
    BY <1>1
  <2> QED  BY <2>1 DEF RecountShelved
<1>5. RecountMask(g, new) = RecountMask(g, states)
  <2>1. \A b \in MaskBits : {x \in Below(g) : b \in new[x].mask}
                              = {x \in Below(g) : b \in states[x].mask}
    BY <1>1
  <2> QED  BY <2>1 DEF RecountMask
<1> QED  BY <1>2, <1>3, <1>4, <1>5

LEMMA RecountAbove ==
  ASSUME NEW g \in Groups, NEW c \in Channels, g \in Ancestors[c],
         NEW states \in [Channels -> ChannelState], NEW s,
         NEW new, Changed(new, states, c, s),
         NEW th \in [Nodes -> Severity]
  PROVE  /\ RecountAll(g, new, th)
              = Move(RecountAll(g, states, th), Contribution(c, states[c], g, th),
                     Contribution(c, s, g, th), th[g])
         /\ RecountShown(g, new, th)
              = Move(RecountShown(g, states, th), Presented(c, states[c], g, th),
                     Presented(c, s, g, th), th[g])
         /\ RecountShelved(g, new)
              = RecountShelved(g, states) + One(s.shelf # 0) - One(states[c].shelf # 0)
         /\ \A b \in MaskBits :
              RecountMask(g, new)[b]
                = RecountMask(g, states)[b] + One(b \in s.mask) - One(b \in states[c].mask)
<1>1. c \in Below(g) /\ IsFiniteSet(Below(g)) /\ Below(g) \subseteq Channels
  BY BelowFinite DEF Below
<1>2. new[c] = s /\ \A x \in Below(g) \ {c} : new[x] = states[x]
  BY <1>1 DEF Changed
<1>3. RecountAll(g, new, th) = Move(RecountAll(g, states, th), Contribution(c, states[c], g, th),
                                    Contribution(c, s, g, th), th[g])
  <2> DEFINE was == [x \in Below(g) |-> Contribution(x, states[x], g, th)]
             is  == [x \in Below(g) |-> Contribution(x, new[x], g, th)]
  <2>1. \A x \in Below(g) \ {c} : is[x] = was[x]
    BY <1>2
  <2>2. was[c] = Contribution(c, states[c], g, th) /\ is[c] = Contribution(c, s, g, th)
    BY <1>1, <1>2
  <2>3. RecountAll(g, new, th) = Recount(Below(g), is, th[g])
        /\ RecountAll(g, states, th) = Recount(Below(g), was, th[g])
    BY DEF RecountAll
  <2> HIDE DEF was, is
  <2>4. Recount(Below(g), is, th[g]) = Move(Recount(Below(g), was, th[g]), was[c], is[c], th[g])
    BY <1>1, <2>1, RecountMoves
  <2> QED  BY <2>2, <2>3, <2>4
<1>4. RecountShown(g, new, th) = Move(RecountShown(g, states, th), Presented(c, states[c], g, th),
                                      Presented(c, s, g, th), th[g])
  <2> DEFINE was == [x \in Below(g) |-> Presented(x, states[x], g, th)]
             is  == [x \in Below(g) |-> Presented(x, new[x], g, th)]
  <2>1. \A x \in Below(g) \ {c} : is[x] = was[x]
    BY <1>2
  <2>2. was[c] = Presented(c, states[c], g, th) /\ is[c] = Presented(c, s, g, th)
    BY <1>1, <1>2
  <2>3. RecountShown(g, new, th) = Recount(Below(g), is, th[g])
        /\ RecountShown(g, states, th) = Recount(Below(g), was, th[g])
    BY DEF RecountShown
  <2> HIDE DEF was, is
  <2>4. Recount(Below(g), is, th[g]) = Move(Recount(Below(g), was, th[g]), was[c], is[c], th[g])
    BY <1>1, <2>1, RecountMoves
  <2> QED  BY <2>2, <2>3, <2>4
<1>5. RecountShelved(g, new)
        = RecountShelved(g, states) + One(s.shelf # 0) - One(states[c].shelf # 0)
  <2> DEFINE was == {x \in Below(g) : states[x].shelf # 0}
             is  == {x \in Below(g) : new[x].shelf # 0}
  <2>1. IsFiniteSet(was) /\ was \ {c} = is \ {c}
    BY <1>1, <1>2, FS_Subset
  <2>2. (c \in was <=> states[c].shelf # 0) /\ (c \in is <=> s.shelf # 0)
    BY <1>1, <1>2
  <2> HIDE DEF was, is
  <2>3. /\ Cardinality(was) \in Nat
        /\ Cardinality(is) = Cardinality(was) - One(c \in was) + One(c \in is)
    BY <2>1, CountChange
  <2>4. /\ Cardinality(is) = RecountShelved(g, new)
        /\ Cardinality(was) = RecountShelved(g, states)
    BY DEF RecountShelved, is, was
  <2> QED  BY <2>2, <2>3, <2>4 DEF One
<1>6. ASSUME NEW b \in MaskBits
      PROVE  RecountMask(g, new)[b]
               = RecountMask(g, states)[b] + One(b \in s.mask) - One(b \in states[c].mask)
  <2> DEFINE was == {x \in Below(g) : b \in states[x].mask}
             is  == {x \in Below(g) : b \in new[x].mask}
  <2>1. IsFiniteSet(was) /\ was \ {c} = is \ {c}
    BY <1>1, <1>2, FS_Subset
  <2>2. (c \in was <=> b \in states[c].mask) /\ (c \in is <=> b \in s.mask)
    BY <1>1, <1>2
  <2> HIDE DEF was, is
  <2>3. /\ Cardinality(was) \in Nat
        /\ Cardinality(is) = Cardinality(was) - One(c \in was) + One(c \in is)
    BY <2>1, CountChange
  <2>4. /\ Cardinality(is) = RecountMask(g, new)[b]
        /\ Cardinality(was) = RecountMask(g, states)[b]
    BY DEF RecountMask, is, was
  <2> QED  BY <2>2, <2>3, <2>4 DEF One
<1> QED  BY <1>3, <1>4, <1>5, <1>6

(***************************************************************************)
(* propagate and updatePresentation keep the summaries of every group.     *)
(***************************************************************************)
LEMMA UpdatePresentationType ==
  ASSUME NEW groups \in [Groups -> GroupState], NEW c \in Channels,
         NEW before, NEW after, NEW th \in [Nodes -> Severity]
  PROVE  UpdatePresentation(groups, c, before, after, th) \in [Groups -> GroupState]
<1> SUFFICES ASSUME NEW g \in Groups
             PROVE  UpdatePresentation(groups, c, before, after, th)[g] \in GroupState
  BY DEF UpdatePresentation
<1>1. th[g] \in Severity /\ groups[g] \in GroupState
  BY DEF Nodes
<1>2. Move(groups[g].shown, Presented(c, before, g, th), Presented(c, after, g, th), th[g]) \in Tally
  BY <1>1, MoveType DEF GroupState
<1> DEFINE m == Move(groups[g].shown, Presented(c, before, g, th), Presented(c, after, g, th), th[g])
           k == groups[g].shelved + (IF after.shelf # 0 THEN 1 ELSE 0)
                                  - (IF before.shelf # 0 THEN 1 ELSE 0)
<1>3. UpdatePresentation(groups, c, before, after, th)[g]
        = IF g \notin Ancestors[c] THEN groups[g] ELSE [groups[g] EXCEPT !.shown = m, !.shelved = k]
  BY DEF UpdatePresentation
<1>4. m \in Tally /\ k \in Int
  BY <1>1, <1>2 DEF GroupState
<1> HIDE DEF m, k
<1> QED  BY <1>1, <1>3, <1>4 DEF GroupState

LEMMA PropagateType ==
  ASSUME NEW groups \in [Groups -> GroupState], NEW c \in Channels,
         NEW before, NEW after, NEW th \in [Nodes -> Severity]
  PROVE  Propagate(groups, c, before, after, th) \in [Groups -> GroupState]
<1> DEFINE shown == UpdatePresentation(groups, c, before, after, th)
<1>1. shown \in [Groups -> GroupState]
  BY UpdatePresentationType
<1> SUFFICES ASSUME NEW g \in Groups
             PROVE  Propagate(groups, c, before, after, th)[g] \in GroupState
  BY DEF Propagate
<1>2. th[g] \in Severity /\ groups[g] \in GroupState /\ shown[g] \in GroupState
  BY <1>1 DEF Nodes
<1> HIDE DEF shown
<1>3. Move(shown[g].all, Contribution(c, before, g, th), Contribution(c, after, g, th), th[g])
        \in Tally
  BY <1>2, MoveType DEF GroupState
<1>4. [b \in MaskBits |-> shown[g].maskCounts[b] + (IF b \in after.mask THEN 1 ELSE 0)
                            - (IF b \in before.mask THEN 1 ELSE 0)] \in [MaskBits -> Int]
  BY <1>2 DEF GroupState
<1>5. shown[g].initialized \/ SeverityEvent(before, after) \in BOOLEAN
  BY <1>2 DEF GroupState, SeverityEvent
<1> QED  BY <1>2, <1>3, <1>4, <1>5 DEF Propagate, GroupState, shown

(* Every summary a group keeps is what a fresh count would give.           *)
Counts(groups, states, th) ==
  \A g \in Groups : /\ groups[g].all = RecountAll(g, states, th)
                    /\ groups[g].shown = RecountShown(g, states, th)
                    /\ groups[g].shelved = RecountShelved(g, states)
                    /\ groups[g].maskCounts = RecountMask(g, states)

LEMMA PropagateCounts ==
  ASSUME NEW groups \in [Groups -> GroupState],
         NEW states \in [Channels -> ChannelState],
         NEW th \in [Nodes -> Severity],
         Counts(groups, states, th),
         NEW c \in Channels, NEW s
  PROVE  Counts(Propagate(groups, c, states[c], s, th), [states EXCEPT ![c] = s], th)
<1> DEFINE new == [states EXCEPT ![c] = s]
           moved == Propagate(groups, c, states[c], s, th)
<1> SUFFICES ASSUME NEW g \in Groups
             PROVE  /\ moved[g].all = RecountAll(g, new, th)
                    /\ moved[g].shown = RecountShown(g, new, th)
                    /\ moved[g].shelved = RecountShelved(g, new)
                    /\ moved[g].maskCounts = RecountMask(g, new)
  BY DEF Counts
<1>1. /\ groups[g].all = RecountAll(g, states, th)
      /\ groups[g].shown = RecountShown(g, states, th)
      /\ groups[g].shelved = RecountShelved(g, states)
      /\ groups[g].maskCounts = RecountMask(g, states)
  BY DEF Counts
<1>2. CASE g \notin Ancestors[c]
  <2>1. moved[g] = groups[g]
    BY <1>2 DEF Propagate
  <2>2. Changed(new, states, c, s)
    BY DEF Changed
  <2> HIDE DEF moved, new
  <2> QED  BY <1>1, <1>2, <2>1, <2>2, RecountElsewhere
<1>3. CASE g \in Ancestors[c]
  <2>1. groups[g] \in GroupState
    OBVIOUS
  <2>2. /\ moved[g].all = Move(groups[g].all, Contribution(c, states[c], g, th),
                               Contribution(c, s, g, th), th[g])
        /\ moved[g].shown = Move(groups[g].shown, Presented(c, states[c], g, th),
                                 Presented(c, s, g, th), th[g])
        /\ moved[g].shelved = groups[g].shelved + One(s.shelf # 0) - One(states[c].shelf # 0)
        /\ moved[g].maskCounts = [b \in MaskBits |-> groups[g].maskCounts[b]
                                     + One(b \in s.mask) - One(b \in states[c].mask)]
    BY <1>3, <2>1 DEF Propagate, UpdatePresentation, One, GroupState
  <2>5. Changed(new, states, c, s)
    BY DEF Changed
  <2> HIDE DEF moved, new
  <2>3. /\ RecountAll(g, new, th) = moved[g].all
        /\ RecountShown(g, new, th) = moved[g].shown
        /\ RecountShelved(g, new) = moved[g].shelved
    BY <1>1, <1>3, <2>2, <2>5, RecountAbove
  <2>4. RecountMask(g, new) = moved[g].maskCounts
    <3>1. \A b \in MaskBits : RecountMask(g, new)[b] = groups[g].maskCounts[b]
             + One(b \in s.mask) - One(b \in states[c].mask)
      BY <1>1, <1>3, <2>5, RecountAbove
    <3>2. RecountMask(g, new) = [b \in MaskBits |-> RecountMask(g, new)[b]]
      BY DEF RecountMask
    <3> QED  BY <2>2, <3>1, <3>2
  <2> QED  BY <2>3, <2>4
<1> QED  BY <1>2, <1>3

(* A change of nothing but the shelf.                                      *)
LEMMA UpdatePresentationCounts ==
  ASSUME NEW groups \in [Groups -> GroupState],
         NEW states \in [Channels -> ChannelState],
         NEW th \in [Nodes -> Severity],
         Counts(groups, states, th),
         NEW c \in Channels, NEW until
  PROVE  Counts(UpdatePresentation(groups, c, states[c], [states[c] EXCEPT !.shelf = until], th),
                [states EXCEPT ![c] = [states[c] EXCEPT !.shelf = until]], th)
<1> DEFINE s == [states[c] EXCEPT !.shelf = until]
           new == [states EXCEPT ![c] = s]
           moved == UpdatePresentation(groups, c, states[c], s, th)
<1> SUFFICES ASSUME NEW g \in Groups
             PROVE  /\ moved[g].all = RecountAll(g, new, th)
                    /\ moved[g].shown = RecountShown(g, new, th)
                    /\ moved[g].shelved = RecountShelved(g, new)
                    /\ moved[g].maskCounts = RecountMask(g, new)
  BY DEF Counts
<1>1. /\ groups[g].all = RecountAll(g, states, th)
      /\ groups[g].shown = RecountShown(g, states, th)
      /\ groups[g].shelved = RecountShelved(g, states)
      /\ groups[g].maskCounts = RecountMask(g, states)
  BY DEF Counts
<1>2. RecountAll(g, new, th) = RecountAll(g, states, th)
  <2>1. \A x \in Channels : Contribution(x, new[x], g, th) = Contribution(x, states[x], g, th)
    <3>1. states[c] \in ChannelState
      OBVIOUS
    <3>2. s.severity = states[c].severity /\ s.unack = states[c].unack /\ s.mask = states[c].mask
      BY <3>1 DEF ChannelState
    <3> QED  BY <3>2 DEF Contribution, Beep, Unacknowledged, Effective, Suppressed
  <2>2. Below(g) \subseteq Channels
    BY BelowFinite
  <2>3. [x \in Below(g) |-> Contribution(x, new[x], g, th)]
          = [x \in Below(g) |-> Contribution(x, states[x], g, th)]
    BY <2>1, <2>2
  <2> QED  BY <2>3 DEF RecountAll
<1>3. RecountMask(g, new) = RecountMask(g, states)
  <2>1. \A x \in Channels : new[x].mask = states[x].mask
    BY DEF ChannelState
  <2>2. \A b \in MaskBits : {x \in Below(g) : b \in new[x].mask}
                              = {x \in Below(g) : b \in states[x].mask}
    BY <2>1, BelowFinite
  <2> QED  BY <2>2 DEF RecountMask
<1>4. CASE g \notin Ancestors[c]
  <2>1. moved[g] = groups[g]
    BY <1>4 DEF UpdatePresentation
  <2>2. Changed(new, states, c, s)
    BY DEF Changed
  <2> HIDE DEF moved, new, s
  <2> QED  BY <1>1, <1>4, <2>1, <2>2, RecountElsewhere
<1>5. CASE g \in Ancestors[c]
  <2>1. groups[g] \in GroupState
    OBVIOUS
  <2>2. /\ moved[g].all = groups[g].all /\ moved[g].maskCounts = groups[g].maskCounts
        /\ moved[g].shown = Move(groups[g].shown, Presented(c, states[c], g, th),
                                 Presented(c, s, g, th), th[g])
        /\ moved[g].shelved = groups[g].shelved + One(s.shelf # 0) - One(states[c].shelf # 0)
    <3> HIDE DEF s
    <3> QED  BY <1>5, <2>1 DEF UpdatePresentation, One, GroupState
  <2>4. Changed(new, states, c, s)
    BY DEF Changed
  <2> HIDE DEF moved, new, s
  <2>3. RecountShown(g, new, th) = moved[g].shown /\ RecountShelved(g, new) = moved[g].shelved
    BY <1>1, <1>5, <2>2, <2>4, RecountAbove
  <2> QED  BY <1>1, <1>2, <1>3, <2>2, <2>3
<1> QED  BY <1>4, <1>5

(***************************************************************************)
(* What a processed event leaves in a channel.                             *)
(***************************************************************************)
LEMMA ProcessedType ==
  ASSUME NEW s \in ChannelState, NEW e \in Event, NEW seen \in Severity
  PROVE  /\ Processed(s, e, seen) \in ChannelState
         /\ Processed(s, e, seen).edges = s.edges
<1> DEFINE mask == IF Global /\ e.ackt = 0 THEN s.mask \cup {"AckT"}
                   ELSE IF Global /\ e.ackt = 1 THEN s.mask \ {"AckT"}
                   ELSE s.mask
           comm == IF seen = Error
                   THEN s.commUnack \/ ~s.initialized \/ s.observed # Error
                          \/ s.status # e.status
                   ELSE s.commUnack /\ "AckT" \notin mask
           acks == IF seen = Error THEN s.iocUnack ELSE e.acks
           latches == /\ IsTransition(s, e)
                      /\ mask \cap {"Disable", "Ack"} = {}
                      /\ e.severity >= s.unack \/ "AckT" \in mask
           unack == CASE Global /\ comm     -> Error
                      [] Global /\ ~comm    -> acks
                      [] ~Global /\ latches -> e.severity
                      [] OTHER              -> s.unack
<1>1. mask \in Mask
  BY DEF Mask, MaskBits, ChannelState
<1>2. comm \in BOOLEAN /\ acks \in Severity
  BY DEF ChannelState, Event
<1>3. unack \in Severity
  <2>1. Error \in Severity /\ e.severity \in Severity /\ s.unack \in Severity
    BY DEF Severity, Error, Event, ChannelState
  <2> HIDE DEF comm, acks, latches
  <2>2. Global \in BOOLEAN
    BY OptionTyping
  <2> QED  BY <1>2, <2>1, <2>2
<1>4. Processed(s, e, seen) =
        [s EXCEPT !.observed = seen, !.awaiting = FALSE, !.initialized = TRUE,
                  !.status = e.status, !.severity = e.severity, !.mask = mask,
                  !.commUnack = IF Global THEN comm ELSE @,
                  !.iocUnack = IF Global THEN acks ELSE @,
                  !.unack = unack]
  BY DEF Processed
<1> HIDE DEF mask, comm, acks, unack
<1>5. /\ e.status \in Nat /\ e.severity \in Severity
      /\ (IF Global THEN comm ELSE s.commUnack) \in BOOLEAN
      /\ (IF Global THEN acks ELSE s.iocUnack) \in Severity
  BY <1>2 DEF ChannelState, Event
<1> DEFINE k == IF Global THEN comm ELSE s.commUnack
           i == IF Global THEN acks ELSE s.iocUnack
           t == Processed(s, e, seen)
<1>6. t = [s EXCEPT !.observed = seen, !.awaiting = FALSE, !.initialized = TRUE,
                    !.status = e.status, !.severity = e.severity, !.mask = mask,
                    !.commUnack = k, !.iocUnack = i, !.unack = unack]
  BY <1>4
<1>7. k \in BOOLEAN /\ i \in Severity
  BY <1>5
<1> HIDE DEF k, i, t
<1>8. t.edges = s.edges
  BY <1>6 DEF ChannelState
<1> DEFINE a == [s EXCEPT !.observed = seen, !.awaiting = FALSE, !.initialized = TRUE,
                          !.status = e.status]
           b == [a EXCEPT !.severity = e.severity, !.mask = mask, !.commUnack = k]
<1>9. a \in ChannelState
  BY <1>5 DEF ChannelState
<1>10. t = [b EXCEPT !.iocUnack = i, !.unack = unack]
  BY <1>6
<1> HIDE DEF a
<1>11. b \in ChannelState
  BY <1>1, <1>5, <1>7, <1>9 DEF ChannelState
<1> HIDE DEF b
<1>12. t \in ChannelState
  BY <1>3, <1>7, <1>10, <1>11 DEF ChannelState
<1> QED  BY <1>8, <1>12 DEF t
-----------------------------------------------------------------------------

(***************************************************************************)
(* The inductive invariant.  A channel is sound when its fields have their *)
(* types, the ring of its count filter is not empty, and its latch agrees  *)
(* with its mask (local) or with its two sources (global).                 *)
(***************************************************************************)
Sound(c, s) ==
  /\ s \in ChannelState
  /\ FilterCount[c] > 0 => s.edges # << >>
  /\ ~Global => (s.mask \cap {"Ack", "Disable"} # {} => s.unack = 0)
  /\ Global => s.unack = IF s.commUnack THEN Error ELSE s.iocUnack

Core ==
  /\ ch \in [Channels -> ChannelState]
  /\ \A c \in Channels : Sound(c, ch[c])
  /\ grp \in [Groups -> GroupState]
  /\ threshold \in [Nodes -> Severity]
  /\ silence \in [current : BOOLEAN, forever : BOOLEAN, until : Nat]
  /\ output \in [Nodes -> -2..4]
  /\ Counts(grp, ch, threshold)

Timers ==
  /\ noAckUntil \in [Nodes -> Nat]
  /\ nextStateDeadline \in Nat /\ nextShelfDeadline \in Nat
  /\ dispatching \in BOOLEAN

Requests ==
  /\ requested \subseteq Channels
  /\ pendingForce \subseteq PendingForce

Clocks == mono \in Nat /\ wall \in Nat

Agenda == todo \in Seq(Task)

IInv == Core /\ Timers /\ Requests /\ Clocks /\ Agenda

(***************************************************************************)
(* Changing one channel.                                                   *)
(***************************************************************************)
LEMMA CommitKeeps ==
  ASSUME Core, UNCHANGED threshold,
         NEW c \in Channels, NEW s, Sound(c, s),
         NEW own \in -2..4, NEW publish,
         Commit(c, s, own, publish)
  PROVE  Core'
<1>1. ch' = [ch EXCEPT ![c] = s] /\ s \in ChannelState
  BY DEF Commit, Sound
<1>2. ch' \in [Channels -> ChannelState]
  BY <1>1 DEF Core
<1>3. \A d \in Channels : Sound(d, ch'[d])
  BY <1>1 DEF Core
<1>4. grp' = Propagate(grp, c, ch[c], s, threshold)
  BY DEF Commit
<1>5. grp' \in [Groups -> GroupState]
  BY <1>4, PropagateType DEF Core
<1>6. Counts(grp', ch', threshold)
  BY <1>1, <1>4, PropagateCounts DEF Core
<1>7. silence' \in [current : BOOLEAN, forever : BOOLEAN, until : Nat]
  BY DEF Commit, Core
<1>8. output' \in [Nodes -> -2..4]
  <2>1. \A g \in Groups : GroupOutput(c, s, publish)[g] \in -2..4
    <3> SUFFICES ASSUME NEW g \in Groups
                 PROVE  GroupOutput(c, s, publish)[g] \in -2..4
      OBVIOUS
    <3>1. grp'[g].all.severity \in -2..4
      BY <1>5 DEF GroupState, Tally, Severity, Error
    <3>2. output[g] \in -2..4
      BY DEF Core, Nodes
    <3> QED  BY <3>1, <3>2 DEF GroupOutput
  <2>2. output' = [n \in Nodes |->
                     IF n \in Groups THEN GroupOutput(c, s, publish)[n]
                     ELSE IF n = c /\ own # Untouched THEN own ELSE output[n]]
    BY DEF Commit
  <2>3. \A n \in Nodes : output[n] \in -2..4
    BY DEF Core
  <2> QED  BY <2>1, <2>2, <2>3
<1> QED  BY <1>2, <1>3, <1>5, <1>6, <1>7, <1>8 DEF Core

LEMMA CommitShelfKeeps ==
  ASSUME Core, UNCHANGED threshold, NEW c \in Channels, NEW until \in Nat,
         CommitShelf(c, until)
  PROVE  Core'
<1> DEFINE s == [ch[c] EXCEPT !.shelf = until]
<1>1. Sound(c, ch[c]) /\ ch[c] \in ChannelState
  BY DEF Core
<1>2. /\ s \in ChannelState /\ s.edges = ch[c].edges /\ s.mask = ch[c].mask
      /\ s.unack = ch[c].unack /\ s.commUnack = ch[c].commUnack
      /\ s.iocUnack = ch[c].iocUnack
  BY <1>1 DEF ChannelState
<1>3. Sound(c, s)
  <2> HIDE DEF s
  <2> QED  BY <1>1, <1>2 DEF Sound
<1>4. /\ ch' = [ch EXCEPT ![c] = s]
      /\ grp' = UpdatePresentation(grp, c, ch[c], s, threshold)
      /\ output' = output
  BY DEF CommitShelf
<1>5. grp' \in [Groups -> GroupState]
  BY <1>4, UpdatePresentationType DEF Core
<1>6. Counts(grp', ch', threshold)
  BY <1>4, UpdatePresentationCounts DEF Core
<1>7. silence' \in [current : BOOLEAN, forever : BOOLEAN, until : Nat]
  BY DEF CommitShelf, Core
<1> HIDE DEF s
<1>8. ch' \in [Channels -> ChannelState] /\ \A d \in Channels : Sound(d, ch'[d])
  BY <1>2, <1>3, <1>4 DEF Core
<1> QED  BY <1>4, <1>5, <1>6, <1>7, <1>8 DEF Core

(* A change of a channel no summary depends on.                            *)
Unsummarised(s, t) ==
  s.severity = t.severity /\ s.unack = t.unack /\ s.mask = t.mask /\ s.shelf = t.shelf

LEMMA QuietKeeps ==
  ASSUME Core, UNCHANGED <<threshold, grp, silence, output>>,
         NEW c \in Channels, NEW s, Sound(c, s), Unsummarised(s, ch[c]),
         ch' = [ch EXCEPT ![c] = s]
  PROVE  Core'
<1>1. s \in ChannelState
  BY DEF Sound
<1>2. ch' \in [Channels -> ChannelState] /\ \A d \in Channels : Sound(d, ch'[d])
  BY <1>1 DEF Core
<1>3. \A d \in Channels : Unsummarised(ch'[d], ch[d])
  BY DEF Unsummarised, Core
<1>4. Counts(grp, ch', threshold)
  <2> SUFFICES ASSUME NEW g \in Groups
               PROVE  /\ RecountAll(g, ch', threshold) = RecountAll(g, ch, threshold)
                      /\ RecountShown(g, ch', threshold) = RecountShown(g, ch, threshold)
                      /\ RecountShelved(g, ch') = RecountShelved(g, ch)
                      /\ RecountMask(g, ch') = RecountMask(g, ch)
    BY DEF Core, Counts
  <2>1. \A d \in Channels :
          /\ Contribution(d, ch'[d], g, threshold) = Contribution(d, ch[d], g, threshold)
          /\ Presented(d, ch'[d], g, threshold) = Presented(d, ch[d], g, threshold)
    BY <1>3 DEF Unsummarised, Presented, Contribution, Beep, Unacknowledged, Effective, Suppressed
  <2>2. Below(g) \subseteq Channels
    BY BelowFinite
  <2>3. RecountAll(g, ch', threshold) = RecountAll(g, ch, threshold)
    <3>1. [d \in Below(g) |-> Contribution(d, ch'[d], g, threshold)]
            = [d \in Below(g) |-> Contribution(d, ch[d], g, threshold)]
      BY <2>1, <2>2
    <3> QED  BY <3>1 DEF RecountAll
  <2>4. RecountShown(g, ch', threshold) = RecountShown(g, ch, threshold)
    <3>1. [d \in Below(g) |-> Presented(d, ch'[d], g, threshold)]
            = [d \in Below(g) |-> Presented(d, ch[d], g, threshold)]
      BY <2>1, <2>2
    <3> QED  BY <3>1 DEF RecountShown
  <2>5. RecountShelved(g, ch') = RecountShelved(g, ch)
    BY <1>3, <2>2 DEF RecountShelved, Unsummarised
  <2>6. RecountMask(g, ch') = RecountMask(g, ch)
    <3>1. \A b \in MaskBits : {d \in Below(g) : b \in ch'[d].mask}
                                = {d \in Below(g) : b \in ch[d].mask}
      BY <1>3, <2>2 DEF Unsummarised
    <3> QED  BY <3>1 DEF RecountMask
  <2> QED  BY <2>3, <2>4, <2>5, <2>6
<1> QED  BY <1>2, <1>4 DEF Core

LEMMA ProcessedSound ==
  ASSUME NEW c \in Channels, NEW s, Sound(c, s), NEW e \in Event, NEW seen \in Severity
  PROVE  Sound(c, Processed(s, e, seen))
<1> DEFINE t == Processed(s, e, seen)
           mask == IF Global /\ e.ackt = 0 THEN s.mask \cup {"AckT"}
                   ELSE IF Global /\ e.ackt = 1 THEN s.mask \ {"AckT"}
                   ELSE s.mask
           comm == IF seen = Error
                   THEN s.commUnack \/ ~s.initialized \/ s.observed # Error
                          \/ s.status # e.status
                   ELSE s.commUnack /\ "AckT" \notin mask
           acks == IF seen = Error THEN s.iocUnack ELSE e.acks
           latches == /\ IsTransition(s, e)
                      /\ mask \cap {"Disable", "Ack"} = {}
                      /\ e.severity >= s.unack \/ "AckT" \in mask
<1>1. s \in ChannelState
  BY DEF Sound
<1>2. t \in ChannelState /\ t.edges = s.edges
  BY <1>1, ProcessedType
<1>3. /\ t.mask = mask
      /\ t.commUnack = IF Global THEN comm ELSE s.commUnack
      /\ t.iocUnack = IF Global THEN acks ELSE s.iocUnack
      /\ t.unack = CASE Global /\ comm     -> Error
                     [] Global /\ ~comm    -> acks
                     [] ~Global /\ latches -> e.severity
                     [] OTHER              -> s.unack
  BY <1>1 DEF Processed, ChannelState
<1>4. Global \in BOOLEAN /\ comm \in BOOLEAN
  BY <1>1, OptionTyping DEF ChannelState
<1> HIDE DEF t, comm, acks
<1>5. ASSUME ~Global, t.mask \cap {"Ack", "Disable"} # {}  PROVE t.unack = 0
  <2>1. mask = s.mask /\ ~latches
    BY <1>3, <1>5
  <2>2. t.unack = s.unack
    <3> HIDE DEF latches
    <3> QED  BY <1>3, <1>5, <2>1
  <2> QED  BY <1>3, <1>5, <2>1, <2>2 DEF Sound
<1>6. ASSUME Global  PROVE t.unack = IF t.commUnack THEN Error ELSE t.iocUnack
  <2>1. t.commUnack = comm /\ t.iocUnack = acks
    BY <1>3, <1>6
  <2>2. CASE comm   BY <1>3, <1>6, <2>1, <2>2
  <2>3. CASE ~comm  BY <1>3, <1>6, <2>1, <2>3
  <2> QED  BY <2>2, <2>3, <1>4
<1>7. FilterCount[c] > 0 => t.edges # << >>
  BY <1>2 DEF Sound
<1> QED  BY <1>2, <1>5, <1>6, <1>7 DEF Sound, t

LEMMA ProcessKeeps ==
  ASSUME Core, UNCHANGED threshold, requested \subseteq Channels,
         NEW c \in Channels, NEW s, Sound(c, s), NEW e \in Event, NEW seen \in Severity,
         Process(c, s, e, seen)
  PROVE  Core' /\ requested' \subseteq Channels
<1> DEFINE after == Processed(s, e, seen)
           own == IF PutsSeverity(ch[c], after) THEN after.severity ELSE Untouched
<1>1. Sound(c, after)
  BY ProcessedSound
<1>2. own \in -2..4
  <2>1. after.severity \in Severity
    BY <1>1 DEF Sound, ChannelState
  <2> HIDE DEF after
  <2> QED  BY <2>1 DEF Untouched, Severity, Error
<1>3. Commit(c, after, own, TRUE)
  BY DEF Process
<1>4. requested' \subseteq Channels
  BY DEF Process
<1> HIDE DEF after, own
<1> QED  BY <1>1, <1>2, <1>3, <1>4, CommitKeeps

(***************************************************************************)
(* The agenda.                                                             *)
(***************************************************************************)
LEMMA TaskFields ==
  ASSUME NEW t \in Task
  PROVE  /\ t.op = "mask" =>
              /\ t.node \in Nodes /\ t.set \in Mask /\ t.clear \in Mask /\ t.reset \in Mask
              /\ t.source \in Nodes /\ t.automatic \in BOOLEAN
         /\ t.op = "noAck" => t.node \in Nodes /\ t.top \in Nodes /\ t.on \in BOOLEAN
         /\ t.op \in {"armNoAck", "acknowledge", "unshelve"} => t.node \in Nodes
         /\ t.op = "shelve" => t.node \in Nodes /\ t.until \in Nat /\ t.replace \in BOOLEAN
         /\ t.op = "timers" => t.due \subseteq Timeout
         /\ t.op = "retry" => t.due \subseteq PendingForce
         /\ t.op = "event" => t.node \in Channels /\ t.event \in Event
         /\ t.op = "edge" => t.node \in Counted /\ t.event \in Event
  BY DEF Task

LEMMA TaskChanges ==
  ASSUME NEW t \in Task
  PROVE  /\ t.op \in {"mask", "noAck", "acknowledge", "shelve", "unshelve"} =>
              \A n \in Nodes : [t EXCEPT !.node = n] \in Task
         /\ t.op \in {"timers", "retry"} =>
              \A due \in SUBSET t.due : [t EXCEPT !.due = due] \in Task
  BY DEF Task

LEMMA NewTasks ==
  /\ Deadlines \in Task
  /\ [op |-> "shelves"] \in Task
  /\ [op |-> "endSilence"] \in Task
  /\ \A c \in Channels, e \in Event : [op |-> "event", node |-> c, event |-> e] \in Task
  /\ \A c \in Counted, e \in Event : [op |-> "edge", node |-> c, event |-> e] \in Task
  /\ \A due \in SUBSET Timeout : [op |-> "timers", due |-> due] \in Task
  /\ \A due \in SUBSET PendingForce : [op |-> "retry", due |-> due] \in Task
  /\ \A n, m \in Nodes, on \in BOOLEAN :
        [op |-> "noAck", node |-> n, top |-> m, on |-> on] \in Task
  /\ \A n \in Nodes : /\ [op |-> "armNoAck", node |-> n] \in Task
                      /\ [op |-> "acknowledge", node |-> n] \in Task
                      /\ [op |-> "unshelve", node |-> n] \in Task
  /\ \A n \in Nodes, until \in Nat, replace \in BOOLEAN :
        [op |-> "shelve", node |-> n, until |-> until, replace |-> replace] \in Task
  BY DEF Task, Deadlines

LEMMA MaskTasks ==
  ASSUME NEW n \in Nodes, NEW set \in Mask, NEW clear \in Mask, NEW reset \in Mask,
         NEW automatic \in BOOLEAN
  PROVE  MaskTask(n, set, clear, reset, automatic) \in Task
  BY DEF Task, MaskTask

LEMMA Bits ==
  /\ MaskBits \in Mask /\ {} \in Mask
  /\ \A b \in MaskBits : {b} \in Mask
  /\ {"Cancel"} \in Mask /\ {"Ack"} \in Mask
  BY DEF Mask, MaskBits

LEMMA HeadTask ==
  ASSUME Agenda, NEW op, Running(op)
  PROVE  Head(todo) \in Task /\ Head(todo).op = op /\ Rest \in Seq(Task)
  BY DEF Agenda, Running, Rest

LEMMA Push ==
  ASSUME NEW r \in Seq(Task)
  PROVE  /\ << >> \in Seq(Task)
         /\ \A s \in Seq(Task) : s \o r \in Seq(Task)
         /\ \A t \in Task : <<t>> \in Seq(Task) /\ <<t>> \o r \in Seq(Task)
         /\ \A t, u \in Task : <<t, u>> \in Seq(Task) /\ <<t, u>> \o r \in Seq(Task)
<1>1. /\ << >> \in Seq(Task)
      /\ \A t \in Task : <<t>> \in Seq(Task)
      /\ \A t, u \in Task : <<t, u>> \in Seq(Task)
  OBVIOUS
<1>2. \A s \in Seq(Task) : s \o r \in Seq(Task)
  BY ConcatProperties
<1> QED  BY <1>1, <1>2

LEMMA OnChildrenType ==
  ASSUME NEW t \in Task, t.node \in Groups,
         t.op \in {"mask", "noAck", "acknowledge", "shelve", "unshelve"}
  PROVE  OnChildren(t) \in Seq(Task)
<1> DEFINE children == ChildrenOf(t.node)
<1>1. children \in Seq(Nodes)
  <2>1. DirectChannels[t.node] \in Seq(Channels) /\ Subgroups[t.node] \in Seq(Groups)
    BY TreeTyping
  <2>2. DirectChannels[t.node] \in Seq(Nodes) /\ Subgroups[t.node] \in Seq(Nodes)
    BY <2>1 DEF Nodes
  <2> QED  BY <2>2, ConcatProperties DEF ChildrenOf
<1> HIDE DEF children
<1>2. Len(children) \in Nat /\ \A i \in 1..Len(children) : children[i] \in Nodes
  BY <1>1
<1>3. \A i \in 1..Len(children) : [t EXCEPT !.node = children[i]] \in Task
  BY <1>2, TaskChanges
<1>4. [i \in 1..Len(children) |-> [t EXCEPT !.node = children[i]]] \in Seq(Task)
  BY <1>2, <1>3
<1> QED  BY <1>4 DEF OnChildren, children

(***************************************************************************)
(* Deadlines.                                                              *)
(***************************************************************************)
LEMMA Least ==
  ASSUME NEW S \in SUBSET Nat, S # {}
  PROVE  \E m \in S : \A n \in S : m <= n
<1>1. \E m \in S : \A n \in S : ~ (n < m)
  <2>1. PICK m \in S : \A n \in S : ~ (<<n, m>> \in OpToRel(<, Nat))
    BY WFMin, NatLessThanWellFounded, Zenon
  <2>2. QED  BY <2>1, Zenon DEF OpToRel
<1>2. QED  BY <1>1

LEMMA EarliestType ==
  ASSUME NEW S \in SUBSET Nat
  PROVE  Earliest(S) \in Nat
<1>1. CASE S \ {0} = {}
  BY <1>1 DEF Earliest
<1>2. CASE S \ {0} # {}
  <2>1. \E d \in S \ {0} : \A e \in S \ {0} : d <= e
    BY <1>2, Least
  <2>2. Earliest(S) \in S \ {0}
    BY <1>2, <2>1 DEF Earliest
  <2> QED  BY <2>2
<1> QED  BY <1>1, <1>2

LEMMA ExpiredTimersType ==
  ASSUME IInv
  PROVE  /\ ExpiredTimers \in SUBSET Timeout
         /\ \A t \in ExpiredTimers : /\ t.node \in Nodes
                                     /\ t.filter => t.node \in Channels
<1>1. /\ \A c \in Channels : ch[c].filterUntil \in Nat
      /\ \A n \in Nodes : noAckUntil[n] \in Nat
  BY DEF IInv, Core, Timers, ChannelState
<1>2. ExpiredTimers \in SUBSET Timeout
  <2> SUFFICES ASSUME NEW t \in ExpiredTimers  PROVE t \in Timeout
    OBVIOUS
  <2>1. CASE \E c \in Channels :
               t = [node |-> c, deadline |-> ch[c].filterUntil, filter |-> TRUE]
    BY <1>1, <2>1 DEF Timeout, Nodes
  <2>2. CASE \E n \in Nodes :
               t = [node |-> n, deadline |-> noAckUntil[n], filter |-> FALSE]
    BY <1>1, <2>2 DEF Timeout
  <2> QED  BY <2>1, <2>2 DEF ExpiredTimers
<1>3. \A t \in ExpiredTimers : t.node \in Nodes /\ (t.filter => t.node \in Channels)
  BY DEF ExpiredTimers, Nodes
<1> QED  BY <1>2, <1>3

(***************************************************************************)
(* Channel states the handlers build.                                      *)
(***************************************************************************)
LEMMA FilterChanges ==
  ASSUME NEW c \in Channels, NEW s, Sound(c, s)
  PROVE  /\ \A e \in Event : Sound(c, [s EXCEPT !.pending = e])
         /\ \A b \in BOOLEAN : Sound(c, [s EXCEPT !.awaiting = b])
         /\ \A d \in Nat : Sound(c, [s EXCEPT !.filterUntil = d])
         /\ \A v \in Severity : Sound(c, [s EXCEPT !.observed = v])
         /\ Sound(c, FilterReset(s))
         /\ Unsummarised(FilterReset(s), s)
<1>1. s \in ChannelState
  BY DEF Sound
<1>2. \A e \in Event : Sound(c, [s EXCEPT !.pending = e])
  BY <1>1 DEF Sound, ChannelState
<1>3. \A b \in BOOLEAN : Sound(c, [s EXCEPT !.awaiting = b])
  BY <1>1 DEF Sound, ChannelState
<1>4. \A d \in Nat : Sound(c, [s EXCEPT !.filterUntil = d])
  BY <1>1 DEF Sound, ChannelState
<1>5. \A v \in Severity : Sound(c, [s EXCEPT !.observed = v])
  BY <1>1 DEF Sound, ChannelState
<1>6. Sound(c, FilterReset(s)) /\ Unsummarised(FilterReset(s), s)
  <2> DEFINE ring == [i \in DOMAIN s.edges |-> 0]
  <2>1. s.edges \in Seq(Nat)
    BY <1>1 DEF ChannelState
  <2>2. ring \in Seq(Nat) /\ Len(ring) = Len(s.edges)
    BY <2>1
  <2>3. s.edges # << >> => ring # << >>
    BY <2>1, <2>2
  <2>4. FilterReset(s) = [s EXCEPT !.filterUntil = 0, !.edgeIndex = 0, !.edges = ring]
    BY DEF FilterReset
  <2> HIDE DEF ring
  <2> DEFINE r == FilterReset(s)
  <2>5. /\ r.edges = ring /\ r.mask = s.mask
        /\ r.severity = s.severity /\ r.unack = s.unack /\ r.shelf = s.shelf
        /\ r.commUnack = s.commUnack /\ r.iocUnack = s.iocUnack
    BY <1>1, <2>4 DEF ChannelState
  <2>6. r \in ChannelState
    <3>1. ring \in Seq(Nat) /\ 0 \in Nat
      BY <2>2
    <3> QED  BY <1>1, <2>4, <3>1 DEF ChannelState
  <2> HIDE DEF r
  <2>7. Sound(c, r) /\ Unsummarised(r, s)
    BY <2>3, <2>5, <2>6 DEF Sound, Unsummarised
  <2> QED  BY <2>7 DEF r
<1> QED  BY <1>2, <1>3, <1>4, <1>5, <1>6

LEMMA ArrivedSound ==
  ASSUME IInv, NEW c \in Channels, NEW e \in Event
  PROVE  /\ Sound(c, Arrived(c, e)) /\ Unsummarised(Arrived(c, e), ch[c])
         /\ Arrived(c, e).filterUntil \in Nat
         /\ Sound(c, ArmFilter(c, Arrived(c, e)))
         /\ Unsummarised(ArmFilter(c, Arrived(c, e)), ch[c])
         /\ ArmFilter(c, Arrived(c, e)).filterUntil \in Nat
<1> DEFINE s == Arrived(c, e)
           t == ArmFilter(c, s)
           b == ch[c].awaiting \/ LosesCoverage(c, e)
           d == IF s.filterUntil = 0 THEN mono + FilterSeconds[c] ELSE s.filterUntil
<1>1. Sound(c, ch[c]) /\ ch[c] \in ChannelState
  BY DEF IInv, Core
<1>2. s = [[ch[c] EXCEPT !.pending = e] EXCEPT !.awaiting = b] /\ b \in BOOLEAN
  BY <1>1 DEF Arrived, ChannelState, LosesCoverage
<1>3. s \in ChannelState /\ Unsummarised(s, ch[c])
  <2> HIDE DEF b, s
  <2> QED  BY <1>1, <1>2 DEF ChannelState, Unsummarised
<1>4. Sound(c, s)
  <2> HIDE DEF b, s
  <2> QED  BY <1>1, <1>2, FilterChanges
<1> HIDE DEF s
<1>5. t = [s EXCEPT !.filterUntil = d]
  BY DEF ArmFilter
<1>6. s.filterUntil \in Nat /\ d \in Nat
  BY <1>3, OptionTyping DEF ChannelState, IInv, Clocks
<1> HIDE DEF t, d
<1>7. Sound(c, t) /\ Unsummarised(t, ch[c]) /\ t.filterUntil \in Nat
  BY <1>3, <1>4, <1>5, <1>6, FilterChanges DEF Unsummarised, ChannelState
<1> QED  BY <1>3, <1>4, <1>6, <1>7 DEF s, t

(***************************************************************************)
(* The steps of a call, one lemma for each.                                *)
(***************************************************************************)
LEMMA EventKeeps ==
  ASSUME IInv, HandleEvent
  PROVE  IInv'
<1> DEFINE c == Head(todo).node
           e == Head(todo).event
<1>1. /\ Head(todo) \in Task /\ Head(todo).op = "event" /\ Rest \in Seq(Task)
      /\ Core /\ requested \subseteq Channels /\ UNCHANGED threshold
      /\ nextStateDeadline \in Nat
  BY HeadTask DEF HandleEvent, IInv, Requests, Timers
<1>2. c \in Channels /\ e \in Event
  BY <1>1, TaskFields
<1> HIDE DEF c, e
<1>3. Sound(c, ch[c])
  BY <1>1, <1>2 DEF Core
<1>4. /\ Sound(c, Arrived(c, e)) /\ Unsummarised(Arrived(c, e), ch[c])
      /\ Arrived(c, e).filterUntil \in Nat
      /\ Sound(c, ArmFilter(c, Arrived(c, e)))
      /\ Unsummarised(ArmFilter(c, Arrived(c, e)), ch[c])
      /\ ArmFilter(c, Arrived(c, e)).filterUntil \in Nat
  BY <1>2, ArrivedSound
<1>5. e.severity \in Severity /\ 0 \in Severity
  BY <1>2 DEF Event, Severity, Error
<1>6. ASSUME ThenCount(c, e)  PROVE todo' \in Seq(Task)
  <2>1. FilterCount[c] > 0 => [op |-> "edge", node |-> c, event |-> e] \in Task
    BY <1>2, NewTasks DEF Counted
  <2> QED  BY <1>1, <1>6, <2>1, Push DEF ThenCount
<1>7. \A d \in Nat : Note(nextStateDeadline, d) \in Nat
  BY <1>1 DEF Note
<1> DEFINE Kept == /\ Core' /\ requested' \subseteq Channels
                   /\ todo' \in Seq(Task) /\ nextStateDeadline' \in Nat
<1>8. ASSUME IgnoreCancelled(c, e)  PROVE Kept
  <2>1. UNCHANGED <<ch, grp, silence, output, threshold>>
    BY <1>1, <1>8 DEF IgnoreCancelled, channelVars
  <2>2. Core'
    BY <1>1, <2>1 DEF Core
  <2> QED  BY <1>1, <1>8, <2>2 DEF IgnoreCancelled
<1>9. ASSUME PassUnfiltered(c, e)  PROVE Kept
  BY <1>1, <1>2, <1>4, <1>5, <1>9, ProcessKeeps DEF PassUnfiltered
<1>10. ASSUME StaysNormal(c, e)  PROVE Kept
  <2> DEFINE s == [Arrived(c, e) EXCEPT !.filterUntil = 0]
             t == [s EXCEPT !.observed = 0, !.awaiting = FALSE]
  <2>1. Sound(c, s)
    BY <1>2, <1>4, FilterChanges
  <2>2. Sound(c, t) /\ Unsummarised(t, ch[c])
    <3>1. t = [[s EXCEPT !.observed = 0] EXCEPT !.awaiting = FALSE]
      OBVIOUS
    <3>2. Sound(c, [s EXCEPT !.observed = 0])
      BY <1>2, <1>5, <2>1, FilterChanges
    <3>3. Sound(c, t)
      BY <1>2, <3>1, <3>2, FilterChanges
    <3>4. Unsummarised(t, ch[c])
      BY <1>4 DEF Unsummarised, Sound, ChannelState
    <3> QED  BY <3>3, <3>4
  <2>3. CASE Process(c, s, e, 0)
    <3>1. Core' /\ requested' \subseteq Channels
      <4> HIDE DEF s
      <4> QED  BY <1>1, <1>2, <1>5, <2>1, <2>3, ProcessKeeps
    <3> QED  BY <1>1, <1>6, <1>10, <3>1 DEF StaysNormal
  <2>4. CASE /\ ch' = [ch EXCEPT ![c] = t]
             /\ UNCHANGED <<grp, silence, output, requested>>
    <3>1. Core'
      <4> HIDE DEF t
      <4> QED  BY <1>1, <1>2, <2>2, <2>4, QuietKeeps
    <3> QED  BY <1>1, <1>6, <1>10, <2>4, <3>1 DEF StaysNormal
  <2> QED  BY <1>10, <2>3, <2>4 DEF StaysNormal
<1>11. ASSUME StaysInAlarm(c, e)  PROVE Kept
  <2> DEFINE s == [Arrived(c, e) EXCEPT !.filterUntil = 0]
  <2>1. Sound(c, s)
    BY <1>2, <1>4, FilterChanges
  <2>2. Process(c, s, e, e.severity)
    BY <1>11 DEF StaysInAlarm
  <2> HIDE DEF s
  <2>3. Core' /\ requested' \subseteq Channels
    BY <1>1, <1>2, <1>5, <2>1, <2>2, ProcessKeeps
  <2> QED  BY <1>1, <1>6, <1>11, <2>3 DEF StaysInAlarm
<1>12. ASSUME HoldAlarm(c, e)  PROVE Kept
  <2> DEFINE s == ArmFilter(c, Arrived(c, e))
  <2>1. /\ ch' = [ch EXCEPT ![c] = s]
        /\ UNCHANGED <<grp, silence, output>>
        /\ nextStateDeadline' = Note(nextStateDeadline, s.filterUntil)
        /\ ThenCount(c, e)
        /\ requested' = IF LosesCoverage(c, e) THEN requested \ {c} ELSE requested
    BY <1>12 DEF HoldAlarm
  <2>2. Sound(c, s) /\ Unsummarised(s, ch[c]) /\ s.filterUntil \in Nat
    BY <1>4
  <2> HIDE DEF s
  <2>3. Core'
    BY <1>1, <1>2, <2>1, <2>2, QuietKeeps
  <2> QED  BY <1>1, <1>6, <1>7, <2>1, <2>2, <2>3
<1>13. ASSUME HoldRecovery(c, e)  PROVE Kept
  <2> DEFINE held == [e EXCEPT !.status = ch[c].status, !.severity = ch[c].severity]
             s == ArmFilter(c, Arrived(c, e))
             r == FilterReset(Arrived(c, e))
  <2>1. held \in Event
    BY <1>2, <1>3 DEF Event, Sound, ChannelState
  <2>2. Sound(c, s) /\ s.filterUntil \in Nat /\ Sound(c, r)
    BY <1>2, <1>4, FilterChanges
  <2>3. CASE Process(c, r, e, 0) /\ UNCHANGED nextStateDeadline
    <3>1. Core' /\ requested' \subseteq Channels
      <4> HIDE DEF r
      <4> QED  BY <1>1, <1>2, <1>5, <2>2, <2>3, ProcessKeeps
    <3> QED  BY <1>1, <1>6, <1>13, <2>3, <3>1 DEF HoldRecovery
  <2>4. CASE Process(c, s, held, 0) /\ nextStateDeadline' = Note(nextStateDeadline, s.filterUntil)
    <3>1. Core' /\ requested' \subseteq Channels
      <4> HIDE DEF s, held
      <4> QED  BY <1>1, <1>2, <1>5, <2>1, <2>2, <2>4, ProcessKeeps
    <3>2. nextStateDeadline' \in Nat
      <4> HIDE DEF s
      <4> QED  BY <1>7, <2>2, <2>4
    <3> QED  BY <1>6, <1>13, <3>1, <3>2 DEF HoldRecovery
  <2> QED  BY <1>13, <2>3, <2>4 DEF HoldRecovery
<1>14. Kept
  BY <1>8, <1>9, <1>10, <1>11, <1>12, <1>13 DEF HandleEvent, c, e
<1> QED  BY <1>14 DEF HandleEvent, IInv, Timers, Requests, Clocks, Agenda, clocks

LEMMA EdgeKeeps ==
  ASSUME IInv, CountEdge
  PROVE  IInv'
<1> DEFINE c == Head(todo).node
           e == Head(todo).event
           s == ch[c]
           old == s.edges[s.edgeIndex + 1]
<1>1. /\ Head(todo) \in Task /\ Head(todo).op = "edge" /\ Rest \in Seq(Task)
      /\ Core /\ requested \subseteq Channels /\ UNCHANGED threshold /\ mono \in Nat
  BY HeadTask DEF CountEdge, IInv, Requests, Clocks
<1>2. c \in Channels /\ FilterCount[c] > 0 /\ e \in Event /\ e.severity \in Severity
  BY <1>1, TaskFields DEF Counted, Event
<1> HIDE DEF c, e
<1>3. Sound(c, s) /\ s \in ChannelState /\ s.edges \in Seq(Nat) /\ Len(s.edges) \in Nat \ {0}
  BY <1>1, <1>2 DEF Core, Sound, ChannelState
<1>4. CASE Process(c, FilterReset(s), e, e.severity)
  <2>1. Sound(c, FilterReset(s))
    BY <1>2, <1>3, FilterChanges
  <2>2. Core' /\ requested' \subseteq Channels
    BY <1>1, <1>2, <1>4, <2>1, ProcessKeeps
  <2> QED  BY <1>1, <2>2 DEF CountEdge, IInv, Timers, Requests, Clocks, Agenda, timerVars, clocks
<1>5. CASE /\ ch' = [ch EXCEPT ![c].edges[s.edgeIndex + 1] = mono,
                               ![c].edgeIndex = (s.edgeIndex + 1) % Len(s.edges)]
           /\ UNCHANGED <<grp, silence, output, requested>>
  <2> DEFINE ring == [s.edges EXCEPT ![s.edgeIndex + 1] = mono]
             next == (s.edgeIndex + 1) % Len(s.edges)
             t == [s EXCEPT !.edges = ring, !.edgeIndex = next]
  <2>1. ch' = [ch EXCEPT ![c] = t]
    BY <1>1, <1>2, <1>5 DEF Core, ChannelState
  <2>2. ring \in Seq(Nat) /\ (s.edges # << >> => ring # << >>)
    <3>1. ring \in [1..Len(s.edges) -> Nat]
      <4>1. s.edges \in [1..Len(s.edges) -> Nat] /\ mono \in Nat
        BY <1>1, <1>3
      <4> QED  BY <4>1
    <3>2. ring \in Seq(Nat) /\ Len(ring) = Len(s.edges)
      BY <1>3, <3>1
    <3> QED  BY <1>3, <3>2
  <2>3. next \in Nat
    BY <1>3 DEF ChannelState
  <2> HIDE DEF ring, next
  <2>4. /\ t.mask = s.mask /\ t.edges = ring
        /\ t.severity = s.severity /\ t.unack = s.unack /\ t.shelf = s.shelf
        /\ t.commUnack = s.commUnack /\ t.iocUnack = s.iocUnack
    BY <1>3 DEF ChannelState
  <2>5. t \in ChannelState
    BY <1>3, <2>2, <2>3 DEF ChannelState
  <2>6. Sound(c, t) /\ Unsummarised(t, ch[c])
    <3> HIDE DEF t
    <3> QED  BY <1>3, <2>2, <2>4, <2>5 DEF Sound, Unsummarised
  <2> HIDE DEF t
  <2>7. Core'
    BY <1>1, <1>2, <1>5, <2>1, <2>6, QuietKeeps
  <2> QED  BY <1>1, <1>5, <2>7 DEF CountEdge, IInv, Timers, Requests, Clocks, Agenda, timerVars, clocks
<1> QED  BY <1>4, <1>5 DEF CountEdge, c, e

LEMMA DeadlinesKeep ==
  ASSUME IInv, ScanDeadlines
  PROVE  IInv'
<1>1. Rest \in Seq(Task)
  BY HeadTask DEF ScanDeadlines, IInv
<1>2. Core'
  <2>1. silence' \in [current : BOOLEAN, forever : BOOLEAN, until : Nat]
    BY DEF ScanDeadlines, IInv, Core
  <2> QED  BY <2>1 DEF ScanDeadlines, IInv, Core
<1>3. todo' \in Seq(Task)
  <2>1. [op |-> "timers", due |-> ExpiredTimers] \in Task /\ [op |-> "shelves"] \in Task
    BY ExpiredTimersType, NewTasks
  <2> QED  BY <1>1, <2>1, Push DEF ScanDeadlines
<1>4. Timers'
  <2>1. Timers /\ UNCHANGED noAckUntil
    BY DEF ScanDeadlines, IInv
  <2>2. CASE nextStateDeadline' = 0 /\ nextShelfDeadline' = 0 /\ dispatching' = TRUE
    BY <2>1, <2>2 DEF Timers
  <2>3. CASE UNCHANGED <<nextStateDeadline, nextShelfDeadline, dispatching>>
    BY <2>1, <2>3 DEF Timers
  <2> QED  BY <2>2, <2>3 DEF ScanDeadlines
<1> QED  BY <1>2, <1>3, <1>4 DEF ScanDeadlines, IInv, Requests, Clocks, Agenda, clocks

LEMMA TimerKeeps ==
  ASSUME IInv, DispatchTimer
  PROVE  IInv'
<1> DEFINE due == Head(todo).due
           t == FirstOf(due)
           next == [Head(todo) EXCEPT !.due = @ \ {t}]
<1>1. /\ Head(todo) \in Task /\ Head(todo).op = "timers" /\ Rest \in Seq(Task)
      /\ Core /\ requested \subseteq Channels /\ UNCHANGED threshold
      /\ noAckUntil \in [Nodes -> Nat]
  BY HeadTask DEF DispatchTimer, IInv, Requests, Timers
<1>2. next \in Task
  BY <1>1, TaskChanges
<1> HIDE DEF next
<1>3. /\ t \in ExpiredTimers => t.node \in Nodes
      /\ t \in ExpiredTimers /\ t.filter => t.node \in Channels
  BY ExpiredTimersType
<1> HIDE DEF t
<1> DEFINE Kept == /\ Core' /\ requested' \subseteq Channels
                   /\ todo' \in Seq(Task) /\ noAckUntil' \in [Nodes -> Nat]
<1>4. ASSUME FilterExpires(t)  PROVE Kept
  <2> DEFINE s == FilterReset(ch[t.node])
  <2>1. /\ t.node \in Channels /\ Process(t.node, s, s.pending, s.pending.severity)
        /\ UNCHANGED noAckUntil
    BY <1>3, <1>4 DEF FilterExpires
  <2>2. todo' = <<next>> \o Rest
    BY <1>4 DEF FilterExpires, next
  <2>3. Sound(t.node, s)
    BY <1>1, <2>1, FilterChanges DEF Core
  <2>4. s.pending \in Event /\ s.pending.severity \in Severity
    <3> HIDE DEF s
    <3> QED  BY <2>3 DEF Sound, ChannelState, Event
  <2>5. Core' /\ requested' \subseteq Channels
    <3> HIDE DEF s
    <3> QED  BY <1>1, <2>1, <2>3, <2>4, ProcessKeeps
  <2> QED  BY <1>1, <1>2, <2>1, <2>2, <2>5, Push
<1>5. ASSUME NoAckExpires(t)  PROVE Kept
  <2>1. todo' = <<[op |-> "noAck", node |-> t.node, top |-> t.node, on |-> FALSE], next>> \o Rest
    BY <1>5 DEF NoAckExpires, next
  <2>2. t.node \in Nodes
    BY <1>3, <1>5 DEF NoAckExpires
  <2>3. [op |-> "noAck", node |-> t.node, top |-> t.node, on |-> FALSE] \in Task
    BY <2>2, NewTasks
  <2>4. todo' \in Seq(Task)
    BY <1>1, <1>2, <2>1, <2>3, Push
  <2>5. Core' /\ requested' \subseteq Channels /\ noAckUntil' \in [Nodes -> Nat]
    BY <1>1, <1>5 DEF NoAckExpires, channelVars, Core
  <2> QED  BY <2>4, <2>5
<1>6. ASSUME DropStaleTimer(t)  PROVE Kept
  <2>1. todo' = <<next>> \o Rest
    BY <1>6 DEF DropStaleTimer, next
  <2>2. Core' /\ requested' \subseteq Channels /\ noAckUntil' \in [Nodes -> Nat]
    BY <1>1, <1>6 DEF DropStaleTimer, channelVars, Core
  <2> QED  BY <1>1, <1>2, <2>1, <2>2, Push
<1>7. ASSUME todo' = Rest, UNCHANGED <<channelVars, noAckUntil, requested>>  PROVE Kept
  BY <1>1, <1>7 DEF channelVars, Core
<1>8. Kept
  BY <1>4, <1>5, <1>6, <1>7 DEF DispatchTimer, t
<1> QED  BY <1>8 DEF DispatchTimer, IInv, Timers, Requests, Clocks, Agenda, clocks

LEMMA ShelvesKeep ==
  ASSUME IInv, ExpireShelves
  PROVE  IInv'
<1>1. Rest \in Seq(Task) /\ Core
  BY HeadTask DEF ExpireShelves, IInv
<1>2. CASE /\ EndedShelves # {}
           /\ CommitShelf(CHOOSE c \in EndedShelves :
                             \A d \in EndedShelves : Order[c] <= Order[d], 0)
           /\ UNCHANGED <<todo, timerVars>>
  <2> DEFINE first == CHOOSE c \in EndedShelves : \A d \in EndedShelves : Order[c] <= Order[d]
             places == {Order[c] : c \in EndedShelves}
  <2>1. EndedShelves \subseteq Channels
    BY DEF EndedShelves
  <2>2. places \in SUBSET Nat /\ places # {}
    BY <1>2, <2>1, TreeTyping DEF Nodes
  <2>3. \E m \in places : \A n \in places : m <= n
    <3> HIDE DEF places
    <3> QED  BY <2>2, Least
  <2>4. \E c \in EndedShelves : \A d \in EndedShelves : Order[c] <= Order[d]
    BY <2>3
  <2>5. first \in EndedShelves
    BY <2>4
  <2>6. CommitShelf(first, 0) /\ UNCHANGED threshold
    BY <1>2 DEF ExpireShelves
  <2> HIDE DEF first
  <2>7. Core'
    BY <1>1, <2>1, <2>5, <2>6, CommitShelfKeeps
  <2> QED  BY <1>2, <2>7 DEF ExpireShelves, IInv, Timers, Requests, Clocks, Agenda, clocks, timerVars
<1>3. CASE /\ nextShelfDeadline' =
                 Earliest({nextShelfDeadline} \cup {ch[c].shelf : c \in Channels})
           /\ nextStateDeadline' =
                 Earliest({nextStateDeadline} \cup {noAckUntil[n] : n \in Nodes}
                   \cup {ch[c].filterUntil : c \in {x \in Channels : "Cancel" \notin ch[x].mask}})
           /\ dispatching' = FALSE
           /\ todo' = Rest
           /\ UNCHANGED <<channelVars, noAckUntil>>
  <2>1. {nextShelfDeadline} \cup {ch[c].shelf : c \in Channels} \in SUBSET Nat
    BY DEF IInv, Core, Timers, ChannelState
  <2>2. {nextStateDeadline} \cup {noAckUntil[n] : n \in Nodes}
          \cup {ch[c].filterUntil : c \in {x \in Channels : "Cancel" \notin ch[x].mask}}
          \in SUBSET Nat
    BY DEF IInv, Core, Timers, ChannelState
  <2>3. nextShelfDeadline' \in Nat
    BY <1>3, <2>1, EarliestType
  <2>4. nextStateDeadline' \in Nat
    BY <1>3, <2>2, EarliestType
  <2>5. Timers'
    BY <1>3, <2>3, <2>4 DEF IInv, Timers
  <2>6. Core'
    BY <1>1, <1>3 DEF ExpireShelves, channelVars, Core
  <2> QED  BY <1>1, <1>3, <2>5, <2>6 DEF ExpireShelves, IInv, Requests, Clocks, Agenda, clocks
<1> QED  BY <1>2, <1>3 DEF ExpireShelves

(***************************************************************************)
(* Masks.                                                                  *)
(***************************************************************************)
LEMMA NewMaskType ==
  ASSUME NEW c \in Channels, NEW t, ch[c].mask \in Mask, t.set \in Mask
  PROVE  NewMask(c, t) \in Mask
<1>1. Configured[c] \in Mask
  BY EngineAssumption
<1> QED  BY <1>1 DEF NewMask, Mask, MaskBits

LEMMA AfterCancelSound ==
  ASSUME NEW c \in Channels, NEW s, Sound(c, s), NEW m \in Mask
  PROVE  /\ Sound(c, AfterCancel(s, m))
         /\ AfterCancel(s, m).mask = s.mask
<1> DEFINE r == FilterReset(s)
           quiet == [r EXCEPT !.awaiting = TRUE, !.pending = NoEvent]
           gone == [quiet EXCEPT !.severity = 0, !.status = 0, !.unack = 0,
                                 !.iocUnack = 0, !.commUnack = FALSE]
<1>1. Sound(c, r) /\ r \in ChannelState /\ Unsummarised(r, s)
  BY FilterChanges DEF Sound
<1> HIDE DEF r
<1>2. NoEvent \in Event
  BY DEF NoEvent, Event, Severity, Error
<1>3. Sound(c, quiet) /\ quiet \in ChannelState /\ quiet.mask = s.mask
  BY <1>1, <1>2 DEF Sound, ChannelState, Unsummarised
<1> HIDE DEF quiet
<1>4. /\ gone \in ChannelState /\ gone.mask = s.mask /\ gone.unack = 0
      /\ gone.commUnack = FALSE /\ gone.iocUnack = 0 /\ gone.edges = quiet.edges
  <2>1. /\ gone.mask = s.mask /\ gone.unack = 0
        /\ gone.commUnack = FALSE /\ gone.iocUnack = 0 /\ gone.edges = quiet.edges
    BY <1>3 DEF ChannelState
  <2>2. 0 \in Severity /\ 0 \in Nat
    BY DEF Severity, Error
  <2>3. gone \in ChannelState
    BY <1>3, <2>2 DEF ChannelState
  <2> QED  BY <2>1, <2>3
<1> HIDE DEF gone
<1>5. Sound(c, gone)
  BY <1>3, <1>4 DEF Sound
<1>6. AfterCancel(s, m) = IF "Cancel" \notin m THEN s
                          ELSE IF s.mask \cap {"Cancel", "Disable"} # {} THEN quiet ELSE gone
  BY DEF AfterCancel, quiet, gone, r
<1> QED  BY <1>3, <1>4, <1>5, <1>6

LEMMA ApplyMaskKeeps ==
  ASSUME Core, Requests, UNCHANGED threshold, NEW c \in Channels, NEW t \in Task, t.op = "mask",
         NEW acknowledged \in BOOLEAN, NEW refused \in BOOLEAN,
         ApplyMask(c, t, acknowledged, refused)
  PROVE  Core' /\ Requests'
<1> DEFINE old == ch[c].mask
           asked == NewMask(c, t)
           calm == AfterCancel(ch[c], asked)
           latest == AfterLatch(calm, old, asked)
           m == IF refused THEN (asked \ {"AckT"}) \cup (old \cap {"AckT"}) ELSE asked
           s == [latest EXCEPT !.mask = m,
                               !.unack = IF acknowledged THEN 0 ELSE @,
                               !.iocUnack = IF acknowledged THEN 0 ELSE @,
                               !.commUnack = @ /\ ~acknowledged]
<1>1. Sound(c, ch[c]) /\ ch[c] \in ChannelState /\ old \in Mask
  BY DEF Core, Sound, ChannelState
<1>2. t.set \in Mask /\ t.source \in Nodes /\ t.automatic \in BOOLEAN
  BY TaskFields
<1>3. asked \in Mask
  BY <1>1, <1>2, NewMaskType
<1>4. Commit(c, s, MaskOutput(latest, old, asked), Restored(latest, old, asked))
  BY DEF ApplyMask
<1>5. refused => Global
  BY DEF ApplyMask, Active
<1>6. /\ requested' \subseteq requested
      /\ pendingForce' \subseteq pendingForce
           \cup {[source |-> t.source, channel |-> c, mask |-> "AckT" \in asked]}
  BY DEF ApplyMask
<1> HIDE DEF asked
<1>7. Sound(c, calm) /\ calm.mask = old
  BY <1>1, <1>3, AfterCancelSound
<1> HIDE DEF calm
<1>8. calm \in ChannelState
  BY <1>7 DEF Sound
<1>9. /\ latest \in ChannelState /\ latest.edges = calm.edges
      /\ latest.iocUnack = calm.iocUnack /\ latest.commUnack = calm.commUnack
      /\ Global => latest = calm
      /\ ~Global /\ asked \cap {"Ack", "Disable"} # {} => latest.unack = 0
  <2>1. Global \in BOOLEAN /\ calm.severity \in Severity /\ 0 \in Severity
    BY <1>8, OptionTyping DEF ChannelState, Severity, Error
  <2>2. CASE latest = calm /\ (~Global => asked \cap {"Ack", "Disable"} = {})
    BY <1>8, <2>2
  <2>3. ASSUME NEW u \in Severity, latest = [calm EXCEPT !.unack = u],
               ~Global, asked \cap {"Ack", "Disable"} # {} => u = 0
        PROVE  /\ latest \in ChannelState /\ latest.edges = calm.edges
               /\ latest.iocUnack = calm.iocUnack /\ latest.commUnack = calm.commUnack
               /\ ~Global /\ (asked \cap {"Ack", "Disable"} # {} => latest.unack = 0)
    <3> HIDE DEF latest
    <3> QED  BY <1>8, <2>3 DEF ChannelState
  <2>4. \/ latest = calm /\ (~Global => asked \cap {"Ack", "Disable"} = {})
        \/ \E u \in Severity : /\ latest = [calm EXCEPT !.unack = u] /\ ~Global
                               /\ asked \cap {"Ack", "Disable"} # {} => u = 0
    BY <2>1 DEF AfterLatch, latest
  <2> HIDE DEF latest
  <2> QED  BY <2>2, <2>3, <2>4
<1> HIDE DEF latest
<1>10. m \in Mask /\ (~Global => m = asked)
  BY <1>1, <1>3, <1>5 DEF Mask
<1> HIDE DEF m, s
<1>11. /\ s \in ChannelState /\ s.mask = m /\ s.edges = latest.edges
       /\ s.unack = (IF acknowledged THEN 0 ELSE latest.unack)
       /\ s.iocUnack = (IF acknowledged THEN 0 ELSE latest.iocUnack)
       /\ s.commUnack = (latest.commUnack /\ ~acknowledged)
  <2> DEFINE u == IF acknowledged THEN 0 ELSE latest.unack
             i == IF acknowledged THEN 0 ELSE latest.iocUnack
             k == latest.commUnack /\ ~acknowledged
  <2>1. u \in Severity /\ i \in Severity /\ k \in BOOLEAN
    BY <1>9 DEF ChannelState, Severity, Error
  <2>2. s = [latest EXCEPT !.mask = m, !.unack = u, !.iocUnack = i, !.commUnack = k]
    BY DEF s
  <2> HIDE DEF u, i, k
  <2>3. s \in ChannelState
    BY <1>9, <1>10, <2>1, <2>2 DEF ChannelState
  <2>4. s.mask = m /\ s.edges = latest.edges /\ s.unack = u /\ s.iocUnack = i /\ s.commUnack = k
    BY <1>9, <2>2 DEF ChannelState
  <2> QED  BY <2>3, <2>4 DEF u, i, k
<1>12. Sound(c, s)
  <2>1. FilterCount[c] > 0 => s.edges # << >>
    BY <1>7, <1>9, <1>11 DEF Sound
  <2>2. ~Global => (s.mask \cap {"Ack", "Disable"} # {} => s.unack = 0)
    BY <1>9, <1>10, <1>11
  <2>3. Global => s.unack = IF s.commUnack THEN Error ELSE s.iocUnack
    <3>1. CASE acknowledged   BY <1>11, <3>1
    <3>2. CASE ~acknowledged  BY <1>7, <1>9, <1>11, <3>2 DEF Sound
    <3> QED  BY <3>1, <3>2
  <2> QED  BY <1>11, <2>1, <2>2, <2>3 DEF Sound
<1>13. MaskOutput(latest, old, asked) \in -2..4
  BY <1>9 DEF MaskOutput, Untouched, ChannelState, Severity, Error
<1>14. Core'
  BY <1>4, <1>12, <1>13, CommitKeeps
<1>15. Requests'
  <2>1. [source |-> t.source, channel |-> c, mask |-> "AckT" \in asked] \in PendingForce
    <3>1. ("AckT" \in asked) \in BOOLEAN
      OBVIOUS
    <3> QED  BY <1>2, <3>1 DEF PendingForce
  <2> QED  BY <1>6, <2>1 DEF Requests
<1> QED  BY <1>14, <1>15

LEMMA MaskKeeps ==
  ASSUME IInv, ApplyMasks
  PROVE  IInv'
<1> DEFINE t == Head(todo)
           n == t.node
<1>1. /\ t \in Task /\ t.op = "mask" /\ Rest \in Seq(Task) /\ todo \in Seq(Task)
      /\ Core /\ Requests /\ UNCHANGED threshold
  BY HeadTask DEF ApplyMasks, IInv, Agenda
<1> HIDE DEF t
<1> DEFINE Kept == Core' /\ Requests' /\ todo' \in Seq(Task)
<1>2. ASSUME n \in Groups, todo' = OnChildren(t) \o Rest,
             UNCHANGED <<channelVars, requested, pendingForce>>
      PROVE  Kept
  <2>1. OnChildren(t) \in Seq(Task)
    BY <1>1, <1>2, OnChildrenType
  <2>2. Core' /\ Requests'
    BY <1>1, <1>2 DEF channelVars, Core, Requests
  <2> QED  BY <1>1, <1>2, <2>1, <2>2, Push
<1>3. ASSUME n \in Channels, todo' = << MaskTask(n, {}, {"Cancel"}, {}, FALSE) >> \o todo,
             UNCHANGED <<channelVars, requested, pendingForce>>
      PROVE  Kept
  <2>1. MaskTask(n, {}, {"Cancel"}, {}, FALSE) \in Task
    BY <1>3, Bits, MaskTasks DEF Nodes
  <2>2. Core' /\ Requests'
    BY <1>1, <1>3 DEF channelVars, Core, Requests
  <2> QED  BY <1>1, <1>3, <2>1, <2>2, Push
<1>4. ASSUME n \in Channels, NEW acknowledged \in BOOLEAN, NEW refused \in BOOLEAN,
             ApplyMask(n, t, acknowledged, refused), todo' = Rest
      PROVE  Kept
  <2>1. Core' /\ Requests'
    BY <1>1, <1>4, ApplyMaskKeeps
  <2> QED  BY <1>1, <1>4, <2>1
<1>5. Kept
  BY <1>2, <1>3, <1>4 DEF ApplyMasks, t
<1> QED  BY <1>5 DEF ApplyMasks, IInv, Timers, Clocks, Agenda, timerVars, clocks

LEMMA RetryKeeps ==
  ASSUME IInv, RetryForce
  PROVE  IInv'
<1> DEFINE t == Head(todo)
<1>1. /\ t \in Task /\ t.op = "retry" /\ Rest \in Seq(Task)
      /\ Core /\ Requests /\ UNCHANGED <<threshold, requested>>
  BY HeadTask DEF RetryForce, IInv
<1> HIDE DEF t
<1> DEFINE Kept == Core' /\ Requests' /\ todo' \in Seq(Task)
<1>2. ASSUME NEW p \in t.due, todo' = << [t EXCEPT !.due = @ \ {p}] >> \o Rest
      PROVE  todo' \in Seq(Task) /\ p.channel \in Channels
  <2>1. [t EXCEPT !.due = @ \ {p}] \in Task
    BY <1>1, TaskChanges
  <2>2. p \in PendingForce
    BY <1>1, TaskFields
  <2> QED  BY <1>1, <1>2, <2>1, <2>2, Push DEF PendingForce
<1>3. ASSUME UNCHANGED <<channelVars, pendingForce>>
      PROVE  Core' /\ Requests'
  BY <1>1, <1>3 DEF channelVars, Core, Requests
<1>4. ASSUME NEW p \in t.due, p.channel \in Channels, pendingForce' = pendingForce \ {p},
             Commit(p.channel,
                    [ch[p.channel] EXCEPT
                       !.mask = (@ \ {"AckT"}) \cup (IF p.mask THEN {"AckT"} ELSE {})],
                    Untouched, FALSE)
      PROVE  Core' /\ Requests'
  <2> DEFINE c == p.channel
             m == (ch[c].mask \ {"AckT"}) \cup (IF p.mask THEN {"AckT"} ELSE {})
             s == [ch[c] EXCEPT !.mask = m]
  <2>1. Sound(c, ch[c]) /\ ch[c] \in ChannelState
    BY <1>1, <1>4 DEF Core, Sound
  <2>2. m \in Mask /\ m \cap {"Ack", "Disable"} = ch[c].mask \cap {"Ack", "Disable"}
    BY <2>1 DEF ChannelState, Mask, MaskBits
  <2>3. Commit(c, s, Untouched, FALSE) /\ c \in Channels
    BY <1>4
  <2> HIDE DEF m
  <2>4. /\ s \in ChannelState /\ s.mask = m /\ s.edges = ch[c].edges
        /\ s.unack = ch[c].unack /\ s.iocUnack = ch[c].iocUnack
        /\ s.commUnack = ch[c].commUnack
    BY <2>1, <2>2 DEF ChannelState
  <2> HIDE DEF s
  <2>5. Sound(c, s)
    BY <2>1, <2>2, <2>4 DEF Sound
  <2>6. Core'
    <3>1. Untouched \in -2..4
      BY DEF Untouched
    <3> HIDE DEF c
    <3> QED  BY <1>1, <2>3, <2>5, <3>1, CommitKeeps
  <2> QED  BY <1>1, <1>4, <2>6 DEF Requests
<1>5. ASSUME t.due = {}, todo' = Rest, UNCHANGED <<channelVars, pendingForce>>
      PROVE  Kept
  BY <1>1, <1>3, <1>5
<1>6. ASSUME NEW p \in t.due, todo' = << [t EXCEPT !.due = @ \ {p}] >> \o Rest,
             \/ /\ pendingForce' = pendingForce \ {p}
                /\ Commit(p.channel,
                          [ch[p.channel] EXCEPT
                             !.mask = (@ \ {"AckT"}) \cup (IF p.mask THEN {"AckT"} ELSE {})],
                          Untouched, FALSE)
             \/ UNCHANGED <<channelVars, pendingForce>>
      PROVE  Kept
  <2>1. todo' \in Seq(Task) /\ p.channel \in Channels
    BY <1>2, <1>6
  <2>2. Core' /\ Requests'
    BY <1>3, <1>4, <1>6, <2>1
  <2> QED  BY <2>1, <2>2
<1>7. Kept
  BY <1>5, <1>6 DEF RetryForce, t
<1> QED  BY <1>7 DEF RetryForce, IInv, Timers, Clocks, Agenda, timerVars, clocks

(***************************************************************************)
(* Timed NoAck, acknowledgement and shelves.                               *)
(***************************************************************************)
LEMMA VisitNoAckKeeps ==
  ASSUME IInv, VisitNoAck
  PROVE  IInv'
<1> DEFINE t == Head(todo)
           n == t.node
<1>1. /\ t \in Task /\ t.op = "noAck" /\ Rest \in Seq(Task)
      /\ noAckUntil \in [Nodes -> Nat]
  BY HeadTask DEF VisitNoAck, IInv, Timers
<1>2. n \in Nodes
  BY <1>1, TaskFields
<1> HIDE DEF t
<1>3. /\ n \in Groups => OnChildren(t) \in Seq(Task)
      /\ MaskTask(n, {"Ack"}, {}, {}, FALSE) \in Task
      /\ MaskTask(n, {}, {}, {"Ack"}, FALSE) \in Task
  BY <1>1, <1>2, OnChildrenType, Bits, MaskTasks
<1>4. todo' = Rest
      \/ todo' = (IF n \in Groups THEN OnChildren(t)
                  ELSE IF t.on THEN << MaskTask(n, {"Ack"}, {}, {}, FALSE) >>
                  ELSE << MaskTask(n, {}, {}, {"Ack"}, FALSE) >>) \o Rest
  BY DEF VisitNoAck, t
<1>5. todo' \in Seq(Task)
  BY <1>1, <1>3, <1>4, Push
<1>6. noAckUntil' \in [Nodes -> Nat]
  BY <1>1 DEF VisitNoAck
<1> QED  BY <1>5, <1>6
         DEF VisitNoAck, IInv, Core, Timers, Requests, Clocks, Agenda, channelVars, clocks

LEMMA ArmNoAckKeeps ==
  ASSUME IInv, ArmNoAck
  PROVE  IInv'
<1>1. Rest \in Seq(Task)
  BY HeadTask DEF ArmNoAck, IInv
<1>2. mono + NoAckHour \in Nat
  BY EngineAssumption DEF IInv, Clocks
<1>3. Timers'
  <2>1. nextStateDeadline' \in Nat
    BY <1>2 DEF ArmNoAck, Note, IInv, Timers
  <2>2. noAckUntil' \in [Nodes -> Nat]
    BY <1>2 DEF ArmNoAck, IInv, Timers
  <2> QED  BY <2>1, <2>2 DEF ArmNoAck, IInv, Timers
<1> QED  BY <1>1, <1>3 DEF ArmNoAck, IInv, Core, Requests, Clocks, Agenda, channelVars, clocks

LEMMA AcknowledgeKeeps ==
  ASSUME IInv, VisitAcknowledge
  PROVE  IInv'
<1> DEFINE t == Head(todo)
           n == t.node
<1>1. /\ t \in Task /\ t.op = "acknowledge" /\ Rest \in Seq(Task)
      /\ Core /\ requested \subseteq Channels /\ UNCHANGED threshold
  BY HeadTask DEF VisitAcknowledge, IInv, Requests
<1> HIDE DEF t
<1>2. ASSUME n \in Channels  PROVE Sound(n, ch[n]) /\ ch[n] \in ChannelState
  BY <1>1, <1>2 DEF Core, Sound
<1>3. Untouched \in -2..4
  BY DEF Untouched
<1> DEFINE Kept == Core' /\ requested' \subseteq Channels /\ todo' \in Seq(Task)
<1>4. ASSUME UNCHANGED <<channelVars, requested>>
      PROVE  Core' /\ requested' \subseteq Channels
  BY <1>1, <1>4 DEF channelVars, Core
<1>5. ASSUME n \in Groups, UNCHANGED <<channelVars, requested>>,
             todo' = (IF grp[n].all.unack # 0 THEN OnChildren(t) ELSE <<>>) \o Rest
      PROVE  Kept
  <2>1. OnChildren(t) \in Seq(Task) /\ << >> \in Seq(Task)
    BY <1>1, <1>5, OnChildrenType
  <2>2. todo' \in Seq(Task)
    BY <1>1, <1>5, <2>1, Push
  <2> QED  BY <1>4, <1>5, <2>2
<1>6. ASSUME n \in Channels, AcknowledgeLocally(n)
      PROVE  Core' /\ requested' \subseteq Channels
  <2> DEFINE s == [ch[n] EXCEPT !.unack = 0]
  <2>1. s \in ChannelState /\ s.unack = 0 /\ s.edges = ch[n].edges /\ ~Global
    <3>1. 0 \in Severity
      BY DEF Severity, Error
    <3> QED  BY <1>2, <1>6, <3>1 DEF AcknowledgeLocally, ChannelState
  <2>2. Commit(n, s, Untouched, FALSE) /\ UNCHANGED requested
    BY <1>6 DEF AcknowledgeLocally
  <2> HIDE DEF s
  <2>3. Sound(n, s)
    BY <1>2, <1>6, <2>1 DEF Sound
  <2>4. Core'
    BY <1>1, <1>3, <1>6, <2>2, <2>3, CommitKeeps
  <2> QED  BY <1>1, <2>2, <2>4
<1>7. ASSUME n \in Channels, AcknowledgeGlobally(n)
      PROVE  Core' /\ requested' \subseteq Channels
  <2> DEFINE u == IF ch[n].commUnack THEN ch[n].iocUnack ELSE ch[n].unack
             s == [ch[n] EXCEPT !.commUnack = FALSE, !.unack = u]
  <2>1. u \in Severity /\ u = ch[n].iocUnack /\ Global
    <3>1. Global
      BY <1>7 DEF AcknowledgeGlobally
    <3> QED  BY <1>2, <1>7, <3>1 DEF Sound, ChannelState
  <2>2. Commit(n, s, Untouched, FALSE) /\ requested' \subseteq requested \cup {n}
    BY <1>7 DEF AcknowledgeGlobally
  <2> HIDE DEF u
  <2>3. /\ s \in ChannelState /\ s.unack = u /\ s.commUnack = FALSE
        /\ s.iocUnack = ch[n].iocUnack /\ s.edges = ch[n].edges
    BY <1>2, <1>7, <2>1 DEF ChannelState
  <2> HIDE DEF s
  <2>4. Sound(n, s)
    BY <1>2, <1>7, <2>1, <2>3 DEF Sound
  <2>5. Core'
    BY <1>1, <1>3, <1>7, <2>2, <2>4, CommitKeeps
  <2> QED  BY <1>1, <1>7, <2>2, <2>5
<1>8. Kept
  BY <1>1, <1>4, <1>5, <1>6, <1>7 DEF VisitAcknowledge, t
<1> QED  BY <1>8 DEF VisitAcknowledge, IInv, Timers, Requests, Clocks, Agenda, timerVars, clocks

LEMMA ShelveKeeps ==
  ASSUME IInv, VisitShelve
  PROVE  IInv'
<1> DEFINE t == Head(todo)
           n == t.node
<1>1. /\ t \in Task /\ t.op = "shelve" /\ Rest \in Seq(Task) /\ todo \in Seq(Task)
      /\ Core /\ UNCHANGED threshold /\ nextShelfDeadline \in Nat
  BY HeadTask DEF VisitShelve, IInv, Timers, Agenda
<1>2. t.until \in Nat
  BY <1>1, TaskFields
<1> HIDE DEF t
<1> DEFINE Kept == Core' /\ todo' \in Seq(Task) /\ nextShelfDeadline' \in Nat
<1>3. ASSUME UNCHANGED channelVars  PROVE Core'
  BY <1>1, <1>3 DEF channelVars, Core
<1>4. ASSUME n \in Groups, todo' = OnChildren(t) \o Rest,
             UNCHANGED <<channelVars, nextShelfDeadline>>
      PROVE  Kept
  <2>1. OnChildren(t) \in Seq(Task)
    BY <1>1, <1>4, OnChildrenType
  <2> QED  BY <1>1, <1>3, <1>4, <2>1, Push
<1>5. ASSUME n \in Channels, CommitShelf(n, 0), UNCHANGED <<todo, nextShelfDeadline>>
      PROVE  Kept
  <2>1. Core'
    BY <1>1, <1>5, CommitShelfKeeps
  <2> QED  BY <1>1, <1>5, <2>1
<1>6. ASSUME todo' = Rest, UNCHANGED <<channelVars, nextShelfDeadline>>
      PROVE  Kept
  BY <1>1, <1>3, <1>6
<1>7. ASSUME n \in Channels, CommitShelf(n, t.until), todo' = Rest,
             nextShelfDeadline' = Note(nextShelfDeadline, t.until)
      PROVE  Kept
  <2>1. Core'
    BY <1>1, <1>2, <1>7, CommitShelfKeeps
  <2> QED  BY <1>1, <1>2, <1>7, <2>1 DEF Note
<1>8. Kept
  BY <1>4, <1>5, <1>6, <1>7 DEF VisitShelve, t
<1> QED  BY <1>8 DEF VisitShelve, IInv, Timers, Requests, Clocks, Agenda, clocks

LEMMA UnshelveKeeps ==
  ASSUME IInv, VisitUnshelve
  PROVE  IInv'
<1> DEFINE t == Head(todo)
           n == t.node
<1>1. /\ t \in Task /\ t.op = "unshelve" /\ Rest \in Seq(Task)
      /\ Core /\ UNCHANGED threshold
  BY HeadTask DEF VisitUnshelve, IInv
<1> HIDE DEF t
<1> DEFINE Kept == Core' /\ todo' \in Seq(Task)
<1>2. ASSUME UNCHANGED channelVars  PROVE Core'
  BY <1>1, <1>2 DEF channelVars, Core
<1>3. ASSUME n \in Groups, todo' = OnChildren(t) \o Rest, UNCHANGED channelVars
      PROVE  Kept
  <2>1. OnChildren(t) \in Seq(Task)
    BY <1>1, <1>3, OnChildrenType
  <2> QED  BY <1>1, <1>2, <1>3, <2>1, Push
<1>4. ASSUME n \in Channels, todo' = Rest, CommitShelf(n, 0) \/ UNCHANGED channelVars
      PROVE  Kept
  <2>1. CommitShelf(n, 0) => Core'
    BY <1>1, <1>4, CommitShelfKeeps
  <2> QED  BY <1>1, <1>2, <1>4, <2>1
<1>5. Kept
  BY <1>3, <1>4 DEF VisitUnshelve, t
<1> QED  BY <1>5 DEF VisitUnshelve, IInv, Timers, Requests, Clocks, Agenda, timerVars, clocks

(***************************************************************************)
(* A threshold, and a new engine.                                          *)
(***************************************************************************)
LEMMA SetBeepKeeps ==
  ASSUME IInv, NEW n \in Nodes, NEW v \in Severity, SetBeep(n, v)
  PROVE  IInv'
<1>1. /\ threshold' = [threshold EXCEPT ![n] = v]
      /\ grp' = [g \in Groups |->
           [grp[g] EXCEPT
              !.all = [@ EXCEPT !.beepCounts = RecountAll(g, ch, threshold').beepCounts,
                                !.beep = RecountAll(g, ch, threshold').beep],
              !.shown = RecountShown(g, ch, threshold'),
              !.shelved = RecountShelved(g, ch)]]
      /\ UNCHANGED <<ch, silence, output>>
  BY DEF SetBeep
<1>2. threshold' \in [Nodes -> Severity]
  BY <1>1 DEF IInv, Core
<1>3. ASSUME NEW g \in Groups
      PROVE  /\ grp'[g] \in GroupState
             /\ grp'[g].all = RecountAll(g, ch, threshold')
             /\ grp'[g].shown = RecountShown(g, ch, threshold')
             /\ grp'[g].shelved = RecountShelved(g, ch)
             /\ grp'[g].maskCounts = RecountMask(g, ch)
  <2> DEFINE a == RecountAll(g, ch, threshold)
             b == RecountAll(g, ch, threshold')
             s == RecountShown(g, ch, threshold')
             k == RecountShelved(g, ch)
  <2>1. /\ grp[g] \in GroupState /\ grp[g].all = a
        /\ grp[g].maskCounts = RecountMask(g, ch)
    BY DEF IInv, Core, Counts
  <2>2. a \in Tally /\ b \in Tally /\ s \in Tally /\ k \in Int
    BY <1>2, RecountAllType DEF IInv, Core
  <2>3. /\ b.counts = a.counts /\ b.unackCounts = a.unackCounts
        /\ b.severity = a.severity /\ b.unack = a.unack
    <3> DEFINE A == [c \in Below(g) |-> Contribution(c, ch[c], g, threshold)]
               B == [c \in Below(g) |-> Contribution(c, ch[c], g, threshold')]
    <3>1. \A c \in Below(g) : A[c].severity = B[c].severity /\ A[c].unack = B[c].unack
      BY DEF Contribution
    <3>2. a = Recount(Below(g), A, threshold[g]) /\ b = Recount(Below(g), B, threshold'[g])
      BY DEF RecountAll
    <3> HIDE DEF A, B, a, b
    <3>3. /\ [c \in Below(g) |-> A[c].severity] = [c \in Below(g) |-> B[c].severity]
          /\ [c \in Below(g) |-> A[c].unack] = [c \in Below(g) |-> B[c].unack]
      BY <3>1
    <3> QED  BY <3>2, <3>3 DEF Recount, Summary
  <2>4. grp'[g] = [grp[g] EXCEPT
                     !.all = [@ EXCEPT !.beepCounts = b.beepCounts, !.beep = b.beep],
                     !.shown = s, !.shelved = k]
    BY <1>1
  <2> HIDE DEF a, b, s, k
  <2>5. [a EXCEPT !.beepCounts = b.beepCounts, !.beep = b.beep] = b
    BY <2>2, <2>3 DEF Tally
  <2>6. grp'[g] = [grp[g] EXCEPT !.all = b, !.shown = s, !.shelved = k]
    BY <2>1, <2>4, <2>5
  <2>7. /\ grp'[g] \in GroupState /\ grp'[g].all = b /\ grp'[g].shown = s
        /\ grp'[g].shelved = k /\ grp'[g].maskCounts = grp[g].maskCounts
    BY <2>1, <2>2, <2>6 DEF GroupState
  <2> QED  BY <2>1, <2>7 DEF b, s, k
<1>4. grp' \in [Groups -> GroupState]
  BY <1>1, <1>3
<1>5. Counts(grp', ch', threshold')
  BY <1>1, <1>3 DEF Counts
<1>6. Core'
  BY <1>1, <1>2, <1>4, <1>5 DEF IInv, Core
<1> QED  BY <1>6 DEF SetBeep, IInv, Timers, Requests, Clocks, Agenda, timerVars, clocks

LEMMA FreshSound ==
  ASSUME NEW c \in Channels
  PROVE  /\ Sound(c, FreshChannel(c))
         /\ FreshChannel(c).mask = Configured[c]
         /\ FreshChannel(c).unack = 0
<1> DEFINE s == FreshChannel(c)
           size == IF FilterCount[c] > 0 THEN 2 * FilterCount[c] ELSE 0
           ring == [i \in 1..size |-> 0]
           shown == IF Configured[c] \cap {"Cancel", "Disable"} # {} THEN 0 ELSE Error
           none == [NoEvent EXCEPT !.severity = Error]
<1>1. size \in Nat /\ (FilterCount[c] > 0 => size > 0)
  BY OptionTyping
<1>2. ring \in Seq(Nat) /\ (FilterCount[c] > 0 => ring # << >>)
  <2>1. ring \in Seq(Nat) /\ Len(ring) = size
    <3> HIDE DEF size
    <3> QED  BY <1>1
  <2> QED  BY <1>1, <2>1
<1>3. shown \in Severity /\ 0 \in Severity /\ Error \in Severity /\ Configured[c] \in Mask
  BY EngineAssumption DEF Severity, Error
<1>4. none \in Event
  BY DEF NoEvent, Event, Severity, Error
<1>5. s = [severity |-> shown, status |-> 0, unack |-> 0, observed |-> Error,
           iocUnack |-> 0, commUnack |-> FALSE, mask |-> Configured[c], shelf |-> 0,
           initialized |-> FALSE, awaiting |-> TRUE, pending |-> none, filterUntil |-> 0,
           edges |-> ring, edgeIndex |-> 0]
  BY DEF FreshChannel
<1> HIDE DEF s, ring, shown, none, size
<1>6. s \in ChannelState
  BY <1>2, <1>3, <1>4, <1>5 DEF ChannelState
<1>7. Sound(c, s) /\ s.mask = Configured[c] /\ s.unack = 0
  BY <1>2, <1>5, <1>6 DEF Sound
<1> QED  BY <1>7 DEF s

LEMMA FreshGroupsCount ==
  ASSUME NEW states
  PROVE  /\ FreshGroups(states) \in [Groups -> GroupState]
         /\ Counts(FreshGroups(states), states, InitialThreshold)
<1>1. InitialThreshold \in [Nodes -> Severity]
  BY EngineAssumption
<1>2. \A g \in Groups : /\ RecountAll(g, states, InitialThreshold) \in Tally
                        /\ RecountShown(g, states, InitialThreshold) \in Tally
                        /\ RecountShelved(g, states) \in Int
                        /\ RecountMask(g, states) \in [MaskBits -> Int]
  BY <1>1, RecountAllType
<1> QED  BY <1>2 DEF FreshGroups, Counts, GroupState

LEMMA StartOutputType ==
  ASSUME NEW before \in [Nodes -> -2..4]
  PROVE  StartOutput(before) \in [Nodes -> -2..4]
  BY DEF StartOutput

LEMMA RestoredSound ==
  ASSUME IInv, NEW c \in Channels, NEW tracked
  PROVE  Sound(c, RestoredChannel(c, tracked))
<1> DEFINE fresh == FreshChannel(c)
           kept == /\ ~Global /\ fresh.mask \cap {"Ack", "Disable"} = {}
                   /\ \/ ch[c].shelf # 0
                      \/ c \in tracked /\ "Cancel" \notin fresh.mask
           until == IF ch[c].shelf > wall THEN ch[c].shelf ELSE 0
           unack == IF kept THEN ch[c].unack ELSE fresh.unack
           s == RestoredChannel(c, tracked)
<1>1. Sound(c, fresh) /\ fresh \in ChannelState
  BY FreshSound DEF Sound
<1>2. until \in Nat /\ unack \in Severity
  BY <1>1 DEF IInv, Core, ChannelState
<1>3. s = [fresh EXCEPT !.shelf = until, !.unack = unack]
  BY DEF RestoredChannel
<1>4. kept => ~Global /\ fresh.mask \cap {"Ack", "Disable"} = {}
  OBVIOUS
<1>5. ~kept => unack = fresh.unack
  OBVIOUS
<1> HIDE DEF fresh, kept, until, unack, s
<1>6. /\ s \in ChannelState /\ s.edges = fresh.edges /\ s.mask = fresh.mask /\ s.unack = unack
      /\ s.commUnack = fresh.commUnack /\ s.iocUnack = fresh.iocUnack
  BY <1>1, <1>2, <1>3 DEF ChannelState
<1>7. Sound(c, s)
  BY <1>1, <1>4, <1>5, <1>6 DEF Sound
<1> QED  BY <1>7 DEF s

LEMMA ReloadKeeps ==
  ASSUME IInv, Reload
  PROVE  IInv'
<1>1. PICK tracked \in SUBSET Channels :
        /\ ch' = [c \in Channels |-> RestoredChannel(c, tracked)]
        /\ grp' = FreshGroups([c \in Channels |-> RestoredChannel(c, tracked)])
        /\ nextShelfDeadline' =
             Earliest({[d \in Channels |-> RestoredChannel(d, tracked)][c].shelf : c \in Channels})
  BY DEF Reload
<1> DEFINE states == [c \in Channels |-> RestoredChannel(c, tracked)]
<1>2. \A c \in Channels : Sound(c, states[c]) /\ states[c] \in ChannelState
  BY RestoredSound DEF Sound
<1>3. grp' \in [Groups -> GroupState] /\ Counts(grp', ch', threshold')
  BY <1>1, FreshGroupsCount DEF Reload
<1>4. output' \in [Nodes -> -2..4]
  BY StartOutputType DEF Reload, IInv, Core
<1>5. silence' \in [current : BOOLEAN, forever : BOOLEAN, until : Nat]
  BY DEF Reload, NoSilence
<1>6. threshold' \in [Nodes -> Severity] /\ noAckUntil' \in [Nodes -> Nat]
  BY EngineAssumption DEF Reload, NoTimers
<1>7. Core'
  BY <1>1, <1>2, <1>3, <1>4, <1>5, <1>6 DEF Core
<1>8. nextShelfDeadline' \in Nat
  <2> HIDE DEF states
  <2>1. {states[c].shelf : c \in Channels} \in SUBSET Nat
    BY <1>2 DEF ChannelState
  <2> QED  BY <1>1, <2>1, EarliestType DEF states
<1>9. Timers'
  BY <1>6, <1>8 DEF Reload, IInv, Timers
<1> QED  BY <1>7, <1>9 DEF Reload, IInv, Requests, Clocks, Agenda, clocks

LEMMA Initially ==
  ASSUME Init
  PROVE  IInv
<1> DEFINE states == [c \in Channels |-> FreshChannel(c)]
<1>1. \A c \in Channels : Sound(c, states[c]) /\ states[c] \in ChannelState
  BY FreshSound DEF Sound
<1>2. grp \in [Groups -> GroupState] /\ Counts(grp, ch, threshold)
  BY FreshGroupsCount DEF Init
<1>3. output \in [Nodes -> -2..4]
  <2>1. [n \in Nodes |-> Untouched] \in [Nodes -> -2..4]
    BY DEF Untouched
  <2> QED  BY <2>1, StartOutputType DEF Init
<1>4. Core
  BY <1>1, <1>2, <1>3, EngineAssumption DEF Init, Core, NoSilence
<1>5. Agenda
  BY DEF Init, Agenda
<1>6. Timers
  BY DEF Init, Timers, NoTimers
<1>7. Requests /\ Clocks
  BY DEF Init, Requests, Clocks
<1> QED  BY <1>4, <1>5, <1>6, <1>7 DEF IInv

(***************************************************************************)
(* A call leaves the channels alone: it puts its tasks on the agenda.      *)
(***************************************************************************)
LEMMA CallKeeps ==
  ASSUME IInv, todo' \in Seq(Task),
         UNCHANGED <<channelVars, threshold, nextStateDeadline, nextShelfDeadline,
                     dispatching, requested, pendingForce, clocks>>,
         noAckUntil' \in [Nodes -> Nat]
  PROVE  IInv'
  BY DEF IInv, Core, Timers, Requests, Clocks, Agenda, channelVars, clocks

LEMMA OperatorMaskKeeps ==
  ASSUME IInv, NEW n, NEW task \in Task, NEW cancels, OperatorMask(n, task, cancels)
  PROVE  IInv'
<1>1. [op |-> "endSilence"] \in Task /\ todo' = << task, [op |-> "endSilence"] >>
  BY NewTasks DEF OperatorMask
<1>2. todo' \in Seq(Task)
  BY <1>1
<1>3. noAckUntil' \in [Nodes -> Nat]
  <2>1. noAckUntil \in [Nodes -> Nat]
    BY DEF IInv, Timers
  <2>2. WithoutTimers(n) \in [Nodes -> Nat]
    BY <2>1 DEF WithoutTimers
  <2> QED  BY <2>1, <2>2 DEF OperatorMask
<1> QED  BY <1>2, <1>3, CallKeeps DEF OperatorMask

LEMMA CallsKeep ==
  ASSUME IInv, Call
  PROVE  IInv'
<1>1. todo \in Seq(Task) /\ noAckUntil \in [Nodes -> Nat] /\ wall \in Nat /\ mono \in Nat
  BY DEF IInv, Agenda, Timers, Clocks
<1>2. CASE \E c \in Channels, e \in Events : MonitorEvent(c, e)
  <2>1. PICK c \in Channels, e \in Events : MonitorEvent(c, e)
    BY <1>2
  <2>2. Deadlines \in Task /\ [op |-> "event", node |-> c, event |-> e] \in Task
    BY EngineAssumption, NewTasks
  <2>3. todo' \in Seq(Task)
    BY <1>1, <2>1, <2>2, Push DEF MonitorEvent
  <2> QED  BY <1>1, <2>1, <2>3, CallKeeps DEF MonitorEvent, timerVars
<1>3. CASE \E n \in Nodes, m \in MaskRequests : SetMask(n, m)
  <2>1. PICK n \in Nodes, m \in MaskRequests : SetMask(n, m)
    BY <1>3
  <2>2. MaskTask(n, m, MaskBits, {}, FALSE) \in Task
    BY EngineAssumption, Bits, MaskTasks
  <2> QED  BY <2>1, <2>2, OperatorMaskKeeps DEF SetMask
<1>4. CASE \E n \in Nodes : ResetMask(n)
  <2>1. PICK n \in Nodes : ResetMask(n)
    BY <1>4
  <2>2. MaskTask(n, {}, {}, MaskBits, FALSE) \in Task
    BY Bits, MaskTasks
  <2> QED  BY <2>1, <2>2, OperatorMaskKeeps DEF ResetMask
<1>5. CASE \E n \in Nodes, b \in BitRequests : ModifyMask(n, b)
  <2>1. PICK n \in Nodes, b \in BitRequests : ModifyMask(n, b)
    BY <1>5
  <2>2. {b} \in Mask /\ {} \in Mask
    BY EngineAssumption, Bits
  <2>3. /\ MaskTask(n, {b}, {}, {}, FALSE) \in Task
        /\ MaskTask(n, {}, {b}, {}, FALSE) \in Task
        /\ MaskTask(n, {}, {}, {b}, FALSE) \in Task
    BY <2>2, MaskTasks
  <2> QED  BY <2>1, <2>3, OperatorMaskKeeps DEF ModifyMask
<1>6. CASE \E c \in RestoreTargets : RestoreMask(c)
  <2>1. PICK c \in RestoreTargets : RestoreMask(c)
    BY <1>6
  <2>2. MaskTask(c, {}, {}, MaskBits, FALSE) \in Task
    BY EngineAssumption, Bits, MaskTasks DEF Nodes
  <2>3. todo' \in Seq(Task)
    BY <1>1, <2>1, <2>2, Push DEF RestoreMask
  <2> QED  BY <1>1, <2>1, <2>3, CallKeeps DEF RestoreMask, timerVars
<1>7. CASE \E n \in Nodes : ForceMask(n)
  <2>1. PICK n \in Nodes : ForceMask(n)
    BY <1>7
  <2>2. /\ \A m \in ForceRequests : MaskTask(n, m, MaskBits, {}, TRUE) \in Task
        /\ MaskTask(n, {}, {}, MaskBits, TRUE) \in Task
    BY EngineAssumption, Bits, MaskTasks
  <2>3. todo' \in Seq(Task)
    BY <1>1, <2>1, <2>2, Push DEF ForceMask
  <2> QED  BY <1>1, <2>1, <2>3, CallKeeps DEF ForceMask, timerVars
<1>8. CASE \E n \in Nodes : DiscardForce(n)
  <2>1. PICK n \in Nodes : DiscardForce(n)
    BY <1>8
  <2>2. Requests'
    BY <2>1 DEF DiscardForce, IInv, Requests
  <2> QED  BY <2>1, <2>2
           DEF DiscardForce, IInv, Core, Timers, Clocks, Agenda, channelVars, timerVars, clocks
<1>9. CASE \E n \in NoAckTargets, on \in BOOLEAN : NoAck(n, on)
  <2>1. PICK n \in NoAckTargets, on \in BOOLEAN : NoAck(n, on)
    BY <1>9
  <2>2. n \in Nodes
    BY EngineAssumption
  <2>3. /\ [op |-> "noAck", node |-> n, top |-> n, on |-> on] \in Task
        /\ [op |-> "armNoAck", node |-> n] \in Task
    BY <2>2, NewTasks
  <2>4. todo' \in Seq(Task)
    BY <2>1, <2>3, Push DEF NoAck
  <2>5. noAckUntil' \in [Nodes -> Nat]
    BY <1>1, <2>1 DEF NoAck
  <2> QED  BY <2>1, <2>4, <2>5, CallKeeps DEF NoAck
<1>10. CASE \E n \in AckTargets : Acknowledge(n)
  <2>1. PICK n \in AckTargets : Acknowledge(n)
    BY <1>10
  <2>2. [op |-> "acknowledge", node |-> n] \in Task
    BY EngineAssumption, NewTasks
  <2>3. todo' \in Seq(Task)
    BY <2>1, <2>2 DEF Acknowledge
  <2> QED  BY <1>1, <2>1, <2>3, CallKeeps DEF Acknowledge, timerVars
<1>11. CASE \E n \in ShelveTargets, d \in ShelfDurations, r \in BOOLEAN : Shelve(n, d, r)
  <2>1. PICK n \in ShelveTargets, d \in ShelfDurations, r \in BOOLEAN : Shelve(n, d, r)
    BY <1>11
  <2>2. n \in Nodes /\ wall + d \in Nat
    BY <1>1, EngineAssumption
  <2>3. [op |-> "shelve", node |-> n, until |-> wall + d, replace |-> r] \in Task
    BY <2>2, NewTasks
  <2>4. todo' \in Seq(Task)
    BY <2>1, <2>3 DEF Shelve
  <2> QED  BY <1>1, <2>1, <2>4, CallKeeps DEF Shelve, timerVars
<1>12. CASE \E n \in ShelveTargets : Unshelve(n)
  <2>1. PICK n \in ShelveTargets : Unshelve(n)
    BY <1>12
  <2>2. [op |-> "unshelve", node |-> n] \in Task
    BY EngineAssumption, NewTasks
  <2>3. todo' \in Seq(Task)
    BY <2>1, <2>2 DEF Unshelve
  <2> QED  BY <1>1, <2>1, <2>3, CallKeeps DEF Unshelve, timerVars
<1>13. CASE \E n \in BeepTargets, v \in BeepRequests : SetBeep(n, v)
  BY <1>13, EngineAssumption, SetBeepKeeps
<1>14. CASE SetSilence
  <2>1. silence' \in [current : BOOLEAN, forever : BOOLEAN, until : Nat]
    <3>1. silence \in [current : BOOLEAN, forever : BOOLEAN, until : Nat]
      BY DEF IInv, Core
    <3>2. CASE silence' = [silence EXCEPT !.current = ~@] \/ silence' = [silence EXCEPT !.forever = ~@]
      BY <3>1, <3>2
    <3>3. CASE \E d \in SilenceRequests :
                  silence' = [silence EXCEPT !.until = IF d = 0 THEN 0 ELSE mono + d]
      <4>1. \A d \in SilenceRequests : (IF d = 0 THEN 0 ELSE mono + d) \in Nat
        BY <1>1, EngineAssumption
      <4> QED  BY <3>1, <3>3, <4>1
    <3> QED  BY <1>14, <3>2, <3>3 DEF SetSilence
  <2>2. Core'
    BY <1>14, <2>1 DEF SetSilence, IInv, Core
  <2> QED  BY <1>14, <2>2 DEF SetSilence, IInv, Timers, Requests, Clocks, Agenda, timerVars, clocks
<1>15. CASE Reload
  BY <1>15, ReloadKeeps
<1> QED  BY <1>2, <1>3, <1>4, <1>5, <1>6, <1>7, <1>8, <1>9, <1>10, <1>11, <1>12, <1>13,
            <1>14, <1>15 DEF Call

LEMMA SilenceKeeps ==
  ASSUME IInv, EndSilenceCurrent
  PROVE  IInv'
<1>1. Rest \in Seq(Task)
  BY HeadTask DEF EndSilenceCurrent, IInv
<1>2. Core'
  <2>1. silence' \in [current : BOOLEAN, forever : BOOLEAN, until : Nat]
    BY DEF EndSilenceCurrent, IInv, Core
  <2> QED  BY <2>1 DEF EndSilenceCurrent, IInv, Core
<1> QED  BY <1>1, <1>2
         DEF EndSilenceCurrent, IInv, Timers, Requests, Clocks, Agenda, timerVars, clocks

LEMMA TimeKeeps ==
  ASSUME IInv, Tick \/ TimePasses \/ SetClock
  PROVE  IInv'
<1>1. CASE Tick
  <2>1. Deadlines \in Task /\ [op |-> "retry", due |-> pendingForce] \in Task
    BY NewTasks DEF IInv, Requests
  <2>2. todo' \in Seq(Task)
    <3>1. <<Deadlines>> \in Seq(Task)
      BY <2>1
    <3> QED  BY <1>1, <2>1, <3>1, Push DEF Tick
  <2>3. noAckUntil' \in [Nodes -> Nat]
    BY <1>1 DEF Tick, timerVars, IInv, Timers
  <2> QED  BY <1>1, <2>2, <2>3, CallKeeps DEF Tick, timerVars
<1>2. CASE TimePasses \/ SetClock
  <2>1. Clocks'
    <3>1. \A w \in 1..MaxWall : w \in Nat
      BY EngineAssumption
    <3>2. mono \in Nat /\ wall \in Nat
      BY DEF IInv, Clocks
    <3> QED  BY <1>2, <3>1, <3>2 DEF TimePasses, SetClock, Clocks
  <2>2. UNCHANGED <<channelVars, timerVars, threshold, requested, pendingForce, todo>>
    BY <1>2 DEF TimePasses, SetClock
  <2> QED  BY <2>1, <2>2 DEF IInv, Core, Timers, Requests, Agenda, channelVars, timerVars
<1> QED  BY <1>1, <1>2

LEMMA StepsKeep ==
  ASSUME IInv, Step
  PROVE  IInv'
  BY EventKeeps, EdgeKeeps, DeadlinesKeep, TimerKeeps, ShelvesKeep, MaskKeeps, SilenceKeeps,
     RetryKeeps, VisitNoAckKeeps, ArmNoAckKeeps, AcknowledgeKeeps, ShelveKeeps, UnshelveKeeps
     DEF Step

LEMMA StutterKeeps ==
  ASSUME IInv, UNCHANGED vars
  PROVE  IInv'
  BY DEF IInv, Core, Timers, Requests, Clocks, Agenda, vars

LEMMA Invariant == Spec => []IInv
<1>1. Init => IInv
  BY Initially
<1>2. IInv /\ [Next]_vars => IInv'
  BY StepsKeep, CallsKeep, TimeKeeps, StutterKeeps DEF Next
<1> QED  BY <1>1, <1>2, PTL DEF Spec

(***************************************************************************)
(* The theorems.                                                           *)
(***************************************************************************)

(* Every variable of the engine keeps its type, and every task on the      *)
(* agenda of the running call has the arguments of its handler, whatever   *)
(* calls, callbacks and timers interleave.                                 *)
THEOREM TypeCorrect == Spec => []TypeOK
<1>1. IInv => TypeOK
  BY DEF IInv, Core, Timers, Requests, Clocks, Agenda, TypeOK
<1> QED  BY <1>1, Invariant, PTL

(* The summary automation sees of every group (State::counts and the       *)
(* maxima and Group SEVRPVs derived from it), which propagate moves by one *)
(* channel at a time, is at every step of every call what a fresh count of *)
(* the channels below would give, for every tree and threshold.            *)
THEOREM AutomationSummariesExact == Spec => []AutomationTallies
<1>1. IInv => AutomationTallies
  BY DEF IInv, Core, Counts, AutomationTallies
<1> QED  BY <1>1, Invariant, PTL

(* The same for the operator's summary, in which shelved channels are      *)
(* counted apart (updatePresentation, rebuildPresentation).                *)
THEOREM OperatorSummariesExact == Spec => []OperatorTallies
<1>1. IInv => OperatorTallies
  BY DEF IInv, Core, Counts, OperatorTallies
<1> QED  BY <1>1, Invariant, PTL

(* The mask summary of every group counts the mask bits of its channels.   *)
THEOREM MaskSummariesExact == Spec => []MaskTallies
<1>1. IInv => MaskTallies
  BY DEF IInv, Core, Counts, MaskTallies
<1> QED  BY <1>1, Invariant, PTL

(* In local mode no NoAck or disabled channel keeps an outstanding         *)
(* acknowledgement, whatever events, masks, timers and reloads it saw.     *)
THEOREM SuppressedUnlatched == Spec => []SuppressedHasNoLatch
<1>1. IInv => SuppressedHasNoLatch
  BY DEF IInv, Core, Sound, SuppressedHasNoLatch
<1> QED  BY <1>1, Invariant, PTL

(* In global mode the acknowledgement shown for a channel is always the    *)
(* IOC's, or ERROR while a communication error is unacknowledged.          *)
THEOREM GlobalLatchExact == Spec => []GlobalLatch
<1>1. IInv => GlobalLatch
  BY DEF IInv, Core, Sound, GlobalLatch
<1> QED  BY <1>1, Invariant, PTL
=============================================================================
