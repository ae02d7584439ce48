------------------------------- MODULE DeskProofs -------------------------------
(***************************************************************************)
(* Proof that the editor keeps its history contiguous, and that what it    *)
(* does not show as modified is on disk, for every number of INCLUDE       *)
(* files, edits, saves, failures and limit of the history; and that the    *)
(* analytics account for every episode of an alarm, for every set of       *)
(* channels, configuration, retention and schedule of the clock.           *)
(***************************************************************************)
EXTENDS Desk, WellFoundedInduction, SequenceTheorems, FiniteSetTheorems, TLAPS

Partial == UNION {[S -> Int] : S \in SUBSET Includes}
Texts   == [own : Int, includes : SUBSET Includes, parts : Partial]

(* A document holds exactly the INCLUDE files that its text names.         *)
Documents ==
  {d \in [text : Texts, files : Partial, size : Nat] : DOMAIN d.files = d.text.includes}

Saves ==
  [stage : {"asking", "copying", "replacing"}, path : Editor!Paths, changed : SUBSET Includes,
   written : SUBSET Includes, closing : BOOLEAN]

Types ==
  /\ disk \in [Editor!Paths -> Texts]
  /\ document \in Documents /\ undo \in Seq(Documents) /\ redo \in Seq(Documents)
  /\ filename \in Editor!Paths
  /\ modified \in BOOLEAN /\ open \in BOOLEAN
  /\ savedIncludes \in Partial
  /\ saving \in {Editor!Idle} \cup Saves
  /\ foreign \subseteq Editor!Paths
  /\ left \in [edits : Nat, saves : Nat, failures : Nat, foreign : Nat, sizes : SUBSET Nat]

(* An INCLUDE file holds this version, unless another editor wrote it.     *)
Holds(k, version) == disk[k] = Editor!Plain(version) \/ k \in foreign

(* What is known of INCLUDE files is on disk, but for those that the       *)
(* running save has replaced.                                              *)
Known ==
  \A k \in DOMAIN savedIncludes :
    saving = Editor!Idle \/ k \notin saving.written => Holds(k, savedIncludes[k])

(* A save replaces what differs from what is known, and never a file over  *)
(* one that it includes.                                                   *)
Saving ==
  saving # Editor!Idle =>
    /\ saving.changed = Editor!Rewritten(document)
    /\ saving.written \subseteq saving.changed
    /\ saving.stage # "replacing" => saving.written = {}
    /\ saving.path \notin document.text.includes
    /\ \A k \in saving.written : Holds(k, document.files[k])

Unmodified ==
  ~modified =>
    /\ filename \notin document.text.includes
    /\ disk[filename] = document.text \/ filename \in foreign
    /\ \A k \in document.text.includes : Holds(k, document.files[k])

(* One edit leads from a document to the next.                             *)
Edited(d, e) == <<Editor!Configuration(d), Editor!Configuration(e)>> \in edges

(* The snapshots of undo lead to the document, which leads to those of     *)
(* redo, the last first.                                                   *)
Forward(s)  == \A i \in 1..Len(s) - 1 : Edited(s[i], s[i + 1])
Backward(s) == \A i \in 1..Len(s) - 1 : Edited(s[i + 1], s[i])

Near ==
  /\ undo # <<>> => Edited(undo[Len(undo)], document)
  /\ redo # <<>> => Edited(document, redo[Len(redo)])

Chain == Forward(undo) /\ Near /\ Backward(redo)

DeskInv == Types /\ Known /\ Saving /\ Unmodified /\ Chain
-----------------------------------------------------------------------------
(***************************************************************************)
(* Operators on partial functions and documents.                           *)
(***************************************************************************)
LEMMA PartialFacts ==
  /\ \A f \in Partial : DOMAIN f \in SUBSET Includes /\ f = [k \in DOMAIN f |-> f[k]]
                        /\ \A k \in DOMAIN f : f[k] \in Int
  /\ \A S \in SUBSET Includes : \A f \in [S -> Int] : f \in Partial
  BY DEF Partial

LEMMA EmptyPartial == Editor!Empty \in Partial /\ DOMAIN Editor!Empty = {}
<1>1. Editor!Empty \in [{} -> Int] /\ {} \in SUBSET Includes
  BY DEF Editor!Empty
<1> QED BY <1>1, PartialFacts

LEMMA MergedPartial ==
  ASSUME NEW f \in Partial, NEW g \in Partial
  PROVE  Editor!Merged(f, g) \in Partial
<1>1. DOMAIN f \cup DOMAIN g \in SUBSET Includes
  BY PartialFacts
<1>2. Editor!Merged(f, g) \in [DOMAIN f \cup DOMAIN g -> Int]
  BY PartialFacts DEF Editor!Merged
<1> QED BY <1>1, <1>2, PartialFacts

LEMMA PlainText == ASSUME NEW v \in Int PROVE Editor!Plain(v) \in Texts
  BY EmptyPartial DEF Editor!Plain, Editor!Text, Texts

(* What an edit makes of a document is a document again.                   *)
LEMMA ChangedDocument ==
  ASSUME NEW d \in Documents, NEW v \in Int, NEW next \in Editor!Changed(d, v), NEW size \in Nat
  PROVE  [next EXCEPT !.size = size] \in Documents
<1>1. /\ d \in [text : Texts, files : Partial, size : Nat] /\ DOMAIN d.files = d.text.includes
      /\ d.text \in [own : Int, includes : SUBSET Includes, parts : Partial]
  BY DEF Documents, Texts
<1>2. CASE next = [d EXCEPT !.text.own = v]
  BY <1>1, <1>2 DEF Documents, Texts
<1>3. ASSUME NEW k \in DOMAIN d.text.parts, next = [d EXCEPT !.text.parts[k] = v]
      PROVE  [next EXCEPT !.size = size] \in Documents
  <2>1. [d.text.parts EXCEPT ![k] = v] \in Partial
    BY <1>1, PartialFacts
  <2> QED BY <1>1, <1>3, <2>1 DEF Documents, Texts
<1>4. ASSUME NEW k \in DOMAIN d.files, next = [d EXCEPT !.files[k] = v]
      PROVE  [next EXCEPT !.size = size] \in Documents
  <2>1. [d.files EXCEPT ![k] = v] \in Partial /\ DOMAIN [d.files EXCEPT ![k] = v] = DOMAIN d.files
    BY <1>1, PartialFacts
  <2> QED BY <1>1, <1>4, <2>1 DEF Documents, Texts
<1>5. ASSUME NEW k \in DOMAIN d.files,
             next = [d EXCEPT !.text.own = v, !.text.includes = @ \ {k},
                              !.files = Editor!Restrict(@, DOMAIN @ \ {k})]
      PROVE  [next EXCEPT !.size = size] \in Documents
  <2> DEFINE rest == Editor!Restrict(d.files, DOMAIN d.files \ {k})
  <2>1. rest \in Partial /\ DOMAIN rest = d.text.includes \ {k}
    <3>1. DOMAIN d.files \ {k} \in SUBSET Includes
      BY <1>1
    <3>2. rest \in [DOMAIN d.files \ {k} -> Int]
      BY <1>1, PartialFacts DEF Editor!Restrict
    <3> QED BY <1>1, <3>1, <3>2, PartialFacts
  <2>2. next.text = [d.text EXCEPT !.own = v, !.includes = @ \ {k}] /\ next.files = rest
        /\ next \in [text : {next.text}, files : {next.files}, size : Nat]
    BY <1>1, <1>5
  <2> QED BY <1>1, <2>1, <2>2 DEF Documents, Texts
<1> QED BY <1>2, <1>3, <1>4, <1>5 DEF Editor!Changed
-----------------------------------------------------------------------------
(***************************************************************************)
(* Eviction takes snapshots from the oldest ends only.                     *)
(***************************************************************************)
Suffix(s, t) == \E i \in 0..Len(t) : s = SubSeq(t, i + 1, Len(t))

LEMMA LeastNatural ==
  ASSUME NEW T, T \subseteq Nat, T # {}
  PROVE  Editor!Min(T) \in T /\ \A m \in T : Editor!Min(T) <= m
<1>1. OpToRel(<, Nat) = {ss \in Nat \X Nat : ss[1] < ss[2]}
  BY ONLY Zenon DEF OpToRel
<1>2. PICK n \in T : \A m \in T : ~(<<m, n>> \in OpToRel(<, Nat))
  BY NatLessThanWellFounded, WFMin
<1>3. \A m \in T : n <= m
  <2> TAKE m \in T
  <2>1. <<m, n>> \in Nat \X Nat /\ <<m, n>>[1] = m /\ <<m, n>>[2] = n
    OBVIOUS
  <2>2. ~(m < n)
    BY ONLY <1>1, <1>2, <2>1, m \in T, Zenon
  <2> QED BY <2>2
<1> QED BY <1>3 DEF Editor!Min

LEMMA TwoBounds ==
  ASSUME NEW a \in Int, NEW b \in Int
  PROVE  /\ Editor!Min({a, b}) \in {a, b} /\ Editor!Min({a, b}) <= a /\ Editor!Min({a, b}) <= b
         /\ Editor!Max({a, b}) \in {a, b} /\ Editor!Max({a, b}) >= a /\ Editor!Max({a, b}) >= b
<1>1. \E x \in {a, b} : \A y \in {a, b} : x <= y
  BY a <= b \/ b <= a
<1>2. \E x \in {a, b} : \A y \in {a, b} : x >= y
  BY a <= b \/ b <= a
<1> QED BY <1>1, <1>2 DEF Editor!Min, Editor!Max

(* How many of redo and of undo are evicted when n of all are.             *)
LEMMA Evictions ==
  ASSUME NEW a \in Nat, NEW b \in Nat, NEW first \in Nat, first = a \/ first = a - 1,
         NEW n \in 0..(a + b)
  PROVE  LET ahead == Editor!Min({b, Editor!Max({0, n - first})})
         IN  ahead \in 0..b /\ n - ahead \in 0..a
<1> DEFINE later == Editor!Max({0, n - first})
           ahead == Editor!Min({b, later})
<1>1. later \in {0, n - first} /\ later >= 0 /\ later >= n - first
  <2>1. n - first \in Int /\ 0 \in Int
    OBVIOUS
  <2> QED BY ONLY <2>1, TwoBounds
<1> HIDE DEF later
<1>2. ahead \in {b, later} /\ ahead <= b /\ ahead <= later
  BY <1>1, TwoBounds
<1> HIDE DEF ahead
<1>3. ahead \in 0..b /\ n - ahead \in 0..a
  BY <1>1, <1>2
<1> QED BY <1>3 DEF ahead, later

Histories == [undo : Seq(Documents), redo : Seq(Documents)]

LEMMA WithoutSuffix ==
  ASSUME NEW h \in Histories, NEW stack \in {"undo", "redo"}, stack = "undo" => h.undo # <<>>,
         NEW n \in 0..(Len(h.undo) + Len(h.redo))
  PROVE  /\ Editor!Without(h, stack, n) \in Histories
         /\ Suffix(Editor!Without(h, stack, n).undo, h.undo)
         /\ Suffix(Editor!Without(h, stack, n).redo, h.redo)
<1>1. PICK a \in Nat, b \in Nat : a = Len(h.undo) /\ b = Len(h.redo)
  BY DEF Histories
<1>2. h.undo \in Seq(Documents) /\ h.redo \in Seq(Documents)
  BY DEF Histories
<1>3. PICK first \in Nat : first = Len(h.undo) - (IF stack = "undo" THEN 1 ELSE 0)
  <2>1. CASE stack = "undo"
    <3>1. a # 0
      BY <1>1, <1>2, <2>1, EmptySeq
    <3>2. a - 1 \in Nat
      BY <3>1
    <3> QED BY <1>1, <2>1, <3>2
  <2>2. CASE stack # "undo"
    <3>1. a - 0 \in Nat
      OBVIOUS
    <3> QED BY <1>1, <2>2, <3>1
  <2> QED BY <2>1, <2>2
<1>4. first = a \/ first = a - 1
  <2>1. first = a - 1 \/ first = a - 0
    BY <1>1, <1>3
  <2> QED BY <2>1
<1>5. n \in 0..(a + b)
  BY <1>1
<1>6. PICK ahead \in 0..b :
        /\ ahead = Editor!Min({b, Editor!Max({0, n - first})})
        /\ n - ahead \in 0..a
  BY <1>4, <1>5, Evictions
<1>7. Editor!Without(h, stack, n) =
        [undo |-> SubSeq(h.undo, n - ahead + 1, Len(h.undo)),
         redo |-> SubSeq(h.redo, ahead + 1, Len(h.redo))]
  BY <1>1, <1>3, <1>6 DEF Editor!Without
<1>8. PICK i \in 0..a : i = n - ahead
  BY <1>6
<1>9. /\ SubSeq(h.undo, i + 1, Len(h.undo)) \in Seq(Documents)
      /\ SubSeq(h.redo, ahead + 1, Len(h.redo)) \in Seq(Documents)
  <2>1. i + 1 \in 1..(Len(h.undo) + 1) /\ ahead + 1 \in 1..(Len(h.redo) + 1)
    BY <1>1, <1>2, <1>6, <1>8
  <2> QED BY <1>2, <2>1, SubSeqProperties
<1>10. Editor!Without(h, stack, n) \in Histories
  BY <1>7, <1>8, <1>9 DEF Histories
<1>11. Suffix(SubSeq(h.undo, i + 1, Len(h.undo)), h.undo)
       /\ Suffix(SubSeq(h.redo, ahead + 1, Len(h.redo)), h.redo)
  BY <1>1 DEF Suffix
<1> QED BY <1>7, <1>8, <1>10, <1>11

LEMMA EvictedSuffix ==
  ASSUME NEW h \in Histories, NEW stack \in {"undo", "redo"}, stack = "undo" => h.undo # <<>>
  PROVE  /\ Editor!Evicted(h, stack) \in Histories
         /\ Suffix(Editor!Evicted(h, stack).undo, h.undo)
         /\ Suffix(Editor!Evicted(h, stack).redo, h.redo)
<1> DEFINE all == Len(h.undo) + Len(h.redo)
           enough == {n \in 0..all : n = all \/ Editor!Fits(Editor!Without(h, stack, n))}
<1>1. all \in Nat
  BY DEF Histories
<1>2. enough \subseteq 0..all /\ all \in 0..all
  <2> HIDE DEF all
  <2> QED BY <1>1
<1>3. enough \subseteq Nat /\ enough # {}
  <2> HIDE DEF all
  <2>1. all \in enough /\ 0..all \subseteq Nat
    BY <1>1, <1>2
  <2> QED BY <1>2, <2>1
<1>4. Editor!Evicted(h, stack) = Editor!Without(h, stack, Editor!Min(enough))
  BY DEF Editor!Evicted
<1> HIDE DEF enough
<1>5. Editor!Min(enough) \in 0..all
  BY <1>2, <1>3, LeastNatural
<1> QED BY <1>4, <1>5, WithoutSuffix

(* Remembering an edit pushes a snapshot and evicts, or forgets all.       *)
LEMMA Remembered ==
  ASSUME NEW h \in Histories, NEW stack \in {"undo", "redo"}, NEW d \in Documents
  PROVE  LET g == Editor!RememberEdit(h, stack, d) IN
           /\ g \in Histories
           /\ \/ g.undo = <<>> /\ g.redo = <<>>
              \/ /\ Suffix(g.undo, IF stack = "undo" THEN Append(h.undo, d) ELSE h.undo)
                 /\ Suffix(g.redo, IF stack = "redo" THEN Append(h.redo, d) ELSE h.redo)
<1> DEFINE pushed == [h EXCEPT ![stack] = Append(@, d)]
<1>1. /\ pushed \in Histories
      /\ pushed.undo = IF stack = "undo" THEN Append(h.undo, d) ELSE h.undo
      /\ pushed.redo = IF stack = "redo" THEN Append(h.redo, d) ELSE h.redo
  <2>1. CASE stack = "undo"
    <3>1. pushed = [h EXCEPT !.undo = Append(@, d)]
      BY <2>1
    <3> QED BY <2>1, <3>1 DEF Histories
  <2>2. CASE stack = "redo"
    <3>1. pushed = [h EXCEPT !.redo = Append(@, d)]
      BY <2>2
    <3> QED BY <2>2, <3>1 DEF Histories
  <2> QED BY <2>1, <2>2
<1>2. stack = "undo" => pushed.undo # <<>>
  BY <1>1 DEF Histories
<1>3. Editor!RememberEdit(h, stack, d) \in
        {[undo |-> <<>>, redo |-> <<>>], Editor!Evicted(pushed, stack)}
  BY DEF Editor!RememberEdit
<1>4. [undo |-> <<>>, redo |-> <<>>] \in Histories
  BY DEF Histories
<1> HIDE DEF pushed
<1>5. Editor!Evicted(pushed, stack) \in Histories
      /\ Suffix(Editor!Evicted(pushed, stack).undo, pushed.undo)
      /\ Suffix(Editor!Evicted(pushed, stack).redo, pushed.redo)
  BY <1>1, <1>2, EvictedSuffix
<1> QED BY <1>1, <1>3, <1>4, <1>5
-----------------------------------------------------------------------------
(***************************************************************************)
(* Chains of edits.                                                        *)
(***************************************************************************)
LEMMA SuffixElements ==
  ASSUME NEW s \in Seq(Documents), NEW t \in Seq(Documents), Suffix(s, t)
  PROVE  \E i \in 0..Len(t) :
           Len(s) = Len(t) - i /\ \A j \in 1..Len(s) : s[j] = t[i + j]
<1>1. PICK i \in 0..Len(t) : s = SubSeq(t, i + 1, Len(t))
  BY DEF Suffix
<1>2. Len(s) = Len(t) - i
  BY <1>1
<1>3. \A j \in 1..Len(s) : s[j] = t[i + j]
  BY <1>1, <1>2
<1> QED BY <1>2, <1>3

LEMMA SuffixForward ==
  ASSUME NEW s \in Seq(Documents), NEW t \in Seq(Documents), Suffix(s, t)
  PROVE  /\ Forward(t) => Forward(s)
         /\ Backward(t) => Backward(s)
         /\ s # <<>> => t # <<>> /\ s[Len(s)] = t[Len(t)]
<1>1. PICK i \in 0..Len(t) : Len(s) = Len(t) - i /\ \A j \in 1..Len(s) : s[j] = t[i + j]
  BY SuffixElements
<1>2. ASSUME NEW j \in 1..Len(s) - 1
      PROVE  i + j \in 1..Len(t) - 1 /\ s[j] = t[i + j] /\ s[j + 1] = t[(i + j) + 1]
  <2>1. j \in 1..Len(s) /\ j + 1 \in 1..Len(s) /\ i + (j + 1) = (i + j) + 1
    OBVIOUS
  <2> QED BY <1>1, <2>1
<1>3. Forward(t) => Forward(s)
  BY <1>2 DEF Forward
<1>4. Backward(t) => Backward(s)
  BY <1>2 DEF Backward
<1>5. ASSUME s # <<>> PROVE t # <<>> /\ s[Len(s)] = t[Len(t)]
  <2>1. Len(s) \in 1..Len(s) /\ i + Len(s) = Len(t) /\ Len(t) # 0
    BY <1>1, <1>5, EmptySeq
  <2> QED BY <1>1, <2>1
<1> QED BY <1>3, <1>4, <1>5

LEMMA AppendForward ==
  ASSUME NEW t \in Seq(Documents), NEW d \in Documents
  PROVE  /\ Forward(t) /\ (t # <<>> => Edited(t[Len(t)], d)) => Forward(Append(t, d))
         /\ Backward(t) /\ (t # <<>> => Edited(d, t[Len(t)])) => Backward(Append(t, d))
<1>1. Len(Append(t, d)) = Len(t) + 1 /\ \A i \in 1..Len(t) : Append(t, d)[i] = t[i]
  OBVIOUS
<1>2. Append(t, d)[Len(t) + 1] = d
  OBVIOUS
<1>3. ASSUME NEW i \in 1..Len(Append(t, d)) - 1
      PROVE  \/ i \in 1..Len(t) - 1 /\ Append(t, d)[i] = t[i] /\ Append(t, d)[i + 1] = t[i + 1]
             \/ /\ i = Len(t) /\ t # <<>>
                /\ Append(t, d)[i] = t[Len(t)] /\ Append(t, d)[i + 1] = d
  <2>1. i \in 1..Len(t)
    BY <1>1
  <2>2. CASE i = Len(t)
    BY <1>1, <1>2, <2>1, <2>2
  <2>3. CASE i # Len(t)
    <3>1. i \in 1..Len(t) - 1 /\ i + 1 \in 1..Len(t)
      BY <2>1, <2>3
    <3> QED BY <1>1, <3>1
  <2> QED BY <2>2, <2>3
<1>4. ASSUME Forward(t), t # <<>> => Edited(t[Len(t)], d)
      PROVE  Forward(Append(t, d))
  BY <1>3, <1>4 DEF Forward
<1>5. ASSUME Backward(t), t # <<>> => Edited(d, t[Len(t)])
      PROVE  Backward(Append(t, d))
  BY <1>3, <1>5 DEF Backward
<1> QED BY <1>4, <1>5

(* A stack without its newest snapshot.                                    *)
LEMMA FrontForward ==
  ASSUME NEW t \in Seq(Documents), t # <<>>
  PROVE  /\ Editor!Front(t) \in Seq(Documents) /\ t[Len(t)] \in Documents
         /\ Forward(t) =>
              /\ Forward(Editor!Front(t))
              /\ Editor!Front(t) # <<>> =>
                   Edited(Editor!Front(t)[Len(Editor!Front(t))], t[Len(t)])
         /\ Backward(t) =>
              /\ Backward(Editor!Front(t))
              /\ Editor!Front(t) # <<>> =>
                   Edited(t[Len(t)], Editor!Front(t)[Len(Editor!Front(t))])
<1> DEFINE f == Editor!Front(t)
<1>1. Len(t) \in Nat \ {0}
  BY EmptySeq
<1>2. f = SubSeq(t, 1, Len(t) - 1)
  BY DEF Editor!Front
<1>3. f \in Seq(Documents) /\ Len(f) = Len(t) - 1 /\ \A i \in 1..Len(f) : f[i] = t[i]
  <2>1. /\ 1 \in 1..Len(t) + 1 /\ Len(t) - 1 \in 0..Len(t)
        /\ (Len(t) - 1) - 1 + 1 = Len(t) - 1 /\ \A i \in Int : 1 + i - 1 = i
    BY <1>1
  <2> HIDE DEF f
  <2> QED BY <1>1, <1>2, <2>1, SubSeqProperties
<1>4. t[Len(t)] \in Documents
  BY <1>1
<1> HIDE DEF f
<1>5. ASSUME NEW i \in 1..Len(f) - 1
      PROVE  i \in 1..Len(t) - 1 /\ f[i] = t[i] /\ f[i + 1] = t[i + 1]
  BY <1>1, <1>3
<1>6. (Forward(t) => Forward(f)) /\ (Backward(t) => Backward(f))
  BY <1>5 DEF Forward, Backward
<1>7. ASSUME f # <<>>
      PROVE  /\ Len(f) \in 1..Len(t) - 1 /\ f[Len(f)] = t[Len(f)]
             /\ Len(f) + 1 = Len(t)
  <2>1. Len(f) # 0
    BY <1>3, <1>7, EmptySeq
  <2> QED BY <1>1, <1>3, <2>1
<1>8. f # <<>> => /\ (Forward(t) => Edited(f[Len(f)], t[Len(t)]))
                  /\ (Backward(t) => Edited(t[Len(t)], f[Len(f)]))
  BY <1>7 DEF Forward, Backward
<1> QED BY <1>3, <1>4, <1>6, <1>8 DEF f

(* The chain is what HistoryContiguous says of the line of documents.      *)
LEMMA ChainContiguous == Types /\ Chain => HistoryContiguous
<1> SUFFICES ASSUME Types, Chain PROVE Editor!HistoryContiguous
  BY DEF HistoryContiguous
<1> DEFINE back == Editor!Reverse(redo)
           line == undo \o <<document>> \o back
<1>1. undo \in Seq(Documents) /\ redo \in Seq(Documents) /\ document \in Documents
  BY DEF Types
<1>2. PICK m \in Nat, n \in Nat : m = Len(undo) /\ n = Len(redo)
  BY <1>1
<1>3. back = [i \in 1..n |-> redo[(n - i) + 1]]
  BY <1>2 DEF Editor!Reverse
<1>4. back \in Seq(Documents) /\ Len(back) = n
  <2>1. \A i \in 1..n : (n - i) + 1 \in 1..n
    OBVIOUS
  <2>2. \A i \in 1..n : redo[(n - i) + 1] \in Documents
    BY <1>1, <1>2, <2>1
  <2> QED BY <1>3, <2>2
<1>5. /\ Len(line) = m + 1 + n
      /\ \A i \in 1..m : line[i] = undo[i]
      /\ line[m + 1] = document
      /\ \A i \in m + 2..m + 1 + n : line[i] = back[i - (m + 1)]
  <2> HIDE DEF back
  <2>1. undo \o <<document>> = Append(undo, document)
    BY <1>1
  <2> DEFINE first == Append(undo, document)
  <2>2. /\ first \in Seq(Documents) /\ Len(first) = m + 1 /\ first[m + 1] = document
        /\ \A i \in 1..m : first[i] = undo[i]
    BY <1>1, <1>2
  <2> HIDE DEF first
  <2>3. /\ Len(first \o back) = m + 1 + n
        /\ \A i \in 1..m + 1 : (first \o back)[i] = first[i]
        /\ \A i \in m + 2..m + 1 + n : (first \o back)[i] = back[i - (m + 1)]
    BY <1>4, <2>2
  <2>4. m + 1 \in 1..m + 1 /\ \A i \in 1..m : i \in 1..m + 1
    OBVIOUS
  <2>5. line = first \o back
    BY <2>1 DEF first
  <2> HIDE DEF line
  <2> QED BY <2>2, <2>3, <2>4, <2>5
<1>6. \A i \in m + 2..m + 1 + n : n - (i - (m + 2)) \in 1..n /\ line[i] = redo[n - (i - (m + 2))]
  <2> HIDE DEF line
  <2> TAKE i \in m + 2..m + 1 + n
  <2>1. i - (m + 1) \in 1..n /\ (n - (i - (m + 1))) + 1 = n - (i - (m + 2))
    OBVIOUS
  <2>2. line[i] = back[i - (m + 1)]
    BY <1>5
  <2> QED BY <1>3, <2>1, <2>2
<1> HIDE DEF line
<1>7. ASSUME NEW i \in 1..Len(line) - 1 PROVE Edited(line[i], line[i + 1])
  <2>1. i \in 1..m + n
    BY <1>5
  <2>2. CASE i < m
    <3>1. i \in 1..m /\ i + 1 \in 1..m /\ i \in 1..m - 1
      BY <2>1, <2>2
    <3> QED BY <1>2, <1>5, <3>1 DEF Chain, Forward
  <2>3. CASE i = m
    <3>1. i \in 1..m /\ undo # <<>>
      BY <1>2, <2>1, <2>3
    <3> QED BY <1>2, <1>5, <2>3, <3>1 DEF Chain, Near
  <2>4. CASE i = m + 1
    <3>1. i + 1 \in m + 2..m + 1 + n /\ n - ((i + 1) - (m + 2)) = n /\ n # 0
      BY <2>1, <2>4
    <3>2. line[i + 1] = redo[n] /\ redo # <<>>
      BY <1>2, <1>6, <3>1
    <3> QED BY <1>2, <1>5, <2>4, <3>2 DEF Chain, Near
  <2>5. CASE i > m + 1
    <3>1. PICK j \in Int : j = n - ((i + 1) - (m + 2))
      OBVIOUS
    <3>2. /\ i \in m + 2..m + 1 + n /\ i + 1 \in m + 2..m + 1 + n
          /\ n - (i - (m + 2)) = j + 1 /\ j \in 1..n - 1
      BY <2>1, <2>5, <3>1
    <3>3. line[i] = redo[j + 1] /\ line[i + 1] = redo[j]
      BY <1>6, <3>1, <3>2
    <3> QED BY <1>2, <3>2, <3>3 DEF Chain, Backward
  <2> QED BY <2>1, <2>2, <2>3, <2>4, <2>5
<1> QED BY <1>7 DEF Editor!HistoryContiguous, Edited, line
-----------------------------------------------------------------------------
(***************************************************************************)
(* The history after an edit, Undo and Redo.                               *)
(***************************************************************************)
LEMMA LongerChain ==
  ASSUME edges \subseteq edges', Forward(undo'), Backward(redo')
  PROVE  Forward(undo)' /\ Backward(redo)'
<1>1. Forward(undo)'
  BY DEF Forward, Edited
<1>2. Backward(redo)'
  BY DEF Backward, Edited
<1> QED BY <1>1, <1>2

LEMMA EditChain ==
  ASSUME Types, Chain, edges \subseteq edges',
         <<Editor!Configuration(document), Editor!Configuration(document')>> \in edges',
         Editor!TakeHistory(Editor!RememberEdit([undo |-> undo, redo |-> <<>>], "undo", document))
  PROVE  Chain' /\ undo' \in Seq(Documents) /\ redo' \in Seq(Documents)
<1> DEFINE h == [undo |-> undo, redo |-> <<>>]
<1>1. h \in Histories /\ document \in Documents /\ <<>> \in Seq(Documents)
  BY DEF Types, Histories
<1>2. /\ undo' \in Seq(Documents) /\ redo' \in Seq(Documents)
      /\ \/ undo' = <<>> /\ redo' = <<>>
         \/ Suffix(undo', Append(undo, document)) /\ Suffix(redo', <<>>)
  BY <1>1, Remembered DEF Editor!TakeHistory, Histories
<1>3. CASE undo' = <<>> /\ redo' = <<>>
  BY <1>2, <1>3 DEF Chain, Forward, Backward, Near
<1>4. CASE Suffix(undo', Append(undo, document)) /\ Suffix(redo', <<>>)
  <2>1. Append(undo, document) \in Seq(Documents) /\ Forward(Append(undo, document))
    BY <1>1, AppendForward DEF Chain, Near, Types
  <2>2. Forward(undo') /\ (undo' # <<>> =>
          undo'[Len(undo')] = Append(undo, document)[Len(Append(undo, document))])
    BY <1>2, <1>4, <2>1, SuffixForward
  <2>3. Append(undo, document)[Len(Append(undo, document))] = document
    BY <1>1 DEF Types
  <2>4. redo' = <<>>
    BY <1>1, <1>2, <1>4, SuffixForward
  <2>5. Backward(redo')
    BY <2>4 DEF Backward
  <2>6. Near'
    BY <2>2, <2>3, <2>4 DEF Near, Edited
  <2> QED BY <1>2, <2>2, <2>5, <2>6, LongerChain DEF Chain
<1> QED BY <1>2, <1>3, <1>4

LEMMA UndoChain ==
  ASSUME Types, Chain, undo # <<>>, UNCHANGED edges, document' = Editor!Last(undo),
         Editor!TakeHistory(
           Editor!RememberEdit([undo |-> Editor!Front(undo), redo |-> redo], "redo", document))
  PROVE  /\ Chain' /\ document' \in Documents
         /\ undo' \in Seq(Documents) /\ redo' \in Seq(Documents)
<1> DEFINE f == Editor!Front(undo)
           h == [undo |-> f, redo |-> redo]
<1>1. undo \in Seq(Documents) /\ redo \in Seq(Documents) /\ document \in Documents
  BY DEF Types
<1>2. /\ f \in Seq(Documents) /\ Forward(f)
      /\ f # <<>> => Edited(f[Len(f)], undo[Len(undo)])
  BY <1>1, FrontForward DEF Chain
<1>3. document' = undo[Len(undo)] /\ document' \in Documents
  BY <1>1, FrontForward DEF Editor!Last
<1> HIDE DEF f
<1>4. h \in Histories
  BY <1>1, <1>2 DEF Histories
<1>5. /\ undo' \in Seq(Documents) /\ redo' \in Seq(Documents)
      /\ \/ undo' = <<>> /\ redo' = <<>>
         \/ Suffix(undo', f) /\ Suffix(redo', Append(redo, document))
  BY <1>1, <1>4, Remembered DEF Editor!TakeHistory, Histories, f
<1>6. CASE undo' = <<>> /\ redo' = <<>>
  BY <1>3, <1>5, <1>6 DEF Chain, Forward, Backward, Near
<1>7. CASE Suffix(undo', f) /\ Suffix(redo', Append(redo, document))
  <2>1. Append(redo, document) \in Seq(Documents) /\ Backward(Append(redo, document))
    BY <1>1, AppendForward DEF Chain, Near
  <2>2. Forward(undo') /\ (undo' # <<>> => f # <<>> /\ undo'[Len(undo')] = f[Len(f)])
    BY <1>2, <1>5, <1>7, SuffixForward
  <2>3. Backward(redo') /\ (redo' # <<>> =>
          redo'[Len(redo')] = Append(redo, document)[Len(Append(redo, document))])
    BY <1>5, <1>7, <2>1, SuffixForward
  <2>4. Append(redo, document)[Len(Append(redo, document))] = document
    BY <1>1
  <2>5. Edited(undo[Len(undo)], document)
    BY DEF Chain, Near
  <2>6. Near'
    BY <1>2, <1>3, <2>2, <2>3, <2>4, <2>5 DEF Near, Edited
  <2> QED BY <1>3, <1>5, <2>2, <2>3, <2>6, LongerChain DEF Chain
<1> QED BY <1>3, <1>5, <1>6, <1>7

LEMMA RedoChain ==
  ASSUME Types, Chain, redo # <<>>, UNCHANGED edges, document' = Editor!Last(redo),
         Editor!TakeHistory(
           Editor!RememberEdit([undo |-> undo, redo |-> Editor!Front(redo)], "undo", document))
  PROVE  /\ Chain' /\ document' \in Documents
         /\ undo' \in Seq(Documents) /\ redo' \in Seq(Documents)
<1> DEFINE f == Editor!Front(redo)
           h == [undo |-> undo, redo |-> f]
<1>1. undo \in Seq(Documents) /\ redo \in Seq(Documents) /\ document \in Documents
  BY DEF Types
<1>2. /\ f \in Seq(Documents) /\ Backward(f)
      /\ f # <<>> => Edited(redo[Len(redo)], f[Len(f)])
  BY <1>1, FrontForward DEF Chain
<1>3. document' = redo[Len(redo)] /\ document' \in Documents
  BY <1>1, FrontForward DEF Editor!Last
<1> HIDE DEF f
<1>4. h \in Histories
  BY <1>1, <1>2 DEF Histories
<1>5. /\ undo' \in Seq(Documents) /\ redo' \in Seq(Documents)
      /\ \/ undo' = <<>> /\ redo' = <<>>
         \/ Suffix(undo', Append(undo, document)) /\ Suffix(redo', f)
  BY <1>1, <1>4, Remembered DEF Editor!TakeHistory, Histories, f
<1>6. CASE undo' = <<>> /\ redo' = <<>>
  BY <1>3, <1>5, <1>6 DEF Chain, Forward, Backward, Near
<1>7. CASE Suffix(undo', Append(undo, document)) /\ Suffix(redo', f)
  <2>1. Append(undo, document) \in Seq(Documents) /\ Forward(Append(undo, document))
    BY <1>1, AppendForward DEF Chain, Near
  <2>2. Backward(redo') /\ (redo' # <<>> => f # <<>> /\ redo'[Len(redo')] = f[Len(f)])
    BY <1>2, <1>5, <1>7, SuffixForward
  <2>3. Forward(undo') /\ (undo' # <<>> =>
          undo'[Len(undo')] = Append(undo, document)[Len(Append(undo, document))])
    BY <1>5, <1>7, <2>1, SuffixForward
  <2>4. Append(undo, document)[Len(Append(undo, document))] = document
    BY <1>1
  <2>5. Edited(document, redo[Len(redo)])
    BY DEF Chain, Near
  <2>6. Near'
    BY <1>2, <1>3, <2>2, <2>3, <2>4, <2>5 DEF Near, Edited
  <2> QED BY <1>3, <1>5, <2>2, <2>3, <2>6, LongerChain DEF Chain
<1> QED BY <1>3, <1>5, <1>6, <1>7

(* A step that leaves the history and what the document configures.        *)
LEMMA SameChain ==
  ASSUME Chain, UNCHANGED <<undo, redo, edges>>,
         Editor!Configuration(document') = Editor!Configuration(document)
  PROVE  Chain'
<1>1. Near'
  BY DEF Chain, Near, Edited
<1> QED BY <1>1 DEF Chain, Forward, Backward, Edited
-----------------------------------------------------------------------------
(***************************************************************************)
(* Each step keeps the invariant.                                          *)
(***************************************************************************)
Bounds == [edits : Nat, saves : Nat, failures : Nat, foreign : Nat, sizes : SUBSET Nat]

LEMMA Spent ==
  ASSUME Types, NEW what \in {"edits", "saves", "failures", "foreign"}, Editor!Spend(what)
  PROVE  left' \in Bounds
<1>1. left \in Bounds /\ left[what] > 0 /\ left' = [left EXCEPT ![what] = left[what] - 1]
  BY DEF Types, Bounds, Editor!Spend
<1>2. CASE what = "edits"
  BY <1>1, <1>2 DEF Bounds
<1>3. CASE what = "saves"
  BY <1>1, <1>3 DEF Bounds
<1>4. CASE what = "failures"
  BY <1>1, <1>4 DEF Bounds
<1>5. CASE what = "foreign"
  BY <1>1, <1>5 DEF Bounds
<1> QED BY <1>2, <1>3, <1>4, <1>5

LEMMA DocumentFacts ==
  ASSUME NEW d \in Documents
  PROVE  /\ d = [text |-> d.text, files |-> d.files, size |-> d.size]
         /\ d.text \in Texts /\ d.files \in Partial /\ d.size \in Nat
         /\ d.text = [own |-> d.text.own, includes |-> d.text.includes, parts |-> d.text.parts]
         /\ d.text.own \in Int /\ d.text.parts \in Partial
         /\ DOMAIN d.files = d.text.includes /\ d.text.includes \subseteq Includes
  BY DEF Documents, Texts

LEMMA PathFacts == Includes \subseteq Editor!Paths /\ Original \in Editor!Paths
  BY DEF Editor!Paths

LEMMA InitKept == Editor!Init => DeskInv
<1> SUFFICES ASSUME Editor!Init PROVE DeskInv
  OBVIOUS
<1>1. /\ disk = [p \in Editor!Paths |-> IF p = Original THEN Editor!Text(0, Includes, Editor!Empty)
                                        ELSE Editor!Plain(0)]
      /\ document = [text |-> disk[Original], files |-> [k \in Includes |-> 0], size |-> 1]
      /\ filename = Original /\ modified = FALSE /\ undo = <<>> /\ redo = <<>>
      /\ savedIncludes = document.files /\ saving = Editor!Idle /\ open = TRUE
      /\ edges = {} /\ foreign = {} /\ left \in EditorBudgets
  BY DEF Editor!Init
<1>2. Editor!Text(0, Includes, Editor!Empty) \in Texts /\ Editor!Plain(0) \in Texts
  BY EmptyPartial, PlainText DEF Editor!Text, Texts
<1>3. /\ disk \in [Editor!Paths -> Texts]
      /\ disk[Original] = Editor!Text(0, Includes, Editor!Empty)
      /\ \A k \in Includes : disk[k] = Editor!Plain(0)
  BY <1>1, <1>2, PathFacts, EditorAssumption
<1>4. [k \in Includes |-> 0] \in Partial
  BY PartialFacts
<1>5. disk[Original].includes = Includes
  BY <1>3 DEF Editor!Text
<1>6. document \in Documents /\ document.text.includes = Includes
  BY <1>1, <1>2, <1>3, <1>4, <1>5 DEF Documents
<1>7. Types
  <2>1. undo \in Seq(Documents) /\ redo \in Seq(Documents)
    BY <1>1
  <2>2. savedIncludes \in Partial
    BY <1>1, <1>4
  <2>3. left \in Bounds
    BY <1>1, EditorAssumption DEF Bounds
  <2> QED BY <1>1, <1>3, <1>6, <2>1, <2>2, <2>3, PathFacts DEF Types, Bounds
<1>8. Known /\ Saving /\ Unmodified
  BY <1>1, <1>3, <1>6, EditorAssumption DEF Known, Saving, Unmodified, Holds
<1>9. Chain
  BY <1>1 DEF Chain, Forward, Backward, Near
<1> QED BY <1>7, <1>8, <1>9 DEF DeskInv

LEMMA EditKept == DeskInv /\ Editor!Edit => DeskInv'
<1> SUFFICES ASSUME DeskInv, Editor!Edit PROVE DeskInv'
  OBVIOUS
<1>1. PICK next \in Editor!Changed(document, left.edits), size \in left.sizes :
        /\ document' = [next EXCEPT !.size = size]
        /\ edges' = edges \cup {<<Editor!Configuration(document), Editor!Configuration(next)>>}
  BY DEF Editor!Edit
<1>2. /\ saving = Editor!Idle /\ modified' = TRUE
      /\ Editor!TakeHistory(Editor!RememberEdit([undo |-> undo, redo |-> <<>>], "undo", document))
      /\ UNCHANGED <<disk, filename, savedIncludes, saving, open, foreign>>
      /\ Editor!Spend("edits")
  BY DEF Editor!Edit
<1>3. Types /\ Chain /\ document \in Documents /\ left.edits \in Int /\ size \in Nat
  BY DEF DeskInv, Types
<1>4. document' \in Documents
  BY <1>1, <1>3, ChangedDocument
<1>5. Editor!Configuration(document') = Editor!Configuration(next)
  <2>1. document'.text = next.text /\ document'.files = next.files
    BY <1>1, <1>3 DEF Editor!Changed, Documents
  <2> QED BY <2>1 DEF Editor!Configuration
<1>6. Chain' /\ undo' \in Seq(Documents) /\ redo' \in Seq(Documents)
  BY <1>1, <1>2, <1>3, <1>5, EditChain
<1>7. Types'
  BY <1>2, <1>3, <1>4, <1>6, Spent DEF Types, Bounds
<1>8. Known' /\ Saving' /\ Unmodified'
  BY <1>2 DEF DeskInv, Known, Saving, Unmodified, Holds
<1> QED BY <1>6, <1>7, <1>8 DEF DeskInv

LEMMA UndoKept == DeskInv /\ Editor!UndoEdit => DeskInv'
<1> SUFFICES ASSUME DeskInv, Editor!UndoEdit PROVE DeskInv'
  OBVIOUS
<1>1. /\ saving = Editor!Idle /\ modified' = TRUE /\ undo # <<>> /\ document' = Editor!Last(undo)
      /\ Editor!TakeHistory(
           Editor!RememberEdit([undo |-> Editor!Front(undo), redo |-> redo], "redo", document))
      /\ UNCHANGED <<disk, filename, savedIncludes, saving, open, edges, foreign, left>>
  BY DEF Editor!UndoEdit
<1>2. Types /\ Chain
  BY DEF DeskInv
<1>3. Chain' /\ document' \in Documents /\ undo' \in Seq(Documents) /\ redo' \in Seq(Documents)
  BY <1>1, <1>2, UndoChain
<1>4. Types'
  BY <1>1, <1>2, <1>3 DEF Types
<1>5. Known' /\ Saving' /\ Unmodified'
  BY <1>1 DEF DeskInv, Known, Saving, Unmodified, Holds
<1> QED BY <1>3, <1>4, <1>5 DEF DeskInv

LEMMA RedoKept == DeskInv /\ Editor!RedoEdit => DeskInv'
<1> SUFFICES ASSUME DeskInv, Editor!RedoEdit PROVE DeskInv'
  OBVIOUS
<1>1. /\ saving = Editor!Idle /\ modified' = TRUE /\ redo # <<>> /\ document' = Editor!Last(redo)
      /\ Editor!TakeHistory(
           Editor!RememberEdit([undo |-> undo, redo |-> Editor!Front(redo)], "undo", document))
      /\ UNCHANGED <<disk, filename, savedIncludes, saving, open, edges, foreign, left>>
  BY DEF Editor!RedoEdit
<1>2. Types /\ Chain
  BY DEF DeskInv
<1>3. Chain' /\ document' \in Documents /\ undo' \in Seq(Documents) /\ redo' \in Seq(Documents)
  BY <1>1, <1>2, RedoChain
<1>4. Types'
  BY <1>1, <1>2, <1>3 DEF Types
<1>5. Known' /\ Saving' /\ Unmodified'
  BY <1>1 DEF DeskInv, Known, Saving, Unmodified, Holds
<1> QED BY <1>3, <1>4, <1>5 DEF DeskInv

(* The document with its INCLUDE files in one file.                        *)
LEMMA OneFileKept ==
  ASSUME DeskInv, NEW path \in Editor!Paths, saving = Editor!Idle,
         Editor!Spend("saves"), Editor!SaveOneFile(path)
  PROVE  DeskInv'
<1> DEFINE merged == Editor!Merged(document.text.parts, document.files)
           text == Editor!AsOneFile(document)
<1>1. /\ disk' = [disk EXCEPT ![path] = text] /\ foreign' = foreign \ {path}
      /\ document' = [document EXCEPT !.text = text, !.files = Editor!Empty]
      /\ filename' = path /\ savedIncludes' = Editor!Empty /\ modified' = FALSE
      /\ UNCHANGED <<undo, redo, saving, open, edges>>
  BY DEF Editor!SaveOneFile, Editor!Written
<1>2. Types /\ Chain /\ document \in Documents
  BY DEF DeskInv, Types
<1>3. merged \in Partial
  BY <1>2, DocumentFacts, MergedPartial
<1>4. text = [own |-> document.text.own, includes |-> {}, parts |-> merged] /\ text \in Texts
  <2> HIDE DEF merged
  <2>1. text = [own |-> document.text.own, includes |-> {}, parts |-> merged]
    BY DEF Editor!AsOneFile, Editor!Text, merged
  <2>2. document.text.own \in Int /\ {} \in SUBSET Includes
    BY <1>2, DocumentFacts
  <2> HIDE DEF text
  <2> QED BY <1>3, <2>1, <2>2 DEF Texts
<1> HIDE DEF text
<1>5. document' = [text |-> text, files |-> Editor!Empty, size |-> document.size]
  <2>1. document \in [text : Texts, files : Partial, size : Nat]
    BY <1>2 DEF Documents
  <2> QED BY <1>1, <2>1
<1>6. document' \in Documents
  BY <1>2, <1>4, <1>5, DocumentFacts, EmptyPartial DEF Documents
<1>7. Types'
  BY <1>1, <1>2, <1>4, <1>6, EmptyPartial, Spent DEF Types, Bounds
<1>8. Known' /\ Saving'
  BY <1>1, EmptyPartial DEF DeskInv, Known, Saving
<1>9. Unmodified'
  BY <1>1, <1>2, <1>4, <1>5 DEF Unmodified, Types
<1>10. Editor!Merged(merged, Editor!Empty) = merged
  <2>1. DOMAIN merged \cup {} = DOMAIN merged /\ merged = [k \in DOMAIN merged |-> merged[k]]
    BY <1>3, PartialFacts
  <2> HIDE DEF merged
  <2> QED BY <2>1, EmptyPartial DEF Editor!Merged
<1>11. Editor!Configuration(document') = Editor!Configuration(document)
  BY <1>4, <1>5, <1>10 DEF Editor!Configuration
<1>12. Chain'
  BY <1>1, <1>2, <1>11, SameChain
<1> QED BY <1>7, <1>8, <1>9, <1>12 DEF DeskInv

(* A save that asks or copies first.                                       *)
LEMMA StartKept ==
  ASSUME DeskInv, NEW path \in Editor!Paths, NEW closing \in BOOLEAN, saving = Editor!Idle,
         Editor!Spend("saves"), Editor!StartSave(path, closing)
  PROVE  DeskInv'
<1>1. /\ path \notin document.text.includes
      /\ UNCHANGED <<disk, document, filename, modified, undo, redo, savedIncludes, open, edges, foreign>>
  BY DEF Editor!StartSave
<1>2. PICK stage \in {"asking", "copying"} :
        saving' = [stage |-> stage, path |-> path, changed |-> Editor!Rewritten(document),
                   written |-> {}, closing |-> closing]
  BY DEF Editor!StartSave
<1>3. Editor!Rewritten(document) \in SUBSET Includes
  BY DocumentFacts DEF DeskInv, Types, Editor!Rewritten
<1>4. saving' \in Saves
  BY <1>2, <1>3 DEF Saves
<1>5. Types'
  BY <1>1, <1>4, Spent DEF DeskInv, Types, Bounds
<1>6. Editor!Rewritten(document)' = Editor!Rewritten(document)
  BY <1>1 DEF Editor!Rewritten
<1>7. Known'
  BY <1>1 DEF DeskInv, Known, Holds
<1>8. Saving'
  BY <1>1, <1>2, <1>6 DEF Saving, Holds
<1>9. Unmodified' /\ Chain'
  BY <1>1, SameChain DEF DeskInv, Unmodified, Holds
<1> QED BY <1>5, <1>7, <1>8, <1>9 DEF DeskInv

LEMMA SaveKept ==
  ASSUME DeskInv, NEW path \in Editor!Paths, NEW closing \in BOOLEAN, Editor!Save(path, closing)
  PROVE  DeskInv'
  BY OneFileKept, StartKept DEF Editor!Save

LEMMA SavingRecord ==
  ASSUME Types, saving.stage # "none"
  PROVE  saving \in Saves /\ saving # Editor!Idle
<1>1. saving # Editor!Idle
  BY DEF Editor!Idle
<1> QED BY <1>1 DEF Types

(* Steps of a save that write nothing.                                     *)
LEMMA StageKept ==
  ASSUME DeskInv, saving \in Saves, saving # Editor!Idle,
         saving' = Editor!Idle
           \/ \E stage \in {"copying", "replacing"} : saving' = [saving EXCEPT !.stage = stage],
         saving.stage # "replacing",
         UNCHANGED <<disk, document, filename, modified, undo, redo, savedIncludes, open, edges,
                     foreign, left>>
  PROVE  DeskInv'
<1>1. Types' /\ (saving' # Editor!Idle =>
        /\ saving'.changed = saving.changed /\ saving'.written = saving.written
        /\ saving'.path = saving.path)
  BY DEF DeskInv, Types, Saves
<1>2. Known' /\ saving.written = {}
  BY <1>1 DEF DeskInv, Known, Holds, Saving
<1>3. Editor!Rewritten(document)' = Editor!Rewritten(document)
  BY DEF Editor!Rewritten
<1>4. Saving'
  BY <1>1, <1>2, <1>3 DEF DeskInv, Saving, Holds
<1>5. Unmodified' /\ Chain'
  BY SameChain DEF DeskInv, Unmodified, Holds
<1> QED BY <1>1, <1>2, <1>4, <1>5 DEF DeskInv

LEMMA ConfirmKept == DeskInv /\ Editor!Confirm => DeskInv'
<1> SUFFICES ASSUME DeskInv, Editor!Confirm PROVE DeskInv'
  OBVIOUS
<1>1. Types /\ saving.stage = "asking"
  BY DEF DeskInv, Editor!Confirm
<1>2. saving \in Saves /\ saving # Editor!Idle
  BY <1>1, SavingRecord
<1> QED BY <1>1, <1>2, StageKept DEF Editor!Confirm

LEMMA CopiedKept == DeskInv /\ Editor!Copied => DeskInv'
<1> SUFFICES ASSUME DeskInv, Editor!Copied PROVE DeskInv'
  OBVIOUS
<1>1. Types /\ saving.stage = "copying" /\ saving' = [saving EXCEPT !.stage = "replacing"]
  BY DEF DeskInv, Editor!Copied
<1>2. saving \in Saves /\ saving # Editor!Idle
  BY <1>1, SavingRecord
<1>3. saving' # Editor!Idle
  BY <1>1, <1>2 DEF Saves, Editor!Idle
<1> QED BY <1>1, <1>2, <1>3, StageKept DEF Editor!Copied

LEMMA ReplaceIncludeKept == DeskInv /\ Editor!ReplaceInclude => DeskInv'
<1> SUFFICES ASSUME DeskInv, Editor!ReplaceInclude PROVE DeskInv'
  OBVIOUS
<1>1. PICK k \in saving.changed \ saving.written :
        /\ disk' = [disk EXCEPT ![k] = Editor!Plain(document.files[k])]
        /\ foreign' = foreign \ {k}
        /\ saving' = [saving EXCEPT !.written = saving.written \cup {k}]
  BY DEF Editor!ReplaceInclude, Editor!Written
<1>2. /\ saving.stage = "replacing"
      /\ UNCHANGED <<document, filename, modified, undo, redo, savedIncludes, open, edges, left>>
  BY DEF Editor!ReplaceInclude
<1>3. Types /\ saving \in Saves /\ saving # Editor!Idle
  BY <1>2, SavingRecord DEF DeskInv
<1>4. /\ k \in Editor!Rewritten(document) /\ k \in document.text.includes /\ k \in Includes
      /\ k \in DOMAIN document.files /\ document.files[k] \in Int
  <2>1. k \in Editor!Rewritten(document)
    BY <1>3 DEF DeskInv, Saving
  <2>2. k \in DOMAIN document.files
    BY <2>1 DEF Editor!Rewritten
  <2>3. document \in Documents
    BY <1>3 DEF Types
  <2> QED BY <2>1, <2>2, <2>3, DocumentFacts, PartialFacts
<1>5. disk'[k] = Editor!Plain(document.files[k]) /\ \A p \in Editor!Paths \ {k} : disk'[p] = disk[p]
  BY <1>1, <1>3, <1>4, PathFacts DEF Types
<1>6. /\ saving' \in Saves /\ saving' # Editor!Idle
      /\ saving'.written = saving.written \cup {k} /\ saving'.changed = saving.changed
      /\ saving'.path = saving.path /\ saving'.stage = "replacing"
  BY <1>1, <1>2, <1>3, <1>4 DEF Saves, Editor!Idle
<1>7. Types'
  <2>1. disk' \in [Editor!Paths -> Texts]
    BY <1>1, <1>3, <1>4, PlainText, PathFacts DEF Types
  <2> QED BY <1>1, <1>2, <1>3, <1>6, <2>1 DEF Types
<1>8. Known'
  BY <1>1, <1>2, <1>3, <1>5, <1>6, PartialFacts, PathFacts DEF DeskInv, Known, Holds, Types
<1>9. Editor!Rewritten(document)' = Editor!Rewritten(document)
  BY <1>2 DEF Editor!Rewritten
<1>10. Saving'
  <2>1. ASSUME NEW j \in saving'.written PROVE Holds(j, document.files[j])'
    <3>1. CASE j = k
      BY <1>2, <1>5, <3>1 DEF Holds
    <3>2. CASE j # k
      <4>1. j \in saving.written /\ j \in Editor!Paths
        BY <1>3, <1>6, <2>1, <3>2, PathFacts DEF Saves
      <4> QED BY <1>1, <1>2, <1>3, <1>5, <3>2, <4>1 DEF DeskInv, Saving, Holds
    <3> QED BY <3>1, <3>2
  <2> QED BY <1>1, <1>2, <1>3, <1>6, <1>9, <2>1 DEF DeskInv, Saving
<1>11. Unmodified'
  <2> SUFFICES ASSUME ~modified PROVE Unmodified'
    BY <1>2 DEF Unmodified
  <2>1. filename \in Editor!Paths \ {k}
    BY <1>3, <1>4 DEF DeskInv, Unmodified, Types
  <2>2. ASSUME NEW j \in document.text.includes PROVE Holds(j, document.files[j])'
    <3>1. CASE j = k
      BY <1>2, <1>5, <3>1 DEF Holds
    <3>2. CASE j # k
      <4>1. j \in Editor!Paths
        BY <1>3, <2>2, DocumentFacts, PathFacts DEF Types
      <4> QED BY <1>1, <1>2, <1>5, <3>2, <4>1 DEF DeskInv, Unmodified, Holds
    <3> QED BY <3>1, <3>2
  <2> QED BY <1>1, <1>2, <1>5, <2>1, <2>2 DEF DeskInv, Unmodified
<1>12. Chain'
  BY <1>2, SameChain DEF DeskInv
<1> QED BY <1>7, <1>8, <1>10, <1>11, <1>12 DEF DeskInv

(* The file that reads the others is written last: then all are on disk.   *)
LEMMA ReplaceMainKept == DeskInv /\ Editor!ReplaceMain => DeskInv'
<1> SUFFICES ASSUME DeskInv, Editor!ReplaceMain PROVE DeskInv'
  OBVIOUS
<1>1. /\ saving.stage = "replacing" /\ saving.written = saving.changed
      /\ disk' = [disk EXCEPT ![saving.path] = document.text] /\ foreign' = foreign \ {saving.path}
      /\ filename' = saving.path /\ savedIncludes' = document.files
      /\ modified' = FALSE /\ open' = ~saving.closing /\ saving' = Editor!Idle
      /\ UNCHANGED <<document, undo, redo, edges, left>>
  BY DEF Editor!ReplaceMain, Editor!Written
<1>2. Types /\ saving \in Saves /\ saving # Editor!Idle /\ document \in Documents
  BY <1>1, SavingRecord DEF DeskInv, Types
<1>3. saving.path \in Editor!Paths /\ saving.path \notin document.text.includes
  BY <1>2 DEF Saves, DeskInv, Saving
<1>4. disk'[saving.path] = document.text
      /\ \A p \in Editor!Paths \ {saving.path} : disk'[p] = disk[p]
  BY <1>1, <1>2, <1>3 DEF Types
<1>5. Types'
  <2>1. disk' \in [Editor!Paths -> Texts] /\ document.files \in Partial
    BY <1>1, <1>2, <1>3, DocumentFacts DEF Types
  <2>2. open' \in BOOLEAN
    BY <1>1, <1>2 DEF Saves
  <2> QED BY <1>1, <1>2, <1>3, <2>1, <2>2 DEF Types
<1>6. ASSUME NEW k \in document.text.includes
      PROVE  k \in Editor!Paths \ {saving.path} /\ Holds(k, document.files[k])
  <2>1. k \in DOMAIN document.files /\ k \in Editor!Paths \ {saving.path}
    BY <1>2, <1>3, DocumentFacts, PathFacts
  <2>2. CASE k \in saving.changed
    BY <1>1, <1>2, <2>1, <2>2 DEF DeskInv, Saving
  <2>3. CASE k \notin saving.changed
    <3>1. k \in DOMAIN savedIncludes /\ savedIncludes[k] = document.files[k]
      BY <1>2, <2>1, <2>3 DEF DeskInv, Saving, Editor!Rewritten
    <3> QED BY <1>1, <2>1, <2>3, <3>1 DEF DeskInv, Known
  <2> QED BY <2>2, <2>3
<1>7. \A k \in document.text.includes : Holds(k, document.files[k])'
  BY <1>1, <1>4, <1>6 DEF Holds
<1>8. Known' /\ Saving'
  BY <1>1, <1>2, <1>7, DocumentFacts DEF Known, Saving, Holds
<1>9. Unmodified'
  BY <1>1, <1>3, <1>4, <1>7 DEF Unmodified
<1>10. Chain'
  BY <1>1, SameChain DEF DeskInv
<1> QED BY <1>5, <1>8, <1>9, <1>10 DEF DeskInv

LEMMA FailKept == DeskInv /\ Editor!FailSave => DeskInv'
<1> SUFFICES ASSUME DeskInv, Editor!FailSave PROVE DeskInv'
  OBVIOUS
<1>1. /\ saving.stage \in {"copying", "replacing"} /\ Editor!Spend("failures")
      /\ savedIncludes' = Editor!Restrict(document.files, saving.written) /\ saving' = Editor!Idle
      /\ UNCHANGED <<disk, document, filename, modified, undo, redo, open, edges, foreign>>
  BY DEF Editor!FailSave
<1>2. Types /\ saving \in Saves /\ saving # Editor!Idle /\ document \in Documents
  BY <1>1, SavingRecord DEF DeskInv, Types
<1>3. saving.written \subseteq DOMAIN document.files
  BY <1>2 DEF DeskInv, Saving, Editor!Rewritten
<1>4. /\ savedIncludes' \in [saving.written -> Int] /\ saving.written \in SUBSET Includes
      /\ \A k \in saving.written : savedIncludes'[k] = document.files[k]
  BY <1>1, <1>2, <1>3, DocumentFacts, PartialFacts DEF Editor!Restrict, Saves
<1>5. savedIncludes' \in Partial /\ DOMAIN savedIncludes' = saving.written
  BY <1>4, PartialFacts
<1>6. Types'
  BY <1>1, <1>2, <1>5, Spent DEF Types, Bounds
<1>7. Known' /\ Saving'
  BY <1>1, <1>2, <1>4, <1>5 DEF DeskInv, Known, Saving, Holds
<1>8. Unmodified' /\ Chain'
  BY <1>1, SameChain DEF DeskInv, Unmodified, Holds
<1> QED BY <1>6, <1>7, <1>8 DEF DeskInv

LEMMA CloseKept == DeskInv /\ Editor!Close => DeskInv'
<1> SUFFICES ASSUME DeskInv, Editor!Close PROVE DeskInv'
  OBVIOUS
<1>1. /\ open' = FALSE
      /\ UNCHANGED <<disk, document, filename, modified, undo, redo, savedIncludes, saving, edges,
                     foreign, left>>
  BY DEF Editor!Close
<1>2. Types'
  BY <1>1 DEF DeskInv, Types
<1>3. Editor!Rewritten(document)' = Editor!Rewritten(document)
  BY <1>1 DEF Editor!Rewritten
<1>4. Known' /\ Saving' /\ Unmodified' /\ Chain'
  BY <1>1, <1>3, SameChain DEF DeskInv, Known, Saving, Unmodified, Holds
<1> QED BY <1>2, <1>4 DEF DeskInv

LEMMA ForeignKept ==
  ASSUME DeskInv, NEW k \in Includes, Editor!SaveForeign(k)
  PROVE  DeskInv'
<1>1. /\ Editor!Spend("foreign") /\ disk' = [disk EXCEPT ![k] = Editor!Plain(-left.foreign)]
      /\ foreign' = foreign \cup {k}
      /\ UNCHANGED <<document, filename, modified, undo, redo, savedIncludes, saving, open, edges>>
  BY DEF Editor!SaveForeign
<1>2. Types /\ k \in Editor!Paths /\ -left.foreign \in Int
  BY PathFacts DEF DeskInv, Types
<1>3. \A p \in Editor!Paths : disk'[p] = disk[p] \/ p \in foreign'
  BY <1>1, <1>2 DEF Types
<1>4. Types'
  <2>1. disk' \in [Editor!Paths -> Texts]
    BY <1>1, <1>2, PlainText DEF Types
  <2> QED BY <1>1, <1>2, <2>1, Spent DEF Types, Bounds
<1>5. ASSUME NEW j \in Includes, NEW v PROVE Holds(j, v) => disk'[j] = Editor!Plain(v) \/ j \in foreign'
  BY <1>1, <1>3, PathFacts DEF Holds
<1>6. Editor!Rewritten(document)' = Editor!Rewritten(document)
  BY <1>1 DEF Editor!Rewritten
<1>7. DOMAIN savedIncludes \subseteq Includes /\ document.text.includes \subseteq Includes
      /\ (saving # Editor!Idle => saving.written \subseteq Includes)
  BY <1>2, PartialFacts, DocumentFacts DEF Types, Saves
<1>8. Known'
  BY <1>1, <1>5, <1>7 DEF DeskInv, Known, Holds
<1>9. Saving'
  BY <1>1, <1>5, <1>6, <1>7 DEF DeskInv, Saving, Holds
<1>10. Unmodified'
  BY <1>1, <1>2, <1>3, <1>5, <1>7 DEF DeskInv, Unmodified, Holds, Types
<1>11. Chain'
  BY <1>1, SameChain DEF DeskInv
<1> QED BY <1>4, <1>8, <1>9, <1>10, <1>11 DEF DeskInv

LEMMA StutterKept == DeskInv /\ UNCHANGED editorVars => DeskInv'
<1> SUFFICES ASSUME DeskInv, UNCHANGED editorVars PROVE DeskInv'
  OBVIOUS
<1>1. Types'
  BY DEF DeskInv, Types, editorVars
<1>2. Editor!Rewritten(document)' = Editor!Rewritten(document)
  BY DEF Editor!Rewritten, editorVars
<1>3. Known' /\ Saving' /\ Unmodified' /\ Chain'
  BY <1>2, SameChain DEF DeskInv, Known, Saving, Unmodified, Holds, editorVars
<1> QED BY <1>1, <1>3 DEF DeskInv
-----------------------------------------------------------------------------
LEMMA Invariant == Editor!Spec => []DeskInv
<1>1. Editor!Init => DeskInv
  BY InitKept
<1>2. DeskInv /\ [Editor!Next]_Editor!vars => DeskInv'
  <2> SUFFICES ASSUME DeskInv, [Editor!Next]_Editor!vars PROVE DeskInv'
    OBVIOUS
  <2>1. CASE UNCHANGED Editor!vars
    BY <2>1, StutterKept DEF Editor!vars, editorVars
  <2>2. CASE Editor!Edit \/ Editor!UndoEdit \/ Editor!RedoEdit
    BY <2>2, EditKept, UndoKept, RedoKept
  <2>3. CASE \E path \in Editor!Paths, closing \in BOOLEAN : Editor!Save(path, closing)
    BY <2>3, SaveKept
  <2>4. CASE Editor!Confirm \/ Editor!Copied \/ Editor!ReplaceInclude \/ Editor!ReplaceMain
    BY <2>4, ConfirmKept, CopiedKept, ReplaceIncludeKept, ReplaceMainKept
  <2>5. CASE Editor!FailSave \/ Editor!Close
    BY <2>5, FailKept, CloseKept
  <2>6. CASE \E k \in Includes : Editor!SaveForeign(k)
    BY <2>6, ForeignKept
  <2> QED BY <2>1, <2>2, <2>3, <2>4, <2>5, <2>6 DEF Editor!Next
<1> QED BY <1>1, <1>2, PTL DEF Editor!Spec

(* Undo and Redo go from one configuration to the next by edits that were  *)
(* made (Window::rememberEdit, undoEdit, redoEdit).                        *)
THEOREM HistoryStaysContiguous == Editor!Spec => []HistoryContiguous
<1>1. DeskInv => HistoryContiguous
  BY ChainContiguous DEF DeskInv
<1> QED BY <1>1, Invariant, PTL

(* What the editor does not show as modified is on disk with every INCLUDE *)
(* file, but for what another editor wrote (Window::saveTo, closeEvent).   *)
THEOREM SavedIsOnDisk == Editor!Spec => []SavedMeansOnDisk
<1>1. DeskInv => SavedMeansOnDisk
  BY DEF DeskInv, Unmodified, Holds, SavedMeansOnDisk, Editor!SavedMeansOnDisk
<1> QED BY <1>1, Invariant, PTL

(* What the analytics hold: the totals of a row, what the engine shows of  *)
(* a channel, the rows of channel instances, the records, and all of it.   *)
Amounts == [activations : Int, active : Int, observed : Int, acks : Int, gaps : Int, incomplete : Int]

Shows ==
  [initialized : BOOLEAN, available : BOOLEAN, severity : Int, unack : Nat, suppressed : BOOLEAN]

Rows ==
  [key : Nat, identity : Identities, removed : BOOLEAN, ambiguous : BOOLEAN, available : BOOLEAN,
   initialized : BOOLEAN, severity : Int, unack : Nat, suppressed : BOOLEAN, last : Int,
   ackUnknown : BOOLEAN, retiredAt : Int, totals : [BOOLEAN -> Amounts]]

Records ==
  [channel : Nat, from : Int, time : Int, priorAvailable : BOOLEAN, priorSeverity : Int,
   priorSuppressed : BOOLEAN, suppressed : BOOLEAN, activation : BOOLEAN, ack : BOOLEAN,
   incomplete : BOOLEAN, gap : BOOLEAN]

Data ==
  [generation : Int, started : Int, coverage : Int, rows : Seq(Rows), records : Seq(Records),
   index : [Identities -> Nat], expiry : Int, truncated : BOOLEAN, keys : Nat]

(* Every identity has a row of its own, or none; keys are given once.      *)
Indexed(d) ==
  /\ \A id \in Identities : d.index[id] \in 0..Len(d.rows)
  /\ \A id, other \in Identities : d.index[id] = d.index[other] /\ d.index[id] # 0 => id = other
  /\ \A i, j \in DOMAIN d.rows : d.rows[i].key = d.rows[j].key => i = j
  /\ \A i \in DOMAIN d.rows : d.rows[i].key < d.keys

(* How often a row told of an end, and the alarm that is outstanding.      *)
Told(row) == row.totals[TRUE].acks + row.totals[FALSE].acks
               + row.totals[TRUE].incomplete + row.totals[FALSE].incomplete
Outstanding(row) == IF row.available /\ row.unack > 0 THEN 1 ELSE 0

(* How often a row was seen becoming unacknowledged; each of those is      *)
(* among the ends it told of or is still outstanding; and none is of a key *)
(* that was not given yet.                                                 *)
Lit(latches, key) == Cardinality({k \in DOMAIN latches : latches[k] = key})

Accounted(d, latches) ==
  \A i \in DOMAIN d.rows : Lit(latches, d.rows[i].key) = Told(d.rows[i]) + Outstanding(d.rows[i])

Given(d, latches) == \A k \in DOMAIN latches : latches[k] < d.keys

Shaped(d) == d \in Data /\ Indexed(d)

(* A row is the one of a channel in this state.                            *)
Reflects(d, i, id, states) ==
  /\ d.index[id] = i /\ ~d.rows[i].removed /\ ~d.rows[i].ambiguous
  /\ d.rows[i].unack = states[id].unack

Reflected(d, ids, states) ==
  \A i \in DOMAIN d.rows : d.rows[i].available => \E id \in ids : Reflects(d, i, id, states)

(* A row that is available is the one of a channel of the configuration    *)
(* and shows what the engine knows of it.                                  *)
Current(d) == Reflected(d, Analytics!Included(configuration), live)

(* What EpisodesAccounted needs at every step of the analytics.            *)
WatchInv ==
  /\ Shaped(data)
  /\ live \in [Identities -> Shows]
  /\ now \in Int /\ lastMono \in Int
  /\ truth.latches \in Seq(Nat) /\ DOMAIN truth = {"seen", "rises", "latches"}
  /\ Given(data, truth.latches)
  /\ Accounted(data, truth.latches)
  /\ Current(data)
-----------------------------------------------------------------------------
(* A set of natural numbers has a least one: what stands for induction     *)
(* below.                                                                  *)
LEMMA LeastOf ==
  ASSUME NEW T, T \subseteq Nat, T # {}
  PROVE  Analytics!Min(T) \in T /\ \A m \in T : Analytics!Min(T) <= m
<1>1. OpToRel(<, Nat) = {ss \in Nat \X Nat : ss[1] < ss[2]}
  BY ONLY Zenon DEF OpToRel
<1>2. PICK n \in T : \A m \in T : ~(<<m, n>> \in OpToRel(<, Nat))
  BY NatLessThanWellFounded, WFMin
<1>3. \A m \in T : n <= m
  <2> TAKE m \in T
  <2>1. <<m, n>> \in Nat \X Nat /\ <<m, n>>[1] = m /\ <<m, n>>[2] = n
    OBVIOUS
  <2>2. ~(m < n)
    BY ONLY <1>1, <1>2, <2>1, m \in T, Zenon
  <2> QED BY <2>2
<1> QED BY <1>3 DEF Analytics!Min


(***************************************************************************)
(* Folds.  The function that a fold iterates exists when every step leads  *)
(* from a value allowed for the elements so far to an allowed one.         *)
(***************************************************************************)
Foldable(S, V, W, base, pick, G) ==
  /\ IsFiniteSet(S)
  /\ \A s \in SUBSET S : W[s] \subseteq V
  /\ base \in W[{}]
  /\ \A s \in SUBSET S : s # {} =>
        pick[s] \in s /\ \A v \in W[s \ {pick[s]}] : G[<<pick[s], v>>] \in W[s]

(* A fold over the subsets of S, its picks in an order of their own, is a  *)
(* function: there is an f with the values of the fold at every subset.    *)
Folded(f, S, W, base, pick, G) ==
  \A s \in SUBSET S : f[s] \in W[s] /\ f[s] = IF s = {} THEN base ELSE G[<<pick[s], f[s \ {pick[s]}]>>]

HasFold(S, V, W, base, pick, G) == \E f \in [SUBSET S -> V] : Folded(f, S, W, base, pick, G)

LEMMA FoldExists ==
  ASSUME NEW S, NEW V, NEW W, NEW base, NEW pick, NEW G, Foldable(S, V, W, base, pick, G)
  PROVE  HasFold(S, V, W, base, pick, G)
<1> DEFINE Upto(n) == {s \in SUBSET S : Cardinality(s) <= n}
           Good(f, n) ==
             /\ f \in [Upto(n) -> V]
             /\ \A s \in Upto(n) :
                  f[s] \in W[s] /\ f[s] = IF s = {} THEN base ELSE G[<<pick[s], f[s \ {pick[s]}]>>]
           T == {n \in Nat : ~\E f : Good(f, n)}
<1> USE DEF Foldable, Folded, HasFold
<1>0. \A s \in SUBSET S : IsFiniteSet(s) /\ Cardinality(s) \in Nat
  BY FS_Subset, FS_CardinalityType
<1>1. T = {}
  <2> SUFFICES ASSUME T # {} PROVE FALSE
    OBVIOUS
  <2>1. PICK n \in T : \A m \in T : n <= m
    <3>1. T \subseteq Nat
      OBVIOUS
    <3> HIDE DEF T
    <3> QED BY <3>1, LeastOf
  <2>2. n \in Nat /\ ~\E f : Good(f, n)
    BY <2>1
  <2>3. CASE n = 0
    <3>1. \A s \in Upto(0) : s = {}
      BY <1>0, FS_EmptySet
    <3>2. Good([s \in Upto(0) |-> base], 0)
      BY <3>1
    <3> QED BY <2>2, <2>3, <3>2
  <2>4. CASE n # 0
    <3>1. n - 1 \in Nat /\ n - 1 \notin T
      <4>1. n - 1 \in Nat /\ ~(n <= n - 1)
        BY <2>2, <2>4
      <4> HIDE DEF T
      <4> QED BY <2>1, <4>1
    <3>2. PICK f : Good(f, n - 1)
      BY <3>1
    <3> DEFINE g == [s \in Upto(n) |-> IF s = {} THEN base ELSE G[<<pick[s], f[s \ {pick[s]}]>>]]
    <3>3. \A s \in Upto(n - 1) : s \in Upto(n) /\ g[s] = f[s]
      BY <1>0, <2>2, <3>2
    <3>4. ASSUME NEW s \in Upto(n), s # {}
          PROVE  s \ {pick[s]} \in Upto(n - 1)
      <4>1. pick[s] \in s /\ Cardinality(s \ {pick[s]}) = Cardinality(s) - 1
        BY <1>0, <3>4, FS_RemoveElement
      <4> QED BY <1>0, <2>2, <3>4, <4>1
    <3>5. ASSUME NEW s \in Upto(n)
          PROVE  g[s] \in W[s] /\ g[s] = IF s = {} THEN base ELSE G[<<pick[s], g[s \ {pick[s]}]>>]
      <4>1. CASE s = {}
        BY <4>1
      <4>2. CASE s # {}
        <5>1. s \ {pick[s]} \in Upto(n - 1)
          BY <3>4, <4>2
        <5>2. g[s \ {pick[s]}] = f[s \ {pick[s]}] /\ f[s \ {pick[s]}] \in W[s \ {pick[s]}]
          BY <3>2, <3>3, <5>1
        <5> HIDE DEF Upto
        <5>3. g[s] = G[<<pick[s], f[s \ {pick[s]}]>>]
          BY <4>2
        <5>4. s \in SUBSET S
          BY DEF Upto
        <5> QED BY <4>2, <5>2, <5>3, <5>4
      <4> QED BY <4>1, <4>2
    <3>6. Good(g, n)
      <4>1. \A s \in Upto(n) : g[s] \in V
        BY <3>5
      <4> HIDE DEF Upto
      <4>2. g \in [Upto(n) -> V]
        BY <4>1
      <4> QED BY <3>5, <4>2
    <3> QED BY <2>2, <3>6
  <2> QED BY <2>3, <2>4
<1>2. Cardinality(S) \in Nat /\ Upto(Cardinality(S)) = SUBSET S
  BY <1>0, FS_Subset, FS_CardinalityType
<1>3. PICK f : Good(f, Cardinality(S))
  BY <1>1, <1>2
<1> QED BY <1>2, <1>3

(* What holds of the empty set and is passed on at each pick of a fold     *)
(* holds of the whole set.                                                 *)
Inherited(S, W, pick, f) ==
  /\ IsFiniteSet(S)
  /\ f[{}] \in W[{}]
  /\ \A s \in SUBSET S : s # {} =>
        pick[s] \in s /\ (f[s \ {pick[s]}] \in W[s \ {pick[s]}] => f[s] \in W[s])

LEMMA FoldInduction ==
  ASSUME NEW S, NEW W, NEW pick, NEW f, Inherited(S, W, pick, f)
  PROVE  f[S] \in W[S]
<1> USE DEF Inherited
<1> DEFINE T == {n \in Nat : \E s \in SUBSET S : Cardinality(s) = n /\ f[s] \notin W[s]}
<1>0. \A s \in SUBSET S : IsFiniteSet(s) /\ Cardinality(s) \in Nat
  BY FS_Subset, FS_CardinalityType
<1>1. T = {}
  <2> SUFFICES ASSUME T # {} PROVE FALSE
    OBVIOUS
  <2>1. PICK n \in T : \A m \in T : n <= m
    <3>1. T \subseteq Nat
      OBVIOUS
    <3> HIDE DEF T
    <3> QED BY <3>1, LeastOf
  <2>2. PICK s \in SUBSET S : Cardinality(s) = n /\ f[s] \notin W[s]
    BY <2>1
  <2>3. s # {} /\ pick[s] \in s /\ f[s \ {pick[s]}] \notin W[s \ {pick[s]}]
    BY <2>2
  <2>4. Cardinality(s \ {pick[s]}) = n - 1 /\ Cardinality(s \ {pick[s]}) \in Nat
    BY <1>0, <2>2, <2>3, FS_RemoveElement
  <2>5. n - 1 \in T
    BY <2>2, <2>3, <2>4
  <2> QED BY <2>1, <2>5
<1> QED BY <1>0, <1>1, FS_CardinalityType
-----------------------------------------------------------------------------
(* The greatest and least of finitely many times are among them, as        *)
(* TrimRecords and Interval take them.                                     *)
LEMMA FiniteExtremes ==
  ASSUME NEW S, IsFiniteSet(S), S \subseteq Int, S # {}
  PROVE  /\ Analytics!Max(S) \in S /\ \A y \in S : Analytics!Max(S) >= y
         /\ Analytics!Min(S) \in S /\ \A y \in S : Analytics!Min(S) <= y
<1> DEFINE Bounded(s) == (\E x \in s : \A y \in s : x >= y) /\ (\E x \in s : \A y \in s : x <= y)
           T == {n \in Nat : \E s \in SUBSET S : s # {} /\ Cardinality(s) = n /\ ~Bounded(s)}
<1>0. \A s \in SUBSET S : IsFiniteSet(s) /\ Cardinality(s) \in Nat
  BY FS_Subset, FS_CardinalityType
<1>1. T = {}
  <2> SUFFICES ASSUME T # {} PROVE FALSE
    OBVIOUS
  <2>1. PICK n \in T : \A m \in T : n <= m
    <3>1. T \subseteq Nat
      OBVIOUS
    <3> HIDE DEF T
    <3> QED BY <3>1, LeastOf
  <2>2. PICK s \in SUBSET S : s # {} /\ Cardinality(s) = n /\ ~Bounded(s)
    BY <2>1
  <2>3. PICK x \in s : TRUE
    BY <2>2
  <2>4. Cardinality(s \ {x}) = n - 1 /\ Cardinality(s \ {x}) \in Nat
    BY <1>0, <2>2, <2>3, FS_RemoveElement
  <2>5. s \ {x} \in SUBSET S /\ x \in Int
    BY <2>2
  <2>6. s \ {x} = {} \/ Bounded(s \ {x})
    <3>1. n - 1 \notin T
      <4>1. ~(n <= n - 1)
        BY <2>1, <2>4
      <4> HIDE DEF T
      <4> QED BY <2>1, <4>1
    <3> QED BY <2>4, <2>5, <3>1
  <2>7. CASE s \ {x} = {}
    <3>1. \A y \in s : y = x
      BY <2>7
    <3> QED BY <2>2, <2>5, <3>1
  <2>8. CASE Bounded(s \ {x})
    <3>1. PICK high \in s \ {x} : \A y \in s \ {x} : high >= y
      BY <2>8
    <3>2. PICK low \in s \ {x} : \A y \in s \ {x} : low <= y
      BY <2>8
    <3>3. \A y \in s : y = x \/ (high >= y /\ low <= y)
      BY <3>1, <3>2
    <3>4. s \subseteq Int /\ high \in Int /\ low \in Int
      BY <3>1, <3>2
    <3>5. \E h \in s : \A y \in s : h >= y
      <4>1. CASE x >= high
        <5>1. \A y \in s : x >= y
          BY <2>5, <3>3, <3>4, <4>1
        <5> QED BY <5>1
      <4>2. CASE high >= x
        <5>1. \A y \in s : high >= y
          BY <2>5, <3>3, <3>4, <4>2
        <5> QED BY <5>1
      <4> QED BY <2>5, <3>4, <4>1, <4>2
    <3>6. \E l \in s : \A y \in s : l <= y
      <4>1. CASE x <= low
        <5>1. \A y \in s : x <= y
          BY <2>5, <3>3, <3>4, <4>1
        <5> QED BY <5>1
      <4>2. CASE low <= x
        <5>1. \A y \in s : low <= y
          BY <2>5, <3>3, <3>4, <4>2
        <5> QED BY <5>1
      <4> QED BY <2>5, <3>4, <4>1, <4>2
    <3> QED BY <2>2, <3>5, <3>6
  <2> QED BY <2>6, <2>7, <2>8
<1>2. Bounded(S)
  <2>1. Cardinality(S) \in Nat /\ S \in SUBSET S
    BY <1>0
  <2> QED BY <1>1, <2>1
<1> QED BY <1>2 DEF Analytics!Max, Analytics!Min

(* Finite sets: images of them and pairs.                                  *)
LEMMA FiniteImage ==
  ASSUME NEW S, IsFiniteSet(S), NEW f
  PROVE  IsFiniteSet({f[k] : k \in S})
<1> DEFINE I == {f[k] : k \in S}
           g == [k \in S |-> f[k]]
<1>1. g \in Surjection(S, I)
  BY DEF Surjection
<1> QED BY <1>1, FS_Surjection

LEMMA FinitePair == ASSUME NEW a, NEW b PROVE IsFiniteSet({a, b})
<1>1. IsFiniteSet({a}) /\ {a, b} = {a} \cup {b}
  BY FS_Singleton
<1> QED BY <1>1, FS_AddElement

(* Dropping records leaves the rows as they are.                           *)
LEMMA TrimmedRecords ==
  ASSUME NEW d \in Data, NEW t \in Int
  PROVE  \E records \in Seq(Records), coverage \in Int :
           Analytics!TrimRecords(d, t) = [d EXCEPT !.records = records, !.coverage = coverage]
<1> DEFINE n == Len(d.records)
           K == {k \in 0 .. n : ~Analytics!Stale(d, t, k)}
           dropped == Analytics!Min(K)
           past == {d.records[k].time + 1 : k \in 1 .. dropped}
           limits == {d.coverage, Analytics!Cutoff(d, t)} \cup past
<1>0. n \in Nat /\ d.records \in Seq(Records) /\ d.coverage \in Int /\ d.started \in Int
  BY DEF Data
<1>1. dropped \in 0..n
  <2>1. n \in K /\ K \subseteq Nat
    BY <1>0 DEF Analytics!Stale
  <2>2. dropped \in K
    BY <2>1, LeastOf
  <2> QED BY <2>2
<1> HIDE DEF dropped
<1>2. SubSeq(d.records, dropped + 1, n) \in Seq(Records)
  BY <1>0, <1>1, SubSeqProperties
<1>3. Analytics!Cutoff(d, t) \in Int
  <2>1. {d.started, t - Day} \subseteq Int
    BY <1>0, AnalyticsAssumption
  <2>2. IsFiniteSet({d.started, t - Day})
    BY FinitePair
  <2> QED BY <2>1, <2>2, FiniteExtremes DEF Analytics!Cutoff
<1>4. past \subseteq Int /\ IsFiniteSet(past)
  <2>1. \A k \in 1..dropped : d.records[k].time + 1 \in Int
    <3> TAKE k \in 1..dropped
    <3>1. d.records[k] \in Records
      BY <1>0, <1>1
    <3> QED BY <3>1 DEF Records
  <2> DEFINE f == [k \in 1..dropped |-> d.records[k].time + 1]
  <2>2. past = {f[k] : k \in 1..dropped}
    OBVIOUS
  <2>3. IsFiniteSet({f[k] : k \in 1..dropped})
    <3>1. IsFiniteSet(1..dropped)
      BY <1>1, FS_Interval
    <3> HIDE DEF f
    <3> QED BY <3>1, FiniteImage
  <2> QED BY <2>1, <2>2, <2>3
<1>5. Analytics!Max(limits) \in Int
  <2>1. limits \subseteq Int /\ limits # {}
    BY <1>0, <1>3, <1>4
  <2>2. IsFiniteSet({d.coverage, Analytics!Cutoff(d, t)})
    BY FinitePair
  <2>3. IsFiniteSet(limits)
    BY <1>4, <2>2, FS_Union
  <2> HIDE DEF limits
  <2> QED BY <2>1, <2>3, FiniteExtremes
<1>6. Analytics!TrimRecords(d, t)
        = [d EXCEPT !.records = SubSeq(d.records, dropped + 1, n), !.coverage = Analytics!Max(limits)]
  BY DEF Analytics!TrimRecords, dropped
<1> HIDE DEF limits
<1> QED BY <1>2, <1>5, <1>6
-----------------------------------------------------------------------------
(* What stays as it is about the rows while their totals change.           *)
Alike(d, e) ==
  /\ e.index = d.index /\ e.keys = d.keys /\ DOMAIN e.rows = DOMAIN d.rows
  /\ \A i \in DOMAIN d.rows : e.rows[i].key = d.rows[i].key

(* Data with the rows of others at the same places are as well shaped.     *)
LEMMA AlikeShaped ==
  ASSUME NEW d, NEW e \in Data, Shaped(d), Alike(d, e)
  PROVE  Shaped(e) /\ \A latches : Given(d, latches) => Given(e, latches)
<1>1. d.rows \in Seq(Rows) /\ e.rows \in Seq(Rows)
  BY DEF Shaped, Data
<1>2. Len(e.rows) = Len(d.rows)
  BY <1>1 DEF Alike
<1> QED BY <1>1, <1>2 DEF Shaped, Alike, Indexed, Given

(* A row of well-shaped data, and another in its place.                    *)
LEMMA RowFacts ==
  ASSUME NEW d \in Data, NEW i \in DOMAIN d.rows
  PROVE  d.rows \in Seq(Rows) /\ i \in 1..Len(d.rows) /\ d.rows[i] \in Rows
  BY DEF Data

LEMMA RowReplaced ==
  ASSUME NEW d \in Data, NEW i \in DOMAIN d.rows, NEW row \in Rows
  PROVE  [d.rows EXCEPT ![i] = row] \in Seq(Rows)
  BY RowFacts

(* A point counts as one or none.                                          *)
LEMMA OneNumber == \A b \in BOOLEAN : Analytics!One(b) \in Nat
  BY DEF Analytics!One

(* One more point in the totals of a row: the row tells of one more end    *)
(* when the point is a sample or an incomplete one.                        *)
LEMMA PointTotals ==
  ASSUME NEW totals \in [BOOLEAN -> Amounts], NEW b \in BOOLEAN, NEW r \in Records
  PROVE  /\ [totals EXCEPT ![b] = Analytics!Point(@, r)] \in [BOOLEAN -> Amounts]
         /\ [totals EXCEPT ![b] = Analytics!Point(@, r)][b].acks
              = totals[b].acks + Analytics!One(r.ack)
         /\ [totals EXCEPT ![b] = Analytics!Point(@, r)][b].incomplete
              = totals[b].incomplete + Analytics!One(r.incomplete)
<1>1. totals[b] \in Amounts
  OBVIOUS
<1>0. /\ Analytics!One(r.activation) \in Int /\ Analytics!One(r.ack) \in Int
      /\ Analytics!One(r.gap) \in Int /\ Analytics!One(r.incomplete) \in Int
  BY OneNumber DEF Records
<1>2. Analytics!Point(totals[b], r) \in Amounts
  <2>1. ASSUME NEW s \in Amounts, NEW n \in Int, NEW a \in Int, NEW g \in Int, NEW i \in Int
        PROVE  [s EXCEPT !.activations = n, !.acks = a, !.gaps = g, !.incomplete = i] \in Amounts
    BY DEF Amounts
  <2>2. /\ totals[b].activations + Analytics!One(r.activation) \in Int
        /\ totals[b].acks + Analytics!One(r.ack) \in Int
        /\ totals[b].gaps + Analytics!One(r.gap) \in Int
        /\ totals[b].incomplete + Analytics!One(r.incomplete) \in Int
    <3>1. /\ totals[b].activations \in Int /\ totals[b].acks \in Int
          /\ totals[b].gaps \in Int /\ totals[b].incomplete \in Int
      BY <1>1 DEF Amounts
    <3> QED BY <1>0, <3>1
  <2> QED BY <1>1, <2>1, <2>2 DEF Analytics!Point
<1>3. /\ Analytics!Point(totals[b], r).acks = totals[b].acks + Analytics!One(r.ack)
      /\ Analytics!Point(totals[b], r).incomplete = totals[b].incomplete + Analytics!One(r.incomplete)
  BY <1>1 DEF Analytics!Point, Amounts
<1> QED BY <1>2, <1>3

(* An interval adds to the time observed and tells of no end.              *)
LEMMA IntervalTotals ==
  ASSUME NEW totals \in [BOOLEAN -> Amounts], NEW b \in BOOLEAN,
         NEW severity \in Int, NEW from \in Int, NEW to \in Int
  PROVE  /\ [totals EXCEPT ![b] = Analytics!Interval(@, severity, from, to)] \in [BOOLEAN -> Amounts]
         /\ \A c \in BOOLEAN :
              /\ [totals EXCEPT ![b] = Analytics!Interval(@, severity, from, to)][c].acks = totals[c].acks
              /\ [totals EXCEPT ![b] = Analytics!Interval(@, severity, from, to)][c].incomplete
                   = totals[c].incomplete
<1> DEFINE duration == Analytics!Max({0, to - from})
<1>1. duration \in Int
  <2>1. {0, to - from} \subseteq Int
    OBVIOUS
  <2>2. IsFiniteSet({0, to - from})
    BY FinitePair
  <2> QED BY <2>1, <2>2, FiniteExtremes
<1>2. totals[b] \in Amounts
  OBVIOUS
<1>3. Analytics!Interval(totals[b], severity, from, to)
        = [totals[b] EXCEPT !.observed = @ + duration, !.active = IF severity > 0 THEN @ + duration ELSE @]
  BY DEF Analytics!Interval
<1> HIDE DEF duration
<1>4. /\ Analytics!Interval(totals[b], severity, from, to) \in Amounts
      /\ Analytics!Interval(totals[b], severity, from, to).acks = totals[b].acks
      /\ Analytics!Interval(totals[b], severity, from, to).incomplete = totals[b].incomplete
  <2>1. PICK s \in Amounts : s = totals[b]
    BY <1>2
  <2>2. s.observed + duration \in Int /\ s.active + duration \in Int /\ s.active \in Int
    BY <1>1 DEF Amounts
  <2>3. PICK o \in Int : o = s.observed + duration
    BY <2>2
  <2>4. PICK a \in Int : a = IF severity > 0 THEN s.active + duration ELSE s.active
    BY <2>2
  <2>5. Analytics!Interval(totals[b], severity, from, to) = [s EXCEPT !.observed = o, !.active = a]
    BY <1>3, <2>1, <2>3, <2>4
  <2>6. /\ [s EXCEPT !.observed = o, !.active = a] \in Amounts
        /\ [s EXCEPT !.observed = o, !.active = a].acks = s.acks
        /\ [s EXCEPT !.observed = o, !.active = a].incomplete = s.incomplete
    BY DEF Amounts
  <2> QED BY <2>1, <2>5, <2>6
<1> QED BY <1>2, <1>4

(* appendRecord writes the records and the totals of one row, and leaves   *)
(* what the row says of its channel.                                       *)
LEMMA AppendedRow ==
  ASSUME NEW d \in Data, NEW i \in DOMAIN d.rows, NEW r \in Records
  PROVE  /\ Analytics!Appended(d, i, r) \in Data
         /\ Alike(d, Analytics!Appended(d, i, r))
         /\ Analytics!Appended(d, i, r).rows[i].removed = d.rows[i].removed
         /\ Analytics!Appended(d, i, r).rows[i].ambiguous = d.rows[i].ambiguous
         /\ \E totals \in [BOOLEAN -> Amounts] :
              /\ Analytics!Appended(d, i, r).rows = [d.rows EXCEPT ![i].totals = totals]
              /\ Told([d.rows[i] EXCEPT !.totals = totals])
                   = Told(d.rows[i]) + Analytics!One(r.ack) + Analytics!One(r.incomplete)
<1> DEFINE row == d.rows[i]
           before == IF r.priorAvailable
                     THEN [row.totals EXCEPT ![r.priorSuppressed] =
                             Analytics!Interval(@, r.priorSeverity, r.from, r.time)]
                     ELSE row.totals
           totals == [before EXCEPT ![r.suppressed] = Analytics!Point(@, r)]
           e == [d EXCEPT !.rows[i].totals = totals, !.records = Append(@, [r EXCEPT !.channel = i])]
<1>0. row \in Rows /\ i \in Nat
  BY RowFacts
<1>1. row.totals \in [BOOLEAN -> Amounts]
  BY <1>0 DEF Rows
<1>2. /\ before \in [BOOLEAN -> Amounts]
      /\ \A c \in BOOLEAN : before[c].acks = row.totals[c].acks
                            /\ before[c].incomplete = row.totals[c].incomplete
  <2>1. /\ r.priorAvailable \in BOOLEAN /\ r.priorSuppressed \in BOOLEAN
        /\ r.priorSeverity \in Int /\ r.from \in Int /\ r.time \in Int
    BY DEF Records
  <2>2. CASE r.priorAvailable
    <3>1. before = [row.totals EXCEPT ![r.priorSuppressed] =
                      Analytics!Interval(@, r.priorSeverity, r.from, r.time)]
      BY <2>2
    <3> HIDE DEF before, row
    <3> QED BY <1>1, <2>1, <3>1, IntervalTotals
  <2>3. CASE ~r.priorAvailable
    BY <1>1, <2>3
  <2> QED BY <2>2, <2>3
<1> HIDE DEF before
<1>3. r.suppressed \in BOOLEAN
  BY DEF Records
<1>4. /\ totals \in [BOOLEAN -> Amounts]
      /\ totals[r.suppressed].acks = before[r.suppressed].acks + Analytics!One(r.ack)
      /\ totals[r.suppressed].incomplete = before[r.suppressed].incomplete + Analytics!One(r.incomplete)
  BY <1>2, <1>3, PointTotals
<1>5. \A c \in BOOLEAN : c # r.suppressed => totals[c] = before[c]
  BY <1>2
<1> HIDE DEF totals
<1>6. Told([row EXCEPT !.totals = totals])
        = Told(row) + Analytics!One(r.ack) + Analytics!One(r.incomplete)
  <2>1. \A c \in BOOLEAN : before[c] \in Amounts /\ row.totals[c] \in Amounts
    BY <1>1, <1>2
  <2>2. /\ row.totals[TRUE].acks \in Int /\ row.totals[TRUE].incomplete \in Int
        /\ row.totals[FALSE].acks \in Int /\ row.totals[FALSE].incomplete \in Int
    BY <2>1 DEF Amounts
  <2>3. Analytics!One(r.ack) \in Int /\ Analytics!One(r.incomplete) \in Int
    BY DEF Analytics!One
  <2>4. [row EXCEPT !.totals = totals].totals = totals
    BY <1>0 DEF Rows
  <2>5. CASE r.suppressed = TRUE
    <3>1. /\ totals[TRUE].acks = row.totals[TRUE].acks + Analytics!One(r.ack)
          /\ totals[TRUE].incomplete = row.totals[TRUE].incomplete + Analytics!One(r.incomplete)
          /\ totals[FALSE].acks = row.totals[FALSE].acks
          /\ totals[FALSE].incomplete = row.totals[FALSE].incomplete
      BY <1>2, <1>4, <1>5, <2>5
    <3>2. Told([row EXCEPT !.totals = totals])
            = totals[TRUE].acks + totals[FALSE].acks + totals[TRUE].incomplete + totals[FALSE].incomplete
      BY <2>4 DEF Told
    <3>3. Told(row) = row.totals[TRUE].acks + row.totals[FALSE].acks
                        + row.totals[TRUE].incomplete + row.totals[FALSE].incomplete
      BY DEF Told
    <3>4. PICK a1 \in Int, a0 \in Int, i1 \in Int, i0 \in Int :
            /\ a1 = row.totals[TRUE].acks /\ a0 = row.totals[FALSE].acks
            /\ i1 = row.totals[TRUE].incomplete /\ i0 = row.totals[FALSE].incomplete
      BY <2>2
    <3>5. PICK a \in Int, n \in Int : a = Analytics!One(r.ack) /\ n = Analytics!One(r.incomplete)
      BY <2>3
    <3> HIDE DEF row
    <3>6. Told([row EXCEPT !.totals = totals]) = (a1 + a) + a0 + (i1 + n) + i0
      BY <3>1, <3>2, <3>4, <3>5
    <3>7. Told(row) = a1 + a0 + i1 + i0
      BY <3>3, <3>4
    <3>8. (a1 + a) + a0 + (i1 + n) + i0 = a1 + a0 + i1 + i0 + a + n
      OBVIOUS
    <3> QED BY <3>5, <3>6, <3>7, <3>8
  <2>6. CASE r.suppressed = FALSE
    <3>1. /\ totals[FALSE].acks = row.totals[FALSE].acks + Analytics!One(r.ack)
          /\ totals[FALSE].incomplete = row.totals[FALSE].incomplete + Analytics!One(r.incomplete)
          /\ totals[TRUE].acks = row.totals[TRUE].acks
          /\ totals[TRUE].incomplete = row.totals[TRUE].incomplete
      BY <1>2, <1>4, <1>5, <2>6
    <3>2. Told([row EXCEPT !.totals = totals])
            = totals[TRUE].acks + totals[FALSE].acks + totals[TRUE].incomplete + totals[FALSE].incomplete
      BY <2>4 DEF Told
    <3>3. Told(row) = row.totals[TRUE].acks + row.totals[FALSE].acks
                        + row.totals[TRUE].incomplete + row.totals[FALSE].incomplete
      BY DEF Told
    <3>4. PICK a1 \in Int, a0 \in Int, i1 \in Int, i0 \in Int :
            /\ a1 = row.totals[TRUE].acks /\ a0 = row.totals[FALSE].acks
            /\ i1 = row.totals[TRUE].incomplete /\ i0 = row.totals[FALSE].incomplete
      BY <2>2
    <3>5. PICK a \in Int, n \in Int : a = Analytics!One(r.ack) /\ n = Analytics!One(r.incomplete)
      BY <2>3
    <3> HIDE DEF row
    <3>6. Told([row EXCEPT !.totals = totals]) = a1 + (a0 + a) + i1 + (i0 + n)
      BY <3>1, <3>2, <3>4, <3>5
    <3>7. Told(row) = a1 + a0 + i1 + i0
      BY <3>3, <3>4
    <3>8. a1 + (a0 + a) + i1 + (i0 + n) = a1 + a0 + i1 + i0 + a + n
      OBVIOUS
    <3> QED BY <3>5, <3>6, <3>7, <3>8
  <2> QED BY <1>3, <2>5, <2>6
<1>7. [row EXCEPT !.totals = totals] \in Rows
  BY <1>0, <1>4 DEF Rows
<1>8. e \in Data
  <2>1. [d.rows EXCEPT ![i].totals = totals] \in Seq(Rows)
    BY <1>7, RowReplaced
  <2>2. Append(d.records, [r EXCEPT !.channel = i]) \in Seq(Records)
    <3>1. [r EXCEPT !.channel = i] \in Records
      BY <1>0 DEF Records
    <3>2. d.records \in Seq(Records)
      BY DEF Data
    <3> QED BY <3>1, <3>2, AppendProperties
  <2> QED BY <2>1, <2>2 DEF Data
<1>9. e.rows = [d.rows EXCEPT ![i].totals = totals] /\ e.index = d.index /\ e.keys = d.keys
  BY DEF Data
<1>10. r.time \in Int /\ Analytics!Appended(d, i, r) = Analytics!TrimRecords(e, r.time)
  BY DEF Analytics!Appended, totals, before, Records
<1> HIDE DEF e
<1>11. PICK records \in Seq(Records), coverage \in Int :
         Analytics!TrimRecords(e, r.time) = [e EXCEPT !.records = records, !.coverage = coverage]
  BY <1>8, <1>10, TrimmedRecords
<1>12. /\ Analytics!Appended(d, i, r) \in Data
       /\ Analytics!Appended(d, i, r).rows = e.rows
       /\ Analytics!Appended(d, i, r).index = e.index /\ Analytics!Appended(d, i, r).keys = e.keys
  <2> DEFINE x == [e EXCEPT !.records = records, !.coverage = coverage]
  <2>1. x \in Data /\ x.rows = e.rows /\ x.index = e.index /\ x.keys = e.keys
    BY <1>8 DEF Data
  <2> HIDE DEF x
  <2>2. Analytics!Appended(d, i, r) = x
    BY <1>10, <1>11 DEF x
  <2> QED BY <2>1, <2>2
<1>13. Alike(d, Analytics!Appended(d, i, r))
  <2>1. \A j \in DOMAIN d.rows : d.rows[j] \in Rows
    BY RowFacts
  <2> QED BY <1>0, <1>9, <1>12, <2>1 DEF Alike, Rows
<1>14. /\ Analytics!Appended(d, i, r).rows[i].removed = row.removed
       /\ Analytics!Appended(d, i, r).rows[i].ambiguous = row.ambiguous
  BY <1>0, <1>9, <1>12 DEF Rows
<1> QED BY <1>4, <1>6, <1>9, <1>12, <1>13, <1>14

(* Another row at a place.                                                 *)
Written(x, i, row) == [x EXCEPT !.rows[i] = row]

(* It keeps the data well typed, and the other rows.                       *)
LEMMA RowWritten ==
  ASSUME NEW x \in Data, NEW i \in DOMAIN x.rows, NEW row \in Rows, row.key = x.rows[i].key
  PROVE  /\ Written(x, i, row) \in Data /\ Alike(x, Written(x, i, row))
         /\ Written(x, i, row).rows[i] = row
         /\ \A j \in DOMAIN x.rows : j # i => Written(x, i, row).rows[j] = x.rows[j]
<1>1. [x.rows EXCEPT ![i] = row] \in Seq(Rows)
  BY RowReplaced
<1>2. /\ Written(x, i, row).rows = [x.rows EXCEPT ![i] = row]
      /\ Written(x, i, row).index = x.index /\ Written(x, i, row).keys = x.keys
  BY DEF Data, Written
<1>3. Written(x, i, row) \in Data
  BY <1>1 DEF Data, Written
<1> QED BY <1>2, <1>3 DEF Alike

(* A record is appended, and then its row changes, but for its key.        *)
LEMMA AppendedThen ==
  ASSUME NEW d \in Data, NEW i \in DOMAIN d.rows, NEW r \in Records,
         NEW row \in Rows, row.key = d.rows[i].key,
         row.totals = Analytics!Appended(d, i, r).rows[i].totals,
         NEW e, e = Written(Analytics!Appended(d, i, r), i, row)
  PROVE  /\ e \in Data /\ Alike(d, e) /\ e.rows[i] = row
         /\ \A j \in DOMAIN d.rows : j # i => e.rows[j] = d.rows[j]
         /\ Told(row) = Told(d.rows[i]) + Analytics!One(r.ack) + Analytics!One(r.incomplete)
<1> DEFINE x == Analytics!Appended(d, i, r)
<1>1. PICK totals \in [BOOLEAN -> Amounts] :
        /\ x.rows = [d.rows EXCEPT ![i].totals = totals]
        /\ Told([d.rows[i] EXCEPT !.totals = totals])
             = Told(d.rows[i]) + Analytics!One(r.ack) + Analytics!One(r.incomplete)
  BY AppendedRow
<1>2. x \in Data /\ Alike(d, x) /\ e = Written(x, i, row) /\ row.totals = x.rows[i].totals
  BY AppendedRow
<1> HIDE DEF x
<1>3. d.rows[i] \in Rows
  BY RowFacts
<1>4. x.rows[i].totals = totals /\ x.rows[i].key = d.rows[i].key /\ i \in DOMAIN x.rows
  BY <1>1, <1>2, <1>3 DEF Rows, Alike
<1>5. \A j \in DOMAIN d.rows : j # i => x.rows[j] = d.rows[j]
  BY <1>1
<1>6. Told(row) = Told([d.rows[i] EXCEPT !.totals = totals])
  <2>1. [d.rows[i] EXCEPT !.totals = totals].totals = totals /\ row.totals = totals
    BY <1>2, <1>3, <1>4 DEF Rows
  <2> QED BY <2>1 DEF Told
<1>7. e \in Data /\ Alike(x, e) /\ e.rows[i] = row /\ \A j \in DOMAIN x.rows : j # i => e.rows[j] = x.rows[j]
  BY <1>2, <1>4, RowWritten
<1>8. Alike(d, e) /\ \A j \in DOMAIN d.rows : j # i => e.rows[j] = d.rows[j]
  BY <1>2, <1>5, <1>7 DEF Alike
<1> QED BY <1>1, <1>6, <1>7, <1>8

(* Both counts of a row are numbers.                                       *)
LEMMA ToldInt == ASSUME NEW row \in Rows PROVE Told(row) \in Int /\ Outstanding(row) \in Int
<1>1. row.totals \in [BOOLEAN -> Amounts]
  BY DEF Rows
<1>2. row.totals[TRUE] \in Amounts /\ row.totals[FALSE] \in Amounts
  BY <1>1
<1>3. PICK a \in Int, b \in Int, c \in Int, e \in Int :
        /\ a = row.totals[TRUE].acks /\ b = row.totals[FALSE].acks
        /\ c = row.totals[TRUE].incomplete /\ e = row.totals[FALSE].incomplete
  BY <1>2 DEF Amounts
<1>4. Told(row) = a + b + c + e
  BY <1>3 DEF Told
<1> QED BY <1>4 DEF Outstanding

(* What a row tells of, and what is outstanding after it, when it becomes  *)
(* unavailable.                                                            *)
LEMMA InvalidatedRow ==
  ASSUME NEW d \in Data, NEW i \in DOMAIN d.rows, NEW t \in Int,
         NEW e, e = Analytics!Invalidate(d, i, t)
  PROVE  /\ e \in Data /\ Alike(d, e) /\ ~e.rows[i].available
         /\ \A j \in DOMAIN d.rows : j # i => e.rows[j] = d.rows[j]
         /\ Told(e.rows[i]) = Told(d.rows[i]) + Outstanding(d.rows[i])
<1> DEFINE row == d.rows[i]
           r == [channel |-> i, from |-> row.last, time |-> t,
                 priorAvailable |-> TRUE, priorSeverity |-> row.severity,
                 priorSuppressed |-> row.suppressed, suppressed |-> row.suppressed,
                 activation |-> FALSE, ack |-> FALSE, gap |-> TRUE, incomplete |-> row.unack > 0]
           x == Analytics!Appended(d, i, r)
           after == [x.rows[i] EXCEPT !.available = FALSE, !.ackUnknown = TRUE, !.last = t]
<1>1. row \in Rows /\ i \in Nat /\ Told(row) \in Int
  BY RowFacts, ToldInt
<1>2. CASE ~row.available
  <2>1. e = d
    BY <1>2 DEF Analytics!Invalidate
  <2> QED BY <1>1, <1>2, <2>1 DEF Alike, Outstanding
<1>3. CASE row.available
  <2>1. r \in Records
    BY <1>1 DEF Rows, Records
  <2>2. x \in Data /\ Alike(d, x)
    BY <2>1, AppendedRow, SMTT(30)
  <2>3. i \in DOMAIN x.rows /\ x.rows[i] \in Rows /\ x.rows[i].key = row.key
    BY <2>2, RowFacts DEF Alike
  <2>4. e = Written(x, i, after)
    <3>1. x.rows \in Seq(Rows)
      BY <2>2 DEF Data
    <3>2. e = [x EXCEPT !.rows[i].available = FALSE, !.rows[i].ackUnknown = TRUE, !.rows[i].last = t]
      BY <1>3 DEF Analytics!Invalidate
    <3> HIDE DEF x
    <3>3. [x EXCEPT !.rows[i].available = FALSE, !.rows[i].ackUnknown = TRUE, !.rows[i].last = t]
            = Written(x, i, after)
      BY <2>2, <2>3, <3>1 DEF Data, Rows, Written
    <3> QED BY <3>2, <3>3
  <2> HIDE DEF x
  <2>5. after \in Rows /\ after.key = row.key /\ after.totals = x.rows[i].totals /\ ~after.available
    BY <2>3 DEF Rows
  <2>6. /\ e \in Data /\ Alike(d, e) /\ e.rows[i] = after
        /\ \A j \in DOMAIN d.rows : j # i => e.rows[j] = d.rows[j]
        /\ Told(after) = Told(row) + Analytics!One(r.ack) + Analytics!One(r.incomplete)
    <3>1. /\ after.totals = Analytics!Appended(d, i, r).rows[i].totals
          /\ e = Written(Analytics!Appended(d, i, r), i, after)
      BY <2>4, <2>5, Zenon DEF x
    <3> HIDE DEF after, r
    <3> QED BY <2>1, <2>5, <3>1, AppendedThen
  <2>7. Analytics!One(r.ack) = 0 /\ Analytics!One(r.incomplete) = Outstanding(row)
    BY <1>3 DEF Analytics!One, Outstanding
  <2>8. Outstanding(row) \in Int
    BY DEF Outstanding
  <2> HIDE DEF after, r
  <2>9. Told(after) = Told(row) + Outstanding(row)
    <3> HIDE DEF row
    <3> QED BY <1>1, <2>6, <2>7, <2>8
  <2> QED BY <2>5, <2>6, <2>9
<1> QED BY <1>2, <1>3

(* A row that was watched to u shows u; it tells of an end when one is due *)
LEMMA ObservedRow ==
  ASSUME NEW d \in Data, NEW i \in DOMAIN d.rows, NEW u \in Shows, NEW cause, NEW t \in Int,
         NEW e, e = Analytics!Observed(d, i, u, cause, t)
  PROVE  /\ e \in Data /\ Alike(d, e)
         /\ \A j \in DOMAIN d.rows : j # i => e.rows[j] = d.rows[j]
         /\ e.rows[i].available = u.available /\ e.rows[i].unack = u.unack
         /\ e.rows[i].removed = d.rows[i].removed /\ e.rows[i].ambiguous = d.rows[i].ambiguous
         /\ Told(e.rows[i]) = Told(d.rows[i]) + Analytics!One(Analytics!Ends(d.rows[i], u))
<1> DEFINE row == d.rows[i]
           both == row.available /\ u.available
           changed == \/ row.available # u.available \/ row.severity # u.severity
                      \/ row.unack # u.unack \/ row.suppressed # u.suppressed \/ ~row.initialized
           ends == Analytics!Ends(row, u)
           measured == cause = "Acknowledgement" /\ both /\ ~row.ackUnknown
           r == [channel |-> i, from |-> row.last, time |-> t,
                    priorAvailable |-> row.available, priorSeverity |-> row.severity,
                    priorSuppressed |-> row.suppressed, suppressed |-> u.suppressed,
                    activation |-> both /\ row.severity = 0 /\ u.severity > 0 /\ cause # "Suppression",
                    ack |-> ends /\ measured, incomplete |-> ends /\ ~measured,
                    gap |-> u.initialized /\ ~u.available /\ (row.available \/ ~row.initialized)]
           unknown == IF ~u.available THEN row.ackUnknown
                      ELSE IF ~row.available THEN TRUE
                      ELSE IF row.unack = 0 /\ u.unack > 0 THEN cause = "Suppression"
                      ELSE row.ackUnknown
           x == Analytics!Appended(d, i, r)
           after == [x.rows[i] EXCEPT !.available = u.available, !.initialized = u.initialized,
                       !.severity = u.severity, !.unack = u.unack,
                       !.suppressed = u.suppressed, !.last = t, !.ackUnknown = unknown]
<1>1. row \in Rows /\ i \in Nat /\ Told(row) \in Int
  BY RowFacts, ToldInt
<1>2. ends \in BOOLEAN
  BY DEF Analytics!Ends
<1>3. CASE ~changed
  <2>1. e = d
    BY <1>3 DEF Analytics!Observed
  <2>2. row.available = u.available /\ row.unack = u.unack
    BY <1>3
  <2>3. Analytics!One(ends) = 0
    BY <1>1, <2>2 DEF Analytics!Ends, Analytics!One, Shows
  <2> HIDE DEF ends
  <2> QED BY <1>1, <2>1, <2>2, <2>3 DEF Alike, ends
<1>4. CASE changed
  <2>0. unknown \in BOOLEAN
    BY <1>1 DEF Rows
  <2>1. r \in Records
    <3> HIDE DEF ends, measured, unknown, both
    <3>1. measured \in BOOLEAN /\ both \in BOOLEAN
      BY DEF measured, both
    <3> QED BY <1>1, <1>2, <3>1 DEF Rows, Records, Shows
  <2>2. x \in Data /\ Alike(d, x)
    <3> HIDE DEF r
    <3> QED BY <2>1, AppendedRow
  <2>3. i \in DOMAIN x.rows /\ x.rows[i] \in Rows /\ x.rows[i].key = row.key
    BY <2>2, RowFacts, ZenonT(60) DEF Alike
  <2>4. e = Written(x, i, after)
    BY <1>4, Zenon DEF Analytics!Observed, Written
  <2>9. x.rows[i].removed = row.removed /\ x.rows[i].ambiguous = row.ambiguous
    <3> HIDE DEF r
    <3> QED BY <2>1, AppendedRow
  <2> HIDE DEF x
  <2>5. /\ after \in Rows /\ after.key = row.key /\ after.totals = x.rows[i].totals
        /\ after.available = u.available /\ after.unack = u.unack
        /\ after.removed = row.removed /\ after.ambiguous = row.ambiguous
    <3> HIDE DEF unknown
    <3> QED BY <2>0, <2>3, <2>9 DEF Rows, Shows
  <2>6. /\ e \in Data /\ Alike(d, e) /\ e.rows[i] = after
        /\ \A j \in DOMAIN d.rows : j # i => e.rows[j] = d.rows[j]
        /\ Told(after) = Told(row) + Analytics!One(r.ack) + Analytics!One(r.incomplete)
    <3>1. /\ after.totals = Analytics!Appended(d, i, r).rows[i].totals
          /\ e = Written(Analytics!Appended(d, i, r), i, after)
      BY <2>4, <2>5, Zenon DEF x
    <3> HIDE DEF after, r
    <3> QED BY <2>1, <2>5, <3>1, AppendedThen
  <2>7. r.ack = (ends /\ measured) /\ r.incomplete = (ends /\ ~measured)
    OBVIOUS
  <2> HIDE DEF after, r
  <2>8. Told(after) = Told(row) + Analytics!One(ends)
    <3> HIDE DEF ends, measured, row
    <3>1. CASE ends /\ measured
      <4>1. Analytics!One(r.ack) = 1 /\ Analytics!One(r.incomplete) = 0 /\ Analytics!One(ends) = 1
        BY <2>7, <3>1 DEF Analytics!One
      <4> QED BY <1>1, <2>6, <4>1
    <3>2. CASE ends /\ ~measured
      <4>1. Analytics!One(r.ack) = 0 /\ Analytics!One(r.incomplete) = 1 /\ Analytics!One(ends) = 1
        BY <2>7, <3>2 DEF Analytics!One
      <4> QED BY <1>1, <2>6, <4>1
    <3>3. CASE ~ends
      <4>1. Analytics!One(r.ack) = 0 /\ Analytics!One(r.incomplete) = 0 /\ Analytics!One(ends) = 0
        BY <2>7, <3>3 DEF Analytics!One
      <4> QED BY <1>1, <2>6, <4>1
    <3> QED BY <3>1, <3>2, <3>3
  <2> QED BY <2>5, <2>6, <2>8
<1> QED BY <1>3, <1>4

(* A gap makes every row unavailable, and ends what was outstanding.       *)
LEMMA GapRows ==
  ASSUME NEW d \in Data, NEW t \in Int, NEW e, e = Analytics!Gap(d, t)
  PROVE  /\ e \in Data /\ Alike(d, e)
         /\ \A i \in DOMAIN d.rows :
              /\ ~e.rows[i].available
              /\ Told(e.rows[i]) = Told(d.rows[i]) + Outstanding(d.rows[i])
<1> DEFINE S == DOMAIN d.rows
           Ended(s, x) ==
             /\ Alike(d, x)
             /\ \A i \in S : IF i \in s
                             THEN /\ ~x.rows[i].available
                                  /\ Told(x.rows[i]) = Told(d.rows[i]) + Outstanding(d.rows[i])
                             ELSE x.rows[i] = d.rows[i]
           W == [s \in SUBSET S |-> {x \in Data : Ended(s, x)}]
           pick == [s \in SUBSET S |-> Analytics!Max(s)]
           G == [p \in S \X Data |-> Analytics!Invalidate(p[2], p[1], t)]
           iter[s \in SUBSET S] ==
             IF s = {} THEN d
             ELSE LET x == Analytics!Max(s)
                  IN Analytics!Invalidate(iter[s \ {x}], ([i \in DOMAIN d.rows |-> i])[x], t)
<1>0. d.rows \in Seq(Rows) /\ S = 1..Len(d.rows) /\ Len(d.rows) \in Nat
  BY DEF Data
<1>1. IsFiniteSet(S) /\ S \subseteq Int
  BY <1>0, FS_Interval
<1>2. e = [iter[S] EXCEPT !.generation = @ + 1]
  BY DEF Analytics!Gap, Analytics!FoldLeftDomain, Analytics!FoldLeft, Analytics!MapThenFoldSet
<1>3. ASSUME NEW s \in SUBSET S, s # {} PROVE Analytics!Max(s) \in s
  BY <1>1, <1>3, FS_Subset, FiniteExtremes
<1>4. ASSUME NEW s \in SUBSET S, NEW i \in s, NEW x \in W[s \ {i}]
      PROVE  Analytics!Invalidate(x, i, t) \in W[s]
  <2>1. x \in Data /\ Ended(s \ {i}, x) /\ s \ {i} \in SUBSET S
    OBVIOUS
  <2> DEFINE y == Analytics!Invalidate(x, i, t)
  <2>2. i \in DOMAIN x.rows /\ x.rows[i] = d.rows[i] /\ Alike(d, x)
    BY <2>1 DEF Alike
  <2>3. /\ y \in Data /\ Alike(x, y) /\ ~y.rows[i].available
        /\ \A j \in DOMAIN x.rows : j # i => y.rows[j] = x.rows[j]
        /\ Told(y.rows[i]) = Told(x.rows[i]) + Outstanding(x.rows[i])
    BY <2>1, <2>2, InvalidatedRow
  <2> HIDE DEF y
  <2>4. Alike(d, y)
    BY <2>2, <2>3 DEF Alike
  <2>5. Ended(s, y)
    <3>1. \A j \in S : j \in DOMAIN x.rows
      BY <2>2 DEF Alike
    <3> QED BY <2>1, <2>2, <2>3, <2>4, <3>1
  <2> HIDE DEF Ended
  <2> QED BY <2>3, <2>5 DEF y
<1>5. HasFold(S, Data, W, d, pick, G)
  <2>1. \A s \in SUBSET S : W[s] \subseteq Data
    OBVIOUS
  <2>2. d \in W[{}]
    BY DEF Alike
  <2>3. \A s \in SUBSET S : s # {} =>
          pick[s] \in s /\ \A v \in W[s \ {pick[s]}] : G[<<pick[s], v>>] \in W[s]
    <3> SUFFICES ASSUME NEW s \in SUBSET S, s # {}
                 PROVE  pick[s] \in s /\ \A v \in W[s \ {pick[s]}] : G[<<pick[s], v>>] \in W[s]
      OBVIOUS
    <3>1. pick[s] \in s
      BY <1>3
    <3> HIDE DEF pick
    <3>2. ASSUME NEW v \in W[s \ {pick[s]}] PROVE G[<<pick[s], v>>] \in W[s]
      <4>1. v \in Data /\ pick[s] \in S /\ s \ {pick[s]} \in SUBSET S
        BY <3>1
      <4>2. G[<<pick[s], v>>] = Analytics!Invalidate(v, pick[s], t)
        BY <4>1
      <4>3. Analytics!Invalidate(v, pick[s], t) \in W[s]
        <5> HIDE DEF G, W
        <5> QED BY <1>4, <3>1
      <4> QED BY <4>2, <4>3
    <3> QED BY <3>1, <3>2
  <2> HIDE DEF W, G, pick, S
  <2>4. Foldable(S, Data, W, d, pick, G)
    BY <1>1, <2>1, <2>2, <2>3 DEF Foldable
  <2> QED BY <2>4, FoldExists
<1>6. PICK f \in [SUBSET S -> Data] : \A s \in SUBSET S :
        f[s] \in W[s] /\ f[s] = IF s = {} THEN d ELSE G[<<pick[s], f[s \ {pick[s]}]>>]
  BY <1>5 DEF HasFold, Folded
<1>7. \A s \in SUBSET S : f[s] = IF s = {} THEN d
         ELSE Analytics!Invalidate(f[s \ {Analytics!Max(s)}], ([i \in DOMAIN d.rows |-> i])[Analytics!Max(s)], t)
  <2> TAKE s \in SUBSET S
  <2>1. CASE s = {}
    BY <1>6, <2>1
  <2>2. CASE s # {}
    <3>1. pick[s] = Analytics!Max(s) /\ pick[s] \in s
      BY <1>3, <2>2
    <3> HIDE DEF pick
    <3>2. s \ {pick[s]} \in SUBSET S /\ pick[s] \in S
      BY <3>1
    <3>3. f[s \ {pick[s]}] \in Data
      BY <3>2
    <3>4. G[<<pick[s], f[s \ {pick[s]}]>>] = Analytics!Invalidate(f[s \ {pick[s]}], pick[s], t)
      BY <3>2, <3>3
    <3> HIDE DEF G
    <3> QED BY <1>6, <2>2, <3>1, <3>2, <3>4
  <2> QED BY <2>1, <2>2
<1>8. f = [s \in SUBSET S |-> IF s = {} THEN d
         ELSE LET x == Analytics!Max(s) IN Analytics!Invalidate(f[s \ {x}], ([i \in DOMAIN d.rows |-> i])[x], t)]
  BY <1>7
<1>9. iter = [s \in SUBSET S |-> IF s = {} THEN d
         ELSE LET x == Analytics!Max(s) IN Analytics!Invalidate(iter[s \ {x}], ([i \in DOMAIN d.rows |-> i])[x], t)]
  <2> HIDE DEF S
  <2> QED BY <1>8
<1> HIDE DEF iter
<1>10. iter[S] \in W[S]
  <2>1. iter[{}] \in W[{}]
    <3>1. iter[{}] = d
      BY <1>9
    <3> QED BY <3>1 DEF Alike
  <2>2. \A s \in SUBSET S : s # {} =>
           pick[s] \in s /\ (iter[s \ {pick[s]}] \in W[s \ {pick[s]}] => iter[s] \in W[s])
    <3> SUFFICES ASSUME NEW s \in SUBSET S, s # {}, iter[s \ {pick[s]}] \in W[s \ {pick[s]}]
                 PROVE  iter[s] \in W[s]
      BY <1>3
    <3>1. pick[s] = Analytics!Max(s) /\ pick[s] \in s /\ pick[s] \in S
      BY <1>3
    <3> HIDE DEF pick
    <3>2. iter[s] = Analytics!Invalidate(iter[s \ {pick[s]}], pick[s], t)
      BY <1>9, <3>1, ZenonT(60)
    <3>3. Analytics!Invalidate(iter[s \ {pick[s]}], pick[s], t) \in W[s]
      <4> HIDE DEF W
      <4> QED BY <1>4, <3>1
    <3> QED BY <3>2, <3>3
  <2> HIDE DEF W, pick, S
  <2>3. Inherited(S, W, pick, iter)
    BY <1>1, <2>1, <2>2 DEF Inherited
  <2> QED BY <2>3, FoldInduction
<1>11. iter[S] \in Data /\ Ended(S, iter[S])
  BY <1>10
<1>12. e \in Data /\ e.rows = iter[S].rows /\ e.index = iter[S].index /\ e.keys = iter[S].keys
  <2>1. PICK x \in Data : x = iter[S]
    BY <1>11
  <2>2. e = [x EXCEPT !.generation = @ + 1]
    BY <1>2, <2>1
  <2>4. x.generation + 1 \in Int
    BY DEF Data
  <2>5. PICK n \in Int : n = x.generation + 1
    BY <2>4
  <2>3. e \in Data /\ e.rows = x.rows /\ e.index = x.index /\ e.keys = x.keys
    BY <2>2, <2>5 DEF Data
  <2> QED BY <2>1, <2>3
<1> QED BY <1>11, <1>12 DEF Alike

(* Every row of e is one of d, of which it tells what was outstanding, or  *)
(* it is a new one.                                                        *)
Balance(row) == Told(row) + Outstanding(row)

Continues(d, e) ==
  /\ d.keys <= e.keys
  /\ \A i \in DOMAIN e.rows :
       \/ \E j \in DOMAIN d.rows : e.rows[i].key = d.rows[j].key /\ Balance(e.rows[i]) = Balance(d.rows[j])
       \/ e.rows[i].key >= d.keys /\ Balance(e.rows[i]) = 0

(* Rows that follow on from accounted ones are accounted for by the same   *)
(* episodes.                                                               *)
LEMMA ContinuesAccounts ==
  ASSUME NEW d \in Data, NEW e \in Data, NEW latches \in Seq(Nat),
         Continues(d, e), Given(d, latches), Accounted(d, latches)
  PROVE  Given(e, latches) /\ Accounted(e, latches)
<1>1. d.keys \in Nat /\ e.keys \in Nat /\ d.keys <= e.keys
  BY DEF Continues, Data
<1>2. \A k \in DOMAIN latches : latches[k] \in Nat
  OBVIOUS
<1>3. Given(e, latches)
  BY <1>1, <1>2 DEF Given
<1>4. ASSUME NEW i \in DOMAIN e.rows
      PROVE  Lit(latches, e.rows[i].key) = Told(e.rows[i]) + Outstanding(e.rows[i])
  <2>1. CASE \E j \in DOMAIN d.rows : e.rows[i].key = d.rows[j].key /\ Balance(e.rows[i]) = Balance(d.rows[j])
    BY <2>1 DEF Accounted, Balance
  <2>2. CASE e.rows[i].key >= d.keys /\ Balance(e.rows[i]) = 0
    <3>1. e.rows[i].key \in Nat
      BY RowFacts DEF Rows
    <3>2. {k \in DOMAIN latches : latches[k] = e.rows[i].key} = {}
      BY <1>1, <1>2, <2>2, <3>1 DEF Given
    <3> QED BY <2>2, <3>2, FS_EmptySet DEF Lit, Balance
  <2> QED BY <2>1, <2>2 DEF Continues
<1> QED BY <1>3, <1>4 DEF Accounted

(* Following on is transitive.                                             *)
LEMMA ContinuesOn ==
  ASSUME NEW a \in Data, NEW b \in Data, NEW c \in Data, Continues(a, b), Continues(b, c)
  PROVE  Continues(a, c)
<1>1. a.keys \in Nat /\ b.keys \in Nat /\ c.keys \in Nat
  BY DEF Data
<1>2. ASSUME NEW i \in DOMAIN c.rows
      PROVE  \/ \E j \in DOMAIN a.rows : c.rows[i].key = a.rows[j].key /\ Balance(c.rows[i]) = Balance(a.rows[j])
             \/ c.rows[i].key >= a.keys /\ Balance(c.rows[i]) = 0
  <2>1. CASE \E j \in DOMAIN b.rows : c.rows[i].key = b.rows[j].key /\ Balance(c.rows[i]) = Balance(b.rows[j])
    BY <2>1 DEF Continues
  <2>2. CASE c.rows[i].key >= b.keys /\ Balance(c.rows[i]) = 0
    <3>1. c.rows[i].key \in Nat
      BY RowFacts DEF Rows
    <3> QED BY <1>1, <2>2, <3>1 DEF Continues
  <2> QED BY <2>1, <2>2 DEF Continues
<1> QED BY <1>1, <1>2 DEF Continues

(* Rows that keep their keys and their balance.                            *)
LEMMA AlikeContinues ==
  ASSUME NEW d \in Data, NEW e \in Data, Alike(d, e),
         \A i \in DOMAIN d.rows : Balance(e.rows[i]) = Balance(d.rows[i])
  PROVE  Continues(d, e)
<1>1. d.keys \in Nat
  BY DEF Data
<1> QED BY <1>1 DEF Alike, Continues

(* No row is watched: so it is between a gap and the next observation.     *)
Unwatched(d) == \A i \in DOMAIN d.rows : ~d.rows[i].available

(* gapLocked ends each outstanding alarm by an incomplete episode: nothing *)
(* is lost of the count.                                                   *)
LEMMA GapContinues ==
  ASSUME NEW d \in Data, Shaped(d), NEW t \in Int, NEW e, e = Analytics!Gap(d, t)
  PROVE  Shaped(e) /\ Unwatched(e) /\ Continues(d, e)
<1>1. /\ e \in Data /\ Alike(d, e)
      /\ \A i \in DOMAIN d.rows :
           /\ ~e.rows[i].available
           /\ Told(e.rows[i]) = Told(d.rows[i]) + Outstanding(d.rows[i])
  BY GapRows
<1>2. \A i \in DOMAIN d.rows : Balance(e.rows[i]) = Balance(d.rows[i])
  <2> TAKE i \in DOMAIN d.rows
  <2>1. d.rows[i] \in Rows
    BY RowFacts
  <2>2. Told(d.rows[i]) \in Int /\ Outstanding(d.rows[i]) \in Int
    BY <2>1, ToldInt
  <2>3. Outstanding(e.rows[i]) = 0
    BY <1>1 DEF Outstanding
  <2> QED BY <1>1, <2>2, <2>3 DEF Balance
<1> QED BY <1>1, <1>2, AlikeShaped, AlikeContinues DEF Unwatched, Alike

(* Old records are dropped without touching the rows.                      *)
LEMMA TrimContinues ==
  ASSUME NEW d \in Data, Shaped(d), NEW t \in Int, NEW e, e = Analytics!TrimRecords(d, t)
  PROVE  /\ Shaped(e) /\ Continues(d, e) /\ e.rows = d.rows /\ e.index = d.index
<1>1. PICK records \in Seq(Records), coverage \in Int :
        Analytics!TrimRecords(d, t) = [d EXCEPT !.records = records, !.coverage = coverage]
  BY TrimmedRecords
<1>2. e \in Data /\ e.rows = d.rows /\ e.index = d.index /\ e.keys = d.keys
  BY <1>1 DEF Data
<1>3. Alike(d, e) /\ \A i \in DOMAIN d.rows : Balance(e.rows[i]) = Balance(d.rows[i])
  BY <1>2 DEF Alike
<1> QED BY <1>2, <1>3, AlikeShaped, AlikeContinues

(* Rows are marked as removed without touching their counts.               *)
LEMMA RetireContinues ==
  ASSUME NEW d \in Data, Shaped(d), Unwatched(d), NEW t \in Int, NEW e, e = Analytics!Retire(d, t)
  PROVE  /\ Shaped(e) /\ Unwatched(e) /\ Continues(d, e)
<1> DEFINE retired == [i \in DOMAIN d.rows |->
              [d.rows[i] EXCEPT !.retiredAt = IF d.rows[i].removed THEN d.rows[i].retiredAt ELSE t,
                                  !.removed = TRUE]]
<1>0. d.rows \in Seq(Rows) /\ Len(d.rows) \in Nat /\ DOMAIN d.rows = 1..Len(d.rows)
  BY DEF Data
<1>1. e = [d EXCEPT !.rows = retired]
  BY DEF Analytics!Retire
<1>2. ASSUME NEW i \in DOMAIN d.rows
      PROVE  /\ retired[i] \in Rows /\ retired[i].key = d.rows[i].key /\ ~retired[i].available
             /\ retired[i].totals = d.rows[i].totals
  <2>1. d.rows[i] \in Rows /\ ~d.rows[i].available
    BY RowFacts DEF Unwatched
  <2>2. PICK at \in Int : at = IF d.rows[i].removed THEN d.rows[i].retiredAt ELSE t
    BY <2>1 DEF Rows
  <2>3. retired[i] = [d.rows[i] EXCEPT !.retiredAt = at, !.removed = TRUE]
    BY <2>2
  <2> HIDE DEF retired
  <2> QED BY <2>1, <2>3 DEF Rows
<1>3. retired \in Seq(Rows) /\ DOMAIN retired = DOMAIN d.rows
  <2>1. retired \in [1..Len(d.rows) -> Rows]
    BY <1>0, <1>2
  <2> HIDE DEF retired
  <2> QED BY <1>0, <2>1, SMTT(30)
<1> HIDE DEF retired
<1>4. e \in Data /\ e.rows = retired /\ e.index = d.index /\ e.keys = d.keys
  BY <1>1, <1>3 DEF Data
<1>5. \A i \in DOMAIN d.rows : Balance(e.rows[i]) = Balance(d.rows[i])
  BY <1>2, <1>4 DEF Balance, Told, Outstanding, Unwatched
<1>6. Alike(d, e) /\ Unwatched(e)
  BY <1>2, <1>3, <1>4 DEF Alike, Unwatched
<1> QED BY <1>4, <1>5, <1>6, AlikeShaped, AlikeContinues

(* After a reset there are no rows, and keys are not given again.          *)
LEMMA BlankData ==
  ASSUME NEW n \in Int, NEW keys \in Nat, NEW t \in Int, NEW e, e = Analytics!Blank(n, keys, t)
  PROVE  Shaped(e) /\ Unwatched(e) /\ e.keys = keys /\ DOMAIN e.rows = {}
<1>1. e.rows = << >> /\ e.records = << >> /\ e.index = [id \in Identities |-> 0] /\ e.keys = keys
  BY DEF Analytics!Blank
<1>2. e \in Data
  BY DEF Analytics!Blank, Data
<1> QED BY <1>1, <1>2 DEF Shaped, Indexed, Unwatched

(* A new instance has a new key and nothing to tell.                       *)
LEMMA NewRowFacts ==
  ASSUME NEW key \in Nat, NEW id \in Identities, NEW ambiguous \in BOOLEAN, NEW t \in Int,
         NEW row, row = Analytics!NewRow(key, id, ambiguous, t)
  PROVE  row \in Rows /\ row.key = key /\ ~row.available /\ Balance(row) = 0
<1>1. Analytics!Stats \in Amounts /\ Analytics!Stats.acks = 0 /\ Analytics!Stats.incomplete = 0
  BY DEF Analytics!Stats, Amounts
<1>2. /\ row.totals = [f \in BOOLEAN |-> Analytics!Stats] /\ row.key = key /\ row.available = FALSE
      /\ row \in Rows
  <2>1. [f \in BOOLEAN |-> Analytics!Stats] \in [BOOLEAN -> Amounts]
    BY <1>1
  <2> QED BY <2>1 DEF Analytics!NewRow, Rows
<1>3. row.totals[TRUE] = Analytics!Stats /\ row.totals[FALSE] = Analytics!Stats
  BY <1>2
<1>4. Told(row) = 0
  BY <1>1, <1>3 DEF Told
<1> QED BY <1>2, <1>4 DEF Balance, Outstanding

(* A new row takes a key of its own and has nothing to account for.        *)
LEMMA NewInstance ==
  ASSUME NEW d \in Data, Shaped(d), Unwatched(d), NEW id \in Identities, NEW row \in Rows,
         row.key = d.keys, ~row.available, Balance(row) = 0,
         NEW e, e = [d EXCEPT !.rows = Append(@, row), !.index[id] = Len(d.rows) + 1, !.keys = @ + 1]
  PROVE  Shaped(e) /\ Unwatched(e) /\ Continues(d, e) /\ e.index[id] \in DOMAIN e.rows
<1> DEFINE n == Len(d.rows)
<1>0. /\ d.rows \in Seq(Rows) /\ n \in Nat /\ DOMAIN d.rows = 1..n /\ d.keys \in Nat
      /\ d.index \in [Identities -> Nat]
  BY DEF Data
<1>1. /\ e.rows = Append(d.rows, row) /\ e.index = [d.index EXCEPT ![id] = n + 1] /\ e.keys = d.keys + 1
  BY DEF Data
<1>2. /\ e.rows \in Seq(Rows) /\ Len(e.rows) = n + 1 /\ DOMAIN e.rows = 1..n + 1
      /\ e.rows[n + 1] = row /\ \A i \in 1..n : e.rows[i] = d.rows[i]
  BY <1>0, <1>1, AppendProperties
<1>3. e \in Data
  <2>1. e.index \in [Identities -> Nat] /\ e.keys \in Nat
    BY <1>0, <1>1
  <2>2. e = [d EXCEPT !.rows = e.rows, !.index = e.index, !.keys = e.keys]
    BY <1>1 DEF Data
  <2> QED BY <1>2, <2>1, <2>2 DEF Data
<1>4. \A i \in DOMAIN e.rows : i = n + 1 \/ (i \in DOMAIN d.rows /\ e.rows[i] = d.rows[i])
  BY <1>0, <1>2
<1>5. Indexed(e)
  <2>1. \A j \in DOMAIN d.rows : d.rows[j].key \in Nat /\ d.rows[j].key < d.keys
    BY RowFacts DEF Rows, Shaped, Indexed
  <2>2. \A i \in DOMAIN e.rows : e.rows[i].key < e.keys
    BY <1>0, <1>1, <1>2, <1>4, <2>1
  <2>3. \A i, j \in DOMAIN e.rows : e.rows[i].key = e.rows[j].key => i = j
    BY <1>0, <1>2, <1>4, <2>1 DEF Shaped, Indexed
  <2>4. \A other \in Identities : d.index[other] \in 0..n
    BY DEF Shaped, Indexed
  <2>5. \A other \in Identities : e.index[other] = IF other = id THEN n + 1 ELSE d.index[other]
    BY <1>0, <1>1
  <2>6. \A other \in Identities : e.index[other] \in 0..Len(e.rows)
    BY <1>0, <1>2, <2>4, <2>5
  <2>7. \A one, other \in Identities : e.index[one] = e.index[other] /\ e.index[one] # 0 => one = other
    BY <1>0, <2>4, <2>5 DEF Shaped, Indexed
  <2> QED BY <2>2, <2>3, <2>6, <2>7 DEF Indexed
<1>6. Unwatched(e)
  BY <1>2, <1>4 DEF Unwatched
<1>7. Continues(d, e)
  BY <1>0, <1>1, <1>2, <1>4 DEF Continues
<1> QED BY <1>0, <1>1, <1>2, <1>3, <1>5, <1>6, <1>7 DEF Shaped

(* A channel of a configuration keeps its row or is given a new one.       *)
LEMMA AdmitContinues ==
  ASSUME NEW d \in Data, Shaped(d), Unwatched(d), NEW id \in Identities, NEW ambiguous \in BOOLEAN,
         NEW u \in Shows, NEW t \in Int, NEW e, e = Analytics!Admit(d, id, ambiguous, u, t)
  PROVE  Shaped(e) /\ Unwatched(e) /\ Continues(d, e)
<1> DEFINE old == d.index[id]
           same == old # 0 /\ d.rows[old].ambiguous = ambiguous
           fresh == Analytics!NewRow(d.keys, id, ambiguous, t)
           m == IF same THEN d
                ELSE [d EXCEPT !.rows = Append(@, fresh), !.index[id] = Len(d.rows) + 1, !.keys = @ + 1]
           k == m.index[id]
           row == [m.rows[k] EXCEPT !.removed = FALSE, !.available = FALSE, !.initialized = FALSE,
                     !.suppressed = u.suppressed, !.ackUnknown = TRUE]
<1>0. d.keys \in Nat /\ d.index \in [Identities -> Nat] /\ d.rows \in Seq(Rows)
  BY DEF Data
<1>1. Shaped(m) /\ Unwatched(m) /\ Continues(d, m) /\ k \in DOMAIN m.rows
  <2>1. CASE same
    <3>1. m = d
      BY <2>1
    <3>2. Continues(d, d)
      BY AlikeContinues DEF Alike
    <3>3. d.index[id] \in DOMAIN d.rows
      BY <1>0, <2>1 DEF Shaped, Indexed
    <3> QED BY <3>1, <3>2, <3>3
  <2>2. CASE ~same
    <3>1. fresh \in Rows /\ fresh.key = d.keys /\ ~fresh.available /\ Balance(fresh) = 0
      BY <1>0, NewRowFacts
    <3> HIDE DEF fresh
    <3>2. m = [d EXCEPT !.rows = Append(@, fresh), !.index[id] = Len(d.rows) + 1, !.keys = @ + 1]
      BY <2>2
    <3> HIDE DEF m
    <3> QED BY <3>1, <3>2, NewInstance
  <2> QED BY <2>1, <2>2
<1>2. e = Written(m, k, row)
  BY DEF Analytics!Admit, Written
<1> HIDE DEF m
<1>3. m \in Data /\ m.rows[k] \in Rows
  BY <1>1, RowFacts DEF Shaped
<1>4. /\ row \in Rows /\ row.key = m.rows[k].key /\ row.totals = m.rows[k].totals /\ ~row.available
  BY <1>3 DEF Rows, Shows
<1> HIDE DEF row, k
<1>5. /\ e \in Data /\ Alike(m, e) /\ e.rows[k] = row
      /\ \A j \in DOMAIN m.rows : j # k => e.rows[j] = m.rows[j]
  BY <1>1, <1>2, <1>3, <1>4, RowWritten
<1>6. \A i \in DOMAIN m.rows : Balance(e.rows[i]) = Balance(m.rows[i]) /\ ~e.rows[i].available
  <2>1. Balance(row) = Balance(m.rows[k])
    <3>1. ~m.rows[k].available
      BY <1>1 DEF Unwatched
    <3> QED BY <1>4, <3>1 DEF Balance, Told, Outstanding
  <2> QED BY <1>1, <1>4, <1>5, <2>1 DEF Unwatched
<1>7. Shaped(e) /\ Unwatched(e) /\ Continues(m, e)
  BY <1>1, <1>3, <1>5, <1>6, AlikeShaped, AlikeContinues DEF Unwatched, Alike
<1> QED BY <1>1, <1>3, <1>5, <1>7, ContinuesOn

Member(s) == CHOOSE x \in s : TRUE

(* A set that is not empty has the member it chooses.                      *)
LEMMA MemberFacts == ASSUME NEW s, s # {} PROVE Member(s) \in s
  BY DEF Member

(* reconcile retires every row and admits the channels one by one.         *)
LEMMA AdmittedContinues ==
  ASSUME NEW d \in Data, Shaped(d), NEW config, NEW states \in [Identities -> Shows], NEW t \in Int,
         NEW e, e = Analytics!Admitted(d, config, states, t)
  PROVE  Shaped(e) /\ Unwatched(e) /\ Continues(d, e)
<1> DEFINE S == Analytics!Included(config)
           base == Analytics!Retire(Analytics!Gap(d, t), t)
           W == [s \in SUBSET S |-> {x \in Data : Shaped(x) /\ Unwatched(x) /\ Continues(base, x)}]
           pick == [s \in SUBSET S |-> Member(s)]
           Next1(x, id) == Analytics!Admit(x, id, config.count[id] # 1, states[id], t)
           G == [p \in S \X Data |-> Next1(p[2], p[1])]
           iter[s \in SUBSET S] ==
             IF s = {} THEN base
             ELSE LET x == CHOOSE x \in s : TRUE
                  IN Analytics!Admit(iter[s \ {x}], x, config.count[x] # 1, states[x], t)
<1>1. IsFiniteSet(S) /\ S \subseteq Identities
  BY AnalyticsAssumption, FS_Subset DEF Analytics!Included
<1>2. e = iter[S]
  BY DEF Analytics!Admitted, Analytics!FoldSet, Analytics!MapThenFoldSet
<1>3. Shaped(base) /\ Unwatched(base) /\ Continues(d, base) /\ base \in Data
  <2> DEFINE g == Analytics!Gap(d, t)
  <2>1. Shaped(g) /\ Unwatched(g) /\ Continues(d, g)
    BY GapContinues
  <2> HIDE DEF g
  <2>2. g \in Data
    BY <2>1 DEF Shaped
  <2>3. Shaped(base) /\ Unwatched(base) /\ Continues(g, base)
    BY <2>1, <2>2, RetireContinues DEF g
  <2> HIDE DEF base
  <2>4. base \in Data
    BY <2>3 DEF Shaped
  <2> QED BY <2>1, <2>2, <2>3, <2>4, ContinuesOn
<1> HIDE DEF base, S
<1>4. ASSUME NEW s \in SUBSET S, NEW id \in s, NEW x \in W[s \ {id}]
      PROVE  Next1(x, id) \in W[s]
  <2>1. x \in Data /\ Shaped(x) /\ Unwatched(x) /\ Continues(base, x)
    OBVIOUS
  <2> DEFINE y == Next1(x, id)
  <2>2. id \in Identities /\ (config.count[id] # 1) \in BOOLEAN /\ states[id] \in Shows
    BY <1>1
  <2>3. Shaped(y) /\ Unwatched(y) /\ Continues(x, y)
    BY <2>1, <2>2, AdmitContinues
  <2> HIDE DEF y
  <2>4. y \in Data
    BY <2>3 DEF Shaped
  <2>5. Continues(base, y)
    BY <1>3, <2>1, <2>3, <2>4, ContinuesOn
  <2> QED BY <2>3, <2>4, <2>5 DEF y
<1> HIDE DEF Next1
<1>5. HasFold(S, Data, W, base, pick, G)
  <2>1. \A s \in SUBSET S : W[s] \subseteq Data
    OBVIOUS
  <2>2. base \in W[{}]
    <3>1. Continues(base, base)
      BY <1>3, AlikeContinues DEF Alike
    <3> QED BY <1>3, <3>1
  <2>3. \A s \in SUBSET S : s # {} =>
          pick[s] \in s /\ \A v \in W[s \ {pick[s]}] : G[<<pick[s], v>>] \in W[s]
    <3> SUFFICES ASSUME NEW s \in SUBSET S, s # {}
                 PROVE  pick[s] \in s /\ \A v \in W[s \ {pick[s]}] : G[<<pick[s], v>>] \in W[s]
      OBVIOUS
    <3>1. pick[s] \in s
      BY MemberFacts
    <3> HIDE DEF pick
    <3>2. ASSUME NEW v \in W[s \ {pick[s]}] PROVE G[<<pick[s], v>>] \in W[s]
      <4>1. v \in Data /\ pick[s] \in S /\ s \ {pick[s]} \in SUBSET S
        BY <3>1
      <4>2. G[<<pick[s], v>>] = Next1(v, pick[s])
        BY <4>1
      <4>3. Next1(v, pick[s]) \in W[s]
        <5> HIDE DEF G, W
        <5> QED BY <1>4, <3>1
      <4> QED BY <4>2, <4>3
    <3> QED BY <3>1, <3>2
  <2> HIDE DEF W, G, pick
  <2>4. Foldable(S, Data, W, base, pick, G)
    BY <1>1, <2>1, <2>2, <2>3 DEF Foldable
  <2> QED BY <2>4, FoldExists
<1>6. PICK f \in [SUBSET S -> Data] : \A s \in SUBSET S :
        f[s] \in W[s] /\ f[s] = IF s = {} THEN base ELSE G[<<pick[s], f[s \ {pick[s]}]>>]
  BY <1>5 DEF HasFold, Folded
<1>7. \A s \in SUBSET S : f[s] = IF s = {} THEN base ELSE Next1(f[s \ {Member(s)}], Member(s))
  <2> TAKE s \in SUBSET S
  <2>1. CASE s = {}
    BY <1>6, <2>1
  <2>2. CASE s # {}
    <3>1. pick[s] = Member(s) /\ pick[s] \in s
      BY <2>2, MemberFacts
    <3> HIDE DEF pick
    <3>2. s \ {pick[s]} \in SUBSET S /\ pick[s] \in S
      BY <3>1
    <3>3. f[s \ {pick[s]}] \in Data
      BY <3>2
    <3>4. G[<<pick[s], f[s \ {pick[s]}]>>] = Next1(f[s \ {pick[s]}], pick[s])
      BY <3>2, <3>3
    <3> HIDE DEF G
    <3> QED BY <1>6, <2>2, <3>1, <3>4
  <2> QED BY <2>1, <2>2
<1>8. f = [s \in SUBSET S |->
             IF s = {} THEN base
             ELSE LET x == CHOOSE x \in s : TRUE
                  IN Analytics!Admit(f[s \ {x}], x, config.count[x] # 1, states[x], t)]
  <2> HIDE DEF W, G, pick
  <2> QED BY <1>7 DEF Member, Next1
<1>9. iter = [s \in SUBSET S |->
             IF s = {} THEN base
             ELSE LET x == CHOOSE x \in s : TRUE
                  IN Analytics!Admit(iter[s \ {x}], x, config.count[x] # 1, states[x], t)]
  <2> HIDE DEF W, G, pick
  <2> QED BY <1>8
<1> HIDE DEF iter
<1>10. iter[S] \in W[S]
  <2>1. iter[{}] \in W[{}]
    <3>1. iter[{}] = base
      BY <1>9
    <3>2. Continues(base, base)
      BY <1>3, AlikeContinues DEF Alike
    <3> QED BY <1>3, <3>1, <3>2
  <2>2. \A s \in SUBSET S : s # {} =>
           pick[s] \in s /\ (iter[s \ {pick[s]}] \in W[s \ {pick[s]}] => iter[s] \in W[s])
    <3> SUFFICES ASSUME NEW s \in SUBSET S, s # {}, iter[s \ {pick[s]}] \in W[s \ {pick[s]}]
                 PROVE  iter[s] \in W[s]
      BY MemberFacts
    <3>1. pick[s] = Member(s) /\ pick[s] \in s
      BY MemberFacts
    <3> HIDE DEF pick
    <3>2. iter[s] = Next1(iter[s \ {pick[s]}], pick[s])
      BY <1>9, <3>1 DEF Member, Next1
    <3>3. Next1(iter[s \ {pick[s]}], pick[s]) \in W[s]
      <4> HIDE DEF W
      <4> QED BY <1>4, <3>1
    <3> QED BY <3>2, <3>3
  <2> HIDE DEF W, pick
  <2>3. Inherited(S, W, pick, iter)
    BY <1>1, <2>1, <2>2 DEF Inherited
  <2> QED BY <2>3, FoldInduction
<1>11. e \in Data /\ Shaped(e) /\ Unwatched(e) /\ Continues(base, e)
  BY <1>2, <1>10
<1> QED BY <1>3, <1>11, ContinuesOn

(* The channels of a configuration whose rows are not watched are observed *)
(* one by one: no row tells of an end.                                     *)
LEMMA ObservedAll ==
  ASSUME NEW d \in Data, Shaped(d), Unwatched(d), NEW config, NEW states \in [Identities -> Shows],
         NEW cause, NEW t \in Int,
         NEW e, e = Analytics!ObserveAll(d, config, states, cause, t)
  PROVE  /\ e \in Data /\ Alike(d, e) /\ Reflected(e, Analytics!Included(config), states)
         /\ \A i \in DOMAIN d.rows : Told(e.rows[i]) = Told(d.rows[i])
<1> DEFINE S == Analytics!Included(config)
           base == d
           Watched(s, x) ==
             /\ Alike(d, x) /\ Reflected(x, s, states)
             /\ \A i \in DOMAIN d.rows : Told(x.rows[i]) = Told(d.rows[i])
           W == [s \in SUBSET S |-> {x \in Data : Watched(s, x)}]
           pick == [s \in SUBSET S |-> Member(s)]
           Next1(x, id) == Analytics!Observe(x, id, states[id], cause, t)
           G == [p \in S \X Data |-> Next1(p[2], p[1])]
           iter[s \in SUBSET S] ==
             IF s = {} THEN base
             ELSE LET x == CHOOSE x \in s : TRUE
                  IN Analytics!Observe(iter[s \ {x}], x, states[x], cause, t)
<1>1. IsFiniteSet(S) /\ S \subseteq Identities
  BY AnalyticsAssumption, FS_Subset DEF Analytics!Included
<1>2. e = iter[S]
  BY DEF Analytics!ObserveAll, Analytics!FoldSet, Analytics!MapThenFoldSet
<1>3. Watched({}, base)
  BY DEF Alike, Reflected, Unwatched
<1> HIDE DEF S
<1>4. ASSUME NEW s \in SUBSET S, NEW id \in s, NEW x \in W[s \ {id}]
      PROVE  Next1(x, id) \in W[s]
  <2>1. x \in Data /\ Watched(s \ {id}, x)
    OBVIOUS
  <2>2. id \in Identities /\ states[id] \in Shows /\ Shaped(x)
    <3>1. Shaped(x)
      BY <2>1, AlikeShaped
    <3> QED BY <1>1, <3>1
  <2> DEFINE y == Next1(x, id)
  <2>3. CASE ~Analytics!Watches(x, id)
    <3>1. y = x
      BY <2>3 DEF Analytics!Observe
    <3>2. Reflected(x, s, states)
      BY <2>1 DEF Reflected
    <3> HIDE DEF y
    <3> QED BY <2>1, <3>1, <3>2 DEF y
  <2>4. CASE Analytics!Watches(x, id)
    <3> DEFINE i == x.index[id]
    <3>1. i \in DOMAIN x.rows /\ ~x.rows[i].removed /\ ~x.rows[i].ambiguous
      <4>1. i \in 0..Len(x.rows) /\ i # 0
        BY <2>2, <2>4 DEF Analytics!Watches, Shaped, Indexed
      <4>2. x.rows \in Seq(Rows)
        BY DEF Data
      <4> QED BY <2>4, <4>1, <4>2 DEF Analytics!Watches
    <3>2. y = Analytics!Observed(x, i, states[id], cause, t)
      BY <2>4 DEF Analytics!Observe
    <3> HIDE DEF y
    <3>3. /\ y \in Data /\ Alike(x, y)
          /\ \A j \in DOMAIN x.rows : j # i => y.rows[j] = x.rows[j]
          /\ y.rows[i].available = states[id].available /\ y.rows[i].unack = states[id].unack
          /\ y.rows[i].removed = x.rows[i].removed /\ y.rows[i].ambiguous = x.rows[i].ambiguous
          /\ Told(y.rows[i]) = Told(x.rows[i]) + Analytics!One(Analytics!Ends(x.rows[i], states[id]))
      BY <2>1, <2>2, <3>1, <3>2, ObservedRow
    <3>4. ~x.rows[i].available
      <4> SUFFICES ASSUME x.rows[i].available PROVE FALSE
        OBVIOUS
      <4>1. PICK other \in s \ {id} : x.index[other] = i
        BY <2>1, <3>1 DEF Reflected, Reflects
      <4>2. other \in Identities /\ i # 0 /\ other # id
        BY <1>1, <2>4 DEF Analytics!Watches
      <4> QED BY <2>2, <4>1, <4>2 DEF Shaped, Indexed
    <3>5. Told(y.rows[i]) = Told(x.rows[i])
      <4>1. Analytics!One(Analytics!Ends(x.rows[i], states[id])) = 0
        BY <3>4 DEF Analytics!Ends, Analytics!One
      <4>2. Told(x.rows[i]) \in Int
        BY <2>1, <3>1, RowFacts, ToldInt
      <4> QED BY <3>3, <4>1, <4>2
    <3> HIDE DEF i
    <3>6. Alike(d, y) /\ DOMAIN x.rows = DOMAIN d.rows /\ DOMAIN y.rows = DOMAIN x.rows /\ y.index = x.index
      BY <2>1, <3>3 DEF Alike
    <3>7. Reflected(y, s, states)
      <4>1. ASSUME NEW j \in DOMAIN y.rows, y.rows[j].available
            PROVE  \E one \in s : Reflects(y, j, one, states)
        <5>1. CASE j = i
          <6>1. Reflects(y, j, id, states)
            BY <3>1, <3>3, <3>6, <5>1 DEF Reflects, i
          <6> QED BY <6>1
        <5>2. CASE j # i
          <6>1. y.rows[j] = x.rows[j]
            BY <3>3, <3>6, <5>2
          <6>2. PICK one \in s \ {id} : Reflects(x, j, one, states)
            BY <2>1, <3>6, <4>1, <6>1 DEF Reflected
          <6> QED BY <3>6, <6>1, <6>2 DEF Reflects
        <5> QED BY <5>1, <5>2
      <4> QED BY <4>1 DEF Reflected
    <3>8. \A j \in DOMAIN d.rows : Told(y.rows[j]) = Told(d.rows[j])
      BY <2>1, <3>3, <3>5, <3>6
    <3>9. Watched(s, y)
      BY <3>6, <3>7, <3>8
    <3> HIDE DEF Watched
    <3> QED BY <3>3, <3>9 DEF y
  <2> QED BY <2>3, <2>4
<1> HIDE DEF Next1
<1>5. HasFold(S, Data, W, base, pick, G)
  <2>1. \A s \in SUBSET S : W[s] \subseteq Data
    OBVIOUS
  <2>2. base \in W[{}]
    <3> HIDE DEF Watched
    <3> QED BY <1>3
  <2>3. \A s \in SUBSET S : s # {} =>
          pick[s] \in s /\ \A v \in W[s \ {pick[s]}] : G[<<pick[s], v>>] \in W[s]
    <3> SUFFICES ASSUME NEW s \in SUBSET S, s # {}
                 PROVE  pick[s] \in s /\ \A v \in W[s \ {pick[s]}] : G[<<pick[s], v>>] \in W[s]
      OBVIOUS
    <3>1. pick[s] \in s
      BY MemberFacts
    <3> HIDE DEF pick
    <3>2. ASSUME NEW v \in W[s \ {pick[s]}] PROVE G[<<pick[s], v>>] \in W[s]
      <4>1. v \in Data /\ pick[s] \in S /\ s \ {pick[s]} \in SUBSET S
        BY <3>1
      <4>2. G[<<pick[s], v>>] = Next1(v, pick[s])
        BY <4>1
      <4>3. Next1(v, pick[s]) \in W[s]
        <5> HIDE DEF G, W
        <5> QED BY <1>4, <3>1
      <4> QED BY <4>2, <4>3
    <3> QED BY <3>1, <3>2
  <2> HIDE DEF W, G, pick
  <2>4. Foldable(S, Data, W, base, pick, G)
    BY <1>1, <2>1, <2>2, <2>3 DEF Foldable
  <2> QED BY <2>4, FoldExists
<1>6. PICK f \in [SUBSET S -> Data] : \A s \in SUBSET S :
        f[s] \in W[s] /\ f[s] = IF s = {} THEN base ELSE G[<<pick[s], f[s \ {pick[s]}]>>]
  BY <1>5 DEF HasFold, Folded
<1>7. \A s \in SUBSET S : f[s] = IF s = {} THEN base ELSE Next1(f[s \ {Member(s)}], Member(s))
  <2> TAKE s \in SUBSET S
  <2>1. CASE s = {}
    BY <1>6, <2>1
  <2>2. CASE s # {}
    <3>1. pick[s] = Member(s) /\ pick[s] \in s
      BY <2>2, MemberFacts
    <3> HIDE DEF pick
    <3>2. s \ {pick[s]} \in SUBSET S /\ pick[s] \in S
      BY <3>1
    <3>3. f[s \ {pick[s]}] \in Data
      BY <3>2
    <3>4. G[<<pick[s], f[s \ {pick[s]}]>>] = Next1(f[s \ {pick[s]}], pick[s])
      BY <3>2, <3>3
    <3> HIDE DEF G
    <3> QED BY <1>6, <2>2, <3>1, <3>4
  <2> QED BY <2>1, <2>2
<1>8. f = [s \in SUBSET S |->
             IF s = {} THEN base
             ELSE LET x == CHOOSE x \in s : TRUE
                  IN Analytics!Observe(f[s \ {x}], x, states[x], cause, t)]
  <2> HIDE DEF W, G, pick
  <2> QED BY <1>7 DEF Member, Next1
<1>9. iter = [s \in SUBSET S |->
             IF s = {} THEN base
             ELSE LET x == CHOOSE x \in s : TRUE
                  IN Analytics!Observe(iter[s \ {x}], x, states[x], cause, t)]
  <2> HIDE DEF W, G, pick
  <2> QED BY <1>8
<1> HIDE DEF iter
<1>10. iter[S] \in W[S]
  <2>1. iter[{}] \in W[{}]
    <3>1. iter[{}] = base
      BY <1>9
    <3> HIDE DEF Watched
    <3> QED BY <1>3, <3>1
  <2>2. \A s \in SUBSET S : s # {} =>
           pick[s] \in s /\ (iter[s \ {pick[s]}] \in W[s \ {pick[s]}] => iter[s] \in W[s])
    <3> SUFFICES ASSUME NEW s \in SUBSET S, s # {}, iter[s \ {pick[s]}] \in W[s \ {pick[s]}]
                 PROVE  iter[s] \in W[s]
      BY MemberFacts
    <3>1. pick[s] = Member(s) /\ pick[s] \in s
      BY MemberFacts
    <3> HIDE DEF pick
    <3>2. iter[s] = Next1(iter[s \ {pick[s]}], pick[s])
      BY <1>9, <3>1 DEF Member, Next1
    <3>3. Next1(iter[s \ {pick[s]}], pick[s]) \in W[s]
      <4> HIDE DEF W
      <4> QED BY <1>4, <3>1
    <3> QED BY <3>2, <3>3
  <2> HIDE DEF W, pick
  <2>3. Inherited(S, W, pick, iter)
    BY <1>1, <2>1, <2>2 DEF Inherited
  <2> QED BY <2>3, FoldInduction
<1>11. e \in Data /\ Watched(S, e)
  BY <1>2, <1>10
<1> QED BY <1>11 DEF S

(* The cardinality that the analytics count with is the one of the         *)
(* library.                                                                *)
LEMMA SameCardinality == \A S : Analytics!Cardinality(S) = Cardinality(S)
  BY DEF Analytics!Cardinality, Cardinality

(* The rank of a place is the number of places up to it.                   *)
LEMMA RankCounts ==
  ASSUME NEW places, NEW i
  PROVE  Analytics!Rank(places, i) = Cardinality({j \in places : j <= i})
  BY SameCardinality DEF Analytics!Rank

(* Ranks number the places from 1 on.                                      *)
LEMMA RankFacts ==
  ASSUME NEW n \in Nat, NEW places \in SUBSET (1..n)
  PROVE  /\ Cardinality(places) \in Nat
         /\ \A i \in places : Analytics!Rank(places, i) \in 1..Cardinality(places)
         /\ \A i, j \in places : Analytics!Rank(places, i) = Analytics!Rank(places, j) => i = j
         /\ \A k \in 1..Cardinality(places) : \E i \in places : Analytics!Rank(places, i) = k
<1> DEFINE upto(i) == {j \in places : j <= i}
           rank == [i \in places |-> Analytics!Rank(places, i)]
<1>1. IsFiniteSet(places) /\ Cardinality(places) \in Nat
  <2>1. IsFiniteSet(1..n)
    BY FS_Interval
  <2> QED BY <2>1, FS_Subset, FS_CardinalityType
<1>2. \A i \in places : IsFiniteSet(upto(i)) /\ Cardinality(upto(i)) \in Nat
                        /\ Cardinality(upto(i)) <= Cardinality(places)
  BY <1>1, FS_Subset, FS_CardinalityType
<1>3. ASSUME NEW i \in places PROVE Analytics!Rank(places, i) \in 1..Cardinality(places)
  <2>1. i \in upto(i)
    OBVIOUS
  <2>2. Cardinality(upto(i)) # 0
    BY <1>2, <2>1, FS_EmptySet
  <2> QED BY <1>1, <1>2, <2>2, RankCounts
<1>4. ASSUME NEW i \in places, NEW j \in places, i < j
      PROVE  Analytics!Rank(places, i) # Analytics!Rank(places, j)
  <2>1. upto(i) \in SUBSET upto(j) /\ j \in upto(j) /\ j \notin upto(i)
    <3>1. i \in Int /\ j \in Int /\ \A l \in places : l \in Int
      OBVIOUS
    <3>2. \A l \in places : l <= i => l <= j
      BY <1>4, <3>1
    <3>3. ~(j <= i) /\ j <= j
      BY <1>4, <3>1
    <3> QED BY <3>2, <3>3
  <2>2. Cardinality(upto(j)) # Cardinality(upto(i))
    <3> HIDE DEF upto
    <3> QED BY <1>2, <2>1, FS_Subset
  <2> QED BY <2>2, RankCounts
<1>5. \A i, j \in places : Analytics!Rank(places, i) = Analytics!Rank(places, j) => i = j
  <2> TAKE i \in places, j \in places
  <2>1. i \in Int /\ j \in Int
    OBVIOUS
  <2> QED BY <1>4, <2>1
<1>6. rank \in Injection(places, 1..Cardinality(places))
  BY <1>3, <1>5 DEF Injection, IsInjective
<1>7. IsFiniteSet(1..Cardinality(places)) /\ Cardinality(1..Cardinality(places)) = Cardinality(places)
  BY <1>1, FS_Interval
<1>8. rank \in Surjection(places, 1..Cardinality(places))
  <2> HIDE DEF rank
  <2> QED BY <1>6, <1>7, FS_Injection
<1>9. \A k \in 1..Cardinality(places) : \E i \in places : Analytics!Rank(places, i) = k
  BY <1>8 DEF Surjection
<1> QED BY <1>1, <1>3, <1>5, <1>9

(* Only keeps the elements of a sequence at the given places, each at its  *)
(* rank.                                                                   *)
LEMMA OnlyFacts ==
  ASSUME NEW T, NEW s \in Seq(T), NEW places \in SUBSET DOMAIN s,
         NEW r, r = Analytics!Only(s, places)
  PROVE  /\ r \in Seq(T) /\ DOMAIN r = 1..Cardinality(places) /\ Cardinality(places) \in Nat
         /\ \A k \in DOMAIN r : \E i \in places : Analytics!Rank(places, i) = k /\ r[k] = s[i]
<1>1. places \in SUBSET (1..Len(s)) /\ Len(s) \in Nat
  OBVIOUS
<1>2. /\ Cardinality(places) \in Nat
      /\ \A k \in 1..Cardinality(places) : \E i \in places : Analytics!Rank(places, i) = k
  BY <1>1, RankFacts
<1>3. r = [k \in 1..Cardinality(places) |-> s[CHOOSE i \in places : Analytics!Rank(places, i) = k]]
  BY SameCardinality DEF Analytics!Only
<1>4. ASSUME NEW k \in 1..Cardinality(places)
      PROVE  \E i \in places : Analytics!Rank(places, i) = k /\ r[k] = s[i]
  <2>1. (CHOOSE i \in places : Analytics!Rank(places, i) = k) \in places
        /\ Analytics!Rank(places, CHOOSE i \in places : Analytics!Rank(places, i) = k) = k
    BY <1>2
  <2> QED BY <1>3, <2>1
<1>5. r \in Seq(T)
  <2>1. \A k \in 1..Cardinality(places) : r[k] \in T
    BY <1>1, <1>4
  <2>2. r \in [1..Cardinality(places) -> T]
    BY <1>3, <2>1
  <2> QED BY <1>2, <2>2
<1> QED BY <1>2, <1>3, <1>4, <1>5

(* Dropping removed rows renumbers the others, and their records.          *)
LEMMA CompactContinues ==
  ASSUME NEW d \in Data, Shaped(d), NEW kept \in SUBSET Analytics!Retired(d),
         NEW e, e = Analytics!Compact(d, kept)
  PROVE  /\ Shaped(e) /\ Continues(d, e)
         /\ Unwatched(d) => Unwatched(e)
         /\ \A ids, states : Reflected(d, ids, states) /\ ids \subseteq Identities
              => Reflected(e, ids, states)
<1> DEFINE staying == Analytics!Staying(d, kept)
           expiry == IF kept = {} THEN 0 ELSE Analytics!Min({d.rows[i].retiredAt + Day : i \in kept})
           compacted == [d EXCEPT !.expiry = expiry]
           lasting == {k \in DOMAIN d.records : d.records[k].channel \notin Analytics!Dropped(d, kept)}
           records == Analytics!Only(d.records, lasting)
           rows == Analytics!Only(d.rows, staying)
           place(i) == Analytics!Place(d, kept, i)
<1>0. /\ d.rows \in Seq(Rows) /\ d.records \in Seq(Records) /\ d.index \in [Identities -> Nat]
      /\ Len(d.rows) \in Nat /\ DOMAIN d.rows = 1..Len(d.rows) /\ d.keys \in Nat /\ d.generation \in Int
  BY DEF Data
<1>1. expiry \in Int
  <2>1. CASE kept = {}
    BY <2>1
  <2>2. CASE kept # {}
    <3> DEFINE f == [i \in kept |-> d.rows[i].retiredAt + Day]
               times == {f[i] : i \in kept}
    <3>1. kept \subseteq DOMAIN d.rows
      BY DEF Analytics!Retired
    <3>2. \A i \in kept : d.rows[i].retiredAt + Day \in Int
      BY <3>1, RowFacts, AnalyticsAssumption DEF Rows
    <3>3. IsFiniteSet(kept)
      <4>1. 0 \in Int /\ 1 \in Int /\ Len(d.rows) \in Int
        BY <1>0
      <4>2. IsFiniteSet(1..Len(d.rows))
        BY <4>1, FS_Interval
      <4> QED BY <1>0, <3>1, <4>2, FS_Subset
    <3>4. times \subseteq Int /\ times # {}
      BY <2>2, <3>2
    <3>5. IsFiniteSet(times)
      <4> HIDE DEF f
      <4> QED BY <3>3, FiniteImage
    <3>6. expiry = Analytics!Min(times)
      BY <2>2
    <3> HIDE DEF times, expiry
    <3> QED BY <3>4, <3>5, <3>6, FiniteExtremes
  <2> QED BY <2>1, <2>2
<1> HIDE DEF expiry
<1>2. compacted \in Data /\ compacted.rows = d.rows /\ compacted.index = d.index /\ compacted.keys = d.keys
  BY <1>1 DEF Data
<1>3. CASE Analytics!Dropped(d, kept) = {}
  <2>1. e = compacted
    BY <1>3 DEF Analytics!Compact, expiry
  <2>2. Alike(d, e) /\ e.rows = d.rows /\ e.index = d.index /\ e \in Data
    BY <1>2, <2>1 DEF Alike
  <2>3. Shaped(e) /\ Continues(d, e)
    BY <2>2, AlikeShaped, AlikeContinues
  <2> QED BY <2>2, <2>3 DEF Unwatched, Reflected, Reflects
<1>4. CASE Analytics!Dropped(d, kept) # {}
  <2>1. /\ staying \in SUBSET DOMAIN d.rows
        /\ \A i \in DOMAIN d.rows : ~d.rows[i].removed => i \in staying
    BY DEF Analytics!Staying, Analytics!Dropped, Analytics!Retired
  <2> HIDE DEF staying
  <2>2. /\ rows \in Seq(Rows) /\ DOMAIN rows = 1..Cardinality(staying) /\ Cardinality(staying) \in Nat
        /\ \A k \in DOMAIN rows : \E i \in staying : Analytics!Rank(staying, i) = k /\ rows[k] = d.rows[i]
    BY <1>0, <2>1, OnlyFacts
  <2>3. Len(rows) = Cardinality(staying)
    <3> HIDE DEF rows
    <3> QED BY <2>2
  <2>4. /\ \A i \in staying : place(i) \in 1..Len(rows) /\ place(i) = Analytics!Rank(staying, i)
        /\ \A i : i \notin staying => place(i) = 0
        /\ \A i, j \in staying : place(i) = place(j) => i = j
    <3>1. /\ \A i \in staying : place(i) = Analytics!Rank(staying, i)
          /\ \A i : i \notin staying => place(i) = 0
      BY DEF Analytics!Place, staying
    <3>2. /\ \A i \in staying : Analytics!Rank(staying, i) \in 1..Cardinality(staying)
          /\ \A i, j \in staying : Analytics!Rank(staying, i) = Analytics!Rank(staying, j) => i = j
      BY <1>0, <2>1, RankFacts
    <3> HIDE DEF place, rows
    <3> QED BY <2>3, <3>1, <3>2
  <2>5. \A i : place(i) \in Nat
    BY <2>2, <2>3, <2>4
  <2>6. records \in Seq(Records)
    <3>1. lasting \in SUBSET DOMAIN d.records
      OBVIOUS
    <3> HIDE DEF lasting
    <3> QED BY <1>0, <3>1, OnlyFacts
  <2> DEFINE renumbered == [k \in DOMAIN records |-> [records[k] EXCEPT !.channel = Analytics!Place(d, kept, @)]]
             index == [id \in Identities |-> Analytics!Place(d, kept, d.index[id])]
  <2>7. e = [compacted EXCEPT !.rows = rows, !.records = renumbered, !.index = index,
                              !.truncated = TRUE, !.generation = d.generation + 1]
    BY <1>4 DEF Analytics!Compact, expiry, staying, Data
  <2> HIDE DEF place
  <2>8. renumbered \in Seq(Records)
    <3> HIDE DEF records
    <3>1. ASSUME NEW k \in DOMAIN records PROVE renumbered[k] \in Records
      <4>1. records[k] \in Records
        BY <2>6
      <4>2. PICK p \in Nat : p = Analytics!Place(d, kept, records[k].channel)
        BY <2>5 DEF place
      <4>3. renumbered[k] = [records[k] EXCEPT !.channel = p]
        BY <4>2
      <4> HIDE DEF renumbered
      <4> QED BY <4>1, <4>3 DEF Records
    <3>2. DOMAIN records = 1..Len(records) /\ Len(records) \in Nat
      BY <2>6
    <3>3. renumbered \in [1..Len(records) -> Records]
      BY <3>1, <3>2
    <3> HIDE DEF renumbered
    <3> QED BY <3>2, <3>3
  <2>9. index \in [Identities -> Nat] /\ \A id \in Identities : index[id] = place(d.index[id])
    BY <2>5 DEF place
  <2> HIDE DEF renumbered, index, rows, records
  <2>10. /\ e \in Data /\ e.rows = rows /\ e.index = index /\ e.keys = d.keys
    <3>1. PICK n \in Int : n = d.generation + 1
      BY <1>0
    <3> HIDE DEF compacted
    <3>2. e = [compacted EXCEPT !.rows = rows, !.records = renumbered, !.index = index,
                                !.truncated = TRUE, !.generation = n]
      BY <2>7, <3>1
    <3> QED BY <1>2, <2>2, <2>8, <2>9, <3>2 DEF Data
  <2>11. Indexed(e)
    <3>1. \A i, j \in DOMAIN e.rows : e.rows[i].key = e.rows[j].key => i = j
      <4> TAKE i, j \in DOMAIN e.rows
      <4> HAVE e.rows[i].key = e.rows[j].key
      <4>1. PICK a \in staying : Analytics!Rank(staying, a) = i /\ rows[i] = d.rows[a]
        BY <2>2, <2>10
      <4>2. PICK b \in staying : Analytics!Rank(staying, b) = j /\ rows[j] = d.rows[b]
        BY <2>2, <2>10
      <4>3. a = b
        BY <2>1, <2>10, <4>1, <4>2 DEF Shaped, Indexed
      <4> QED BY <4>1, <4>2, <4>3
    <3>2. \A i \in DOMAIN e.rows : e.rows[i].key < e.keys
      BY <2>1, <2>2, <2>10 DEF Shaped, Indexed
    <3>3. \A id \in Identities : e.index[id] \in 0..Len(e.rows)
      BY <2>2, <2>3, <2>4, <2>9, <2>10
    <3>4. ASSUME NEW id \in Identities, NEW other \in Identities, e.index[id] = e.index[other], e.index[id] # 0
          PROVE  id = other
      <4>1. place(d.index[id]) # 0 /\ place(d.index[other]) # 0 /\ place(d.index[id]) = place(d.index[other])
        BY <2>9, <2>10, <3>4
      <4>2. d.index[id] \in staying /\ d.index[other] \in staying
        BY <2>4, <4>1
      <4>3. d.index[id] = d.index[other] /\ d.index[id] # 0
        BY <1>0, <2>1, <2>4, <4>1, <4>2
      <4> QED BY <4>3 DEF Shaped, Indexed
    <3> QED BY <3>1, <3>2, <3>3, <3>4 DEF Indexed
  <2>12. \A k \in DOMAIN e.rows : \E i \in DOMAIN d.rows : e.rows[k] = d.rows[i]
    BY <2>1, <2>2, <2>10
  <2>13. Continues(d, e)
    BY <1>0, <2>10, <2>12 DEF Continues
  <2>14. Unwatched(d) => Unwatched(e)
    BY <2>12 DEF Unwatched
  <2>15. ASSUME NEW ids, NEW states, Reflected(d, ids, states), ids \subseteq Identities
         PROVE  Reflected(e, ids, states)
    <3>1. ASSUME NEW k \in DOMAIN e.rows, e.rows[k].available
          PROVE  \E id \in ids : Reflects(e, k, id, states)
      <4>1. PICK i \in staying : Analytics!Rank(staying, i) = k /\ rows[k] = d.rows[i]
        BY <2>2, <2>10
      <4>2. i \in DOMAIN d.rows /\ d.rows[i].available
        BY <2>1, <2>10, <3>1, <4>1
      <4>3. PICK id \in ids : Reflects(d, i, id, states)
        BY <2>15, <4>2 DEF Reflected
      <4>4. e.index[id] = k
        BY <2>4, <2>9, <2>10, <2>15, <4>1, <4>3 DEF Reflects
      <4> QED BY <2>10, <4>1, <4>3, <4>4 DEF Reflects
    <3> QED BY <3>1 DEF Reflected
  <2> QED BY <2>10, <2>11, <2>13, <2>14, <2>15 DEF Shaped
<1> QED BY <1>3, <1>4

(* The episodes of a row are counted; one more is added to the count of    *)
(* its row.                                                                *)
LEMMA LitFacts ==
  ASSUME NEW latches \in Seq(Nat), NEW key
  PROVE  /\ IsFiniteSet({k \in DOMAIN latches : latches[k] = key}) /\ Lit(latches, key) \in Nat
         /\ {k \in DOMAIN latches : latches[k] = key} \subseteq 1..Len(latches)
<1>1. IsFiniteSet(1..Len(latches)) /\ DOMAIN latches = 1..Len(latches)
  BY FS_Interval
<1> QED BY <1>1, FS_Subset, FS_CardinalityType DEF Lit

LEMMA LitAppended ==
  ASSUME NEW latches \in Seq(Nat), NEW key, NEW x \in Nat
  PROVE  /\ Append(latches, x) \in Seq(Nat)
         /\ Lit(Append(latches, x), key) = Lit(latches, key) + (IF x = key THEN 1 ELSE 0)
<1> DEFINE n == Len(latches)
           more == Append(latches, x)
           old == {k \in DOMAIN latches : latches[k] = key}
           new == {k \in DOMAIN more : more[k] = key}
<1>1. /\ n \in Nat /\ more \in Seq(Nat) /\ DOMAIN more = 1..n + 1 /\ DOMAIN latches = 1..n
      /\ more[n + 1] = x /\ \A k \in 1..n : more[k] = latches[k]
  BY AppendProperties
<1> HIDE DEF more
<1>2. IsFiniteSet(old) /\ old \subseteq 1..n /\ Cardinality(old) \in Nat
  BY LitFacts, FS_CardinalityType
<1>3. n + 1 \notin old
  BY <1>1, <1>2
<1>4. CASE x = key
  <2>1. new = old \cup {n + 1}
    BY <1>1, <1>4
  <2>2. Cardinality(new) = Cardinality(old) + 1
    <3> HIDE DEF old, new
    <3> QED BY <1>2, <1>3, <2>1, FS_AddElement
  <2> QED BY <1>1, <1>4, <2>2 DEF Lit, more
<1>5. CASE x # key
  <2>1. new = old
    BY <1>1, <1>5
  <2>2. Lit(Append(latches, x), key) = Lit(latches, key) /\ Lit(latches, key) \in Nat
    BY <1>2, <2>1 DEF Lit, more
  <2> QED BY <1>1, <1>5, <2>2 DEF more
<1> QED BY <1>4, <1>5

(* The parts of the invariant, for what data and truth become.             *)
Watched(d, latches, config, states) ==
  /\ Shaped(d) /\ latches \in Seq(Nat) /\ Given(d, latches) /\ Accounted(d, latches)
  /\ Reflected(d, Analytics!Included(config), states)

(* What was heard of a channel is counted where it becomes unacknowledged. *)
HeardOf(d, id, u, states, latches) ==
  LET row == d.rows[d.index[id]] IN
  IF /\ u.available /\ u.unack > 0 /\ ~(row.available /\ states[id].unack > 0)
     /\ Analytics!Watches(d, id)
  THEN Append(latches, row.key) ELSE latches

(* An observed change of a watched channel keeps the accounts: a rise is   *)
(* one more episode, an acknowledgement or a lost channel ends one.        *)
LEMMA HeardAccounted ==
  ASSUME NEW d, NEW latches, NEW config, NEW states \in [Identities -> Shows],
         Watched(d, latches, config, states), NEW id \in Analytics!Included(config),
         NEW u \in Shows, NEW cause, NEW t \in Int, NEW e, e = Analytics!Observe(d, id, u, cause, t),
         NEW after, after = HeardOf(d, id, u, states, latches),
         NEW next, next = [states EXCEPT ![id] = u]
  PROVE  Watched(e, after, config, next)
<1> DEFINE ids == Analytics!Included(config)
<1>a. /\ d \in Data /\ Shaped(d) /\ latches \in Seq(Nat) /\ Given(d, latches) /\ Accounted(d, latches)
      /\ Reflected(d, ids, states) /\ ids \in SUBSET Identities /\ id \in ids
  BY DEF Watched, Shaped, Analytics!Included
<1>b. after = IF /\ u.available /\ u.unack > 0
                 /\ ~(d.rows[d.index[id]].available /\ states[id].unack > 0)
                 /\ Analytics!Watches(d, id)
              THEN Append(latches, d.rows[d.index[id]].key) ELSE latches
  BY DEF HeardOf
<1> SUFFICES /\ Shaped(e) /\ after \in Seq(Nat) /\ Given(e, after) /\ Accounted(e, after)
             /\ Reflected(e, ids, next)
  BY DEF Watched
<1> USE <1>a, <1>b
<1> HIDE DEF ids
<1> DEFINE i == d.index[id]
           row == d.rows[i]
<1>0. id \in Identities /\ next[id] = u /\ \A other \in Identities : other # id => next[other] = states[other]
  OBVIOUS
<1>1. \A j \in DOMAIN d.rows : d.rows[j].available => \E one \in ids : Reflects(d, j, one, states)
  BY DEF Reflected
<1>2. CASE ~Analytics!Watches(d, id)
  <2>1. e = d /\ after = latches
    BY <1>2 DEF Analytics!Observe
  <2>2. Reflected(d, ids, next)
    <3>1. ASSUME NEW j \in DOMAIN d.rows, d.rows[j].available
          PROVE  \E one \in ids : Reflects(d, j, one, next)
      <4>1. PICK one \in ids : Reflects(d, j, one, states)
        BY <1>1, <3>1
      <4>2. j # 0
        BY RowFacts
      <4>3. one # id
        BY <1>2, <4>1, <4>2 DEF Analytics!Watches, Reflects
      <4> QED BY <1>0, <4>1, <4>3 DEF Reflects
    <3> QED BY <3>1 DEF Reflected
  <2> QED BY <2>1, <2>2
<1>3. CASE Analytics!Watches(d, id)
  <2>1. i \in DOMAIN d.rows /\ ~row.removed /\ ~row.ambiguous /\ i # 0
    <3>1. i \in 0..Len(d.rows) /\ i # 0
      BY <1>0, <1>3 DEF Analytics!Watches, Shaped, Indexed
    <3>2. d.rows \in Seq(Rows)
      BY DEF Data
    <3> QED BY <1>3, <3>1, <3>2 DEF Analytics!Watches
  <2>2. e = Analytics!Observed(d, i, u, cause, t)
    BY <1>3 DEF Analytics!Observe
  <2>3. /\ e \in Data /\ Alike(d, e)
        /\ \A j \in DOMAIN d.rows : j # i => e.rows[j] = d.rows[j]
        /\ e.rows[i].available = u.available /\ e.rows[i].unack = u.unack
        /\ e.rows[i].removed = row.removed /\ e.rows[i].ambiguous = row.ambiguous
        /\ Told(e.rows[i]) = Told(row) + Analytics!One(Analytics!Ends(row, u))
    BY <2>1, <2>2, ObservedRow
  <2>4. /\ row \in Rows /\ row.key \in Nat /\ row.key < d.keys /\ Told(row) \in Int
        /\ row.unack \in Nat /\ row.available \in BOOLEAN
    <3>1. row \in Rows
      BY <2>1, RowFacts
    <3>2. row.key < d.keys
      BY <2>1 DEF Shaped, Indexed
    <3> QED BY <3>1, <3>2, ToldInt DEF Rows
  <2>5. row.available => row.unack = states[id].unack
    <3> SUFFICES ASSUME row.available PROVE row.unack = states[id].unack
      OBVIOUS
    <3>1. PICK one \in ids : Reflects(d, i, one, states)
      BY <1>1, <2>1
    <3>2. one = id
      BY <1>0, <2>1, <3>1 DEF Reflects, Shaped, Indexed
    <3> QED BY <3>1, <3>2 DEF Reflects
  <2> DEFINE latch == u.available /\ u.unack > 0 /\ ~(row.available /\ row.unack > 0)
  <2>6. after = IF latch THEN Append(latches, row.key) ELSE latches
    BY <1>3, <2>5
  <2>7. u.unack \in Nat /\ u.available \in BOOLEAN
    BY DEF Shows
  <2> HIDE DEF row
  <2>8. Outstanding(row) + (IF latch THEN 1 ELSE 0)
          = Analytics!One(Analytics!Ends(row, u)) + Outstanding(e.rows[i])
    <3>1. CASE row.available /\ row.unack > 0
      <4>1. CASE u.available /\ u.unack > 0
        BY <2>3, <2>4, <2>7, <3>1, <4>1 DEF Outstanding, Analytics!Ends, Analytics!One
      <4>2. CASE ~(u.available /\ u.unack > 0)
        BY <2>3, <2>4, <2>7, <3>1, <4>2 DEF Outstanding, Analytics!Ends, Analytics!One
      <4> QED BY <4>1, <4>2
    <3>2. CASE ~(row.available /\ row.unack > 0)
      <4>1. CASE u.available /\ u.unack > 0
        BY <2>3, <2>4, <2>7, <3>2, <4>1 DEF Outstanding, Analytics!Ends, Analytics!One
      <4>2. CASE ~(u.available /\ u.unack > 0)
        BY <2>3, <2>4, <2>7, <3>2, <4>2 DEF Outstanding, Analytics!Ends, Analytics!One
      <4> QED BY <4>1, <4>2
    <3> QED BY <3>1, <3>2
  <2>9. after \in Seq(Nat)
        /\ \A key : Lit(after, key) = Lit(latches, key) + (IF latch /\ row.key = key THEN 1 ELSE 0)
    <3>1. CASE latch
      <4>1. after = Append(latches, row.key)
        BY <2>6, <3>1
      <4> HIDE DEF latch
      <4> QED BY <2>4, <3>1, <4>1, LitAppended
    <3>2. CASE ~latch
      <4>1. after = latches
        BY <2>6, <3>2
      <4>2. \A key : Lit(latches, key) \in Nat
        BY LitFacts
      <4> HIDE DEF latch
      <4> QED BY <3>2, <4>1, <4>2
    <3> QED BY <3>1, <3>2
  <2>10. Given(e, after)
    <3>1. e.keys = d.keys
      BY <2>3 DEF Alike
    <3>2. CASE latch
      <4>1. after = Append(latches, row.key)
        BY <2>6, <3>2
      <4>2. \A k \in DOMAIN after : after[k] = row.key \/ (k \in DOMAIN latches /\ after[k] = latches[k])
        BY <2>4, <4>1, AppendProperties
      <4> QED BY <2>4, <3>1, <4>2 DEF Given
    <3>3. CASE ~latch
      BY <2>6, <3>1, <3>3 DEF Given
    <3> QED BY <3>2, <3>3
  <2>11. Accounted(e, after)
    <3>1. ASSUME NEW j \in DOMAIN e.rows
          PROVE  Lit(after, e.rows[j].key) = Told(e.rows[j]) + Outstanding(e.rows[j])
      <4>1. j \in DOMAIN d.rows /\ e.rows[j].key = d.rows[j].key
        BY <2>3 DEF Alike
      <4>2. Lit(latches, d.rows[j].key) = Told(d.rows[j]) + Outstanding(d.rows[j])
        BY <4>1 DEF Accounted
      <4>3. Lit(latches, d.rows[j].key) \in Nat
        BY LitFacts
      <4>4. CASE j = i
        <5>1. PICK o \in Int, l \in Int, a \in Int, p \in Int :
                /\ o = Outstanding(row) /\ l = IF latch THEN 1 ELSE 0
                /\ a = Analytics!One(Analytics!Ends(row, u)) /\ p = Outstanding(e.rows[i])
          BY DEF Outstanding, Analytics!One
        <5>2. o + l = a + p
          BY <2>8, <5>1
        <5>3. Lit(after, row.key) = Lit(latches, row.key) + l
          BY <2>9, <5>1
        <5>4. Lit(latches, row.key) = Told(row) + o
          BY <4>2, <4>4, <5>1 DEF row
        <5>5. Told(e.rows[i]) = Told(row) + a
          BY <2>3, <5>1
        <5>6. e.rows[j].key = row.key
          BY <4>1, <4>4 DEF row
        <5> HIDE DEF latch
        <5>7. Lit(after, row.key) = Told(row) + a + p
          <6>1. PICK told \in Int : told = Told(row)
            BY <2>4
          <6>2. told + o + l = told + a + p
            BY <5>2
          <6>3. Lit(after, row.key) = told + o + l
            BY <5>3, <5>4, <6>1
          <6> QED BY <6>1, <6>2, <6>3
        <5> QED BY <4>4, <5>1, <5>5, <5>6, <5>7
      <4>5. CASE j # i
        <5>1. e.rows[j] = d.rows[j]
          BY <2>3, <4>1, <4>5
        <5>2. row.key # d.rows[j].key
          BY <2>1, <4>1, <4>5 DEF Shaped, Indexed, row
        <5>3. Lit(after, d.rows[j].key) = Lit(latches, d.rows[j].key)
          BY <2>9, <4>3, <5>2
        <5> QED BY <4>2, <5>1, <5>3
      <4> QED BY <4>4, <4>5
    <3> QED BY <3>1 DEF Accounted
  <2>12. Reflected(e, ids, next)
    <3>1. ASSUME NEW j \in DOMAIN e.rows, e.rows[j].available
          PROVE  \E one \in ids : Reflects(e, j, one, next)
      <4>1. j \in DOMAIN d.rows /\ e.index = d.index
        BY <2>3 DEF Alike
      <4>2. CASE j = i
        <5>1. Reflects(e, j, id, next)
          BY <1>0, <2>1, <2>3, <4>1, <4>2 DEF Reflects, row
        <5> QED BY <5>1
      <4>3. CASE j # i
        <5>1. e.rows[j] = d.rows[j]
          BY <2>3, <4>1, <4>3
        <5>2. PICK one \in ids : Reflects(d, j, one, states)
          BY <1>1, <3>1, <4>1, <5>1
        <5>3. one # id /\ one \in Identities
          BY <4>3, <5>2 DEF Reflects
        <5> QED BY <1>0, <4>1, <5>1, <5>2, <5>3 DEF Reflects
      <4> QED BY <4>2, <4>3
    <3> QED BY <3>1 DEF Reflected
  <2>13. Shaped(e)
    BY <2>3, AlikeShaped
  <2> QED BY <2>9, <2>10, <2>11, <2>12, <2>13, Zenon
<1> QED BY <1>2, <1>3

(* A sequence of the elements of a set has each of them once.              *)
LEMMA ListFacts ==
  ASSUME NEW K, IsFiniteSet(K), NEW q, q = Analytics!SetToSeq(K)
  PROVE  /\ q \in Seq(K) /\ \A i, j \in DOMAIN q : q[i] = q[j] => i = j
         /\ \A key \in K : \E i \in DOMAIN q : q[i] = key
<1> DEFINE n == Cardinality(K)
<1>1. n \in Nat /\ ExistsBijection(1..n, K)
  BY FS_CardinalityType
<1>2. PICK f : f \in Bijection(1..n, K)
  BY <1>1 DEF ExistsBijection
<1>3. f \in [1..n -> K] /\ \A a, b \in DOMAIN f : f[a] = f[b] => a = b
  BY <1>2 DEF Bijection, Injection, IsInjective
<1>4. q = CHOOSE g \in [1..n -> K] : \A a, b \in DOMAIN g : g[a] = g[b] => a = b
  BY SameCardinality DEF Analytics!SetToSeq, Analytics!IsInjective
<1>5. q \in [1..n -> K] /\ \A a, b \in DOMAIN q : q[a] = q[b] => a = b
  BY <1>3, <1>4
<1>6. q \in Injection(1..n, K)
  BY <1>5 DEF Injection, IsInjective
<1>7. IsFiniteSet(1..n) /\ Cardinality(1..n) = n
  BY <1>1, FS_Interval
<1>8. q \in Surjection(1..n, K)
  BY <1>6, <1>7, FS_Injection
<1>9. \A key \in K : \E i \in DOMAIN q : q[i] = key
  BY <1>5, <1>8 DEF Surjection
<1> QED BY <1>1, <1>5, <1>9

(* New keys that are listed once are counted once.                         *)
Below(latches, keys) == \A k \in DOMAIN latches : latches[k] < keys
Above(K, keys) == IsFiniteSet(K) /\ K \subseteq Nat /\ \A key \in K : key >= keys

Joined(latches, K) == latches \o Analytics!SetToSeq(K)

(* Their count is one for each new key, whatever was listed before.        *)
LEMMA LitListed ==
  ASSUME NEW latches \in Seq(Nat), NEW keys \in Nat, Below(latches, keys), NEW K, Above(K, keys),
         NEW all, all = Joined(latches, K)
  PROVE  /\ all \in Seq(Nat)
         /\ \A k \in DOMAIN all : all[k] < keys \/ all[k] \in K
         /\ \A key \in Nat : key >= keys => Lit(all, key) = IF key \in K THEN 1 ELSE 0
<1> USE DEF Below, Above, Joined
<1> DEFINE q == Analytics!SetToSeq(K)
           n == Len(latches)
<1>1. /\ q \in Seq(K) /\ \A i, j \in DOMAIN q : q[i] = q[j] => i = j
      /\ \A key \in K : \E i \in DOMAIN q : q[i] = key
  BY ListFacts
<1> HIDE DEF q
<1>2. q \in Seq(Nat) /\ Len(q) \in Nat /\ DOMAIN q = 1..Len(q) /\ n \in Nat /\ DOMAIN latches = 1..n
  <2>1. Len(q) \in Nat /\ DOMAIN q = 1..Len(q) /\ \A i \in 1..Len(q) : q[i] \in K
    BY <1>1
  <2>2. q \in [1..Len(q) -> K]
    BY <1>1
  <2>3. q \in [1..Len(q) -> Nat]
    BY <2>1, <2>2
  <2>4. q \in Seq(Nat)
    <3>1. PICK m \in Nat : q \in [1..m -> Nat]
      BY <2>1, <2>3
    <3> QED BY <3>1
  <2> QED BY <2>1, <2>4
<1>3. /\ all \in Seq(Nat) /\ DOMAIN all = 1..n + Len(q)
      /\ \A k \in 1..n : all[k] = latches[k]
      /\ \A k \in n + 1 .. n + Len(q) : all[k] = q[k - n]
  <2>1. all = latches \o q
    BY DEF q
  <2> QED BY <1>2, <2>1, ConcatProperties
<1>4. \A k \in DOMAIN all : k \in 1..n \/ (k \in n + 1 .. n + Len(q) /\ k - n \in DOMAIN q)
  BY <1>2, <1>3
<1>5. \A k \in DOMAIN all : all[k] < keys \/ all[k] \in K
  <2> TAKE k \in DOMAIN all
  <2>1. CASE k \in 1..n
    BY <1>2, <1>3, <2>1
  <2>2. CASE k \in n + 1 .. n + Len(q) /\ k - n \in DOMAIN q
    BY <1>1, <1>3, <2>2
  <2> QED BY <1>4, <2>1, <2>2
<1>6. ASSUME NEW key \in Nat, key >= keys PROVE Lit(all, key) = IF key \in K THEN 1 ELSE 0
  <2> DEFINE places == {k \in DOMAIN all : all[k] = key}
  <2>1. \A k \in places : k \in n + 1 .. n + Len(q) /\ k - n \in DOMAIN q /\ q[k - n] = key
    <3> TAKE k \in places
    <3>1. k \notin 1..n
      <4> SUFFICES ASSUME k \in 1..n PROVE FALSE
        OBVIOUS
      <4>1. latches[k] = key /\ latches[k] < keys
        BY <1>2, <1>3
      <4> QED BY <1>6, <4>1
    <3> QED BY <1>3, <1>4, <3>1
  <2>2. CASE key \in K
    <3>1. PICK i \in DOMAIN q : q[i] = key
      BY <1>1, <2>2
    <3>2. i \in 1..Len(q) /\ n + i \in n + 1 .. n + Len(q) /\ (n + i) - n = i
      BY <1>2
    <3>3. n + i \in places
      BY <1>2, <1>3, <3>1, <3>2
    <3>4. \A k \in places : k = n + i
      <4> TAKE k \in places
      <4>1. k - n = i /\ k \in Int
        BY <1>1, <2>1, <3>1
      <4> QED BY <1>2, <4>1
    <3>5. places = {n + i}
      BY <3>3, <3>4
    <3>6. Cardinality(places) = 1
      <4> HIDE DEF places
      <4> QED BY <3>5, FS_Singleton
    <3> QED BY <2>2, <3>6 DEF Lit
  <2>3. CASE key \notin K
    <3>1. places = {}
      <4> SUFFICES ASSUME NEW k \in places PROVE FALSE
        OBVIOUS
      <4>1. q[k - n] \in K
        BY <1>1, <2>1
      <4> QED BY <2>1, <2>3, <4>1
    <3>2. Cardinality(places) = 0
      <4> HIDE DEF places
      <4> QED BY <3>1, FS_EmptySet
    <3> QED BY <2>3, <3>2 DEF Lit
  <2> QED BY <2>2, <2>3
<1> QED BY <1>3, <1>5, <1>6

(* What is known at the start of a session is observed anew.               *)
LEMMA FreshObserved ==
  ASSUME NEW n \in Int, NEW keys \in Nat, NEW t \in Int, NEW config,
         NEW states \in [Identities -> Shows], NEW cause, NEW d, NEW e,
         d = Analytics!Admitted(Analytics!Blank(n, keys, t), config, states, t),
         e = Analytics!ObserveAll(d, config, states, cause, t)
  PROVE  /\ Shaped(e) /\ Reflected(e, Analytics!Included(config), states) /\ e.keys >= keys
         /\ \A i \in DOMAIN e.rows : Told(e.rows[i]) = 0 /\ e.rows[i].key >= keys
<1> DEFINE blank == Analytics!Blank(n, keys, t)
<1>1. Shaped(blank) /\ blank \in Data /\ blank.keys = keys /\ DOMAIN blank.rows = {}
  BY BlankData DEF Shaped
<1>2. Shaped(d) /\ Unwatched(d) /\ Continues(blank, d) /\ d \in Data
  <2> HIDE DEF blank
  <2>1. d = Analytics!Admitted(blank, config, states, t)
    BY DEF blank
  <2>2. Shaped(d) /\ Unwatched(d) /\ Continues(blank, d)
    BY <1>1, <2>1, AdmittedContinues
  <2> QED BY <2>2 DEF Shaped
<1> HIDE DEF blank
<1>3. d.keys >= keys /\ \A i \in DOMAIN d.rows : Told(d.rows[i]) = 0 /\ d.rows[i].key >= keys
  <2>1. d.keys >= keys
    BY <1>1, <1>2 DEF Continues, Data
  <2>2. ASSUME NEW i \in DOMAIN d.rows PROVE Told(d.rows[i]) = 0 /\ d.rows[i].key >= keys
    <3>1. d.rows[i].key >= keys /\ Balance(d.rows[i]) = 0
      BY <1>1, <1>2 DEF Continues
    <3>2. Outstanding(d.rows[i]) = 0 /\ Told(d.rows[i]) \in Int
      BY <1>2, RowFacts, ToldInt DEF Outstanding, Unwatched
    <3> QED BY <3>1, <3>2 DEF Balance
  <2> QED BY <2>1, <2>2
<1>4. /\ e \in Data /\ Alike(d, e) /\ Reflected(e, Analytics!Included(config), states)
      /\ \A i \in DOMAIN d.rows : Told(e.rows[i]) = Told(d.rows[i])
  BY <1>2, ObservedAll
<1>5. Shaped(e)
  BY <1>2, <1>4, AlikeShaped
<1> QED BY <1>3, <1>4, <1>5 DEF Alike

(* The channels of a configuration are channels.                           *)
LEMMA IncludedIdentities == \A config : Analytics!Included(config) \subseteq Identities
  BY DEF Analytics!Included

(* WatchInv by its parts, before and after a step.                         *)
LEMMA WatchParts ==
  ASSUME WatchInv
  PROVE  Watched(data, truth.latches, configuration, live) /\ data \in Data
         /\ data.keys \in Nat /\ data.generation \in Int
  BY DEF WatchInv, Watched, Current, Shaped, Data

LEMMA WatchNext ==
  ASSUME Watched(data', truth'.latches, configuration', live'), live' \in [Identities -> Shows],
         now' \in Int, lastMono' \in Int, DOMAIN truth' = {"seen", "rises", "latches"}
  PROVE  WatchInv'
  BY DEF WatchInv, Watched, Current

(* Rows that none is watched of follow on from others.                     *)
LEMMA FollowsOn ==
  ASSUME NEW d, NEW e, NEW latches, NEW config, NEW states, NEW other, NEW changed,
         Watched(d, latches, config, states), Shaped(e), Continues(d, e), Unwatched(e)
  PROVE  Watched(e, latches, other, changed)
<1>1. d \in Data /\ e \in Data
  BY DEF Watched, Shaped
<1>2. Given(e, latches) /\ Accounted(e, latches)
  BY <1>1, ContinuesAccounts DEF Watched
<1> QED BY <1>2 DEF Watched, Unwatched, Reflected

(* checkClockLocked makes a gap of an interrupted interval, or leaves all. *)
LEMMA CheckedWatched ==
  ASSUME WatchInv
  PROVE  Watched(Analytics!Checked, truth.latches, configuration, live)
<1>1. CASE Analytics!Interrupted
  <2> DEFINE e == Analytics!Gap(data, lastMono)
  <2>1. Shaped(e) /\ Unwatched(e) /\ Continues(data, e)
    BY WatchParts, GapContinues DEF WatchInv
  <2> HIDE DEF e
  <2>2. Analytics!Checked = e
    BY <1>1 DEF Analytics!Checked, e
  <2> QED BY <2>1, <2>2, WatchParts, FollowsOn
<1>2. CASE ~Analytics!Interrupted
  BY <1>2, WatchParts DEF Analytics!Checked
<1> QED BY <1>1, <1>2

(* The analytics start with every channel of the document observed quiet.  *)
LEMMA QuietWatched == Analytics!Init => WatchInv
<1> SUFFICES ASSUME Analytics!Init PROVE WatchInv
  OBVIOUS
<1> DEFINE d == Analytics!Admitted(Analytics!Blank(1, 1, 0), configuration, live, 0)
           e == Analytics!ObserveAll(d, configuration, live, "Processed", 0)
<1>1. data = e /\ now = 0 /\ lastMono = 0
      /\ live = [id \in Identities |-> Analytics!Quiet]
      /\ truth = [seen |-> {}, rises |-> << >>, latches |-> << >>]
  BY DEF Analytics!Init
<1>2. live \in [Identities -> Shows]
  <2>1. Analytics!Quiet \in Shows
    BY DEF Analytics!Quiet, Shows
  <2> QED BY <1>1, <2>1
<1>3. /\ Shaped(e) /\ Reflected(e, Analytics!Included(configuration), live) /\ e.keys >= 1
      /\ \A i \in DOMAIN e.rows : Told(e.rows[i]) = 0 /\ e.rows[i].key >= 1
  BY <1>2, FreshObserved
<1> HIDE DEF e
<1>4. ASSUME NEW i \in DOMAIN e.rows
      PROVE  Lit(<< >>, e.rows[i].key) = Told(e.rows[i]) + Outstanding(e.rows[i])
  <2>1. Lit(<< >>, e.rows[i].key) = 0
    <3>1. {k \in DOMAIN << >> : << >>[k] = e.rows[i].key} = {}
      OBVIOUS
    <3> QED BY <3>1, FS_EmptySet DEF Lit
  <2>2. Outstanding(e.rows[i]) = 0
    <3>1. CASE e.rows[i].available
      <4>1. PICK id \in Analytics!Included(configuration) : Reflects(e, i, id, live)
        BY <1>3, <3>1 DEF Reflected
      <4>2. live[id].unack = 0
        BY <1>1, <4>1, IncludedIdentities DEF Analytics!Quiet
      <4> QED BY <4>1, <4>2 DEF Reflects, Outstanding
    <3>2. CASE ~e.rows[i].available
      BY <3>2 DEF Outstanding
    <3> QED BY <3>1, <3>2
  <2> QED BY <1>3, <2>1, <2>2
<1>5. Accounted(e, << >>) /\ Given(e, << >>)
  BY <1>4 DEF Accounted, Given
<1> QED BY <1>1, <1>2, <1>3, <1>5 DEF WatchInv, Current

(* A state change that the engine announces: the analytics observe it, the *)
(* environment lists the episode that it starts.                           *)
LEMMA ChangeWatched ==
  ASSUME WatchInv, NEW id \in Identities, NEW u \in Shows, NEW cause, Analytics!Change(id, u, cause)
  PROVE  WatchInv'
<1>1. /\ configuration.count[id] > 0 /\ live' = [live EXCEPT ![id] = u]
      /\ now' = now /\ configuration' = configuration
  BY DEF Analytics!Change
<1>2. /\ live \in [Identities -> Shows] /\ now \in Int /\ lastMono \in Int
      /\ DOMAIN truth = {"seen", "rises", "latches"}
  BY DEF WatchInv
<1>3. live' \in [Identities -> Shows]
  BY <1>1, <1>2
<1>4. CASE id \in configuration.excluded
  <2>1. data' = data /\ truth' = truth /\ lastMono' = lastMono
    BY <1>4 DEF Analytics!Change
  <2>2. \A one \in Analytics!Included(configuration) : live'[one] = live[one]
    BY <1>1, <1>2, <1>4 DEF Analytics!Included
  <2>3. Watched(data, truth.latches, configuration, live')
    BY <2>2, WatchParts DEF Watched, Reflected, Reflects
  <2> QED BY <1>1, <1>2, <1>3, <2>1, <2>3, WatchNext
<1>5. CASE id \notin configuration.excluded
  <2> DEFINE d == Analytics!Checked
             row == d.rows[d.index[id]]
             after == IF /\ u.available /\ u.unack > 0
                         /\ ~(row.available /\ live[id].unack > 0)
                         /\ Analytics!Watches(d, id)
                      THEN Append(truth.latches, row.key) ELSE truth.latches
  <2>1. /\ data' = Analytics!Observe(d, id, u, cause, now) /\ lastMono' = now
        /\ truth' = IF d.index[id] = 0 THEN [truth EXCEPT !.seen = @ \ Analytics!Forgotten]
                    ELSE Analytics!Heard(d, id, live[id], u, cause)
    BY <1>5 DEF Analytics!Change
  <2>2. truth'.latches = after /\ DOMAIN truth' = {"seen", "rises", "latches"}
    <3>1. CASE d.index[id] = 0
      BY <1>2, <2>1, <3>1 DEF Analytics!Watches
    <3>2. CASE d.index[id] # 0
      BY <2>1, <3>2 DEF Analytics!Heard
    <3> QED BY <3>1, <3>2
  <2>3. Watched(d, truth.latches, configuration, live)
    BY CheckedWatched
  <2>4. id \in Analytics!Included(configuration) /\ d \in Data
    BY <1>1, <1>5, <2>3 DEF Analytics!Included, Watched, Shaped
  <2> HIDE DEF d
  <2>5. Watched(data', after, configuration, live')
    <3>1. PICK e, l : e = data' /\ l = truth.latches
      OBVIOUS
    <3>2. after = HeardOf(d, id, u, live, l)
      BY <3>1 DEF HeardOf
    <3>3. Watched(d, l, configuration, live) /\ e = Analytics!Observe(d, id, u, cause, now)
      BY <2>1, <2>3, <3>1
    <3> HIDE DEF after
    <3>4. Watched(e, after, configuration, live')
      BY <1>1, <1>2, <2>4, <3>2, <3>3, HeardAccounted
    <3> QED BY <3>1, <3>4
  <2> HIDE DEF after
  <2> QED BY <1>1, <1>2, <1>3, <2>1, <2>2, <2>5, WatchNext
<1> QED BY <1>4, <1>5

(* A configuration change makes a gap, matches the rows and waits for      *)
(* news.                                                                   *)
LEMMA AttachWatched ==
  ASSUME WatchInv, NEW config, NEW another, Analytics!Attach(config, another)
  PROVE  WatchInv'
<1> DEFINE left0 == Analytics!Gap(data, now)
           d == IF another THEN Analytics!Blank(left0.generation + 1, left0.keys, now) ELSE left0
           unheard == [id \in Identities |-> Analytics!Unknown]
           e == Analytics!Admitted(d, config, unheard, now)
<1>0. now \in Int /\ DOMAIN truth = {"seen", "rises", "latches"}
  BY DEF WatchInv
<1>1. /\ configuration' = config /\ live' = unheard /\ lastMono' = now /\ now' = now /\ truth' = truth
      /\ \E kept \in Analytics!Retained(e, now) :
           data' = Analytics!TrimRecords(Analytics!Compact(e, kept), now)
  BY DEF Analytics!Attach
<1>2. unheard \in [Identities -> Shows]
  <2>1. Analytics!Unknown \in Shows
    BY DEF Analytics!Unknown, Shows
  <2> QED BY <2>1
<1>3. Watched(left0, truth.latches, configuration, live) /\ Unwatched(left0) /\ left0 \in Data
  <2>1. Shaped(left0) /\ Unwatched(left0) /\ Continues(data, left0)
    BY <1>0, WatchParts, GapContinues DEF Watched
  <2> HIDE DEF left0
  <2> QED BY <2>1, WatchParts, FollowsOn DEF Shaped
<1> HIDE DEF left0
<1>4. Watched(d, truth.latches, config, unheard) /\ Unwatched(d) /\ d \in Data
  <2>1. CASE another
    <3> DEFINE blank == Analytics!Blank(left0.generation + 1, left0.keys, now)
    <3>1. left0.generation + 1 \in Int /\ left0.keys \in Nat
      BY <1>3 DEF Data
    <3>2. Shaped(blank) /\ Unwatched(blank) /\ blank.keys = left0.keys /\ DOMAIN blank.rows = {}
      BY <1>0, <3>1, BlankData
    <3> HIDE DEF blank
    <3>3. Continues(left0, blank)
      BY <3>1, <3>2 DEF Continues
    <3>4. d = blank
      BY <2>1 DEF blank
    <3> HIDE DEF d
    <3> QED BY <1>3, <3>2, <3>3, <3>4, FollowsOn DEF Shaped
  <2>2. CASE ~another
    <3>1. d = left0
      BY <2>2
    <3>2. Reflected(left0, Analytics!Included(config), unheard)
      BY <1>3 DEF Unwatched, Reflected
    <3> HIDE DEF d
    <3> QED BY <1>3, <3>1, <3>2 DEF Watched
  <2> QED BY <2>1, <2>2
<1> HIDE DEF d
<1>5. Watched(e, truth.latches, config, unheard) /\ Unwatched(e) /\ Shaped(e)
  <2>1. Shaped(e) /\ Unwatched(e) /\ Continues(d, e)
    <3>1. Shaped(d)
      BY <1>4 DEF Watched
    <3> HIDE DEF unheard
    <3> QED BY <1>0, <1>2, <1>4, <3>1, AdmittedContinues
  <2> HIDE DEF e, unheard
  <2> QED BY <1>4, <2>1, FollowsOn
<1> HIDE DEF e
<1>6. PICK kept \in Analytics!Retained(e, now) :
        data' = Analytics!TrimRecords(Analytics!Compact(e, kept), now)
  BY <1>1
<1> DEFINE c == Analytics!Compact(e, kept)
<1>7. Shaped(c) /\ Unwatched(c) /\ Continues(e, c) /\ c \in Data
  <2>1. kept \in SUBSET Analytics!Retired(e) /\ e \in Data
    BY <1>5 DEF Analytics!Retained, Shaped
  <2>2. Shaped(c) /\ Unwatched(c) /\ Continues(e, c)
    BY <1>5, <2>1, CompactContinues
  <2> QED BY <2>2 DEF Shaped
<1> HIDE DEF c
<1>8. Watched(data', truth.latches, config, unheard)
  <2>1. PICK last : last = data'
    OBVIOUS
  <2>2. last = Analytics!TrimRecords(c, now)
    BY <1>6, <2>1 DEF c
  <2>3. Shaped(last) /\ Continues(c, last) /\ last.rows = c.rows
    BY <1>0, <1>7, <2>2, TrimContinues
  <2>4. Unwatched(last)
    BY <1>7, <2>3 DEF Unwatched
  <2>5. Watched(c, truth.latches, config, unheard)
    BY <1>5, <1>7, FollowsOn
  <2>6. Watched(last, truth.latches, config, unheard)
    BY <2>3, <2>4, <2>5, FollowsOn
  <2> QED BY <2>1, <2>6
<1> HIDE DEF unheard
<1> QED BY <1>0, <1>1, <1>2, <1>8, WatchNext

(* The timer looks at the clock, and drops records and removed rows.       *)
LEMMA PollWatched ==
  ASSUME WatchInv, Analytics!Poll
  PROVE  WatchInv'
<1> DEFINE c == Analytics!Checked
           d == Analytics!TrimRecords(c, now)
           expires == d.expiry # 0 /\ now >= d.expiry
<1>0. now \in Int /\ DOMAIN truth = {"seen", "rises", "latches"} /\ live \in [Identities -> Shows]
  BY DEF WatchInv
<1>1. /\ \E kept \in IF expires THEN Analytics!Retained(d, now) ELSE {Analytics!Retired(d)} :
           data' = IF expires THEN Analytics!Compact(d, kept) ELSE d
      /\ truth' = [truth EXCEPT !.seen = @ \ Analytics!Forgotten]
      /\ lastMono' = now /\ now' = now /\ live' = live /\ configuration' = configuration
  BY DEF Analytics!Poll
<1>2. truth'.latches = truth.latches /\ DOMAIN truth' = {"seen", "rises", "latches"}
  BY <1>0, <1>1
<1>3. Watched(c, truth.latches, configuration, live)
  BY CheckedWatched
<1> HIDE DEF c
<1>4. Watched(d, truth.latches, configuration, live) /\ d \in Data
  <2>1. c \in Data /\ Shaped(c)
    BY <1>3 DEF Watched, Shaped
  <2>2. Shaped(d) /\ Continues(c, d) /\ d.rows = c.rows /\ d.index = c.index
    BY <1>0, <2>1, TrimContinues
  <2> HIDE DEF d
  <2>3. d \in Data
    BY <2>2 DEF Shaped
  <2>4. Given(d, truth.latches) /\ Accounted(d, truth.latches)
    BY <1>3, <2>1, <2>2, <2>3, ContinuesAccounts DEF Watched
  <2>5. Reflected(d, Analytics!Included(configuration), live)
    BY <1>3, <2>2 DEF Watched, Reflected, Reflects
  <2> QED BY <1>3, <2>2, <2>3, <2>4, <2>5 DEF Watched
<1> HIDE DEF d
<1>5. Watched(data', truth.latches, configuration, live)
  <2>1. CASE expires
    <3>1. PICK kept \in Analytics!Retained(d, now), last \in {data'} : last = Analytics!Compact(d, kept)
      BY <1>1, <2>1
    <3>2. kept \in SUBSET Analytics!Retired(d) /\ Shaped(d)
      BY <1>4 DEF Analytics!Retained, Watched
    <3>3. /\ Shaped(last) /\ Continues(d, last)
          /\ \A ids, states : Reflected(d, ids, states) /\ ids \subseteq Identities
               => Reflected(last, ids, states)
      BY <1>4, <3>1, <3>2, CompactContinues
    <3>4. last \in Data
      BY <3>3 DEF Shaped
    <3>5. Given(last, truth.latches) /\ Accounted(last, truth.latches)
      BY <1>4, <3>3, <3>4, ContinuesAccounts DEF Watched
    <3>6. Reflected(last, Analytics!Included(configuration), live)
      BY <1>4, <3>3, IncludedIdentities DEF Watched
    <3> QED BY <1>4, <3>1, <3>3, <3>5, <3>6 DEF Watched
  <2>2. CASE ~expires
    BY <1>1, <1>4, <2>2
  <2> QED BY <2>1, <2>2
<1> QED BY <1>0, <1>1, <1>2, <1>5, WatchNext

(* A reset starts afresh with what is outstanding as new episodes.         *)
LEMMA ResetWatched ==
  ASSUME WatchInv, Analytics!Reset
  PROVE  WatchInv'
<1> DEFINE d == Analytics!Admitted(Analytics!Blank(data.generation + 1, data.keys, now), configuration, live, now)
           e == Analytics!ObserveAll(d, configuration, live, "Suppression", now)
           ids == Analytics!Included(configuration)
           lit == {id \in ids : Analytics!Watching(e, id) /\ live[id].unack > 0}
           K == {e.rows[e.index[id]].key : id \in lit}
           all == truth.latches \o Analytics!SetToSeq(K)
<1>0. /\ now \in Int /\ DOMAIN truth = {"seen", "rises", "latches"} /\ live \in [Identities -> Shows]
      /\ data.generation + 1 \in Int /\ data.keys \in Nat /\ truth.latches \in Seq(Nat)
      /\ \A k \in DOMAIN truth.latches : truth.latches[k] < data.keys
  BY WatchParts DEF WatchInv, Given
<1>1. /\ data' = e /\ truth' = [truth EXCEPT !.latches = all]
      /\ lastMono' = now /\ now' = now /\ live' = live /\ configuration' = configuration
  BY DEF Analytics!Reset
<1>2. truth'.latches = all /\ DOMAIN truth' = {"seen", "rises", "latches"}
  <2> HIDE DEF all
  <2> QED BY <1>0, <1>1
<1>3. /\ Shaped(e) /\ Reflected(e, ids, live) /\ e.keys >= data.keys
      /\ \A i \in DOMAIN e.rows : Told(e.rows[i]) = 0 /\ e.rows[i].key >= data.keys
  <2> HIDE DEF K, all, lit
  <2> QED BY <1>0, FreshObserved
<1> HIDE DEF e
<1>4. \A id \in lit : /\ id \in Identities /\ e.index[id] \in DOMAIN e.rows /\ e.rows[e.index[id]].available
  <2> TAKE id \in lit
  <2>1. id \in Identities /\ Analytics!Watches(e, id) /\ e.rows[e.index[id]].available
    BY IncludedIdentities DEF Analytics!Watching
  <2>2. e.index[id] \in 0..Len(e.rows) /\ e.index[id] # 0 /\ e.rows \in Seq(Rows)
    BY <1>3, <2>1 DEF Analytics!Watches, Shaped, Indexed, Data
  <2> QED BY <2>1, <2>2
<1>5. \A i \in DOMAIN e.rows : e.rows[i].key \in Nat /\ e.rows[i].key < e.keys
  BY <1>3, RowFacts DEF Shaped, Indexed, Rows
<1>6. IsFiniteSet(K) /\ K \subseteq Nat /\ \A key \in K : key >= data.keys /\ key < e.keys
  <2>1. IsFiniteSet(lit)
    BY AnalyticsAssumption, IncludedIdentities, FS_Subset
  <2> DEFINE f == [id \in lit |-> e.rows[e.index[id]].key]
  <2>2. K = {f[id] : id \in lit}
    OBVIOUS
  <2>3. IsFiniteSet({f[id] : id \in lit})
    <3> HIDE DEF f, lit
    <3> QED BY <2>1, FiniteImage
  <2>4. \A key \in K : key \in Nat /\ key >= data.keys /\ key < e.keys
    BY <1>3, <1>4, <1>5
  <2> QED BY <2>2, <2>3, <2>4
<1>7. /\ all \in Seq(Nat)
      /\ \A k \in DOMAIN all : all[k] < data.keys \/ all[k] \in K
      /\ \A key \in Nat : key >= data.keys => Lit(all, key) = IF key \in K THEN 1 ELSE 0
  <2> HIDE DEF K
  <2>1. PICK l \in Seq(Nat), n \in Nat, a \in {all} : l = truth.latches /\ n = data.keys
    BY <1>0
  <2>2. /\ Below(l, n) /\ Above(K, n)
        /\ a = Joined(l, K)
    BY <1>0, <1>6, <2>1 DEF Below, Above, Joined
  <2> HIDE DEF all
  <2>3. /\ a \in Seq(Nat)
        /\ \A k \in DOMAIN a : a[k] < n \/ a[k] \in K
        /\ \A key \in Nat : key >= n => Lit(a, key) = IF key \in K THEN 1 ELSE 0
    BY <2>2, LitListed
  <2> QED BY <2>1, <2>3
<1> HIDE DEF all
<1>8. Given(e, all)
  <2>1. e.keys \in Nat
    BY <1>3 DEF Shaped, Data
  <2>2. \A k \in DOMAIN all : all[k] \in Nat
    BY <1>7
  <2> HIDE DEF K
  <2> QED BY <1>0, <1>3, <1>6, <1>7, <2>1, <2>2 DEF Given
<1>9. Accounted(e, all)
  <2>1. ASSUME NEW i \in DOMAIN e.rows
        PROVE  Lit(all, e.rows[i].key) = Told(e.rows[i]) + Outstanding(e.rows[i])
    <3> DEFINE row == e.rows[i]
    <3>1. CASE row.available /\ row.unack > 0
      <4>1. PICK id \in ids : Reflects(e, i, id, live)
        BY <1>3, <3>1 DEF Reflected
      <4>2. i # 0 /\ Analytics!Watching(e, id) /\ id \in lit
        <5>1. i # 0
          BY <1>3, RowFacts DEF Shaped
        <5> QED BY <3>1, <4>1, <5>1 DEF Reflects, Analytics!Watching, Analytics!Watches
      <4>3. row.key \in K
        BY <4>1, <4>2 DEF Reflects
      <4> HIDE DEF K
      <4> QED BY <1>3, <1>5, <1>7, <3>1, <4>3 DEF Outstanding
    <3>2. CASE ~(row.available /\ row.unack > 0)
      <4>1. row.key \notin K
        <5> SUFFICES ASSUME row.key \in K PROVE FALSE
          OBVIOUS
        <5>1. PICK id \in lit : row.key = e.rows[e.index[id]].key
          OBVIOUS
        <5>2. e.index[id] = i /\ row.available
          BY <1>3, <1>4, <5>1 DEF Shaped, Indexed
        <5>3. PICK one \in ids : Reflects(e, i, one, live)
          BY <1>3, <5>2 DEF Reflected
        <5>4. one = id
          BY <1>3, <1>4, <5>2, <5>3, IncludedIdentities, RowFacts DEF Reflects, Shaped, Indexed
        <5> QED BY <3>2, <5>2, <5>3, <5>4 DEF Reflects
      <4> HIDE DEF K
      <4> QED BY <1>3, <1>5, <1>7, <3>2, <4>1 DEF Outstanding
    <3> QED BY <3>1, <3>2
  <2> QED BY <2>1 DEF Accounted
<1>10. Watched(data', truth'.latches, configuration', live')
  BY <1>1, <1>2, <1>3, <1>7, <1>8, <1>9 DEF Watched
<1> QED BY <1>0, <1>1, <1>2, <1>10, WatchNext

(* Steps that leave the rows and what the engine knows alone.              *)
LEMMA SameWatched ==
  ASSUME WatchInv, UNCHANGED <<live, configuration, data>>,
         truth'.latches = truth.latches, DOMAIN truth' = DOMAIN truth, now' \in Int, lastMono' \in Int
  PROVE  WatchInv'
<1>1. Watched(data', truth'.latches, configuration', live')
  BY WatchParts DEF Watched
<1> QED BY <1>1, WatchNext DEF WatchInv

(* The two ways an operation rewrites what the engine says of a channel:   *)
(* a sample or a lost channel, and a suppression that clears or restores   *)
(* the alarm.                                                              *)
Sampled(v, a, s, n) == [v EXCEPT !.initialized = TRUE, !.available = a, !.severity = s, !.unack = n]

Recolored(v, s, n) == [v EXCEPT !.severity = s, !.unack = n]

(* Both leave a shown state of a channel.                                  *)
LEMMA SampledShows ==
  ASSUME NEW v \in Shows, NEW a \in BOOLEAN, NEW s \in Int, NEW n \in Nat
  PROVE  Sampled(v, a, s, n) \in Shows /\ Recolored(v, s, n) \in Shows
  BY DEF Sampled, Recolored, Shows

(* Every step of the analytics keeps the invariant.                        *)
LEMMA StepWatched == WatchInv /\ [Analytics!Next]_analyticsVars => WatchInv'
<1> SUFFICES ASSUME WatchInv, [Analytics!Next]_analyticsVars PROVE WatchInv'
  OBVIOUS
<1>0. /\ now \in Int /\ lastMono \in Int /\ live \in [Identities -> Shows]
      /\ DOMAIN truth = {"seen", "rises", "latches"}
  BY DEF WatchInv
<1>1. CASE Analytics!Advance
  <2>1. /\ now' = now + 1 /\ UNCHANGED <<live, configuration, data, lastMono>>
        /\ truth'.latches = truth.latches /\ DOMAIN truth' = DOMAIN truth
    BY <1>0, <1>1 DEF Analytics!Advance
  <2> QED BY <1>0, <2>1, SameWatched
<1>2. CASE Analytics!SetWallClock
  <2>1. UNCHANGED <<now, live, configuration, data, lastMono, truth>>
    BY <1>2 DEF Analytics!SetWallClock
  <2> QED BY <1>0, <2>1, SameWatched
<1>3. ASSUME NEW id \in Identities, Analytics!ProcessEvent(id) PROVE WatchInv'
  <2>1. PICK s \in {0, 2} :
          Analytics!Change(id, [live[id] EXCEPT !.initialized = TRUE, !.available = TRUE, !.severity = s,
                !.unack = IF s > 0 /\ (live[id].severity = 0 \/ ~live[id].initialized) THEN 1 ELSE @],
                "Processed")
    BY <1>3 DEF Analytics!ProcessEvent
  <2> DEFINE n == IF s > 0 /\ (live[id].severity = 0 \/ ~live[id].initialized) THEN 1 ELSE live[id].unack
             u == [live[id] EXCEPT !.initialized = TRUE, !.available = TRUE, !.severity = s, !.unack = n]
  <2>2. live[id] \in Shows
    BY <1>0
  <2>3. n \in Nat
    BY <2>2 DEF Shows
  <2>4. Analytics!Change(id, u, "Processed")
    BY <2>1
  <2> HIDE DEF n
  <2>5. u \in Shows
    <3>1. u = Sampled(live[id], TRUE, s, n)
      BY DEF Sampled
    <3>2. s \in Int
      OBVIOUS
    <3> HIDE DEF u
    <3> QED BY <2>2, <2>3, <3>1, <3>2, SampledShows
  <2> HIDE DEF u
  <2> QED BY <2>4, <2>5, ChangeWatched
<1>4. ASSUME NEW id \in Identities, Analytics!Disconnect(id) PROVE WatchInv'
  <2> DEFINE u == [live[id] EXCEPT !.initialized = TRUE, !.available = FALSE, !.severity = 4, !.unack = 1]
  <2>1. Analytics!Change(id, u, "Processed")
    BY <1>4 DEF Analytics!Disconnect
  <2>2. u \in Shows
    <3>1. u = Sampled(live[id], FALSE, 4, 1) /\ live[id] \in Shows
      BY <1>0 DEF Sampled
    <3>2. 4 \in Int /\ 1 \in Nat /\ FALSE \in BOOLEAN
      OBVIOUS
    <3>3. Sampled(live[id], FALSE, 4, 1) \in Shows
      BY <3>1, <3>2, SampledShows, Zenon
    <3> HIDE DEF u
    <3> QED BY <3>1, <3>3
  <2> HIDE DEF u
  <2> QED BY <2>1, <2>2, ChangeWatched
<1>5. ASSUME NEW id \in Identities, Analytics!Acknowledge(id) PROVE WatchInv'
  <2> DEFINE u == [live[id] EXCEPT !.unack = 0]
  <2>1. Analytics!Change(id, u, "Acknowledgement")
    BY <1>5 DEF Analytics!Acknowledge
  <2>2. u \in Shows
    BY <1>0 DEF Shows
  <2> HIDE DEF u
  <2> QED BY <2>1, <2>2, ChangeWatched
<1>6. ASSUME NEW id \in Identities, Analytics!Suppress(id) PROVE WatchInv'
  <2>1. PICK w \in {live[id], [live[id] EXCEPT !.severity = 0, !.unack = 0]} :
          Analytics!Change(id, [w EXCEPT !.suppressed = TRUE], "Suppression")
    BY <1>6 DEF Analytics!Suppress
  <2> DEFINE u == [w EXCEPT !.suppressed = TRUE]
  <2>2. w \in Shows
    <3>1. live[id] \in Shows /\ (w = live[id] \/ w = Recolored(live[id], 0, 0))
      BY <1>0 DEF Recolored
    <3>2. 0 \in Int /\ 0 \in Nat /\ TRUE \in BOOLEAN
      OBVIOUS
    <3>3. Recolored(live[id], 0, 0) \in Shows
      BY <3>1, <3>2, SampledShows, Zenon
    <3> QED BY <3>1, <3>3
  <2>3. u \in Shows
    BY <2>2 DEF Shows
  <2> HIDE DEF u
  <2> QED BY <2>1, <2>3, ChangeWatched DEF u
<1>7. ASSUME NEW id \in Identities, Analytics!Unsuppress(id) PROVE WatchInv'
  <2>1. PICK w \in {live[id], [live[id] EXCEPT !.severity = 2, !.unack = 1]} :
          Analytics!Change(id, [w EXCEPT !.suppressed = FALSE], "Suppression")
    BY <1>7 DEF Analytics!Unsuppress
  <2> DEFINE u == [w EXCEPT !.suppressed = FALSE]
  <2>2. w \in Shows
    <3>1. live[id] \in Shows /\ (w = live[id] \/ w = Recolored(live[id], 2, 1))
      BY <1>0 DEF Recolored
    <3>2. 2 \in Int /\ 1 \in Nat /\ TRUE \in BOOLEAN
      OBVIOUS
    <3>3. Recolored(live[id], 2, 1) \in Shows
      BY <3>1, <3>2, SampledShows, Zenon
    <3> QED BY <3>1, <3>3
  <2>3. u \in Shows
    BY <2>2 DEF Shows
  <2> HIDE DEF u
  <2> QED BY <2>1, <2>3, ChangeWatched DEF u
<1>8. ASSUME NEW config \in budget.configurations, NEW another \in budget.others,
             Analytics!Attach(config, another)
      PROVE  WatchInv'
  BY <1>8, AttachWatched
<1>9. CASE Analytics!Reset
  BY <1>9, ResetWatched
<1>10. CASE Analytics!Request
  <2>1. UNCHANGED <<now, live, configuration, data, lastMono, truth>>
    BY <1>10 DEF Analytics!Request
  <2> QED BY <1>0, <2>1, SameWatched
<1>11. CASE Analytics!Store
  <2>1. UNCHANGED <<now, live, configuration, data, lastMono, truth>>
    BY <1>11 DEF Analytics!Store
  <2> QED BY <1>0, <2>1, SameWatched
<1>12. CASE Analytics!Poll
  BY <1>12, PollWatched
<1>13. CASE UNCHANGED analyticsVars
  <2>1. UNCHANGED <<now, live, configuration, data, lastMono, truth>>
    BY <1>13 DEF analyticsVars
  <2> QED BY <1>0, <2>1, SameWatched
<1> QED BY <1>1, <1>2, <1>3, <1>4, <1>5, <1>6, <1>7, <1>8, <1>9, <1>10, <1>11, <1>12, <1>13
        DEF Analytics!Next

(* So it holds throughout, and is what the balance of episodes needs.      *)
LEMMA WatchInvariant == Analytics!Spec => []WatchInv
<1>1. WatchInv /\ [Analytics!Next]_(Analytics!vars) => WatchInv'
  BY StepWatched DEF Analytics!vars, analyticsVars
<1> QED BY QuietWatched, <1>1, PTL DEF Analytics!Spec

LEMMA WatchAccounts == WatchInv => EpisodesAccounted
<1> SUFFICES ASSUME WatchInv, NEW i \in DOMAIN data.rows
             PROVE  Analytics!Cardinality({k \in DOMAIN truth.latches : truth.latches[k] = data.rows[i].key})
                      = Analytics!Added(data.rows[i].totals[TRUE], data.rows[i].totals[FALSE]).acks
                        + Analytics!Added(data.rows[i].totals[TRUE], data.rows[i].totals[FALSE]).incomplete
                        + Analytics!One(data.rows[i].available /\ data.rows[i].unack > 0)
  BY DEF EpisodesAccounted, Analytics!EpisodesAccounted
<1> DEFINE row == data.rows[i]
           sum == Analytics!Added(row.totals[TRUE], row.totals[FALSE])
<1>1. Analytics!Cardinality({k \in DOMAIN truth.latches : truth.latches[k] = row.key}) = Told(row) + Outstanding(row)
  BY SameCardinality DEF WatchInv, Accounted, Lit
<1>2. row \in Rows
  BY RowFacts DEF WatchInv, Shaped
<1>3. row.totals[TRUE] \in Amounts /\ row.totals[FALSE] \in Amounts
  BY <1>2 DEF Rows
<1>4. PICK a \in Int, b \in Int, c \in Int, e \in Int :
        /\ a = row.totals[TRUE].acks /\ b = row.totals[FALSE].acks
        /\ c = row.totals[TRUE].incomplete /\ e = row.totals[FALSE].incomplete
  BY <1>3 DEF Amounts
<1>5. sum.acks = a + b /\ sum.incomplete = c + e
  BY <1>4 DEF Analytics!Added, Analytics!Stats
<1>6. Told(row) = a + b + c + e
  BY <1>4 DEF Told
<1>7. Analytics!One(row.available /\ row.unack > 0) = Outstanding(row) /\ Outstanding(row) \in Int
  BY DEF Analytics!One, Outstanding
<1> HIDE DEF row, sum
<1>8. Told(row) + Outstanding(row) = sum.acks + sum.incomplete + Outstanding(row)
  BY <1>5, <1>6, <1>7
<1> QED BY <1>1, <1>7, <1>8 DEF row, sum

(* Every alarm that was watched becoming unacknowledged ended in a sample  *)
(* of the acknowledgement times or in an incomplete one, or is still       *)
(* outstanding.                                                            *)
THEOREM EpisodesBalance == Analytics!Spec => []EpisodesAccounted
  BY WatchInvariant, WatchAccounts, PTL
=============================================================================
