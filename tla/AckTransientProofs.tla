-------------------------- MODULE AckTransientProofs --------------------------
(***************************************************************************)
(* Proof that the setting ACKT of a record follows the newest request, and *)
(* the rows that show it follow the record, for every set of rows and      *)
(* every number of requests, other clients and lost connections.           *)
(***************************************************************************)
EXTENDS AckTransient, TLAPS

Forces == {NoForce} \cup [value : Bits, row : Rows, request : Nat]

Types ==
  /\ ioc \in [bit : Bits, online : BOOLEAN, puts : Seq(Bits), others : Nat, breaks : Nat]
  /\ feed \in [Rows -> Seq(Bits)]
  /\ row \in [Rows -> [mask : Bits, observed : BOOLEAN, cancelled : BOOLEAN]]
  /\ ackt \in [accepted : Bits \cup {None}, confirmedBy : SUBSET Rows,
               observed : Bits \cup {None}, force : Forces, requests : Nat]
  /\ readOnly \in BOOLEAN
  /\ history \in [wanted : Bits, others : BOOLEAN, reversed : BOOLEAN, misled : BOOLEAN]

(* What is on its way to a monitored row ends with the bit of the record.  *)
Newest ==
  \A r \in Rows :
    /\ ioc.online /\ feed[r] # <<>> => feed[r][Len(feed[r])] = ioc.bit
    /\ row[r].cancelled \/ ~ioc.online => feed[r] = <<>>

(* A row that differs from the record will be told of a change: a write on *)
(* its way changes the record.                                             *)
Corrected ==
  ~history.misled => \A r \in Rows :
    Monitored(r) /\ feed[r] = <<>> /\ row[r].mask # ioc.bit =>
      \E i \in 1..Len(ioc.puts) : ioc.puts[i] # ioc.bit

(* The observation that is kept is shown by a row.                         *)
Shows == ackt.observed # None => \E r \in Rows : row[r].mask = ackt.observed

(* A write that no observation followed is what the record will hold,      *)
(* unless an observation is on its way.                                    *)
Unobserved ==
  ackt.accepted # None /\ ackt.observed = None =>
    \A r \in Rows : Monitored(r) /\ feed[r] = <<>> => Result = ackt.accepted

AcceptedWins == ~history.others /\ ackt.accepted # None => Result = ackt.accepted

(* Before the first write nothing differs from the record.                 *)
Untouched ==
  ~Disputed /\ ackt.accepted = None =>
    /\ ioc.puts = <<>> /\ ackt.observed \in {None, ioc.bit} /\ history.wanted = ioc.bit
    /\ \A r \in Rows : \A i \in 1..Len(feed[r]) : feed[r][i] = ioc.bit
    /\ \A r \in Rows : row[r].observed => ackt.observed # None

(* Without a dispute all that is written is the accepted bit, and a row    *)
(* that observed it observes nothing else.                                 *)
InOrder ==
  ~Disputed /\ ackt.accepted # None =>
    /\ \A i \in 1..Len(ioc.puts) : ioc.puts[i] = ackt.accepted
    /\ \A r \in Rows : \A i, j \in 1..Len(feed[r]) :
         i < j /\ feed[r][i] = ackt.accepted => feed[r][j] = ackt.accepted
    /\ ioc.bit # ackt.accepted =>
         \A r \in Rows : \A i \in 1..Len(feed[r]) : feed[r][i] # ackt.accepted
    /\ \A r \in ackt.confirmedBy :
         /\ ioc.bit = ackt.accepted
         /\ \A i \in 1..Len(feed[r]) : feed[r][i] = ackt.accepted

(* A deferred force is the newest request.                                 *)
ForceNewest == ackt.force # NoForce => ackt.force.request = ackt.requests

Followed ==
  /\ Newest /\ Corrected /\ Shows /\ Unobserved /\ AcceptedWins
  /\ Untouched /\ InOrder /\ ForceNewest /\ NewestRequestWins

FollowInv == Types /\ Followed

LEMMA InitFollowed == Init => FollowInv
<1> SUFFICES ASSUME Init PROVE FollowInv
  OBVIOUS
<1>1. PICK b \in Bits :
        /\ ioc = [bit |-> b, online |-> TRUE, puts |-> <<>>, others |-> 0, breaks |-> 0]
        /\ feed = [r \in Rows |-> <<b>>]
        /\ history = [wanted |-> b, others |-> FALSE, reversed |-> FALSE, misled |-> FALSE]
  BY DEF Init
<1>2. PICK configured \in [Rows -> Bits] :
        row = [r \in Rows |-> [mask |-> configured[r], observed |-> FALSE, cancelled |-> FALSE]]
  BY DEF Init
<1>3. /\ ackt = [accepted |-> None, confirmedBy |-> {}, observed |-> None,
                 force |-> NoForce, requests |-> 0]
      /\ readOnly \in BOOLEAN
  BY DEF Init
<1>4. /\ \A r \in Rows : feed[r] = <<b>> /\ feed[r] # <<>> /\ Len(feed[r]) = 1 /\ feed[r][1] = b
      /\ \A r \in Rows : ~row[r].observed /\ ~row[r].cancelled
  BY <1>1, <1>2
<1>5. Types
  BY <1>1, <1>2, <1>3 DEF Types, Forces
<1>6. ioc.online /\ ioc.bit = b /\ ioc.puts = <<>> /\ history.wanted = b
  BY <1>1
<1>7. ackt.accepted = None /\ ackt.observed = None /\ ackt.force = NoForce
  BY <1>3
<1>8. Newest
  BY <1>4, <1>6 DEF Newest
<1>9. Corrected
  BY <1>4 DEF Corrected
<1>10. Untouched
  BY <1>4, <1>6, <1>7 DEF Untouched
<1>11. Shows /\ Unobserved /\ AcceptedWins /\ InOrder /\ ForceNewest /\ NewestRequestWins
  BY <1>6, <1>7
     DEF Shows, Unobserved, AcceptedWins, InOrder, ForceNewest, NewestRequestWins, Result
<1> QED BY <1>5, <1>8, <1>9, <1>10, <1>11 DEF FollowInv, Followed

LEMMA Following == FollowInv => RowsFollowRequests
<1> SUFFICES ASSUME FollowInv PROVE RowsFollowRequests
  OBVIOUS
<1>1. ASSUME Quiet, ioc.online, ~history.misled, NEW r \in Rows, ~row[r].cancelled
      PROVE  row[r].mask = ioc.bit
  <2>1. Monitored(r) /\ feed[r] = <<>> /\ Len(ioc.puts) = 0
    BY <1>1 DEF Monitored, Quiet
  <2> QED BY <1>1, <2>1 DEF FollowInv, Followed, Corrected
<1> QED BY <1>1 DEF RowsFollowRequests, RowsSettle, FollowInv, Followed

(* One more value, and the first one taken.                                *)
LEMMA Appended ==
  ASSUME NEW s \in Seq(Bits), NEW b \in Bits
  PROVE  /\ Append(s, b) \in Seq(Bits) /\ Append(s, b) # <<>>
         /\ Append(s, b)[Len(Append(s, b))] = b
         /\ \A i \in 1..Len(s) : i \in 1..Len(Append(s, b)) /\ Append(s, b)[i] = s[i]
         /\ \A i \in 1..Len(Append(s, b)) :
              \/ i \in 1..Len(s) /\ Append(s, b)[i] = s[i]
              \/ i = Len(s) + 1 /\ Append(s, b)[i] = b
         /\ \E i \in 1..Len(Append(s, b)) : Append(s, b)[i] = b
<1>1. Len(Append(s, b)) = Len(s) + 1 /\ Append(s, b)[Len(s) + 1] = b /\ Len(s) \in Nat
  OBVIOUS
<1>2. Len(s) + 1 \in 1..Len(Append(s, b))
  BY <1>1
<1> QED BY <1>1, <1>2

LEMMA FirstTaken ==
  ASSUME NEW s \in Seq(Bits), s # <<>>
  PROVE  /\ Tail(s) \in Seq(Bits) /\ Head(s) \in Bits /\ Head(s) = s[1] /\ 1 \in 1..Len(s)
         /\ \A i \in 1..Len(Tail(s)) : i + 1 \in 1..Len(s) /\ Tail(s)[i] = s[i + 1]
         /\ \A i \in 1..Len(s) :
              i = 1 \/ (i > 1 /\ \E j \in 1..Len(Tail(s)) : i = j + 1 /\ Tail(s)[j] = s[i])
         /\ Tail(s) = <<>> => s[Len(s)] = s[1]
         /\ Tail(s) # <<>> => Tail(s)[Len(Tail(s))] = s[Len(s)]
<1>1. Len(s) \in Nat /\ Len(s) > 0 /\ Len(Tail(s)) = Len(s) - 1
  OBVIOUS
<1>2. \A i \in 1..Len(Tail(s)) : i + 1 \in 1..Len(s) /\ Tail(s)[i] = s[i + 1]
  BY <1>1
<1>3. ASSUME NEW i \in 1..Len(s), i # 1
      PROVE  i > 1 /\ \E j \in 1..Len(Tail(s)) : i = j + 1 /\ Tail(s)[j] = s[i]
  <2>1. i - 1 \in 1..Len(Tail(s)) /\ i = (i - 1) + 1 /\ i > 1
    BY <1>1, <1>3
  <2> QED BY <1>2, <2>1
<1>4. Tail(s) = <<>> => s[Len(s)] = s[1]
  <2> SUFFICES ASSUME Tail(s) = <<>> PROVE Len(s) = 1
    OBVIOUS
  <2>1. Len(<<>>) = 0
    OBVIOUS
  <2> QED BY <1>1, <2>1
<1>5. ASSUME Tail(s) # <<>> PROVE Tail(s)[Len(Tail(s))] = s[Len(s)]
  <2>1. Len(Tail(s)) \in 1..Len(Tail(s)) /\ Len(Tail(s)) + 1 = Len(s)
    BY <1>1, <1>5
  <2> QED BY <1>2, <2>1
<1> QED BY <1>1, <1>2, <1>3, <1>4, <1>5
-----------------------------------------------------------------------------
(***************************************************************************)
(* The record and its connection.                                          *)
(***************************************************************************)
LEMMA PostedFeeds ==
  ASSUME Types, Newest, NEW b \in Bits, Posted(b), ioc'.bit = b,
         ioc'.online = ioc.online, UNCHANGED row
  PROVE  /\ feed' \in [Rows -> Seq(Bits)] /\ Newest'
         /\ \A r \in Rows :
              /\ Monitored(r)' = Monitored(r)
              /\ b = ioc.bit => feed'[r] = feed[r]
              /\ Monitored(r) /\ b # ioc.bit => feed'[r] # <<>>
              /\ \A i \in 1..Len(feed'[r]) :
                   \/ i \in 1..Len(feed[r]) /\ feed'[r][i] = feed[r][i]
                   \/ i = Len(feed[r]) + 1 /\ feed'[r][i] = b
<1>1. \A r \in Rows : feed[r] \in Seq(Bits)
  BY DEF Types
<1>2. feed' = [r \in Rows |-> IF Monitored(r) /\ b # ioc.bit THEN Append(feed[r], b) ELSE feed[r]]
  BY DEF Posted
<1>3. feed' \in [Rows -> Seq(Bits)]
  BY <1>1, <1>2
<1>4. \A r \in Rows : Monitored(r)' = Monitored(r)
  BY DEF Monitored
<1>5. ASSUME NEW r \in Rows
      PROVE  /\ b = ioc.bit => feed'[r] = feed[r]
             /\ Monitored(r) /\ b # ioc.bit => feed'[r] # <<>>
             /\ \A i \in 1..Len(feed'[r]) :
                   \/ i \in 1..Len(feed[r]) /\ feed'[r][i] = feed[r][i]
                   \/ i = Len(feed[r]) + 1 /\ feed'[r][i] = b
             /\ ioc'.online /\ feed'[r] # <<>> => feed'[r][Len(feed'[r])] = b
             /\ row'[r].cancelled \/ ~ioc'.online => feed'[r] = <<>>
  <2>1. CASE Monitored(r) /\ b # ioc.bit
    <3>1. feed'[r] = Append(feed[r], b)
      BY <1>2, <2>1
    <3>2. /\ Append(feed[r], b) # <<>>
          /\ Append(feed[r], b)[Len(Append(feed[r], b))] = b
          /\ \A i \in 1..Len(Append(feed[r], b)) :
               \/ i \in 1..Len(feed[r]) /\ Append(feed[r], b)[i] = feed[r][i]
               \/ i = Len(feed[r]) + 1 /\ Append(feed[r], b)[i] = b
      BY <1>1, Appended
    <3> QED BY <2>1, <3>1, <3>2 DEF Monitored
  <2>2. CASE ~(Monitored(r) /\ b # ioc.bit)
    <3>1. feed'[r] = feed[r]
      BY <1>2, <2>2
    <3> QED BY <2>2, <3>1 DEF Newest, Monitored
  <2> QED BY <2>1, <2>2
<1>6. Newest'
  BY <1>5 DEF Newest
<1> QED BY <1>3, <1>4, <1>5, <1>6

LEMMA ApplyFollowed ==
  ASSUME FollowInv, Apply
  PROVE  FollowInv'
<1>1. Types /\ Followed
  BY DEF FollowInv
<1>2. /\ ioc.puts # <<>> /\ Posted(Head(ioc.puts))
      /\ ioc' = [ioc EXCEPT !.bit = Head(ioc.puts), !.puts = Tail(@)]
      /\ UNCHANGED <<row, ackt, readOnly, history>>
  BY DEF Apply
<1>3. ioc.puts \in Seq(Bits)
  BY <1>1 DEF Types
<1> DEFINE b == Head(ioc.puts)
<1>4. /\ Tail(ioc.puts) \in Seq(Bits) /\ b \in Bits /\ b = ioc.puts[1] /\ 1 \in 1..Len(ioc.puts)
      /\ \A i \in 1..Len(Tail(ioc.puts)) :
           i + 1 \in 1..Len(ioc.puts) /\ Tail(ioc.puts)[i] = ioc.puts[i + 1]
      /\ \A i \in 1..Len(ioc.puts) :
           i = 1 \/ (i > 1 /\ \E j \in 1..Len(Tail(ioc.puts)) :
                               i = j + 1 /\ Tail(ioc.puts)[j] = ioc.puts[i])
      /\ Tail(ioc.puts) = <<>> => ioc.puts[Len(ioc.puts)] = ioc.puts[1]
      /\ Tail(ioc.puts) # <<>> => Tail(ioc.puts)[Len(Tail(ioc.puts))] = ioc.puts[Len(ioc.puts)]
  BY <1>2, <1>3, FirstTaken
<1>5. ioc'.bit = b /\ ioc'.puts = Tail(ioc.puts) /\ ioc'.online = ioc.online
  BY <1>1, <1>2 DEF Types
<1>6. /\ feed' \in [Rows -> Seq(Bits)] /\ Newest'
      /\ \A r \in Rows :
           /\ Monitored(r)' = Monitored(r)
           /\ b = ioc.bit => feed'[r] = feed[r]
           /\ Monitored(r) /\ b # ioc.bit => feed'[r] # <<>>
           /\ \A i \in 1..Len(feed'[r]) :
                \/ i \in 1..Len(feed[r]) /\ feed'[r][i] = feed[r][i]
                \/ i = Len(feed[r]) + 1 /\ feed'[r][i] = b
  <2> HIDE DEF b
  <2> QED BY <1>1, <1>2, <1>4, <1>5, PostedFeeds DEF Followed, b
<1> HIDE DEF b
<1>7. Types'
  BY <1>1, <1>2, <1>4, <1>6 DEF Types, b
<1>8. Result' = Result
  BY <1>2, <1>4, <1>5 DEF Result
<1>9. Corrected'
  <2> SUFFICES ASSUME ~history.misled, NEW r \in Rows, Monitored(r), feed'[r] = <<>>,
                      row[r].mask # b
               PROVE  \E i \in 1..Len(Tail(ioc.puts)) : Tail(ioc.puts)[i] # b
    BY <1>2, <1>5, <1>6 DEF Corrected
  <2>1. b = ioc.bit /\ feed[r] = <<>>
    BY <1>6
  <2>2. PICK i \in 1..Len(ioc.puts) : ioc.puts[i] # ioc.bit
    BY <1>1, <2>1 DEF Followed, Corrected
  <2> QED BY <1>4, <2>1, <2>2
<1>10. Shows' /\ ForceNewest'
  BY <1>1, <1>2 DEF Followed, Shows, ForceNewest
<1>11. Unobserved'
  BY <1>1, <1>2, <1>6, <1>8 DEF Followed, Unobserved
<1>12. AcceptedWins' /\ NewestRequestWins'
  BY <1>1, <1>2, <1>8 DEF Followed, AcceptedWins, NewestRequestWins
<1>13. Untouched'
  BY <1>1, <1>2 DEF Followed, Untouched, Disputed
<1>14. InOrder'
  <2> SUFFICES ASSUME ~Disputed, ackt.accepted # None
               PROVE  InOrder'
    BY <1>2 DEF InOrder, Disputed
  <2>1. /\ \A i \in 1..Len(ioc.puts) : ioc.puts[i] = ackt.accepted
        /\ \A r \in Rows : \A i, j \in 1..Len(feed[r]) :
             i < j /\ feed[r][i] = ackt.accepted => feed[r][j] = ackt.accepted
        /\ \A r \in ackt.confirmedBy :
             /\ ioc.bit = ackt.accepted
             /\ \A i \in 1..Len(feed[r]) : feed[r][i] = ackt.accepted
    BY <1>1 DEF Followed, InOrder
  <2>2. b = ackt.accepted
    BY <1>4, <2>1
  <2>3. \A i \in 1..Len(ioc'.puts) : ioc'.puts[i] = ackt.accepted
    BY <1>4, <1>5, <2>1
  <2>4. ASSUME NEW r \in Rows, NEW i \in 1..Len(feed'[r]), NEW j \in 1..Len(feed'[r]),
               i < j, feed'[r][i] = ackt.accepted
        PROVE  feed'[r][j] = ackt.accepted
    <3>1. CASE j \in 1..Len(feed[r]) /\ feed'[r][j] = feed[r][j]
      <4>1. Len(feed[r]) \in Nat
        BY <1>1 DEF Types
      <4>2. i \in 1..Len(feed[r]) /\ i # Len(feed[r]) + 1
        BY <2>4, <3>1, <4>1
      <4>3. feed'[r][i] = feed[r][i]
        BY <1>6, <4>2
      <4> QED BY <2>1, <2>4, <3>1, <4>2, <4>3
    <3>2. CASE feed'[r][j] = b
      BY <2>2, <3>2
    <3> QED BY <1>6, <3>1, <3>2
  <2>5. ackt.confirmedBy \subseteq Rows
    BY <1>1 DEF Types
  <2>6. \A r \in ackt.confirmedBy :
             /\ ioc'.bit = ackt.accepted
             /\ \A i \in 1..Len(feed'[r]) : feed'[r][i] = ackt.accepted
    BY <1>5, <1>6, <2>1, <2>2, <2>5
  <2> QED BY <1>2, <1>5, <2>2, <2>3, <2>4, <2>6 DEF InOrder
<1> QED BY <1>6, <1>7, <1>9, <1>10, <1>11, <1>12, <1>13, <1>14 DEF FollowInv, Followed

LEMMA OtherFollowed ==
  ASSUME FollowInv, OtherClient
  PROVE  FollowInv'
<1>1. Types /\ Followed
  BY DEF FollowInv
<1>2. /\ Posted(1 - ioc.bit)
      /\ ioc' = [ioc EXCEPT !.bit = 1 - @, !.others = @ + 1]
      /\ history' = [history EXCEPT !.others = TRUE]
      /\ UNCHANGED <<row, ackt, readOnly>>
  BY DEF OtherClient
<1>3. PICK b \in Bits : b = 1 - ioc.bit /\ b # ioc.bit
  BY <1>1 DEF Types, Bits
<1>4. ioc'.bit = b /\ ioc'.puts = ioc.puts /\ ioc'.online = ioc.online
  BY <1>1, <1>2, <1>3 DEF Types
<1>5. history'.others /\ history'.misled = history.misled
  BY <1>1, <1>2 DEF Types
<1>6. /\ feed' \in [Rows -> Seq(Bits)] /\ Newest'
      /\ \A r \in Rows : Monitored(r)' = Monitored(r) /\ (Monitored(r) => feed'[r] # <<>>)
  BY <1>1, <1>2, <1>3, <1>4, PostedFeeds DEF Followed
<1>7. Types'
  <2>1. ioc.others + 1 \in Nat /\ 1 - ioc.bit \in Bits
    BY <1>1, <1>3 DEF Types
  <2>2. ioc' \in [bit : Bits, online : BOOLEAN, puts : Seq(Bits), others : Nat, breaks : Nat]
    BY <1>1, <1>2, <2>1 DEF Types
  <2>3. history' \in [wanted : Bits, others : BOOLEAN, reversed : BOOLEAN, misled : BOOLEAN]
    BY <1>1, <1>2 DEF Types
  <2> QED BY <1>1, <1>2, <1>6, <2>2, <2>3 DEF Types
<1>8. Corrected' /\ Unobserved'
  BY <1>6 DEF Corrected, Unobserved
<1>9. Shows' /\ ForceNewest'
  BY <1>1, <1>2 DEF Followed, Shows, ForceNewest
<1>10. AcceptedWins' /\ NewestRequestWins' /\ Untouched' /\ InOrder'
  BY <1>5 DEF AcceptedWins, NewestRequestWins, Untouched, InOrder, Disputed
<1> QED BY <1>6, <1>7, <1>8, <1>9, <1>10 DEF FollowInv, Followed

LEMMA BreakFollowed ==
  ASSUME FollowInv, Break
  PROVE  FollowInv'
<1>1. Types /\ Followed
  BY DEF FollowInv
<1>2. /\ ioc' = [ioc EXCEPT !.online = FALSE, !.puts = <<>>, !.breaks = @ + 1]
      /\ feed' = [r \in Rows |-> <<>>]
      /\ history' = [history EXCEPT !.others = @ \/ ioc.puts # <<>>]
      /\ UNCHANGED <<row, ackt, readOnly>>
  BY DEF Break
<1>3. ~ioc'.online /\ ioc'.puts = <<>> /\ ioc'.bit = ioc.bit
  BY <1>1, <1>2 DEF Types
<1>4. /\ history'.others = (history.others \/ ioc.puts # <<>>)
      /\ history'.wanted = history.wanted /\ history'.misled = history.misled
      /\ history'.reversed = history.reversed
  BY <1>1, <1>2 DEF Types
<1>5. \A r \in Rows : feed'[r] = <<>> /\ Len(feed'[r]) = 0 /\ ~Monitored(r)'
  BY <1>2, <1>3 DEF Monitored
<1>6. Types'
  <2>1. ioc.breaks + 1 \in Nat /\ <<>> \in Seq(Bits)
    BY <1>1 DEF Types
  <2>2. ioc' \in [bit : Bits, online : BOOLEAN, puts : Seq(Bits), others : Nat, breaks : Nat]
    BY <1>1, <1>2, <2>1 DEF Types
  <2>3. feed' \in [Rows -> Seq(Bits)]
    BY <1>2, <2>1
  <2>4. (history.others \/ ioc.puts # <<>>) \in BOOLEAN
    OBVIOUS
  <2>5. history' \in [wanted : Bits, others : BOOLEAN, reversed : BOOLEAN, misled : BOOLEAN]
    BY <1>1, <1>2, <2>4 DEF Types
  <2> QED BY <1>1, <1>2, <2>2, <2>3, <2>5 DEF Types
<1>7. Newest' /\ Corrected' /\ Unobserved'
  BY <1>5 DEF Newest, Corrected, Unobserved
<1>8. Shows' /\ ForceNewest'
  BY <1>1, <1>2 DEF Followed, Shows, ForceNewest
<1>9. ~history'.others => ~history.others /\ ioc.puts = <<>> /\ Result' = Result
  BY <1>3, <1>4 DEF Result
<1>10. AcceptedWins' /\ NewestRequestWins'
  BY <1>1, <1>2, <1>4, <1>9 DEF Followed, AcceptedWins, NewestRequestWins
<1>11. ~Disputed' => ~Disputed
  BY <1>4 DEF Disputed
<1>12. Untouched'
  BY <1>1, <1>2, <1>3, <1>4, <1>5, <1>11 DEF Followed, Untouched
<1>13. InOrder'
  <2> SUFFICES ASSUME ~Disputed', ackt.accepted # None PROVE InOrder'
    BY <1>2 DEF InOrder
  <2>1. ackt.confirmedBy \subseteq Rows /\ Len(ioc'.puts) = 0
    BY <1>1, <1>3 DEF Types
  <2>2. \A r \in ackt.confirmedBy : ioc.bit = ackt.accepted
    BY <1>1, <1>11 DEF Followed, InOrder
  <2> QED BY <1>2, <1>3, <1>5, <2>1, <2>2 DEF InOrder
<1> QED BY <1>6, <1>7, <1>8, <1>10, <1>12, <1>13 DEF FollowInv, Followed

LEMMA ReconnectFollowed ==
  ASSUME FollowInv, Reconnect
  PROVE  FollowInv'
<1>1. Types /\ Followed
  BY DEF FollowInv
<1>2. /\ ioc' = [ioc EXCEPT !.online = TRUE]
      /\ feed' = [r \in Rows |-> IF row[r].cancelled THEN <<>> ELSE <<ioc.bit>>]
      /\ UNCHANGED <<row, ackt, readOnly, history>>
  BY DEF Reconnect
<1>3. ioc'.online /\ ioc'.puts = ioc.puts /\ ioc'.bit = ioc.bit /\ ioc.bit \in Bits
  BY <1>1, <1>2 DEF Types
<1>4. \A r \in Rows :
        /\ Monitored(r)' => feed'[r] # <<>>
        /\ \A i \in 1..Len(feed'[r]) : i = 1 /\ feed'[r][i] = ioc.bit
        /\ row[r].cancelled => feed'[r] = <<>>
        /\ feed'[r] # <<>> => feed'[r][Len(feed'[r])] = ioc.bit
  BY <1>2 DEF Monitored
<1>5. Types'
  <2>1. feed' \in [Rows -> Seq(Bits)]
    BY <1>2, <1>3
  <2> QED BY <1>1, <1>2, <2>1 DEF Types
<1>6. Newest' /\ Corrected' /\ Unobserved'
  BY <1>2, <1>3, <1>4 DEF Newest, Corrected, Unobserved
<1>7. Shows' /\ ForceNewest'
  BY <1>1, <1>2 DEF Followed, Shows, ForceNewest
<1>8. Result' = Result
  BY <1>3 DEF Result
<1>9. AcceptedWins' /\ NewestRequestWins'
  BY <1>1, <1>2, <1>8 DEF Followed, AcceptedWins, NewestRequestWins
<1>10. Untouched'
  BY <1>1, <1>2, <1>3, <1>4 DEF Followed, Untouched, Disputed
<1>11. InOrder'
  <2> SUFFICES ASSUME ~Disputed, ackt.accepted # None PROVE InOrder'
    BY <1>2 DEF InOrder, Disputed
  <2>1. ackt.confirmedBy \subseteq Rows
    BY <1>1 DEF Types
  <2>2. /\ \A i \in 1..Len(ioc.puts) : ioc.puts[i] = ackt.accepted
        /\ \A r \in ackt.confirmedBy : ioc.bit = ackt.accepted
    BY <1>1 DEF Followed, InOrder
  <2>3. \A r \in Rows : \A i, j \in 1..Len(feed'[r]) : ~(i < j)
    BY <1>4
  <2> QED BY <1>2, <1>3, <1>4, <2>1, <2>2, <2>3 DEF InOrder
<1> QED BY <1>5, <1>6, <1>7, <1>9, <1>10, <1>11 DEF FollowInv, Followed-----------------------------------------------------------------------------
(***************************************************************************)
(* The engine.                                                             *)
(***************************************************************************)
(* A monitor may be cancelled, or added and told the state of the record.  *)
Refed ==
  /\ feed' \in [Rows -> Seq(Bits)]
  /\ \A r \in Rows :
       \/ feed'[r] = feed[r] /\ row'[r].cancelled = row[r].cancelled
       \/ feed'[r] = <<>> /\ (row'[r].cancelled \/ ~ioc.online)
       \/ feed'[r] = <<ioc.bit>> /\ ~row'[r].cancelled /\ ioc.online

LEMMA RefedFeeds ==
  ASSUME Types, Newest, Refed, ioc'.bit = ioc.bit, ioc'.online = ioc.online
  PROVE  /\ Newest'
         /\ \A r \in Rows :
              /\ Monitored(r)' /\ feed'[r] = <<>> => Monitored(r) /\ feed[r] = <<>>
              /\ feed[r] = <<>> => \A i \in 1..Len(feed'[r]) : i = 1 /\ feed'[r][i] = ioc.bit
              /\ feed'[r] = feed[r] \/ \A i \in 1..Len(feed'[r]) : i = 1 /\ feed'[r][i] = ioc.bit
<1>1. Len(<<>>) = 0 /\ Len(<<ioc.bit>>) = 1 /\ <<ioc.bit>>[1] = ioc.bit /\ <<ioc.bit>> # <<>>
  OBVIOUS
<1>2. ASSUME NEW r \in Rows
      PROVE  /\ ioc'.online /\ feed'[r] # <<>> => feed'[r][Len(feed'[r])] = ioc'.bit
             /\ row'[r].cancelled \/ ~ioc'.online => feed'[r] = <<>>
             /\ Monitored(r)' /\ feed'[r] = <<>> => Monitored(r) /\ feed[r] = <<>>
             /\ feed[r] = <<>> => \A i \in 1..Len(feed'[r]) : i = 1 /\ feed'[r][i] = ioc.bit
             /\ feed'[r] = feed[r] \/ \A i \in 1..Len(feed'[r]) : i = 1 /\ feed'[r][i] = ioc.bit
  <2>1. CASE feed'[r] = feed[r] /\ row'[r].cancelled = row[r].cancelled
    BY <1>1, <2>1 DEF Newest, Monitored
  <2>2. CASE feed'[r] = <<>> /\ (row'[r].cancelled \/ ~ioc.online)
    BY <1>1, <2>2 DEF Monitored
  <2>3. CASE feed'[r] = <<ioc.bit>> /\ ~row'[r].cancelled /\ ioc.online
    BY <1>1, <2>3
  <2> QED BY <2>1, <2>2, <2>3 DEF Refed
<1>3. Newest'
  BY <1>2 DEF Newest
<1> QED BY <1>2, <1>3

(* Row r shows the bit m from now on.                                      *)
Showing(r, m) ==
  /\ row' \in [Rows -> [mask : Bits, observed : BOOLEAN, cancelled : BOOLEAN]]
  /\ row'[r].mask = m /\ row'[r].observed = row[r].observed
  /\ \A s \in Rows : s # r => row'[s] = row[s]

(* A write.                                                                *)
LEMMA PutFollowed ==
  ASSUME FollowInv, NEW t \in Bits, NEW r \in Rows, Showing(r, t), Refed,
         ioc' = [ioc EXCEPT !.puts = Append(@, t)],
         ackt'.accepted = t, ackt'.confirmedBy = {}, ackt'.observed = None,
         ackt'.force = NoForce, ackt'.requests \in Nat,
         ackt' = [accepted |-> ackt'.accepted, confirmedBy |-> ackt'.confirmedBy,
                  observed |-> ackt'.observed, force |-> ackt'.force,
                  requests |-> ackt'.requests],
         history' = Wanted(t), UNCHANGED readOnly
  PROVE  FollowInv'
<1>1. Types /\ Followed
  BY DEF FollowInv
<1>2. ioc.puts \in Seq(Bits) /\ None \notin Bits
  BY <1>1 DEF Types, None, Bits
<1>3. /\ Append(ioc.puts, t) \in Seq(Bits) /\ Append(ioc.puts, t) # <<>>
      /\ Append(ioc.puts, t)[Len(Append(ioc.puts, t))] = t
      /\ \A i \in 1..Len(ioc.puts) :
           i \in 1..Len(Append(ioc.puts, t)) /\ Append(ioc.puts, t)[i] = ioc.puts[i]
      /\ \A i \in 1..Len(Append(ioc.puts, t)) :
           \/ i \in 1..Len(ioc.puts) /\ Append(ioc.puts, t)[i] = ioc.puts[i]
           \/ i = Len(ioc.puts) + 1 /\ Append(ioc.puts, t)[i] = t
      /\ \E i \in 1..Len(Append(ioc.puts, t)) : Append(ioc.puts, t)[i] = t
  <2>1. ioc.puts \in Seq(Bits) /\ t \in Bits
    BY <1>2
  <2> QED BY ONLY <2>1, Appended
<1>4. ioc'.bit = ioc.bit /\ ioc'.puts = Append(ioc.puts, t) /\ ioc'.online = ioc.online
  BY <1>1 DEF Types
<1>5. /\ history'.wanted = t /\ history'.others = history.others
      /\ history'.misled = history.misled
      /\ history'.reversed = (history.reversed \/ (~Quiet /\ ackt.accepted \notin {None, t}))
      /\ history' \in [wanted : Bits, others : BOOLEAN, reversed : BOOLEAN, misled : BOOLEAN]
  <2> DEFINE q == history.reversed \/ (~Quiet /\ ackt.accepted \notin {None, t})
  <2>1. history' = [history EXCEPT !.wanted = t, !.reversed = q] /\ q \in BOOLEAN
    BY DEF Wanted
  <2> HIDE DEF q
  <2>2. /\ history'.wanted = t /\ history'.others = history.others
        /\ history'.misled = history.misled /\ history'.reversed = q
        /\ history' \in [wanted : Bits, others : BOOLEAN, reversed : BOOLEAN, misled : BOOLEAN]
    BY <1>1, <2>1 DEF Types
  <2> QED BY <2>2 DEF q
<1>6. /\ Newest'
      /\ \A s \in Rows :
           /\ Monitored(s)' /\ feed'[s] = <<>> => Monitored(s) /\ feed[s] = <<>>
           /\ feed[s] = <<>> => \A i \in 1..Len(feed'[s]) : i = 1 /\ feed'[s][i] = ioc.bit
           /\ feed'[s] = feed[s] \/ \A i \in 1..Len(feed'[s]) : i = 1 /\ feed'[s][i] = ioc.bit
  BY <1>1, <1>4, RefedFeeds DEF Followed
<1>7. Types'
  <2>1. ioc' \in [bit : Bits, online : BOOLEAN, puts : Seq(Bits), others : Nat, breaks : Nat]
    BY <1>1, <1>3 DEF Types
  <2>2. ackt' \in [accepted : Bits \cup {None}, confirmedBy : SUBSET Rows,
                   observed : Bits \cup {None}, force : Forces, requests : Nat]
    BY DEF Forces
  <2> QED BY <1>1, <1>5, <2>1, <2>2 DEF Types, Refed, Showing
<1>8. Result' = t
  BY <1>3, <1>4 DEF Result
<1>9. Corrected'
  <2> SUFFICES ASSUME ~history.misled, NEW s \in Rows, Monitored(s)', feed'[s] = <<>>,
                      row'[s].mask # ioc.bit
               PROVE  \E i \in 1..Len(ioc'.puts) : ioc'.puts[i] # ioc.bit
    BY <1>4, <1>5 DEF Corrected
  <2>1. CASE s = r
    <3>1. t # ioc.bit
      BY <2>1 DEF Showing
    <3> QED BY <1>3, <1>4, <3>1
  <2>2. CASE s # r
    <3>1. Monitored(s) /\ feed[s] = <<>> /\ row[s].mask # ioc.bit
      BY <1>6, <2>2 DEF Showing
    <3>2. PICK i \in 1..Len(ioc.puts) : ioc.puts[i] # ioc.bit
      BY <1>1, <3>1 DEF Followed, Corrected
    <3> QED BY <1>3, <1>4, <3>2
  <2> QED BY <2>1, <2>2
<1>10. Shows' /\ Unobserved' /\ AcceptedWins' /\ ForceNewest' /\ NewestRequestWins'
  BY <1>5, <1>8 DEF Shows, Unobserved, AcceptedWins, ForceNewest, NewestRequestWins
<1>11. Untouched'
  BY <1>2 DEF Untouched
<1>12. InOrder'
  <2> SUFFICES ASSUME ~Disputed'
               PROVE  /\ \A i \in 1..Len(ioc'.puts) : ioc'.puts[i] = t
                      /\ \A s \in Rows : \A i, j \in 1..Len(feed'[s]) :
                           i < j /\ feed'[s][i] = t => feed'[s][j] = t
                      /\ ioc.bit # t =>
                           \A s \in Rows : \A i \in 1..Len(feed'[s]) : feed'[s][i] # t
    BY <1>4 DEF InOrder
  <2>1. ~Disputed /\ (Quiet \/ ackt.accepted \in {None, t})
    BY <1>5 DEF Disputed
  <2>2. /\ \A i \in 1..Len(ioc.puts) : ioc.puts[i] = t
        /\ \A s \in Rows : \A i, j \in 1..Len(feed[s]) :
             i < j /\ feed[s][i] = t => feed[s][j] = t
        /\ ioc.bit # t => \A s \in Rows : \A i \in 1..Len(feed[s]) : feed[s][i] # t
    <3>1. CASE Quiet
      <4>1. Len(ioc.puts) = 0 /\ \A s \in Rows : Len(feed[s]) = 0
        BY <3>1 DEF Quiet
      <4> QED BY <4>1
    <3>2. CASE ackt.accepted = None
      <4>1. Len(ioc.puts) = 0 /\ \A s \in Rows : \A i \in 1..Len(feed[s]) : feed[s][i] = ioc.bit
        BY <1>1, <2>1, <3>2 DEF Followed, Untouched
      <4> QED BY <4>1
    <3>3. CASE ackt.accepted = t
      BY <1>1, <1>2, <2>1, <3>3 DEF Followed, InOrder
    <3> QED BY <2>1, <3>1, <3>2, <3>3
  <2>3. \A i \in 1..Len(ioc'.puts) : ioc'.puts[i] = t
    BY <1>3, <1>4, <2>2
  <2>4. ASSUME NEW s \in Rows
        PROVE  /\ \A i, j \in 1..Len(feed'[s]) : i < j /\ feed'[s][i] = t => feed'[s][j] = t
               /\ ioc.bit # t => \A i \in 1..Len(feed'[s]) : feed'[s][i] # t
    <3>1. CASE feed'[s] = feed[s]
      BY <2>2, <3>1
    <3>2. CASE \A i \in 1..Len(feed'[s]) : i = 1 /\ feed'[s][i] = ioc.bit
      BY <3>2
    <3> QED BY <1>6, <3>1, <3>2
  <2> QED BY <2>3, <2>4
<1> QED BY <1>6, <1>7, <1>9, <1>10, <1>11, <1>12 DEF FollowInv, Followed

(* A request without a write.  What the row shows instead of its own bit   *)
(* is what the record holds, or will hold, and what is observed.           *)
LEMMA NoPutFollowed ==
  ASSUME FollowInv, NEW r \in Rows, NEW m \in Bits, Showing(r, m), Refed,
         UNCHANGED <<ioc, readOnly>>,
         ackt'.accepted = ackt.accepted, ackt'.confirmedBy = ackt.confirmedBy,
         ackt'.observed = ackt.observed,
         ackt' \in [accepted : Bits \cup {None}, confirmedBy : SUBSET Rows,
                    observed : Bits \cup {None}, force : Forces, requests : Nat],
         ForceNewest',
         history' \in [wanted : Bits, others : BOOLEAN, reversed : BOOLEAN, misled : BOOLEAN],
         history'.others = history.others, history'.reversed = history.reversed,
         history.misled => history'.misled,
         ~history'.misled /\ Monitored(r) /\ feed[r] = <<>> /\ m # row[r].mask =>
           m = ioc.bit \/ \E i \in 1..Len(ioc.puts) : ioc.puts[i] = m,
         ackt.observed # None => m \in {row[r].mask, ackt.observed},
         ~history.others /\ ~history'.misled => Result = history'.wanted,
         ~Disputed /\ ackt.accepted = None => history'.wanted = ioc.bit
  PROVE  FollowInv'
<1>1. Types /\ Followed
  BY DEF FollowInv
<1>2. Types'
  BY <1>1 DEF Types, Showing, Refed
<1>3. /\ Newest'
      /\ \A s \in Rows :
           /\ Monitored(s)' /\ feed'[s] = <<>> => Monitored(s) /\ feed[s] = <<>>
           /\ feed[s] = <<>> => \A i \in 1..Len(feed'[s]) : i = 1 /\ feed'[s][i] = ioc.bit
           /\ feed'[s] = feed[s] \/ \A i \in 1..Len(feed'[s]) : i = 1 /\ feed'[s][i] = ioc.bit
  BY <1>1, RefedFeeds DEF Followed
<1>4. Result' = Result /\ Disputed' = Disputed
  BY DEF Result, Disputed
<1>5. Corrected'
  <2> SUFFICES ASSUME ~history'.misled, NEW s \in Rows, Monitored(s)', feed'[s] = <<>>,
                      row'[s].mask # ioc.bit
               PROVE  \E i \in 1..Len(ioc.puts) : ioc.puts[i] # ioc.bit
    BY DEF Corrected
  <2>1. Monitored(s) /\ feed[s] = <<>> /\ ~history.misled
    BY <1>3
  <2>2. row[s].mask # ioc.bit => \E i \in 1..Len(ioc.puts) : ioc.puts[i] # ioc.bit
    BY <1>1, <2>1 DEF Followed, Corrected
  <2>3. s # r => row'[s].mask = row[s].mask
    BY DEF Showing
  <2>4. s = r => row'[s].mask = m
    BY DEF Showing
  <2> QED BY <2>1, <2>2, <2>3, <2>4
<1>6. Shows'
  <2> SUFFICES ASSUME ackt.observed # None
               PROVE  \E s \in Rows : row'[s].mask = ackt.observed
    BY DEF Shows
  <2>1. PICK s \in Rows : row[s].mask = ackt.observed
    BY <1>1 DEF Followed, Shows
  <2>2. CASE s = r
    BY <2>1, <2>2 DEF Showing
  <2>3. CASE s # r
    BY <2>1, <2>3 DEF Showing
  <2> QED BY <2>2, <2>3
<1>7. Unobserved' /\ AcceptedWins' /\ NewestRequestWins'
  BY <1>1, <1>3, <1>4 DEF Followed, Unobserved, AcceptedWins, NewestRequestWins
<1>8. Untouched'
  <2> SUFFICES ASSUME ~Disputed, ackt.accepted = None PROVE Untouched'
    BY <1>4 DEF Untouched
  <2>1. /\ ioc.puts = <<>> /\ ackt.observed \in {None, ioc.bit}
        /\ \A s \in Rows : \A i \in 1..Len(feed[s]) : feed[s][i] = ioc.bit
        /\ \A s \in Rows : row[s].observed => ackt.observed # None
    BY <1>1 DEF Followed, Untouched
  <2>2. \A s \in Rows : \A i \in 1..Len(feed'[s]) : feed'[s][i] = ioc.bit
    BY <1>3, <2>1
  <2>3. \A s \in Rows : row'[s].observed = row[s].observed
    BY DEF Showing
  <2> QED BY <2>1, <2>2, <2>3 DEF Untouched
<1>9. InOrder'
  <2> SUFFICES ASSUME ~Disputed, ackt.accepted # None PROVE InOrder'
    BY <1>4 DEF InOrder
  <2>1. /\ \A i \in 1..Len(ioc.puts) : ioc.puts[i] = ackt.accepted
        /\ \A s \in Rows : \A i, j \in 1..Len(feed[s]) :
             i < j /\ feed[s][i] = ackt.accepted => feed[s][j] = ackt.accepted
        /\ ioc.bit # ackt.accepted =>
             \A s \in Rows : \A i \in 1..Len(feed[s]) : feed[s][i] # ackt.accepted
        /\ \A s \in ackt.confirmedBy :
             /\ ioc.bit = ackt.accepted
             /\ \A i \in 1..Len(feed[s]) : feed[s][i] = ackt.accepted
    BY <1>1 DEF Followed, InOrder
  <2>2. ASSUME NEW s \in Rows
        PROVE  /\ \A i, j \in 1..Len(feed'[s]) :
                    i < j /\ feed'[s][i] = ackt.accepted => feed'[s][j] = ackt.accepted
               /\ ioc.bit # ackt.accepted =>
                    \A i \in 1..Len(feed'[s]) : feed'[s][i] # ackt.accepted
               /\ s \in ackt.confirmedBy =>
                    \A i \in 1..Len(feed'[s]) : feed'[s][i] = ackt.accepted
    <3>1. CASE feed'[s] = feed[s]
      BY <2>1, <3>1
    <3>2. CASE \A i \in 1..Len(feed'[s]) : i = 1 /\ feed'[s][i] = ioc.bit
      BY <2>1, <3>2
    <3> QED BY <1>3, <3>1, <3>2
  <2>3. ackt.confirmedBy \subseteq Rows
    BY <1>1 DEF Types
  <2> QED BY <2>1, <2>2, <2>3 DEF InOrder
<1> QED BY <1>2, <1>3, <1>5, <1>6, <1>7, <1>8, <1>9 DEF FollowInv, Followed

(* What a request that names NoAckT may take for written.                  *)
LEMMA LeftOut ==
  ASSUME FollowInv, NEW r \in Rows, NEW t \in Bits, NEW kind, kind # "carried",
         ~Changes(r, t, kind), ~Disputed \/ Agreed, ~history.misled
  PROVE  /\ Monitored(r) /\ feed[r] = <<>> /\ t # row[r].mask =>
              t = ioc.bit \/ \E i \in 1..Len(ioc.puts) : ioc.puts[i] = t
         /\ ~history.others =>
              Result = IF kind = "force" \/ ackt.accepted # None \/ ackt.observed # None
                       THEN t ELSE history.wanted
         /\ ~Disputed /\ ackt.accepted = None =>
              ioc.bit = IF kind = "force" \/ ackt.accepted # None \/ ackt.observed # None
                        THEN t ELSE history.wanted
<1>1. Types /\ Followed
  BY DEF FollowInv
<1>2. t = Accepted(r) /\ t = Observed(r) /\ (kind = "force" => row[r].observed)
  BY DEF Changes
<1>3. ~Disputed => ~history.others
  BY DEF Disputed
<1>4. ASSUME Agreed
      PROVE  /\ ioc.puts = <<>> /\ Result = ioc.bit
             /\ \A s \in Rows : feed[s] = <<>> /\ row[s].mask = ioc.bit
             /\ ackt.observed # None => ackt.observed = ioc.bit
  <2>1. ioc.puts = <<>> /\ \A s \in Rows : feed[s] = <<>>
    BY <1>4 DEF Agreed, Quiet
  <2>2. PICK s \in Rows : Monitored(s)
    BY <1>4 DEF Agreed
  <2>3. row[s].mask = ioc.bit
    <3>1. Len(ioc.puts) = 0
      BY <2>1
    <3> QED BY <1>1, <2>1, <2>2, <3>1 DEF Followed, Corrected
  <2>4. \A q \in Rows : row[q].mask = ioc.bit
    BY <1>4, <2>3 DEF Agreed
  <2> QED BY <1>1, <2>1, <2>4 DEF Followed, Shows, Result
<1>5. Result = ioc.bit \/ \E i \in 1..Len(ioc.puts) : ioc.puts[i] = Result
  <2>1. CASE ioc.puts = <<>>
    BY <2>1 DEF Result
  <2>2. CASE ioc.puts # <<>>
    <3>1. Len(ioc.puts) \in 1..Len(ioc.puts)
      BY <1>1, <2>2 DEF Types
    <3> QED BY <2>2, <3>1 DEF Result
  <2> QED BY <2>1, <2>2
<1>6. CASE ackt.accepted # None
  <2>1. t = ackt.accepted /\ (ackt.observed # None => t = ackt.observed)
    BY <1>2, <1>6 DEF Accepted, Observed, Or
  <2>2. ~history.others => Result = t
    BY <1>1, <1>6, <2>1 DEF Followed, AcceptedWins
  <2>3. ASSUME Agreed, Monitored(r) PROVE t = ioc.bit
    BY <1>1, <1>4, <1>6, <2>1, <2>3 DEF Followed, Unobserved
  <2> QED BY <1>3, <1>5, <1>6, <2>2, <2>3
<1>7. CASE ackt.accepted = None
  <2>1. t = IF ackt.observed # None THEN ackt.observed ELSE row[r].mask
    BY <1>2, <1>7 DEF Accepted, Or
  <2>2. CASE ~Disputed
    <3>1. /\ ioc.puts = <<>> /\ ackt.observed \in {None, ioc.bit} /\ history.wanted = ioc.bit
          /\ row[r].observed => ackt.observed # None
      BY <1>1, <1>7, <2>2 DEF Followed, Untouched
    <3>2. Result = ioc.bit
      BY <3>1 DEF Result
    <3> QED BY <1>2, <1>7, <2>1, <3>1, <3>2
  <2>3. CASE Disputed /\ Agreed
    <3>1. t = ioc.bit
      BY <1>4, <2>1, <2>3
    <3>2. ~history.others => Result = history.wanted
      BY <1>1 DEF Followed, NewestRequestWins
    <3> QED BY <1>4, <2>3, <3>1, <3>2
  <2> QED BY <2>2, <2>3
<1> QED BY <1>6, <1>7

LEMMA RequestFollowed ==
  ASSUME FollowInv, NEW r \in Rows, NEW t \in Bits, NEW kind \in {"named", "force", "carried"},
         NEW c \in BOOLEAN, NEW ok \in BOOLEAN, Request(r, t, kind, c, ok)
  PROVE  FollowInv'
<1>1. Types /\ Followed
  BY DEF FollowInv
<1> DEFINE changes == ~readOnly /\ Changes(r, t, kind)
           put     == changes /\ ok
           newer   == [ackt EXCEPT !.requests = @ + 1, !.force = NoForce]
           defer   == changes /\ ~ok /\ kind = "force"
           knows   == kind = "force" \/ ackt.accepted # None \/ ackt.observed # None
           m       == IF readOnly \/ (changes /\ ~ok) THEN row[r].mask ELSE t
<1>2. /\ ok => ioc.online /\ changes
      /\ row' = [row EXCEPT ![r].mask = m, ![r].cancelled = c]
      /\ ioc' = IF put THEN [ioc EXCEPT !.puts = Append(@, t)] ELSE ioc
      /\ feed' = [feed EXCEPT ![r] = IF c \/ ~ioc.online THEN <<>>
                                     ELSE IF row[r].cancelled THEN <<ioc.bit>> ELSE @]
      /\ UNCHANGED readOnly
  BY DEF Request, Shown
<1>3. /\ ackt' = IF readOnly THEN ackt
                 ELSE IF put THEN Submitted(newer, t)
                 ELSE IF defer THEN [newer EXCEPT !.force = [value   |-> t,
                                                             row     |-> r,
                                                             request |-> newer.requests]]
                 ELSE newer
      /\ history' = IF put THEN Wanted(t)
                    ELSE IF readOnly \/ changes \/ kind = "carried" THEN history
                    ELSE [history EXCEPT !.wanted = IF knows THEN t ELSE @,
                                         !.misled = @ \/ (Disputed /\ ~Agreed)]
  BY DEF Request
<1>4. /\ m \in Bits /\ ioc.bit \in Bits /\ row[r].mask \in Bits
      /\ readOnly => m = row[r].mask
      /\ changes /\ ~ok => m = row[r].mask
      /\ ~readOnly /\ ~(changes /\ ~ok) => m = t
  BY <1>1 DEF Types
<1>5. /\ newer.requests = ackt.requests + 1 /\ newer.requests \in Nat
      /\ newer \in [accepted : Bits \cup {None}, confirmedBy : SUBSET Rows,
                    observed : Bits \cup {None}, force : Forces, requests : Nat]
      /\ newer.force = NoForce /\ newer.accepted = ackt.accepted
      /\ newer.confirmedBy = ackt.confirmedBy /\ newer.observed = ackt.observed
  <2>1. ackt.requests + 1 \in Nat /\ NoForce \in Forces
    BY <1>1 DEF Types, Forces
  <2> QED BY <1>1, <2>1 DEF Types
<1>6. ~readOnly /\ ~changes => ~Changes(r, t, kind)
  OBVIOUS
<1> HIDE DEF m, newer
<1>7. Showing(r, m)
  BY <1>1, <1>2, <1>4 DEF Types, Showing
<1>8. Refed
  <2>1. feed' \in [Rows -> Seq(Bits)]
    BY <1>1, <1>2, <1>4 DEF Types
  <2>2. row'[r].cancelled = c /\ \A s \in Rows : s # r => row'[s] = row[s] /\ feed'[s] = feed[s]
    BY <1>1, <1>2 DEF Types
  <2>3. feed'[r] = IF c \/ ~ioc.online THEN <<>>
                   ELSE IF row[r].cancelled THEN <<ioc.bit>> ELSE feed[r]
    BY <1>1, <1>2 DEF Types
  <2>4. \/ feed'[r] = feed[r] /\ row'[r].cancelled = row[r].cancelled
        \/ feed'[r] = <<>> /\ (row'[r].cancelled \/ ~ioc.online)
        \/ feed'[r] = <<ioc.bit>> /\ ~row'[r].cancelled /\ ioc.online
    <3>1. row[r].cancelled \in BOOLEAN
      BY <1>1 DEF Types
    <3> QED BY <2>2, <2>3, <3>1
  <2> QED BY <2>1, <2>2, <2>4 DEF Refed
<1>9. CASE put
  <2>1. m = t
    BY <1>4, <1>9
  <2>2. ackt' = [newer EXCEPT !.accepted = t, !.confirmedBy = {}, !.observed = None]
    BY <1>3, <1>9 DEF Submitted
  <2>3. /\ ackt'.accepted = t /\ ackt'.confirmedBy = {} /\ ackt'.observed = None
        /\ ackt'.force = NoForce /\ ackt'.requests \in Nat
        /\ ackt' = [accepted |-> ackt'.accepted, confirmedBy |-> ackt'.confirmedBy,
                    observed |-> ackt'.observed, force |-> ackt'.force,
                    requests |-> ackt'.requests]
    BY <1>5, <2>2
  <2>4. ioc' = [ioc EXCEPT !.puts = Append(@, t)] /\ history' = Wanted(t)
    BY <1>2, <1>3, <1>9
  <2>5. Showing(r, t)
    BY <1>7, <2>1
  <2> HIDE DEF put, changes
  <2> QED BY <1>2, <1>8, <2>3, <2>4, <2>5, PutFollowed
<1>10. CASE ~put
  <2>1. ioc' = ioc
    BY <1>2, <1>10
  <2>2. /\ ackt'.accepted = ackt.accepted /\ ackt'.confirmedBy = ackt.confirmedBy
        /\ ackt'.observed = ackt.observed
        /\ ackt' \in [accepted : Bits \cup {None}, confirmedBy : SUBSET Rows,
                      observed : Bits \cup {None}, force : Forces, requests : Nat]
        /\ ForceNewest'
    <3>1. CASE readOnly
      BY <1>1, <1>3, <3>1 DEF Types, Followed, ForceNewest
    <3>2. CASE ~readOnly /\ defer
      <4> DEFINE f == [value |-> t, row |-> r, request |-> newer.requests]
      <4>1. ackt' = [newer EXCEPT !.force = f]
        BY <1>3, <1>10, <3>2
      <4>2. f \in Forces /\ f.request = newer.requests
        BY <1>5 DEF Forces
      <4> HIDE DEF f
      <4> QED BY <1>5, <4>1, <4>2 DEF ForceNewest
    <3>3. CASE ~readOnly /\ ~defer
      <4>1. ackt' = newer
        BY <1>3, <1>10, <3>3
      <4> QED BY <1>5, <4>1 DEF ForceNewest
    <3> QED BY <3>1, <3>2, <3>3
  <2>3. CASE readOnly \/ changes \/ kind = "carried"
    <3>1. m = row[r].mask /\ history' = history
      <4>1. changes => ~ok
        BY <1>10
      <4>2. kind = "carried" /\ ~changes /\ ~readOnly => t = row[r].mask
        BY DEF Changes
      <4> QED BY <1>3, <1>4, <1>10, <2>3, <4>1, <4>2
    <3> HIDE DEF put, changes, defer, knows
    <3>2. ~history.others /\ ~history.misled => Result = history.wanted
      BY <1>1 DEF Followed, NewestRequestWins
    <3>3. ~Disputed /\ ackt.accepted = None => history.wanted = ioc.bit
      BY <1>1 DEF Followed, Untouched
    <3> QED BY <1>1, <1>2, <1>4, <1>7, <1>8, <2>1, <2>2, <3>1, <3>2, <3>3, NoPutFollowed DEF Types
  <2>4. CASE ~readOnly /\ ~changes /\ kind # "carried"
    <3>1. m = t /\ ~Changes(r, t, kind)
      BY <1>4, <2>4
    <3>2. history' = [history EXCEPT !.wanted = IF knows THEN t ELSE @,
                                     !.misled = @ \/ (Disputed /\ ~Agreed)]
      BY <1>3, <1>10, <2>4
    <3> DEFINE w == IF knows THEN t ELSE history.wanted
               q == history.misled \/ (Disputed /\ ~Agreed)
    <3>3. w \in Bits /\ q \in BOOLEAN
      BY <1>1 DEF Types
    <3>4. history' = [history EXCEPT !.wanted = w, !.misled = q]
      BY <3>2
    <3>5. (~q => ~Disputed \/ Agreed) /\ (history.misled => q)
      OBVIOUS
    <3>6. w = IF kind = "force" \/ ackt.accepted # None \/ ackt.observed # None
              THEN t ELSE history.wanted
      OBVIOUS
    <3> HIDE DEF w, q, put, changes, defer, knows
    <3>7. /\ history' \in [wanted : Bits, others : BOOLEAN, reversed : BOOLEAN, misled : BOOLEAN]
          /\ history'.others = history.others /\ history'.reversed = history.reversed
          /\ history'.wanted = w /\ history'.misled = q
      BY <1>1, <3>3, <3>4 DEF Types
    <3>8. ASSUME ~q
          PROVE  /\ Monitored(r) /\ feed[r] = <<>> /\ m # row[r].mask =>
                      m = ioc.bit \/ \E i \in 1..Len(ioc.puts) : ioc.puts[i] = m
                 /\ ~history.others => Result = w
      <4>1. ~Disputed \/ Agreed
        BY <3>5, <3>8
      <4>2. ~history.misled
        BY <1>1, <3>5, <3>8 DEF Types
      <4>3. kind # "carried"
        BY <2>4
      <4> QED BY <3>1, <3>6, <4>1, <4>2, <4>3, LeftOut
    <3>9. ackt.observed # None => m = ackt.observed
      BY <2>4, <3>1 DEF Changes, Observed, Or
    <3>10. ~Disputed /\ ackt.accepted = None => w = ioc.bit
      <4> SUFFICES ASSUME ~Disputed, ackt.accepted = None PROVE w = ioc.bit
        OBVIOUS
      <4>1. /\ ackt.observed \in {None, ioc.bit} /\ history.wanted = ioc.bit
            /\ row[r].observed => ackt.observed # None
        BY <1>1 DEF Followed, Untouched
      <4>2. kind = "force" => row[r].observed
        BY <2>4, <3>1 DEF Changes
      <4> QED BY <3>1, <3>6, <3>9, <4>1, <4>2
    <3> QED BY <1>2, <1>4, <1>7, <1>8, <2>1, <2>2, <3>5, <3>7, <3>8, <3>9, <3>10, NoPutFollowed
  <2> QED BY <2>3, <2>4
<1> QED BY <1>9, <1>10

LEMMA RetryFollowed ==
  ASSUME FollowInv, RetryForce
  PROVE  FollowInv'
<1>1. Types /\ Followed
  BY DEF FollowInv
<1> DEFINE t == ackt.force.value
           r == ackt.force.row
<1>2. t \in Bits /\ r \in Rows /\ ackt.force.request = ackt.requests
  BY <1>1 DEF RetryForce, Types, Forces, Followed, ForceNewest
<1>3. /\ ackt' = Submitted([ackt EXCEPT !.force = NoForce], t)
      /\ row' = [row EXCEPT ![r].mask = t]
      /\ ioc' = [ioc EXCEPT !.puts = Append(@, t)]
      /\ history' = Wanted(t)
      /\ UNCHANGED <<feed, readOnly>>
  BY <1>2 DEF RetryForce
<1> HIDE DEF t, r
<1>4. Showing(r, t)
  BY <1>1, <1>2, <1>3 DEF Types, Showing
<1>5. Refed
  <2>1. \A s \in Rows : row'[s].cancelled = row[s].cancelled
    BY <1>1, <1>2, <1>3 DEF Types
  <2> QED BY <1>1, <1>3, <2>1 DEF Types, Refed
<1>6. ackt' = [ackt EXCEPT !.accepted = t, !.confirmedBy = {}, !.observed = None,
                           !.force = NoForce]
  BY <1>1, <1>3 DEF Types, Submitted
<1>7. /\ ackt'.accepted = t /\ ackt'.confirmedBy = {} /\ ackt'.observed = None
      /\ ackt'.force = NoForce /\ ackt'.requests \in Nat
      /\ ackt' = [accepted |-> ackt'.accepted, confirmedBy |-> ackt'.confirmedBy,
                  observed |-> ackt'.observed, force |-> ackt'.force,
                  requests |-> ackt'.requests]
  BY <1>1, <1>6 DEF Types
<1> QED BY <1>2, <1>3, <1>4, <1>5, <1>7, PutFollowed

LEMMA DiscardFollowed ==
  ASSUME FollowInv, DiscardForce
  PROVE  FollowInv'
<1>1. Types /\ Followed
  BY DEF FollowInv
<1>2. ackt' = [ackt EXCEPT !.force = NoForce] /\ UNCHANGED <<ioc, feed, row, readOnly, history>>
  BY DEF DiscardForce
<1>3. /\ ackt'.accepted = ackt.accepted /\ ackt'.confirmedBy = ackt.confirmedBy
      /\ ackt'.observed = ackt.observed /\ ackt'.force = NoForce
  BY <1>1, <1>2 DEF Types
<1>4. Types'
  <2>1. NoForce \in Forces
    BY DEF Forces
  <2> QED BY <1>1, <1>2, <2>1 DEF Types
<1>5. Newest' /\ Corrected' /\ Shows' /\ Unobserved'
  BY <1>1, <1>2, <1>3
     DEF Followed, Newest, Corrected, Shows, Unobserved, Monitored, Result
<1>6. AcceptedWins' /\ ForceNewest' /\ NewestRequestWins'
  BY <1>1, <1>2, <1>3 DEF Followed, AcceptedWins, ForceNewest, NewestRequestWins, Result
<1>7. Untouched' /\ InOrder'
  BY <1>1, <1>2, <1>3 DEF Followed, Untouched, InOrder, Disputed
<1> QED BY <1>4, <1>5, <1>6, <1>7 DEF FollowInv, Followed

(* An observation: it may confirm the accepted bit, and it ends it only    *)
(* where something else than the requests changes the record.              *)
LEMMA DeliverFollowed ==
  ASSUME FollowInv, NEW r \in Rows, Deliver(r)
  PROVE  FollowInv'
<1>1. Types /\ Followed
  BY DEF FollowInv
<1> DEFINE b == Head(feed[r])
<1>2. /\ feed[r] # <<>> /\ feed[r] \in Seq(Bits)
      /\ feed' = [feed EXCEPT ![r] = Tail(@)]
      /\ row' = [row EXCEPT ![r].mask = b, ![r].observed = TRUE]
      /\ ackt' = [Confirmed(r, b) EXCEPT !.observed = b]
      /\ UNCHANGED <<ioc, readOnly, history>>
  BY <1>1 DEF Deliver, Types
<1>3. /\ Tail(feed[r]) \in Seq(Bits) /\ b \in Bits /\ b = feed[r][1] /\ 1 \in 1..Len(feed[r])
      /\ \A i \in 1..Len(Tail(feed[r])) : i + 1 \in 1..Len(feed[r]) /\ Tail(feed[r])[i] = feed[r][i + 1]
      /\ Tail(feed[r]) = <<>> => feed[r][Len(feed[r])] = feed[r][1]
      /\ Tail(feed[r]) # <<>> => Tail(feed[r])[Len(Tail(feed[r]))] = feed[r][Len(feed[r])]
  BY <1>2, FirstTaken
<1>4. feed'[r] = Tail(feed[r]) /\ \A s \in Rows : s # r => feed'[s] = feed[s]
  BY <1>1, <1>2 DEF Types
<1>5. /\ Monitored(r) /\ ~row[r].cancelled /\ ioc.online
      /\ feed[r][Len(feed[r])] = ioc.bit
  BY <1>1, <1>2 DEF Followed, Newest, Monitored, Types
<1> HIDE DEF b
<1>6. /\ row' \in [Rows -> [mask : Bits, observed : BOOLEAN, cancelled : BOOLEAN]]
      /\ row'[r].mask = b /\ row'[r].cancelled = row[r].cancelled
      /\ \A s \in Rows : s # r => row'[s] = row[s]
  BY <1>1, <1>2, <1>3 DEF Types
<1>7. \/ /\ ackt.accepted = b
         /\ ackt' = [ackt EXCEPT !.confirmedBy = @ \union {r}, !.observed = b]
      \/ /\ ackt.accepted # b /\ r \in ackt.confirmedBy
         /\ ackt' = [ackt EXCEPT !.accepted = None, !.confirmedBy = {}, !.observed = b]
      \/ /\ ackt.accepted # b
         /\ ackt' = [ackt EXCEPT !.observed = b]
  <2>1. CASE ackt.accepted = b
    BY <1>1, <1>2, <2>1 DEF Confirmed, Types
  <2>2. CASE ackt.accepted # b /\ r \in ackt.confirmedBy
    BY <1>1, <1>2, <2>2 DEF Confirmed, Types
  <2>3. CASE ackt.accepted # b /\ r \notin ackt.confirmedBy
    BY <1>1, <1>2, <2>3 DEF Confirmed, Types
  <2> QED BY <2>1, <2>2, <2>3
<1>8. /\ ackt' \in [accepted : Bits \cup {None}, confirmedBy : SUBSET Rows,
                    observed : Bits \cup {None}, force : Forces, requests : Nat]
      /\ ackt'.observed = b /\ ackt'.force = ackt.force /\ ackt'.requests = ackt.requests
      /\ \/ ackt.accepted = b /\ ackt'.accepted = b /\ ackt'.confirmedBy = ackt.confirmedBy \cup {r}
         \/ /\ ackt.accepted # b /\ r \in ackt.confirmedBy
            /\ ackt'.accepted = None /\ ackt'.confirmedBy = {}
         \/ /\ ackt.accepted # b
            /\ ackt'.accepted = ackt.accepted /\ ackt'.confirmedBy = ackt.confirmedBy
  <2>1. ackt.confirmedBy \subseteq Rows
    BY <1>1 DEF Types
  <2>2. CASE ackt.accepted = b /\ ackt' = [ackt EXCEPT !.confirmedBy = @ \union {r}, !.observed = b]
    BY <1>1, <1>3, <2>1, <2>2 DEF Types
  <2>3. CASE /\ ackt.accepted # b /\ r \in ackt.confirmedBy
             /\ ackt' = [ackt EXCEPT !.accepted = None, !.confirmedBy = {}, !.observed = b]
    BY <1>1, <1>3, <2>3 DEF Types
  <2>4. CASE ackt.accepted # b /\ ackt' = [ackt EXCEPT !.observed = b]
    BY <1>1, <1>3, <2>4 DEF Types
  <2> QED BY <1>7, <2>2, <2>3, <2>4
<1>9. None \notin Bits
  BY DEF None, Bits
<1>10. Types'
  BY <1>1, <1>2, <1>3, <1>6, <1>8 DEF Types
<1>11. Result' = Result /\ Disputed' = Disputed
  BY <1>2 DEF Result, Disputed
<1>12. Newest'
  <2>1. ASSUME NEW s \in Rows
        PROVE  /\ ioc.online /\ feed'[s] # <<>> => feed'[s][Len(feed'[s])] = ioc.bit
               /\ row'[s].cancelled \/ ~ioc.online => feed'[s] = <<>>
    <3>1. CASE s = r
      BY <1>3, <1>4, <1>5, <1>6, <3>1
    <3>2. CASE s # r
      BY <1>1, <1>4, <1>6, <3>2 DEF Followed, Newest
    <3> QED BY <3>1, <3>2
  <2> QED BY <1>2, <2>1 DEF Newest
<1>13. Corrected'
  <2> SUFFICES ASSUME ~history.misled, NEW s \in Rows, Monitored(s)', feed'[s] = <<>>,
                      row'[s].mask # ioc.bit
               PROVE  \E i \in 1..Len(ioc.puts) : ioc.puts[i] # ioc.bit
    BY <1>2 DEF Corrected
  <2>1. s # r
    BY <1>3, <1>4, <1>5, <1>6
  <2>2. Monitored(s) /\ feed[s] = <<>> /\ row[s].mask # ioc.bit
    BY <1>2, <1>4, <1>6, <2>1 DEF Monitored
  <2> QED BY <1>1, <2>2 DEF Followed, Corrected
<1>14. Shows' /\ Unobserved'
  BY <1>3, <1>6, <1>8, <1>9 DEF Shows, Unobserved
<1>15. AcceptedWins' /\ ForceNewest' /\ NewestRequestWins'
  BY <1>1, <1>2, <1>8, <1>9, <1>11
     DEF Followed, AcceptedWins, ForceNewest, NewestRequestWins
<1>16. ASSUME ~Disputed, ackt.accepted # None
       PROVE  /\ \A i \in 1..Len(ioc.puts) : ioc.puts[i] = ackt.accepted
              /\ \A s \in Rows : \A i, j \in 1..Len(feed[s]) :
                   i < j /\ feed[s][i] = ackt.accepted => feed[s][j] = ackt.accepted
              /\ ioc.bit # ackt.accepted =>
                   \A s \in Rows : \A i \in 1..Len(feed[s]) : feed[s][i] # ackt.accepted
              /\ \A s \in ackt.confirmedBy :
                   /\ ioc.bit = ackt.accepted
                   /\ \A i \in 1..Len(feed[s]) : feed[s][i] = ackt.accepted
              /\ ackt'.accepted = ackt.accepted
  <2>1. /\ \A i \in 1..Len(ioc.puts) : ioc.puts[i] = ackt.accepted
        /\ \A s \in Rows : \A i, j \in 1..Len(feed[s]) :
             i < j /\ feed[s][i] = ackt.accepted => feed[s][j] = ackt.accepted
        /\ ioc.bit # ackt.accepted =>
             \A s \in Rows : \A i \in 1..Len(feed[s]) : feed[s][i] # ackt.accepted
        /\ \A s \in ackt.confirmedBy :
             /\ ioc.bit = ackt.accepted
             /\ \A i \in 1..Len(feed[s]) : feed[s][i] = ackt.accepted
    BY <1>1, <1>16 DEF Followed, InOrder
  <2>2. r \in ackt.confirmedBy => b = ackt.accepted
    BY <1>3, <2>1
  <2>3. ackt'.accepted = ackt.accepted
    BY <1>8, <2>2
  <2> QED BY <2>1, <2>3
<1>17. Untouched'
  <2> SUFFICES ASSUME ~Disputed, ackt'.accepted = None PROVE Untouched'
    BY <1>11 DEF Untouched
  <2>1. ackt.accepted = None
    BY <1>16
  <2>2. /\ ioc.puts = <<>> /\ history.wanted = ioc.bit
        /\ \A s \in Rows : \A i \in 1..Len(feed[s]) : feed[s][i] = ioc.bit
    BY <1>1, <2>1 DEF Followed, Untouched
  <2>3. b = ioc.bit
    BY <1>3, <2>2
  <2>4. ASSUME NEW s \in Rows, NEW i \in 1..Len(feed'[s])
        PROVE  feed'[s][i] = ioc.bit
    <3>1. CASE s = r
      <4>1. i + 1 \in 1..Len(feed[r]) /\ feed'[r][i] = feed[r][i + 1]
        BY <1>3, <1>4, <3>1
      <4> QED BY <2>2, <3>1, <4>1
    <3>2. CASE s # r
      BY <1>4, <2>2, <3>2
    <3> QED BY <3>1, <3>2
  <2> QED BY <1>2, <1>3, <1>8, <1>9, <2>2, <2>3, <2>4 DEF Untouched
<1>18. InOrder'
  <2> SUFFICES ASSUME ~Disputed, ackt'.accepted # None PROVE InOrder'
    BY <1>11 DEF InOrder
  <2> DEFINE a == ackt.accepted
  <2>1. a # None
    BY <1>8
  <2>2. /\ \A i \in 1..Len(ioc.puts) : ioc.puts[i] = a
        /\ \A s \in Rows : \A i, j \in 1..Len(feed[s]) :
             i < j /\ feed[s][i] = a => feed[s][j] = a
        /\ ioc.bit # a => \A s \in Rows : \A i \in 1..Len(feed[s]) : feed[s][i] # a
        /\ \A s \in ackt.confirmedBy :
             ioc.bit = a /\ \A i \in 1..Len(feed[s]) : feed[s][i] = a
        /\ ackt'.accepted = a
    BY <1>16, <2>1
  <2>3. ackt.confirmedBy \subseteq Rows
    BY <1>1 DEF Types
  <2>4. /\ ackt'.confirmedBy \subseteq ackt.confirmedBy \cup {r}
        /\ r \in ackt'.confirmedBy => b = a \/ r \in ackt.confirmedBy
    BY <1>8
  <2> HIDE DEF a
  <2>5. ASSUME NEW s \in Rows
        PROVE  /\ \A i, j \in 1..Len(feed'[s]) : i < j /\ feed'[s][i] = a => feed'[s][j] = a
               /\ ioc.bit # a => \A i \in 1..Len(feed'[s]) : feed'[s][i] # a
               /\ s \in ackt'.confirmedBy =>
                    ioc.bit = a /\ \A i \in 1..Len(feed'[s]) : feed'[s][i] = a
    <3>1. CASE s # r
      BY <1>4, <2>2, <2>4, <3>1
    <3>2. CASE s = r
      <4>1. /\ \A i \in 1..Len(feed'[r]) : /\ i + 1 \in 1..Len(feed[r])
                                           /\ feed'[r][i] = feed[r][i + 1] /\ 1 < i + 1
        BY <1>3, <1>4
      <4>2. ASSUME NEW i \in 1..Len(feed'[r]), NEW j \in 1..Len(feed'[r]),
                   i < j, feed'[r][i] = a
            PROVE  feed'[r][j] = a
        <5>1. i + 1 < j + 1
          BY <4>2
        <5> QED BY <2>2, <4>1, <4>2, <5>1
      <4>3. ioc.bit # a => \A i \in 1..Len(feed'[r]) : feed'[r][i] # a
        BY <2>2, <4>1
      <4>4. ASSUME r \in ackt'.confirmedBy
            PROVE  ioc.bit = a /\ \A i \in 1..Len(feed'[r]) : feed'[r][i] = a
        <5>1. CASE r \in ackt.confirmedBy
          BY <2>2, <4>1, <5>1
        <5>2. CASE b = a
          BY <1>3, <2>2, <4>1, <5>2
        <5> QED BY <2>4, <4>4, <5>1, <5>2
      <4> QED BY <3>2, <4>2, <4>3, <4>4
    <3> QED BY <3>1, <3>2
  <2>6. ackt'.confirmedBy \subseteq Rows
    BY <2>3, <2>4
  <2> QED BY <1>2, <2>2, <2>5, <2>6 DEF InOrder
<1> QED BY <1>10, <1>12, <1>13, <1>14, <1>15, <1>17, <1>18 DEF FollowInv, Followed

LEMMA StepFollowed == FollowInv /\ [Next]_vars => FollowInv'
<1> SUFFICES ASSUME FollowInv, [Next]_vars PROVE FollowInv'
  OBVIOUS
<1>1. CASE Apply
  BY <1>1, ApplyFollowed
<1>2. CASE OtherClient
  BY <1>2, OtherFollowed
<1>3. CASE Break
  BY <1>3, BreakFollowed
<1>4. CASE Reconnect
  BY <1>4, ReconnectFollowed
<1>5. CASE RequestAny
  <2>1. PICK r \in Rows, t \in Bits, kind \in {"named", "force", "carried"},
             c \in BOOLEAN, ok \in BOOLEAN : Request(r, t, kind, c, ok)
    BY <1>5 DEF RequestAny
  <2> QED BY <2>1, RequestFollowed
<1>6. CASE RetryForce
  BY <1>6, RetryFollowed
<1>7. CASE DiscardForce
  BY <1>7, DiscardFollowed
<1>8. ASSUME NEW r \in Rows, Deliver(r)
      PROVE  FollowInv'
  BY <1>8, DeliverFollowed
<1>9. CASE UNCHANGED vars
  BY <1>9 DEF FollowInv, Followed, Types, vars, Newest, Corrected, Shows, Unobserved,
     AcceptedWins, Untouched, InOrder, ForceNewest, NewestRequestWins, Monitored, Result, Disputed
<1> QED BY <1>1, <1>2, <1>3, <1>4, <1>5, <1>6, <1>7, <1>8, <1>9 DEF Next

(* The record ends up with the newest request and every monitored row with *)
(* the record: applyMask, retryForceWrites and process, for every number   *)
(* of rows that share a record.                                            *)
THEOREM RowsFollowNewestRequest == Spec => []RowsFollowRequests
<1>1. Init => FollowInv
  BY InitFollowed
<1>2. FollowInv /\ [Next]_vars => FollowInv'
  BY StepFollowed
<1>3. FollowInv => RowsFollowRequests
  BY Following
<1> QED BY <1>1, <1>2, <1>3, PTL DEF Spec
=============================================================================
