----------------------------- MODULE AlarmTree -----------------------------
(***************************************************************************)
(* The configured hierarchy of alarm groups and channels (Document and     *)
(* Node of qtalh/core/model.h) as constants.  A channel is a leaf, every   *)
(* other node is a group.                                                  *)
(***************************************************************************)
EXTENDS Integers, Sequences, FiniteSets

CONSTANTS
  Channels,        \* the leaves, Document::channels()
  Groups,          \* the inner nodes
  Root,            \* Document::root
  Ancestors,       \* for each node, every group on its parent chain
  DirectChannels,  \* for each group, its channel children in file order
  Subgroups,       \* for each group, its group children in file order
  Order            \* position of a node in Document::nodes() (preorder)

Nodes == Channels \cup Groups

\* Engine::eachChannel visits the channels of a group before its subgroups,
\* whatever their order in the file.
ChildrenOf(g) == DirectChannels[g] \o Subgroups[g]

IsChildOf(n, g) == \E i \in 1..Len(ChildrenOf(g)) : ChildrenOf(g)[i] = n

\* The channels a group summarises.
Below(g) == {c \in Channels : g \in Ancestors[c]}

\* The groups strictly between a node and one of its ancestors.
Between(n, g) == {h \in Ancestors[n] : g \in Ancestors[h]}

ASSUME TreeTyping ==
  /\ IsFiniteSet(Channels)
  /\ IsFiniteSet(Groups)
  /\ Channels \cap Groups = {}
  /\ Root \in Groups
  /\ Ancestors \in [Nodes -> SUBSET Groups]
  /\ DirectChannels \in [Groups -> Seq(Channels)]
  /\ Subgroups \in [Groups -> Seq(Groups)]
  /\ Order \in [Nodes -> Nat]

ASSUME TreeShape ==
  /\ Ancestors[Root] = {}
  /\ \A g \in Groups : ~IsChildOf(Root, g)
  /\ \A n \in Nodes \ {Root} :
       \E g \in Groups : /\ IsChildOf(n, g)
                         /\ \A h \in Groups : IsChildOf(n, h) => h = g
                         /\ Ancestors[n] = {g} \cup Ancestors[g]
                         /\ n \notin Ancestors[n]
                         /\ Order[g] < Order[n]
  /\ \A m, n \in Nodes : Order[m] = Order[n] => m = n
=============================================================================
