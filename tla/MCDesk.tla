-------------------------------- MODULE MCDesk --------------------------------
(***************************************************************************)
(* Instances for TLC of what surrounds the engine at the operator's desk.  *)
(* A behaviour reads a configuration file, edits and saves a configuration *)
(* in the editor, or watches channels for the analytics.                   *)
(***************************************************************************)
EXTENDS ConfigFiles, Desk

CONSTANTS k1, k2, opened, other, i1, i2

VARIABLE part

(* Where nodes are declared, in which file and under which parent; which   *)
(* of repeated settings count; and where INCLUDE files stand.              *)
Tree     == {Group("NULL", "A"), Group("A", "B"), Channel("A", "c"), Channel("B", "d"),
             IncludeOf("A"), IncludeOf("B"), End}
OneGroup == {Group("NULL", "A"), Channel("A", "c"), IncludeOf("A"), End}
Alias    == Directive("ALIAS", "x")
Values   == {Alias, Directive("BEEPSEVR", 2), Directive("BEEPSEVR", 1), Directive("SEVRPV", "-"),
             Directive("SEVRPV", "p"), Directive("SEVRCOMMAND", << "u" >>),
             Directive("GUIDANCE_TEXT", << "g" >>), Directive("ALARMCOUNTFILTER", "1"),
             Directive("ACKPV", "a"), Directive("ACKPV", "b"), Directive("FORCEPV", "f"),
             Directive("FORCEPV", "CALC"), Directive("FORCEPV_CALC", "e")}
Lines    == {Directive("BEEPSEVERITY", 1), Directive("BEEPSEVERITY", 2),
             Directive("HEARTBEATPV", "h"), Directive("HEARTBEATPV", "i"),
             Directive("SEVRCOMMAND", << "u" >>)}

FileScopes ==
  {[statements |-> Tree \cup {Alias, Directive("BEEPSEVERITY", 2)}, length |-> 6, names |-> {"A"}],
   [statements |-> OneGroup \cup Values, length |-> 5, names |-> {}],
   [statements |-> OneGroup \cup Lines, length |-> 6, names |-> {}],
   [statements |-> OneGroup \cup {Alias}, length |-> 7, names |-> {"n"}]}

TwoIncludes == {k1, k2}
OneMain     == {other}
EditScopes  ==
  {[edits |-> 2, saves |-> 2, failures |-> 1, foreign |-> 0, sizes |-> {1}],
   [edits |-> 1, saves |-> 2, failures |-> 1, foreign |-> 1, sizes |-> {1}],
   [edits |-> 3, saves |-> 0, failures |-> 0, foreign |-> 0, sizes |-> {1, 3}]}

(* A channel whose identity may be shared by two nodes, next to one that   *)
(* is left out; and one whose configuration becomes that of another file.  *)
TwoIdentities == {i1, i2}
Single == [count |-> [i \in TwoIdentities |-> IF i = i1 THEN 1 ELSE 0], excluded |-> {}]
Mixed  == [count |-> [i \in TwoIdentities |-> IF i = i1 THEN 2 ELSE 1], excluded |-> {i2}]
Watched(configurations, others, changes, attachments, resets, steps) ==
  [configurations |-> configurations, others |-> others, changes |-> changes,
   attachments |-> attachments, resets |-> resets, steps |-> steps, requests |-> 1]
WatchScopes ==
  {Watched({Single}, {}, 3, 0, 0, 0),
   Watched({Single, Mixed}, {FALSE}, 1, 2, 0, 0),
   Watched({Single}, {TRUE}, 1, 1, 1, 0),
   Watched({Single}, {}, 1, 0, 0, 1)}

(* The parts that do not take part start in one state.                     *)
DeskInit ==
  /\ part \in {"files", "editor", "analytics"}
  /\ Init /\ Editor!Init /\ Analytics!Init
  /\ part # "files" => scope.names = {"n"}
  /\ part # "editor" => left.edits = 1
  /\ part # "analytics" => budget.changes = 3

DeskNext ==
  \/ part = "files" /\ Next /\ UNCHANGED <<part, editorVars, analyticsVars>>
  \/ part = "editor" /\ Editor!Next /\ UNCHANGED <<part, vars, analyticsVars>>
  \/ part = "analytics" /\ Analytics!Next /\ UNCHANGED <<part, vars, editorVars>>

DeskSpec == DeskInit /\ [][DeskNext]_<<part, vars, editorVars, analyticsVars>>
=============================================================================
