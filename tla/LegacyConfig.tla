----------------------------- MODULE LegacyConfig -----------------------------
(***************************************************************************)
(* How the legacy ALH reads and writes the same configuration files        *)
(* (alh/alConfig.c).  It keeps the channels and the subgroups of a group   *)
(* in two lists, and of the settings of a node what is in effect.          *)
(***************************************************************************)
EXTENDS ConfigDocument

(* "first" is p1stgroup, "group" glink and "target" gclink.                *)
LegacyStart ==
  [nodes |-> << >>, first |-> None, group |-> None, target |-> None, frames |-> << >>,
   beepSeverity |-> 1, heartbeat |-> << >>]

FirstWins == {"ALIAS", "COMMAND", "GUIDANCE", "ALARMCOUNTFILTER", "FORCEPV", "FORCEPV_CALC_A"}
LastWins  == {"BEEPSEVR", "ACKPV", "FORCEPV_CALC"}
Lists     == {"SEVRCOMMAND", "STATCOMMAND", "GUIDANCE_TEXT"}

NoSettings == [key \in {} |-> << >>]

Taken(settings, key, value) ==
  LET old == IF key \in DOMAIN settings THEN settings[key] ELSE << >>
      new == IF key \in Lists THEN old \o value
             ELSE IF old = << >> \/ key \in LastWins \/ (key = "SEVRPV" /\ old = << "-" >>)
                  THEN << value >> ELSE old
  IN [k \in DOMAIN settings \cup {key} |-> IF k = key THEN new ELSE settings[k]]

LegacyNode(l, isGroup, name, parent) ==
  LET n     == Len(l.nodes) + 1
      node  == [group |-> isGroup, name |-> name, parent |-> parent,
                children |-> << >>, directives |-> NoSettings]
      nodes == Append(l.nodes, node)
  IN [l EXCEPT !.nodes = IF parent = None THEN nodes ELSE [nodes EXCEPT ![parent].children = Append(@, n)],
               !.group = IF isGroup THEN n ELSE parent, !.target = n]

GetGroupLine(l, s) ==
  LET parent == IF s.parent # "NULL" THEN Nearest(l, l.group, s.parent)
                ELSE IF l.first = None THEN None ELSE l.group
      read   == LegacyNode(l, TRUE, s.name, parent)
  IN IF l.first = None THEN [read EXCEPT !.first = read.target] ELSE read

GetChannelLine(l, s) == LegacyNode(l, FALSE, s.name, Nearest(l, l.group, s.parent))

(* The file is read as a configuration whose first group is the parent.    *)
GetIncludeLine(l, s) ==
  LET parent == Nearest(l, l.group, s.parent)
  IN [l EXCEPT !.frames = Append(@, [first |-> l.first, parent |-> parent]),
               !.first = parent, !.group = parent, !.target = None]

EndOfInclude(l) ==
  LET f == Last(l.frames)
  IN [l EXCEPT !.frames = Front(@), !.first = f.first, !.group = f.parent, !.target = f.parent]

GetOptionalLine(l, s) ==
  CASE s.key = "BEEPSEVERITY" -> [l EXCEPT !.beepSeverity = s.value]
    [] s.key = "HEARTBEATPV"  -> IF l.heartbeat = << >> THEN [l EXCEPT !.heartbeat = << s.value >>] ELSE l
    [] OTHER -> IF l.target = None THEN l
                ELSE [l EXCEPT !.nodes[l.target].directives = Taken(@, s.key, s.value)]

(* Lines that QtALH accepts.                                               *)
LegacyRead(l, s) ==
  CASE s.op = "GROUP"   -> GetGroupLine(l, s)
    [] s.op = "CHANNEL" -> GetChannelLine(l, s)
    [] s.op = "INCLUDE" -> GetIncludeLine(l, s)
    [] s.op = "END"     -> EndOfInclude(l)
    [] s.op = "$"       -> GetOptionalLine(l, s)

(* alWriteConfig writes one file in canonical order, under the names of    *)
(* the parents and without the heartbeat.                                  *)
LegacyDeclaration(l, n) ==
  LET node   == l.nodes[n]
      parent == IF node.parent = None THEN "NULL" ELSE l.nodes[node.parent].name
  IN IF node.group THEN Group(parent, node.name) ELSE Channel(parent, node.name)


(* Settings are written in this order, and $ACKPV not at all.              *)
SettingOrder ==
  << "BEEPSEVR", "FORCEPV", "FORCEPV_CALC", "FORCEPV_CALC_A", "SEVRPV", "COMMAND", "ALIAS",
     "ALARMCOUNTFILTER", "SEVRCOMMAND", "STATCOMMAND", "GUIDANCE", "GUIDANCE_TEXT" >>

(* What is not different from not being set, and the expression of a Force *)
(* PV that is not CALC, are not written.                                   *)
Inert(settings, key) ==
  \/ <<key, settings[key]>> \in {<<"SEVRPV", << "-" >> >>, <<"BEEPSEVR", << 1 >> >>}
  \/ /\ key \in {"FORCEPV_CALC", "FORCEPV_CALC_A"}
     /\ "FORCEPV" \in DOMAIN settings => settings["FORCEPV"] # << "CALC" >>

InEffect(settings) ==
  [key \in {k \in DOMAIN settings : ~Inert(settings, k)} |-> settings[key]]

Settings(settings) ==
  LET Written(key) ==
        IF key \notin DOMAIN InEffect(settings) THEN << >>
        ELSE IF key = "GUIDANCE_TEXT" THEN << Directive(key, settings[key]) >>
        ELSE IF key \in Lists
             THEN [i \in DOMAIN settings[key] |-> Directive(key, << settings[key][i] >>)]
        ELSE << Directive(key, settings[key][1]) >>
  IN FlattenSeq([i \in DOMAIN SettingOrder |-> Written(SettingOrder[i])])

RECURSIVE AlWriteGroupConfig(_, _)
AlWriteGroupConfig(l, n) ==
  LET Of(isGroup) ==
        FlattenSeq([i \in DOMAIN l.nodes[n].children |->
          LET child == l.nodes[n].children[i]
          IN IF l.nodes[child].group = isGroup THEN AlWriteGroupConfig(l, child) ELSE << >>])
  IN << LegacyDeclaration(l, n) >> \o Settings(l.nodes[n].directives) \o Of(FALSE) \o Of(TRUE)

AlWriteConfig(l) ==
  (IF l.beepSeverity > 1 THEN << Directive("BEEPSEVERITY", l.beepSeverity) >> ELSE << >>)
    \o AlWriteGroupConfig(l, Root)
=============================================================================
