------------------------------ MODULE ConfigFiles ------------------------------
(***************************************************************************)
(* A configuration is read statement by statement, by QtALH and by the     *)
(* legacy ALH side by side.  Whatever QtALH has read so far, if it ends    *)
(* there, is a document to save, and to edit in the configuration editor   *)
(* (ui/window.cc): an edit is made on a copy, which is written as text and *)
(* read back, and what was read is the new document.                       *)
(***************************************************************************)
EXTENDS LegacyConfig

CONSTANT
  Scopes    \* of a behaviour: its statements, how many, and the names given in the editor

VARIABLES
  reader,   \* QtALH's parser
  alh,      \* what the legacy program has read of the same file
  scope     \* what is left of the bounds

vars == <<reader, alh, scope>>

doc      == reader.doc

(* A Force PV named CALC needs an expression.                              *)
Calculable(node) ==
  Option(node.directives, "FORCEPV") = << "CALC" >> => Valued(node.directives, "FORCEPV_CALC") # << >>

Readable ==
  /\ reader.frames = << >> /\ doc.nodes # << >>
  /\ \A n \in DOMAIN doc.nodes : Calculable(doc.nodes[n])

Init ==
  /\ scope \in Scopes
  /\ reader = ReaderStart
  /\ alh = LegacyStart

(* A statement that makes QtALH give up the file is not followed further,  *)
(* and every INCLUDE is left enough statements to end.                     *)
ReadStatement(s) ==
  /\ scope.length > 0
  /\ s.op = "END" => reader.frames # << >>
  /\ s.op = "END" \/ scope.length > Len(reader.frames) + (IF s.op = "INCLUDE" THEN 1 ELSE 0)
  /\ reader' = Read(reader, s)
  /\ ~reader'.failed
  /\ alh' = LegacyRead(alh, s)
  /\ scope' = [scope EXCEPT !.length = @ - 1]

Next ==
  \/ \E s \in scope.statements : s.op \in {"GROUP", "CHANNEL"} /\ ReadStatement(s)
  \/ \E s \in scope.statements : s.op \in {"INCLUDE", "END"} /\ ReadStatement(s)
  \/ \E s \in scope.statements : s.op = "$" /\ ReadStatement(s)

Spec == Init /\ [][Next]_vars
-----------------------------------------------------------------------------
(* The edits of a document.                                                *)
Position(d, n) == SelectInSeq(d.nodes[d.nodes[n].parent].children, LAMBDA m : m = n)

(* takeChild, insertChild: INCLUDE lines keep their place among children.  *)
TakeChild(d, n) ==
  LET parent == d.nodes[n].parent
      index  == Position(d, n) - 1
      Shifted(l) == [l EXCEPT !.children = IF @ > index THEN @ - 1 ELSE @]
  IN [d EXCEPT !.nodes[parent].children = RemoveAt(@, index + 1),
               !.nodes[parent].includes = [i \in DOMAIN @ |-> Shifted(@[i])]]

InsertChild(d, parent, index, node) ==
  LET Shifted(l) == [l EXCEPT !.children = IF @ > index THEN @ + 1 ELSE @]
  IN [d EXCEPT !.nodes = Append([d.nodes EXCEPT
                    ![parent].children = InsertAt(@, index + 1, Len(d.nodes) + 1),
                    ![parent].includes = [i \in DOMAIN @ |-> Shifted(@[i])]],
                  node)]

(* addNode: right after the selection, in its file, or first in a group.   *)
AddAfter(d, n, isGroup, name) ==
  InsertChild(d, d.nodes[n].parent, Position(d, n),
              NewNode(isGroup, name, d.nodes[n].parent, Unwritten, d.nodes[n].origin))

AddInside(d, n, isGroup, name) == InsertChild(d, n, 0, NewNode(isGroup, name, n, Unwritten, None))

(* cloneNode without origins: what is pasted joins the file of its group.  *)
Paste(d, n, p) ==
  LET k == Len(d.nodes)
      Copy(m) == [d.nodes[m] EXCEPT
                    !.parent = IF m = n THEN p ELSE @ + k,
                    !.token  = IF m = n THEN Unwritten ELSE @,
                    !.children = [i \in DOMAIN @ |-> @[i] + k],
                    !.origin = None, !.includes = << >>]
  IN [d EXCEPT !.nodes = [d.nodes EXCEPT ![p].children = Append(@, n + k)]
                           \o [m \in DOMAIN d.nodes |-> Copy(m)]]

(* Properties: another name; a value of a single directive, replaced in    *)
(* place or put after the others.                                          *)
Rename(d, n, name) == [d EXCEPT !.nodes[n].name = name, !.nodes[n].token = Unwritten]

SetOption(d, n, key, value) ==
  LET directives == d.nodes[n].directives
      i == SelectInSeq(directives, LAMBDA e : e.key = key)
      later == SelectSeq(SubSeq(directives, i + 1, Len(directives)), LAMBDA e : e.key # key)
  IN [d EXCEPT !.nodes[n].directives =
        IF i = 0 THEN Append(@, [key |-> key, value |-> value, read |-> FALSE])
        ELSE SubSeq(@, 1, i - 1) \o << [@[i] EXCEPT !.value = value] >> \o later]

(* The copies an edit may make.                                            *)
Edited(d) ==
  LET nodes  == NodesOf(d)
      groups == {n \in nodes : d.nodes[n].group}
  IN {TakeChild(d, n) : n \in nodes \ {Root}}
       \cup {AddAfter(d, n, isGroup, name) : n \in nodes \ {Root}, isGroup \in BOOLEAN, name \in scope.names}
       \cup {AddInside(d, n, isGroup, name) : n \in groups, isGroup \in BOOLEAN, name \in scope.names}
       \cup {Paste(d, n, p) : n \in nodes, p \in groups}
       \cup {Rename(d, n, name) : n \in nodes, name \in scope.names}
       \cup {SetOption(d, n, "ALIAS", "y") : n \in nodes}

RepeatsAncestorName(d) ==
  \E n \in NodesOf(d) : d.nodes[n].group /\ Nearest(d, d.nodes[n].parent, d.nodes[n].name) # None
-----------------------------------------------------------------------------
(* Settings in effect, as the engine takes them from the directives.       *)
Effective(directives) ==
  [key \in {directives[i].key : i \in DOMAIN directives} |->
     IF key \in Lists
     THEN FlattenSeq([i \in DOMAIN Valued(directives, key) |-> Valued(directives, key)[i].value])
     ELSE Option(directives, key)]

(* Both programs read the same tree with the same settings in effect, and  *)
(* are at the same place of it, after every statement: what a nameless or  *)
(* a repeated parent means, where an INCLUDE file starts and where its     *)
(* file goes on, which of several values counts.                           *)
SameNode(node, other) ==
  /\ <<node.group, node.name, node.parent, node.children>>
       = <<other.group, other.name, other.parent, other.children>>
  /\ Effective(node.directives) = other.directives

ReadersAgree ==
  /\ DOMAIN doc.nodes = DOMAIN alh.nodes
  /\ \A n \in DOMAIN alh.nodes : SameNode(doc.nodes[n], alh.nodes[n])
  /\ doc.beepSeverity = alh.beepSeverity /\ doc.heartbeat = alh.heartbeat
  /\ InGroup(doc, reader.current) = alh.group
  /\ alh.target = IF reader.declared THEN reader.current ELSE None

(* differences: what Save compares with what it would read back.           *)
Plain(directives) == [i \in DOMAIN directives |-> <<directives[i].key, directives[i].value>>]

Listing(d) ==
  LET entries == Canonical(d.nodes) IN
     <<[i \in DOMAIN entries |-> [entries[i] EXCEPT !.directives = Plain(@)]],
       d.beepSeverity, d.heartbeat>>

ReadsBack(d, read) == ~read.failed /\ Listing(read.doc) = Listing(d)

(* No INCLUDE among the directives of a group that has children already,   *)
(* or, if it declares nothing, outside the file of the group.              *)
Placed(d, n, l) ==
  l.directives >= 0 =>
    l.children = 0 /\ (l.empty => d.files[l.file].parent = d.nodes[n].origin)

Ordered(d) == \A n \in NodesOf(d) : \A l \in ToSet(d.nodes[n].includes) : Placed(d, n, l)

Saveable(d) == d.nodes # << >> /\ ~RepeatsAncestorName(d) /\ Ordered(d)

(* saveTo: the files on disk after a save.  INCLUDE files are not written  *)
(* if their text is what it was when the configuration was opened.         *)
OnDisk(before, after) ==
  [k \in DOMAIN after |->
     IF k # None /\ k \in DOMAIN before /\ before[k] = after[k] THEN doc.files[k].text ELSE after[k]]

(* What these files can say that the writer would not: a setting of the    *)
(* group of the file above, after an INCLUDE line of their own.            *)
OfTheGroupAbove(k) ==
  \E i, j \in DOMAIN doc.files[k].text :
    LET text == doc.files[k].text IN
    /\ i < j /\ \A m \in i + 1 .. j : text[m].op = "$"
    /\ text[i].op = "INCLUDE" /\ doc.nodes[Attached(doc, text[i].path)].origin # k

(* A document line that is not the one in effect.                          *)
Overruled(k) ==
  \E s \in ToSet(doc.files[k].text) :
    /\ s.op = "$" /\ s.key \in {"BEEPSEVERITY", "HEARTBEATPV"}
    /\ s.value # DocumentValue(doc, s.key)

(* Another $BEEPSEVERITY takes effect, and the INCLUDE line is not among   *)
(* the directives of its group.                                            *)
MovesBehind(k) ==
  /\ Overruled(k)
  /\ \E l \in IncludeLines(doc), i \in DOMAIN doc.lines :
       /\ l.file \in ToSet(FileChain(doc, k)) /\ l.directives < 0
       /\ doc.lines[i].key = "BEEPSEVERITY" /\ doc.lines[i].file = doc.files[l.file].parent

(* The files of a document that did not change.                            *)
FilesReadBack(files) ==
  /\ ReadsBack(doc, Parse(Joined(files, None)))
  /\ (\A k \in DOMAIN doc.files : ~OfTheGroupAbove(k) /\ ~MovesBehind(k)) =>
       ReadsBack(doc, Parse(Joined(OnDisk(files, files), None)))

(* SavedReadsBack: a configuration that was read can be saved as one file, *)
(* and with its INCLUDE files, where the text of all files and what is on  *)
(* disk after Save read back as it was: a $BEEPSEVERITY line keeps its     *)
(* place behind an INCLUDE line among the directives, and an INCLUDE file  *)
(* that stays as it is still says the same.  Not so for groups that repeat *)
(* a name from above, which Save may refuse, for what is not Ordered       *)
(* (SaveKeepsOrder), and for two kinds of INCLUDE files                    *)
(* (UnchangedFilesAgree).                                                  *)
SavedReadsBack ==
  Readable /\ Saveable(doc) =>
    ReadsBack(doc, Parse(AsOneFile(doc))) /\ FilesReadBack(Files(doc))

(* UnchangedFilesAgree: "a $BEEPSEVERITY line after an INCLUDE line must   *)
(* still override that file's" (qtalh/core/config.cc:861-862).  It does    *)
(* not once Save has moved it before an INCLUDE line that follows a        *)
(* channel or another INCLUDE line; and settings that an INCLUDE file      *)
(* makes for its group after an INCLUDE line of its own are read twice.    *)
UnchangedFilesAgree ==
  LET Unchanged(files) == OnDisk(files, files)
  IN Readable /\ Saveable(doc) => ReadsBack(doc, Parse(Joined(Unchanged(Files(doc)), None)))

(* A tree without the order of siblings: a new node may move past INCLUDE  *)
(* files that are read at its place.                                       *)
RECURSIVE Subtree(_, _)
Subtree(d, n) ==
  LET children == [i \in DOMAIN d.nodes[n].children |-> Subtree(d, d.nodes[n].children[i])]
  IN [group |-> d.nodes[n].group, name |-> d.nodes[n].name,
      values |-> Plain(d.nodes[n].directives),
      children |-> [t \in Range(children) |-> Cardinality({i \in DOMAIN children : children[i] = t})]]

(* INCLUDE files declare only what lies below the group of their INCLUDE.  *)
Nested(d) ==
  \A n \in NodesOf(d) : \A k \in ToSet(FileChain(d, d.nodes[n].origin)) :
    LET group == Attached(d, k) IN group # None /\ n \in Reachable(d, group)

(* hierarchyChange: the editor refuses an edit that would move a node to   *)
(* another group of the same name.                                         *)
HierarchyChange(d, read) ==
  LET Depths(nodes) == LET entries == Canonical(nodes) IN [i \in DOMAIN entries |-> entries[i].depth]
  IN RepeatsAncestorName(d) /\ (read.failed \/ Depths(read.doc.nodes) # Depths(d.nodes))

(* The document of an edit is saved over the files before it.              *)
SaveKeeps(edited, before, after) ==
  /\ ReadsBack(edited, Parse(Joined(after, None)))
  /\ (\A k \in DOMAIN doc.files : ~OfTheGroupAbove(k) /\ ~Overruled(k)) =>
       ReadsBack(edited, Parse(Joined(OnDisk(before, after), None)))

(* The tree is the one edited; the editor may have refused.                *)
EditKept(candidate, reread, before) ==
  ~HierarchyChange(candidate, reread) =>
    /\ ~reread.failed
    /\ Subtree(reread.doc, Root) = Subtree(candidate, Root)
    /\ <<reread.doc.beepSeverity, reread.doc.heartbeat>> = <<doc.beepSeverity, doc.heartbeat>>
    /\ Saveable(reread.doc) => SaveKeeps(reread.doc, before, Files(reread.doc))

EditsKept(before) ==
  \A candidate \in {d \in Edited(doc) : Ordered(d) /\ Nested(d)} :
    EditKept(candidate, ParseEdit(Joined(Files(candidate), None)), before)

(* EditKeepsTree: what the editor reads back after an edit is the tree     *)
(* that was edited, also where a group repeats the name of one above and   *)
(* the edit is not refused; and what Save puts on disk then reads back as  *)
(* that, with the INCLUDE files that the edit left alone.                  *)
EditKeepsTree == Readable /\ Ordered(doc) => EditsKept(Files(doc))

(* What differs between a configuration and what QtALH reads once the      *)
(* legacy ALH has saved it: keys of settings in effect.                    *)
LegacySaveLoses ==
  LET read    == Parse(AlWriteConfig(alh)).doc
      entries == Canonical(doc.nodes)
      again   == Canonical(read.nodes)
      Keys(s, t) == {k \in DOMAIN s \cup DOMAIN t :
                       k \in DOMAIN s /\ k \in DOMAIN t => s[k] # t[k]}
  IN UNION {Keys(InEffect(Effective(entries[i].directives)), InEffect(Effective(again[i].directives))) :
              i \in DOMAIN entries}
       \cup (IF read.heartbeat # doc.heartbeat THEN {"HEARTBEATPV"} ELSE {})
       \cup (IF read.beepSeverity # doc.beepSeverity THEN {"BEEPSEVERITY"} ELSE {})


(* LegacySaveKeepsSettings: Save As saves the "current alarm configuration *)
(* settings" (alh/documentation/ALH.html:1226-1227).  Not all of them.     *)
LegacySaveKeepsSettings == Readable /\ Saveable(doc) => LegacySaveLoses = {}

(* Not so: an INCLUDE that follows another one and then a directive keeps  *)
(* its place among the directives, before the channels of the first; and   *)
(* one that comes first in an INCLUDE file and declares nothing is not     *)
(* written.                                                                *)
SaveKeepsOrder ==
  Readable /\ ~RepeatsAncestorName(doc) => ReadsBack(doc, Parse(Joined(Files(doc), None)))
=============================================================================
