---------------------------- MODULE ConfigDocument ----------------------------
(***************************************************************************)
(* Alarm configuration files (qtalh/core/config.cc): how QtALH reads them, *)
(* and how it writes them back with their INCLUDE files.                   *)
(*                                                                         *)
(* A text is a sequence of statements; an INCLUDE statement is followed by *)
(* the statements of its file and "END", or stands for them.  Comments,    *)
(* blank lines, masks and the form of values are left out.  A document is  *)
(* a tree of nodes that remembers what of its files the writer needs.      *)
(***************************************************************************)
EXTENDS Integers, FiniteSets, SequencesExt

(* Statements.                                                             *)
Group(parent, name)   == [op |-> "GROUP", parent |-> parent, name |-> name]
Channel(parent, name) == [op |-> "CHANNEL", parent |-> parent, name |-> name]
IncludeOf(parent)     == [op |-> "INCLUDE", parent |-> parent, path |-> 0]
End                   == [op |-> "END"]
Directive(key, value) == [op |-> "$", key |-> key, value |-> value]

None == 0

(* INCLUDE files are numbered as they are first read; the path of the file *)
(* that includes them is None, as is that of an INCLUDE not read before.   *)
At(statement, path) == [statement EXCEPT !.path = path]

(* The token of a declaration that was not read.                           *)
Unwritten == ""

EmptyDocument ==
  [nodes |-> << >>, files |-> << >>, lines |-> << >>, beepSeverity |-> 1, heartbeat |-> << >>]

(* Node.  "token" is the parent as written in the declaration; a node of   *)
(* an INCLUDE file has it as origin.                                       *)
NewNode(isGroup, name, parent, token, origin) ==
  [group |-> isGroup, name |-> name, parent |-> parent, token |-> token, origin |-> origin,
   children |-> << >>, directives |-> << >>, includes |-> << >>]

InGroup(doc, n) == IF n = None \/ doc.nodes[n].group THEN n ELSE doc.nodes[n].parent

(* A parent's name is that of the nearest group above with the name.       *)
RECURSIVE Nearest(_, _, _)
Nearest(doc, p, name) ==
  IF p = None \/ doc.nodes[p].name = name THEN p ELSE Nearest(doc, doc.nodes[p].parent, name)

FindParent(doc, current, name) == Nearest(doc, InGroup(doc, current), name)

Valued(directives, key) == SelectSeq(directives, LAMBDA d : d.key = key)

(* Node::option: the first directive with the key.                         *)
Option(directives, key) ==
  LET found == Valued(directives, key) IN IF found = << >> THEN << >> ELSE << found[1].value >>

Without(directives, key) ==
  LET i == SelectInSeq(directives, LAMBDA d : d.key = key)
  IN IF i = 0 THEN directives ELSE RemoveAt(directives, i)
-----------------------------------------------------------------------------
(* QtALH reads (Parser::read).  A frame is an INCLUDE that is being read.  *)
(* In the text of an edit, markers stand for the INCLUDE files.            *)
ReaderStart ==
  [doc |-> EmptyDocument, current |-> None, declared |-> FALSE, afterInclude |-> FALSE,
   file |-> None, frames |-> << >>, sequence |-> 0, failed |-> FALSE, markers |-> FALSE]

Fail(r) == [r EXCEPT !.failed = TRUE]

Declare(r, isGroup, s) ==
  LET parent == IF s.parent = "NULL" THEN InGroup(r.doc, r.current)
                ELSE FindParent(r.doc, r.current, s.parent)
      n     == Len(r.doc.nodes) + 1
      nodes == Append(r.doc.nodes, NewNode(isGroup, s.name, parent, s.parent, r.file))
  IN IF \/ s.parent = "NULL" /\ ~isGroup
        \/ s.parent # "NULL" /\ parent = None
     THEN Fail(r)
     ELSE [r EXCEPT !.doc.nodes = IF parent = None THEN nodes
                                  ELSE [nodes EXCEPT ![parent].children = Append(@, n)],
                    !.current = n, !.declared = TRUE, !.afterInclude = FALSE]

StartInclude(r, s) ==
  LET parent == FindParent(r.doc, r.current, s.parent)
      k      == Len(r.doc.files) + 1
      node   == r.doc.nodes[parent]
      line   == [file |-> k, children |-> Len(node.children), empty |-> FALSE,
                 sequence |-> r.sequence + 1,
                 directives |-> IF r.current = parent /\ ~r.afterInclude
                                THEN Len(node.directives) ELSE -1]
  IN IF parent = None THEN Fail(r)
     ELSE [r EXCEPT !.doc.files = Append(@, [parent |-> r.file, token |-> s.parent,
                                             path |-> s.path, text |-> << >>]),
                    !.sequence = @ + 1,
                    !.doc.nodes[parent].includes = Append(@, line),
                    !.frames = Append(@, [parent |-> parent, line |-> Len(node.includes) + 1,
                                          file |-> r.file, nodes |-> Len(r.doc.nodes)]),
                    !.current = parent, !.declared = FALSE,
                    !.afterInclude = @ /\ r.markers, !.file = k]

(* A bug: reading goes on in the last group of the file.                   *)
EndIncludeInPlace(r) ==
  LET f == Last(r.frames) IN
  [r EXCEPT !.doc.nodes[f.parent].includes[f.line].empty = (Len(r.doc.nodes) = f.nodes),
            !.frames = Front(@), !.file = f.file, !.declared = TRUE, !.afterInclude = TRUE]

EndInclude(r) ==
  LET f == Last(r.frames) IN
  [r EXCEPT !.doc.nodes[f.parent].includes[f.line].empty = (Len(r.doc.nodes) = f.nodes),
            !.frames = Front(@), !.file = f.file,
            !.current = f.parent, !.declared = TRUE, !.afterInclude = TRUE]

(* $BEEPSEVERITY and $HEARTBEATPV lines apply to the whole configuration;  *)
(* only the line that takes effect is kept, with the node and the          *)
(* directives it follows.                                                  *)
DocumentLine(r, key) ==
  LET owner == IF r.declared /\ r.doc.nodes[r.current].origin = r.file THEN r.current ELSE None
      line  == [key |-> key, owner |-> owner, file |-> r.file, sequence |-> r.sequence + 1,
                position |-> IF owner = None THEN 0 ELSE Len(r.doc.nodes[owner].directives)]
  IN [r EXCEPT !.doc.lines = Append(SelectSeq(@, LAMBDA l : l.key # key), line),
               !.sequence = @ + 1]

ChannelKeys == {"ACKPV", "ALARMCOUNTFILTER", "STATCOMMAND"}
Replacing   == {"BEEPSEVR", "ACKPV", "FORCEPV_CALC"}

Store(r, s, replace) ==
  [r EXCEPT !.doc.nodes[r.current].directives = Append(IF replace THEN Without(@, s.key) ELSE @,
                                                       [key |-> s.key, value |-> s.value, read |-> TRUE]),
            !.afterInclude = FALSE]

(* Blocks of guidance become one.                                          *)
StoreGuidance(r, s) ==
  LET directives == r.doc.nodes[r.current].directives
      i == SelectInSeq(directives, LAMBDA d : d.key = s.key)
  IN IF i = 0 THEN Store(r, s, FALSE)
     ELSE [r EXCEPT !.doc.nodes[r.current].directives[i].value = @ \o s.value]

ReadDirective(r, s) ==
  CASE s.key = "BEEPSEVERITY" ->
         DocumentLine([r EXCEPT !.doc.beepSeverity = s.value], s.key)
    [] s.key = "HEARTBEATPV" ->
         IF r.doc.heartbeat = << >> THEN DocumentLine([r EXCEPT !.doc.heartbeat = << s.value >>], s.key) ELSE r
    [] OTHER ->
         IF ~r.declared \/ (s.key \in ChannelKeys /\ r.doc.nodes[r.current].group) THEN Fail(r)
         ELSE IF s.key = "GUIDANCE_TEXT" THEN StoreGuidance(r, s)
         ELSE IF s.key = "SEVRPV"
              THEN IF Option(r.doc.nodes[r.current].directives, s.key) \in {<< >>, << "-" >>}
                   THEN Store(r, s, TRUE) ELSE r
         ELSE Store(r, s, s.key \in Replacing)

(* The files as they are on disk.                                          *)
Kept(r, s) ==
  IF r.file = None \/ s.op = "END" THEN r
  ELSE [r EXCEPT !.doc.files[r.file].text = Append(@, s)]

Named(r, s) == IF s.op = "INCLUDE" /\ s.path = None THEN At(s, Len(r.doc.files) + 1) ELSE s

Statement(r, s) ==
  CASE s.op = "GROUP"   -> Declare(r, TRUE, s)
    [] s.op = "CHANNEL" -> Declare(r, FALSE, s)
    [] s.op = "INCLUDE" -> StartInclude(r, s)
    [] s.op = "END"     -> EndInclude(r)
    [] s.op = "$"       -> ReadDirective(r, s)

Read(r, s) == IF r.failed THEN r ELSE Statement(Kept(r, Named(r, s)), Named(r, s))

Parse(text)     == FoldLeft(Read, ReaderStart, text)
ParseEdit(text) == FoldLeft(Read, [ReaderStart EXCEPT !.markers = TRUE], text)
-----------------------------------------------------------------------------
(* QtALH writes (SourceWriter).  "inline" expands INCLUDE files in place;  *)
(* otherwise each keeps its file, and its INCLUDE line.                    *)

RECURSIVE Reachable(_, _)
Reachable(doc, n) ==
  {n} \cup UNION {Reachable(doc, doc.nodes[n].children[i]) : i \in DOMAIN doc.nodes[n].children}

Root == 1
NodesOf(doc) == Reachable(doc, Root)

RECURSIVE FileChain(_, _)
FileChain(doc, k) == IF k = None THEN << >> ELSE << k >> \o FileChain(doc, doc.files[k].parent)

IncludeLines(doc) ==
  UNION {{doc.nodes[n].includes[i] : i \in DOMAIN doc.nodes[n].includes} : n \in NodesOf(doc)}

(* The group an INCLUDE belongs to.                                        *)
Attached(doc, k) ==
  LET owners == {n \in NodesOf(doc) : \E i \in DOMAIN doc.nodes[n].includes : doc.nodes[n].includes[i].file = k}
  IN IF owners = {} THEN None ELSE CHOOSE n \in owners : TRUE

(* Files that declare a node, with those that include them, and empty ones *)
(* whose group remains.                                                    *)
Declaring(doc) == UNION {ToSet(FileChain(doc, doc.nodes[n].origin)) : n \in NodesOf(doc)}

RECURSIVE Present(_, _)
Present(doc, k) ==
  \/ k \in Declaring(doc)
  \/ /\ \E l \in IncludeLines(doc) : l.file = k /\ l.empty
     /\ doc.files[k].parent = None \/ Present(doc, doc.files[k].parent)

LineKept(doc, l) ==
  IF l.owner = None THEN l.file = None \/ Present(doc, l.file) ELSE l.owner \in NodesOf(doc)

DocumentKeys(doc) == {doc.lines[i].key : i \in {j \in DOMAIN doc.lines : LineKept(doc, doc.lines[j])}}

DocumentValue(doc, key) == IF key = "BEEPSEVERITY" THEN doc.beepSeverity ELSE doc.heartbeat[1]

Put(w, statement) == [w EXCEPT !.out = Append(@, statement)]

PutLine(doc, w, key) == Put(w, Directive(key, DocumentValue(doc, key)))

(* The lines at the top of a file.                                         *)
TopLines(doc, w, file) ==
  FoldLeft(LAMBDA v, l : IF l.owner = None /\ l.file = file THEN PutLine(doc, v, l.key) ELSE v,
           w, doc.lines)

(* A bug: the parent is always written as it was read.                     *)
DeclarationAsRead(doc, w, n) ==
  LET node   == doc.nodes[n]
      parent == IF node.token # Unwritten THEN node.token
                ELSE IF node.parent = None THEN "NULL" ELSE doc.nodes[node.parent].name
  IN IF node.group THEN Group(parent, node.name) ELSE Channel(parent, node.name)

(* The declaration as it was read, while it still reads back the same way. *)
Declaration(doc, w, n) ==
  LET node == doc.nodes[n]
      reads == IF node.token = "NULL" THEN node.group /\ InGroup(doc, w.current) = node.parent
               ELSE node.parent # None /\ FindParent(doc, w.current, node.token) = node.parent
      parent == IF node.token # Unwritten /\ reads THEN node.token
                ELSE IF node.parent = None THEN "NULL" ELSE doc.nodes[node.parent].name
  IN IF node.group THEN Group(parent, node.name) ELSE Channel(parent, node.name)

(* Once a subgroup repeats the name of this group or of one above it, this *)
(* group cannot be named any more: its channels are written first.         *)
Shadowed(doc, n) ==
  \E i \in DOMAIN doc.nodes[n].children : LET child == doc.nodes[doc.nodes[n].children[i]] IN
    child.group /\ Nearest(doc, n, child.name) # None

WriteOrder(doc, n) ==
  LET IsGroup(m) == doc.nodes[m].group
      children   == doc.nodes[n].children
  IN IF Shadowed(doc, n)
     THEN SelectSeq(children, LAMBDA m : ~IsGroup(m)) \o SelectSeq(children, IsGroup) ELSE children

RECURSIVE Visit(_, _, _, _, _, _)
RECURSIVE WriteInclude(_, _, _, _)

WriteFile(doc, inline, file, w) ==
  LET missing == IF file # None \/ doc.beepSeverity <= 1 \/ "BEEPSEVERITY" \in DocumentKeys(doc) THEN w
                 ELSE Put(w, Directive("BEEPSEVERITY", doc.beepSeverity))
  IN Visit(doc, inline, Root, None, file, TopLines(doc, missing, file))

(* The INCLUDE line of a file whose text is written beside the others.     *)
IncludeLine(w, inside, token, path, parent) ==
  [inside EXCEPT !.out = Append(w.out, At(IncludeOf(token), path)),
                 !.files = (path :> inside.out) @@ @, !.current = parent]

WriteInclude(doc, inline, k, w) ==
  LET parent == Attached(doc, k)
      token  == IF parent # None /\ FindParent(doc, w.current, doc.files[k].token) # parent
                THEN doc.nodes[parent].name ELSE doc.files[k].token
      begun  == [w EXCEPT !.written = @ \cup {k}]
  IN IF k \in w.written THEN w
     ELSE IF inline THEN WriteFile(doc, inline, k, begun)
     ELSE IncludeLine(w, WriteFile(doc, inline, k, [begun EXCEPT !.out = << >>, !.current = parent]),
                      token, doc.files[k].path, parent)

(* Document lines and INCLUDE lines that were read among the directives of *)
(* a node and are due once so many directives are written.                 *)
Due(doc, inline, n, file, w, reached) ==
  {[position |-> l.position, sequence |-> l.sequence, key |-> l.key, file |-> None] :
     l \in {l \in ToSet(doc.lines) : /\ l.owner = n /\ l.position \in reached
                                     /\ l.sequence \notin w.placed}}
    \cup
  {[position |-> l.directives, sequence |-> l.sequence, key |-> "INCLUDE", file |-> l.file] :
     l \in {l \in ToSet(doc.nodes[n].includes) :
              /\ ~inline /\ l.directives \in reached
              /\ doc.files[l.file].parent = file /\ Present(doc, l.file)}}

(* A bug: document lines are written before INCLUDE lines.                 *)
InOrderByKind(due) ==
  SetToSortSeq(due, LAMBDA a, b : \/ a.position < b.position
                                  \/ /\ a.position = b.position
                                     /\ a.key # "INCLUDE" /\ b.key = "INCLUDE")

(* Lines read after the same directive keep their order.                   *)
InOrder(due) ==
  SetToSortSeq(due, LAMBDA a, b : \/ a.position < b.position
                                  \/ a.position = b.position /\ a.sequence < b.sequence)

Place(doc, inline, n, file, w, reached) ==
  FoldLeft(LAMBDA v, d : IF d.key = "INCLUDE" THEN WriteInclude(doc, inline, d.file, v)
                         ELSE [PutLine(doc, v, d.key) EXCEPT !.placed = @ \cup {d.sequence}],
           w, InOrder(Due(doc, inline, n, file, w, reached)))

(* What is left goes after the last directive.                             *)
WriteNode(doc, inline, n, file, w) ==
  LET directives == doc.nodes[n].directives
      heartbeat  == n = Root /\ doc.heartbeat # << >> /\ "HEARTBEATPV" \notin DocumentKeys(doc)
      Line(v, d, i) == Put(IF d.read THEN Place(doc, inline, n, file, v, 0 .. i - 1) ELSE v,
                           Directive(d.key, d.value))
      written == FoldLeftDomain(LAMBDA v, i : Line(v, directives[i], i),
                                [Put(w, Declaration(doc, w, n)) EXCEPT !.current = n], directives)
      beat == IF heartbeat
              THEN PutLine(doc, Place(doc, inline, n, file, written, 0 .. Len(directives)), "HEARTBEATPV")
              ELSE written
  IN Place(doc, inline, n, file, beat, Nat)

EmptyFilesAt(doc, inline, n, file, i, w) ==
  LET last == Len(doc.nodes[n].children) IN
  FoldLeft(LAMBDA v, l : IF /\ l.empty
                            /\ doc.files[l.file].parent = file
                            /\ l.directives < 0 \/ inline
                            /\ l.children = i \/ (i = last /\ l.children > last)
                         THEN WriteInclude(doc, inline, l.file, v) ELSE v,
           w, doc.nodes[n].includes)

Visit(doc, inline, n, inherited, file, w) ==
  LET own     == IF doc.nodes[n].origin # None THEN doc.nodes[n].origin ELSE inherited
      entries == SelectSeq(FileChain(doc, own), LAMBDA k : doc.files[k].parent = file)
      order   == WriteOrder(doc, n)
      begun   == IF own = file THEN WriteNode(doc, inline, n, file, w) ELSE w
      Child(v, i) == Visit(doc, inline, order[i], own, file, EmptyFilesAt(doc, inline, n, file, i - 1, v))
  IN IF own # file /\ entries # << >> THEN WriteInclude(doc, inline, entries[1], w)
     ELSE EmptyFilesAt(doc, inline, n, file, Len(order),
                       FoldLeftDomain(Child, begun, order))

(* Nodes in canonical order, each node's channels before its groups: what  *)
(* Save compares before it writes.                                         *)
RECURSIVE CanonicalFrom(_, _, _)
CanonicalFrom(nodes, n, depth) ==
  LET Of(isGroup) ==
        FlattenSeq([i \in DOMAIN nodes[n].children |->
          LET child == nodes[n].children[i]
          IN IF nodes[child].group = isGroup THEN CanonicalFrom(nodes, child, depth + 1) ELSE << >>])
  IN << [group |-> nodes[n].group, name |-> nodes[n].name, depth |-> depth,
         directives |-> nodes[n].directives] >> \o Of(FALSE) \o Of(TRUE)

Canonical(nodes) == IF nodes = << >> THEN << >> ELSE CanonicalFrom(nodes, Root, 0)

Write(doc, inline) ==
  WriteFile(doc, inline, None, [out |-> << >>, files |-> [path \in {} |-> << >>],
                                current |-> None, written |-> {}, placed |-> {}])

AsOneFile(doc) == Write(doc, TRUE).out

(* The texts of the files (writeConfigFiles), that of the main file at     *)
(* None.                                                                   *)
Files(doc) == LET w == Write(doc, FALSE) IN (None :> w.out) @@ w.files

(* What is read from files: each at its INCLUDE line.                      *)
RECURSIVE Joined(_, _)
Joined(files, path) ==
  FlattenSeq([i \in DOMAIN files[path] |->
    LET s == files[path][i]
    IN IF s.op = "INCLUDE" THEN << s >> \o Joined(files, s.path) \o << End >> ELSE << s >>])
=============================================================================
