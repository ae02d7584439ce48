------------------------------ MODULE ConfigEditor ------------------------------
(***************************************************************************)
(* The configuration editor (ui/window.cc with -c): its history of edits   *)
(* and how it saves a document with its INCLUDE files.                     *)
(*                                                                         *)
(* A text is a version of its own lines, the INCLUDE files it names, and   *)
(* the versions of those it contains instead.  A document is the text of   *)
(* its main file with those of its INCLUDE files.  A version stands for    *)
(* lines on disk and for the text the writer makes of what was read from   *)
(* them, which is what the editor compares (rememberIncludes): that the    *)
(* two read back the same is the subject of ConfigFiles.                   *)
(***************************************************************************)
EXTENDS Integers, SequencesExt, FiniteSetsExt, Functions

CONSTANTS
  Includes,      \* INCLUDE files of the configuration
  Mains,         \* paths for Save As that no INCLUDE line names
  Original,      \* where the configuration was opened
  MaximumSnapshots, MaximumBytes,
  Budgets        \* scopes of a behaviour: bounds of what happens, and
                 \* the sizes of a snapshot of a document

VARIABLES
  disk,          \* the text of each path
  doc, filename, modified,
  undo, redo,
  savedIncludes, \* the writer's text of what was read from or written to INCLUDE files
  saving,        \* a save that has not ended
  open,
  edges,         \* edits that were made: what a document was before and after
  foreign,       \* paths another editor wrote since this one read or wrote them
  budget         \* what is left of the bounds

vars == <<disk, doc, filename, modified, undo, redo, savedIncludes, saving, open,
          edges, foreign, budget>>

Paths == Includes \cup Mains \cup {Original}

Empty == [k \in {} |-> 0]
Text(own, includes, parts) == [own |-> own, includes |-> includes, parts |-> parts]
Plain(version) == Text(version, {}, Empty)

(* What a document configures, however it is spread over files.            *)
Merged(f, g) == [k \in DOMAIN f \cup DOMAIN g |-> IF k \in DOMAIN f THEN f[k] ELSE g[k]]
Configuration(d) == [own |-> d.text.own, parts |-> Merged(d.text.parts, d.files)]

Idle == [stage |-> "none"]

Init ==
  /\ disk = [p \in Paths |-> IF p = Original THEN Text(0, Includes, Empty) ELSE Plain(0)]
  /\ doc = [text |-> disk[Original], files |-> [k \in Includes |-> 0], size |-> 1]
  /\ filename = Original /\ modified = FALSE
  /\ undo = << >> /\ redo = << >>
  /\ savedIncludes = doc.files
  /\ saving = Idle /\ open = TRUE
  /\ edges = {} /\ foreign = {}
  /\ budget \in Budgets

Spend(what) == budget[what] > 0 /\ budget' = [budget EXCEPT ![what] = @ - 1]
-----------------------------------------------------------------------------
(* rememberEdit: the result [undo, redo] of pushing a snapshot on a stack. *)
Bytes(s) == FoldLeft(LAMBDA sum, d : sum + d.size, 0, s)

Fits(h) ==
  /\ Len(h.undo) + Len(h.redo) <= MaximumSnapshots
  /\ Bytes(h.undo) + Bytes(h.redo) <= MaximumBytes

(* A history without its n oldest snapshots: those of undo, then those of  *)
(* redo, and the one just added last.                                      *)
Without(h, stack, n) ==
  LET first == Len(h.undo) - (IF stack = "undo" THEN 1 ELSE 0)
      ahead == Min({Len(h.redo), Max({0, n - first})})
  IN [undo |-> SubSeq(h.undo, n - ahead + 1, Len(h.undo)),
      redo |-> SubSeq(h.redo, ahead + 1, Len(h.redo))]

Evicted(h, stack) ==
  LET all    == Len(h.undo) + Len(h.redo)
      fewest == Min({n \in 0 .. all : n = all \/ Fits(Without(h, stack, n))})
  IN Without(h, stack, fewest)

(* A bug: a snapshot that does not fit is left out of the history.         *)
RememberEditSkipping(h, stack, snapshot) ==
  IF snapshot.size > MaximumBytes THEN h ELSE Evicted([h EXCEPT ![stack] = Append(@, snapshot)], stack)

RememberEdit(h, stack, snapshot) ==
  IF snapshot.size > MaximumBytes THEN [undo |-> << >>, redo |-> << >>]
  ELSE Evicted([h EXCEPT ![stack] = Append(@, snapshot)], stack)

TakeHistory(h) == undo' = h.undo /\ redo' = h.redo
-----------------------------------------------------------------------------
(* The edits of a document: lines of its main file or of an INCLUDE file   *)
(* change, or everything an INCLUDE file declared is removed.              *)
Changed(d, v) ==
  {[d EXCEPT !.text.own = v]}
    \cup {[d EXCEPT !.text.parts[k] = v] : k \in DOMAIN d.text.parts}
    \cup {[d EXCEPT !.files[k] = v] : k \in DOMAIN d.files}
    \cup {[d EXCEPT !.text.own = v, !.text.includes = @ \ {k},
                    !.files = Restrict(@, DOMAIN @ \ {k})] : k \in DOMAIN d.files}

(* replace *)
Edit ==
  /\ open /\ saving = Idle
  /\ Spend("edits")
  /\ \E next \in Changed(doc, budget.edits), size \in budget.sizes :
       /\ doc' = [next EXCEPT !.size = size]
       /\ edges' = edges \cup {<<Configuration(doc), Configuration(next)>>}
  /\ TakeHistory(RememberEdit([undo |-> undo, redo |-> << >>], "undo", doc))
  /\ modified' = TRUE
  /\ UNCHANGED <<disk, filename, savedIncludes, saving, open, foreign>>

UndoEdit ==
  /\ open /\ saving = Idle /\ undo # << >>
  /\ TakeHistory(RememberEdit([undo |-> Front(undo), redo |-> redo], "redo", doc))
  /\ doc' = Last(undo)
  /\ modified' = TRUE
  /\ UNCHANGED <<disk, filename, savedIncludes, saving, open, edges, foreign, budget>>

RedoEdit ==
  /\ open /\ saving = Idle /\ redo # << >>
  /\ TakeHistory(RememberEdit([undo |-> undo, redo |-> Front(redo)], "undo", doc))
  /\ doc' = Last(redo)
  /\ modified' = TRUE
  /\ UNCHANGED <<disk, filename, savedIncludes, saving, open, edges, foreign, budget>>
-----------------------------------------------------------------------------
(* saveTo.  A file cannot be written over one that it includes.            *)
Written(path, text) ==
  /\ disk' = [disk EXCEPT ![path] = text]
  /\ foreign' = foreign \ {path}

AsOneFile(d) == Text(d.text.own, {}, Merged(d.text.parts, d.files))

SaveOneFile(path) ==
  /\ path \in doc.text.includes /\ path # filename
  /\ Written(path, AsOneFile(doc))
  /\ doc' = [doc EXCEPT !.text = AsOneFile(doc), !.files = Empty]
  /\ filename' = path /\ savedIncludes' = Empty /\ modified' = FALSE
  /\ UNCHANGED <<undo, redo, saving, open, edges>>

(* INCLUDE files whose text is not what was last read or written.          *)
Rewritten(d) == {k \in DOMAIN d.files : k \notin DOMAIN savedIncludes \/ savedIncludes[k] # d.files[k]}

StartSave(path, closing) ==
  /\ path \notin doc.text.includes
  /\ saving' = [stage |-> IF Rewritten(doc) = {} THEN "copying" ELSE "asking",
                path |-> path, changed |-> Rewritten(doc), written |-> {}, closing |-> closing]
  /\ UNCHANGED <<disk, doc, filename, modified, undo, redo, savedIncludes, open, edges, foreign>>

Save(path, closing) ==
  /\ open /\ saving = Idle
  /\ Spend("saves")
  /\ closing => path = filename
  /\ SaveOneFile(path) \/ StartSave(path, closing)

Confirm ==
  /\ saving.stage = "asking"
  /\ saving' \in {[saving EXCEPT !.stage = "copying"], Idle}
  /\ UNCHANGED <<disk, doc, filename, modified, undo, redo, savedIncludes, open, edges, foreign, budget>>

(* saveConfigTexts: a copy of every file, then one file after the other is *)
(* replaced, the one that reads the others last.                           *)
Copied ==
  /\ saving.stage = "copying"
  /\ saving' = [saving EXCEPT !.stage = "replacing"]
  /\ UNCHANGED <<disk, doc, filename, modified, undo, redo, savedIncludes, open, edges, foreign, budget>>

ReplaceInclude ==
  /\ saving.stage = "replacing"
  /\ \E k \in saving.changed \ saving.written :
       /\ Written(k, Plain(doc.files[k]))
       /\ saving' = [saving EXCEPT !.written = @ \cup {k}]
  /\ UNCHANGED <<doc, filename, modified, undo, redo, savedIncludes, open, edges, budget>>

ReplaceMain ==
  /\ saving.stage = "replacing" /\ saving.written = saving.changed
  /\ Written(saving.path, doc.text)
  /\ filename' = saving.path
  /\ savedIncludes' = doc.files
  /\ modified' = FALSE
  /\ open' = ~saving.closing
  /\ saving' = Idle
  /\ UNCHANGED <<doc, undo, redo, edges, budget>>

(* A bug: what was written before the failure is not taken note of.        *)
FailSaveForgetting ==
  /\ saving.stage \in {"copying", "replacing"}
  /\ Spend("failures")
  /\ saving' = Idle
  /\ UNCHANGED <<disk, doc, filename, modified, undo, redo, savedIncludes, open, edges, foreign>>

(* What is known of INCLUDE files after a failure is what was written.     *)
FailSave ==
  /\ saving.stage \in {"copying", "replacing"}
  /\ Spend("failures")
  /\ savedIncludes' = Restrict(doc.files, saving.written)
  /\ saving' = Idle
  /\ UNCHANGED <<disk, doc, filename, modified, undo, redo, open, edges, foreign>>

(* closeEvent, when there is nothing to save or it is discarded; otherwise *)
(* the editor is left once the save has succeeded.                         *)
Close ==
  /\ open /\ saving = Idle
  /\ open' = FALSE
  /\ UNCHANGED <<disk, doc, filename, modified, undo, redo, savedIncludes, saving, edges, foreign, budget>>

(* Another editor saves an INCLUDE file.                                   *)
SaveForeign(k) ==
  /\ Spend("foreign")
  /\ disk' = [disk EXCEPT ![k] = Plain(-budget.foreign)]
  /\ foreign' = foreign \cup {k}
  /\ UNCHANGED <<doc, filename, modified, undo, redo, savedIncludes, saving, open, edges>>

Next ==
  \/ Edit \/ UndoEdit \/ RedoEdit
  \/ \E path \in Paths, closing \in BOOLEAN : Save(path, closing)
  \/ Confirm \/ Copied \/ ReplaceInclude \/ ReplaceMain \/ FailSave
  \/ Close
  \/ \E k \in Includes : SaveForeign(k)

Spec == Init /\ [][Next]_vars
-----------------------------------------------------------------------------
(* Undo and Redo go from one configuration to the next by edits that were  *)
(* made, in their order: also when old snapshots were evicted, after a     *)
(* large one, and after a save that put the INCLUDE files into one file.   *)
HistoryContiguous ==
  LET line == undo \o << doc >> \o Reverse(redo) IN
  \A i \in 1 .. Len(line) - 1 :
    <<Configuration(line[i]), Configuration(line[i + 1])>> \in edges

(* A document that is not marked modified, as when the editor is left      *)
(* without a question, is on disk with every INCLUDE file, except what     *)
(* another editor has written since: after saves that failed between two   *)
(* files, edits undone after such a save, and INCLUDE files removed and    *)
(* brought back.  The file that reads the others is never ahead of them.   *)
SavedMeansOnDisk ==
  ~modified =>
    /\ disk[filename] = doc.text \/ filename \in foreign
    /\ \A k \in doc.text.includes : disk[k] = Plain(doc.files[k]) \/ k \in foreign

(* Not so: after a save that failed, which may have written nothing, the   *)
(* next one takes every INCLUDE file for changed.                          *)
EditedInclude(k) ==
  \E e \in edges : k \in DOMAIN e[1].parts /\ (k \in DOMAIN e[2].parts => e[1].parts[k] # e[2].parts[k])

UnchangedIncludesKept == saving # Idle => \A k \in saving.changed : EditedInclude(k)
=============================================================================
