------------------------------- MODULE AlarmLog -------------------------------
(***************************************************************************)
(* The alarm log of runtimes that share one file (struct AlarmLogFile and  *)
(* class Logging, qtalh/services/logging.cc) and the live view that        *)
(* follows it (readLiveLog, qtalh/services/log_browser.cc).                *)
(*                                                                         *)
(* The process with the lock writes.  A ring of records is kept in memory  *)
(* and in the file; its position goes to one of two checkpoint slots after *)
(* the record.  A large file is read back by a worker thread, and alarms   *)
(* wait in a spool meanwhile.  Processes may crash between any two writes. *)
(***************************************************************************)
EXTENDS LogRecovery

CONSTANTS
  Processes,
  Windows,         \* what the windows of a process keep of records (-m), 0 for all
  Truncates,       \* neither -T nor -L: a start empties the file
  LargeFile,       \* a file of more cells is read by a worker (1 MiB)
  Torn,            \* a failing write may leave a part of its bytes
  CheckpointFails, \* the checkpoint may be impossible to write
  Times, Sizes,    \* of records
  MaxRecords       \* bound on the number of records

ASSUME LogAssumption ==
  /\ Windows \subseteq SUBSET Nat \ {{}} /\ Times \subseteq Nat \ {0} /\ Sizes \subseteq Nat \ {0}
  /\ Truncates \in BOOLEAN /\ Torn \in BOOLEAN /\ CheckpointFails \in BOOLEAN
  /\ LargeFile \in Nat /\ MaxRecords \in Nat

CONSTANT Nobody
ASSUME NobodyAssumption == Nobody \notin Processes

Limits == UNION Windows

VARIABLES
  disk,        \* the file
  checkpoint,  \* its two slots
  holder,      \* the process with the lock
  proc,        \* the memory of each process
  view,        \* the live view
  accepted,    \* history: the newest record
  failed,      \* history: the records that the last write or acceptance has lost
  saved,       \* history: no ring is known but the one of the checkpoint
  log          \* history: the records that the writer or else a reader has

vars == <<disk, checkpoint, holder, proc, view, accepted, failed, saved, log>>

NoScan == [state |-> "none"]

(* A process that does not run.                                            *)
Down == [up |-> FALSE]

(* A new AlarmLogFile and the Logging objects of the windows that share    *)
(* it.  "limit" -1 means that the file has to be read before a ring is     *)
(* written.                                                                *)
Fresh(limits) ==
  [up |-> TRUE, closing |-> 0, limits |-> limits,
   ring |-> <<>>, limit |-> -1, next |-> 0, offset |-> 0, sequence |-> 0, slot |-> 2,
   rewrite |-> FALSE, scan |-> NoScan, spool |-> <<>>, saving |-> FALSE]

NoView == [offset |-> -1, seen |-> <<>>, checkpoint |-> <<NoSlot, NoSlot>>,
           validated |-> 0, rows |-> <<>>]

Init ==
  /\ disk = <<>> /\ checkpoint = <<NoSlot, NoSlot>>
  /\ holder = Nobody
  /\ proc = [p \in Processes |-> Down]
  /\ view = NoView
  /\ accepted = [id |-> 0, time |-> 0, size |-> 1]
  /\ failed = {} /\ saved = TRUE
  /\ log = <<>>

Running(p) == proc[p].up /\ proc[p].closing = 0
Set(p, q)  == proc' = [proc EXCEPT ![p] = q]
-----------------------------------------------------------------------------
(***************************************************************************)
(* Files.                                                                  *)
(***************************************************************************)
Overwritten(file, at, cells) ==
  SubSeq(file, 1, at) \o cells \o SubSeq(file, at + Len(cells) + 1, Len(file))

(* A record takes the next place of the ring.                              *)
Placed(q, r) ==
  IF q.next < Len(q.ring) THEN [q.ring EXCEPT ![q.next + 1] = CellsOf(r)]
  ELSE Append(q.ring, CellsOf(r))

(* A record of another size than the one it replaces would not fit.        *)
NeedsRewrite(q, r) ==
  q.rewrite \/ (q.next < Len(q.ring) /\ Len(q.ring[q.next + 1]) # r.size)

(* A bug: records of any size are written over each other.                 *)
WrittenInPlace(q, r, file) ==
  IF q.rewrite THEN FlattenSeq(Placed(q, r))
  ELSE Overwritten(file, q.offset, CellsOf(r))

Written(q, r, file) ==
  IF NeedsRewrite(q, r) THEN FlattenSeq(Placed(q, r))
  ELSE Overwritten(file, q.offset, CellsOf(r))

(* What a failing write may leave: a part of its bytes, and after a        *)
(* rewrite the rest of the old file.                                       *)
Partly(q, r, file) ==
  IF ~Torn THEN {file}
  ELSE LET all == IF NeedsRewrite(q, r) THEN FlattenSeq(Placed(q, r)) ELSE CellsOf(r)
           at  == IF NeedsRewrite(q, r) THEN 0 ELSE q.offset
       IN  {Overwritten(file, at, SubSeq(all, 1, k)) :
              k \in 0..(IF NeedsRewrite(q, r) THEN Len(all) ELSE Len(all) - 1)}

(* The memory after a record was placed.                                   *)
Advanced(q, r) ==
  LET ring == Placed(q, r)
      end  == IF NeedsRewrite(q, r) THEN Len(FlattenSeq(SubSeq(ring, 1, q.next + 1)))
              ELSE q.offset + r.size
      wrap == q.next + 1 = q.limit
  IN  [q EXCEPT !.ring = ring, !.rewrite = FALSE,
                !.next   = IF wrap THEN 0 ELSE q.next + 1,
                !.offset = IF wrap THEN 0 ELSE end]

(* The ring found in the file; its first write puts it in order.           *)
Adopted(q, found, m) ==
  [q EXCEPT !.ring = found.records, !.sequence = found.sequence, !.slot = found.slot,
            !.limit = m, !.rewrite = TRUE, !.scan = NoScan,
            !.next = IF Len(found.records) = m THEN 0 ELSE Len(found.records)]

(* What the worker has found is adopted before anything else.              *)
Recovered(q) ==
  IF q.scan.state = "ready" THEN Adopted(q, q.scan.found, q.scan.maximum) ELSE q

ReadNow(q, m) == Adopted(q, Read(disk, checkpoint, m, q.sequence, q.slot), m)
-----------------------------------------------------------------------------
(***************************************************************************)
(* Writing (AlarmLogFile::writeNow).                                       *)
(***************************************************************************)
(* The record is written and its position is still to be saved, or the     *)
(* write fails and the file has to be read again.                          *)
Put(p, q, r) ==
  \/ /\ disk' = Written(q, r, disk)
     /\ Set(p, [Advanced(q, r) EXCEPT !.saving = TRUE])
     /\ saved' = FALSE
     /\ failed' = {}
  \/ /\ disk' \in Partly(q, r, disk)
     /\ Set(p, [Advanced(q, r) EXCEPT !.limit = -1])
     /\ saved' = TRUE
     /\ failed' = {r.id}

(* Everything is kept: the record is appended at the end of the file, and  *)
(* the ring in memory is dropped.                                          *)
AppendTo(p, q, r, file) ==
  /\ Set(p, [q EXCEPT !.limit = -1, !.ring = <<>>, !.rewrite = FALSE])
  /\ saved' = TRUE
  /\ \/ disk' = file \o CellsOf(r) /\ failed' = {}
     \/ /\ failed' = {r.id}
        /\ \E k \in 0..(IF Torn THEN r.size - 1 ELSE 0) :
             disk' = file \o SubSeq(CellsOf(r), 1, k)

(* A ring that was recovered is put in order first; if that fails it stays *)
(* to be written.                                                          *)
FinishThenAppend(p, q, r) ==
  LET all == FlattenSeq(q.ring)
  IN  \/ AppendTo(p, q, r, all)
      \/ /\ disk' \in IF Torn THEN {Overwritten(disk, 0, SubSeq(all, 1, k)) : k \in 0..Len(all)}
                     ELSE {disk}
         /\ Set(p, q)
         /\ failed' = {r.id}
         /\ UNCHANGED saved

(* A record of a window that keeps m records (all, if m is 0) is written   *)
(* with a ring that is known, or read now.                                 *)
WriteNow(p, before, r, m, wait) ==
  LET q == Recovered(before)
  IN  /\ q.scan.state = "none"
      /\ \/ m = 0 /\ ~q.rewrite /\ AppendTo(p, q, r, disk)
         \/ m = 0 /\ q.rewrite /\ FinishThenAppend(p, q, r)
         \/ m # 0 /\ q.limit = m /\ Put(p, q, r)
         \/ /\ m # 0 /\ q.limit # m
            /\ wait \/ Len(disk) <= LargeFile
            /\ Put(p, ReadNow(q, m), r)

(* A record that cannot be written yet: a worker has to read the file, or  *)
(* reading it failed.                                                      *)
CannotWrite(before, m, wait, after) ==
  \/ before.scan.state = "reading" /\ ~wait /\ after = before
  \/ before.scan.state = "failed" /\ after = [before EXCEPT !.scan = NoScan]
  \/ LET q == Recovered(before)
     IN  /\ q.scan.state = "none" /\ m # 0 /\ q.limit # m
         /\ after = IF ~wait /\ Len(disk) > LargeFile
                    THEN [q EXCEPT !.scan = [state |-> "reading", maximum |-> m]]
                    ELSE q

Blocked(q, m) ==
  {Recovered(q), [q EXCEPT !.scan = NoScan], q,
   [Recovered(q) EXCEPT !.scan = [state |-> "reading", maximum |-> m]]}

(* enqueue: the alarm waits with what its window keeps; the spool may be   *)
(* full.                                                                   *)
Spool(p, q, r, m) ==
  /\ \/ Set(p, [q EXCEPT !.spool = Append(@, [record |-> r, maximum |-> m])]) /\ failed' = {}
     \/ Set(p, q) /\ failed' = {r.id}
  /\ UNCHANGED <<disk, saved>>

(* A bug: alarms that come while others wait are written at once.          *)
AlarmOvertaking(p, r, m) ==
  /\ accepted' = r
  /\ \/ WriteNow(p, proc[p], r, m, FALSE)
     \/ \E q \in Blocked(proc[p], m) :
          CannotWrite(proc[p], m, FALSE, q) /\ Spool(p, q, r, m)

(* write: behind a spool alarms wait.                                      *)
AcceptAlarm(p, r, m) ==
  /\ accepted' = r
  /\ \/ proc[p].spool = <<>> /\ WriteNow(p, proc[p], r, m, FALSE)
     \/ /\ proc[p].spool = <<>>
        /\ \E q \in Blocked(proc[p], m) :
             CannotWrite(proc[p], m, FALSE, q) /\ Spool(p, q, r, m)
     \/ proc[p].spool # <<>> /\ Spool(p, proc[p], r, m)

(* Logging::record: only the master writes alarms.                         *)
Alarm(p) ==
  /\ Running(p) /\ holder = p /\ ~proc[p].saving
  /\ accepted.id < MaxRecords
  /\ \E t \in Times, s \in Sizes, m \in proc[p].limits :
       /\ t >= accepted.time
       /\ AcceptAlarm(p, [id |-> accepted.id + 1, time |-> t, size |-> s], m)
  /\ UNCHANGED <<checkpoint, holder, view>>

(* drain: the alarm that waited longest leaves the spool when it was       *)
(* written or its write has failed; a failed scan keeps it.  At the close  *)
(* of the window a second failure gives the spool up.                      *)
Drain(p) ==
  /\ proc[p].up /\ ~proc[p].saving /\ proc[p].spool # <<>>
  /\ LET q     == [proc[p] EXCEPT !.spool = Tail(@)]
         first == Head(proc[p].spool)
         wait  == proc[p].closing > 0
     IN  \/ WriteNow(p, q, first.record, first.maximum, wait)
         \/ \E kept \in Blocked(proc[p], first.maximum) :
              /\ CannotWrite(proc[p], first.maximum, wait, kept)
              /\ IF proc[p].closing = 0
                 THEN Set(p, kept) /\ UNCHANGED failed
                 ELSE IF proc[p].closing = 1
                 THEN Set(p, [kept EXCEPT !.closing = 2]) /\ UNCHANGED failed
                 ELSE /\ Set(p, [kept EXCEPT !.spool = <<>>])
                      /\ failed' = {e.record.id : e \in ToSet(proc[p].spool)}
              /\ UNCHANGED <<disk, saved>>
  /\ UNCHANGED <<checkpoint, holder, view, accepted>>

(* The worker has read the file, or could not.                             *)
ScanEnds(p) ==
  /\ proc[p].up /\ proc[p].scan.state = "reading"
  /\ \/ Set(p, [proc[p] EXCEPT !.scan = [state |-> "failed"]])
     \/ Set(p, [proc[p] EXCEPT !.scan =
          [state |-> "ready", maximum |-> proc[p].scan.maximum,
           found |-> Read(disk, checkpoint, proc[p].scan.maximum, proc[p].sequence, proc[p].slot)]])
  /\ UNCHANGED <<disk, checkpoint, holder, view, accepted, failed, saved>>

PositionOf(q) ==
  [sequence |-> q.sequence, count |-> Len(q.ring), next |-> q.next, digest |-> q.ring]

(* A bug: a failed checkpoint is not counted.                              *)
SavePositionUncounted(p, q) ==
  \/ /\ checkpoint' = [checkpoint EXCEPT ![q.slot] = PositionOf([q EXCEPT !.sequence = @ + 1])]
     /\ Set(p, [q EXCEPT !.saving = FALSE, !.slot = Other(@), !.sequence = @ + 1])
     /\ saved' = TRUE
  \/ /\ CheckpointFails
     /\ checkpoint' \in {checkpoint, [checkpoint EXCEPT ![q.slot] = NoSlot]}
     /\ Set(p, [q EXCEPT !.saving = FALSE])
     /\ UNCHANGED saved

(* savePosition: every record counts; a slot that could not be written     *)
(* is tried again and the other one stays as it was.                       *)
SavePosition(p, q) ==
  LET counted == [q EXCEPT !.sequence = @ + 1, !.saving = FALSE]
  IN  \/ /\ checkpoint' = [checkpoint EXCEPT ![q.slot] = PositionOf(counted)]
         /\ Set(p, [counted EXCEPT !.slot = Other(@)])
         /\ saved' = TRUE
      \/ /\ CheckpointFails
         /\ checkpoint' \in {checkpoint, [checkpoint EXCEPT ![q.slot] = NoSlot]}
         /\ Set(p, counted)
         /\ UNCHANGED saved

Save(p) ==
  /\ proc[p].up /\ proc[p].saving
  /\ SavePosition(p, proc[p])
  /\ UNCHANGED <<disk, holder, view, accepted, failed>>
-----------------------------------------------------------------------------
(***************************************************************************)
(* Processes and their lock.                                               *)
(***************************************************************************)
Start(p) ==
  /\ ~proc[p].up
  /\ \E limits \in Windows : Set(p, Fresh(limits))
  /\ holder' = IF holder = Nobody THEN p ELSE holder
  /\ disk' = IF Truncates THEN <<>> ELSE disk
  /\ saved' = (saved \/ Truncates)
  /\ UNCHANGED <<checkpoint, view, accepted, failed>>

(* tick: the lock is free; the file has changed since this process wrote.  *)
TakeLock(p) ==
  /\ Running(p) /\ holder = Nobody
  /\ holder' = p
  /\ Set(p, [proc[p] EXCEPT !.limit = -1])
  /\ UNCHANGED <<disk, checkpoint, view, accepted, failed, saved>>

(* The window closes: the spool is written before the lock is given back.  *)
Close(p) ==
  /\ Running(p) /\ ~proc[p].saving
  /\ Set(p, [proc[p] EXCEPT !.closing = 1])
  /\ UNCHANGED <<disk, checkpoint, holder, view, accepted, failed, saved>>

(* The process ends.                                                       *)
Leave(p) ==
  /\ Set(p, Down)
  /\ holder' = IF holder = p THEN Nobody ELSE holder
  /\ saved' = (saved \/ holder = p)
  /\ UNCHANGED <<disk, view, accepted, failed>>

Closed(p) ==
  /\ proc[p].up /\ proc[p].closing > 0 /\ proc[p].spool = <<>> /\ ~proc[p].saving
  /\ Leave(p)
  /\ UNCHANGED checkpoint

(* A checkpoint may be torn by the crash.                                  *)
Crash(p) ==
  /\ proc[p].up
  /\ Leave(p)
  /\ \/ UNCHANGED checkpoint
     \/ proc[p].saving /\ checkpoint' = [checkpoint EXCEPT ![proc[p].slot] = NoSlot]
-----------------------------------------------------------------------------
(***************************************************************************)
(* The live view: one poll of readLiveLog.                                 *)
(***************************************************************************)
NewestSlot(ck) ==
  IF ck[1].sequence >= ck[2].sequence THEN ck[1] ELSE ck[2]

(* The file only grew since the last poll.                                 *)
OnlyGrew ==
  LET new == NewestSlot(checkpoint)
      old == NewestSlot(view.checkpoint)
  IN  /\ view.offset >= 0 /\ Len(disk) >= view.offset
      /\ view.offset > 0 => disk[view.offset] = view.seen[view.offset]
      /\ ~(/\ checkpoint # view.checkpoint /\ new # NoSlot /\ old # NoSlot
           /\ new.count <= old.count)
      /\ Len(disk) = view.offset => checkpoint = view.checkpoint /\ disk = view.seen

Looked(validated, rows) ==
  view' = [offset |-> Len(disk), seen |-> disk, checkpoint |-> checkpoint,
           validated |-> validated, rows |-> rows]

(* A line held back is completed by what was appended.                     *)
PollGrowth ==
  LET shown == Len(FlattenSeq(FullLines(view.seen)))
      added == SubSeq(view.seen, shown + 1, view.offset) \o SubSeq(disk, view.offset + 1, Len(disk))
  IN  /\ OnlyGrew /\ Len(disk) > view.offset
      /\ Looked(0, view.rows \o Ids(FullLines(added)))

(* A new snapshot.  With a matching slot the sequence tells how many       *)
(* records are new.                                                        *)
PollSnapshot ==
  LET lines    == FullLines(disk)
      i        == IF Complete(disk) THEN Matching(checkpoint, lines) ELSE 0
      ordered  == IF i # 0 THEN From(lines, checkpoint[i].next) ELSE Chronological(lines)
      sequence == IF i # 0 THEN checkpoint[i].sequence ELSE 0
      added    == sequence - view.validated
  IN  /\ ~OnlyGrew
      /\ Looked(sequence,
           IF /\ i # 0 /\ view.offset >= 0 /\ view.validated # 0
              /\ added \in 1..Len(ordered)
           THEN view.rows \o Ids(LastOf(ordered, added))
           ELSE Ids(ordered))

Poll ==
  /\ PollGrowth \/ PollSnapshot
  /\ UNCHANGED <<disk, checkpoint, holder, proc, accepted, failed, saved>>

(* The holder of the lock knows the ring of the file.                      *)
KnowsRing(h, processes) ==
  h # Nobody /\ processes[h].limit > 0 /\ ~processes[h].rewrite

Ring(q) == From(q.ring, q.next)

(* The records of the log, oldest first.                                   *)
Logged(file, ck, h, processes) ==
  Ids(IF KnowsRing(h, processes) THEN Ring(processes[h]) ELSE Ordered(file, ck))

Next ==
  /\ \/ \E p \in Processes :
          \/ Start(p) \/ TakeLock(p) \/ Alarm(p) \/ Drain(p) \/ ScanEnds(p) \/ Save(p)
          \/ Close(p) \/ Closed(p) \/ Crash(p)
     \/ Poll
  /\ log' = Logged(disk', checkpoint', holder', proc')

Spec == Init /\ [][Next]_vars
-----------------------------------------------------------------------------
(***************************************************************************)
(* Properties.                                                             *)
(***************************************************************************)
(* The records of a reader's file, oldest first.                           *)
Found == Ids(Ordered(disk, checkpoint))

InTimeOrder(ring) ==
  \A i, j \in DOMAIN ring : i < j => TimeOf(ring[i]) < TimeOf(ring[j])

(* RecoverableOrder: a process that has to read the file finds exactly the *)
(* ring of the process that wrote it, in its order, if the position was    *)
(* saved or the times are in that order: wrapped, after a changed limit,   *)
(* with slots that could not be written and after torn writes.             *)
RecoverableOrder ==
  LET ring == Ring(proc[holder])
  IN  KnowsRing(holder, proc) /\ (saved \/ InTimeOrder(ring)) =>
        Ordered(disk, checkpoint) = ring

(* The records that the file has and did not have at the last poll.        *)
NewRecords ==
  LET before == ToSet(Ids(Ordered(view.seen, view.checkpoint)))
  IN  SelectSeq(Found, LAMBDA id : id \notin before)

(* LiveViewFaithful: whenever the view has matched a checkpoint, it either *)
(* shows the records of the file afresh, or it has added exactly those     *)
(* that are new: each once, none left out, and what it shows ends with the *)
(* records of the file in their order, through wraps, crashes and          *)
(* checkpoints that could not be written.                                  *)
LiveViewFaithful ==
  [][view' # view /\ view'.validated # 0 =>
       /\ view'.rows \in {Found, view.rows \o NewRecords}
       /\ IsSuffix(Found, view'.rows)]_vars

(* LiveViewKeepsOrder: with a valid checkpoint the view shows the records  *)
(* of a ring in the order of their insertion, also after it wrapped.       *)
LiveViewKeepsOrder ==
  [][view' # view /\ disk # <<>> /\ Matching(checkpoint, Records(disk)) # 0 =>
       IsSuffix(Found, view'.rows)]_vars

(***************************************************************************)
(* The log implements AlarmHistory.                                        *)
(***************************************************************************)
Waiting == IF holder = Nobody THEN <<>>
           ELSE [i \in 1..Len(proc[holder].spool) |-> proc[holder].spool[i].record.id]

(* What a ring keeps that the writer will write before anything else.      *)
Recovering ==
  IF holder = Nobody THEN 0
  ELSE LET q == Recovered(proc[holder]) IN IF q.rewrite THEN q.limit ELSE 0

History == INSTANCE AlarmHistory WITH
  queue <- Waiting, last <- accepted.id, turned <- Ids(Records(disk)) # log,
  recovered <- Recovering

(* LogImplementsHistory: a record whose write did not fail reaches the log *)
(* once and behind those accepted before it, spooled or not, and the log   *)
(* keeps the newest ones; a failed write, a crash, a hand-over and a       *)
(* restart with another limit leave it as it was if the position was       *)
(* saved, and else lose at most where a ring begins.  Only torn writes     *)
(* disturb it, and a ring that is continued without a limit.               *)
LogImplementsHistory == History!Spec

(* ContinuedInOrder: "This also preserves order if windows sharing a file  *)
(* choose different limits" (qtalh/services/logging.cc:417).  It does for  *)
(* a ring that was just recovered; one that the process knows and that has *)
(* wrapped is appended to as it is.                                        *)
ContinuedInOrder ==
  [][accepted' # accepted /\ failed' = failed /\ Waiting' = Waiting =>
       log' # <<>> /\ log'[Len(log')] = accepted'.id]_vars
=============================================================================
