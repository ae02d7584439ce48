------------------------------ MODULE LogRecovery ------------------------------
(***************************************************************************)
(* The alarm log file and its two checkpoints, and how a writer and a      *)
(* reader find the order of the records again (qtalh/services              *)
(* log_recovery.h, log_browser.cc).                                        *)
(*                                                                         *)
(* A file is a sequence of cells.  A record of size n is n cells, the      *)
(* first of which begins with a time and the last of which ends the line,  *)
(* so that a torn write leaves part of a record.  The fingerprint of a     *)
(* file stands for its records and their places.                           *)
(***************************************************************************)
EXTENDS Integers, FiniteSets, Sequences, SequencesExt

CellsOf(r) == [k \in 1..r.size |-> [record |-> r, part |-> k]]

EndsLine(c) == c.part = c.record.size

(* recordStart: a line that begins with a time.                            *)
RecordStarts(file) ==
  {i \in 1..Len(file) : i = 1 \/ (file[i].part = 1 /\ EndsLine(file[i - 1]))}

LineStarts(file) == {i \in 1..Len(file) : i = 1 \/ EndsLine(file[i - 1])}

(* The file cut before every position of "starts".                         *)
Cut(file, starts) ==
  LET s == SelectSeq([i \in 1..Len(file) |-> i], LAMBDA i : i \in starts)
  IN  [n \in 1..Len(s) |->
        SubSeq(file, s[n], IF n = Len(s) THEN Len(file) ELSE s[n + 1] - 1)]

Records(file) == Cut(file, RecordStarts(file))

(* 0 is no time.                                                           *)
TimeOf(cells) == IF cells[1].part = 1 THEN cells[1].record.time ELSE 0

Whole(cells) == cells = CellsOf(cells[1].record)

(* A record that is read back becomes one line.  Of one that is not whole  *)
(* no more than the time is kept here.                                     *)
Repaired(cells) ==
  IF Whole(cells) THEN cells
  ELSE CellsOf([id |-> 0, time |-> TimeOf(cells), size |-> Len(cells)])

Ids(records) == [n \in 1..Len(records) |->
                  IF Whole(records[n]) THEN records[n][1].record.id ELSE 0]

NoSlot == [sequence |-> 0]

Slots == {1, 2}
Other(i) == 3 - i

Matches(slot, records) ==
  slot # NoSlot /\ slot.count = Len(records) /\ slot.digest = records

(* The newest slot that describes the file, or 0.                          *)
Matching(checkpoint, records) ==
  LET good == {i \in Slots : Matches(checkpoint[i], records)}
  IN  IF good = {} THEN 0
      ELSE CHOOSE i \in good : \A j \in good :
             \/ checkpoint[i].sequence > checkpoint[j].sequence
             \/ checkpoint[i].sequence = checkpoint[j].sequence /\ i <= j

(* The records from place "next" (counted from 0) on, then those before.   *)
From(records, next) ==
  IF next >= Len(records) THEN records
  ELSE SubSeq(records, next + 1, Len(records)) \o SubSeq(records, 1, next)

(* Without a matching slot the oldest time begins the log.                 *)
OldestTime(records) ==
  LET timed == {i \in 1..Len(records) : TimeOf(records[i]) # 0}
  IN  IF timed = {} THEN 0
      ELSE (CHOOSE i \in timed : \A j \in timed :
              \/ TimeOf(records[i]) < TimeOf(records[j])
              \/ TimeOf(records[i]) = TimeOf(records[j]) /\ i <= j) - 1

(* What a writer finds in the file, oldest first.                          *)
Ordered(file, checkpoint) ==
  LET records == Records(file)
      i       == Matching(checkpoint, records)
  IN  From(records, IF i # 0 THEN checkpoint[i].next ELSE OldestTime(records))

LastOf(s, n) == IF Len(s) <= n THEN s ELSE SubSeq(s, Len(s) - n + 1, Len(s))

(* logRecovery::read.  A log without a matching slot continues with a      *)
(* sequence that is more than a whole file away from the newest one.       *)
Read(file, checkpoint, maximum, sequence, slot) ==
  LET records  == Records(file)
      matching == Matching(checkpoint, records)
      ahead    == {i \in Slots : checkpoint[i].sequence > sequence}
      newest   == IF ahead = {} THEN 0
                  ELSE CHOOSE i \in ahead : \A j \in ahead :
                         checkpoint[i].sequence >= checkpoint[j].sequence
      reached  == IF newest = 0 THEN sequence ELSE checkpoint[newest].sequence
      kept     == LastOf(Ordered(file, checkpoint), maximum)
  IN  [records  |-> [n \in 1..Len(kept) |-> Repaired(kept[n])],
       sequence |-> IF matching = 0 /\ reached > 0 THEN reached + Len(records) + 1 ELSE reached,
       slot     |-> IF matching # 0 THEN Other(matching)
                    ELSE IF newest # 0 THEN Other(newest) ELSE slot]

(* The lines of a file for the live view; a last line without an end is    *)
(* held back.                                                              *)
Lines(file)    == Cut(file, LineStarts(file))
Complete(file) == file = <<>> \/ EndsLine(file[Len(file)])
FullLines(file) == IF Complete(file) THEN Lines(file) ELSE Front(Lines(file))

(* TimestampTail: sorted by time; a line without one follows its record.   *)
Chronological(lines) ==
  LET time[n \in 0..Len(lines)] ==
        IF n = 0 THEN 0 ELSE IF TimeOf(lines[n]) # 0 THEN TimeOf(lines[n]) ELSE time[n - 1]
      order == SortSeq([n \in 1..Len(lines) |-> n],
                 LAMBDA i, j : time[i] < time[j] \/ (time[i] = time[j] /\ i < j))
  IN  [n \in 1..Len(lines) |-> lines[order[n]]]
=============================================================================
